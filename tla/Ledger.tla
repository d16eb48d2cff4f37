------------------------------- MODULE Ledger -------------------------------
(***************************************************************************)
(* The hash chain of blockchain/blockchain.js with the signatures of       *)
(* blockchain/keys.js and the Merkle root of blockchain/merkle.js, as      *)
(* operators on sequences of blocks.                                       *)
(*                                                                         *)
(* Digests are symbolic: a digest IS what was hashed, so two inputs have   *)
(* one digest only if they are equal (SHA-256 taken as free of             *)
(* collisions).  A block hash covers the previous hash, hence unfolds to   *)
(* the list of everything hashed since the genesis block.  A signature is  *)
(* the key pair that made it with the signed data (RSA taken as            *)
(* unforgeable); a key pair is represented by one value.                   *)
(*                                                                         *)
(* A block of this program holds one transaction (`transactions` is always *)
(* [data]), so the Merkle root is the digest of that one leaf.             *)
(***************************************************************************)
EXTENDS Naturals, Sequences

CONSTANT NULL   \* SQL's and JavaScript's null

MerkleRoot(data) == <<"sha256", data>>

VerifyMerkleRoot(data, root) == MerkleRoot(data) = root

SignData(key, data) == <<key, data>>

VerifySignature(publicKey, data, signature) ==
    /\ publicKey # NULL
    /\ signature # NULL
    /\ signature = SignData(publicKey, data)

\* SHA256(index + previousHash + timestamp + merkleRoot); the previous hash
\* has a fixed width in the source, so the concatenation is unambiguous.
CalculateHash(b) ==
    Append(b.previousHash, <<b.index, b.timestamp, b.merkleRoot>>)

Block(index, timestamp, data, previousHash, signature, publicKey) ==
    LET body == [index        |-> index,
                 timestamp    |-> timestamp,
                 data         |-> data,
                 previousHash |-> previousHash,
                 signature    |-> signature,
                 publicKey    |-> publicKey,
                 merkleRoot   |-> MerkleRoot(data),
                 hash         |-> <<>>]
    IN  [body EXCEPT !.hash = CalculateHash(body)]

NoHash == <<>>                  \* "0", the genesis block's previous hash
GenesisData == <<"Genesis Block">>

GenesisBlock(timestamp) == Block(0, timestamp, GenesisData, NoHash, NULL, NULL)

GetLatestBlock(chain) == chain[Len(chain)]

\* A slip in addBlock: the hash of the constructor is kept.
Link_StaleHash(chain, b) == [b EXCEPT !.previousHash = GetLatestBlock(chain).hash]

\* What addBlock makes of a new block before it pushes it: the index is the
\* one given to the constructor, the link and the hash are set on the chain.
Link(chain, b) ==
    LET linked == [b EXCEPT !.previousHash = GetLatestBlock(chain).hash]
    IN  [linked EXCEPT !.hash = CalculateHash(linked)]

\* The signed block a handler builds on a chain, `new Block(chain.length, ...)`
\* with the empty previous hash, and links with addBlock.
NewBlock(chain, timestamp, data, key) ==
    Link(chain, Block(Len(chain), timestamp, data, NoHash, SignData(key, data), key))

\* A validation of hashes and links only.
ValidLink_HashOnly(prev, curr) ==
    /\ curr.hash = CalculateHash(curr)
    /\ curr.previousHash = prev.hash

\* Two neighbouring blocks of a valid chain.
ValidLink(prev, curr) ==
    /\ curr.hash = CalculateHash(curr)
    /\ curr.previousHash = prev.hash
    /\ VerifyMerkleRoot(curr.data, curr.merkleRoot)
    /\ VerifySignature(curr.publicKey, curr.data, curr.signature)

\* The genesis block itself is not examined, as in the source.
IsChainValid(chain) ==
    \A i \in 2..Len(chain) : ValidLink(chain[i - 1], chain[i])

\* hackBlock replaces the data of a block in memory and leaves its Merkle
\* root, hash and signature alone; index 0 and indices past the end are
\* ignored.  Position i + 1 of the sequence is index i of the array.
HackBlock(chain, index, newData) ==
    IF index > 0 /\ index < Len(chain)
    THEN [chain EXCEPT ![index + 1].data = newData]
    ELSE chain

\* SELECT * ... ORDER BY block_index ASC: the rows in an order that sorts
\* their indices; rows with equal indices come in any order.
LoadOrders(rows) ==
    LET n == Len(rows)
        Sorted(p) == \A i, j \in 1..n :
                        i < j => /\ p[i] # p[j]
                                 /\ rows[p[i]].index <= rows[p[j]].index
    IN  { [i \in 1..n |-> rows[p[i]]] : p \in { p \in [1..n -> 1..n] : Sorted(p) } }
=============================================================================
