------------------------------- MODULE Merkle -------------------------------
(***************************************************************************)
(* The Merkle trees of blockchain/merkle.js, for lists of transactions of  *)
(* any length, with symbolic digests as in Ledger.                         *)
(***************************************************************************)
EXTENDS Naturals, Sequences

HashTransaction(tx) == <<"sha256", tx>>

HashPair(left, right) == <<"sha256", left, right>>

EmptyRoot == <<"sha256">>

\* A last node without a partner goes up as it is.
NextLayer_LastPromoted(layer) ==
    [i \in 1..(Len(layer) + 1) \div 2 |->
        IF 2 * i <= Len(layer) THEN HashPair(layer[2 * i - 1], layer[2 * i])
                               ELSE layer[2 * i - 1]]

\* The loop stops before a last node without a partner.
NextLayer_LastDropped(layer) ==
    [i \in 1..(IF Len(layer) = 1 THEN 1 ELSE Len(layer) \div 2) |->
        HashPair(layer[2 * i - 1], layer[IF Len(layer) = 1 THEN 1 ELSE 2 * i])]

\* Nodes are hashed in pairs; a last node without a partner with itself.
NextLayer(layer) ==
    [i \in 1..(Len(layer) + 1) \div 2 |->
        HashPair(layer[2 * i - 1], layer[IF 2 * i <= Len(layer) THEN 2 * i ELSE 2 * i - 1])]

\* All layers, the leaves first.  A list of n transactions takes fewer than n
\* rounds of the loop.
BuildMerkleTree(transactions) ==
    LET leaves == [i \in DOMAIN transactions |-> HashTransaction(transactions[i])]
        layers[n \in 0..Len(transactions)] ==
            IF n = 0 THEN <<leaves>>
            ELSE LET below == layers[n - 1]
                     layer == below[Len(below)]
                 IN  IF Len(layer) = 1 THEN below ELSE Append(below, NextLayer(layer))
    IN  IF transactions = <<>> THEN << <<EmptyRoot>> >> ELSE layers[Len(transactions)]

GetMerkleRoot(transactions) ==
    LET layers == BuildMerkleTree(transactions) IN layers[Len(layers)][1]

\* The sibling of a node: a last node without a partner is its own.
Sibling(layer, index) ==
    LET isRight == index % 2 = 1
        pair    == IF isRight THEN index - 1 ELSE index + 1
    IN  [hash     |-> layer[(IF pair < Len(layer) THEN pair ELSE index) + 1],
         position |-> IF isRight THEN "left" ELSE "right"]

\* The siblings on the way from a transaction to the root; indices are those
\* of the source, from 0.
GetMerkleProof(transactions, txIndex) ==
    LET layers == BuildMerkleTree(transactions)
        index[level \in 0..Len(layers)] ==
            IF level = 0 THEN txIndex ELSE index[level - 1] \div 2
    IN  [level \in 1..Len(layers) - 1 |-> Sibling(layers[level], index[level - 1])]

Up(hash, step) ==
    IF step.position = "left" THEN HashPair(step.hash, hash) ELSE HashPair(hash, step.hash)

VerifyMerkleProof(tx, proof, expectedRoot) ==
    LET computedHash[n \in 0..Len(proof)] ==
            IF n = 0 THEN HashTransaction(tx) ELSE Up(computedHash[n - 1], proof[n])
    IN  computedHash[Len(proof)] = expectedRoot

(***************************************************************************)
(* What the trees promise, against a definition that goes from the root    *)
(* down: the leaves of the complete tree a list is filled up to.           *)
(***************************************************************************)
\* The widths of the layers above n leaves, and where there is one node left.
Widths(n) ==
    LET width[level \in 0..n] == IF level = 0 THEN n ELSE (width[level - 1] + 1) \div 2
    IN  width

Height(n) == CHOOSE h \in 0..n : Widths(n)[h] = 1 /\ \A k \in 0..h - 1 : Widths(n)[k] # 1

\* A turn to the left (0) or to the right (1), where there is the same node
\* again if it is the last one.
Child(node, turn, width) ==
    LET next == 2 * node + turn IN IF next < width THEN next ELSE next - 1

\* The leaf that a path of turns from the root ends in.
LeafAt(n, path) ==
    LET place[depth \in 0..Height(n)] ==
            IF depth = 0 THEN 0
            ELSE Child(place[depth - 1], path[depth], Widths(n)[Height(n) - depth])
    IN  place[Height(n)]

FilledUp(list) ==
    [path \in [1..Height(Len(list)) -> {0, 1}] |-> list[LeafAt(Len(list), path) + 1]]

\* The proof of a place is for the transaction in it and for no other.
ProofsVerifyFor(list, transactions) ==
    \A i \in 0..Len(list) - 1 : \A tx \in transactions :
        VerifyMerkleProof(tx, GetMerkleProof(list, i), GetMerkleRoot(list))
            <=> tx = list[i + 1]

\* Two lists have one root only if they fill up to one complete tree.
RootsBindFor(a, b) ==
    GetMerkleRoot(a) = GetMerkleRoot(b)
        <=> IF a = <<>> \/ b = <<>> THEN a = b ELSE FilledUp(a) = FilledUp(b)
=============================================================================
