---------------------------- MODULE ExplorerPage ----------------------------
(***************************************************************************)
(* The chain explorer: explorerController.js, whose handlers read the      *)
(* chains in memory and answer at once, and the page public/explorer.js,   *)
(* whose requests overlap and are answered in any order while blocks are   *)
(* added, tampered with or thrown away.                                    *)
(***************************************************************************)
EXTENDS Ledger, Merkle, Bags, BagsExt, FiniteSetsExt

CONSTANTS ExplorerLedgers, \* of LEDGER_MAP: "vote", "candidate", "audit"
          ListLimit,       \* blocks the page asks for: 200
          MaxBlocks,       \* bound: length of a chain
          MaxResets,       \* bound: resets of the vote ledger
          MaxAnswers       \* bound: requests of the page under way at a time

ASSUME ExplorerAssumption ==
    /\ "vote" \in ExplorerLedgers
    /\ {ListLimit, MaxBlocks, MaxAnswers} \subseteq Nat \ {0}
    /\ MaxResets \in Nat

\* null is no key, and no signature of a block that the model adds.
ASSUME KeyAssumption ==
    /\ NULL # "key"
    /\ \A l \in ExplorerLedgers, era \in 0..MaxResets, n \in 1..MaxBlocks :
          NULL # SignData("key", <<l, era, n>>)

VARIABLES ledgers,  \* the chains in memory
          tampered, \* history: indices of blocks changed since they were added
          resets,   \* resets of the vote ledger so far
          current,  \* currentLedger
          list,     \* the answer the table of blocks is made of, or NULL
          status,   \* the badge: the ledger it is about and whether it is valid, or NULL
          modal,    \* the detail: the row clicked, which gives the title, and the body
          calls     \* bag of requests under way

server == <<ledgers, tampered, resets>>
screen == <<current, list, status, modal>>
explorerVars == <<server, screen, calls>>

(***************************************************************************)
(* The handlers.                                                           *)
(***************************************************************************)
\* Position n + 1 of a chain is chain[n] of the source.
BlockAt(l, n) == ledgers[l][n + 1]

Indices(l) == 0..Len(ledgers[l]) - 1

\* Blocks numbered by their place in the page.
ListBlocks_RowNumbers(l, page, limit) ==
    LET start  == (page - 1) * limit
        blocks == SubSeq(ledgers[l], start + 1, Min({start + limit, Len(ledgers[l])}))
    IN  [i \in DOMAIN blocks |-> [index |-> i, hash |-> blocks[i].hash]]

ListBlocks(l, page, limit) ==
    LET start  == (page - 1) * limit
        blocks == SubSeq(ledgers[l], start + 1, Min({start + limit, Len(ledgers[l])}))
    IN  [i \in DOMAIN blocks |-> [index |-> blocks[i].index, hash |-> blocks[i].hash]]

GetBlockDetail(l, n) == IF n \in Indices(l) THEN BlockAt(l, n) ELSE NULL

GetMerkleTree(l, n) == GetMerkleRoot(<<BlockAt(l, n).data>>)

GetMerkleProofForTx(l, n) ==
    [transaction |-> BlockAt(l, n).data,
     proof       |-> GetMerkleProof(<<BlockAt(l, n).data>>, 0),
     root        |-> BlockAt(l, n).merkleRoot]

VerifyBlockSignature(l, n) ==
    LET b == BlockAt(l, n) IN VerifySignature(b.publicKey, b.data, b.signature)

GetHealth == [l \in ExplorerLedgers |-> IsChainValid(ledgers[l])]

(***************************************************************************)
(* What goes on in the server meanwhile.                                   *)
(***************************************************************************)
Genesis(era) == GenesisBlock(<<era, 0>>)

\* A vote, a candidate's transaction or an audit record; `key` is the voter's
\* or the system's.
NextBlock(chain, l, era) ==
    NewBlock(chain, <<era, Len(chain)>>, <<l, era, Len(chain)>>, "key")

AddBlock(l) ==
    /\ Len(ledgers[l]) < MaxBlocks
    /\ ledgers' = [ledgers EXCEPT ![l] = Append(@, NextBlock(@, l, resets))]
    /\ UNCHANGED <<tampered, resets, screen, calls>>

Tamper ==
    /\ Len(ledgers["vote"]) > 1
    /\ ledgers' = [ledgers EXCEPT !["vote"] = HackBlock(@, 1, <<"vote", 999, 999>>)]
    /\ tampered' = [tampered EXCEPT !["vote"] = @ \cup {1}]
    /\ UNCHANGED <<resets, screen, calls>>

ResetChain ==
    /\ resets < MaxResets
    /\ resets' = resets + 1
    /\ ledgers' = [ledgers EXCEPT !["vote"] = <<Genesis(resets')>>]
    /\ tampered' = [tampered EXCEPT !["vote"] = {}]
    /\ UNCHANGED <<screen, calls>>

(***************************************************************************)
(* The page.                                                               *)
(***************************************************************************)
AllIn == calls = EmptyBag

\* `alone`: from when it is sent until it is answered, nothing else is asked.
Call(kind, l, n) ==
    [kind |-> kind, ledger |-> l, index |-> n, alone |-> TRUE, answer |-> NULL, era |-> NULL]

Asks(new) ==
    /\ BagCardinality(calls) + Cardinality(new) <= MaxAnswers
    /\ calls' = BagOfAll(LAMBDA c : [c EXCEPT !.alone = FALSE], calls)
                    (+) SetToBag({[c EXCEPT !.alone = AllIn] : c \in new})

\* loadChainStatus, which asks about all ledgers, and the fetch of loadBlockList.
Loads(l) == {Call("health", l, NULL), Call("list", l, NULL)}

LoadBlockList(l) ==
    /\ modal = NULL
    /\ current' = l
    /\ list' = NULL
    /\ Asks(Loads(l))
    /\ UNCHANGED <<server, status, modal>>

\* `Muat Ulang`, and a choice in ledgerSelect.
Reload == LoadBlockList(current)

LedgerSelected == \E l \in ExplorerLedgers \ {current} : LoadBlockList(l)

\* The modal covers the page until it is closed.
ShowBlockDetail(i) ==
    /\ list # NULL /\ modal = NULL
    /\ i \in DOMAIN list.answer
    /\ modal' = [row |-> list.answer[i], ledger |-> list.ledger, era |-> list.era,
                 body |-> NULL, alone |-> list.alone /\ AllIn]
    /\ Asks({Call("detail", current, list.answer[i].index)})
    /\ UNCHANGED <<server, current, list, status>>

CloseDetail ==
    /\ modal # NULL
    /\ modal' = NULL
    /\ UNCHANGED <<server, current, list, status, calls>>

Answer(call) ==
    CASE call.kind = "health" -> GetHealth
      [] call.kind = "list"   -> ListBlocks(call.ledger, 1, ListLimit)
      [] call.kind = "detail" -> GetBlockDetail(call.ledger, call.index)

Serve(c) ==
    /\ c.era = NULL
    /\ calls' = BagAdd(BagRemove(calls, c), [c EXCEPT !.answer = Answer(c), !.era = resets])
    /\ UNCHANGED <<server, screen>>

\* Who the page says signed the block.
Validator(l, index) ==
    IF index = 0 THEN "-" ELSE IF l = "vote" THEN "Voter" ELSE "Sistem"

\* Nobody sees what is written into a closed modal.
Filled(body) == IF modal = NULL THEN NULL ELSE [modal EXCEPT !.body = body]

\* The ledger selected when the status was asked for.
BadgeLedger_AsAsked(call) == call.ledger

\* The ledger selected by now.
BadgeLedger(call) == current

\* An answer does not say which ledger it is of: the page goes by `current`.
Display(call) ==
    \/ /\ call.kind = "health"
       /\ status' = [ledger |-> BadgeLedger(call), valid |-> call.answer[BadgeLedger(call)]]
       /\ UNCHANGED <<list, modal>>
    \/ /\ call.kind = "list"
       /\ list' = call
       /\ UNCHANGED <<status, modal>>
    \/ /\ call.kind = "detail"
       /\ modal' = Filled(IF call.answer = NULL THEN NULL
                          ELSE [hash  |-> call.answer.hash, era |-> call.era,
                                label |-> Validator(current, call.answer.index)])
       /\ UNCHANGED <<list, status>>

CallAnswered(c) ==
    /\ c.era # NULL
    /\ Display(c)
    /\ calls' = BagRemove(calls, c)
    /\ UNCHANGED <<server, current>>

\* A request that is lost, before or after the handler; the page says so.
CallFails(c) ==
    /\ c.era = NULL
    /\ calls' = BagRemove(calls, c)
    /\ status' = IF c.kind = "health" THEN NULL ELSE status
    /\ list'   = IF c.kind = "list" THEN NULL ELSE list
    /\ modal'  = IF c.kind = "detail" THEN Filled(NULL) ELSE modal
    /\ UNCHANGED <<server, current>>

\* The administrator has logged in, which is a block of the audit ledger.
ExplorerInit ==
    /\ ledgers = [l \in ExplorerLedgers |->
                     IF l = "audit"
                     THEN Append(<<Genesis(0)>>, NextBlock(<<Genesis(0)>>, l, 0))
                     ELSE <<Genesis(0)>>]
    /\ tampered = [l \in ExplorerLedgers |-> {}]
    /\ resets = 0
    /\ current = "vote"
    /\ list = NULL /\ status = NULL /\ modal = NULL
    /\ calls = SetToBag(Loads(current))

ExplorerNext ==
    \/ \E l \in ExplorerLedgers : AddBlock(l)
    \/ Tamper \/ ResetChain
    \/ Reload \/ LedgerSelected
    \/ \E i \in 1..ListLimit : ShowBlockDetail(i)
    \/ CloseDetail
    \/ \E c \in DOMAIN calls : Serve(c) \/ CallAnswered(c) \/ CallFails(c)

ExplorerSpec == ExplorerInit /\ [][ExplorerNext]_explorerVars

(***************************************************************************)
(* Properties.                                                             *)
(***************************************************************************)
\* The detail is of the block in the row that
\* was clicked and names the signer of that ledger, whatever is added or
\* tampered with meanwhile, for an administrator who waits for each answer and
\* unless the ledger was reset between the list and the click.
DetailIsOfTheRow ==
    modal # NULL /\ modal.alone /\ modal.body # NULL =>
        \/ modal.body.era # modal.era
        \/ /\ modal.body.hash = modal.row.hash
           /\ modal.body.label = Validator(modal.ledger, modal.row.index)

\* Lists overtake each other, the badge does not mind: when all answers are in
\* it is about the ledger that is selected.
BadgeIsOfTheLedger ==
    AllIn /\ status # NULL => status.ledger = current

\* Each endpoint by itself finds a block that was changed in memory, and no
\* other: the signature, the Merkle root and the proof of its transaction fail
\* for that block, and the health of that ledger with them.
TamperedBlocksAreFound ==
    \A l \in ExplorerLedgers :
        /\ GetHealth[l] <=> tampered[l] = {}
        /\ \A n \in Indices(l) \ {0} :
              LET p == GetMerkleProofForTx(l, n)
              IN  /\ VerifyBlockSignature(l, n) <=> n \notin tampered[l]
                  /\ GetMerkleTree(l, n) = BlockAt(l, n).merkleRoot <=> n \notin tampered[l]
                  /\ VerifyMerkleProof(p.transaction, p.proof, p.root) <=> n \notin tampered[l]
=============================================================================
