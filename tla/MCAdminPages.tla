---------------------------- MODULE MCAdminPages ----------------------------
(***************************************************************************)
(* Small instances of the administrator's pages for TLC, and of the Merkle *)
(* trees the explorer shows.  The parts share nothing, so one of them runs *)
(* at a time.                                                              *)
(***************************************************************************)
EXTENDS AuditLogPage, ExplorerPage, ElectionWindow, TLC

CONSTANTS Parts,            \* which parts run
          Transactions,     \* of the lists of which trees are built
          MaxTransactions   \* bound: length of such a list

ASSUME AdminPagesAssumption ==
    /\ Parts \subseteq {"audit log", "explorer", "schedule", "window", "status", "merkle"}
    /\ MaxTransactions \in Nat

VARIABLES part,         \* the part that runs
          transactions  \* a list of transactions, any up to the bound

merkleVars == transactions
pagesVars  == <<part, logVars, explorerVars, windowVars, merkleVars>>

PagesInit ==
    /\ part \in Parts
    /\ LogInit
    /\ ExplorerInit
    /\ WindowInit
    /\ part \notin {"schedule", "window"} => zone = CHOOSE z \in Zones : TRUE
    /\ transactions = <<>>

AddTransaction ==
    /\ Len(transactions) < MaxTransactions
    /\ \E tx \in Transactions : transactions' = Append(transactions, tx)

UnderWay(kind) == \E post \in DOMAIN posts : post.kind = kind

\* The election page in three parts: times are loaded, typed and saved, by a clock
\* that stands still; what was saved is in force while time passes, others toggle
\* the status and voters vote; the button is clicked over a form that stays empty.
SchedulePart == part = "schedule" /\ UNCHANGED clock /\ WindowNext
                    /\ ~UnderWay("toggle")' /\ ~UnderWay("elsewhere")'

WindowPart == part = "window" /\ WindowNext /\ ~UnderWay("toggle")' /\ ~UnderWay("load")'

StatusPart == part = "status" /\ UNCHANGED form /\ WindowNext

PagesNext ==
    /\ UNCHANGED part
    /\ \/ /\ part = "audit log" /\ LogNext
          /\ UNCHANGED <<explorerVars, windowVars, merkleVars>>
       \/ /\ part = "explorer" /\ ExplorerNext
          /\ UNCHANGED <<logVars, windowVars, merkleVars>>
       \/ /\ SchedulePart \/ WindowPart \/ StatusPart
          /\ UNCHANGED <<logVars, explorerVars, merkleVars>>
       \/ /\ part = "merkle" /\ AddTransaction
          /\ UNCHANGED <<logVars, explorerVars, windowVars>>

PagesSpec == PagesInit /\ [][PagesNext]_pagesVars

Symmetry == Permutations(Actions)

\* Each endpoint of the explorer by itself finds a block that was changed in
\* memory, and no other.
TamperedBlockIsFound == part = "explorer" => TamperedBlocksAreFound

\* getMerkleProof and verifyMerkleProof agree: the proof of a place convinces
\* of the transaction in that place and of no other, for lists of every shape.
ProofsVerify == ProofsVerifyFor(transactions, Transactions)

\* "If one transaction changes, the root differs": equal roots mean equal lists,
\* but for the last nodes that are doubled ([a,b,c] and [a,b,c,c] share one).
RootsBind == part = "merkle" =>
    \A n \in 0..MaxTransactions : \A other \in [1..n -> Transactions] :
        RootsBindFor(transactions, other)
=============================================================================
