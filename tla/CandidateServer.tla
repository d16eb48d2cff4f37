--------------------------- MODULE CandidateServer ---------------------------
(***************************************************************************)
(* The whole server: ElectionServer with the candidate ledger.  The two    *)
(* halves share the connection, the settings row and the process.          *)
(***************************************************************************)
EXTENDS ElectionServer, CandidateLedgerService, Integers

CONSTANTS CandidateOperations, \* which candidate handlers the administrator uses
          SubmittedTypes,      \* which transactions are submitted
          Names,               \* names given to candidates
          Descriptions         \* descriptions given to candidates

CandidateHandlers == {"submitTransaction", "resync", "migrateLegacy"}

ASSUME CandidateAssumption ==
    /\ CandidateOperations \subseteq CandidateHandlers
    /\ SubmittedTypes \subseteq TX_TYPES
    /\ NULL \notin Names \cup Descriptions

allVars == <<vars, candidateVars>>

(***************************************************************************)
(* Requests.                                                               *)
(***************************************************************************)
Transactions == {TxOf(b) : b \in {candidateChain[i] : i \in 2..Len(candidateChain)}}

\* The ids there may be, and those of transactions on the ledger.
RowIds == Requests \X (Candidates \cup {NULL})
Refs   == {CandidateRef(i[1], i[2]) : i \in RowIds}
TxIds  == {TxId(i[1], i[2]) : i \in RowIds}

KnownRefs  == {ref \in Refs : \E tx \in Transactions : tx.candidate_ref = ref}
KnownTxIds == {id \in TxIds : \E tx \in Transactions : tx.tx_id = id}

Submission(tx_type, ref, nama, deskripsi, void_tx_id, reason) ==
    [op |-> "submitTransaction", tx_type |-> tx_type, candidate_ref |-> ref, nama |-> nama,
     deskripsi |-> deskripsi, void_tx_id |-> void_tx_id, reason |-> reason, after |-> Answered]

\* What the administrator may send: the fields each type of transaction looks
\* at, or none of those it requires.
Submissions ==
    LET N == Names \cup {NULL}
        D == Descriptions \cup {NULL}
    IN  {Submission("CANDIDATE_CREATE", NULL, n, d, NULL, FALSE) : n \in Names, d \in D}
        \cup {Submission("CANDIDATE_UPDATE", c, n, d, NULL, FALSE) :
                 c \in KnownRefs, n \in Names, d \in D}
        \cup {Submission(t, c, NULL, NULL, NULL, FALSE) :
                 t \in {"CANDIDATE_DEACTIVATE", "CANDIDATE_REACTIVATE"}, c \in KnownRefs}
        \cup {Submission("CANDIDATE_CORRECTION", c, n, d, NULL, TRUE) :
                 c \in KnownRefs, n \in N, d \in D}
        \cup {Submission("CANDIDATE_VOID", c, NULL, NULL, v, TRUE) :
                 c \in KnownRefs, v \in KnownTxIds \cup {NULL}}
        \cup {Submission(t, c, NULL, NULL, NULL, FALSE) :
                 t \in {"CANDIDATE_UPDATE", "CANDIDATE_CORRECTION", "CANDIDATE_VOID"},
                 c \in KnownRefs}
        \cup {Submission(t, NULL, NULL, NULL, NULL, FALSE) :
                 t \in {"CANDIDATE_CREATE", "CANDIDATE_UPDATE"}}

CandidateInputs ==
    [op : {"submitTransaction"}, tx_type : TX_TYPES, candidate_ref : Refs \cup {NULL},
     nama : Names \cup {NULL}, deskripsi : Descriptions \cup {NULL},
     void_tx_id : TxIds \cup {NULL}, reason : BOOLEAN, after : SUBSET Requests]
        \cup [op : {"resync", "migrateLegacy"}, after : SUBSET Requests]

\* null is none of these records either, nor an id of a row or a transaction;
\* the table of candidates has finitely many rows.
ASSUME CandidateNullAssumption ==
    /\ NULL \notin CandidateInputs /\ NULL \notin Refs \cup TxIds
    /\ IsFiniteSet(Candidates)

\* The id of a row that is inserted is fresh (AUTO_INCREMENT), so none of those
\* from before the migration.
ASSUME FreshIdAssumption == Candidates \cap Refs = {}

CandidateArrives(r, input, query) ==
    /\ up
    /\ input.op \in CandidateOperations
    /\ req[r] = NULL
    /\ req' = [req EXCEPT ![r] = input]
    /\ queue' = Append(queue, query)
    /\ UNCHANGED <<db, chain, reply, faults, lifecycle, candidateVars>>

SubmitArrives(r) ==
    \E input \in Submissions :
        /\ input.tx_type \in SubmittedTypes
        /\ CandidateArrives(r, input, Query(r, "SELECT lock", NULL))

\* The replay is made in the handler itself.
ResyncArrives(r) ==
    CandidateArrives(r, [op |-> "resync", after |-> Answered], Resync(r))

MigrateArrives(r) ==
    CandidateArrives(r, [op |-> "migrateLegacy", after |-> Answered],
                     Query(r, "SELECT legacy", NULL))

CandidateArrive(r) == SubmitArrives(r) \/ ResyncArrives(r) \/ MigrateArrives(r)

(***************************************************************************)
(* The process.                                                            *)
(***************************************************************************)
CandidateServe(r) ==
    /\ up
    /\ Submit(r) \/ Project(r) \/ Migrate(r)
    /\ UNCHANGED lifecycle

ServeAny(r) ==
    \/ Serve(r) /\ UNCHANGED candidateVars
    \/ CandidateServe(r)
    \/ FatalError(r) /\ candidateChain' = <<>> /\ UNCHANGED candidateTables

\* As Crash, when the statement under way is a candidate handler's.
CandidateCrash ==
    /\ up
    /\ crashes < MaxCrashes
    /\ crashes' = crashes + 1
    /\ queue # <<>>
    /\ ~RejectedCandidates(Head(queue))
    /\ PerformCandidates(Head(queue))
    /\ UNCHANGED db
    /\ ProcessEnds

CrashAny ==
    /\ \/ Crash /\ UNCHANGED candidateTables
       \/ CandidateCrash
    /\ candidateChain' = <<>>

CandidateBlocksAfterBoot ==
    IF candidate_blocks = <<>> THEN <<BootGenesis>> ELSE candidate_blocks

RestartAny ==
    /\ Restart
    /\ candidate_blocks' = CandidateBlocksAfterBoot
    /\ candidateChain' \in LoadOrders(CandidateBlocksAfterBoot)
    /\ UNCHANGED <<candidates, sync_state>>

CandidateInit ==
    /\ Init
    /\ candidates = [c \in Candidates |-> LegacyRow(c)]
    /\ sync_state = -1
    /\ candidate_blocks = <<BootGenesis>>
    /\ candidateChain = candidate_blocks

CandidateNext ==
    \/ \E r \in Requests :
          \/ Arrive(r) /\ UNCHANGED candidateVars
          \/ CandidateArrive(r)
          \/ ServeAny(r)
    \/ CrashAny
    \/ RestartAny

CandidateSpec == CandidateInit /\ [][CandidateNext]_allVars

\* Node drains its queue of statements while it lives; nothing obliges a
\* client to send a request, a killed process to be started again.
FairCandidateSpec == CandidateSpec /\ WF_allVars(\E r \in Requests : ServeAny(r))

\* The administration page as one person uses it: the next request is sent
\* when the last one has been answered.
Pending == {r \in Requests : req[r] # NULL /\ reply[r] = NULL}

OneAdministrator == \A r, s \in Pending : r = s

SerialCandidateSpec == CandidateInit /\ [][CandidateNext /\ OneAdministrator']_allVars

(***************************************************************************)
(* Types.                                                                  *)
(***************************************************************************)
RowNames == Names \cup Candidates

Rows ==
    [candidate_ref : {NULL}, nama : Candidates, deskripsi : {NULL}, status : {"ACTIVE"},
     last_tx_id : {NULL}, verified_at_block_index : {NULL}]
        \cup [candidate_ref : Refs, nama : RowNames, deskripsi : Descriptions \cup {NULL},
              status : {"ACTIVE", "INACTIVE"}, last_tx_id : TxIds, verified_at_block_index : Nat]

TransactionsOK(s) ==
    \A i \in 2..Len(s) :
        LET tx == TxOf(s[i])
        IN  /\ tx.tx_id \in TxIds
            /\ tx.candidate_ref \in Refs
            /\ tx.tx_type \in SubmittedTypes \cup {"CANDIDATE_CREATE"}
            /\ tx.tx_type \in {"CANDIDATE_CREATE", "CANDIDATE_UPDATE"} => tx.nama \in RowNames
            /\ tx.prev_tx_ref \in TxIds \cup {NULL}

\* The tables keep their schema; a row is either from before the migration or
\* has everything a transaction gives it; no candidate is created or renamed
\* without a name.
CandidatesTypeOK ==
    /\ candidates \in [DOMAIN candidates -> Rows]
    /\ DOMAIN candidates \subseteq Candidates \cup Refs
    /\ sync_state \in Nat \cup {-1}
    /\ TransactionsOK(candidate_blocks)
    /\ TransactionsOK(candidateChain)

(***************************************************************************)
(* The ledger.                                                             *)
(***************************************************************************)
RequestOf(b) == b.timestamp[1]

TxIndices == 2..Len(candidateChain)

TxAt(i) == TxOf(candidateChain[i])

\* While the election is open the ledger takes corrections and voids only.
\* The lock is read up to three statements before the block is added, so this
\* is about requests that overlap no toggle of the election.
LockIsHonoured ==
    TogglesApart /\ (\A t \in Toggles : reply[t] # "connection lost") =>
        \A i \in TxIndices :
            LET r == RequestOf(candidateChain[i])
            IN  /\ \A t \in Toggles : Apart(r, t)
                /\ TxAt(i).tx_type \in LOCKED_FORBIDDEN_TYPES
                => ~OpenAfter(Toggles \cap req[r].after)

MigrationsApart ==
    \A r, s \in Requests :
        Sent(r, "migrateLegacy") /\ Sent(s, "migrateLegacy") /\ r # s => Apart(r, s)

\* prev_tx_ref is read from the projection and runs through the ledger: from
\* any transaction it leads to an earlier one of the same candidate, through
\* overlapping requests, resyncs, and failed projections or crashes.  (After a
\* failure a crash, or the end of the process in an uncaught error of castVote,
\* may lose a block that a resync has put into the rows from memory, and two
\* overlapping migrations give one row two candidate_refs.)
HistoryRefersBack ==
    (faults = 0 \/ (crashes = 0 /\ NobodyCutOff)) /\ MigrationsApart =>
        \A i \in TxIndices : TxAt(i).tx_type # "CANDIDATE_CREATE" =>
            \E j \in 2..(i - 1) :
                /\ TxAt(j).tx_id = TxAt(i).prev_tx_ref
                /\ TxAt(j).candidate_ref = TxAt(i).candidate_ref

\* Nothing has failed and the process has not been killed.
Undisturbed == faults = 0 /\ crashes = 0

\* Every legacy row is put on the ledger by one CREATE, however often the
\* migration is run (one administrator, no failure).
MigrationRegistersOnce ==
    Undisturbed => \A i, j \in TxIndices :
        LET row(k) == candidateChain[k].timestamp[2]
        IN  row(i) # NULL /\ row(i) = row(j) => i = j

(***************************************************************************)
(* The projection.                                                         *)
(***************************************************************************)
Projected(row) == \E id \in DOMAIN candidates : candidates[id] = row

Replayed(s) == LET rows == Replay(s) IN {rows[i] : i \in DOMAIN rows}

\* No VOID has ever left a candidate without transactions or without a name.
Intact ==
    \A n \in TxIndices :
        LET rows == Replayed(SubSeq(candidateChain, 1, n))
        IN  \A i \in 2..n : \E row \in rows :
                row.candidate_ref = TxAt(i).candidate_ref /\ row.nama # NULL

\* Two ways to the same table: the rows that transactions leave one after
\* another, with a full resync after each VOID, are those of a replay of the
\* ledger (one administrator, no failure).
ProjectionIsReplay ==
    Undisturbed /\ Pending = {} /\ Intact => \A row \in Replayed(candidateChain) : Projected(row)

\* A resync by itself repairs whatever failures and crashes have left: when it
\* answers ok, the table holds the replay of the ledger.
ResyncRepairs ==
    [][ \A r \in Requests :
            Sent(r, "resync") /\ reply[r] = NULL /\ reply'[r] = "ok"
                => \A row \in Replayed(candidateChain) : Projected(row)' ]_allVars

\* The fold of resyncFromGenesis gives each field the value given to it last
\* by a transaction that counts.
ReplayIsLastValue ==
    \A row \in Replayed(candidateChain) : row = LastValues(candidateChain, row.candidate_ref)

\* A row never runs ahead of the table of blocks: last_tx_id is in the block
\* verified_at_block_index names, saved, and is of this candidate.  Resyncs
\* read the chain in memory, where blocks are before they are saved.  (After a
\* failed INSERT they stay there.)
RowsAreBacked ==
    faults = 0 => \A id \in DOMAIN candidates :
        LET row == candidates[id]
        IN  row.candidate_ref # NULL =>
                \E i \in 2..Len(candidate_blocks) :
                    /\ candidate_blocks[i].index = row.verified_at_block_index
                    /\ TxOf(candidate_blocks[i]).tx_id = row.last_tx_id
                    /\ TxOf(candidate_blocks[i]).candidate_ref = row.candidate_ref

\* "Transactions that are voided do not take part in the final state", as the
\* test of resyncFromGenesis puts it: no row is the work of one.
VoidedLeaveNoTrace ==
    up /\ Pending = {} /\ faults = 0 =>
        \A id \in DOMAIN candidates :
            candidates[id].last_tx_id \notin VoidedTxIds(candidateChain)
=============================================================================
