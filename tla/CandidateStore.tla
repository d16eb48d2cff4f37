--------------------------- MODULE CandidateStore ---------------------------
(***************************************************************************)
(* The tables of sql/migration_candidate_ledger.sql, the candidate ledger  *)
(* in memory and the statements the candidate handlers issue.  They travel *)
(* on the connection of module Database, in the queue of every handler.    *)
(*                                                                         *)
(* The third field of a queue entry holds what the handler still needs     *)
(* after the statement: the lock it read, the block it stores, the rows it *)
(* has yet to write.                                                       *)
(***************************************************************************)
EXTENDS Database, CandidateTransactions

VARIABLES candidates,       \* table candidates: a row per id
          sync_state,       \* last_synced_block_index of its one row, -1 at first
          candidate_blocks, \* table candidate_ledger_blocks, in insertion order
          candidateChain    \* candidateChain.chain, in memory

candidateTables == <<candidates, sync_state, candidate_blocks>>
candidateVars   == <<candidateTables, candidateChain>>

\* A row from before the migration: the id stands for its name, too.
LegacyRow(c) ==
    [candidate_ref |-> NULL, nama |-> c, deskripsi |-> NULL, status |-> "ACTIVE",
     last_tx_id |-> NULL, verified_at_block_index |-> NULL]

RowsOf(ref) == {id \in DOMAIN candidates : candidates[id].candidate_ref = ref}

LegacyRows == RowsOf(NULL)

(***************************************************************************)
(* Statements.                                                             *)
(***************************************************************************)
ReadCandidates(q) ==
    /\ q.stmt \in {"SELECT lock", "SELECT existing", "SELECT last_tx_id",
                   "SELECT row", "SELECT id", "SELECT legacy"}
    /\ UNCHANGED candidateTables

SaveTxBlock(q) ==
    /\ q.stmt = "INSERT candidate_ledger_blocks"
    /\ candidate_blocks' = Append(candidate_blocks, q.block.block)
    /\ UNCHANGED <<candidates, sync_state>>

\* An inserted row gets a fresh id; candidate_ref is UNIQUE and names it here.
InsertCandidate(q) ==
    /\ q.stmt = "INSERT candidates"
    /\ LET row == Head(q.block.rows)
       IN  candidates' = [id \in DOMAIN candidates \cup {row.candidate_ref} |->
                             IF id = row.candidate_ref THEN row ELSE candidates[id]]
    /\ UNCHANGED <<sync_state, candidate_blocks>>

\* UPDATE candidates without its column status.
UpdateCandidate_StatusKept(q) ==
    /\ q.stmt = "UPDATE candidates"
    /\ LET row == Head(q.block.rows)
       IN  candidates' = [id \in DOMAIN candidates |->
                             IF id \in RowsOf(row.candidate_ref)
                             THEN [row EXCEPT !.status = candidates[id].status]
                             ELSE candidates[id]]
    /\ UNCHANGED <<sync_state, candidate_blocks>>

\* A row that has lost its candidate_ref in the meantime is not an error.
UpdateCandidate(q) ==
    /\ q.stmt = "UPDATE candidates"
    /\ LET row == Head(q.block.rows)
       IN  candidates' = [id \in DOMAIN candidates |->
                             IF id \in RowsOf(row.candidate_ref) THEN row ELSE candidates[id]]
    /\ UNCHANGED <<sync_state, candidate_blocks>>

\* The row noted as verified and not given its candidate_ref.
AdoptLegacy_RefForgotten(q) ==
    /\ q.stmt = "UPDATE legacy"
    /\ candidates' = [candidates EXCEPT ![Head(q.block.rows)].verified_at_block_index =
                          q.block.block.index]
    /\ UNCHANGED <<sync_state, candidate_blocks>>

\* The migration ties the row of a legacy candidate to its new transaction.
AdoptLegacy(q) ==
    /\ q.stmt = "UPDATE legacy"
    /\ LET tx == TxOf(q.block.block)
           id == Head(q.block.rows)
       IN  candidates' = [candidates EXCEPT
               ![id] = [@ EXCEPT !.candidate_ref = tx.candidate_ref, !.status = "ACTIVE",
                                 !.last_tx_id = tx.tx_id,
                                 !.verified_at_block_index = q.block.block.index]]
    /\ UNCHANGED <<sync_state, candidate_blocks>>

UpdateSyncState(q) ==
    /\ q.stmt = "UPDATE sync_state"
    /\ sync_state' = q.block
    /\ UNCHANGED <<candidates, candidate_blocks>>

PerformCandidates(q) ==
    \/ ReadCandidates(q)  \/ SaveTxBlock(q) \/ InsertCandidate(q)
    \/ UpdateCandidate(q) \/ AdoptLegacy(q) \/ UpdateSyncState(q)

\* Constraints: block_index and candidate_ref are UNIQUE, nama_kandidat is NOT
\* NULL (in an UPDATE only if there is a row to update).
RejectedCandidates(q) ==
    \/ /\ q.stmt = "INSERT candidate_ledger_blocks"
       /\ \E i \in DOMAIN candidate_blocks : candidate_blocks[i].index = q.block.block.index
    \/ /\ q.stmt = "INSERT candidates"
       /\ \/ Head(q.block.rows).nama = NULL
          \/ RowsOf(Head(q.block.rows).candidate_ref) # {}
    \/ /\ q.stmt = "UPDATE candidates"
       /\ Head(q.block.rows).nama = NULL
       /\ RowsOf(Head(q.block.rows).candidate_ref) # {}
    \/ /\ q.stmt = "UPDATE legacy"
       /\ RowsOf(TxOf(q.block.block).candidate_ref) \ {Head(q.block.rows)} # {}

(***************************************************************************)
(* A statement of a candidate handler and how its callback ends.           *)
(***************************************************************************)
Runs(r, stmt) ==
    /\ Executes(r, stmt)
    /\ ~RejectedCandidates(Head(queue))
    /\ PerformCandidates(Head(queue))
    /\ UNCHANGED <<db, req, faults>>

Refused(r, stmt) ==
    /\ Executes(r, stmt)
    /\ \/ RejectedCandidates(Head(queue)) /\ UNCHANGED faults
       \/ faults < MaxFaults /\ faults' = faults + 1
    /\ UNCHANGED <<db, req, candidateTables>>

Continue(r, stmt, context) ==
    /\ Proceed(r, stmt, context)
    /\ UNCHANGED candidateChain

Respond(r, message) ==
    /\ Answer(r, message)
    /\ UNCHANGED candidateChain
=============================================================================
