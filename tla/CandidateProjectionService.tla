--------------------- MODULE CandidateProjectionService ---------------------
(***************************************************************************)
(* services/candidateProjectionService.js: table candidates follows the    *)
(* candidate ledger, transaction by transaction or by a replay of the      *)
(* chain in memory.                                                        *)
(***************************************************************************)
EXTENDS CandidateStore

\* The rows a handler has yet to write, and the block index to note at the
\* end: of its transaction, or NULL for a resync, which takes the latest then.
Upsert(r, rows, index) == Query(r, "SELECT id", [rows |-> rows, index |-> index])

LatestBlockIndex == GetLatestBlock(candidateChain).index

NoteProgress(r, index) ==
    Query(r, "UPDATE sync_state", IF index = NULL THEN LatestBlockIndex ELSE index)

\* What follows when `rows` remain to be written.
Write(r, rows, index) == IF rows = <<>> THEN NoteProgress(r, index) ELSE Upsert(r, rows, index)

\* resyncFromGenesis replays what is in memory when it is called.
Resync(r) == Write(r, Replay(candidateChain), NULL)

\* syncAfterTransaction, called when block b is saved.
SyncAfterTransaction(r, b) ==
    IF TxOf(b).tx_type = "CANDIDATE_VOID" THEN Resync(r) ELSE Query(r, "SELECT row", b)

\* The index of the latest block taken for that of the transaction.
RowRead_LatestIndex(r) ==
    /\ Runs(r, "SELECT row")
    /\ LET tx == TxOf(Head(queue).block)
           at == RowsOf(tx.candidate_ref)
           s  == IF at = {} THEN Blank ELSE candidates[CHOOSE id \in at : TRUE]
           next == ApplyTxToState([f \in DOMAIN Blank |-> s[f]], tx)
       IN  Issue(<<Upsert(r, <<Row(tx, next, LatestBlockIndex)>>, LatestBlockIndex)>>)
    /\ UNCHANGED <<chain, reply, candidateChain>>

\* projectSingleTransaction: the transaction applied to the row as it is now.
RowRead(r) ==
    /\ Runs(r, "SELECT row")
    /\ LET b  == Head(queue).block
           tx == TxOf(b)
           at == RowsOf(tx.candidate_ref)
           s  == IF at = {} THEN Blank ELSE candidates[CHOOSE id \in at : TRUE]
           next == ApplyTxToState([f \in DOMAIN Blank |-> s[f]], tx)
       IN  Issue(<<Upsert(r, <<Row(tx, next, b.index)>>, b.index)>>)
    /\ UNCHANGED <<chain, reply, candidateChain>>

IdRead(r) ==
    /\ Runs(r, "SELECT id")
    /\ LET exists == RowsOf(Head(Head(queue).block.rows).candidate_ref) # {}
       IN  Continue(r, IF exists THEN "UPDATE candidates" ELSE "INSERT candidates",
                    Head(queue).block)

\* A resync that stops at the first row.
RowWritten_FirstOnly(r) ==
    /\ Runs(r, "UPDATE candidates") \/ Runs(r, "INSERT candidates")
    /\ Issue(<<NoteProgress(r, Head(queue).block.index)>>)
    /\ UNCHANGED <<chain, reply, candidateChain>>

RowWritten(r) ==
    /\ Runs(r, "UPDATE candidates") \/ Runs(r, "INSERT candidates")
    /\ LET c == Head(queue).block IN Issue(<<Write(r, Tail(c.rows), c.index)>>)
    /\ UNCHANGED <<chain, reply, candidateChain>>

ProgressNoted(r) ==
    /\ Runs(r, "UPDATE sync_state")
    /\ Respond(r, "ok")

\* The error caught and the client forgotten.
NotProjected_Silent(r) ==
    /\ \/ Refused(r, "SELECT row")        \/ Refused(r, "SELECT id")
       \/ Refused(r, "UPDATE candidates") \/ Refused(r, "INSERT candidates")
       \/ Refused(r, "UPDATE sync_state")
    /\ Issue(<<>>)
    /\ UNCHANGED <<chain, reply, candidateChain>>

\* The transaction is on the ledger all the same; a resync only failed.
NotProjected(r) ==
    /\ \/ Refused(r, "SELECT row")        \/ Refused(r, "SELECT id")
       \/ Refused(r, "UPDATE candidates") \/ Refused(r, "INSERT candidates")
       \/ Refused(r, "UPDATE sync_state")
    /\ Respond(r, IF req[r].op = "resync" THEN "Gagal melakukan resync" ELSE "warning")

Project(r) ==
    \/ RowRead(r)       \/ IdRead(r)       \/ RowWritten(r)
    \/ ProgressNoted(r) \/ NotProjected(r)
=============================================================================
