------------------------------ MODULE Database ------------------------------
(***************************************************************************)
(* What the request handlers of the server share: the MySQL tables, the    *)
(* one connection of config/db.js, the chains held in memory and the       *)
(* requests being served.                                                  *)
(*                                                                         *)
(* config/db.js opens ONE connection (createConnection, no pool).  The     *)
(* driver sends a statement when the one before it has been answered, so   *)
(* statements run in the order in which handlers issued them and the       *)
(* program is a FIFO queue of statements.  One step of the program runs    *)
(* the statement at the head of the queue together with its callback: the  *)
(* callback runs on Node's single thread before the next statement's       *)
(* answer can arrive, with the promise continuations it resolves.          *)
(*                                                                         *)
(* A handler has at most one statement outstanding (but for the unawaited  *)
(* key update of castVote), so its program point is its queue entry.       *)
(***************************************************************************)
EXTENDS Ledger

CONSTANTS Users,         \* ids of rows of `users`
          Candidates,    \* ids of rows of `candidates`
          BadCandidates, \* candidate ids a client may send that have no row
          Requests,      \* HTTP requests that change state, each served once
          MaxFaults      \* bound: statements that fail for no reason of their own

ASSUME DatabaseAssumption ==
    /\ MaxFaults \in Nat
    /\ NULL \notin Users \cup Requests \cup Candidates
    /\ Candidates \cap BadCandidates = {}

VARIABLES users,       \* table users: a row per registered id
          votes,       \* table votes: a set of rows
          settings,    \* the one row of table election_settings
          blocks,      \* tables blockchain and audit_ledger_blocks, in insertion order
          audit_logs,  \* table audit_logs: a set of rows
          chain,       \* votingChain.chain and auditChain.chain, in memory
          queue,       \* statements issued on the connection, oldest first
          req,         \* each request's input, NULL until it arrives
          reply,       \* what the client was told, NULL until it is
          faults       \* statements failed so far

db     == <<users, votes, settings, blocks, audit_logs>>
memory == <<chain, queue>>
shared == <<db, memory, req, reply, faults>>

VoteLedger  == "blockchain"
AuditLedger == "audit_ledger_blocks"
Ledgers     == {VoteLedger, AuditLedger}

(***************************************************************************)
(* Statements.                                                             *)
(***************************************************************************)
\* A statement's parameters come from its request; `block` is the row of a
\* block to store, or for INSERT audit_logs the stored block it names.
Query(r, stmt, block) == [req |-> r, stmt |-> stmt, block |-> block]

InsertBlockStmt(l) == IF l = VoteLedger THEN "INSERT blockchain"
                                        ELSE "INSERT audit_ledger_blocks"

Read(q) ==
    /\ q.stmt \in {"SELECT settings", "SELECT sudah_vote",
                   "SELECT candidate", "SELECT is_open"}
    /\ UNCHANGED db

InsertVote(q) ==
    /\ q.stmt = "INSERT votes"
    /\ votes' = votes \cup {[req |-> q.req, user |-> req[q.req].user,
                             candidate |-> req[q.req].candidate]}
    /\ UNCHANGED <<users, settings, blocks, audit_logs>>

\* The users a statement without or with a WHERE clause is about.
Scope(r) == IF req[r].op = "resetAll" THEN Users ELSE {req[r].user}

\* DELETE FROM votes with the WHERE clause forgotten.
DeleteVotes_NoWhere(q) ==
    /\ q.stmt = "DELETE votes"
    /\ votes' = {}
    /\ UNCHANGED <<users, settings, blocks, audit_logs>>

DeleteVotes(q) ==
    /\ q.stmt = "DELETE votes"
    /\ votes' = {v \in votes : v.user \notin Scope(q.req)}
    /\ UNCHANGED <<users, settings, blocks, audit_logs>>

\* The flag of castVote written with the value of the resets.
UpdateFlag_AlwaysClears(q) ==
    /\ q.stmt \in {"SET sudah_vote", "CLEAR sudah_vote"}
    /\ users' = [u \in DOMAIN users |->
                    IF u \in Scope(q.req) THEN [users[u] EXCEPT !.sudah_vote = FALSE]
                                          ELSE users[u]]
    /\ UNCHANGED <<votes, settings, blocks, audit_logs>>

\* UPDATE users SET sudah_vote: TRUE for a vote, FALSE for a reset; users
\* without a row are not an error.
UpdateFlag(q) ==
    /\ q.stmt \in {"SET sudah_vote", "CLEAR sudah_vote"}
    /\ users' = [u \in DOMAIN users |->
                    IF u \in Scope(q.req)
                    THEN [users[u] EXCEPT !.sudah_vote = (q.stmt = "SET sudah_vote")]
                    ELSE users[u]]
    /\ UNCHANGED <<votes, settings, blocks, audit_logs>>

GeneratedKey(r) == <<"generated", r>>

UpdateKeys(q) ==
    /\ q.stmt = "UPDATE keys"
    /\ users' = [u \in DOMAIN users |->
                    IF u = req[q.req].user
                    THEN [users[u] EXCEPT !.public_key = GeneratedKey(q.req)]
                    ELSE users[u]]
    /\ UNCHANGED <<votes, settings, blocks, audit_logs>>

\* ON DELETE CASCADE takes the user's votes along.
DeleteUser(q) ==
    /\ q.stmt = "DELETE users"
    /\ users' = [u \in DOMAIN users \ {req[q.req].user} |-> users[u]]
    /\ votes' = {v \in votes : v.user # req[q.req].user}
    /\ UNCHANGED <<settings, blocks, audit_logs>>

UpdateIsOpen(q) ==
    /\ q.stmt \in {"SET is_open", "CLEAR is_open"}
    /\ settings' = [settings EXCEPT !.is_open = (q.stmt = "SET is_open")]
    /\ UNCHANGED <<users, votes, blocks, audit_logs>>

SaveBlock(q) ==
    \E l \in Ledgers :
        /\ q.stmt = InsertBlockStmt(l)
        /\ blocks' = [blocks EXCEPT ![l] = Append(@, q.block)]
        /\ UNCHANGED <<users, votes, settings, audit_logs>>

\* DELETE FROM the table with the genesis block spared.
DeleteBlocks_GenesisSpared(q) ==
    /\ q.stmt = "DELETE blockchain"
    /\ blocks' = [blocks EXCEPT ![VoteLedger] = SelectSeq(@, LAMBDA b : b.index = 0)]
    /\ UNCHANGED <<users, votes, settings, audit_logs>>

DeleteBlocks(q) ==
    /\ q.stmt = "DELETE blockchain"
    /\ blocks' = [blocks EXCEPT ![VoteLedger] = <<>>]
    /\ UNCHANGED <<users, votes, settings, audit_logs>>

InsertAuditLog(q) ==
    /\ q.stmt = "INSERT audit_logs"
    /\ audit_logs' = audit_logs \cup
           {[req |-> q.req, block_index |-> IF q.block = NULL THEN NULL ELSE q.block.index]}
    /\ UNCHANGED <<users, votes, settings, blocks>>

\* What a statement does to the tables.
Perform(q) ==
    \/ Read(q)         \/ InsertVote(q)   \/ DeleteVotes(q)
    \/ UpdateFlag(q)   \/ UpdateKeys(q)   \/ DeleteUser(q)
    \/ UpdateIsOpen(q) \/ SaveBlock(q)    \/ DeleteBlocks(q)
    \/ InsertAuditLog(q)

\* Constraints of the schema: votes references users and candidates, and
\* audit_ledger_blocks.block_index is UNIQUE (blockchain.block_index is not).
Rejected(q) ==
    \/ /\ q.stmt = "INSERT votes"
       /\ \/ req[q.req].user \notin DOMAIN users
          \/ req[q.req].candidate \notin Candidates
    \/ /\ q.stmt = InsertBlockStmt(AuditLedger)
       /\ \E i \in DOMAIN blocks[AuditLedger] :
             blocks[AuditLedger][i].index = q.block.index

(***************************************************************************)
(* One step of the program: the oldest statement and its callback.         *)
(***************************************************************************)
Executes(r, stmt) ==
    /\ queue # <<>>
    /\ Head(queue).req = r
    /\ Head(queue).stmt = stmt

\* The callback is called without an error.
Succeeds(r, stmt) ==
    /\ Executes(r, stmt)
    /\ ~Rejected(Head(queue))
    /\ Perform(Head(queue))
    /\ UNCHANGED <<req, faults>>

\* The callback is called with an error: a constraint, or any failure of the
\* database.
Fails(r, stmt) ==
    /\ Executes(r, stmt)
    /\ \/ Rejected(Head(queue)) /\ UNCHANGED faults
       \/ faults < MaxFaults /\ faults' = faults + 1
    /\ UNCHANGED <<db, req>>

\* How a callback ends: by issuing further statements ...
Issue(qs) == queue' = Tail(queue) \o qs

Proceed(r, stmt, block) ==
    /\ Issue(<<Query(r, stmt, block)>>)
    /\ UNCHANGED <<chain, reply>>

\* ... or by answering the client.
Answer(r, message) ==
    /\ Issue(<<>>)
    /\ reply' = [reply EXCEPT ![r] = message]
    /\ UNCHANGED chain

\* A block saved and not kept in memory.
AddBlock_NotPushed(r, l, b) ==
    /\ Issue(<<Query(r, InsertBlockStmt(l), b)>>)
    /\ UNCHANGED <<chain, reply>>

\* addBlock: the linked block is in memory before it is in the table.
AddBlock(r, l, b) ==
    /\ chain' = [chain EXCEPT ![l] = Append(@, b)]
    /\ Issue(<<Query(r, InsertBlockStmt(l), b)>>)
    /\ UNCHANGED reply

(***************************************************************************)
(* recordAuditLog, called by every handler that changes something.         *)
(***************************************************************************)
SystemKey == <<"system">>

AuditData(r) == <<"audit_log", r>>

NextAuditBlock(r) == NewBlock(chain[AuditLedger], r, AuditData(r), SystemKey)

RecordAuditLog(r) == AddBlock(r, AuditLedger, NextAuditBlock(r))

\* The block is stored, or the error is only printed: either way a row of
\* audit_logs follows, with the index of the block or without.
AuditBlockSaved(r) ==
    /\ Succeeds(r, InsertBlockStmt(AuditLedger))
    /\ Proceed(r, "INSERT audit_logs", Head(queue).block)

\* The index noted before the block is known to be saved.
AuditBlockLost_IndexKept(r) ==
    /\ Fails(r, InsertBlockStmt(AuditLedger))
    /\ Proceed(r, "INSERT audit_logs", Head(queue).block)

AuditBlockLost(r) ==
    /\ Fails(r, InsertBlockStmt(AuditLedger))
    /\ Proceed(r, "INSERT audit_logs", NULL)

\* The handler that asked for the record then tells its client it is done.
AuditLogSaved(r) ==
    /\ Succeeds(r, "INSERT audit_logs")
    /\ Answer(r, "ok")

AuditLogLost(r) ==
    /\ Fails(r, "INSERT audit_logs")
    /\ Answer(r, "ok")
=============================================================================
