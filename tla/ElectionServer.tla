---------------------------- MODULE ElectionServer ----------------------------
(***************************************************************************)
(* The server of server.js: one Node process that accepts requests at any  *)
(* time, serves them over one connection, may be killed between any two of *)
(* its steps, and on a restart rebuilds its chains from the tables.        *)
(***************************************************************************)
EXTENDS VotingService, UserAdminService, SettingsAdminService, FiniteSets

CONSTANTS Operations,    \* which handlers the clients use
          InitiallyOpen, \* is_open of the settings row the server starts with
          MaxCrashes     \* bound: times the process is killed

Handlers == {"castVote", "deleteUser", "resetUserVote", "resetAll",
             "toggleElectionStatus", "hack"}

ASSUME ServerAssumption ==
    /\ Operations \subseteq Handlers
    /\ InitiallyOpen \in BOOLEAN
    /\ MaxCrashes \in Nat
    /\ Unkeyed \subseteq Users

VARIABLES up,        \* the process is listening
          crashes    \* times it has been killed so far

vars == <<shared, up, crashes>>

lifecycle == <<up, crashes>>

(***************************************************************************)
(* Blockchain.create: the rows in the order of their index, or a genesis   *)
(* block when there are none.                                              *)
(***************************************************************************)
BootGenesis == GenesisBlock("boot")

\* A genesis block for every start.
TablesAfterBoot_GenesisAgain ==
    [l \in Ledgers |-> Append(blocks[l], BootGenesis)]

TablesAfterBoot ==
    [l \in Ledgers |-> IF blocks[l] = <<>> THEN <<BootGenesis>> ELSE blocks[l]]

InitWith(registered) ==
    /\ users = [u \in registered |-> [sudah_vote |-> FALSE,
                                      public_key |-> IF u \in Unkeyed THEN NULL
                                                                      ELSE StoredKey(u)]]
    /\ votes = {}
    /\ settings = [is_open |-> InitiallyOpen]
    /\ blocks = [l \in Ledgers |-> <<BootGenesis>>]
    /\ audit_logs = {}
    /\ chain = blocks
    /\ queue = <<>>
    /\ req = [r \in Requests |-> NULL]
    /\ reply = [r \in Requests |-> NULL]
    /\ faults = 0
    /\ up = TRUE
    /\ crashes = 0

Init == InitWith(Users)

(***************************************************************************)
(* A request reaches its handler, whose first statement is issued.  `after`*)
(* remembers the requests answered by then; the program does not keep it.  *)
(***************************************************************************)
Answered == {r \in Requests : reply[r] # NULL}

Input(op, user, candidate, key) ==
    [op |-> op, user |-> user, candidate |-> candidate, key |-> key, after |-> Answered]

Arrives(r, input, stmts) ==
    /\ up
    /\ input.op \in Operations
    /\ req[r] = NULL
    /\ req' = [req EXCEPT ![r] = input]
    /\ queue' = queue \o stmts
    /\ UNCHANGED <<db, reply, faults, lifecycle>>

\* The session is a copy of the user's row made at login: a user whose keys
\* were stored after that is still without keys in an old session.
SessionKeys(u) ==
    {users[u].public_key : v \in {u} \cap DOMAIN users}
        \cup IF u \in Unkeyed THEN {NULL} ELSE {StoredKey(u)}

CastVoteArrives(r) ==
    \E u \in Users, c \in Candidates \cup BadCandidates \cup {NULL} :
        \E key \in SessionKeys(u) :
            /\ Arrives(r, Input("castVote", u, c, key),
                       <<Query(r, "SELECT settings", NULL)>>)
            /\ UNCHANGED chain

DeleteUserArrives(r) ==
    \E u \in Users :
        /\ Arrives(r, Input("deleteUser", u, NULL, NULL),
                   <<Query(r, "DELETE users", NULL)>>)
        /\ UNCHANGED chain

ResetUserVoteArrives(r) ==
    \E u \in Users :
        /\ Arrives(r, Input("resetUserVote", u, NULL, NULL),
                   <<Query(r, "DELETE votes", NULL)>>)
        /\ UNCHANGED chain

ResetAllArrives(r) ==
    /\ Arrives(r, Input("resetAll", NULL, NULL, NULL),
               <<Query(r, "DELETE votes", NULL)>>)
    /\ UNCHANGED chain

ToggleArrives(r) ==
    /\ Arrives(r, Input("toggleElectionStatus", NULL, NULL, NULL),
               <<Query(r, "SELECT is_open", NULL)>>)
    /\ UNCHANGED chain

\* The demonstration of tampering: block 1 is overwritten in memory, and the
\* attempt is recorded.
TamperedData == <<"vote", 999, 999>>

HackArrives(r) ==
    LET b == NextAuditBlock(r)
    IN  /\ Arrives(r, Input("hack", NULL, NULL, NULL),
                   <<Query(r, InsertBlockStmt(AuditLedger), b)>>)
        /\ chain' = [chain EXCEPT ![VoteLedger]  = HackBlock(@, 1, TamperedData),
                                  ![AuditLedger] = Append(@, b)]

Arrive(r) ==
    \/ CastVoteArrives(r) \/ DeleteUserArrives(r) \/ ResetUserVoteArrives(r)
    \/ ResetAllArrives(r) \/ ToggleArrives(r)     \/ HackArrives(r)

(***************************************************************************)
(* The process runs, dies and comes back.                                  *)
(***************************************************************************)
RecordAudit(r) ==
    \/ AuditBlockSaved(r) \/ AuditBlockLost(r)
    \/ AuditLogSaved(r)   \/ AuditLogLost(r)

Callback(r) == CastVote(r) \/ UserAdmin(r) \/ SettingsAdmin(r) \/ RecordAudit(r)

Serve(r) ==
    /\ up
    /\ Callback(r)
    /\ UNCHANGED lifecycle

\* Everything in memory is gone, and the connections of the waiting clients.
ProcessEnds ==
    /\ up' = FALSE
    /\ chain' = [l \in Ledgers |-> <<>>]
    /\ queue' = <<>>
    /\ reply' = [r \in Requests |-> IF req[r] # NULL /\ reply[r] = NULL
                                    THEN "connection lost" ELSE reply[r]]
    /\ UNCHANGED <<req, faults>>

\* The statement under way is completed by the database or not; its callback
\* does not run.
Crash ==
    /\ up
    /\ crashes < MaxCrashes
    /\ crashes' = crashes + 1
    /\ \/ UNCHANGED db
       \/ queue # <<>> /\ ~Rejected(Head(queue)) /\ Perform(Head(queue))
    /\ ProcessEnds

FatalError(r) ==
    /\ up
    /\ UserIsGone(r)
    /\ ProcessEnds
    /\ UNCHANGED <<db, crashes>>

Restart ==
    /\ ~up
    /\ up' = TRUE
    /\ blocks' = TablesAfterBoot
    /\ \E v \in LoadOrders(TablesAfterBoot[VoteLedger]),
          a \in LoadOrders(TablesAfterBoot[AuditLedger]) :
            chain' = [l \in Ledgers |-> IF l = VoteLedger THEN v ELSE a]
    /\ UNCHANGED <<users, votes, settings, audit_logs, queue, req, reply, faults, crashes>>

Next ==
    \/ \E r \in Requests : Arrive(r) \/ Serve(r) \/ FatalError(r)
    \/ Crash
    \/ Restart

Spec == Init /\ [][Next]_vars

(***************************************************************************)
(* Types.                                                                  *)
(***************************************************************************)
CandidateIds == Candidates \cup BadCandidates \cup {NULL}
KeyPairs     == {SystemKey} \cup ({"stored"} \X Users) \cup ({"generated"} \X Requests)
Data         == {GenesisData, TamperedData} \cup ({"vote"} \X Users \X CandidateIds)
                    \cup ({"audit_log"} \X Requests)
Timestamps   == Requests \cup {"boot"}
Roots        == {"sha256"} \X Data
Hashes       == Seq(Nat \X Timestamps \X Roots)
Blocks       == [index : Nat, timestamp : Timestamps, data : Data,
                 previousHash : Hashes, signature : (KeyPairs \X Data) \cup {NULL},
                 publicKey : KeyPairs \cup {NULL}, merkleRoot : Roots, hash : Hashes]

Statements ==
    {"SELECT settings", "SELECT sudah_vote", "SELECT candidate", "SELECT is_open",
     "INSERT votes", "DELETE votes", "SET sudah_vote", "CLEAR sudah_vote", "UPDATE keys",
     "DELETE users", "SET is_open", "CLEAR is_open", "DELETE blockchain", "INSERT audit_logs"}
BlockStatements == {InsertBlockStmt(l) : l \in Ledgers}

Queries ==
    [req : Requests, stmt : Statements, block : Blocks \cup {NULL}]
        \cup [req : Requests, stmt : BlockStatements, block : Blocks]

Replies ==
    {"ok", "connection lost", "Database error",
     "Voting belum dibuka oleh panitia.", "Kandidat tidak valid", "Kamu sudah voting!",
     "Kandidat tidak ditemukan.", "Gagal menyimpan vote",
     "Vote tersimpan tapi gagal update status",
     "Vote tersimpan tapi gagal catat di blockchain",
     "Gagal hapus user", "Gagal hapus vote", "Gagal reset status",
     "Gagal reset blockchain", "Gagal update status"}

Inputs ==
    [op : Handlers, user : Users \cup {NULL}, candidate : CandidateIds,
     key : KeyPairs \cup {NULL}, after : SUBSET Requests]

\* null is no object, no string, no key pair and no signature.
ASSUME NullAssumption ==
    /\ NULL \notin Inputs /\ NULL \notin Replies
    /\ NULL \notin KeyPairs /\ NULL \notin KeyPairs \X Data

TablesOK ==
    /\ DOMAIN users \subseteq Users
    /\ users \in [DOMAIN users -> [sudah_vote : BOOLEAN, public_key : KeyPairs \cup {NULL}]]
    /\ votes \subseteq [req : Requests, user : Users, candidate : Candidates]
    /\ settings \in [is_open : BOOLEAN]
    /\ blocks \in [Ledgers -> Seq(Blocks)]
    /\ audit_logs \subseteq [req : Requests, block_index : Nat \cup {NULL}]

MemoryOK ==
    /\ chain \in [Ledgers -> Seq(Blocks)]
    /\ queue \in Seq(Queries)

RequestsOK ==
    /\ req \in [Requests -> Inputs \cup {NULL}]
    /\ reply \in [Requests -> Replies \cup {NULL}]

LifecycleOK ==
    /\ faults \in 0..MaxFaults
    /\ crashes \in 0..MaxCrashes
    /\ up \in BOOLEAN

\* The tables keep their schema, and what the handlers hold between two
\* callbacks is what their next statement needs.
TypeOK == TablesOK /\ MemoryOK /\ RequestsOK /\ LifecycleOK

(***************************************************************************)
(* Votes, flags and blocks of one voter.                                   *)
(***************************************************************************)
Sent(r, op)  == req[r] # NULL /\ req[r].op = op
Done(r, op)  == Sent(r, op) /\ reply[r] = "ok"
Stored(r)    == \E v \in votes : v.req = r
HasVote(u)   == \E v \in votes : v.user = u

WritesFlag(q, u) ==
    q.stmt \in {"SET sudah_vote", "CLEAR sudah_vote"} /\ u \in Scope(q.req)

NobodyCutOff == \A r \in Requests : reply[r] # "connection lost"

\* sudah_vote and the votes table are written by two statements of a handler
\* (castVote, resetUserVote, resetAll; deleteUser cascades).  Whatever requests
\* overlap, the flag that the statements already issued will leave a user with
\* says whether the user has a stored vote.  It takes that no statement fails
\* and that the process was not ended with requests in it.
FlagAgreesWithVotes ==
    faults = 0 /\ NobodyCutOff => \A u \in DOMAIN users :
        LET writes == {i \in DOMAIN queue : WritesFlag(queue[i], u)}
        IN  /\ writes = {} => (users[u].sudah_vote <=> HasVote(u))
            /\ \A i \in writes : (\A j \in writes : j <= i) =>
                  (queue[i].stmt = "SET sudah_vote" <=> HasVote(u))

\* What `duplicate vote rejected` expects: no voter has two stored votes.
OneVotePerVoter ==
    \A v, w \in votes : v.user = w.user => v = w

\* The part of it the flag does guarantee: once castVote has told a voter that
\* the vote is in, no later request of that voter stores another, whatever
\* statements fail and whenever the process is killed.
NoVoteAfterReceipt ==
    \A r, s \in Requests :
        /\ Done(r, "castVote")
        /\ Sent(s, "castVote")
        /\ r \in req[s].after
        /\ req[r].user = req[s].user
        => ~Stored(s)

VoteBlocks(s) == {s[i] : i \in {i \in DOMAIN s : s[i].data # GenesisData}}

RecordsVote(b) ==
    \E v \in votes : v.req = b.timestamp /\ b.data = <<"vote", v.user, v.candidate>>

\* castVote stores the vote before it makes the block: no block on the ledger,
\* in memory or in the table, is without its vote, through failures and
\* crashes.  (The converse is what castVote gives up on: see ReceiptIsDurable.)
NoBlockWithoutVote ==
    \A b \in VoteBlocks(chain[VoteLedger]) \cup VoteBlocks(blocks[VoteLedger]) :
        RecordsVote(b)

\* "Voting berhasil" is only said of a vote that survives: its row, the flag
\* and its block are all in the tables, and remain there.
ReceiptIsDurable ==
    \A r \in Requests : Done(r, "castVote") =>
        /\ Stored(r)
        /\ users[req[r].user].sudah_vote
        /\ \E i \in DOMAIN blocks[VoteLedger] :
              /\ blocks[VoteLedger][i].timestamp = r
              /\ blocks[VoteLedger][i].data = VoteData(r)

(***************************************************************************)
(* The chain in memory and the chain in the table.                         *)
(***************************************************************************)
InOrder(s) == \A i \in DOMAIN s : s[i].index = i - 1

Saves(l) == {i \in DOMAIN queue : queue[i].stmt = InsertBlockStmt(l)}

\* addBlock pushes before it saves.  While no statement fails, the table is the
\* beginning of the chain in memory, and the inserts under way carry the rest
\* of it, each block once and in order, however many handlers are in between.
WriteBehind ==
    up /\ faults = 0 => \A l \in Ledgers :
        LET saved == DOMAIN blocks[l]
            kept  == DOMAIN chain[l]
        IN  /\ saved \subseteq kept
            /\ \A k \in saved : chain[l][k].hash = blocks[l][k].hash
            /\ \A k \in kept \ saved : \E i \in Saves(l) :
                  /\ queue[i].block.index = k - 1
                  /\ queue[i].block.hash = chain[l][k].hash
            /\ \A i \in Saves(l) : queue[i].block.index + 1 \in kept \ saved
            /\ \A i, j \in Saves(l) : i < j => queue[i].block.index < queue[j].block.index

\* So a process killed at any moment leaves tables from which a restart loads
\* a valid chain, each block at its index, as long as no statement fails.
RecoverableLedgers ==
    faults = 0 => \A l \in Ledgers : IsChainValid(blocks[l]) /\ InOrder(blocks[l])

\* /validate answers true for as long as nobody tampers and the process
\* lives: concurrent votes, resets and failed inserts leave the chain in memory
\* linked, signed and numbered.  (A restart loads what they left in the table,
\* which may be two chains, or lack a block that was never saved: also after a
\* kill that cut nobody off.)
MemoryChainsValid ==
    crashes = 0 /\ NobodyCutOff /\ (\A r \in Requests : ~Sent(r, "hack")) =>
        \A l \in Ledgers : IsChainValid(chain[l]) /\ InOrder(chain[l])

\* A block changed in place is noticed by isChainValid, and no request makes
\* the chain pass again but a reset, which leaves a genesis block alone.
TamperEvident ==
    [][ up /\ up' =>
          LET old == chain[VoteLedger]
              new == chain'[VoteLedger]
          IN  /\ (\E i \in DOMAIN old \cap DOMAIN new :
                     old[i].hash = new[i].hash /\ old[i].data # new[i].data)
                 => ~IsChainValid(new)
              /\ ~IsChainValid(old) /\ IsChainValid(new) => Len(new) = 1
      ]_vars

WritesVoteLedger(r) == Sent(r, "castVote") \/ Sent(r, "resetAll")

\* resetChain "deletes all rows and resets chain to a single genesis block":
\* when its genesis block is saved that is the whole table, and memory agrees,
\* whatever failed statements had left in either.  It takes that no vote and no
\* other reset has begun that was not answered when this one arrived: a block
\* of theirs may fall between its DELETE and its INSERT.
ResetIsComplete ==
    [][ \A r \in Requests :
            /\ up /\ GenesisSaved(r)
            /\ \A s \in Requests \ {r} : WritesVoteLedger(s) => s \in req[r].after
            => Len(blocks'[VoteLedger]) = 1 /\ chain'[VoteLedger] = blocks'[VoteLedger] ]_vars

(***************************************************************************)
(* Audit records, settings, and progress.                                  *)
(***************************************************************************)
\* recordAuditLog gives audit_logs a block_index only after the block is
\* saved: the index leads to one row of audit_ledger_blocks, the one that
\* records the same request, also when blocks were lost and indices reused.
AuditLogNamesItsBlock ==
    /\ \A a \in audit_logs : a.block_index # NULL =>
          \E i \in DOMAIN blocks[AuditLedger] :
              /\ blocks[AuditLedger][i].index = a.block_index
              /\ blocks[AuditLedger][i].data = AuditData(a.req)
    /\ \A i, j \in DOMAIN blocks[AuditLedger] :
          blocks[AuditLedger][i].index = blocks[AuditLedger][j].index => i = j

\* Requests of which one was answered before the other arrived.
Apart(r, s) == r \in req[s].after \/ s \in req[r].after

Toggles == {r \in Requests : Sent(r, "toggleElectionStatus")}

TogglesApart == \A r, s \in Toggles : r # s => Apart(r, s)

OpenAfter(done) ==
    LET flips == Cardinality({r \in done : Done(r, "toggleElectionStatus")})
    IN  InitiallyOpen <=> flips % 2 = 0

\* Toggles that do not overlap are all counted: each flips the status the one
\* before it left, and one that failed flips nothing.  (Of one cut off by the
\* end of the process nobody knows.)
TogglesAddUp ==
    TogglesApart /\ (\A r \in Toggles : reply[r] \notin {NULL, "connection lost"})
        => (settings.is_open <=> OpenAfter(Toggles))

\* A vote is stored only if the election was open when its request came, for
\* requests that overlap no toggle.
NoVoteWhileClosed ==
    TogglesApart /\ (\A r \in Toggles : reply[r] # "connection lost") =>
        \A r \in Requests :
            Sent(r, "castVote") /\ (\A t \in Toggles : Apart(r, t))
                => (Stored(r) => OpenAfter(Toggles \cap req[r].after))

\* Every request is answered, or loses its connection with the process: no
\* callback forgets its client.
EveryRequestIsAnswered ==
    \A r \in Requests : req[r] # NULL ~> reply[r] # NULL
=============================================================================
