------------------------- MODULE IntegrityValidation -------------------------
(***************************************************************************)
(* validation/IntegrityValidationService.js, run from the command line     *)
(* beside the server: a second process with a connection and chains of its *)
(* own, on the same tables.  It opens the election, creates users, lets    *)
(* them vote through castVote, tampers with a copy of the chain, and at the*)
(* end deletes what it believes to be its own.                             *)
(*                                                                         *)
(* The server is that of ElectionServer, whose clients know nothing of the *)
(* tool's users; the tool's votes are ElectionServer too, with the tool's  *)
(* chains and queue in the place of the server's.                          *)
(* The server keeps running: what a restart would load is in the tables.   *)
(***************************************************************************)
EXTENDS ElectionServer

CONSTANTS ValidationUsers,  \* ids that the users created by the tool will get
          ValidationVotes   \* the tool's own calls of castVote

ASSUME ValidationAssumption ==
    /\ ValidationUsers \subseteq Users \ Unkeyed
    /\ ValidationVotes \subseteq Requests
    /\ Cardinality(ValidationUsers) = Cardinality(ValidationVotes)
    /\ Candidates \subseteq Nat
    /\ NULL \notin Nat \cup BOOLEAN

VARIABLES tool_chain,  \* voteChain.chain and auditChain.chain of the tool
          tool_queue,  \* statements of castVote on the tool's connection
          tool         \* the local variables of runValidation

toolVars == <<tool_chain, tool_queue, tool>>

validationVars == <<vars, toolVars>>

Clients == Requests \ ValidationVotes

Tool == INSTANCE ElectionServer WITH chain <- tool_chain, queue <- tool_queue

(***************************************************************************)
(* Where the tool goes when a statement of its own fails.  runValidation   *)
(* has no handler before its try block; in the block a failure leads to    *)
(* the clean-up, in the clean-up most are ignored one by one.              *)
(***************************************************************************)
\* deleteValidationUsers returns at once when it has been given no users.
AfterBlocks == IF tool.users = {} THEN "restore" ELSE "delete votes"

OnError ==
    ({"load vote", "load audit", "max vote", "max audit"} \X {"failed"})
        \cup ({"setting", "ensure", "open", "create", "choose"} \X {"post"})
        \cup ({"delete vote blocks"} \X {"delete audit blocks"})
        \cup ({"delete audit blocks"} \X {AfterBlocks})
        \cup ({"delete votes", "delete users"} \X {"restore"})
        \cup ({"post", "restore"} \X {"done"})

\* Failures the clean-up does not make up for.
Costly == {"setting", "post", "delete vote blocks", "delete audit blocks",
           "delete votes", "delete users", "restore"}

\* `created` are the rows createValidationUsers has inserted, `users` what
\* insertedUsers of runValidation has: all of them or, until the last one has
\* been made and for ever if that fails, none.  `spoilt`, `before` and `after`
\* are history: a failure of those above, the tables at the start, and the
\* requests the server had answered by then.
ToolInit ==
    /\ tool_chain = [l \in Ledgers |-> <<>>]
    /\ tool_queue = <<>>
    /\ tool = [pc |-> "load vote", max |-> [l \in Ledgers |-> NULL], previous |-> NULL,
               created |-> {}, users |-> {}, report |-> NULL, spoilt |-> FALSE,
               before |-> NULL, after |-> {}]

At(pc) == tool.pc = pc /\ tool_queue = <<>>

Goto(pc) == tool' = [tool EXCEPT !.pc = pc]

OwnOnly == UNCHANGED <<memory, req, reply, lifecycle>>

ToolFails ==
    /\ faults < MaxFaults
    /\ faults' = faults + 1
    /\ \E exit \in OnError :
          /\ tool.pc = exit[1]
          /\ tool' = [tool EXCEPT !.pc = exit[2], !.spoilt = @ \/ exit[1] \in Costly]
    /\ UNCHANGED <<db, tool_chain, tool_queue>>

(***************************************************************************)
(* Preparation.                                                            *)
(***************************************************************************)
Tables == [users |-> users, votes |-> votes, settings |-> settings, blocks |-> blocks]

\* Blockchain.create for one ledger.
LoadChain(l, pc, next) ==
    /\ At(pc)
    /\ blocks' = [blocks EXCEPT ![l] = TablesAfterBoot[l]]
    /\ \E s \in LoadOrders(TablesAfterBoot[l]) : tool_chain' = [tool_chain EXCEPT ![l] = s]
    /\ tool' = IF pc = "load vote"
               THEN [tool EXCEPT !.pc = next, !.before = Tables, !.after = Answered]
               ELSE [tool EXCEPT !.pc = next]
    /\ UNCHANGED <<users, votes, settings, audit_logs, faults, tool_queue>>

GetTableMaxIndex(l) ==
    LET indices == {blocks[l][i].index : i \in DOMAIN blocks[l]}
    IN  IF indices = {} THEN NULL ELSE CHOOSE m \in indices : \A i \in indices : i <= m

ReadMax(l, pc, next) ==
    /\ At(pc)
    /\ tool' = [tool EXCEPT !.pc = next, !.max[l] = GetTableMaxIndex(l)]
    /\ UNCHANGED <<db, faults, tool_chain, tool_queue>>

Prepare ==
    \/ LoadChain(VoteLedger, "load vote", "load audit")
    \/ LoadChain(AuditLedger, "load audit", "max vote")
    \/ ReadMax(VoteLedger, "max vote", "max audit")
    \/ ReadMax(AuditLedger, "max audit", "setting")

\* The status is read once to be restored, and once more to be changed.
ReadSetting ==
    /\ At("setting")
    /\ tool' = [tool EXCEPT !.pc = "ensure", !.previous = settings.is_open]
    /\ UNCHANGED <<db, faults, tool_chain, tool_queue>>

EnsureElectionOpen ==
    /\ \/ At("ensure") /\ Goto(IF settings.is_open THEN "create" ELSE "open") /\ UNCHANGED settings
       \/ At("open") /\ Goto("create") /\ settings' = [is_open |-> TRUE]
    /\ UNCHANGED <<users, votes, blocks, audit_logs, faults, tool_chain, tool_queue>>

\* The users there were, and rows as the INSERT of a validation user makes them.
WithFresh(rows, fresh) ==
    [u \in DOMAIN rows \cup fresh |->
        IF u \in fresh THEN [sudah_vote |-> FALSE, public_key |-> NULL] ELSE rows[u]]

\* insertedUsers is assigned when createValidationUsers returns.
InsertedUsers(created) == IF created = ValidationUsers THEN created ELSE {}

\* INSERT and SELECT of one user.  When the SELECT fails, as when a later INSERT
\* does, no list is returned and the rows made so far are forgotten.
CreateValidationUser ==
    /\ At("create")
    /\ \E u \in ValidationUsers \ DOMAIN users :
          LET created == tool.created \cup {u}
          IN  /\ users' = WithFresh(users, {u})
              /\ \/ /\ tool' = [tool EXCEPT !.created = created, !.users = InsertedUsers(created),
                                    !.pc = IF created = ValidationUsers THEN "choose" ELSE "create"]
                    /\ UNCHANGED faults
                 \/ /\ faults < MaxFaults /\ faults' = faults + 1
                    /\ tool' = [tool EXCEPT !.created = created, !.pc = "post"]
    /\ UNCHANGED <<votes, settings, blocks, audit_logs, tool_chain, tool_queue>>

ChooseCandidate ==
    /\ At("choose")
    /\ Goto(IF Candidates = {} THEN "post" ELSE "vote")
    /\ UNCHANGED <<db, faults, tool_chain, tool_queue>>

(***************************************************************************)
(* Scenario 1: the users vote one after another through castVote.  What    *)
(* castVote answers is not looked at.                                      *)
(***************************************************************************)
FirstCandidate == CHOOSE c \in Candidates : \A d \in Candidates : c <= d

HasVoted(u) == \E r \in ValidationVotes : req[r] # NULL /\ req[r].user = u

CastNextVote ==
    /\ At("vote")
    /\ \E r \in ValidationVotes, u \in tool.users :
          /\ req[r] = NULL
          /\ ~HasVoted(u)
          /\ req' = [req EXCEPT ![r] = Input("castVote", u, FirstCandidate, NULL)]
          /\ tool_queue' = <<Query(r, "SELECT settings", NULL)>>
    /\ UNCHANGED <<db, memory, reply, faults, lifecycle, tool_chain, tool>>

ToolVotes ==
    /\ \E r \in ValidationVotes : Tool!Callback(r)
    /\ UNCHANGED <<memory, lifecycle, tool>>

(***************************************************************************)
(* Scenario 2: tampering with a copy, and taking it back.                  *)
(***************************************************************************)
CloneChain(s) ==
    [i \in DOMAIN s |->
        [Block(s[i].index, s[i].timestamp, s[i].data, s[i].previousHash,
               s[i].signature, s[i].publicKey)
            EXCEPT !.hash = s[i].hash, !.merkleRoot = s[i].merkleRoot]]

\* Another candidate, meant to differ from the one voted for.
Tampered(data) == <<data[1], data[2], (data[3] % 10) + 10>>

\* The tampered copy keeps its fresh Merkle root.
Scenarios_RootRenewed(s) ==
    LET clone   == CloneChain(s)
        target  == IF Len(clone) > 1 THEN 1 ELSE 0
        changed == IF target = 0 THEN NULL ELSE Tampered(clone[2].data)
        hacked  == [i \in DOMAIN clone |-> IF i = 2
                       THEN Block(1, clone[2].timestamp, changed, clone[1].hash,
                                  SignData(clone[2].publicKey, changed), clone[2].publicKey)
                       ELSE clone[i]]
    IN  [original  |-> IsChainValid(s),
         tampered  |-> ~IsChainValid(hacked),
         recovery  |-> IsChainValid(HackBlock(hacked, target, clone[target + 1].data))]

\* PASS or not of each check: the original valid, the tampered copy not, the
\* restored copy again.  hackBlock leaves block 0 alone.
Scenarios(s) ==
    LET clone  == CloneChain(s)
        target == IF Len(clone) > 1 THEN 1 ELSE 0
        data   == clone[target + 1].data
        hacked == HackBlock(clone, target, IF target = 0 THEN NULL ELSE Tampered(data))
    IN  [original  |-> IsChainValid(s),
         tampered  |-> ~IsChainValid(hacked),
         recovery  |-> IsChainValid(HackBlock(hacked, target, data))]

RunScenarios ==
    /\ At("vote")
    /\ \A u \in tool.users : HasVoted(u)
    /\ tool' = [tool EXCEPT !.pc = "post", !.report = Scenarios(tool_chain[VoteLedger])]
    /\ UNCHANGED <<db, faults, tool_chain, tool_queue>>

(***************************************************************************)
(* The clean-up of the finally block.                                      *)
(***************************************************************************)
PostMax ==
    /\ At("post")
    /\ Goto("delete vote blocks")
    /\ UNCHANGED <<db, faults, tool_chain, tool_queue>>

\* The rows at the given positions, in their order.
RowsAt(rows, kept) ==
    LET upto(i) == Cardinality({j \in kept : j <= i})
    IN  [k \in 1..Cardinality(kept) |-> rows[CHOOSE i \in kept : upto(i) = k]]

\* A comparison that takes the last block from before along.
DeleteBlocksAfter_Inclusive(l, pc, next) ==
    /\ At(pc)
    /\ blocks' = [blocks EXCEPT ![l] =
           RowsAt(@, {i \in DOMAIN @ : tool.max[l] # NULL /\ @[i].index < tool.max[l]})]
    /\ Goto(next)
    /\ UNCHANGED <<users, votes, settings, audit_logs, faults, tool_chain, tool_queue>>

\* DELETE ... WHERE block_index > the maximum before, whoever added the blocks.
DeleteBlocksAfter(l, pc, next) ==
    /\ At(pc)
    /\ blocks' = [blocks EXCEPT ![l] =
           RowsAt(@, {i \in DOMAIN @ : tool.max[l] # NULL /\ @[i].index <= tool.max[l]})]
    /\ Goto(next)
    /\ UNCHANGED <<users, votes, settings, audit_logs, faults, tool_chain, tool_queue>>

\* The votes of the run deleted by what was voted for.
OwnVotes_ByCandidate == {v \in votes : v.candidate = FirstCandidate}

OwnVotes == {v \in votes : v.user \in tool.users}

DeleteValidationUsers ==
    /\ \/ /\ At("delete votes")
          /\ votes' = votes \ OwnVotes
          /\ Goto("delete users")
          /\ UNCHANGED users
       \/ /\ At("delete users")
          /\ users' = [u \in DOMAIN users \ tool.users |-> users[u]]
          /\ votes' = {v \in votes : v.user \notin tool.users}
          /\ Goto("restore")
    /\ UNCHANGED <<settings, blocks, audit_logs, faults, tool_chain, tool_queue>>

\* A previous status of null means to the tool that it inserted the row itself,
\* which it then deletes; so it does when the status could not be read.
RestoreElectionSetting ==
    /\ At("restore")
    /\ settings' = IF tool.previous = NULL THEN <<>> ELSE [is_open |-> tool.previous]
    /\ Goto("done")
    /\ UNCHANGED <<users, votes, blocks, audit_logs, faults, tool_chain, tool_queue>>

CleanUp ==
    \/ PostMax
    \/ DeleteBlocksAfter(VoteLedger, "delete vote blocks", "delete audit blocks")
    \/ DeleteBlocksAfter(AuditLedger, "delete audit blocks", AfterBlocks)
    \/ DeleteValidationUsers
    \/ RestoreElectionSetting

(***************************************************************************)
(* The two processes.                                                      *)
(***************************************************************************)
ToolStep ==
    \/ /\ \/ Prepare \/ ReadSetting \/ EnsureElectionOpen \/ CreateValidationUser
          \/ ChooseCandidate \/ RunScenarios \/ CleanUp \/ ToolFails
       /\ OwnOnly
    \/ CastNextVote
    \/ ToolVotes

\* A server whose settings row is gone is not followed further.
ServerStep ==
    /\ DOMAIN settings # {}
    /\ \E r \in Clients : \/ Arrive(r) /\ req'[r].user \notin ValidationUsers
                          \/ Serve(r)
    /\ UNCHANGED toolVars

ValidationInit == InitWith(Users \ ValidationUsers) /\ ToolInit

ValidationNext == ToolStep \/ ServerStep

ValidationSpec == ValidationInit /\ [][ValidationNext]_validationVars

(***************************************************************************)
(* Properties.                                                             *)
(***************************************************************************)
Finished == tool.pc = "done"

\* No request reached the server, or was being served, while the tool ran.
Alone == {r \in Clients : req[r] # NULL} = tool.after

\* Rows the tool has made and does not know of: its creation of users has failed.
LeftBehind == IF tool.users = {} THEN tool.created ELSE {}

\* The comment of the clean-up: the votes, blocks and users the tool has made
\* are deleted and the election is as open as before, also when a statement of
\* the scenarios has failed, as long as the clean-up's own statements succeed.
\* With one exception: when the creation of a user fails, those created before
\* stay for good, as users who have not voted.  Of audit_logs the clean-up forgets
\* the rows.  It takes that each block was at its index: new blocks get the
\* length of the chain for an index, and after a lost block it would spare them.
CleanupRestores ==
    Finished /\ Alone /\ ~tool.spoilt /\ (\A l \in Ledgers : InOrder(tool.before.blocks[l]))
        => Tables = [tool.before EXCEPT !.users = WithFresh(@, LeftBehind)]

\* What the report says is right, whatever the server does meanwhile, while no
\* statement fails: the chain passes, the tampered copy is caught and passes
\* again when restored.  Two cases go unnoticed and are reported as failures:
\* a chain of a genesis block alone (all votes refused), and a first vote for
\* a candidate from 10 to 19, whom (candidate % 10) + 10 does not change.
ReportIsRight ==
    Finished /\ faults = 0 =>
        /\ tool.report.original
        /\ tool.report.recovery
        /\ tool.report.tampered <=>
              /\ Len(tool_chain[VoteLedger]) > 1
              /\ tool_chain[VoteLedger][2].data[3] \notin 10..19

\* The tool tells its users from the voters: whatever overlaps and fails, a
\* voter who was told that the vote is in keeps the vote and the flag.
VotersKeepTheirVotes ==
    \A r \in Clients : Done(r, "castVote") =>
        Stored(r) /\ users[req[r].user].sudah_vote

\* What `non-destructive` says of a run beside a working server: it leaves no
\* vote without its block.
NonDestructive ==
    Finished => \A r \in Clients : Done(r, "castVote") =>
        \E i \in DOMAIN blocks[VoteLedger] : blocks[VoteLedger][i].timestamp = r
=============================================================================
