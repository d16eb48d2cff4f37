---------------------------- MODULE ServerProofs ----------------------------
(***************************************************************************)
(* What a voter may rely on, and what the ledgers keep.  castVote writes   *)
(* the row, the flag and the block of a vote one after the other, and each *)
(* statement proves that the ones before it took effect; tables that       *)
(* nothing is deleted from keep what they hold, through failed statements, *)
(* kills and restarts.  Tampering in memory shows, the handlers keep the   *)
(* chains valid, and what a killed process has left in the tables is a     *)
(* valid chain.  Of the audit log, that its rows name their blocks.        *)
(***************************************************************************)
EXTENDS HandlerProofs, SerialElection, FiniteSetTheorems

\* The administrator takes no vote back: no user is deleted or reset.
NothingUndone == Operations \cap {"deleteUser", "resetUserVote", "resetAll"} = {}

(***************************************************************************)
(* How far the requests have come.                                         *)
(***************************************************************************)
StoredVotes == {r \in Requests : Stored(r)}

MarkedVotes == {r \in StoredVotes : users[req[r].user].sudah_vote}

KeptVotes ==
    {r \in MarkedVotes : \E i \in 1..Len(blocks[VoteLedger]) :
                            /\ blocks[VoteLedger][i].timestamp = r
                            /\ blocks[VoteLedger][i].data = VoteData(r)}

\* What has been achieved before castVote issues a statement.
Staged(q, stored, marked, kept) ==
    /\ q.stmt = "SET sudah_vote" => q.req \in stored
    /\ q.stmt = InsertBlockStmt(VoteLedger) => q.req \in marked
    /\ q.stmt \in {InsertBlockStmt(AuditLedger), "INSERT audit_logs"} => q.req \in kept

\* s arrived after the voter had been told that r is in.
Later(r, s) ==
    /\ Done(r, "castVote") /\ Sent(s, "castVote")
    /\ r \in req[s].after
    /\ req[r].user = req[s].user

\* It is at the checks of the settings and of the flag, or past its end.
Stopped(s) ==
    /\ s \notin StoredVotes
    /\ \A i \in 1..Len(queue) :
          queue[i].req = s => queue[i].stmt \in {"SELECT settings", "SELECT sudah_vote"}

VotesOwn ==
    \A v \in votes :
        /\ Sent(v.req, "castVote")
        /\ v.user = req[v.req].user /\ v.candidate = req[v.req].candidate

Stages ==
    \A i \in 1..Len(queue) :
        Sent(queue[i].req, "castVote")
            => Staged(queue[i], StoredVotes, MarkedVotes, KeptVotes)

Receipts == \A r \in Requests : Done(r, "castVote") => r \in KeptVotes

VoteInv ==
    /\ DOMAIN users = Users
    /\ VotesOwn
    /\ Stages
    /\ Receipts
    /\ \A r, s \in Requests : Later(r, s) => Stopped(s)

(***************************************************************************)
(* The tables only grow.                                                   *)
(***************************************************************************)
\* The oldest statement is performed, or not.
Moves == UNCHANGED db \/ (queue # <<>> /\ Perform(Head(queue)))

LEMMA VotesSent ==
    ASSUME TypeInv, HandlersInv, VotesOwn, NEW r \in StoredVotes
    PROVE  /\ r \in Requests /\ Sent(r, "castVote") /\ req[r] # NULL /\ req[r].op = "castVote"
           /\ req[r].user \in Users
           /\ \E v \in votes : v.req = r /\ VoteData(r) = <<"vote", v.user, v.candidate>>
BY DEF StoredVotes, Stored, VotesOwn, Sent, HandlersInv, Admitted, VoteData

RemovesNothing(q) ==
    /\ q \in Queries
    /\ q.stmt \notin {"DELETE votes", "CLEAR sudah_vote", "DELETE users", "DELETE blockchain"}

LEMMA HeadUndoesNothing ==
    ASSUME NothingUndone, TypeInv, HandlersInv, queue # <<>>
    PROVE  RemovesNothing(Head(queue))
<1>1. /\ MayIssue(req[Head(queue).req].op, Head(queue).stmt)
      /\ Head(queue).req \in Requests /\ req[Head(queue).req] # NULL
  BY HeadOwn, HeadUnderway, NullAssumption DEF OwnStatement, Own
<1>2. req[Head(queue).req].op \in Operations
  BY <1>1 DEF HandlersInv, Admitted
<1>3. QED
  BY <1>1, <1>2, HeadUnderway DEF NothingUndone, MayIssue, RemovesNothing, Underway

\* What a statement does to the votes.
LEMMA PerformVotes ==
    ASSUME NEW q, Perform(q)
    PROVE  /\ q.stmt # "DELETE users" => DOMAIN users' = DOMAIN users
           /\ q.stmt \notin {"INSERT votes", "DELETE votes", "DELETE users"} => votes' = votes
           /\ q.stmt = "INSERT votes" =>
                votes' = votes \cup {[req |-> q.req, user |-> req[q.req].user,
                                      candidate |-> req[q.req].candidate]}
           /\ q.stmt = "DELETE votes" => votes' = {v \in votes : v.user \notin Scope(q.req)}
<1>1. CASE InsertVote(q) \/ DeleteVotes(q)
  BY <1>1 DEF InsertVote, DeleteVotes
<1>2. CASE UpdateFlag(q) \/ UpdateKeys(q)
  BY <1>2 DEF UpdateFlag, UpdateKeys
<1>3. CASE SaveBlock(q)
  <2>1. PICK l \in Ledgers : q.stmt = InsertBlockStmt(l) /\ users' = users /\ votes' = votes
    BY <1>3 DEF SaveBlock
  <2>2. q.stmt \notin {"INSERT votes", "DELETE votes"}
    BY <2>1 DEF InsertBlockStmt
  <2>3. QED
    BY <2>1, <2>2
<1>4. CASE Read(q) \/ UpdateIsOpen(q) \/ InsertAuditLog(q) \/ DeleteBlocks(q)
  BY <1>4 DEF Read, UpdateIsOpen, InsertAuditLog, DeleteBlocks, db
<1>5. QED
  BY <1>1, <1>2, <1>3, <1>4 DEF Perform, DeleteUser

\* The vote ledger's table keeps its rows at their places.
LEMMA PerformBlocks ==
    ASSUME TypeInv, NEW q, RemovesNothing(q), Perform(q)
    PROVE  /\ \A i \in 1..Len(blocks[VoteLedger]) :
                 i \in 1..Len(blocks'[VoteLedger]) /\ blocks'[VoteLedger][i] = blocks[VoteLedger][i]
           /\ \A i \in 1..Len(blocks'[VoteLedger]) :
                 \/ /\ i \in 1..Len(blocks[VoteLedger])
                    /\ blocks'[VoteLedger][i] = blocks[VoteLedger][i]
                 \/ q.stmt = InsertBlockStmt(VoteLedger) /\ blocks'[VoteLedger][i] = q.block
           /\ q.stmt = InsertBlockStmt(VoteLedger) =>
                 \E i \in 1..Len(blocks'[VoteLedger]) : blocks'[VoteLedger][i] = q.block
<1> DEFINE old   == blocks[VoteLedger]
           new   == blocks'[VoteLedger]
           saves == q.stmt = InsertBlockStmt(VoteLedger)
           b     == q.block
<1>1. old \in Seq(Blocks)
  BY DEF TypeInv, TypeOK, TablesOK, Ledgers
<1>2. (~saves /\ new = old) \/ (saves /\ new = Append(old, b) /\ b \in Blocks)
  <2>1. q.stmt = InsertBlockStmt(VoteLedger) => q.block \in Blocks
    BY DEF RemovesNothing, Queries, Statements, InsertBlockStmt, VoteLedger
  <2>2. QED
    BY <2>1, LedgerWrites DEF RemovesNothing
<1> SUFFICES /\ \A i \in 1..Len(old) : i \in 1..Len(new) /\ new[i] = old[i]
             /\ \A i \in 1..Len(new) :
                   (i \in 1..Len(old) /\ new[i] = old[i]) \/ (saves /\ new[i] = b)
             /\ saves => \E i \in 1..Len(new) : new[i] = b
  OBVIOUS
<1> HIDE DEF old, new, saves, b
<1>3. CASE ~saves /\ new = old
  BY <1>3
<1>4. CASE saves /\ new = Append(old, b) /\ b \in Blocks
  <2>1. /\ \A i \in 1..Len(old) : i \in 1..Len(new) /\ new[i] = old[i]
        /\ \A i \in 1..Len(new) : (i \in 1..Len(old) /\ new[i] = old[i]) \/ new[i] = b
        /\ \E i \in 1..Len(new) : new[i] = b
    BY <1>1, <1>4, AppendedRow
  <2>2. QED
    BY <1>4, <2>1
<1>5. QED
  BY <1>2, <1>3, <1>4

\* What every step leaves of the tables.
TablesGrow ==
    /\ DOMAIN users' = DOMAIN users
    /\ \A u \in DOMAIN users : users[u].sudah_vote => users'[u].sudah_vote
    /\ votes \subseteq votes'
    /\ \A i \in 1..Len(blocks[VoteLedger]) :
          i \in 1..Len(blocks'[VoteLedger]) /\ blocks'[VoteLedger][i] = blocks[VoteLedger][i]

LEMMA MovesGrow ==
    ASSUME NothingUndone, TypeInv, HandlersInv, Moves
    PROVE  TablesGrow
<1>1. CASE UNCHANGED db
  BY <1>1 DEF db, TablesGrow
<1>2. CASE queue # <<>> /\ Perform(Head(queue))
  <2> DEFINE q == Head(queue)
  <2>1. RemovesNothing(q)
    BY <1>2, HeadUndoesNothing
  <2>2. q.stmt = "INSERT votes" => req[q.req].op = "castVote"
    BY <1>2, HeadOwn DEF OwnStatement, Own, MayIssue
  <2>3. TablesOK /\ Perform(q)
    BY <1>2 DEF TypeInv, TypeOK
  <2> HIDE DEF q
  <2>4. DOMAIN users' = DOMAIN users /\ votes \subseteq votes'
    BY <2>1, <2>3, PerformVotes DEF RemovesNothing
  <2>5. \A u \in DOMAIN users : users[u].sudah_vote => users'[u].sudah_vote
    <3>1. \A u \in DOMAIN users : FlagEffect(q, u)
      BY <2>2, <2>3, <2>4, PerformFlags
    <3>2. QED
      BY <2>1, <3>1 DEF FlagEffect, WritesFlag, RemovesNothing
  <2>6. \A i \in 1..Len(blocks[VoteLedger]) :
            i \in 1..Len(blocks'[VoteLedger]) /\ blocks'[VoteLedger][i] = blocks[VoteLedger][i]
    BY <2>1, <2>3, PerformBlocks
  <2>7. QED
    BY <2>4, <2>5, <2>6 DEF TablesGrow
<1>3. QED
  BY <1>1, <1>2 DEF Moves

\* So what a vote has achieved, it keeps.
LEMMA VotesAdvance ==
    ASSUME TypeInv, HandlersInv, VotesOwn, DOMAIN users = Users, TablesGrow,
           \A r \in Requests : req[r] # NULL => req'[r] = req[r]
    PROVE  /\ StoredVotes \subseteq StoredVotes'
           /\ MarkedVotes \subseteq MarkedVotes'
           /\ KeptVotes \subseteq KeptVotes'
<1>1. ASSUME NEW r \in StoredVotes
      PROVE  r \in StoredVotes' /\ req'[r] = req[r] /\ req[r].user \in DOMAIN users
  <2>1. r \in Requests /\ req[r] # NULL /\ req[r].user \in Users
    BY VotesSent
  <2>2. r \in StoredVotes'
    BY <2>1 DEF StoredVotes, Stored, TablesGrow
  <2>3. QED
    BY <2>1, <2>2
<1>2. MarkedVotes \subseteq MarkedVotes'
  BY <1>1 DEF MarkedVotes, TablesGrow
<1>3. ASSUME NEW r \in KeptVotes PROVE r \in KeptVotes'
  <2>1. r \in MarkedVotes' /\ VoteData(r)' = VoteData(r)
    BY <1>1, <1>2 DEF KeptVotes, MarkedVotes, VoteData
  <2>2. PICK i \in 1..Len(blocks[VoteLedger]) :
            blocks[VoteLedger][i].timestamp = r /\ blocks[VoteLedger][i].data = VoteData(r)
    BY DEF KeptVotes
  <2>3. i \in 1..Len(blocks'[VoteLedger]) /\ blocks'[VoteLedger][i] = blocks[VoteLedger][i]
    BY <2>2 DEF TablesGrow
  <2>4. QED
    BY <2>1, <2>2, <2>3 DEF KeptVotes
<1>4. QED
  BY <1>1, <1>2, <1>3

\* A row of votes is its request's own.
LEMMA MoveVotesOwn ==
    ASSUME NothingUndone, TypeInv, HandlersInv, VotesOwn, Moves, req' = req
    PROVE  /\ VotesOwn'
           /\ \A s \in StoredVotes' : \/ s \in StoredVotes
                                      \/ /\ queue # <<>> /\ Head(queue).stmt = "INSERT votes"
                                         /\ s = Head(queue).req
<1>1. CASE votes' = votes
  BY <1>1 DEF VotesOwn, Sent, StoredVotes, Stored
<1>2. CASE queue # <<>> /\ Perform(Head(queue)) /\ votes' # votes
  <2> DEFINE q == Head(queue)
             v == [req |-> q.req, user |-> req[q.req].user, candidate |-> req[q.req].candidate]
  <2>1. RemovesNothing(q) /\ Perform(q) /\ votes' # votes
    BY <1>2, HeadUndoesNothing
  <2>2. MayIssue(req[q.req].op, q.stmt) /\ req[q.req] # NULL
    BY <1>2, HeadOwn, HeadUnderway, NullAssumption DEF OwnStatement, Own
  <2>3. /\ v.req = q.req /\ v.user = req[q.req].user /\ v.candidate = req[q.req].candidate
        /\ q.stmt = "INSERT votes" => votes' = votes \cup {v}
    <3> HIDE DEF q
    <3>1. QED
      BY <2>1, PerformVotes
  <2> HIDE DEF v
  <2>4. q.stmt = "INSERT votes" /\ votes' = votes \cup {v}
    <3> HIDE DEF q, v
    <3>1. QED
      BY <2>1, <2>3, PerformVotes DEF RemovesNothing
  <2>5. Sent(q.req, "castVote")
    BY <2>2, <2>4 DEF MayIssue, Sent
  <2>6. VotesOwn'
    BY <2>3, <2>4, <2>5 DEF VotesOwn, Sent
  <2>7. \A s \in StoredVotes' : s \in StoredVotes \/ s = q.req
    BY <2>3, <2>4 DEF StoredVotes, Stored
  <2>8. QED
    BY <1>2, <2>4, <2>6, <2>7
<1>3. QED
  BY <1>1, <1>2 DEF Moves, db

\* What castVote's statements achieve, one after the other.
LEMMA VotesAchieve ==
    ASSUME NothingUndone, TypeInv, HandlersInv, VoteInv, queue # <<>>, Perform(Head(queue)),
           req' = req, Sent(Head(queue).req, "castVote")
    PROVE  /\ Head(queue).stmt = "INSERT votes" => Head(queue).req \in StoredVotes'
           /\ Head(queue).stmt = "SET sudah_vote" => Head(queue).req \in MarkedVotes'
           /\ Head(queue).stmt = InsertBlockStmt(VoteLedger) => Head(queue).req \in KeptVotes'
<1> DEFINE q == Head(queue)
           r == q.req
<1>1. /\ RemovesNothing(q) /\ Perform(q) /\ r \in Requests
      /\ Own(req[r], q) /\ req[r].op = "castVote" /\ req[r].user \in Users
      /\ Staged(q, StoredVotes, MarkedVotes, KeptVotes)
  BY HeadUndoesNothing, HeadUnderway, HeadOwn
     DEF OwnStatement, Sent, HandlersInv, Admitted, VoteInv, Stages
<1>2. /\ TablesGrow /\ StoredVotes \subseteq StoredVotes' /\ MarkedVotes \subseteq MarkedVotes'
      /\ DOMAIN users = Users
  <2>1. Moves
    BY DEF Moves
  <2>2. QED
    BY <2>1, MovesGrow, VotesAdvance DEF VoteInv
<1> HIDE DEF r
<1>3. CASE q.stmt = "INSERT votes"
  <2> DEFINE v == [req |-> q.req, user |-> req[q.req].user, candidate |-> req[q.req].candidate]
  <2>1. v.req = r
    BY DEF r
  <2>2. votes' = votes \cup {v}
    <3> HIDE DEF q
    <3>1. QED
      BY <1>1, <1>3, PerformVotes
  <2> HIDE DEF v
  <2>3. r \in StoredVotes'
    BY <1>1, <2>1, <2>2 DEF StoredVotes, Stored
  <2>4. QED
    BY <1>3, <2>3 DEF r, InsertBlockStmt, VoteLedger
<1>4. CASE q.stmt = "SET sudah_vote"
  <2>1. r \in StoredVotes'
    BY <1>1, <1>2, <1>4 DEF Staged, r
  <2>2. FlagEffect(q, req[r].user)
    <3>1. TablesOK /\ req[r].user \in DOMAIN users' /\ q.stmt # "INSERT votes"
      BY <1>1, <1>2, <1>4 DEF TypeInv, TypeOK, TablesGrow
    <3> HIDE DEF q
    <3>2. QED
      BY <1>1, <3>1, PerformFlags
  <2>3. WritesFlag(q, req[r].user)
    BY <1>1, <1>4 DEF WritesFlag, Scope, r
  <2>4. users'[req[r].user].sudah_vote
    BY <1>4, <2>2, <2>3 DEF FlagEffect
  <2>5. r \in MarkedVotes'
    BY <2>1, <2>4 DEF MarkedVotes
  <2>6. QED
    BY <1>4, <2>5 DEF r, InsertBlockStmt, VoteLedger
<1>5. CASE q.stmt = InsertBlockStmt(VoteLedger)
  <2>1. r \in MarkedVotes'
    BY <1>1, <1>2, <1>5 DEF Staged, r
  <2>2. q.block.timestamp = r /\ q.block.data = VoteData(r)
    BY <1>1, <1>5 DEF Own, OwnBlock, VoteData, r
  <2>3. PICK i \in 1..Len(blocks'[VoteLedger]) : blocks'[VoteLedger][i] = q.block
    <3> HIDE DEF q
    <3>1. QED
      BY <1>1, <1>5, PerformBlocks
  <2>4. \A s : VoteData(s)' = VoteData(s)
    BY DEF VoteData
  <2>5. r \in KeptVotes'
    BY <2>1, <2>2, <2>3, <2>4 DEF KeptVotes
  <2>6. QED
    BY <1>5, <2>5 DEF r, InsertBlockStmt, VoteLedger
<1>6. QED
  BY <1>3, <1>4, <1>5

\* The statements a callback issues find what they rely on.
LEMMA IssuedStages ==
    ASSUME NothingUndone, TypeInv, HandlersInv, VoteInv, queue # <<>>, req' = req, Moves,
           NEW r, r = Head(queue).req, Sent(r, "castVote"),
           NEW qs, IssuesOwn(r, qs),
           Perform(Head(queue)) \/ Head(queue).stmt = InsertBlockStmt(AuditLedger),
           NEW j \in 1..Len(qs)
    PROVE  Staged(qs[j], StoredVotes', MarkedVotes', KeptVotes')
<1> DEFINE q == Head(queue)
<1>1. /\ q.stmt = "INSERT votes" /\ Perform(q) => r \in StoredVotes'
      /\ q.stmt = "SET sudah_vote" /\ Perform(q) => r \in MarkedVotes'
      /\ q.stmt = InsertBlockStmt(VoteLedger) /\ Perform(q) => r \in KeptVotes'
  BY VotesAchieve
<1>2. /\ KeptVotes \subseteq KeptVotes'
      /\ Own(req[r], q) /\ req[r].op = "castVote" /\ RemovesNothing(q)
      /\ Staged(q, StoredVotes, MarkedVotes, KeptVotes)
  BY MovesGrow, VotesAdvance, HeadOwn, HeadUndoesNothing DEF VoteInv, Stages, Sent, OwnStatement
<1>3. /\ qs[j].req = r /\ Follows(q.stmt, qs[j].stmt)
      /\ Own(req[r], qs[j])
  BY DEF IssuesOwn, OwnStatement
<1>4. q.stmt \notin {"DELETE users", "SET is_open", "CLEAR is_open", "CLEAR sudah_vote",
                     "DELETE blockchain"}
  BY <1>2 DEF RemovesNothing, Own, MayIssue
<1> HIDE DEF q
<1>5. CASE q.stmt = InsertBlockStmt(AuditLedger)
  <2>1. r \in KeptVotes' /\ qs[j].stmt = "INSERT audit_logs"
    <3>1. q.req = r
      BY DEF q
    <3>2. QED
      BY <1>2, <1>3, <1>5, <3>1
         DEF Staged, Follows, InsertBlockStmt, VoteLedger, AuditLedger
  <2>2. QED
    BY <1>3, <2>1 DEF Staged, InsertBlockStmt, VoteLedger, AuditLedger
<1>6. CASE Perform(q) /\ q.stmt # InsertBlockStmt(AuditLedger)
  <2>1. /\ qs[j].stmt = "SET sudah_vote" => q.stmt = "INSERT votes"
        /\ qs[j].stmt = InsertBlockStmt(VoteLedger) => q.stmt = "SET sudah_vote"
        /\ qs[j].stmt = InsertBlockStmt(AuditLedger) => q.stmt = InsertBlockStmt(VoteLedger)
        /\ qs[j].stmt # "INSERT audit_logs"
    BY <1>3, <1>4, <1>6 DEF Follows, InsertBlockStmt, VoteLedger, AuditLedger
  <2>2. QED
    BY <1>1, <1>3, <1>6, <2>1 DEF Staged
<1>7. QED
  BY <1>5, <1>6 DEF q

\* Who has been answered by a callback was at the end of its handler.
LEMMA TurnReceipts ==
    ASSUME TypeInv, HandlersInv, VoteInv, queue # <<>>, req' = req,
           NEW r \in Requests, r = Head(queue).req, Turn(r)
    PROVE  /\ \A x \in Requests : Done(x, "castVote")' => x \in KeptVotes
           /\ \A x, s \in Requests : Later(x, s)' => Later(x, s)
<1>1. CASE GoesOn(r)
  BY <1>1 DEF GoesOn, Done, Sent, Later, VoteInv, Receipts
<1>2. CASE AnswersClient(r)
  <2>1. PICK message \in Replies :
            /\ message = "ok" => Head(queue).stmt = "INSERT audit_logs"
            /\ reply' = [reply EXCEPT ![r] = message]
    BY <1>2 DEF AnswersClient
  <2>2. /\ reply'[r] = message
        /\ \A x \in Requests : x # r => reply'[x] = reply[x]
    BY <2>1 DEF TypeInv, TypeOK, RequestsOK
  <2>3. reply[r] = NULL /\ 1 \in 1..Len(queue) /\ Head(queue) = queue[1]
    BY <1>2, HeadOwn DEF AnswersClient
  <2>4. message = "ok" /\ Sent(r, "castVote") => r \in KeptVotes
    BY <2>1, <2>3 DEF VoteInv, Stages, Staged
  <2>5. \A s \in Requests : Sent(s, "castVote") => r \notin req[s].after
    BY <2>3 DEF HandlersInv, Admitted, Sent
  <2>6. \A x \in Requests : Done(x, "castVote")' => x \in KeptVotes
    BY <2>1, <2>2, <2>4 DEF Done, Sent, VoteInv, Receipts
  <2>7. \A x, s \in Requests : Later(x, s)' => Later(x, s)
    BY <2>2, <2>5 DEF Later, Done, Sent
  <2>8. QED
    BY <2>6, <2>7
<1>3. QED
  BY <1>1, <1>2 DEF Turn

\* The flag of a vote that is in stops the later ones.
LEMMA LaterStops ==
    ASSUME NothingUndone, TypeInv, HandlersInv, VoteInv, queue # <<>>, req' = req, Moves,
           NEW r \in Requests, r = Head(queue).req,
           NEW qs \in Seq(Queries), Issue(qs),
           \A j \in 1..Len(qs) : qs[j].req = r /\ Follows(Head(queue).stmt, qs[j].stmt),
           qs # <<>> => Passed(r, Head(queue).stmt),
           NEW x \in Requests, NEW s \in Requests, Later(x, s)
    PROVE  Stopped(s)'
<1>1. /\ queue \in Seq(Queries) /\ 1 \in 1..Len(queue) /\ Head(queue) = queue[1]
  BY HeadOwn
<1>2. /\ s \notin StoredVotes
      /\ \A i \in 1..Len(queue) :
            queue[i].req = s => queue[i].stmt \in {"SELECT settings", "SELECT sudah_vote"}
  BY DEF VoteInv, Stopped
<1>3. s \notin StoredVotes'
  BY <1>1, <1>2, MoveVotesOwn DEF VoteInv
<1>4. users[req[s].user].sudah_vote
  BY DEF VoteInv, Receipts, KeptVotes, MarkedVotes, Later
<1>5. ASSUME NEW j \in 1..Len(qs), r = s PROVE qs[j].stmt = "SELECT sudah_vote"
  <2>1. qs # <<>>
    <3>1. 1..Len(<<>>) = {}
      BY EmptySeq
    <3>2. QED
      BY <3>1
  <2>2. Head(queue).stmt = "SELECT settings"
    BY <1>1, <1>2, <1>4, <1>5, <2>1 DEF Passed
  <2>3. QED
    BY <1>5, <2>2 DEF Follows, InsertBlockStmt, VoteLedger, AuditLedger
<1>6. ASSUME NEW i \in 1..Len(queue'), queue'[i].req = s
      PROVE  queue'[i].stmt \in {"SELECT settings", "SELECT sudah_vote"}
  <2>1. \/ \E k \in 1..Len(queue) : k # 1 /\ i = k - 1 /\ queue'[i] = queue[k]
        \/ \E j \in 1..Len(qs) : i = Len(queue) - 1 + j /\ queue'[i] = qs[j]
    BY <1>1, IssueOrigin
  <2>2. \/ \E k \in 1..Len(queue) : queue'[i] = queue[k]
        \/ \E j \in 1..Len(qs) : queue'[i] = qs[j]
    BY <2>1
  <2>3. QED
    BY <1>2, <1>5, <1>6, <2>2
<1>7. QED
  BY <1>3, <1>6 DEF Stopped

(***************************************************************************)
(* Every step keeps the invariant.                                         *)
(***************************************************************************)
LEMMA ServeVotes ==
    ASSUME NothingUndone, TypeInv, HandlersInv, VoteInv, NEW r \in Requests, Serve(r)
    PROVE  VoteInv'
<1>1. PICK stmt : Succeeds(r, stmt) \/ Fails(r, stmt)
  BY CallbackStatement DEF Serve
<1>2. /\ queue # <<>> /\ r = Head(queue).req /\ req' = req /\ Moves /\ Turn(r)
      /\ queue \in Seq(Queries)
  <2>1. Turn(r)
    BY CallbackTurn DEF Serve
  <2>2. QED
    BY <1>1, <2>1, StatementType, HeadOwn DEF Succeeds, Fails, Moves
<1>3. /\ DOMAIN users' = Users /\ VotesOwn'
      /\ StoredVotes \subseteq StoredVotes' /\ MarkedVotes \subseteq MarkedVotes'
      /\ KeptVotes \subseteq KeptVotes'
  BY <1>2, MovesGrow, VotesAdvance, MoveVotesOwn DEF VoteInv, TablesGrow
<1>4. \E qs \in Seq(Queries) :
          /\ Issue(qs)
          /\ qs # <<>> => Passed(r, Head(queue).stmt)
          /\ \A j \in 1..Len(qs) :
                /\ qs[j].req = r /\ Follows(Head(queue).stmt, qs[j].stmt)
                /\ Sent(r, "castVote") => Staged(qs[j], StoredVotes', MarkedVotes', KeptVotes')
  <2>1. CASE AnswersClient(r)
    <3>1. <<>> \in Seq(Queries) /\ 1..Len(<<>>) = {}
      BY EmptySeq
    <3>2. QED
      BY <2>1, <3>1 DEF AnswersClient
  <2>2. CASE GoesOn(r)
    <3>1. PICK qs : /\ IssuesOwn(r, qs) /\ Passed(r, Head(queue).stmt)
                    /\ \/ Perform(Head(queue))
                       \/ Head(queue).stmt = InsertBlockStmt(AuditLedger)
      BY <2>2 DEF GoesOn, Succeeds
    <3>2. \A j \in 1..Len(qs) :
              Sent(r, "castVote") => Staged(qs[j], StoredVotes', MarkedVotes', KeptVotes')
      BY <1>2, <3>1, IssuedStages
    <3>3. QED
      BY <3>1, <3>2 DEF IssuesOwn
  <2>3. QED
    BY <1>2, <2>1, <2>2 DEF Turn
<1>5. PICK qs \in Seq(Queries) :
          /\ Issue(qs)
          /\ qs # <<>> => Passed(r, Head(queue).stmt)
          /\ \A j \in 1..Len(qs) :
                /\ qs[j].req = r /\ Follows(Head(queue).stmt, qs[j].stmt)
                /\ Sent(r, "castVote") => Staged(qs[j], StoredVotes', MarkedVotes', KeptVotes')
  BY <1>4
<1>6. ASSUME NEW i \in 1..Len(queue'), Sent(queue[i].req, "castVote")'
      PROVE  Staged(queue'[i], StoredVotes', MarkedVotes', KeptVotes')
  <2>1. \/ \E k \in 1..Len(queue) : k # 1 /\ i = k - 1 /\ queue'[i] = queue[k]
        \/ \E j \in 1..Len(qs) : i = Len(queue) - 1 + j /\ queue'[i] = qs[j]
    BY <1>2, <1>5, IssueOrigin
  <2>2. Sent(queue'[i].req, "castVote")
    BY <1>2, <1>6 DEF Sent
  <2>3. CASE \E k \in 1..Len(queue) : queue'[i] = queue[k]
    <3>1. Staged(queue'[i], StoredVotes, MarkedVotes, KeptVotes)
      BY <2>2, <2>3 DEF VoteInv, Stages
    <3>2. QED
      BY <1>3, <3>1 DEF Staged
  <2>4. CASE \E j \in 1..Len(qs) : queue'[i] = qs[j]
    BY <1>5, <2>2, <2>4
  <2>5. QED
    BY <2>1, <2>3, <2>4
<1>7. /\ \A x \in Requests : Done(x, "castVote")' => x \in KeptVotes
      /\ \A x, s \in Requests : Later(x, s)' => Later(x, s)
  BY <1>2, TurnReceipts
<1>8. ASSUME NEW x \in Requests, NEW s \in Requests, Later(x, s)' PROVE Stopped(s)'
  BY <1>2, <1>5, <1>7, <1>8, LaterStops
<1>9. Stages'
  BY <1>6 DEF Stages
<1>10. Receipts'
  BY <1>3, <1>7 DEF Receipts
<1>11. QED
  BY <1>3, <1>8, <1>9, <1>10 DEF VoteInv

LEMMA ArriveVotes ==
    ASSUME NothingUndone, TypeInv, HandlersInv, VoteInv, NEW r \in Requests, Arrive(r)
    PROVE  VoteInv'
<1>1. PICK input \in Inputs, q \in Queries :
          Arrives(r, input, <<q>>) /\ FirstStatement(r, input, q)
  BY ArriveShape
<1>2. /\ UNCHANGED db /\ reply' = reply /\ req[r] = NULL /\ req' = [req EXCEPT ![r] = input]
      /\ queue' = queue \o <<q>>
  BY <1>1 DEF Arrives
<1>3. /\ queue \in Seq(Queries) /\ req \in [Requests -> Inputs \cup {NULL}]
      /\ DOMAIN users = Users /\ VotesOwn
  BY DEF TypeInv, TypeOK, MemoryOK, RequestsOK, VoteInv
<1>4. /\ req'[r] = input
      /\ \A s \in Requests : s # r => req'[s] = req[s]
  BY <1>2, <1>3
<1>5. /\ StoredVotes' = StoredVotes /\ MarkedVotes \subseteq MarkedVotes'
      /\ KeptVotes \subseteq KeptVotes'
  <2>1. TablesGrow
    BY <1>2 DEF db, TablesGrow
  <2>2. StoredVotes' = StoredVotes
    BY <1>2 DEF db, StoredVotes, Stored
  <2>3. \A s \in Requests : req[s] # NULL => req'[s] = req[s]
    BY <1>2, <1>4
  <2>4. QED
    BY <1>3, <2>1, <2>2, <2>3, VotesAdvance
<1>6. VotesOwn'
  <2>1. \A v \in votes : v.req \in Requests /\ v.req # r
    BY <1>2, <1>3 DEF VotesOwn, Sent, TypeInv, TypeOK, TablesOK
  <2>2. QED
    BY <1>2, <1>3, <1>4, <2>1 DEF VotesOwn, Sent, db
<1>7. \A i \in 1..Len(queue') :
          \/ /\ i \in 1..Len(queue) /\ queue'[i] = queue[i]
             /\ queue[i].req \in Requests /\ queue[i].req # r
          \/ queue'[i] = q
  <2>1. \A i \in 1..Len(queue) : queue[i].req \in Requests /\ queue[i].req # r
    BY <1>2, NullAssumption DEF TypeInv, QueueOK, Underway, Queries
  <2>2. QED
    BY <1>2, <1>3, <2>1, ArrivesElements
<1>8. q.req = r /\ (input.op = "castVote" => q.stmt = "SELECT settings")
  BY <1>1 DEF FirstStatement
<1>9. Stages'
  <2>1. ASSUME NEW i \in 1..Len(queue'), Sent(queue[i].req, "castVote")'
        PROVE  Staged(queue'[i], StoredVotes', MarkedVotes', KeptVotes')
    <3>1. CASE /\ i \in 1..Len(queue) /\ queue'[i] = queue[i]
               /\ queue[i].req \in Requests /\ queue[i].req # r
      <4>1. Sent(queue[i].req, "castVote")
        BY <1>4, <2>1, <3>1 DEF Sent
      <4>2. Staged(queue[i], StoredVotes, MarkedVotes, KeptVotes)
        BY <3>1, <4>1 DEF VoteInv, Stages
      <4>3. QED
        BY <1>5, <3>1, <4>2 DEF Staged
    <3>2. CASE queue'[i] = q
      <4>1. q.stmt = "SELECT settings"
        BY <1>4, <1>8, <2>1, <3>2 DEF Sent
      <4>2. QED
        BY <3>2, <4>1 DEF Staged, InsertBlockStmt, VoteLedger, AuditLedger
    <3>3. QED
      BY <1>7, <3>1, <3>2
  <2>2. QED
    BY <2>1 DEF Stages
<1>10. \A x \in Requests : Done(x, "castVote")' => x # r /\ Done(x, "castVote")
  <2>1. reply[r] # "ok"
    BY <1>2, NullAssumption DEF HandlersInv, Admitted, Replies
  <2>2. QED
    BY <1>2, <1>4, <2>1 DEF Done, Sent
<1>11. Receipts'
  BY <1>5, <1>10 DEF VoteInv, Receipts
<1>12. ASSUME NEW x \in Requests, NEW s \in Requests, Later(x, s)' PROVE Stopped(s)'
  <2>1. CASE s = r
    <3>1. s \notin StoredVotes
      BY <1>2, <1>3, <2>1, VotesSent
    <3>2. input.op = "castVote"
      BY <1>4, <1>12, <2>1 DEF Later, Sent
    <3>3. \A i \in 1..Len(queue') : queue'[i].req = s => queue'[i].stmt = "SELECT settings"
      BY <1>7, <1>8, <2>1, <3>2
    <3>4. QED
      BY <1>5, <3>1, <3>3 DEF Stopped
  <2>2. CASE s # r
    <3>1. Later(x, s)
      BY <1>4, <1>10, <1>12, <2>2 DEF Later, Sent
    <3>2. Stopped(s)
      BY <3>1 DEF VoteInv
    <3>3. \A i \in 1..Len(queue') :
              queue'[i].req = s => i \in 1..Len(queue) /\ queue'[i] = queue[i]
      BY <1>7, <1>8, <2>2
    <3>4. QED
      BY <1>5, <3>2, <3>3 DEF Stopped
  <2>3. QED
    BY <2>1, <2>2
<1>13. QED
  BY <1>2, <1>3, <1>6, <1>9, <1>11, <1>12 DEF VoteInv, db

\* The statement under way when the process ends is performed or not.
LEMMA EndVotes ==
    ASSUME NothingUndone, TypeInv, HandlersInv, VoteInv, ProcessEnds, Moves
    PROVE  VoteInv'
<1>1. req' = req /\ 1..Len(queue') = {}
  <2>1. 1..Len(<<>>) = {}
    BY EmptySeq
  <2>2. QED
    BY <2>1 DEF ProcessEnds
<1>2. /\ DOMAIN users' = Users /\ VotesOwn' /\ KeptVotes \subseteq KeptVotes'
  BY <1>1, MovesGrow, VotesAdvance, MoveVotesOwn DEF VoteInv, TablesGrow
<1>3. \A x \in Requests : Done(x, "castVote")' => Done(x, "castVote")
  BY <1>1 DEF ProcessEnds, Done, Sent
<1>4. ASSUME NEW x \in Requests, NEW s \in Requests, Later(x, s)' PROVE Stopped(s)'
  <2>1. Stopped(s)
    BY <1>1, <1>3, <1>4 DEF VoteInv, Later, Sent
  <2>2. s \notin StoredVotes'
    <3>1. queue # <<>> => 1 \in 1..Len(queue) /\ Head(queue) = queue[1]
      BY HeadOwn
    <3>2. QED
      BY <1>1, <2>1, <3>1, MoveVotesOwn DEF Stopped, VoteInv
  <2>3. QED
    BY <1>1, <2>2 DEF Stopped
<1>5. Stages'
  BY <1>1 DEF Stages
<1>6. Receipts'
  BY <1>2, <1>3 DEF VoteInv, Receipts
<1>7. QED
  BY <1>2, <1>4, <1>5, <1>6 DEF VoteInv

LEMMA RestartVotes ==
    ASSUME TypeInv, HandlersInv, VoteInv, Restart
    PROVE  VoteInv'
<1>1. UNCHANGED <<users, votes, queue, req, reply>>
  BY DEF Restart
<1>2. 1..Len(queue) = {}
  <2>1. queue = <<>> /\ 1..Len(<<>>) = {}
    BY EmptySeq DEF Restart, TypeInv, ChainsLoaded
  <2>2. QED
    BY <2>1
<1>3. TablesGrow
  <2>1. blocks[VoteLedger] = <<>> => 1..Len(blocks[VoteLedger]) = {}
    BY EmptySeq
  <2>2. QED
    BY <1>1, <2>1, RestartRows DEF TablesGrow
<1>4. KeptVotes \subseteq KeptVotes'
  BY <1>1, <1>3, VotesAdvance DEF VoteInv
<1>5. /\ VotesOwn' /\ StoredVotes' = StoredVotes
      /\ \A x \in Requests : Done(x, "castVote")' => Done(x, "castVote")
      /\ \A x, s \in Requests : Later(x, s)' => Later(x, s)
  BY <1>1 DEF VoteInv, VotesOwn, Sent, StoredVotes, Stored, Done, Later
<1>6. Stages' /\ \A s \in Requests : Stopped(s) => Stopped(s)'
  BY <1>1, <1>2, <1>5 DEF Stages, Stopped
<1>7. QED
  BY <1>1, <1>4, <1>5, <1>6 DEF VoteInv, Receipts

LEMMA InitVotes == Init => VoteInv
<1> SUFFICES ASSUME Init PROVE VoteInv
  OBVIOUS
<1>1. 1..Len(queue) = {} /\ votes = {} /\ DOMAIN users = Users
  <2>1. 1..Len(<<>>) = {}
    BY EmptySeq
  <2>2. QED
    BY <2>1 DEF Init, InitWith
<1>2. \A r \in Requests : req[r] = NULL
  BY DEF Init, InitWith
<1>3. QED
  BY <1>1, <1>2 DEF VoteInv, VotesOwn, Stages, Receipts, Later, Done, Sent

LEMMA NextVotes ==
    NothingUndone /\ TypeInv /\ HandlersInv /\ VoteInv /\ [Next]_vars => VoteInv'
<1> SUFFICES ASSUME NothingUndone, TypeInv, HandlersInv, VoteInv, [Next]_vars
             PROVE  VoteInv'
  OBVIOUS
<1>1. ASSUME NEW r \in Requests, Arrive(r) PROVE VoteInv'
  BY <1>1, ArriveVotes
<1>2. ASSUME NEW r \in Requests, Serve(r) PROVE VoteInv'
  BY <1>2, ServeVotes
<1>3. ASSUME NEW r \in Requests, FatalError(r) PROVE VoteInv'
  BY <1>3, EndVotes DEF FatalError, Moves
<1>4. CASE Crash
  BY <1>4, EndVotes DEF Crash, Moves
<1>5. CASE Restart
  BY <1>5, RestartVotes
<1>6. CASE UNCHANGED vars
  <2>1. UNCHANGED <<users, votes, blocks, queue, req, reply>>
    BY <1>6 DEF vars, shared, memory, db
  <2>2. StoredVotes' = StoredVotes
    BY <2>1 DEF StoredVotes, Stored
  <2>3. MarkedVotes' = MarkedVotes
    BY <2>1, <2>2 DEF MarkedVotes
  <2>4. KeptVotes' = KeptVotes
    BY <2>1, <2>3 DEF KeptVotes, VoteData
  <2>5. VotesOwn' /\ Stages' /\ Receipts'
    BY <2>1, <2>2, <2>3, <2>4 DEF VoteInv, VotesOwn, Stages, Receipts, Done, Sent
  <2>6. QED
    BY <2>1, <2>2, <2>5 DEF VoteInv, Later, Done, Sent, Stopped
<1>7. QED
  BY <1>1, <1>2, <1>3, <1>4, <1>5, <1>6 DEF Next

LEMMA VotesInvariant == NothingUndone /\ Spec => [](TypeInv /\ HandlersInv /\ VoteInv)
<1>1. Init => VoteInv
  BY InitVotes
<1>2. NothingUndone /\ TypeInv /\ HandlersInv /\ VoteInv /\ [Next]_vars => VoteInv'
  BY NextVotes
<1>3. NothingUndone => NothingUndone'
  BY DEF NothingUndone
<1>4. QED
  BY <1>1, <1>2, <1>3, HandlersInvariant, PTL DEF Spec

\* Once castVote has told a voter that the vote is in, no later request of
\* that voter stores another, for any number of voters and requests, whatever
\* statements fail and whenever the process is killed, as long as nobody takes
\* votes back.
THEOREM ReceiptStopsVotes == NothingUndone /\ Spec => []NoVoteAfterReceipt
<1>1. TypeInv /\ HandlersInv /\ VoteInv => NoVoteAfterReceipt
  BY DEF VoteInv, NoVoteAfterReceipt, Later, Stopped, StoredVotes
<1>2. QED
  BY <1>1, VotesInvariant, PTL

\* A vote that castVote has confirmed has its row, its flag and its block in
\* the tables, and keeps them, through failed statements, kills, restarts and
\* a chain tampered with in memory.
THEOREM ReceiptsAreDurable == NothingUndone /\ Spec => []ReceiptIsDurable
<1>1. TypeInv /\ HandlersInv /\ VoteInv => ReceiptIsDurable
  <2> SUFFICES ASSUME TypeInv, VoteInv, NEW r \in Requests, Done(r, "castVote")
               PROVE  /\ Stored(r)
                      /\ users[req[r].user].sudah_vote
                      /\ \E i \in DOMAIN blocks[VoteLedger] :
                            /\ blocks[VoteLedger][i].timestamp = r
                            /\ blocks[VoteLedger][i].data = VoteData(r)
    BY DEF ReceiptIsDurable
  <2>1. r \in KeptVotes
    BY DEF VoteInv, Receipts
  <2>2. DOMAIN blocks[VoteLedger] = 1..Len(blocks[VoteLedger])
    BY DEF TypeInv, TypeOK, TablesOK, Ledgers
  <2>3. QED
    BY <2>1, <2>2 DEF KeptVotes, MarkedVotes, StoredVotes
<1>2. QED
  BY <1>1, VotesInvariant, PTL

(***************************************************************************)
(* The blocks of the vote ledger.                                          *)
(***************************************************************************)
\* Nobody overwrites a block in memory.
NobodyTampers == "hack" \notin Operations

Recorded(b, rows) ==
    b.data = GenesisData \/
    \E v \in rows : v.req = b.timestamp /\ b.data = <<"vote", v.user, v.candidate>>

BlockInv ==
    /\ \A i \in 1..Len(chain[VoteLedger])  : Recorded(chain[VoteLedger][i], votes)
    /\ \A i \in 1..Len(blocks[VoteLedger]) : Recorded(blocks[VoteLedger][i], votes)

LEMMA MoveBlocks ==
    ASSUME NothingUndone, TypeInv, HandlersInv, VoteInv, BlockInv, Moves
    PROVE  /\ votes \subseteq votes'
           /\ \A i \in 1..Len(blocks'[VoteLedger]) : Recorded(blocks'[VoteLedger][i], votes')
<1>1. votes \subseteq votes'
  BY MovesGrow DEF TablesGrow
<1>2. \A b : Recorded(b, votes) => Recorded(b, votes')
  BY <1>1 DEF Recorded
<1>3. CASE UNCHANGED db
  BY <1>2, <1>3 DEF BlockInv, db
<1>4. CASE queue # <<>> /\ Perform(Head(queue))
  <2> DEFINE q == Head(queue)
  <2>1. /\ RemovesNothing(q) /\ Perform(q) /\ OwnStatement(q)
        /\ 1 \in 1..Len(queue) /\ q = queue[1] /\ q.req \in Requests /\ req[q.req] # NULL
    BY <1>4, HeadUndoesNothing, HeadOwn, HeadUnderway, NullAssumption
  <2>2. q.stmt = InsertBlockStmt(VoteLedger) => Recorded(q.block, votes)
    <3> SUFFICES ASSUME q.stmt = InsertBlockStmt(VoteLedger) PROVE Recorded(q.block, votes)
      OBVIOUS
    <3>1. req[q.req].op \in {"castVote", "resetAll"} /\ req[q.req].op \in Operations
      BY <2>1 DEF OwnStatement, Own, MayIssue, HandlersInv, Admitted
    <3>2. req[q.req].op = "castVote"
      BY <3>1 DEF NothingUndone
    <3>3. q.req \in StoredVotes
      BY <2>1, <3>2 DEF VoteInv, Stages, Sent, Staged, MarkedVotes
    <3>4. q.block.timestamp = q.req /\ q.block.data = VoteData(q.req)
      BY <2>1, <3>2 DEF OwnStatement, Own, OwnBlock, VoteData
    <3>5. \E v \in votes : v.req = q.req /\ VoteData(q.req) = <<"vote", v.user, v.candidate>>
      BY <3>3, VotesSent DEF VoteInv
    <3>6. QED
      BY <3>4, <3>5 DEF Recorded
  <2> HIDE DEF q
  <2>3. \A i \in 1..Len(blocks'[VoteLedger]) :
            \/ i \in 1..Len(blocks[VoteLedger]) /\ blocks'[VoteLedger][i] = blocks[VoteLedger][i]
            \/ q.stmt = InsertBlockStmt(VoteLedger) /\ blocks'[VoteLedger][i] = q.block
    BY <2>1, PerformBlocks
  <2>4. QED
    BY <1>1, <1>2, <2>2, <2>3 DEF BlockInv
<1>5. QED
  BY <1>1, <1>3, <1>4 DEF Moves

LEMMA ServeBlocks ==
    ASSUME NothingUndone, TypeInv, HandlersInv, VoteInv, BlockInv,
           NEW r \in Requests, Serve(r)
    PROVE  BlockInv'
<1>1. PICK stmt : Succeeds(r, stmt) \/ Fails(r, stmt)
  BY CallbackStatement DEF Serve
<1>2. /\ votes \subseteq votes'
      /\ \A i \in 1..Len(blocks'[VoteLedger]) : Recorded(blocks'[VoteLedger][i], votes')
  BY <1>1, MoveBlocks DEF Succeeds, Fails, Executes, Moves
<1>3. \A i \in 1..Len(chain[VoteLedger]) : Recorded(chain[VoteLedger][i], votes')
  BY <1>2 DEF BlockInv, Recorded
<1>4. \A i \in 1..Len(chain'[VoteLedger]) : Recorded(chain'[VoteLedger][i], votes')
  <2>1. CASE chain'[VoteLedger] = chain[VoteLedger]
    BY <1>3, <2>1
  <2>2. CASE FlagSet(r)
    <3> DEFINE b == NextVoteBlock(r)
    <3>1. Succeeds(r, "SET sudah_vote") /\ chain' = [chain EXCEPT ![VoteLedger] = Append(@, b)]
      BY <2>2 DEF FlagSet
    <3>2. /\ chain \in [Ledgers -> Seq(Blocks)] /\ b \in Blocks
          /\ chain'[VoteLedger] = Append(chain[VoteLedger], b)
      BY <3>1, NextVoteBlockType DEF TypeInv, TypeOK, MemoryOK, Serve, Ledgers
    <3>3. b.timestamp = r /\ b.data = VoteData(r)
      BY NewBlockSound DEF NextVoteBlock
    <3>4. Recorded(b, votes')
      <4>1. r = Head(queue).req /\ Head(queue).stmt = "SET sudah_vote" /\ queue # <<>>
        BY <3>1 DEF Succeeds, Executes
      <4>2. Sent(r, "castVote")
        BY <3>1, HandlerOf, StatementType DEF MayIssue, Sent
      <4>3. r \in StoredVotes
        BY <4>1, <4>2, HeadOwn DEF VoteInv, Stages, Staged
      <4>4. \E v \in votes : v.req = r /\ VoteData(r) = <<"vote", v.user, v.candidate>>
        BY <4>3, VotesSent DEF VoteInv
      <4> HIDE DEF b
      <4>5. QED
        BY <1>2, <3>3, <4>4 DEF Recorded
    <3> HIDE DEF b
    <3>5. \A i \in 1..Len(chain'[VoteLedger]) :
              \/ i \in 1..Len(chain[VoteLedger]) /\ chain'[VoteLedger][i] = chain[VoteLedger][i]
              \/ chain'[VoteLedger][i] = b
      <4>1. chain[VoteLedger] \in Seq(Blocks)
        BY <3>2 DEF Ledgers
      <4>2. QED
        BY <3>2, <4>1, AppendedRow
    <3>6. QED
      BY <1>3, <3>4, <3>5
  <2>3. CASE GenesisSaved(r)
    <3>1. Succeeds(r, InsertBlockStmt(VoteLedger)) /\ req[r].op = "resetAll"
      BY <2>3 DEF GenesisSaved
    <3>2. req[r].op \in Operations
      BY <3>1, StatementType DEF HandlersInv, Admitted
    <3>3. QED
      BY <3>1, <3>2 DEF NothingUndone
  <2>4. QED
    BY <2>1, <2>2, <2>3, VoteChain DEF Serve
<1>5. QED
  BY <1>2, <1>4 DEF BlockInv

LEMMA NextBlocks ==
    NothingUndone /\ NobodyTampers /\ TypeInv /\ HandlersInv /\ VoteInv /\ BlockInv
        /\ [Next]_vars => BlockInv'
<1> SUFFICES ASSUME NothingUndone, NobodyTampers, TypeInv, HandlersInv, VoteInv, BlockInv,
                    [Next]_vars
             PROVE  BlockInv'
  OBVIOUS
<1>1. ASSUME NEW r \in Requests, Arrive(r) PROVE BlockInv'
  <2>1. PICK input \in Inputs, q \in Queries :
            Arrives(r, input, <<q>>) /\ FirstStatement(r, input, q)
    BY <1>1, ArriveShape
  <2>2. chain' = chain
    BY <1>1, ArriveChain DEF HackArrives, Arrives, Input, NobodyTampers
  <2>3. QED
    BY <2>1, <2>2 DEF Arrives, db, BlockInv
<1>2. ASSUME NEW r \in Requests, Serve(r) PROVE BlockInv'
  BY <1>2, ServeBlocks
<1>3. CASE ProcessEnds /\ Moves
  <2>1. 1..Len(chain'[VoteLedger]) = {}
    <3>1. 1..Len(<<>>) = {}
      BY EmptySeq
    <3>2. QED
      BY <1>3, <3>1 DEF ProcessEnds, Ledgers
  <2>2. QED
    BY <1>3, <2>1, MoveBlocks DEF BlockInv
<1>4. CASE Restart
  <2>1. BootGenesis.data = GenesisData /\ 1..Len(<<BootGenesis>>) = {1}
    BY GenesisSound DEF BootGenesis
  <2>2. votes' = votes
    BY <1>4 DEF Restart
  <2>3. \A i \in 1..Len(blocks'[VoteLedger]) : Recorded(blocks'[VoteLedger][i], votes)
    BY <1>4, <2>1, RestartRows DEF BlockInv, Recorded
  <2>4. QED
    BY <1>4, <2>2, <2>3, RestartRows DEF BlockInv
<1>5. CASE UNCHANGED vars
  BY <1>5 DEF vars, shared, memory, db, BlockInv
<1>6. QED
  BY <1>1, <1>2, <1>3, <1>4, <1>5 DEF Next, Crash, FatalError, Moves

\* No block is on the vote ledger, in memory or in the table, without the row
\* of its vote, for any number of voters and requests, through failures, kills
\* and restarts, as long as nobody takes votes back or tampers with the chain.
THEOREM BlocksHaveVotes == NothingUndone /\ NobodyTampers /\ Spec => []NoBlockWithoutVote
<1>1. TypeInv /\ BlockInv => NoBlockWithoutVote
  <2> SUFFICES ASSUME TypeInv, BlockInv,
                      NEW b \in VoteBlocks(chain[VoteLedger]) \cup VoteBlocks(blocks[VoteLedger])
               PROVE  RecordsVote(b)
    BY DEF NoBlockWithoutVote
  <2>1. /\ DOMAIN chain[VoteLedger] = 1..Len(chain[VoteLedger])
        /\ DOMAIN blocks[VoteLedger] = 1..Len(blocks[VoteLedger])
    BY DEF TypeInv, TypeOK, MemoryOK, TablesOK, Ledgers
  <2>2. b.data # GenesisData /\ Recorded(b, votes)
    BY <2>1 DEF VoteBlocks, BlockInv
  <2>3. QED
    BY <2>2 DEF Recorded, RecordsVote
<1>2. Init => BlockInv
  <2>1. BootGenesis.data = GenesisData /\ 1..Len(<<BootGenesis>>) = {1}
    BY GenesisSound DEF BootGenesis
  <2>2. QED
    BY <2>1 DEF Init, InitWith, BlockInv, Recorded, Ledgers
<1>3. NothingUndone /\ NobodyTampers /\ TypeInv /\ HandlersInv /\ VoteInv /\ BlockInv
         /\ [Next]_vars => BlockInv'
  BY NextBlocks
<1>4. (NothingUndone => NothingUndone') /\ (NobodyTampers => NobodyTampers')
  BY DEF NothingUndone, NobodyTampers
<1>5. QED
  BY <1>1, <1>2, <1>3, <1>4, VotesInvariant, PTL DEF Spec

(***************************************************************************)
(* Voters who wait for an answer before they vote again: the votes table   *)
(* is a ballot box.                                                        *)
(***************************************************************************)
\* No statement fails, the process is not killed, and no user is deleted while
\* a vote of that user is checked (which ends the process).
NothingFails == MaxFaults = 0 /\ MaxCrashes = 0 /\ "deleteUser" \notin Operations

Voted(rows, u) == \E v \in rows : v.user = u

\* A vote that has passed the check of the flag is the voter's first.
Clears ==
    \A i \in 1..Len(queue) :
        queue[i].stmt \in {"SELECT candidate", "INSERT votes"}
            => ~HasVote(req[queue[i].req].user)

SerialInv ==
    /\ DOMAIN users = Users
    /\ up /\ NobodyCutOff
    /\ OneAtATime /\ OneVotePerVoter
    /\ Clears

\* castVote finds the flag clear when the voter has no vote: a flag that is
\* still to be set is that of a vote which has not been answered.
LEMMA FlagIsClear ==
    ASSUME TypeInv, HandlersInv, FlagInv, faults = 0, NobodyCutOff, OneAtATime,
           queue # <<>>, Head(queue).stmt = "SELECT sudah_vote",
           NEW u \in DOMAIN users, u = req[Head(queue).req].user, ~users[u].sudah_vote
    PROVE  ~HasVote(u)
<1> DEFINE r == Head(queue).req
           W == {i \in 1..Len(queue) : WritesFlag(queue[i], u)}
<1>1. Agrees(u)
  BY DEF FlagInv
<1>2. /\ queue \in Seq(Queries) /\ Len(queue) \in Nat /\ 1 \in 1..Len(queue)
      /\ Head(queue) = queue[1]
  BY HeadOwn, EmptySeq
<1>3. \A i \in 1..Len(queue) :
          /\ queue[i].req \in Requests /\ req[queue[i].req] # NULL
          /\ queue[i].stmt \in {"SELECT sudah_vote", "SET sudah_vote"}
                => /\ req[queue[i].req].op = "castVote"
                   /\ reply[queue[i].req] = NULL
                   /\ Awaited(queue[i])
  BY DEF TypeInv, QueueOK, Underway, Queries, HandlersInv, OwnStatement, Own, MayIssue, Waits,
     Awaited
<1>4. u \in Users
  BY DEF TypeInv, TypeOK, TablesOK
<1>5. Voting(r, u) /\ r \in Requests /\ Awaited(queue[1])
  BY <1>2, <1>3 DEF Voting, Sent
<1> HIDE DEF r
<1>6. CASE W = {}
  <2>1. \A i \in 1..Len(queue) : ~WritesFlag(queue[i], u)
    BY <1>6
  <2>2. QED
    BY <1>1, <2>1 DEF Agrees
<1>7. CASE W # {}
  <2>1. PICK i \in W : \A j \in W : j <= i
    BY <1>2, <1>7, LastPosition
  <2>2. i \in 1..Len(queue) /\ LastWrite(i, u) /\ WritesFlag(queue[i], u)
    BY <2>1 DEF LastWrite
  <2>3. ASSUME queue[i].stmt = "SET sudah_vote" PROVE FALSE
    <3>1. req[queue[i].req].user = u
      BY <1>3, <2>2, <2>3 DEF WritesFlag, Scope
    <3>2. Voting(queue[i].req, u)
      BY <1>3, <2>2, <2>3, <3>1 DEF Voting, Sent
    <3>3. queue[i].req = r
      BY <1>3, <1>4, <1>5, <2>2, <3>2 DEF OneAtATime
    <3>4. i = 1
      BY <1>2, <1>3, <1>5, <2>2, <2>3, <3>3 DEF HandlersInv, OneEach, r
    <3>5. QED
      BY <1>2, <2>3, <3>4
  <2>4. QED
    BY <1>1, <2>2, <2>3 DEF Agrees
<1>8. QED
  BY <1>6, <1>7

\* Nobody deletes users here, so no statement does.
LEMMA HeadDeletesNobody ==
    ASSUME NothingFails, TypeInv, HandlersInv, queue # <<>>
    PROVE  Head(queue).stmt # "DELETE users"
<1>1. /\ MayIssue(req[Head(queue).req].op, Head(queue).stmt)
      /\ Head(queue).req \in Requests /\ req[Head(queue).req] # NULL
  BY HeadOwn, HeadUnderway, NullAssumption DEF OwnStatement, Own
<1>2. req[Head(queue).req].op \in Operations
  BY <1>1 DEF HandlersInv, Admitted
<1>3. QED
  BY <1>1, <1>2 DEF NothingFails, MayIssue

\* A callback either leaves the votes alone, or adds the first vote of its
\* voter, or takes out those of a reset.
LEMMA ServeVotesTable ==
    ASSUME NothingFails, TypeInv, HandlersInv, SerialInv, NEW r \in Requests, Serve(r)
    PROVE  /\ DOMAIN users' = Users
           /\ \/ votes' = votes /\ Head(queue).stmt # "INSERT votes"
              \/ /\ Head(queue).stmt = "INSERT votes"
                 /\ Fails(r, "INSERT votes") /\ votes' = votes
              \/ /\ Head(queue).stmt = "INSERT votes"
                 /\ req[r].user \in Users /\ req[r].candidate \in Candidates
                 /\ ~HasVote(req[r].user)
                 /\ votes' = votes \cup {[req |-> r, user |-> req[r].user,
                                          candidate |-> req[r].candidate]}
              \/ /\ Head(queue).stmt = "DELETE votes"
                 /\ Scope(r) = Users \/ \E u \in Users : Scope(r) = {u}
                 /\ votes' = {v \in votes : v.user \notin Scope(r)}
<1> DEFINE q == Head(queue)
<1>1. PICK stmt : Succeeds(r, stmt) \/ Fails(r, stmt)
  BY CallbackStatement DEF Serve
<1>2. /\ queue # <<>> /\ q.req = r /\ q.stmt = stmt /\ req[r] # NULL
      /\ OwnStatement(q) /\ 1 \in 1..Len(queue) /\ q = queue[1]
  BY <1>1, StatementType, HeadOwn
<1>3. CASE Fails(r, stmt)
  BY <1>2, <1>3 DEF Fails, db, SerialInv
<1>4. CASE Succeeds(r, stmt)
  <2>1. Perform(q) /\ ~Rejected(q)
    BY <1>4 DEF Succeeds
  <2>2. q.stmt # "DELETE users"
    BY <1>2, HeadDeletesNobody
  <2>3. q.stmt = "INSERT votes" => /\ req[r].user \in Users /\ req[r].candidate \in Candidates
                                   /\ ~HasVote(req[r].user)
    BY <1>2, <2>1 DEF Rejected, SerialInv, Clears
  <2>4. q.stmt = "DELETE votes" => Scope(r) = Users \/ \E u \in Users : Scope(r) = {u}
    BY <1>2 DEF OwnStatement, Own, MayIssue, HandlersInv, Admitted, Scope
  <2> HIDE DEF q
  <2>5. /\ q.stmt # "DELETE users" => DOMAIN users' = DOMAIN users
        /\ q.stmt \notin {"INSERT votes", "DELETE votes", "DELETE users"} => votes' = votes
        /\ q.stmt = "INSERT votes" =>
             votes' = votes \cup {[req |-> q.req, user |-> req[q.req].user,
                                   candidate |-> req[q.req].candidate]}
        /\ q.stmt = "DELETE votes" => votes' = {v \in votes : v.user \notin Scope(q.req)}
    BY <2>1, PerformVotes
  <2>6. QED
    BY <1>2, <2>2, <2>3, <2>4, <2>5 DEF SerialInv, q
<1>5. QED
  BY <1>1, <1>3, <1>4

LEMMA ServeSerial ==
    ASSUME NothingFails, TypeInv, HandlersInv, FlagInv, SerialInv,
           NEW r \in Requests, Serve(r), OneAtATime'
    PROVE  SerialInv'
<1> DEFINE q == Head(queue)
<1>1. PICK stmt : Succeeds(r, stmt) \/ Fails(r, stmt)
  BY CallbackStatement DEF Serve
<1>2. /\ queue # <<>> /\ q.req = r /\ q.stmt = stmt /\ req' = req /\ req[r] # NULL
      /\ 1 \in 1..Len(queue) /\ q = queue[1] /\ OwnStatement(q) /\ queue \in Seq(Queries)
  BY <1>1, StatementType, HeadOwn
<1>3. faults = 0
  BY DEF NothingFails, TypeInv, TypeOK, LifecycleOK
<1>4. NobodyCutOff' /\ up' /\ DOMAIN users' = Users
  BY ServeLucky, ServeVotesTable DEF SerialInv, Serve, lifecycle
<1>5. \A u : Voted(votes', u) => \/ HasVote(u)
                                 \/ q.stmt = "INSERT votes" /\ u = req[r].user
  <2> DEFINE v == [req |-> r, user |-> req[r].user, candidate |-> req[r].candidate]
  <2>1. v.user = req[r].user
    OBVIOUS
  <2>2. votes' \subseteq votes \/ (q.stmt = "INSERT votes" /\ votes' = votes \cup {v})
    BY ServeVotesTable
  <2> HIDE DEF v
  <2>3. QED
    BY <2>1, <2>2 DEF HasVote, Voted
<1>6. OneVotePerVoter'
  <2> DEFINE v == [req |-> r, user |-> req[r].user, candidate |-> req[r].candidate]
  <2>1. v.user = req[r].user
    OBVIOUS
  <2>2. votes' \subseteq votes \/ (~HasVote(req[r].user) /\ votes' = votes \cup {v})
    BY ServeVotesTable
  <2> HIDE DEF v
  <2>3. QED
    BY <2>1, <2>2 DEF HasVote, SerialInv, OneVotePerVoter
\* A vote that is being checked stays the voter's first: no other is under way.
<1>7. ASSUME NEW k \in 1..Len(queue), k # 1,
             queue[k].stmt \in {"SELECT candidate", "INSERT votes"}
      PROVE  ~Voted(votes', req[queue[k].req].user)
  <2> DEFINE u == req[queue[k].req].user
  <2>1. ~HasVote(u)
    BY <1>7 DEF SerialInv, Clears
  <2>2. /\ queue[k].req \in Requests /\ req[queue[k].req] # NULL
        /\ req[queue[k].req].op = "castVote" /\ reply[queue[k].req] = NULL /\ Awaited(queue[k])
    BY <1>7 DEF TypeInv, QueueOK, Underway, Queries, HandlersInv, OwnStatement, Own, MayIssue,
       Waits, Awaited
  <2>3. Voting(queue[k].req, u) /\ u \in Users
    BY <2>2 DEF Voting, Sent, HandlersInv, Admitted
  <2>4. ASSUME q.stmt = "INSERT votes" PROVE u # req[r].user
    <3>1. Voting(r, req[r].user) /\ Awaited(q)
      BY <1>2, <2>4, HeadOwn DEF OwnStatement, Own, MayIssue, Voting, Sent, Awaited
    <3>2. r # queue[k].req
      BY <1>2, <1>7, <2>2, <3>1 DEF HandlersInv, OneEach
    <3>3. QED
      BY <2>2, <2>3, <3>1, <3>2 DEF SerialInv, OneAtATime
  <2> HIDE DEF u
  <2>5. ~Voted(votes', u)
    BY <1>5, <2>1, <2>4
  <2>6. QED
    BY <2>5 DEF u
<1>8. ASSUME NEW next \in {"SELECT candidate", "INSERT votes"},
             Follows(q.stmt, next), Passed(r, q.stmt)
      PROVE  ~Voted(votes', req[r].user)
  <2>1. \/ q.stmt = "SELECT sudah_vote" /\ ~users[req[r].user].sudah_vote
        \/ q.stmt = "SELECT candidate"
    BY <1>8 DEF Follows, Passed, InsertBlockStmt, VoteLedger, AuditLedger
  <2>2. req[r].user \in DOMAIN users
    BY <1>2, <2>1 DEF OwnStatement, Own, MayIssue, HandlersInv, Admitted, SerialInv
  <2>3. ~HasVote(req[r].user)
    BY <1>2, <1>3, <2>1, <2>2, FlagIsClear DEF SerialInv, Clears
  <2>4. QED
    BY <1>5, <2>1, <2>3
<1>9. \E qs \in Seq(Queries) :
          /\ Issue(qs)
          /\ \A j \in 1..Len(qs) :
                qs[j].req = r /\ Follows(q.stmt, qs[j].stmt) /\ Passed(r, q.stmt)
  <2>1. CASE AnswersClient(r)
    <3>1. <<>> \in Seq(Queries) /\ 1..Len(<<>>) = {}
      BY EmptySeq
    <3>2. QED
      BY <2>1, <3>1 DEF AnswersClient
  <2>2. CASE GoesOn(r)
    <3>1. PICK qs : IssuesOwn(r, qs) /\ Passed(r, q.stmt)
      BY <2>2 DEF GoesOn
    <3>2. QED
      BY <3>1 DEF IssuesOwn
  <2>3. QED
    BY <2>1, <2>2, CallbackTurn DEF Serve, Turn
<1>10. PICK qs \in Seq(Queries) :
          /\ Issue(qs)
          /\ \A j \in 1..Len(qs) :
                qs[j].req = r /\ Follows(q.stmt, qs[j].stmt) /\ Passed(r, q.stmt)
  BY <1>9
<1>11. ASSUME NEW i \in 1..Len(queue'),
              queue'[i].stmt \in {"SELECT candidate", "INSERT votes"}
       PROVE  ~Voted(votes', req[queue'[i].req].user)
  <2>1. \/ \E k \in 1..Len(queue) : k # 1 /\ i = k - 1 /\ queue'[i] = queue[k]
        \/ \E j \in 1..Len(qs) : i = Len(queue) - 1 + j /\ queue'[i] = qs[j]
    BY <1>2, <1>10, IssueOrigin
  <2>2. CASE \E k \in 1..Len(queue) : k # 1 /\ queue'[i] = queue[k]
    BY <1>7, <1>11, <2>2
  <2>3. CASE \E j \in 1..Len(qs) : queue'[i] = qs[j]
    BY <1>8, <1>10, <1>11, <2>3
  <2>4. QED
    BY <2>1, <2>2, <2>3
<1>12. Clears'
  BY <1>2, <1>11 DEF Clears, HasVote, Voted
<1>13. QED
  BY <1>4, <1>6, <1>12 DEF SerialInv

LEMMA ArriveSerial ==
    ASSUME TypeInv, HandlersInv, SerialInv, NEW r \in Requests, Arrive(r), OneAtATime'
    PROVE  SerialInv'
<1>1. PICK input \in Inputs, q \in Queries :
          Arrives(r, input, <<q>>) /\ FirstStatement(r, input, q)
  BY ArriveShape
<1>2. /\ UNCHANGED <<db, lifecycle>> /\ reply' = reply /\ req[r] = NULL
      /\ req' = [req EXCEPT ![r] = input] /\ queue' = queue \o <<q>>
  BY <1>1 DEF Arrives
<1>3. /\ queue \in Seq(Queries) /\ req \in [Requests -> Inputs \cup {NULL}]
  BY DEF TypeInv, TypeOK, MemoryOK, RequestsOK
<1>4. \A s \in Requests : s # r => req'[s] = req[s]
  BY <1>2, <1>3
<1>5. q.stmt \notin {"SELECT candidate", "INSERT votes"}
  BY <1>1 DEF FirstStatement, InsertBlockStmt, AuditLedger
<1>6. \A i \in 1..Len(queue') :
          \/ /\ i \in 1..Len(queue) /\ queue'[i] = queue[i]
             /\ queue[i].req \in Requests /\ queue[i].req # r
          \/ queue'[i] = q
  <2>1. \A i \in 1..Len(queue) : queue[i].req \in Requests /\ queue[i].req # r
    BY <1>2, NullAssumption DEF TypeInv, QueueOK, Underway, Queries
  <2>2. QED
    BY <1>2, <1>3, <2>1, ArrivesElements
<1>7. Clears'
  <2>1. votes' = votes
    BY <1>2 DEF db
  <2>2. ASSUME NEW i \in 1..Len(queue'),
               queue'[i].stmt \in {"SELECT candidate", "INSERT votes"}
        PROVE  ~Voted(votes', req'[queue'[i].req].user)
    <3>1. /\ i \in 1..Len(queue) /\ queue'[i] = queue[i]
          /\ queue[i].req \in Requests /\ queue[i].req # r
      BY <1>5, <1>6, <2>2
    <3>2. ~HasVote(req[queue[i].req].user)
      BY <2>2, <3>1 DEF SerialInv, Clears
    <3>3. QED
      BY <1>4, <2>1, <3>1, <3>2 DEF HasVote, Voted
  <2>3. QED
    BY <2>2 DEF Clears, HasVote, Voted
<1>8. QED
  BY <1>2, <1>7 DEF SerialInv, OneVotePerVoter, NobodyCutOff, db, lifecycle

\* A user who is there is found: no callback ends the process.
LEMMA NobodyIsGone ==
    ASSUME HandlersInv, SerialInv, TypeInv, NEW r \in Requests
    PROVE  ~FatalError(r)
<1> SUFFICES ASSUME FatalError(r) PROVE FALSE
  OBVIOUS
<1>1. /\ queue # <<>> /\ Head(queue).req = r /\ Head(queue).stmt = "SELECT sudah_vote"
      /\ req[r].user \notin DOMAIN users
  BY DEF FatalError, UserIsGone, Executes
<1>2. req[r] # NULL /\ OwnStatement(Head(queue))
  BY <1>1, HeadOwn, HeadUnderway, NullAssumption
<1>3. req[r].user \in Users
  BY <1>1, <1>2 DEF OwnStatement, Own, MayIssue, HandlersInv, Admitted
<1>4. QED
  BY <1>1, <1>3 DEF SerialInv

LEMMA InitSerial == Init => SerialInv
<1> SUFFICES ASSUME Init PROVE SerialInv
  OBVIOUS
<1>1. 1..Len(queue) = {}
  <2>1. queue = <<>> /\ 1..Len(<<>>) = {}
    BY EmptySeq DEF Init, InitWith
  <2>2. QED
    BY <2>1
<1>2. OneAtATime
  BY NullAssumption DEF Init, InitWith, OneAtATime, Voting, Sent
<1>3. NobodyCutOff
  <2>1. "connection lost" # NULL
    BY NullAssumption DEF Replies
  <2>2. QED
    BY <2>1 DEF Init, InitWith, NobodyCutOff
<1>4. DOMAIN users = Users /\ up /\ OneVotePerVoter
  BY DEF Init, InitWith, OneVotePerVoter
<1>5. QED
  BY <1>1, <1>2, <1>3, <1>4 DEF SerialInv, Clears

LEMMA NextSerial ==
    NothingFails /\ TypeInv /\ HandlersInv /\ FlagInv /\ SerialInv
        /\ [Next /\ OneAtATime']_vars => SerialInv'
<1> SUFFICES ASSUME NothingFails, TypeInv, HandlersInv, FlagInv, SerialInv,
                    [Next /\ OneAtATime']_vars
             PROVE  SerialInv'
  OBVIOUS
<1>1. ASSUME NEW r \in Requests, Arrive(r), OneAtATime' PROVE SerialInv'
  BY <1>1, ArriveSerial
<1>2. ASSUME NEW r \in Requests, Serve(r), OneAtATime' PROVE SerialInv'
  BY <1>2, ServeSerial
<1>3. ASSUME NEW r \in Requests, FatalError(r) PROVE SerialInv'
  BY <1>3, NobodyIsGone
<1>4. ~Crash /\ ~Restart
  BY DEF Crash, Restart, NothingFails, SerialInv, TypeInv, TypeOK, LifecycleOK
<1>5. CASE UNCHANGED vars
  <2>1. UNCHANGED <<users, votes, queue, req, reply, up>>
    BY <1>5 DEF vars, shared, memory, db
  <2>2. OneAtATime' /\ Clears'
    BY <2>1 DEF SerialInv, OneAtATime, Voting, Sent, Clears, HasVote
  <2>3. QED
    BY <2>1, <2>2 DEF SerialInv, NobodyCutOff, OneVotePerVoter
<1>6. QED
  BY <1>1, <1>2, <1>3, <1>4, <1>5 DEF Next

LEMMA SerialInvariant ==
    NothingFails /\ SerialSpec => [](TypeInv /\ HandlersInv /\ FlagInv /\ SerialInv)
<1>1. Init => TypeInv /\ HandlersInv /\ FlagInv /\ SerialInv
  BY InitType, InitHandlers, InitFlags, InitSerial
<1>2. [Next /\ OneAtATime']_vars => [Next]_vars
  OBVIOUS
<1>3. NothingFails /\ TypeInv /\ HandlersInv /\ FlagInv /\ SerialInv
         /\ [Next /\ OneAtATime']_vars
      => TypeInv' /\ HandlersInv' /\ FlagInv' /\ SerialInv'
  BY <1>2, NextType, NextHandlers, NextFlags, NextSerial
<1>4. NothingFails => NothingFails'
  BY DEF NothingFails
<1>5. QED
  BY <1>1, <1>3, <1>4, PTL DEF SerialSpec

\* BallotOf of a given table.
BallotIn(rows, u) ==
    LET mine == {v \in rows : v.user = u}
    IN  IF mine = {} THEN NULL
        ELSE IF Cardinality(mine) = 1 THEN (CHOOSE v \in mine : TRUE).candidate
        ELSE Overvote

LEMMA NoBallot ==
    ASSUME NEW rows, NEW u, ~Voted(rows, u)
    PROVE  BallotIn(rows, u) = NULL
BY DEF BallotIn, Voted

\* The ballot of a voter depends on the rows of that voter only.
LEMMA SameBallot ==
    ASSUME NEW rows, NEW more, NEW u,
           {v \in more : v.user = u} = {v \in rows : v.user = u}
    PROVE  BallotIn(more, u) = BallotIn(rows, u)
<1> DEFINE Ballot(mine) == IF mine = {} THEN NULL
                           ELSE IF Cardinality(mine) = 1 THEN (CHOOSE v \in mine : TRUE).candidate
                           ELSE Overvote
           old == {v \in rows : v.user = u}
           new == {v \in more : v.user = u}
<1>1. BallotIn(more, u) = Ballot(new) /\ BallotIn(rows, u) = Ballot(old)
  BY DEF BallotIn
<1> HIDE DEF Ballot
<1>2. QED
  BY <1>1

LEMMA FirstBallot ==
    ASSUME NEW rows, NEW v, ~Voted(rows, v.user)
    PROVE  BallotIn(rows \cup {v}, v.user) = v.candidate
<1> DEFINE mine == {w \in rows \cup {v} : w.user = v.user}
<1>1. mine = {v}
  BY DEF Voted
<1>2. Cardinality({v}) = 1
  BY FS_Singleton
<1>3. (CHOOSE w \in {v} : TRUE) = v
  OBVIOUS
<1> HIDE DEF mine
<1>4. BallotIn(rows \cup {v}, v.user) =
          IF mine = {} THEN NULL
          ELSE IF Cardinality(mine) = 1 THEN (CHOOSE w \in mine : TRUE).candidate
          ELSE Overvote
  BY DEF BallotIn, mine
<1>5. QED
  BY <1>1, <1>2, <1>3, <1>4

\* Every callback puts in a voter's first ballot, takes out those of a reset,
\* or leaves the box alone.
LEMMA ServeBallot ==
    ASSUME NothingFails, TypeInv, HandlersInv, SerialInv, NEW r \in Requests, Serve(r)
    PROVE  \/ \A u \in Users : BallotIn(votes', u) = BallotIn(votes, u)
           \/ \E u \in Users, c \in Candidates :
                /\ BallotIn(votes, u) = NULL /\ BallotIn(votes', u) = c
                /\ \A w \in Users : w # u => BallotIn(votes', w) = BallotIn(votes, w)
           \/ \E S : /\ S = Users \/ \E u \in Users : S = {u}
                     /\ \A w \in Users : BallotIn(votes', w) =
                          IF w \in S THEN NULL ELSE BallotIn(votes, w)
<1>1. CASE votes' = votes
  BY <1>1
<1>2. CASE /\ req[r].user \in Users /\ req[r].candidate \in Candidates
           /\ ~HasVote(req[r].user)
           /\ votes' = votes \cup {[req |-> r, user |-> req[r].user,
                                    candidate |-> req[r].candidate]}
  <2> DEFINE v == [req |-> r, user |-> req[r].user, candidate |-> req[r].candidate]
  <2>1. v.user = req[r].user /\ v.candidate = req[r].candidate
    OBVIOUS
  <2>2. votes' = votes \cup {v}
    BY <1>2
  <2> HIDE DEF v
  <2>3. ~Voted(votes, v.user)
    BY <1>2, <2>1 DEF HasVote, Voted
  <2>4. BallotIn(votes, v.user) = NULL
    BY <2>3, NoBallot
  <2>5. BallotIn(votes', v.user) = v.candidate
    BY <2>2, <2>3, FirstBallot
  <2>6. ASSUME NEW w \in Users, w # v.user
        PROVE  BallotIn(votes', w) = BallotIn(votes, w)
    <3>1. {x \in votes' : x.user = w} = {x \in votes : x.user = w}
      BY <2>2, <2>6
    <3>2. QED
      BY <3>1, SameBallot
  <2>7. QED
    BY <1>2, <2>1, <2>4, <2>5, <2>6
<1>3. CASE /\ Scope(r) = Users \/ \E u \in Users : Scope(r) = {u}
           /\ votes' = {v \in votes : v.user \notin Scope(r)}
  <2>1. ASSUME NEW w \in Users
        PROVE  BallotIn(votes', w) = IF w \in Scope(r) THEN NULL ELSE BallotIn(votes, w)
    <3>1. CASE w \in Scope(r)
      BY <1>3, <3>1, NoBallot DEF Voted
    <3>2. CASE w \notin Scope(r)
      <4>1. {x \in votes' : x.user = w} = {x \in votes : x.user = w}
        BY <1>3, <3>2
      <4>2. QED
        BY <3>2, <4>1, SameBallot
    <3>3. QED
      BY <3>1, <3>2
  <2>2. QED
    BY <1>3, <2>1
<1>4. QED
  BY <1>1, <1>2, <1>3, ServeVotesTable

\* A callback is a step of the ballot box, or none.
LEMMA ServeImplements ==
    ASSUME NothingFails, TypeInv, HandlersInv, SerialInv, NEW r \in Requests, Serve(r)
    PROVE  [Abstract!Next]_([u \in Users |-> BallotOf(u)])
<1> DEFINE box == [u \in Users |-> BallotIn(votes, u)]
           next == [u \in Users |-> BallotIn(votes', u)]
<1>1. /\ [u \in Users |-> BallotOf(u)] = box
      /\ [u \in Users |-> BallotOf(u)]' = next
  BY DEF BallotOf, BallotIn
<1>2. CASE \A u \in Users : BallotIn(votes', u) = BallotIn(votes, u)
  BY <1>1, <1>2
<1>3. ASSUME NEW u \in Users, NEW c \in Candidates,
             BallotIn(votes, u) = NULL, BallotIn(votes', u) = c,
             \A w \in Users : w # u => BallotIn(votes', w) = BallotIn(votes, w)
      PROVE  Abstract!Next
  <2>1. box[u] = NULL
    BY <1>3
  <2>2. next = [box EXCEPT ![u] = c]
    BY <1>3
  <2>3. Abstract!Cast(u, c)
    BY <1>1, <2>1, <2>2 DEF Abstract!Cast
  <2>4. QED
    BY <2>3 DEF Abstract!Next
<1>4. ASSUME NEW S, S = Users \/ \E u \in Users : S = {u},
             \A w \in Users : BallotIn(votes', w) =
                 IF w \in S THEN NULL ELSE BallotIn(votes, w)
      PROVE  Abstract!Next
  <2>1. next = [w \in Users |-> IF w \in S THEN NULL ELSE box[w]]
    BY <1>4
  <2>2. Abstract!TakeBack(S)
    BY <1>1, <2>1 DEF Abstract!TakeBack
  <2>3. QED
    BY <1>4, <2>2 DEF Abstract!Next
<1>5. QED
  BY <1>2, <1>3, <1>4, ServeBallot

\* The double vote needs two requests of one voter that overlap: when every
\* voter waits for an answer before voting again, no statement fails and the
\* process lives, no voter has two votes in the table.
THEOREM OneVoteAtATime == NothingFails /\ SerialSpec => []OneVotePerVoter
<1>1. SerialInv => OneVotePerVoter
  BY DEF SerialInv
<1>2. QED
  BY <1>1, SerialInvariant, PTL

\* When every voter waits for an answer before voting again, no statement
\* fails and the process lives, the election server is a ballot box: castVote
\* puts in at most one ballot per voter, of a candidate that exists, and only
\* the administrator's resets take ballots out, one voter's or all of them.
THEOREM ServerIsBallotBox == NothingFails /\ SerialSpec => ImplementsBallot
<1>1. Init => Abstract!Init
  BY NoBallot DEF Init, InitWith, Abstract!Init, BallotOf
<1>2. NothingFails /\ TypeInv /\ HandlersInv /\ SerialInv /\ [Next /\ OneAtATime']_vars
         => [Abstract!Next]_([u \in Users |-> BallotOf(u)])
  <2> SUFFICES ASSUME NothingFails, TypeInv, HandlersInv, SerialInv,
                      [Next /\ OneAtATime']_vars
               PROVE  [Abstract!Next]_([u \in Users |-> BallotOf(u)])
    OBVIOUS
  <2>1. CASE votes' = votes
    BY <2>1 DEF BallotOf
  <2>2. ASSUME NEW r \in Requests, Serve(r)
        PROVE  [Abstract!Next]_([u \in Users |-> BallotOf(u)])
    BY <2>2, ServeImplements
  <2>3. ASSUME NEW r \in Requests, Arrive(r) PROVE votes' = votes
    BY <2>3, ArriveShape DEF Arrives, db
  <2>4. ASSUME NEW r \in Requests, FatalError(r) PROVE votes' = votes
    BY <2>4, NobodyIsGone
  <2>5. ~Crash /\ ~Restart
    BY DEF Crash, Restart, NothingFails, SerialInv, TypeInv, TypeOK, LifecycleOK
  <2>6. CASE UNCHANGED vars
    BY <2>1, <2>6 DEF vars, shared, db
  <2>7. QED
    BY <2>1, <2>2, <2>3, <2>4, <2>5, <2>6 DEF Next
<1>3. NothingFails => NothingFails'
  BY DEF NothingFails
<1>4. QED
  BY <1>1, <1>2, <1>3, SerialInvariant, PTL DEF SerialSpec, ImplementsBallot, Abstract!Spec

(***************************************************************************)
(* What a callback does to the chains, and what it then has saved.         *)
(***************************************************************************)
\* A block as the handlers make it: hashed, with its root, and signed.
Minted(b) == Sound(b) /\ VerifySignature(b.publicKey, b.data, b.signature)

\* A block made for a chain.
NewOn(c, b) ==
    /\ Minted(b)
    /\ b.index = Len(c)
    /\ b.previousHash = GetLatestBlock(c).hash

\* The statement of a sequence that stores b, and no other, writes the ledger.
SavesOne(qs, l, b) ==
    \E j \in 1..Len(qs) :
        /\ qs[j].block = b
        /\ \A k \in 1..Len(qs) : qs[k].stmt = InsertBlockStmt(l) <=> k = j

SavesNone(qs, l) == \A j \in 1..Len(qs) : qs[j].stmt # InsertBlockStmt(l)

Adds(l, qs) ==
    \E b \in Blocks : /\ NewOn(chain[l], b)
                      /\ chain'[l] = Append(chain[l], b)
                      /\ SavesOne(qs, l, b)

\* A reset replaces the chain by the genesis block it has saved.
Resets(r) ==
    /\ req[r].op = "resetAll"
    /\ \/ chain'[VoteLedger] = chain[VoteLedger]
       \/ /\ Head(queue).stmt = InsertBlockStmt(VoteLedger)
          /\ chain'[VoteLedger] = <<Head(queue).block>>

LedgerTurn(r, l, qs) ==
    \/ chain'[l] = chain[l] /\ SavesNone(qs, l)
    \/ Adds(l, qs)
    \/ l = VoteLedger /\ Resets(r)

ChainTurn(r) ==
    \E qs \in Seq(Queries) : Issue(qs) /\ \A l \in Ledgers : LedgerTurn(r, l, qs)

LEMMA NewBlockOn ==
    ASSUME NEW c, NEW t, NEW d \in Data, NEW k \in KeyPairs
    PROVE  NewOn(c, NewBlock(c, t, d, k))
<1>1. k # NULL /\ SignData(k, d) # NULL
  BY NullAssumption DEF SignData
<1>2. QED
  BY <1>1, NewBlockSound DEF NewOn, Minted, VerifySignature

LEMMA OneElement ==
    ASSUME NEW S, NEW e \in S
    PROVE  <<e>> \in Seq(S)
OBVIOUS

LEMMA SavesOneStatement ==
    ASSUME NEW q, NEW l, q.stmt = InsertBlockStmt(l)
    PROVE  SavesOne(<<q>>, l, q.block)
<1>1. 1 \in 1..Len(<<q>>) /\ <<q>>[1] = q /\ \A j \in 1..Len(<<q>>) : j = 1
  OBVIOUS
<1>2. QED
  BY <1>1 DEF SavesOne

LEMMA SavesNoneStatement ==
    ASSUME NEW q, NEW l, q.stmt # InsertBlockStmt(l)
    PROVE  SavesNone(<<q>>, l)
<1>1. <<q>>[1] = q /\ \A j \in 1..Len(<<q>>) : j = 1
  OBVIOUS
<1>2. QED
  BY <1>1 DEF SavesNone

\* Statements that store no block.
LEMMA ProceedChain ==
    ASSUME NEW r, NEW next \in Statements, Query(r, next, NULL) \in Queries,
           Proceed(r, next, NULL)
    PROVE  ChainTurn(r)
<1> DEFINE q == Query(r, next, NULL)
<1>1. \A l \in Ledgers : q.stmt # InsertBlockStmt(l)
  BY DEF Query, Statements, InsertBlockStmt
<1>2. Issue(<<q>>) /\ chain' = chain /\ q \in Queries
  BY DEF Proceed
<1> HIDE DEF q
<1>3. <<q>> \in Seq(Queries) /\ \A l \in Ledgers : SavesNone(<<q>>, l)
  BY <1>1, <1>2, SavesNoneStatement
<1>4. QED
  BY <1>2, <1>3 DEF ChainTurn, LedgerTurn

LEMMA AnswerChain ==
    ASSUME NEW r, Issue(<<>>), chain' = chain
    PROVE  ChainTurn(r)
<1>1. <<>> \in Seq(Queries) /\ \A l : SavesNone(<<>>, l)
  <2>1. <<>> \in Seq(Queries) /\ 1..Len(<<>>) = {}
    BY EmptySeq
  <2>2. QED
    BY <2>1 DEF SavesNone
<1>2. QED
  BY <1>1 DEF ChainTurn, LedgerTurn

\* The audit block of a request.
LEMMA AuditAdds ==
    ASSUME TypeInv, up, NEW r \in Requests,
           chain'[AuditLedger] = Append(chain[AuditLedger], NextAuditBlock(r))
    PROVE  LET q == Query(r, InsertBlockStmt(AuditLedger), NextAuditBlock(r))
           IN  /\ q \in Queries /\ <<q>> \in Seq(Queries)
               /\ Adds(AuditLedger, <<q>>) /\ SavesNone(<<q>>, VoteLedger)
<1> DEFINE b == NextAuditBlock(r)
           q == Query(r, InsertBlockStmt(AuditLedger), b)
<1>1. b \in Blocks /\ q \in Queries
  BY NextAuditBlockType, QueryType DEF Ledgers
<1>2. NewOn(chain[AuditLedger], b)
  BY NewBlockOn DEF NextAuditBlock, KeyPairs, AuditData, Data
<1>3. q.block = b /\ q.stmt = InsertBlockStmt(AuditLedger) /\ q.stmt # InsertBlockStmt(VoteLedger)
  BY DEF Query, InsertBlockStmt, VoteLedger, AuditLedger
<1>4. chain'[AuditLedger] = Append(chain[AuditLedger], b)
  OBVIOUS
<1> HIDE DEF b, q
<1>5. SavesOne(<<q>>, AuditLedger, b) /\ SavesNone(<<q>>, VoteLedger)
  BY <1>3, SavesOneStatement, SavesNoneStatement
<1>6. Adds(AuditLedger, <<q>>)
  BY <1>1, <1>2, <1>4, <1>5 DEF Adds
<1>7. QED
  BY <1>1, <1>5, <1>6 DEF q, b

LEMMA RecordChain ==
    ASSUME TypeInv, up, NEW r \in Requests, RecordAuditLog(r)
    PROVE  ChainTurn(r)
<1> DEFINE q == Query(r, InsertBlockStmt(AuditLedger), NextAuditBlock(r))
<1>1. chain' = [chain EXCEPT ![AuditLedger] = Append(@, NextAuditBlock(r))] /\ Issue(<<q>>)
  BY DEF RecordAuditLog, AddBlock
<1>2. /\ chain'[AuditLedger] = Append(chain[AuditLedger], NextAuditBlock(r))
      /\ chain'[VoteLedger] = chain[VoteLedger]
  BY <1>1 DEF TypeInv, TypeOK, MemoryOK, Ledgers, VoteLedger, AuditLedger
<1>3. /\ <<q>> \in Seq(Queries)
      /\ Adds(AuditLedger, <<q>>) /\ SavesNone(<<q>>, VoteLedger)
  BY <1>2, AuditAdds
<1> HIDE DEF q
<1>4. QED
  BY <1>1, <1>2, <1>3 DEF ChainTurn, LedgerTurn, Ledgers

LEMMA GenesisChain ==
    ASSUME TypeInv, up, NEW r \in Requests, GenesisSaved(r)
    PROVE  ChainTurn(r)
<1> DEFINE q == Query(r, InsertBlockStmt(AuditLedger), NextAuditBlock(r))
<1>1. /\ chain' = [chain EXCEPT ![VoteLedger]  = <<Head(queue).block>>,
                                ![AuditLedger] = Append(@, NextAuditBlock(r))]
      /\ Issue(<<q>>) /\ req[r].op = "resetAll"
      /\ Head(queue).stmt = InsertBlockStmt(VoteLedger)
  BY DEF GenesisSaved, Succeeds, Executes
<1>2. /\ chain'[AuditLedger] = Append(chain[AuditLedger], NextAuditBlock(r))
      /\ chain'[VoteLedger] = <<Head(queue).block>>
  BY <1>1 DEF TypeInv, TypeOK, MemoryOK, Ledgers, VoteLedger, AuditLedger
<1>3. <<q>> \in Seq(Queries) /\ Adds(AuditLedger, <<q>>)
  BY <1>2, AuditAdds
<1> HIDE DEF q
<1>4. QED
  BY <1>1, <1>2, <1>3 DEF ChainTurn, LedgerTurn, Ledgers, Resets

LEMMA FlagSetChain ==
    ASSUME TypeInv, up, NEW r \in Requests, FlagSet(r)
    PROVE  ChainTurn(r)
<1> DEFINE b      == NextVoteBlock(r)
           insert == Query(r, InsertBlockStmt(VoteLedger), b)
           update == Query(r, "UPDATE keys", NULL)
           qs     == IF req[r].key = NULL THEN <<update, insert>> ELSE <<insert>>
<1>1. /\ Succeeds(r, "SET sudah_vote") /\ Issue(qs)
      /\ chain' = [chain EXCEPT ![VoteLedger] = Append(@, b)]
  BY DEF FlagSet
<1>2. b \in Blocks /\ NewOn(chain[VoteLedger], b)
  <2>1. req[r] \in Inputs /\ req[r].user \in Users
    BY <1>1, StatementType, HeadUnderway DEF Underway
  <2>2. SigningKey(r) \in KeyPairs
    BY <2>1 DEF SigningKey, GeneratedKey, Inputs, KeyPairs
  <2>3. VoteData(r) \in Data
    BY <2>1 DEF VoteData, Data, Inputs
  <2>4. QED
    BY <1>1, <2>2, <2>3, NextVoteBlockType, NewBlockOn DEF NextVoteBlock
<1>3. /\ insert \in Queries /\ update \in Queries
      /\ insert.stmt = InsertBlockStmt(VoteLedger) /\ insert.block = b
      /\ update.stmt # InsertBlockStmt(VoteLedger)
      /\ insert.stmt # InsertBlockStmt(AuditLedger)
      /\ update.stmt # InsertBlockStmt(AuditLedger)
  BY <1>2, QueryType DEF Query, Ledgers, Statements, InsertBlockStmt, VoteLedger, AuditLedger
<1>4. /\ chain'[VoteLedger] = Append(chain[VoteLedger], b)
      /\ chain'[AuditLedger] = chain[AuditLedger]
  BY <1>1 DEF TypeInv, TypeOK, MemoryOK, Ledgers, VoteLedger, AuditLedger
<1>5. qs = <<update, insert>> \/ qs = <<insert>>
  OBVIOUS
<1> HIDE DEF b, insert, update, qs
<1>6. /\ <<update, insert>> \in Seq(Queries)
      /\ SavesOne(<<update, insert>>, VoteLedger, b) /\ SavesNone(<<update, insert>>, AuditLedger)
  <2> DEFINE both == <<update, insert>>
  <2>1. both \in Seq(Queries) /\ Len(both) = 2 /\ both[1] = update /\ both[2] = insert
    BY <1>3
  <2> HIDE DEF both
  <2>2. 2 \in 1..Len(both) /\ \A k \in 1..Len(both) : k = 1 \/ k = 2
    BY <2>1
  <2>3. SavesOne(both, VoteLedger, b) /\ SavesNone(both, AuditLedger)
    BY <1>3, <2>1, <2>2 DEF SavesOne, SavesNone
  <2>4. QED
    BY <2>1, <2>3 DEF both
<1>7. /\ <<insert>> \in Seq(Queries)
      /\ SavesOne(<<insert>>, VoteLedger, b) /\ SavesNone(<<insert>>, AuditLedger)
  BY <1>3, SavesOneStatement, SavesNoneStatement
<1>8. /\ qs \in Seq(Queries)
      /\ SavesOne(qs, VoteLedger, b) /\ SavesNone(qs, AuditLedger)
  BY <1>5, <1>6, <1>7
<1>9. QED
  BY <1>1, <1>2, <1>4, <1>8 DEF ChainTurn, LedgerTurn, Adds, Ledgers

\* Statements that name a stored block store none.
LEMMA AuditRowChain ==
    ASSUME TypeInv, NEW r, NEW stmt, Succeeds(r, stmt) \/ Fails(r, stmt),
           NEW block, block \in {Head(queue).block, NULL},
           Proceed(r, "INSERT audit_logs", block)
    PROVE  ChainTurn(r)
<1> DEFINE q == Query(r, "INSERT audit_logs", block)
<1>1. q \in Queries
  <2>1. r \in Requests /\ Head(queue) \in Queries
    BY StatementType, HeadUnderway DEF Underway
  <2>2. block \in Blocks \cup {NULL}
    BY <2>1 DEF Queries
  <2>3. QED
    BY <2>1, <2>2, QueryType DEF Statements
<1>2. \A l \in Ledgers : q.stmt # InsertBlockStmt(l)
  BY DEF Query, InsertBlockStmt
<1>3. Issue(<<q>>) /\ chain' = chain
  BY DEF Proceed
<1> HIDE DEF q
<1>4. \A l \in Ledgers : SavesNone(<<q>>, l)
  BY <1>2, SavesNoneStatement
<1>5. <<q>> \in Seq(Queries)
  BY <1>1, OneElement
<1>6. QED
  BY <1>3, <1>4, <1>5 DEF ChainTurn, LedgerTurn

LEMMA DeletedChain ==
    ASSUME TypeInv, HandlersInv, NEW r \in Requests, BlocksDeleted(r)
    PROVE  ChainTurn(r)
<1> DEFINE q == Query(r, InsertBlockStmt(VoteLedger), GenesisBlock(r))
<1>1. Succeeds(r, "DELETE blockchain") /\ Issue(<<q>>) /\ chain' = chain
  BY DEF BlocksDeleted, Proceed
<1>2. req[r].op = "resetAll"
  BY <1>1, HandlerOf DEF MayIssue
<1>3. q \in Queries
  BY QueryType, GenesisType DEF Ledgers, Timestamps
<1>4. q.stmt # InsertBlockStmt(AuditLedger)
  BY DEF Query, InsertBlockStmt, VoteLedger, AuditLedger
<1> HIDE DEF q
<1>5. <<q>> \in Seq(Queries) /\ SavesNone(<<q>>, AuditLedger)
  BY <1>3, <1>4, SavesNoneStatement
<1>6. QED
  BY <1>1, <1>2, <1>5 DEF ChainTurn, LedgerTurn, Ledgers, Resets

\* Every callback leaves a ledger alone, or adds one block to its chain and
\* saves that, or is part of a reset.
LEMMA CallbackChain ==
    ASSUME TypeInv, HandlersInv, up, NEW r \in Requests, Callback(r)
    PROVE  ChainTurn(r)
<1> USE DEF Statements
<1>1. \A next \in Statements : Query(r, next, NULL) \in Queries
  BY QueryType
<1>2. ASSUME NEW next \in Statements, Proceed(r, next, NULL) PROVE ChainTurn(r)
  BY <1>1, <1>2, ProceedChain
<1>3. ASSUME NEW message, Answer(r, message) PROVE ChainTurn(r)
  BY <1>3, AnswerChain DEF Answer
<1>4. CASE CastVote(r)
  <2>1. CASE FlagSet(r)
    BY <2>1, FlagSetChain
  <2>2. CASE KeysSaved(r)
    BY <2>2, AnswerChain DEF KeysSaved
  <2>3. CASE VoteBlockSaved(r)
    BY <2>3, RecordChain DEF VoteBlockSaved
  <2>4. QED
    BY <1>2, <1>3, <1>4, <2>1, <2>2, <2>3
       DEF CastVote, CheckSettings, CheckSudahVote, CheckCandidate, CheckFails,
           VoteSaved, VoteNotSaved, FlagNotSet, VoteBlockLost
<1>5. CASE UserAdmin(r)
  <2>1. CASE UserDeleted(r)
    BY <2>1, RecordChain DEF UserDeleted
  <2>2. CASE FlagsCleared(r)
    BY <1>2, <2>2, RecordChain DEF FlagsCleared
  <2>3. CASE GenesisSaved(r)
    BY <2>3, GenesisChain
  <2>4. CASE BlocksDeleted(r)
    BY <2>4, DeletedChain
  <2>5. QED
    BY <1>2, <1>3, <1>5, <2>1, <2>2, <2>3, <2>4
       DEF UserAdmin, UserNotDeleted, VotesDeleted, VotesNotDeleted, FlagsNotCleared,
           ResetChainFails
<1>6. CASE SettingsAdmin(r)
  <2>1. CASE StatusUpdated(r)
    BY <2>1, RecordChain DEF StatusUpdated
  <2>2. QED
    BY <1>2, <1>3, <1>6, <2>1 DEF SettingsAdmin, StatusRead, StatusNotRead, StatusNotUpdated
<1>7. CASE RecordAudit(r)
  <2>1. CASE AuditBlockSaved(r) \/ AuditBlockLost(r)
    BY <2>1, AuditRowChain DEF AuditBlockSaved, AuditBlockLost
  <2>2. QED
    BY <1>3, <1>7, <2>1 DEF RecordAudit, AuditLogSaved, AuditLogLost
<1>8. QED
  BY <1>4, <1>5, <1>6, <1>7 DEF Callback

(***************************************************************************)
(* Tampering with a block in memory.                                       *)
(***************************************************************************)
\* Every block is as it was made, or is the one that hack has overwritten.
AsMade(s) ==
    \A i \in 1..Len(s) :
        /\ s[i].hash = CalculateHash(s[i])
        /\ \/ s[i].merkleRoot = MerkleRoot(s[i].data)
           \/ i = 2 /\ s[i].data = TamperedData

TamperInv ==
    /\ AsMade(chain[VoteLedger])
    /\ \A i \in 1..Len(blocks[VoteLedger]) : Sound(blocks[VoteLedger][i])

\* TamperEvident for one step of the chain.
Evident(old, new) ==
    /\ (\E i \in DOMAIN old \cap DOMAIN new :
            old[i].hash = new[i].hash /\ old[i].data # new[i].data)
       => ~IsChainValid(new)
    /\ ~IsChainValid(old) /\ IsChainValid(new) => Len(new) = 1

LEMMA AppendAsMade ==
    ASSUME NEW old \in Seq(Blocks), AsMade(old), NEW b \in Blocks, Sound(b)
    PROVE  AsMade(Append(old, b)) /\ Evident(old, Append(old, b))
<1> DEFINE new == Append(old, b)
<1>1. /\ \A i \in 1..Len(old) : i \in 1..Len(new) /\ new[i] = old[i]
      /\ \A i \in 1..Len(new) : (i \in 1..Len(old) /\ new[i] = old[i]) \/ new[i] = b
  BY AppendedRow
<1>2. new \in Seq(Blocks) /\ Len(new) = Len(old) + 1 /\ Len(old) \in Nat
  BY AppendProperties
<1> HIDE DEF new
<1>3. AsMade(new)
  BY <1>1 DEF AsMade, Sound
<1>4. \A i \in DOMAIN old \cap DOMAIN new : old[i] = new[i]
  BY <1>1
<1>5. ASSUME IsChainValid(new) PROVE IsChainValid(old)
  <2> SUFFICES ASSUME NEW i \in 2..Len(old) PROVE ValidLink(old[i - 1], old[i])
    BY DEF IsChainValid
  <2>1. i \in 2..Len(new) /\ i \in 1..Len(old) /\ i - 1 \in 1..Len(old)
    BY <1>2
  <2>2. ValidLink(new[i - 1], new[i])
    BY <1>5, <2>1 DEF IsChainValid
  <2>3. new[i] = old[i] /\ new[i - 1] = old[i - 1]
    BY <1>1, <2>1
  <2>4. QED
    BY <2>2, <2>3
<1>6. Evident(old, new)
  BY <1>4, <1>5 DEF Evident
<1>7. QED
  BY <1>3, <1>6 DEF new

\* Two blocks of one hash have one root.
LEMMA HashCovers ==
    ASSUME NEW a \in Blocks, NEW b \in Blocks, a.hash = CalculateHash(a), b.hash = CalculateHash(b),
           a.hash = b.hash
    PROVE  a.merkleRoot = b.merkleRoot
<1> DEFINE x == <<a.index, a.timestamp, a.merkleRoot>>
           y == <<b.index, b.timestamp, b.merkleRoot>>
           p == a.previousHash
           q == b.previousHash
           Links == Nat \X Timestamps \X Roots
<1>1. /\ Append(p, x) = Append(q, y)
      /\ p \in Seq(Links) /\ q \in Seq(Links) /\ x \in Links /\ y \in Links
  BY DEF CalculateHash, Blocks, Hashes
<1>2. x = y => a.merkleRoot = b.merkleRoot
  OBVIOUS
<1> HIDE DEF x, y, p, q, Links
<1>3. /\ Len(Append(p, x)) = Len(p) + 1 /\ Append(p, x)[Len(p) + 1] = x
      /\ Len(Append(q, y)) = Len(q) + 1 /\ Append(q, y)[Len(q) + 1] = y
      /\ Len(p) \in Nat /\ Len(q) \in Nat
  BY <1>1, AppendProperties
<1>4. Len(p) = Len(q)
  BY <1>1, <1>3
<1>5. QED
  BY <1>1, <1>2, <1>3, <1>4

LEMMA RootCovers ==
    ASSUME NEW d, NEW e, MerkleRoot(d) = MerkleRoot(e)
    PROVE  d = e
BY DEF MerkleRoot

LEMMA ResetAsMade ==
    ASSUME NEW old \in Seq(Blocks), AsMade(old), NEW b \in Blocks, Sound(b)
    PROVE  AsMade(<<b>>) /\ Evident(old, <<b>>)
<1> DEFINE new == <<b>>
<1>1. Len(new) = 1 /\ new[1] = b /\ DOMAIN new = {1} /\ \A i \in 1..Len(new) : i = 1
  OBVIOUS
<1> HIDE DEF new
<1>2. AsMade(new)
  BY <1>1 DEF AsMade, Sound
<1>3. ASSUME 1 \in DOMAIN old, old[1].hash = b.hash PROVE old[1].data = b.data
  <2>1. /\ old[1] \in Blocks /\ 1 \in 1..Len(old)
    BY <1>3, ElementOfSeq
  <2>2. old[1].hash = CalculateHash(old[1]) /\ old[1].merkleRoot = MerkleRoot(old[1].data)
    BY <2>1 DEF AsMade
  <2>3. old[1].merkleRoot = b.merkleRoot
    BY <1>3, <2>1, <2>2, HashCovers DEF Sound
  <2>4. QED
    BY <2>2, <2>3, RootCovers DEF Sound
<1>4. Evident(old, new)
  BY <1>1, <1>3 DEF Evident
<1>5. QED
  BY <1>2, <1>4 DEF new

\* What hackBlock changes, and what it leaves.
LEMMA HackedBlock ==
    ASSUME NEW old \in Seq(Blocks), NEW new, new = HackBlock(old, 1, TamperedData)
    PROVE  /\ new \in Seq(Blocks) /\ Len(new) = Len(old) /\ DOMAIN new = DOMAIN old
           /\ \A i \in 1..Len(old) :
                 /\ i # 2 => new[i] = old[i]
                 /\ i = 2 => new[i] = [old[i] EXCEPT !.data = TamperedData]
<1>1. CASE 1 < Len(old)
  <2> DEFINE b == [old[2] EXCEPT !.data = TamperedData]
  <2>1. 2 \in 1..Len(old) /\ old[2] \in Blocks
    BY <1>1, ElementOfSeq
  <2>2. b \in Blocks
    BY <2>1 DEF Blocks, Data
  <2>3. new = [old EXCEPT ![2] = b]
    BY <1>1 DEF HackBlock
  <2> HIDE DEF b
  <2>4. new \in Seq(Blocks) /\ Len(new) = Len(old) /\ DOMAIN new = DOMAIN old
    BY <2>1, <2>2, <2>3, ExceptSeq
  <2>5. \A i \in 1..Len(old) : new[i] = IF i = 2 THEN b ELSE old[i]
    BY <2>3
  <2>6. QED
    BY <2>4, <2>5 DEF b
<1>2. CASE ~(1 < Len(old))
  <2>1. new = old
    BY <1>2 DEF HackBlock
  <2>2. \A i \in 1..Len(old) : i # 2
    BY <1>2
  <2>3. QED
    BY <2>1, <2>2
<1>3. QED
  BY <1>1, <1>2

LEMMA HackAsMade ==
    ASSUME NEW old \in Seq(Blocks), AsMade(old),
           NEW new, new = HackBlock(old, 1, TamperedData)
    PROVE  AsMade(new) /\ Evident(old, new)
<1>1. /\ new \in Seq(Blocks) /\ Len(new) = Len(old) /\ Len(old) \in Nat
      /\ DOMAIN new = DOMAIN old /\ DOMAIN old = 1..Len(old)
      /\ \A i \in 1..Len(old) :
            /\ i # 2 => new[i] = old[i]
            /\ i = 2 => new[i] = [old[i] EXCEPT !.data = TamperedData]
  BY HackedBlock
<1>2. \A i \in 1..Len(old) : old[i] \in Blocks
  BY ElementOfSeq
<1>3. \A i \in 1..Len(old) :
          /\ new[i].hash = old[i].hash /\ CalculateHash(new[i]) = CalculateHash(old[i])
          /\ new[i].merkleRoot = old[i].merkleRoot
          /\ i = 2 => new[i].data = TamperedData
  BY <1>1, <1>2 DEF CalculateHash, Blocks
<1>4. AsMade(new)
  BY <1>1, <1>3 DEF AsMade
\* A chain that was hacked before is the same; another's root gives it away.
<1>5. ASSUME IsChainValid(new) PROVE new = old
  <2>1. ASSUME NEW i \in 1..Len(old), i = 2 PROVE new[i] = old[i]
    <3>1. new[i].merkleRoot = MerkleRoot(TamperedData)
      BY <1>1, <1>3, <1>5, <2>1 DEF IsChainValid, ValidLink, VerifyMerkleRoot
    <3>2. old[i].data = TamperedData
      BY <1>3, <2>1, <3>1, RootCovers DEF AsMade
    <3>3. [old[i] EXCEPT !.data = TamperedData] = old[i]
      BY <1>2, <3>2 DEF Blocks
    <3>4. QED
      BY <1>1, <2>1, <3>3
  <2>2. \A i \in 1..Len(old) : new[i] = old[i]
    BY <1>1, <2>1
  <2>3. QED
    BY <1>1, <2>2
<1>6. Evident(old, new)
  BY <1>5 DEF Evident
<1>7. QED
  BY <1>4, <1>6

\* The rows of the table are blocks as they were made.
LEMMA MoveRows ==
    ASSUME TypeInv, HandlersInv, TamperInv,
           UNCHANGED db \/ (queue # <<>> /\ Perform(Head(queue)))
    PROVE  \A i \in 1..Len(blocks'[VoteLedger]) : Sound(blocks'[VoteLedger][i])
<1>1. CASE UNCHANGED db
  BY <1>1 DEF TamperInv, db
<1>2. CASE queue # <<>> /\ Perform(Head(queue))
  <2> DEFINE q   == Head(queue)
             old == blocks[VoteLedger]
             new == blocks'[VoteLedger]
  <2>1. q \in Queries /\ OwnStatement(q)
    BY <1>2, HeadOwn, HeadUnderway DEF Underway
  <2>2. old \in Seq(Blocks) /\ \A i \in 1..Len(old) : Sound(old[i])
    BY DEF TypeInv, TypeOK, TablesOK, TamperInv, Ledgers
  <2>3. CASE q.stmt = InsertBlockStmt(VoteLedger)
    <3>1. new = Append(old, q.block)
      BY <1>2, <2>3, LedgerWrites
    <3>2. q.block \in Blocks /\ Sound(q.block)
      BY <2>1, <2>3
         DEF OwnStatement, Own, OwnBlock, Queries, Statements, InsertBlockStmt, VoteLedger
    <3>3. \A i \in 1..Len(new) : (i \in 1..Len(old) /\ new[i] = old[i]) \/ new[i] = q.block
      BY <2>2, <3>1, <3>2, AppendedRow
    <3>4. QED
      BY <2>2, <3>2, <3>3
  <2>4. CASE q.stmt = "DELETE blockchain"
    <3>1. new = <<>>
      BY <1>2, <2>4, LedgerWrites
    <3>2. 1..Len(<<>>) = {}
      BY EmptySeq
    <3>3. QED
      BY <3>1, <3>2
  <2>5. CASE q.stmt # InsertBlockStmt(VoteLedger) /\ q.stmt # "DELETE blockchain"
    <3>1. new = old
      BY <1>2, <2>5, LedgerWrites
    <3>2. QED
      BY <2>2, <3>1
  <2>6. QED
    BY <2>3, <2>4, <2>5
<1>3. QED
  BY <1>1, <1>2

\* An unchanged chain shows what it showed.
LEMMA SameEvident ==
    ASSUME NEW s
    PROVE  Evident(s, s)
BY DEF Evident

LEMMA ServeTamper ==
    ASSUME TypeInv, HandlersInv, TamperInv, NEW r \in Requests, Serve(r)
    PROVE  TamperInv' /\ Evident(chain[VoteLedger], chain'[VoteLedger])
<1> DEFINE old == chain[VoteLedger]
           new == chain'[VoteLedger]
<1>1. PICK stmt : Succeeds(r, stmt) \/ Fails(r, stmt)
  BY CallbackStatement DEF Serve
<1>2. \A i \in 1..Len(blocks'[VoteLedger]) : Sound(blocks'[VoteLedger][i])
  BY <1>1, MoveRows DEF Succeeds, Fails, Executes
<1>3. old \in Seq(Blocks) /\ AsMade(old)
  BY DEF TypeInv, TypeOK, MemoryOK, TamperInv, Ledgers
<1>4. AsMade(new) /\ Evident(old, new)
  <2>1. PICK qs : LedgerTurn(r, VoteLedger, qs)
    BY CallbackChain DEF Serve, ChainTurn, Ledgers
  <2>2. CASE new = old
    BY <1>3, <2>2, SameEvident
  <2>3. CASE Adds(VoteLedger, qs)
    BY <1>3, <2>3, AppendAsMade DEF Adds, NewOn, Minted
  <2>4. CASE /\ Head(queue).stmt = InsertBlockStmt(VoteLedger)
             /\ new = <<Head(queue).block>>
    <3>1. Head(queue) \in Queries /\ OwnStatement(Head(queue))
      BY <1>1, StatementType, HeadOwn, HeadUnderway DEF Underway
    <3>2. Head(queue).block \in Blocks /\ Sound(Head(queue).block)
      BY <2>4, <3>1
         DEF OwnStatement, Own, OwnBlock, Queries, Statements, InsertBlockStmt, VoteLedger
    <3>3. QED
      BY <1>3, <2>4, <3>2, ResetAsMade
  <2>5. QED
    BY <2>1, <2>2, <2>3, <2>4 DEF LedgerTurn, Resets
<1>5. QED
  BY <1>2, <1>4 DEF TamperInv

\* The chain of the votes when a request arrives.
LEMMA ArriveVoteChain ==
    ASSUME TypeInv, NEW r \in Requests, Arrive(r)
    PROVE  \/ chain'[VoteLedger] = chain[VoteLedger]
           \/ /\ chain'[VoteLedger] = HackBlock(chain[VoteLedger], 1, TamperedData)
              /\ HackArrives(r)
<1>1. CASE HackArrives(r)
  BY <1>1 DEF HackArrives, TypeInv, TypeOK, MemoryOK, Ledgers, VoteLedger, AuditLedger
<1>2. QED
  BY <1>1, ArriveChain

LEMMA ArriveTamper ==
    ASSUME TypeInv, TamperInv, NEW r \in Requests, Arrive(r)
    PROVE  TamperInv' /\ Evident(chain[VoteLedger], chain'[VoteLedger])
<1>1. blocks' = blocks
  BY ArriveShape DEF Arrives, db
<1>2. chain[VoteLedger] \in Seq(Blocks) /\ AsMade(chain[VoteLedger])
  BY DEF TypeInv, TypeOK, MemoryOK, TamperInv, Ledgers
<1>3. AsMade(chain'[VoteLedger]) /\ Evident(chain[VoteLedger], chain'[VoteLedger])
  BY <1>2, ArriveVoteChain, HackAsMade, SameEvident
<1>4. QED
  BY <1>1, <1>3 DEF TamperInv

LEMMA EndTamper ==
    ASSUME TypeInv, HandlersInv, TamperInv, ProcessEnds,
           UNCHANGED db \/ (queue # <<>> /\ Perform(Head(queue)))
    PROVE  TamperInv'
<1>1. AsMade(chain'[VoteLedger])
  <2>1. chain'[VoteLedger] = <<>>
    BY DEF ProcessEnds, Ledgers
  <2>2. 1..Len(<<>>) = {}
    BY EmptySeq
  <2>3. QED
    BY <2>1, <2>2 DEF AsMade
<1>2. QED
  BY <1>1, MoveRows DEF TamperInv

LEMMA RestartTamper ==
    ASSUME TypeInv, TamperInv, Restart
    PROVE  TamperInv'
<1>1. \A i \in 1..Len(blocks'[VoteLedger]) : Sound(blocks'[VoteLedger][i])
  <2>1. Sound(BootGenesis) /\ \A i \in 1..Len(<<BootGenesis>>) : <<BootGenesis>>[i] = BootGenesis
    BY GenesisSound DEF BootGenesis
  <2>2. QED
    BY <2>1, RestartRows DEF TamperInv
<1>2. QED
  BY <1>1, RestartRows DEF TamperInv, AsMade, Sound

LEMMA InitTamper == Init => TamperInv
<1> SUFFICES ASSUME Init PROVE TamperInv
  OBVIOUS
<1>1. /\ chain[VoteLedger] = <<BootGenesis>> /\ blocks[VoteLedger] = <<BootGenesis>>
      /\ \A i \in 1..Len(<<BootGenesis>>) : <<BootGenesis>>[i] = BootGenesis
  BY DEF Init, InitWith, Ledgers
<1>2. Sound(BootGenesis)
  BY GenesisSound DEF BootGenesis
<1>3. QED
  BY <1>1, <1>2 DEF TamperInv, AsMade, Sound

LEMMA NextTamper ==
    TypeInv /\ HandlersInv /\ TamperInv /\ [Next]_vars =>
        /\ TamperInv'
        /\ up /\ up' => Evident(chain[VoteLedger], chain'[VoteLedger])
<1> SUFFICES ASSUME TypeInv, HandlersInv, TamperInv, [Next]_vars
             PROVE  /\ TamperInv'
                    /\ up /\ up' => Evident(chain[VoteLedger], chain'[VoteLedger])
  OBVIOUS
<1>1. ASSUME NEW r \in Requests, Arrive(r)
      PROVE  TamperInv' /\ Evident(chain[VoteLedger], chain'[VoteLedger])
  BY <1>1, ArriveTamper
<1>2. ASSUME NEW r \in Requests, Serve(r)
      PROVE  TamperInv' /\ Evident(chain[VoteLedger], chain'[VoteLedger])
  BY <1>2, ServeTamper
<1>3. ASSUME NEW r \in Requests, FatalError(r) PROVE TamperInv' /\ ~up'
  BY <1>3, EndTamper DEF FatalError, ProcessEnds
<1>4. CASE Crash
  <2>1. TamperInv' /\ ~up'
    BY <1>4, EndTamper DEF Crash, ProcessEnds
  <2>2. QED
    BY <2>1
<1>5. CASE Restart
  <2>1. TamperInv' /\ ~up
    BY <1>5, RestartTamper DEF Restart
  <2>2. QED
    BY <2>1
<1>6. CASE UNCHANGED vars
  <2>1. chain' = chain /\ blocks' = blocks
    BY <1>6 DEF vars, shared, memory, db
  <2>2. QED
    BY <2>1, SameEvident DEF TamperInv
<1>7. QED
  BY <1>1, <1>2, <1>3, <1>4, <1>5, <1>6 DEF Next

\* A block changed in place is noticed by isChainValid, and only a reset makes
\* the chain pass again: for any requests that overlap in any way, any number
\* of tampering requests, failing statements, kills and restarts.
THEOREM TamperingShows == Spec => TamperEvident
<1>1. Init => TamperInv
  BY InitTamper
<1>2. TypeInv /\ HandlersInv /\ TamperInv /\ [Next]_vars => TamperInv'
  BY NextTamper
<1>3. TypeInv /\ HandlersInv /\ TamperInv /\ [Next]_vars
      => [up /\ up' => Evident(chain[VoteLedger], chain'[VoteLedger])]_vars
  BY NextTamper
<1>4. QED
  BY <1>1, <1>2, <1>3, HandlersInvariant, PTL DEF Spec, TamperEvident, Evident

(***************************************************************************)
(* The chains in memory, while the process lives and nobody tampers.       *)
(***************************************************************************)
\* Each block is at its index and names the hash of the one before.
Chained(s) ==
    \A i \in 1..Len(s) :
        /\ s[i].index = i - 1
        /\ i # 1 => s[i].previousHash = s[i - 1].hash

\* All but the genesis block are hashed and signed.
Signed(s) == \A i \in 1..Len(s) : i # 1 => Minted(s[i])

Untampered == \A r \in Requests : ~Sent(r, "hack")

MemoryInv ==
    /\ crashes = 0 /\ NobodyCutOff => up
    /\ crashes = 0 /\ NobodyCutOff /\ Untampered =>
          \A l \in Ledgers : Chained(chain[l]) /\ Signed(chain[l])

LEMMA ValidChain ==
    ASSUME NEW s \in Seq(Blocks), Chained(s), Signed(s)
    PROVE  IsChainValid(s) /\ InOrder(s)
<1>1. DOMAIN s = 1..Len(s) /\ Len(s) \in Nat
  OBVIOUS
<1>2. \A i \in 2..Len(s) : i \in 1..Len(s) /\ i # 1
  BY <1>1
<1>3. \A i \in 2..Len(s) : ValidLink(s[i - 1], s[i])
  BY <1>2 DEF Chained, Signed, Minted, Sound, ValidLink, VerifyMerkleRoot
<1>4. QED
  BY <1>1, <1>3 DEF IsChainValid, InOrder, Chained

\* A block made for a chain prolongs it.
LEMMA ChainedAppend ==
    ASSUME NEW old \in Seq(Blocks), old # <<>>, Chained(old), NEW b \in Blocks, NewOn(old, b)
    PROVE  Chained(Append(old, b))
<1> DEFINE new == Append(old, b)
<1>1. /\ Len(old) \in Nat \ {0} /\ Len(new) = Len(old) + 1
      /\ \A i \in 1..Len(old) : new[i] = old[i]
      /\ new[Len(old) + 1] = b
  BY AppendProperties, EmptySeq
<1>2. b.index = Len(old) /\ b.previousHash = old[Len(old)].hash
  BY DEF NewOn, GetLatestBlock
<1>3. SUFFICES ASSUME NEW i \in 1..Len(new)
               PROVE  new[i].index = i - 1 /\ (i # 1 => new[i].previousHash = new[i - 1].hash)
  BY DEF Chained
<1> HIDE DEF new
<1>4. CASE i \in 1..Len(old)
  <2>1. i # 1 => i - 1 \in 1..Len(old)
    BY <1>1, <1>4
  <2>2. QED
    BY <1>1, <1>4, <2>1 DEF Chained
<1>5. CASE i = Len(old) + 1
  <2>1. i - 1 = Len(old) /\ Len(old) \in 1..Len(old)
    BY <1>1, <1>5
  <2>2. QED
    BY <1>1, <1>2, <1>5, <2>1
<1>6. QED
  BY <1>1, <1>3, <1>4, <1>5

LEMMA SignedAppend ==
    ASSUME NEW old \in Seq(Blocks), Signed(old), NEW b \in Blocks, Minted(b)
    PROVE  Signed(Append(old, b))
<1> DEFINE new == Append(old, b)
<1>1. \A i \in 1..Len(new) : (i \in 1..Len(old) /\ new[i] = old[i]) \/ new[i] = b
  BY AppendedRow
<1> HIDE DEF new
<1>2. Signed(new)
  BY <1>1 DEF Signed
<1>3. QED
  BY <1>2 DEF new

LEMMA ChainedGenesis ==
    ASSUME NEW b, b.index = 0
    PROVE  Chained(<<b>>) /\ Signed(<<b>>)
<1>1. <<b>>[1] = b /\ \A i \in 1..Len(<<b>>) : i = 1
  OBVIOUS
<1>2. QED
  BY <1>1 DEF Chained, Signed

LEMMA ServeMemory ==
    ASSUME TypeInv, HandlersInv, MemoryInv, NEW r \in Requests, Serve(r)
    PROVE  MemoryInv'
<1>1. PICK stmt : Succeeds(r, stmt) \/ Fails(r, stmt)
  BY CallbackStatement DEF Serve
<1>2. /\ NobodyCutOff' <=> NobodyCutOff
      /\ req' = req /\ up /\ up' /\ crashes' = crashes
  BY <1>1, ServeLucky, StatementType DEF Serve, lifecycle
<1>3. Untampered' => Untampered
  BY <1>2 DEF Untampered, Sent
<1>4. ASSUME crashes' = 0, NobodyCutOff', Untampered', NEW l \in Ledgers
      PROVE  Chained(chain'[l]) /\ Signed(chain'[l])
  <2> DEFINE old == chain[l]
             new == chain'[l]
  <2>1. old \in Seq(Blocks) /\ old # <<>> /\ Chained(old) /\ Signed(old)
    BY <1>2, <1>3, <1>4 DEF TypeInv, TypeOK, MemoryOK, ChainsLoaded, MemoryInv
  <2>2. PICK qs : LedgerTurn(r, l, qs)
    BY <1>2, CallbackChain DEF Serve, ChainTurn
  <2>3. CASE new = old
    BY <2>1, <2>3
  <2>4. CASE Adds(l, qs)
    BY <2>1, <2>4, ChainedAppend, SignedAppend DEF Adds, NewOn
  <2>5. CASE /\ req[r].op = "resetAll" /\ Head(queue).stmt = InsertBlockStmt(VoteLedger)
             /\ new = <<Head(queue).block>>
    <3>1. OwnStatement(Head(queue)) /\ Head(queue).req = r
      BY <1>1, StatementType, HeadOwn
    <3>2. Head(queue).block = GenesisBlock(r)
      BY <2>5, <3>1 DEF OwnStatement, Own, OwnBlock
    <3>3. Head(queue).block.index = 0
      BY <3>2, GenesisSound
    <3>4. QED
      BY <2>5, <3>3, ChainedGenesis
  <2>6. QED
    BY <2>2, <2>3, <2>4, <2>5 DEF LedgerTurn, Resets
<1>5. QED
  BY <1>2, <1>4 DEF MemoryInv

LEMMA ArriveMemory ==
    ASSUME TypeInv, HandlersInv, MemoryInv, NEW r \in Requests, Arrive(r)
    PROVE  MemoryInv'
<1>1. PICK input \in Inputs, q \in Queries :
          Arrives(r, input, <<q>>) /\ FirstStatement(r, input, q)
  BY ArriveShape
<1>2. /\ UNCHANGED lifecycle /\ reply' = reply /\ req[r] = NULL
      /\ req' = [req EXCEPT ![r] = input]
  BY <1>1 DEF Arrives
<1>3. \A s \in Requests : s # r => req'[s] = req[s]
  BY <1>2 DEF TypeInv, TypeOK, RequestsOK
<1>4. Untampered' => Untampered
  BY <1>2, <1>3 DEF Untampered, Sent
<1>5. HackArrives(r) => ~Untampered'
  <2> SUFFICES ASSUME HackArrives(r) PROVE Sent(r, "hack")'
    BY DEF Untampered
  <2>1. req' = [req EXCEPT ![r] = Input("hack", NULL, NULL, NULL)]
    BY DEF HackArrives, Arrives
  <2>2. req'[r] = Input("hack", NULL, NULL, NULL) /\ req'[r] \in Inputs
    BY <1>2, <2>1 DEF TypeInv, TypeOK, RequestsOK
  <2>3. req'[r] # NULL
    BY <2>2, NullAssumption
  <2>4. QED
    BY <2>2, <2>3 DEF Sent, Input
<1>6. chain' = chain \/ ~Untampered'
  BY <1>5, ArriveChain
<1>7. QED
  BY <1>2, <1>4, <1>6 DEF MemoryInv, NobodyCutOff, lifecycle

LEMMA NextMemory ==
    TypeInv /\ HandlersInv /\ MemoryInv /\ [Next]_vars => MemoryInv'
<1> SUFFICES ASSUME TypeInv, HandlersInv, MemoryInv, [Next]_vars PROVE MemoryInv'
  OBVIOUS
<1>1. ASSUME NEW r \in Requests, Arrive(r) PROVE MemoryInv'
  BY <1>1, ArriveMemory
<1>2. ASSUME NEW r \in Requests, Serve(r) PROVE MemoryInv'
  BY <1>2, ServeMemory
\* The request whose callback ends the process is cut off.
<1>3. ASSUME NEW r \in Requests, FatalError(r) PROVE MemoryInv'
  <2>1. queue # <<>> /\ Head(queue).req = r /\ Head(queue).stmt = "SELECT sudah_vote"
    BY <1>3 DEF FatalError, UserIsGone, Executes
  <2>2. req[r] # NULL /\ reply[r] = NULL
    BY <2>1, HeadOwn, HeadUnderway DEF Underway, Awaited
  <2>3. reply'[r] = "connection lost"
    BY <1>3, <2>2 DEF FatalError, ProcessEnds
  <2>4. QED
    BY <2>3 DEF MemoryInv, NobodyCutOff
<1>4. CASE Crash
  BY <1>4 DEF Crash, MemoryInv, TypeInv, TypeOK, LifecycleOK
<1>5. CASE Restart
  BY <1>5 DEF Restart, MemoryInv, NobodyCutOff
<1>6. CASE UNCHANGED vars
  BY <1>6 DEF vars, shared, memory, MemoryInv, NobodyCutOff, Untampered, Sent
<1>7. QED
  BY <1>1, <1>2, <1>3, <1>4, <1>5, <1>6 DEF Next

\* While the process lives and nobody tampers, /validate finds both chains in
\* memory valid: any votes, resets, deletions and toggles that overlap in any
\* way, and any failing statements, leave them linked, signed and numbered.
THEOREM HandlersKeepChains == Spec => []MemoryChainsValid
<1>1. TypeInv /\ MemoryInv => MemoryChainsValid
  BY ValidChain DEF MemoryInv, MemoryChainsValid, Untampered, TypeInv, TypeOK, MemoryOK
<1>2. Init => MemoryInv
  <2> SUFFICES ASSUME Init PROVE MemoryInv
    OBVIOUS
  <2>1. up /\ \A l \in Ledgers : chain[l] = <<BootGenesis>>
    BY DEF Init, InitWith
  <2>2. BootGenesis.index = 0
    BY GenesisSound DEF BootGenesis
  <2>3. QED
    BY <2>1, <2>2, ChainedGenesis DEF MemoryInv
<1>3. TypeInv /\ HandlersInv /\ MemoryInv /\ [Next]_vars => MemoryInv'
  BY NextMemory
<1>4. QED
  BY <1>1, <1>2, <1>3, HandlersInvariant, PTL DEF Spec

(***************************************************************************)
(* The chains and their tables, while no statement fails.  A reset that    *)
(* overlaps a vote leaves a table with the vote's block alone, so nobody   *)
(* resets here.                                                            *)
(***************************************************************************)
NobodyResets == "resetAll" \notin Operations

\* A block that is in memory and not in the table.
Carries(b, table, kept) ==
    /\ b.index \in Nat /\ Len(table) <= b.index /\ b.index < Len(kept)
    /\ b.hash = kept[b.index + 1].hash
    /\ b.previousHash = kept[b.index + 1].previousHash

\* A table is the beginning of what memory keeps, the statements `stmt` that
\* are pending carry the rest, in order.
Behind(table, kept, pending, stmt) ==
    /\ Len(table) <= Len(kept)
    /\ \A i \in 1..Len(table) : kept[i].hash = table[i].hash
    /\ \A i \in 1..Len(pending) :
          pending[i].stmt = stmt => Carries(pending[i].block, table, kept)
    /\ \A i, j \in 1..Len(pending) :
          i < j /\ pending[i].stmt = stmt /\ pending[j].stmt = stmt
              => pending[i].block.index < pending[j].block.index
    /\ \A k \in 1..Len(kept) : k > Len(table) =>
          \E i \in 1..Len(pending) : pending[i].stmt = stmt /\ pending[i].block.index = k - 1

\* The oldest statement is executed.
LEMMA BehindPop ==
    ASSUME NEW S, NEW T, NEW table \in Seq(T), NEW kept \in Seq(T),
           NEW pending \in Seq(S), pending # <<>>, NEW stmt,
           Behind(table, kept, pending, stmt), Head(pending).stmt # stmt
    PROVE  Behind(table, kept, Tail(pending), stmt)
<1> DEFINE rest == Tail(pending)
<1>1. /\ Len(pending) \in Nat \ {0} /\ Len(rest) = Len(pending) - 1
      /\ \A i \in 1..Len(rest) : rest[i] = pending[i + 1]
      /\ pending[1] = Head(pending)
  BY EmptySeq
<1> HIDE DEF rest
<1>2. \A i \in 1..Len(rest) : i + 1 \in 1..Len(pending)
  BY <1>1
<1>3. \A i \in 1..Len(pending) : i = 1 \/ (i - 1 \in 1..Len(rest) /\ rest[i - 1] = pending[i])
  BY <1>1
<1>4. \A i \in 1..Len(rest) : rest[i].stmt = stmt => Carries(rest[i].block, table, kept)
  BY <1>1, <1>2 DEF Behind
<1>5. ASSUME NEW i \in 1..Len(rest), NEW j \in 1..Len(rest),
             i < j, rest[i].stmt = stmt, rest[j].stmt = stmt
      PROVE  rest[i].block.index < rest[j].block.index
  <2>1. i + 1 < j + 1
    BY <1>1, <1>5
  <2>2. QED
    BY <1>1, <1>2, <1>5, <2>1 DEF Behind
<1>6. ASSUME NEW k \in 1..Len(kept), k > Len(table)
      PROVE  \E i \in 1..Len(rest) : rest[i].stmt = stmt /\ rest[i].block.index = k - 1
  <2>1. PICK i \in 1..Len(pending) : pending[i].stmt = stmt /\ pending[i].block.index = k - 1
    BY <1>6 DEF Behind
  <2>2. i # 1
    BY <1>1, <2>1
  <2>3. QED
    BY <1>3, <2>1, <2>2
<1>7. Len(table) <= Len(kept) /\ \A i \in 1..Len(table) : kept[i].hash = table[i].hash
  BY DEF Behind
<1>8. Behind(table, kept, rest, stmt)
  BY <1>4, <1>5, <1>6, <1>7 DEF Behind
<1>9. QED
  BY <1>8 DEF rest

\* The oldest of the statements that are pending stores the first block that
\* is missing.
LEMMA BehindHead ==
    ASSUME NEW S, NEW T, NEW table \in Seq(T), NEW kept \in Seq(T),
           NEW pending \in Seq(S), pending # <<>>, NEW stmt,
           Behind(table, kept, pending, stmt), Head(pending).stmt = stmt
    PROVE  /\ Head(pending).block.index = Len(table)
           /\ Carries(Head(pending).block, table, kept)
<1> DEFINE b == Head(pending).block
<1>1. /\ Len(pending) \in Nat \ {0} /\ 1 \in 1..Len(pending) /\ pending[1] = Head(pending)
      /\ Len(table) \in Nat /\ Len(kept) \in Nat
  BY EmptySeq
<1>2. Carries(b, table, kept)
  BY <1>1 DEF Behind
<1>3. Len(table) + 1 \in 1..Len(kept)
  BY <1>1, <1>2 DEF Carries
<1>4. PICK i \in 1..Len(pending) :
          pending[i].stmt = stmt /\ pending[i].block.index = (Len(table) + 1) - 1
  BY <1>1, <1>3 DEF Behind
<1>5. i # 1 => b.index < pending[i].block.index
  BY <1>1, <1>4 DEF Behind
<1>6. QED
  BY <1>1, <1>2, <1>4, <1>5 DEF Carries

LEMMA BehindStore ==
    ASSUME NEW S, NEW T, NEW table \in Seq(T), NEW kept \in Seq(T),
           NEW pending \in Seq(S), pending # <<>>, NEW stmt,
           Behind(table, kept, pending, stmt), Head(pending).stmt = stmt,
           Head(pending).block \in T
    PROVE  Behind(Append(table, Head(pending).block), kept, Tail(pending), stmt)
<1> DEFINE rest == Tail(pending)
           b    == Head(pending).block
           new  == Append(table, b)
<1>1. /\ Len(pending) \in Nat \ {0} /\ Len(rest) = Len(pending) - 1
      /\ \A i \in 1..Len(rest) : rest[i] = pending[i + 1]
      /\ pending[1] = Head(pending) /\ 1 \in 1..Len(pending)
  BY EmptySeq
<1>2. /\ Len(new) = Len(table) + 1 /\ Len(table) \in Nat /\ Len(kept) \in Nat
      /\ \A i \in 1..Len(table) : new[i] = table[i]
      /\ new[Len(table) + 1] = b
  BY AppendProperties
<1>3. b.index = Len(table) /\ Carries(b, table, kept)
  BY BehindHead
<1>4. pending[1].block = b /\ pending[1].stmt = stmt
  BY <1>1
<1> HIDE DEF rest, b, new
<1>5. \A i \in 1..Len(rest) : i + 1 \in 1..Len(pending) /\ 1 < i + 1
  BY <1>1
<1>6. Len(new) <= Len(kept) /\ \A i \in 1..Len(new) : kept[i].hash = new[i].hash
  <2>1. \A i \in 1..Len(new) : i \in 1..Len(table) \/ i = Len(table) + 1
    BY <1>2
  <2>2. Len(table) < Len(kept) /\ b.hash = kept[Len(table) + 1].hash
    BY <1>3 DEF Carries
  <2>3. \A i \in 1..Len(table) : kept[i].hash = table[i].hash
    BY DEF Behind
  <2>4. Len(new) <= Len(kept)
    BY <1>2, <2>2
  <2>5. QED
    BY <1>2, <2>1, <2>2, <2>3, <2>4
<1>7. ASSUME NEW i \in 1..Len(rest), rest[i].stmt = stmt
      PROVE  Carries(rest[i].block, new, kept)
  <2>1. Carries(rest[i].block, table, kept)
    BY <1>1, <1>5, <1>7 DEF Behind
  <2>2. b.index < rest[i].block.index
    BY <1>1, <1>4, <1>5, <1>7 DEF Behind
  <2>3. QED
    BY <1>2, <1>3, <2>1, <2>2 DEF Carries
<1>8. ASSUME NEW i \in 1..Len(rest), NEW j \in 1..Len(rest),
             i < j, rest[i].stmt = stmt, rest[j].stmt = stmt
      PROVE  rest[i].block.index < rest[j].block.index
  <2>1. i + 1 < j + 1
    BY <1>1, <1>8
  <2>2. QED
    BY <1>1, <1>5, <1>8, <2>1 DEF Behind
<1>9. ASSUME NEW k \in 1..Len(kept), k > Len(new)
      PROVE  \E i \in 1..Len(rest) : rest[i].stmt = stmt /\ rest[i].block.index = k - 1
  <2>1. k > Len(table) /\ k - 1 # Len(table)
    BY <1>2, <1>9
  <2>2. PICK i \in 1..Len(pending) : pending[i].stmt = stmt /\ pending[i].block.index = k - 1
    BY <2>1 DEF Behind
  <2>3. i # 1
    BY <1>3, <1>4, <2>1, <2>2
  <2>4. i - 1 \in 1..Len(rest) /\ rest[i - 1] = pending[i]
    BY <1>1, <2>3
  <2>5. QED
    BY <2>2, <2>4
<1>10. Behind(new, kept, rest, stmt)
  BY <1>6, <1>7, <1>8, <1>9 DEF Behind
<1>11. QED
  BY <1>10 DEF new, rest, b

\* A statement is issued that stores no block of the ledger.
LEMMA BehindIssue ==
    ASSUME NEW S, NEW table, NEW kept,
           NEW pending \in Seq(S), NEW qs \in Seq(S), NEW stmt,
           Behind(table, kept, pending, stmt),
           \A j \in 1..Len(qs) : qs[j].stmt # stmt
    PROVE  Behind(table, kept, pending \o qs, stmt)
<1> DEFINE more == pending \o qs
<1>1. /\ Len(pending) \in Nat /\ Len(qs) \in Nat /\ Len(more) = Len(pending) + Len(qs)
      /\ \A i \in 1..Len(pending) : more[i] = pending[i]
      /\ \A i \in 1..Len(more) : ~(i <= Len(pending)) => more[i] = qs[i - Len(pending)]
  OBVIOUS
<1> HIDE DEF more
<1>2. \A i \in 1..Len(more) : more[i].stmt = stmt => i \in 1..Len(pending) /\ more[i] = pending[i]
  <2> SUFFICES ASSUME NEW i \in 1..Len(more), more[i].stmt = stmt, ~(i <= Len(pending))
               PROVE  FALSE
    BY <1>1
  <2>1. i - Len(pending) \in 1..Len(qs)
    BY <1>1
  <2>2. QED
    BY <1>1, <2>1
<1>3. \A i \in 1..Len(pending) : i \in 1..Len(more) /\ more[i] = pending[i]
  BY <1>1
<1>4. QED
  BY <1>2, <1>3 DEF Behind, more

\* A block is added to the chain and the statement issued that stores it.
LEMMA BehindAdd ==
    ASSUME NEW S, NEW T, NEW table \in Seq(T), NEW kept \in Seq(T), NEW b \in T,
           NEW pending \in Seq(S), NEW qs \in Seq(S), NEW stmt,
           Behind(table, kept, pending, stmt),
           b.index = Len(kept),
           NEW j \in 1..Len(qs), qs[j].block = b,
           \A k \in 1..Len(qs) : qs[k].stmt = stmt <=> k = j
    PROVE  Behind(table, Append(kept, b), pending \o qs, stmt)
<1> DEFINE more == pending \o qs
           new  == Append(kept, b)
           n    == Len(pending) + j
<1>1. /\ Len(pending) \in Nat /\ Len(qs) \in Nat /\ Len(more) = Len(pending) + Len(qs)
      /\ \A i \in 1..Len(pending) : more[i] = pending[i]
      /\ \A i \in 1..Len(more) : ~(i <= Len(pending)) => more[i] = qs[i - Len(pending)]
  OBVIOUS
<1>2. /\ Len(new) = Len(kept) + 1 /\ Len(kept) \in Nat /\ Len(table) \in Nat
      /\ \A i \in 1..Len(kept) : new[i] = kept[i]
      /\ new[Len(kept) + 1] = b
  BY AppendProperties
<1> HIDE DEF more, new
<1>3. n \in 1..Len(more) /\ ~(n <= Len(pending)) /\ n - Len(pending) = j /\ n > Len(pending)
  BY <1>1
<1> HIDE DEF n
<1>4. more[n].stmt = stmt /\ more[n].block = b
  BY <1>1, <1>3
<1>5. \A i \in 1..Len(more) : more[i].stmt = stmt =>
          (i \in 1..Len(pending) /\ more[i] = pending[i]) \/ i = n
  <2> SUFFICES ASSUME NEW i \in 1..Len(more), more[i].stmt = stmt, ~(i <= Len(pending))
               PROVE  i = n
    BY <1>1
  <2>1. i - Len(pending) \in 1..Len(qs)
    BY <1>1
  <2>2. i - Len(pending) = j
    BY <1>1, <2>1
  <2>3. QED
    BY <1>1, <2>2 DEF n
<1>6. \A i \in 1..Len(pending) : i \in 1..Len(more) /\ more[i] = pending[i] /\ i < n
  BY <1>1, <1>3
<1>7. \A c : Carries(c, table, kept) => Carries(c, table, new) /\ c.index < b.index
  <2> SUFFICES ASSUME NEW c, Carries(c, table, kept)
               PROVE  Carries(c, table, new) /\ c.index < b.index
    OBVIOUS
  <2>1. c.index + 1 \in 1..Len(kept)
    BY <1>2 DEF Carries
  <2>2. new[c.index + 1] = kept[c.index + 1]
    BY <1>2, <2>1
  <2>3. QED
    BY <1>2, <2>2 DEF Carries
<1>8. Len(table) <= Len(kept) /\ \A i \in 1..Len(table) : kept[i].hash = table[i].hash
  BY DEF Behind
<1>9. Carries(b, table, new)
  BY <1>2, <1>8 DEF Carries
<1>10. Len(table) <= Len(new) /\ \A i \in 1..Len(table) : new[i].hash = table[i].hash
  <2>1. \A i \in 1..Len(table) : i \in 1..Len(kept)
    BY <1>2, <1>8
  <2>2. QED
    BY <1>2, <1>8, <2>1
<1>11. \A i \in 1..Len(more) : more[i].stmt = stmt => Carries(more[i].block, table, new)
  BY <1>4, <1>5, <1>7, <1>9 DEF Behind
<1>12. ASSUME NEW i \in 1..Len(more), NEW k \in 1..Len(more), i < k,
              more[i].stmt = stmt, more[k].stmt = stmt
       PROVE  more[i].block.index < more[k].block.index
  <2>1. CASE k \in 1..Len(pending) /\ more[k] = pending[k]
    <3>1. i \in 1..Len(pending) /\ more[i] = pending[i]
      BY <1>1, <1>12, <2>1
    <3>2. QED
      BY <1>12, <2>1, <3>1 DEF Behind
  <2>2. CASE k = n
    <3>1. i \in 1..Len(pending) /\ more[i] = pending[i]
      BY <1>1, <1>3, <1>5, <1>12, <2>2
    <3>2. QED
      BY <1>4, <1>7, <1>12, <2>2, <3>1 DEF Behind
  <2>3. QED
    BY <1>5, <1>12, <2>1, <2>2
<1>13. ASSUME NEW k \in 1..Len(new), k > Len(table)
       PROVE  \E i \in 1..Len(more) : more[i].stmt = stmt /\ more[i].block.index = k - 1
  <2>1. CASE k = Len(kept) + 1
    BY <1>2, <1>3, <1>4, <2>1
  <2>2. CASE k \in 1..Len(kept)
    BY <1>6, <1>13, <2>2 DEF Behind
  <2>3. QED
    BY <1>2, <2>1, <2>2
<1>14. Behind(table, new, more, stmt)
  BY <1>10, <1>11, <1>12, <1>13 DEF Behind
<1>15. QED
  BY <1>14 DEF more, new

\* What hack does to a chain its table does not notice.
LEMMA BehindHack ==
    ASSUME NEW table \in Seq(Blocks), NEW kept \in Seq(Blocks), NEW pending, NEW stmt,
           NEW new, new = HackBlock(kept, 1, TamperedData)
    PROVE  /\ Behind(table, kept, pending, stmt) => Behind(table, new, pending, stmt)
           /\ Chained(kept) => Chained(new)
<1>1. /\ new \in Seq(Blocks) /\ Len(new) = Len(kept) /\ Len(kept) \in Nat
      /\ Len(table) \in Nat
      /\ \A i \in 1..Len(kept) :
            /\ i # 2 => new[i] = kept[i]
            /\ i = 2 => new[i] = [kept[i] EXCEPT !.data = TamperedData]
  BY HackedBlock
<1>2. \A i \in 1..Len(kept) : kept[i] \in Blocks
  BY ElementOfSeq
<1>3. \A i \in 1..Len(kept) : /\ new[i].hash = kept[i].hash
                              /\ new[i].previousHash = kept[i].previousHash
                              /\ new[i].index = kept[i].index
  BY <1>1, <1>2 DEF Blocks
<1>4. Chained(kept) => Chained(new)
  <2> SUFFICES ASSUME Chained(kept), NEW i \in 1..Len(new)
               PROVE  new[i].index = i - 1 /\ (i # 1 => new[i].previousHash = new[i - 1].hash)
    BY DEF Chained
  <2>1. i \in 1..Len(kept) /\ (i # 1 => i - 1 \in 1..Len(kept))
    BY <1>1
  <2>2. QED
    BY <1>3, <2>1 DEF Chained
<1>5. \A b : Carries(b, table, kept) => Carries(b, table, new)
  <2> SUFFICES ASSUME NEW b, Carries(b, table, kept) PROVE Carries(b, table, new)
    OBVIOUS
  <2>1. b.index + 1 \in 1..Len(kept)
    BY <1>1 DEF Carries
  <2>2. QED
    BY <1>1, <1>3, <2>1 DEF Carries
<1>6. ASSUME Behind(table, kept, pending, stmt) PROVE Behind(table, new, pending, stmt)
  <2>1. \A i \in 1..Len(table) : i \in 1..Len(kept)
    BY <1>1, <1>6 DEF Behind
  <2>2. QED
    BY <1>1, <1>3, <1>5, <1>6, <2>1 DEF Behind
<1>7. QED
  BY <1>4, <1>6

\* A table whose rows are at their indices is loaded in that order.
LEMMA LoadsInOrder ==
    ASSUME NEW rows \in Seq(Blocks), Chained(rows), NEW c \in LoadOrders(rows)
    PROVE  c = rows
<1> DEFINE n == Len(rows)
<1>1. PICK p \in [1..n -> 1..n] :
          /\ c = [i \in 1..n |-> rows[p[i]]]
          /\ \A i, j \in 1..n :
                i < j => p[i] # p[j] /\ rows[p[i]].index <= rows[p[j]].index
  BY DEF LoadOrders
<1>2. n \in Nat
  OBVIOUS
<1>3. \A i \in 1..n : p[i] \in 1..n /\ rows[p[i]].index = p[i] - 1
  BY <1>1 DEF Chained
<1> HIDE DEF n
<1>4. \A i, j \in 1..n : i < j => p[i] < p[j]
  BY <1>1, <1>2, <1>3
<1>5. \A i \in 1..n : p[i] <= i
  <2> DEFINE S == {i \in 1..n : i < p[i]}
  <2>1. CASE S = {}
    <3>1. \A i \in 1..n : ~(i < p[i])
      BY <2>1
    <3> HIDE DEF S
    <3>2. QED
      BY <1>2, <1>3, <3>1
  <2>2. CASE S # {}
    <3>1. PICK i \in S : \A j \in S : j <= i
      BY <1>2, <2>2, LastPosition
    <3>2. i \in 1..n /\ i < p[i] /\ p[i] \in 1..n
      BY <1>3
    <3>3. i + 1 \in 1..n /\ i < i + 1
      BY <1>2, <3>2
    <3>4. i + 1 \notin S
      BY <1>2, <3>1, <3>2
    <3>5. ~(i + 1 < p[i + 1]) /\ p[i] < p[i + 1] /\ p[i + 1] \in 1..n
      BY <1>3, <1>4, <3>2, <3>3, <3>4
    <3>6. QED
      BY <1>2, <3>2, <3>5
  <2>3. QED
    BY <2>1, <2>2
<1>6. \A i \in 1..n : i <= p[i]
  <2> DEFINE S == {i \in 1..n : p[i] < i}
  <2>1. CASE S = {}
    <3>1. \A i \in 1..n : ~(p[i] < i)
      BY <2>1
    <3> HIDE DEF S
    <3>2. QED
      BY <1>2, <1>3, <3>1
  <2>2. CASE S # {}
    <3>1. S \in SUBSET Nat
      BY <1>2
    <3>2. PICK i \in S : \A j \in S : i <= j
      BY <2>2, <3>1, FirstPosition
    <3>3. i \in 1..n /\ p[i] < i /\ p[i] \in 1..n
      BY <1>3
    <3>4. i - 1 \in 1..n /\ i - 1 < i
      BY <1>2, <3>3
    <3>5. i - 1 \notin S
      BY <1>2, <3>2, <3>3
    <3>6. ~(p[i - 1] < i - 1) /\ p[i - 1] < p[i] /\ p[i - 1] \in 1..n
      BY <1>3, <1>4, <3>3, <3>4, <3>5
    <3>7. QED
      BY <1>2, <3>3, <3>6
  <2>3. QED
    BY <2>1, <2>2
<1>7. \A i \in 1..n : p[i] = i
  BY <1>2, <1>3, <1>5, <1>6
<1>8. c = [i \in 1..n |-> rows[i]]
  BY <1>1, <1>7
<1>9. QED
  BY <1>8 DEF n

\* A table whose rows are a valid chain, and the chain in memory with the
\* statements that will carry its rest to the table.
Recoverable(table) == table # <<>> /\ Chained(table) /\ Signed(table)

AllMinted(qs, stmt) == \A i \in 1..Len(qs) : qs[i].stmt = stmt => Minted(qs[i].block)

InStep(table, kept, pending, stmt) ==
    Chained(kept) /\ AllMinted(pending, stmt) /\ Behind(table, kept, pending, stmt)

\* The block that a statement stores is the next of the table's chain.
LEMMA NextRow ==
    ASSUME NEW S, NEW table \in Seq(Blocks), NEW kept \in Seq(Blocks),
           NEW pending \in Seq(S), pending # <<>>, NEW stmt,
           table # <<>>, InStep(table, kept, pending, stmt), Head(pending).stmt = stmt
    PROVE  NewOn(table, Head(pending).block)
<1> DEFINE b == Head(pending).block
           n == Len(table)
<1>1. b.index = n /\ Carries(b, table, kept)
  BY BehindHead DEF InStep
<1>2. Minted(b)
  <2>1. 1 \in 1..Len(pending) /\ pending[1] = Head(pending)
    BY EmptySeq
  <2>2. QED
    BY <2>1 DEF InStep, AllMinted
<1>3. n \in Nat \ {0} /\ Len(kept) \in Nat
  BY EmptySeq
<1> HIDE DEF b, n
<1>4. /\ n + 1 \in 1..Len(kept) /\ n + 1 # 1 /\ (n + 1) - 1 = n
      /\ b.previousHash = kept[n + 1].previousHash
  BY <1>1, <1>3 DEF Carries, n
<1>5. kept[n + 1].previousHash = kept[n].hash
  BY <1>4 DEF InStep, Chained
<1>6. kept[n].hash = table[n].hash
  BY <1>3 DEF InStep, Behind, n
<1>7. QED
  BY <1>1, <1>2, <1>4, <1>5, <1>6 DEF NewOn, GetLatestBlock, n, b

LEMMA MintedTail ==
    ASSUME NEW S, NEW pending \in Seq(S), pending # <<>>, NEW stmt, AllMinted(pending, stmt)
    PROVE  AllMinted(Tail(pending), stmt)
<1> DEFINE rest == Tail(pending)
<1>1. \A i \in 1..Len(rest) : i + 1 \in 1..Len(pending) /\ rest[i] = pending[i + 1]
  BY EmptySeq
<1> HIDE DEF rest
<1>2. AllMinted(rest, stmt)
  BY <1>1 DEF AllMinted
<1>3. QED
  BY <1>2 DEF rest

LEMMA RowStored ==
    ASSUME NEW S, NEW table \in Seq(Blocks), NEW kept \in Seq(Blocks),
           NEW pending \in Seq(S), pending # <<>>, NEW stmt,
           Recoverable(table), InStep(table, kept, pending, stmt),
           Head(pending).stmt = stmt, Head(pending).block \in Blocks
    PROVE  /\ Recoverable(Append(table, Head(pending).block))
           /\ InStep(Append(table, Head(pending).block), kept, Tail(pending), stmt)
<1> DEFINE b == Head(pending).block
<1>1. NewOn(table, b)
  BY NextRow DEF Recoverable
<1>2. Behind(Append(table, b), kept, Tail(pending), stmt)
  BY BehindStore DEF InStep
<1>3. AllMinted(Tail(pending), stmt)
  BY MintedTail DEF InStep
<1>4. Append(table, b) # <<>>
  BY AppendProperties
<1>5. b \in Blocks
  OBVIOUS
<1> HIDE DEF b
<1>6. Chained(Append(table, b)) /\ Signed(Append(table, b))
  BY <1>1, <1>5, ChainedAppend, SignedAppend DEF Recoverable, NewOn
<1>7. QED
  BY <1>2, <1>3, <1>4, <1>6 DEF Recoverable, InStep, b

LEMMA OtherStored ==
    ASSUME NEW S, NEW table \in Seq(Blocks), NEW kept \in Seq(Blocks),
           NEW pending \in Seq(S), pending # <<>>, NEW stmt,
           InStep(table, kept, pending, stmt), Head(pending).stmt # stmt
    PROVE  InStep(table, kept, Tail(pending), stmt)
BY BehindPop, MintedTail DEF InStep

\* What a callback leaves of it.
LEMMA MintedMore ==
    ASSUME NEW S, NEW pending \in Seq(S), NEW qs \in Seq(S), NEW stmt,
           AllMinted(pending, stmt), AllMinted(qs, stmt)
    PROVE  AllMinted(pending \o qs, stmt)
<1> DEFINE more == pending \o qs
<1>1. /\ Len(pending) \in Nat /\ Len(qs) \in Nat /\ Len(more) = Len(pending) + Len(qs)
      /\ \A i \in 1..Len(pending) : more[i] = pending[i]
      /\ \A i \in 1..Len(more) : ~(i <= Len(pending)) => more[i] = qs[i - Len(pending)]
  OBVIOUS
<1> HIDE DEF more
<1>2. ASSUME NEW i \in 1..Len(more), more[i].stmt = stmt PROVE Minted(more[i].block)
  <2>1. CASE i \in 1..Len(pending)
    BY <1>1, <1>2, <2>1 DEF AllMinted
  <2>2. CASE i \notin 1..Len(pending)
    <3>1. i - Len(pending) \in 1..Len(qs) /\ more[i] = qs[i - Len(pending)]
      BY <1>1, <2>2
    <3>2. QED
      BY <1>2, <3>1 DEF AllMinted
  <2>3. QED
    BY <2>1, <2>2
<1>3. AllMinted(more, stmt)
  BY <1>2 DEF AllMinted
<1>4. QED
  BY <1>3 DEF more

LEMMA IssuedElsewhere ==
    ASSUME NEW S, NEW table, NEW kept, NEW l,
           NEW pending \in Seq(S), NEW qs \in Seq(S),
           InStep(table, kept, pending, InsertBlockStmt(l)), SavesNone(qs, l)
    PROVE  InStep(table, kept, pending \o qs, InsertBlockStmt(l))
<1>1. AllMinted(qs, InsertBlockStmt(l))
  BY DEF AllMinted, SavesNone
<1>2. QED
  BY <1>1, MintedMore, BehindIssue DEF InStep, SavesNone

LEMMA BlockAdded ==
    ASSUME NEW S, NEW table \in Seq(Blocks), NEW kept \in Seq(Blocks), kept # <<>>, NEW l,
           NEW pending \in Seq(S), NEW qs \in Seq(S), NEW b \in Blocks,
           InStep(table, kept, pending, InsertBlockStmt(l)),
           NewOn(kept, b), SavesOne(qs, l, b)
    PROVE  InStep(table, Append(kept, b), pending \o qs, InsertBlockStmt(l))
<1> DEFINE stmt == InsertBlockStmt(l)
<1>1. PICK j \in 1..Len(qs) :
          qs[j].block = b /\ \A k \in 1..Len(qs) : qs[k].stmt = stmt <=> k = j
  BY DEF SavesOne
<1>2. b.index = Len(kept) /\ Minted(b)
  BY DEF NewOn
<1> HIDE DEF stmt
<1>3. AllMinted(qs, stmt)
  BY <1>1, <1>2 DEF AllMinted
<1>4. InStep(table, kept, pending, stmt)
  BY DEF stmt
<1>5. Behind(table, Append(kept, b), pending \o qs, stmt)
  BY <1>1, <1>2, <1>4, BehindAdd DEF InStep
<1>6. AllMinted(pending \o qs, stmt)
  BY <1>3, <1>4, MintedMore DEF InStep
<1>7. Chained(Append(kept, b))
  BY ChainedAppend DEF InStep
<1>8. QED
  BY <1>5, <1>6, <1>7 DEF InStep, stmt

(***************************************************************************)
(* The invariant, and how the steps keep it.                               *)
(***************************************************************************)
LedgerInv(l) ==
    /\ Recoverable(blocks[l])
    /\ up => InStep(blocks[l], chain[l], queue, InsertBlockStmt(l))

TablesInv == faults = 0 => \A l \in Ledgers : LedgerInv(l)

\* What a statement that is executed does to a table.
LEMMA TableWrites ==
    ASSUME TypeInv, NEW q, Perform(q), q.stmt # "DELETE blockchain", NEW l \in Ledgers
    PROVE  \/ q.stmt = InsertBlockStmt(l) /\ blocks'[l] = Append(blocks[l], q.block)
           \/ q.stmt # InsertBlockStmt(l) /\ blocks'[l] = blocks[l]
<1> USE DEF InsertBlockStmt, VoteLedger, AuditLedger, Ledgers
<1>1. blocks \in [Ledgers -> Seq(Blocks)]
  BY DEF TypeInv, TypeOK, TablesOK
<1>2. CASE SaveBlock(q)
  BY <1>1, <1>2 DEF SaveBlock
<1>3. CASE ~SaveBlock(q)
  <2>1. /\ blocks' = blocks
        /\ q.stmt \notin {"INSERT blockchain", "INSERT audit_ledger_blocks"}
    BY <1>3 DEF Perform, Read, InsertVote, DeleteVotes, UpdateFlag, UpdateKeys, DeleteUser,
       UpdateIsOpen, InsertAuditLog, DeleteBlocks, db
  <2>2. QED
    BY <2>1
<1>4. QED
  BY <1>2, <1>3

\* Without failures the statements of audit blocks are not rejected: the next
\* index is free.
LEMMA IndexIsFree ==
    ASSUME TypeInv, up, queue # <<>>, \A l \in Ledgers : LedgerInv(l), Rejected(Head(queue))
    PROVE  \A l \in Ledgers : Head(queue).stmt # InsertBlockStmt(l)
<1> DEFINE table == blocks[AuditLedger]
<1>1. table \in Seq(Blocks) /\ chain[AuditLedger] \in Seq(Blocks) /\ queue \in Seq(Queries)
  BY DEF TypeInv, TypeOK, TablesOK, MemoryOK, Ledgers
<1>2. SUFFICES ASSUME Head(queue).stmt = InsertBlockStmt(AuditLedger) PROVE FALSE
  BY DEF Rejected, InsertBlockStmt, Ledgers, VoteLedger, AuditLedger
<1>3. Chained(table) /\ InStep(table, chain[AuditLedger], queue, InsertBlockStmt(AuditLedger))
  BY DEF LedgerInv, Recoverable, Ledgers
<1>4. Head(queue).block.index = Len(table)
  BY <1>1, <1>2, <1>3, BehindHead DEF InStep
<1>5. PICK i \in DOMAIN table : table[i].index = Head(queue).block.index
  BY <1>2 DEF Rejected, InsertBlockStmt, VoteLedger, AuditLedger
<1> HIDE DEF table
<1>6. i \in 1..Len(table) /\ Len(table) \in Nat
  BY <1>1
<1>7. table[i].index = i - 1
  BY <1>3, <1>6 DEF Chained
<1>8. QED
  BY <1>4, <1>5, <1>6, <1>7

\* The oldest statement, executed or rejected.
LEMMA HeadStored ==
    ASSUME TypeInv, HandlersInv, up, queue # <<>>, NEW l \in Ledgers, LedgerInv(l),
           Head(queue).stmt # "DELETE blockchain",
           \/ Perform(Head(queue))
           \/ UNCHANGED db /\ Head(queue).stmt # InsertBlockStmt(l)
    PROVE  /\ Recoverable(blocks'[l])
           /\ InStep(blocks'[l], chain[l], Tail(queue), InsertBlockStmt(l))
<1> DEFINE q    == Head(queue)
           stmt == InsertBlockStmt(l)
<1>1. /\ blocks[l] \in Seq(Blocks) /\ chain[l] \in Seq(Blocks) /\ queue \in Seq(Queries)
      /\ q \in Queries
  BY HeadUnderway DEF TypeInv, TypeOK, TablesOK, MemoryOK, Underway
<1>2. Recoverable(blocks[l]) /\ InStep(blocks[l], chain[l], queue, stmt)
  BY DEF LedgerInv
<1>3. \/ q.stmt = stmt /\ blocks'[l] = Append(blocks[l], q.block)
      \/ q.stmt # stmt /\ blocks'[l] = blocks[l]
  BY TableWrites DEF db
<1>4. q.stmt = stmt => q.block \in Blocks
  BY <1>1 DEF Queries, Statements, InsertBlockStmt
<1>5. CASE q.stmt = stmt /\ blocks'[l] = Append(blocks[l], q.block)
  BY <1>1, <1>2, <1>4, <1>5, RowStored
<1>6. CASE q.stmt # stmt /\ blocks'[l] = blocks[l]
  BY <1>1, <1>2, <1>6, OtherStored
<1>7. QED
  BY <1>3, <1>5, <1>6

\* Nobody resets: no request of the kind, no statement of its.
LEMMA NoReset ==
    ASSUME NobodyResets, TypeInv, HandlersInv
    PROVE  /\ \A r \in Requests : req[r] # NULL => req[r].op # "resetAll"
           /\ queue # <<>> => Head(queue).stmt # "DELETE blockchain"
<1>1. \A r \in Requests : req[r] # NULL => req[r].op # "resetAll"
  BY DEF HandlersInv, Admitted, NobodyResets
<1>2. ASSUME queue # <<>> PROVE Head(queue).stmt # "DELETE blockchain"
  BY <1>1, <1>2, HeadOwn, HeadUnderway DEF OwnStatement, Own, MayIssue, Underway
<1>3. QED
  BY <1>1, <1>2

LEMMA ServeTables ==
    ASSUME NobodyResets, TypeInv, HandlersInv, TablesInv, NEW r \in Requests, Serve(r)
    PROVE  TablesInv'
<1> SUFFICES ASSUME faults' = 0, NEW l \in Ledgers PROVE LedgerInv(l)'
  BY DEF TablesInv
<1>1. PICK stmt : Succeeds(r, stmt) \/ Fails(r, stmt)
  BY CallbackStatement DEF Serve
<1>2. queue # <<>> /\ Head(queue).req = r /\ req[r] # NULL /\ up /\ up'
  BY <1>1, StatementType DEF Serve, lifecycle
<1>3. faults = 0 /\ \A k \in Ledgers : LedgerInv(k)
  BY ServeLucky DEF TablesInv
<1>4. Perform(Head(queue)) \/ (UNCHANGED db /\ Head(queue).stmt # InsertBlockStmt(l))
  <2>1. CASE Succeeds(r, stmt)
    BY <2>1 DEF Succeeds
  <2>2. CASE Fails(r, stmt)
    <3>1. UNCHANGED db /\ (Rejected(Head(queue)) \/ faults' = faults + 1)
      BY <2>2 DEF Fails
    <3>2. Rejected(Head(queue))
      BY <1>3, <3>1
    <3>3. QED
      BY <1>2, <1>3, <3>1, <3>2, IndexIsFree
  <2>3. QED
    BY <1>1, <2>1, <2>2
<1>5. /\ Recoverable(blocks'[l])
      /\ InStep(blocks'[l], chain[l], Tail(queue), InsertBlockStmt(l))
  BY <1>2, <1>3, <1>4, NoReset, HeadStored
<1>6. PICK qs \in Seq(Queries) : Issue(qs) /\ LedgerTurn(r, l, qs)
  BY <1>2, CallbackChain DEF Serve, ChainTurn
<1>7. /\ blocks'[l] \in Seq(Blocks) /\ chain[l] \in Seq(Blocks) /\ chain[l] # <<>>
      /\ Tail(queue) \in Seq(Queries) /\ queue' = Tail(queue) \o qs
  <2>1. TypeInv'
    BY ServeType
  <2>2. QED
    BY <1>2, <1>6, <2>1
       DEF TypeInv, TypeOK, TablesOK, MemoryOK, ChainsLoaded, Issue
<1>8. InStep(blocks'[l], chain'[l], Tail(queue) \o qs, InsertBlockStmt(l))
  <2>1. CASE chain'[l] = chain[l] /\ SavesNone(qs, l)
    BY <1>5, <1>6, <1>7, <2>1, IssuedElsewhere
  <2>2. CASE Adds(l, qs)
    <3>1. PICK b \in Blocks : /\ NewOn(chain[l], b) /\ chain'[l] = Append(chain[l], b)
                              /\ SavesOne(qs, l, b)
      BY <2>2 DEF Adds
    <3>2. QED
      BY <1>5, <1>6, <1>7, <3>1, BlockAdded
  <2>3. ~Resets(r)
    BY <1>2, NoReset DEF Resets
  <2>4. QED
    BY <1>6, <2>1, <2>2, <2>3 DEF LedgerTurn
<1>9. QED
  BY <1>5, <1>7, <1>8 DEF LedgerInv

\* A request that arrives saves no block, but for hack.
LEMMA ArriveSaves ==
    ASSUME NEW r \in Requests, Arrive(r), ~HackArrives(r)
    PROVE  \E stmt \in Statements : queue' = queue \o <<Query(r, stmt, NULL)>>
BY DEF Arrive, Arrives, Statements, CastVoteArrives, DeleteUserArrives, ResetUserVoteArrives,
   ResetAllArrives, ToggleArrives

LEMMA HackTables ==
    ASSUME TypeInv, NEW r \in Requests, HackArrives(r), NEW l \in Ledgers,
           InStep(blocks[l], chain[l], queue, InsertBlockStmt(l))
    PROVE  InStep(blocks[l], chain'[l], queue', InsertBlockStmt(l))
<1> DEFINE b  == NextAuditBlock(r)
           qs == <<Query(r, InsertBlockStmt(AuditLedger), b)>>
<1>1. /\ up /\ queue' = queue \o qs
      /\ chain' = [chain EXCEPT ![VoteLedger]  = HackBlock(@, 1, TamperedData),
                                ![AuditLedger] = Append(@, b)]
  BY DEF HackArrives, Arrives
<1>2. /\ chain'[VoteLedger] = HackBlock(chain[VoteLedger], 1, TamperedData)
      /\ chain'[AuditLedger] = Append(chain[AuditLedger], b)
  BY <1>1 DEF TypeInv, TypeOK, MemoryOK, Ledgers, VoteLedger, AuditLedger
<1>3. qs \in Seq(Queries) /\ Adds(AuditLedger, qs) /\ SavesNone(qs, VoteLedger)
  BY <1>1, <1>2, AuditAdds
<1>4. /\ blocks[l] \in Seq(Blocks) /\ chain[l] \in Seq(Blocks) /\ chain[l] # <<>>
      /\ queue \in Seq(Queries)
  BY <1>1 DEF TypeInv, TypeOK, TablesOK, MemoryOK, ChainsLoaded
<1> HIDE DEF qs, b
<1>5. CASE l = VoteLedger
  <2>1. InStep(blocks[l], chain'[l], queue, InsertBlockStmt(l))
    BY <1>2, <1>4, <1>5, BehindHack DEF InStep
  <2>2. QED
    BY <1>1, <1>3, <1>4, <1>5, <2>1, IssuedElsewhere
<1>6. CASE l = AuditLedger
  <2>1. PICK a \in Blocks : /\ NewOn(chain[l], a) /\ chain'[l] = Append(chain[l], a)
                            /\ SavesOne(qs, l, a)
    BY <1>3, <1>6 DEF Adds
  <2>2. QED
    BY <1>1, <1>3, <1>4, <2>1, BlockAdded
<1>7. QED
  BY <1>5, <1>6 DEF Ledgers

LEMMA ArriveTables ==
    ASSUME TypeInv, TablesInv, NEW r \in Requests, Arrive(r)
    PROVE  TablesInv'
<1> SUFFICES ASSUME faults' = 0, NEW l \in Ledgers PROVE LedgerInv(l)'
  BY DEF TablesInv
<1>1. faults = 0 /\ blocks' = blocks /\ up /\ up'
  <2>1. PICK input \in Inputs, q \in Queries : Arrives(r, input, <<q>>)
    BY ArriveShape
  <2>2. up /\ UNCHANGED <<db, reply, faults, lifecycle>>
    BY <2>1 DEF Arrives
  <2>3. QED
    BY <2>2 DEF db, lifecycle
<1>2. Recoverable(blocks[l]) /\ InStep(blocks[l], chain[l], queue, InsertBlockStmt(l))
  BY <1>1 DEF TablesInv, LedgerInv
<1>3. CASE HackArrives(r)
  BY <1>1, <1>2, <1>3, HackTables DEF LedgerInv
<1>4. CASE ~HackArrives(r)
  <2>1. PICK stmt \in Statements : queue' = queue \o <<Query(r, stmt, NULL)>>
    BY <1>4, ArriveSaves
  <2> DEFINE q == Query(r, stmt, NULL)
  <2>2. q \in Queries /\ q.stmt # InsertBlockStmt(l)
    BY QueryType DEF Query, Statements, InsertBlockStmt
  <2>3. queue' = queue \o <<q>> /\ queue \in Seq(Queries)
    BY <2>1 DEF TypeInv, TypeOK, MemoryOK
  <2> HIDE DEF q
  <2>4. <<q>> \in Seq(Queries) /\ SavesNone(<<q>>, l)
    BY <2>2, SavesNoneStatement
  <2>5. InStep(blocks[l], chain[l], queue', InsertBlockStmt(l))
    BY <1>2, <2>3, <2>4, IssuedElsewhere
  <2>6. QED
    BY <1>1, <1>2, <1>4, <2>5, ArriveChain DEF LedgerInv
<1>5. QED
  BY <1>3, <1>4

\* The process ends: its last statement is in the tables, or is not.
LEMMA EndTables ==
    ASSUME NobodyResets, TypeInv, HandlersInv, TablesInv, up, ProcessEnds,
           UNCHANGED db \/ (queue # <<>> /\ Perform(Head(queue)))
    PROVE  TablesInv'
<1> SUFFICES ASSUME faults' = 0, NEW l \in Ledgers PROVE Recoverable(blocks'[l])
  BY DEF TablesInv, LedgerInv, ProcessEnds
<1>1. LedgerInv(l)
  BY DEF TablesInv, ProcessEnds
<1>2. CASE UNCHANGED db
  BY <1>1, <1>2 DEF LedgerInv, db
<1>3. CASE queue # <<>> /\ Perform(Head(queue))
  BY <1>1, <1>3, NoReset, HeadStored
<1>4. QED
  BY <1>2, <1>3

\* A chain that is loaded from its table is the table.
LEMMA LoadedInStep ==
    ASSUME NEW table \in Seq(Blocks), Chained(table), NEW stmt
    PROVE  InStep(table, table, <<>>, stmt)
<1>1. 1..Len(<<>>) = {} /\ Len(table) \in Nat
  BY EmptySeq
<1>2. \A k \in 1..Len(table) : ~(k > Len(table))
  BY <1>1
<1>3. QED
  BY <1>1, <1>2 DEF InStep, AllMinted, Behind

LEMMA RestartTables ==
    ASSUME TypeInv, TablesInv, Restart
    PROVE  TablesInv'
<1> SUFFICES ASSUME faults' = 0, NEW l \in Ledgers PROVE LedgerInv(l)'
  BY DEF TablesInv
<1>1. \A k \in Ledgers : Recoverable(blocks[k]) /\ blocks[k] \in Seq(Blocks)
  BY DEF Restart, TablesInv, LedgerInv, TypeInv, TypeOK, TablesOK
<1>2. \A k \in Ledgers : TablesAfterBoot[k] = blocks[k] /\ blocks'[k] = blocks[k]
  BY <1>1 DEF Restart, TablesAfterBoot, Recoverable
<1>3. PICK v \in LoadOrders(TablesAfterBoot[VoteLedger]),
           a \in LoadOrders(TablesAfterBoot[AuditLedger]) :
               chain' = [k \in Ledgers |-> IF k = VoteLedger THEN v ELSE a]
  BY DEF Restart
<1>4. v = blocks[VoteLedger] /\ a = blocks[AuditLedger]
  BY <1>1, <1>2, LoadsInOrder DEF Recoverable, Ledgers
<1>5. chain'[l] = blocks[l]
  BY <1>3, <1>4 DEF Ledgers
<1>6. queue' = <<>>
  BY DEF Restart, TypeInv, ChainsLoaded
<1>7. QED
  BY <1>1, <1>2, <1>5, <1>6, LoadedInStep DEF LedgerInv, Recoverable

LEMMA StartTables ==
    ASSUME NEW registered \in SUBSET Users, InitWith(registered)
    PROVE  TablesInv
<1>1. \A l \in Ledgers : blocks[l] = <<BootGenesis>> /\ chain[l] = <<BootGenesis>>
  BY DEF InitWith
<1>2. BootGenesis \in Blocks /\ BootGenesis.index = 0
  BY GenesisType, GenesisSound DEF BootGenesis, Timestamps
<1>3. <<BootGenesis>> \in Seq(Blocks) /\ <<BootGenesis>> # <<>>
  BY <1>2
<1>4. Recoverable(<<BootGenesis>>)
  BY <1>2, <1>3, ChainedGenesis DEF Recoverable
<1>5. queue = <<>>
  BY DEF InitWith
<1>6. QED
  <2>1. \A stmt : InStep(<<BootGenesis>>, <<BootGenesis>>, <<>>, stmt)
    BY <1>3, <1>4, LoadedInStep DEF Recoverable
  <2>2. QED
    BY <1>1, <1>4, <1>5, <2>1 DEF TablesInv, LedgerInv

LEMMA InitTables == Init => TablesInv
BY StartTables DEF Init

LEMMA NextTables ==
    NobodyResets /\ TypeInv /\ HandlersInv /\ TablesInv /\ [Next]_vars => TablesInv'
<1> SUFFICES ASSUME NobodyResets, TypeInv, HandlersInv, TablesInv, [Next]_vars
             PROVE  TablesInv'
  OBVIOUS
<1>1. ASSUME NEW r \in Requests, Arrive(r) PROVE TablesInv'
  BY <1>1, ArriveTables
<1>2. ASSUME NEW r \in Requests, Serve(r) PROVE TablesInv'
  BY <1>2, ServeTables
<1>3. ASSUME NEW r \in Requests, FatalError(r) PROVE TablesInv'
  BY <1>3, EndTables DEF FatalError
<1>4. CASE Crash
  BY <1>4, EndTables DEF Crash
<1>5. CASE Restart
  BY <1>5, RestartTables
<1>6. CASE UNCHANGED vars
  <2>1. /\ blocks' = blocks /\ chain' = chain /\ queue' = queue /\ up' = up
        /\ faults' = faults
    BY <1>6 DEF vars, shared, memory, db
  <2>2. QED
    BY <2>1 DEF TablesInv, LedgerInv
<1>7. QED
  BY <1>1, <1>2, <1>3, <1>4, <1>5, <1>6 DEF Next

LEMMA TablesInvariant == NobodyResets /\ Spec => [](TypeInv /\ TablesInv)
<1>1. NobodyResets /\ TypeInv /\ HandlersInv /\ TablesInv /\ [Next]_vars => TablesInv'
  BY NextTables
<1>2. NobodyResets => NobodyResets'
  BY DEF NobodyResets
<1>3. QED
  BY <1>1, <1>2, InitTables, HandlersInvariant, PTL DEF Spec

\* Without resets and failing statements the table of a ledger is the beginning
\* of the chain in memory and the statements under way carry the rest of it, in
\* order: for any requests that overlap, tampering ones too, and across kills
\* and restarts.
THEOREM MemoryRunsAhead == NobodyResets /\ Spec => []WriteBehind
<1>1. ASSUME TypeInv, TablesInv, up, faults = 0, NEW l \in Ledgers
      PROVE  LET saved == DOMAIN blocks[l]
                 kept  == DOMAIN chain[l]
             IN  /\ saved \subseteq kept
                 /\ \A k \in saved : chain[l][k].hash = blocks[l][k].hash
                 /\ \A k \in kept \ saved : \E i \in Saves(l) :
                       /\ queue[i].block.index = k - 1
                       /\ queue[i].block.hash = chain[l][k].hash
                 /\ \A i \in Saves(l) : queue[i].block.index + 1 \in kept \ saved
                 /\ \A i, j \in Saves(l) : i < j => queue[i].block.index < queue[j].block.index
  <2> DEFINE table == blocks[l]
             kept  == chain[l]
             stmt  == InsertBlockStmt(l)
  <2>1. /\ table \in Seq(Blocks) /\ DOMAIN table = 1..Len(table) /\ Len(table) \in Nat
        /\ kept \in Seq(Blocks) /\ DOMAIN kept = 1..Len(kept) /\ Len(kept) \in Nat
        /\ queue \in Seq(Queries) /\ DOMAIN queue = 1..Len(queue)
    BY <1>1 DEF TypeInv, TypeOK, TablesOK, MemoryOK
  <2>2. Behind(table, kept, queue, stmt)
    BY <1>1 DEF TablesInv, LedgerInv, InStep
  <2>3. \A i : i \in Saves(l) <=> i \in 1..Len(queue) /\ queue[i].stmt = stmt
    BY <2>1 DEF Saves
  <2> HIDE DEF table, kept, stmt
  <2>4. /\ DOMAIN table \subseteq DOMAIN kept
        /\ \A k \in DOMAIN table : kept[k].hash = table[k].hash
    BY <2>1, <2>2 DEF Behind
  <2>5. \A i \in Saves(l) : Carries(queue[i].block, table, kept)
    BY <2>2, <2>3 DEF Behind
  <2>6. ASSUME NEW i \in Saves(l)
        PROVE  queue[i].block.index + 1 \in DOMAIN kept \ DOMAIN table
    BY <2>1, <2>5 DEF Carries
  <2>7. ASSUME NEW k \in DOMAIN kept \ DOMAIN table
        PROVE  \E i \in Saves(l) : /\ queue[i].block.index = k - 1
                                   /\ queue[i].block.hash = kept[k].hash
    <3>1. k \in 1..Len(kept) /\ k > Len(table) /\ (k - 1) + 1 = k
      BY <2>1
    <3>2. PICK i \in Saves(l) : queue[i].block.index = k - 1
      BY <2>2, <2>3, <3>1 DEF Behind
    <3>3. queue[i].block.hash = kept[k].hash
      BY <2>5, <3>1, <3>2 DEF Carries
    <3>4. QED
      BY <3>2, <3>3
  <2>8. \A i, j \in Saves(l) : i < j => queue[i].block.index < queue[j].block.index
    BY <2>2, <2>3 DEF Behind
  <2>9. QED
    BY <2>4, <2>6, <2>7, <2>8 DEF table, kept
<1>2. TypeInv /\ TablesInv => WriteBehind
  BY <1>1 DEF WriteBehind
<1>3. QED
  BY <1>2, TablesInvariant, PTL

\* So whenever the process is killed, what it has left in the tables is a valid
\* chain with every block at its index.
THEOREM TablesRecover == NobodyResets /\ Spec => []RecoverableLedgers
<1>1. TypeInv /\ TablesInv => RecoverableLedgers
  BY ValidChain DEF TablesInv, LedgerInv, Recoverable, RecoverableLedgers, TypeInv, TypeOK, TablesOK
<1>2. QED
  BY <1>1, TablesInvariant, PTL

(***************************************************************************)
(* The audit log: what recordAuditLog leaves in its two tables.            *)
(***************************************************************************)
\* The row of audit_ledger_blocks that a record of request r leads to.
Named(index, r) ==
    \E i \in 1..Len(blocks[AuditLedger]) :
        /\ blocks[AuditLedger][i].index = index
        /\ blocks[AuditLedger][i].data = AuditData(r)

NamesItsBlock ==
    \A a \in audit_logs : a.block_index # NULL => Named(a.block_index, a.req)

IndicesUnique ==
    \A i, j \in 1..Len(blocks[AuditLedger]) :
        blocks[AuditLedger][i].index = blocks[AuditLedger][j].index => i = j

\* The two statements of recordAuditLog: a block to store records its request,
\* and a record that is to name a block finds it stored.
AuditStatement(q) ==
    /\ q.stmt = InsertBlockStmt(AuditLedger) => q.block.data = AuditData(q.req)
    /\ q.stmt = "INSERT audit_logs" /\ q.block # NULL => Named(q.block.index, q.req)

AuditInv ==
    /\ NamesItsBlock
    /\ IndicesUnique
    /\ \A i \in 1..Len(queue) : AuditStatement(queue[i])

\* Rows that were named stay named.
StillNamed == \A index, r : Named(index, r) => Named(index, r)'

AuditTableUnchanged == blocks'[AuditLedger] = blocks[AuditLedger]

LEMMA UnchangedTable ==
    ASSUME AuditInv, AuditTableUnchanged, audit_logs' = audit_logs
    PROVE  StillNamed /\ NamesItsBlock' /\ IndicesUnique'
<1>1. StillNamed
  BY DEF StillNamed, Named, AuditTableUnchanged
<1>2. NamesItsBlock'
  BY <1>1 DEF StillNamed, NamesItsBlock, AuditInv
<1>3. IndicesUnique'
  BY DEF IndicesUnique, AuditInv, AuditTableUnchanged
<1>4. QED
  BY <1>1, <1>2, <1>3

\* The statement that stores an audit block.
LEMMA AuditBlockStored ==
    ASSUME TypeInv, AuditInv, NEW b \in Blocks, NEW r,
           b.data = AuditData(r),
           \A i \in 1..Len(blocks[AuditLedger]) : blocks[AuditLedger][i].index # b.index,
           blocks' = [blocks EXCEPT ![AuditLedger] = Append(@, b)],
           audit_logs' = audit_logs
    PROVE  StillNamed /\ NamesItsBlock' /\ IndicesUnique' /\ Named(b.index, r)'
<1> DEFINE old == blocks[AuditLedger]
           new == blocks'[AuditLedger]
<1>1. old \in Seq(Blocks) /\ new = Append(old, b)
  BY DEF TypeInv, TypeOK, TablesOK, Ledgers
<1>2. /\ Len(new) = Len(old) + 1 /\ Len(old) \in Nat
      /\ \A i \in 1..Len(old) : new[i] = old[i]
      /\ new[Len(old) + 1] = b
  BY <1>1, AppendProperties
<1>3. \A i \in 1..Len(old) : old[i].index # b.index
  OBVIOUS
<1>4. \A i, j \in 1..Len(old) : old[i].index = old[j].index => i = j
  BY DEF AuditInv, IndicesUnique
<1>5. StillNamed
  BY <1>2 DEF StillNamed, Named
<1>6. NamesItsBlock'
  BY <1>5 DEF StillNamed, NamesItsBlock, AuditInv
<1>7. Named(b.index, r)'
  BY <1>2 DEF Named
<1> HIDE DEF old, new
<1>8. \A i, j \in 1..Len(new) : new[i].index = new[j].index => i = j
  <2>1. \A i \in 1..Len(new) : i \in 1..Len(old) \/ i = Len(old) + 1
    BY <1>2
  <2>2. QED
    BY <1>2, <1>3, <1>4, <2>1
<1>9. IndicesUnique'
  BY <1>8 DEF IndicesUnique, new
<1>10. QED
  BY <1>5, <1>6, <1>7, <1>9

\* A statement of the queue that the database performs.
LEMMA PerformAudit ==
    ASSUME TypeInv, AuditInv, NEW q \in Queries, AuditStatement(q),
           Perform(q), ~Rejected(q)
    PROVE  /\ StillNamed /\ NamesItsBlock' /\ IndicesUnique'
           /\ q.stmt = InsertBlockStmt(AuditLedger) => Named(q.block.index, q.req)'
<1> USE DEF InsertBlockStmt, VoteLedger, AuditLedger
<1>1. CASE /\ AuditTableUnchanged
           /\ audit_logs' = audit_logs
           /\ q.stmt # InsertBlockStmt(AuditLedger)
  BY <1>1, UnchangedTable
<1>2. blocks \in [Ledgers -> Seq(Blocks)]
  BY DEF TypeInv, TypeOK, TablesOK
<1>3. CASE Read(q)
  BY <1>1, <1>3 DEF Read, db, AuditTableUnchanged
<1>4. CASE InsertVote(q)
  BY <1>1, <1>4 DEF InsertVote, AuditTableUnchanged
<1>5. CASE DeleteVotes(q)
  BY <1>1, <1>5 DEF DeleteVotes, AuditTableUnchanged
<1>6. CASE UpdateFlag(q)
  BY <1>1, <1>6 DEF UpdateFlag, AuditTableUnchanged
<1>7. CASE UpdateKeys(q)
  BY <1>1, <1>7 DEF UpdateKeys, AuditTableUnchanged
<1>8. CASE DeleteUser(q)
  BY <1>1, <1>8 DEF DeleteUser, AuditTableUnchanged
<1>9. CASE UpdateIsOpen(q)
  BY <1>1, <1>9 DEF UpdateIsOpen, AuditTableUnchanged
<1>10. CASE DeleteBlocks(q)
  BY <1>1, <1>2, <1>10 DEF DeleteBlocks, AuditTableUnchanged, Ledgers
<1>11. CASE SaveBlock(q)
  <2>1. PICK l \in Ledgers :
            /\ q.stmt = InsertBlockStmt(l)
            /\ blocks' = [blocks EXCEPT ![l] = Append(@, q.block)]
            /\ UNCHANGED <<users, votes, settings, audit_logs>>
    BY <1>11 DEF SaveBlock
  <2>2. CASE l = VoteLedger
    BY <1>1, <1>2, <2>1, <2>2 DEF AuditTableUnchanged, Ledgers
  <2>3. CASE l = AuditLedger
    <3>1. q.stmt = InsertBlockStmt(AuditLedger)
      BY <2>1, <2>3
    <3>2. q.block \in Blocks
      BY <3>1 DEF Queries, Statements
    <3>3. q.block.data = AuditData(q.req)
      BY <3>1 DEF AuditStatement
    <3>4. \A i \in 1..Len(blocks[AuditLedger]) : blocks[AuditLedger][i].index # q.block.index
      <4>1. blocks[AuditLedger] \in Seq(Blocks)
        BY <1>2 DEF Ledgers
      <4>2. DOMAIN blocks[AuditLedger] = 1..Len(blocks[AuditLedger])
        BY <4>1, LenProperties
      <4>3. QED
        BY <3>1, <4>2 DEF Rejected
    <3>5. blocks' = [blocks EXCEPT ![AuditLedger] = Append(@, q.block)] /\ audit_logs' = audit_logs
      BY <2>1, <2>3
    <3>6. QED
      BY <3>2, <3>3, <3>4, <3>5, AuditBlockStored
  <2>4. QED
    BY <2>2, <2>3 DEF Ledgers
<1>12. CASE InsertAuditLog(q)
  <2> DEFINE index == IF q.block = NULL THEN NULL ELSE q.block.index
             row   == [req |-> q.req, block_index |-> index]
  <2>1. audit_logs' = audit_logs \cup {row} /\ blocks' = blocks
    BY <1>12 DEF InsertAuditLog
  <2>2. index # NULL => Named(index, q.req)
    BY <1>12 DEF AuditStatement, InsertAuditLog
  <2>3. row.req = q.req /\ row.block_index = index
    OBVIOUS
  <2> HIDE DEF index, row
  <2>4. StillNamed
    BY <2>1 DEF StillNamed, Named
  <2>5. NamesItsBlock'
    BY <2>1, <2>2, <2>3, <2>4 DEF NamesItsBlock, StillNamed, AuditInv
  <2>6. IndicesUnique'
    BY <2>1 DEF IndicesUnique, AuditInv
  <2>7. QED
    BY <1>12, <2>4, <2>5, <2>6 DEF InsertAuditLog
<1>13. QED
  BY <1>3, <1>4, <1>5, <1>6, <1>7, <1>8, <1>9, <1>10, <1>11, <1>12 DEF Perform

\* The tables after a statement of a handler, whether it succeeds or not.
LEMMA AuditTables ==
    ASSUME TypeInv, AuditInv, NEW r, NEW stmt, Succeeds(r, stmt) \/ Fails(r, stmt)
    PROVE  /\ StillNamed /\ NamesItsBlock' /\ IndicesUnique'
           /\ \A b : Succeeds(r, InsertBlockStmt(AuditLedger)) /\ b = Head(queue).block
                       => Named(b.index, r)'
<1>1. /\ queue # <<>> /\ Head(queue).req = r /\ Head(queue).stmt = stmt
      /\ Head(queue) \in Queries
  BY StatementType, HeadUnderway DEF Underway
<1>2. AuditStatement(Head(queue))
  <2>1. queue \in Seq(Queries)
    BY DEF TypeInv, TypeOK, MemoryOK
  <2>2. 1 \in 1..Len(queue) /\ Head(queue) = queue[1]
    BY <1>1, <2>1, EmptySeq
  <2>3. QED
    BY <2>2 DEF AuditInv
<1>3. CASE Succeeds(r, stmt)
  <2> DEFINE q == Head(queue)
  <2>1. q \in Queries /\ AuditStatement(q) /\ Perform(q) /\ ~Rejected(q) /\ q.req = r
    BY <1>1, <1>2, <1>3 DEF Succeeds
  <2>2. Succeeds(r, InsertBlockStmt(AuditLedger)) => q.stmt = InsertBlockStmt(AuditLedger)
    BY DEF Succeeds, Executes
  <2> HIDE DEF q
  <2>3. PICK p : p = q
    OBVIOUS
  <2>4. /\ StillNamed /\ NamesItsBlock' /\ IndicesUnique'
        /\ p.stmt = InsertBlockStmt(AuditLedger) => Named(p.block.index, p.req)'
    BY <2>1, <2>3, PerformAudit
  <2>5. QED
    BY <2>1, <2>2, <2>3, <2>4 DEF q
<1>4. CASE ~Succeeds(r, stmt)
  <2>1. UNCHANGED db
    BY <1>4 DEF Fails
  <2>2. StillNamed /\ NamesItsBlock' /\ IndicesUnique'
    BY <2>1, UnchangedTable DEF db, AuditTableUnchanged
  <2>3. ~Succeeds(r, InsertBlockStmt(AuditLedger))
    BY <1>1, <1>4 DEF Succeeds, Executes
  <2>4. QED
    BY <2>2, <2>3
<1>5. QED
  BY <1>3, <1>4

(***************************************************************************)
(* The statements a callback issues.                                       *)
(***************************************************************************)
\* A handler that asks for a record leaves a statement for the block of its
\* own request.
LEMMA NewBlockData ==
    ASSUME NEW c, NEW t, NEW d, NEW k
    PROVE  NewBlock(c, t, d, k).data = d
BY DEF NewBlock, Link, Block

\* The callbacks that are not about audit blocks issue none of the two
\* statements.
LEMMA OtherStatement ==
    ASSUME NEW r, NEW stmt, NEW block,
           stmt \notin {InsertBlockStmt(AuditLedger), "INSERT audit_logs"}
    PROVE  AuditStatement(Query(r, stmt, block))'
BY DEF AuditStatement, Query

LEMMA AuditBlockStatement ==
    ASSUME NEW r, NEW b, b.data = AuditData(r)
    PROVE  AuditStatement(Query(r, InsertBlockStmt(AuditLedger), b))'
BY DEF AuditStatement, Query, InsertBlockStmt, VoteLedger, AuditLedger

\* What the callbacks have in common.
IssuesAuditStatements ==
    \E qs \in Seq(Queries) :
        /\ Issue(qs)
        /\ \A j \in 1..Len(qs) : \A q : q = qs[j] => AuditStatement(q)'

LEMMA IssuesOne ==
    ASSUME NEW q \in Queries, AuditStatement(q)', Issue(<<q>>)
    PROVE  IssuesAuditStatements
<1>1. <<q>> \in Seq(Queries) /\ Len(<<q>>) = 1 /\ <<q>>[1] = q
  OBVIOUS
<1>2. \A j \in 1..Len(<<q>>) : j = 1
  BY <1>1
<1>3. QED
  BY <1>1, <1>2 DEF IssuesAuditStatements

LEMMA IssuesNone ==
    ASSUME Issue(<<>>)
    PROVE  IssuesAuditStatements
<1>1. <<>> \in Seq(Queries) /\ 1..Len(<<>>) = {}
  BY EmptySeq
<1>2. QED
  BY <1>1 DEF IssuesAuditStatements

LEMMA ProceedAudit ==
    ASSUME NEW r \in Requests, NEW stmt \in Statements, stmt # "INSERT audit_logs",
           Proceed(r, stmt, NULL)
    PROVE  IssuesAuditStatements
<1>1. Query(r, stmt, NULL) \in Queries
  BY QueryType
<1>2. AuditStatement(Query(r, stmt, NULL))'
  BY OtherStatement DEF Statements, InsertBlockStmt, VoteLedger, AuditLedger
<1>3. QED
  BY <1>1, <1>2, IssuesOne DEF Proceed

LEMMA AnswerAudit ==
    ASSUME NEW r, NEW message, Answer(r, message)
    PROVE  IssuesAuditStatements
BY IssuesNone DEF Answer

LEMMA RecordAuditLogAudit ==
    ASSUME TypeInv, up, NEW r \in Requests, RecordAuditLog(r)
    PROVE  IssuesAuditStatements
<1> DEFINE b == NextAuditBlock(r)
<1>1. b \in Blocks
  BY NextAuditBlockType
<1>2. b.data = AuditData(r)
  BY NewBlockData DEF NextAuditBlock
<1>3. Issue(<<Query(r, InsertBlockStmt(AuditLedger), b)>>)
  BY DEF RecordAuditLog, AddBlock
<1> HIDE DEF b
<1>4. QED
  <2>1. PICK x : x = b
    OBVIOUS
  <2>2. AuditStatement(Query(r, InsertBlockStmt(AuditLedger), x))'
    BY <1>2, <2>1, AuditBlockStatement
  <2>3. QED
    BY <1>1, <1>3, <2>1, <2>2, QueryType, IssuesOne DEF Ledgers

\* Two blocks in one callback, or a statement without one.
LEMMA FlagSetAudit ==
    ASSUME TypeInv, up, NEW r \in Requests, FlagSet(r)
    PROVE  IssuesAuditStatements
<1> DEFINE b      == NextVoteBlock(r)
           insert == Query(r, InsertBlockStmt(VoteLedger), b)
           update == Query(r, "UPDATE keys", NULL)
<1>1. Issue(IF req[r].key = NULL THEN <<update, insert>> ELSE <<insert>>)
  BY DEF FlagSet
<1>2. b \in Blocks
  BY NextVoteBlockType DEF FlagSet
<1> HIDE DEF b
<1>3. insert \in Queries /\ update \in Queries
  BY <1>2, QueryType DEF Ledgers, Statements
<1>4. insert.stmt = "INSERT blockchain" /\ update.stmt = "UPDATE keys"
  BY DEF Query, InsertBlockStmt, VoteLedger
<1> HIDE DEF insert, update
<1>5. \A q : q \in {insert, update} => AuditStatement(q)'
  BY <1>4 DEF AuditStatement, InsertBlockStmt, VoteLedger, AuditLedger
<1>6. CASE req[r].key = NULL
  <2> DEFINE qs == <<update, insert>>
  <2>1. qs \in Seq(Queries) /\ Len(qs) = 2 /\ qs[1] = update /\ qs[2] = insert
    BY <1>3
  <2>2. Issue(qs)
    BY <1>1, <1>6
  <2> HIDE DEF qs
  <2>3. \A j \in 1..Len(qs) : qs[j] \in {insert, update}
    BY <2>1
  <2>4. QED
    BY <1>5, <2>1, <2>2, <2>3 DEF IssuesAuditStatements
<1>7. CASE req[r].key # NULL
  <2> DEFINE qs == <<insert>>
  <2>1. qs \in Seq(Queries) /\ Len(qs) = 1 /\ qs[1] = insert
    BY <1>3
  <2>2. Issue(qs)
    BY <1>1, <1>7
  <2> HIDE DEF qs
  <2>3. \A j \in 1..Len(qs) : qs[j] \in {insert, update}
    BY <2>1
  <2>4. QED
    BY <1>5, <2>1, <2>2, <2>3 DEF IssuesAuditStatements
<1>8. QED
  BY <1>6, <1>7

LEMMA CastVoteAudit ==
    ASSUME TypeInv, up, NEW r \in Requests, CastVote(r)
    PROVE  IssuesAuditStatements
<1>1. CASE CheckSettings(r)
  BY <1>1, ProceedAudit, AnswerAudit DEF CheckSettings, Statements
<1>2. CASE CheckSudahVote(r)
  BY <1>2, ProceedAudit, AnswerAudit DEF CheckSudahVote, Statements
<1>3. CASE CheckCandidate(r)
  BY <1>3, ProceedAudit, AnswerAudit DEF CheckCandidate, Statements
<1>4. CASE VoteSaved(r)
  BY <1>4, ProceedAudit DEF VoteSaved, Statements
<1>5. CASE CheckFails(r) \/ VoteNotSaved(r) \/ FlagNotSet(r) \/ VoteBlockLost(r)
  BY <1>5, AnswerAudit DEF CheckFails, VoteNotSaved, FlagNotSet, VoteBlockLost
<1>6. CASE FlagSet(r)
  BY <1>6, FlagSetAudit
<1>7. CASE KeysSaved(r)
  BY <1>7, IssuesNone DEF KeysSaved
<1>8. CASE VoteBlockSaved(r)
  BY <1>8, RecordAuditLogAudit DEF VoteBlockSaved
<1>9. QED
  BY <1>1, <1>2, <1>3, <1>4, <1>5, <1>6, <1>7, <1>8 DEF CastVote

LEMMA UserAdminAudit ==
    ASSUME TypeInv, up, NEW r \in Requests, UserAdmin(r)
    PROVE  IssuesAuditStatements
<1>1. CASE UserDeleted(r)
  BY <1>1, RecordAuditLogAudit DEF UserDeleted
<1>2. CASE VotesDeleted(r)
  BY <1>2, ProceedAudit DEF VotesDeleted, Statements
<1>3. CASE FlagsCleared(r)
  BY <1>3, ProceedAudit, RecordAuditLogAudit DEF FlagsCleared, Statements
<1>4. CASE UserNotDeleted(r) \/ VotesNotDeleted(r) \/ FlagsNotCleared(r) \/ ResetChainFails(r)
  BY <1>4, AnswerAudit DEF UserNotDeleted, VotesNotDeleted, FlagsNotCleared, ResetChainFails
<1>5. CASE BlocksDeleted(r)
  <2>1. Query(r, InsertBlockStmt(VoteLedger), GenesisBlock(r)) \in Queries
    BY QueryType, GenesisType DEF Ledgers, Timestamps
  <2>2. AuditStatement(Query(r, InsertBlockStmt(VoteLedger), GenesisBlock(r)))'
    BY OtherStatement DEF InsertBlockStmt, VoteLedger, AuditLedger
  <2>3. QED
    BY <1>5, <2>1, <2>2, IssuesOne DEF BlocksDeleted, Proceed
<1>6. CASE GenesisSaved(r)
  <2> DEFINE b == NextAuditBlock(r)
  <2>1. b \in Blocks /\ b.data = AuditData(r)
    BY NextAuditBlockType, NewBlockData DEF NextAuditBlock
  <2>2. Issue(<<Query(r, InsertBlockStmt(AuditLedger), b)>>)
    BY <1>6 DEF GenesisSaved
  <2> HIDE DEF b
  <2>3. PICK x : x = b
    OBVIOUS
  <2>4. AuditStatement(Query(r, InsertBlockStmt(AuditLedger), x))'
    BY <2>1, <2>3, AuditBlockStatement
  <2>5. QED
    BY <2>1, <2>2, <2>3, <2>4, QueryType, IssuesOne DEF Ledgers
<1>7. QED
  BY <1>1, <1>2, <1>3, <1>4, <1>5, <1>6 DEF UserAdmin

LEMMA SettingsAdminAudit ==
    ASSUME TypeInv, up, NEW r \in Requests, SettingsAdmin(r)
    PROVE  IssuesAuditStatements
<1>1. CASE StatusRead(r)
  <2>1. PICK next \in {"CLEAR is_open", "SET is_open"} : Proceed(r, next, NULL)
    BY <1>1 DEF StatusRead
  <2>2. QED
    BY <2>1, ProceedAudit DEF Statements
<1>2. CASE StatusUpdated(r)
  BY <1>2, RecordAuditLogAudit DEF StatusUpdated
<1>3. CASE StatusNotRead(r) \/ StatusNotUpdated(r)
  BY <1>3, AnswerAudit DEF StatusNotRead, StatusNotUpdated
<1>4. QED
  BY <1>1, <1>2, <1>3 DEF SettingsAdmin

\* The record names the block that the statement before it has stored.
LEMMA RecordAuditAudit ==
    ASSUME TypeInv, AuditInv, up, NEW r \in Requests, RecordAudit(r)
    PROVE  IssuesAuditStatements
<1>1. CASE AuditBlockSaved(r)
  <2>1. Succeeds(r, InsertBlockStmt(AuditLedger))
    BY <1>1 DEF AuditBlockSaved
  <2>2. PICK b : b = Head(queue).block
    OBVIOUS
  <2>3. Named(b.index, r)'
    BY <2>1, <2>2, AuditTables
  <2>4. b \in Blocks \cup {NULL}
    BY <2>1, <2>2, StatementType, HeadUnderway DEF Underway, Queries
  <2>5. Query(r, "INSERT audit_logs", b) \in Queries
    BY <2>4, QueryType DEF Statements
  <2>6. AuditStatement(Query(r, "INSERT audit_logs", b))'
    BY <2>3 DEF AuditStatement, Query, InsertBlockStmt, VoteLedger, AuditLedger
  <2>7. QED
    BY <1>1, <2>2, <2>5, <2>6, IssuesOne DEF AuditBlockSaved, Proceed
<1>2. CASE AuditBlockLost(r)
  <2>1. Query(r, "INSERT audit_logs", NULL) \in Queries
    BY QueryType DEF Statements
  <2>2. AuditStatement(Query(r, "INSERT audit_logs", NULL))'
    BY DEF AuditStatement, Query, InsertBlockStmt, VoteLedger, AuditLedger
  <2>3. QED
    BY <1>2, <2>1, <2>2, IssuesOne DEF AuditBlockLost, Proceed
<1>3. CASE AuditLogSaved(r) \/ AuditLogLost(r)
  BY <1>3, AnswerAudit DEF AuditLogSaved, AuditLogLost
<1>4. QED
  BY <1>1, <1>2, <1>3 DEF RecordAudit

(***************************************************************************)
(* The steps of the server.                                                *)
(***************************************************************************)
LEMMA ServeAudit ==
    ASSUME TypeInv, AuditInv, NEW r \in Requests, Serve(r)
    PROVE  AuditInv'
<1>1. up /\ Callback(r)
  BY DEF Serve
<1>2. PICK stmt : Succeeds(r, stmt) \/ Fails(r, stmt)
  BY <1>1, CallbackStatement
<1>3. StillNamed /\ NamesItsBlock' /\ IndicesUnique'
  BY <1>2, AuditTables
<1>4. IssuesAuditStatements
  BY <1>1, CastVoteAudit, UserAdminAudit, SettingsAdminAudit, RecordAuditAudit DEF Callback
<1>5. PICK qs \in Seq(Queries) :
          Issue(qs) /\ \A j \in 1..Len(qs) : \A q : q = qs[j] => AuditStatement(q)'
  BY <1>4 DEF IssuesAuditStatements
<1>6. queue \in Seq(Queries) /\ queue # <<>>
  BY <1>2, StatementType DEF TypeInv, TypeOK, MemoryOK
<1>7. \A i \in 1..Len(queue') : \/ \E j \in 1..Len(queue) : queue'[i] = queue[j]
                               \/ \E j \in 1..Len(qs) : queue'[i] = qs[j]
  BY <1>5, <1>6, IssueElements
<1>8. \A q : AuditStatement(q) => AuditStatement(q)'
  BY <1>3 DEF AuditStatement, StillNamed
<1>9. ASSUME NEW i \in 1..Len(queue') PROVE AuditStatement(queue[i])'
  <2>1. PICK q : q = queue'[i]
    OBVIOUS
  <2>2. AuditStatement(q)'
    BY <1>5, <1>7, <1>8, <2>1 DEF AuditInv
  <2>3. QED
    BY <2>1, <2>2 DEF AuditStatement
<1>10. QED
  BY <1>3, <1>9 DEF AuditInv

LEMMA HackArrivesAudit ==
    ASSUME TypeInv, AuditInv, NEW r \in Requests, HackArrives(r)
    PROVE  \E q \in Queries : queue' = queue \o <<q>> /\ AuditStatement(q)'
<1> DEFINE b == NextAuditBlock(r)
<1>1. up /\ queue' = queue \o <<Query(r, InsertBlockStmt(AuditLedger), b)>>
  BY DEF HackArrives, Arrives
<1>2. b \in Blocks /\ b.data = AuditData(r)
  BY <1>1, NextAuditBlockType, NewBlockData DEF NextAuditBlock
<1> HIDE DEF b
<1>3. PICK x : x = b
  OBVIOUS
<1>4. AuditStatement(Query(r, InsertBlockStmt(AuditLedger), x))'
  BY <1>2, <1>3, AuditBlockStatement
<1>5. Query(r, InsertBlockStmt(AuditLedger), x) \in Queries
  BY <1>2, <1>3, QueryType DEF Ledgers
<1>6. QED
  BY <1>1, <1>3, <1>4, <1>5

LEMMA ArriveAudit ==
    ASSUME TypeInv, AuditInv, NEW r \in Requests, Arrive(r)
    PROVE  AuditInv'
<1>1. UNCHANGED db
  BY DEF Arrive, Arrives, CastVoteArrives, DeleteUserArrives, ResetUserVoteArrives,
         ResetAllArrives, ToggleArrives, HackArrives
<1>2. PICK q \in Queries : queue' = queue \o <<q>> /\ AuditStatement(q)'
  <2>1. ASSUME NEW stmt \in Statements, stmt # "INSERT audit_logs",
               queue' = queue \o <<Query(r, stmt, NULL)>>
        PROVE  \E q \in Queries : queue' = queue \o <<q>> /\ AuditStatement(q)'
    <3>1. Query(r, stmt, NULL) \in Queries
      BY QueryType
    <3>2. AuditStatement(Query(r, stmt, NULL))'
      BY <2>1, OtherStatement DEF Statements, InsertBlockStmt, VoteLedger, AuditLedger
    <3>3. QED
      BY <2>1, <3>1, <3>2
  <2>2. CASE CastVoteArrives(r)
    BY <2>1, <2>2 DEF CastVoteArrives, Arrives, Statements
  <2>3. CASE DeleteUserArrives(r)
    BY <2>1, <2>3 DEF DeleteUserArrives, Arrives, Statements
  <2>4. CASE ResetUserVoteArrives(r) \/ ResetAllArrives(r)
    BY <2>1, <2>4 DEF ResetUserVoteArrives, ResetAllArrives, Arrives, Statements
  <2>5. CASE ToggleArrives(r)
    BY <2>1, <2>5 DEF ToggleArrives, Arrives, Statements
  <2>6. CASE HackArrives(r)
    BY <2>6, HackArrivesAudit
  <2>7. QED
    BY <2>2, <2>3, <2>4, <2>5, <2>6 DEF Arrive
<1>3. StillNamed /\ NamesItsBlock' /\ IndicesUnique'
  BY <1>1, UnchangedTable DEF db, AuditTableUnchanged
<1>4. /\ \A i \in 1..Len(queue) : queue'[i] = queue[i]
      /\ \A i \in 1..Len(queue') : i \in 1..Len(queue) \/ queue'[i] = q
  BY <1>2, ArrivesElements DEF TypeInv, TypeOK, MemoryOK
<1>5. \A s : AuditStatement(s) => AuditStatement(s)'
  BY <1>3 DEF AuditStatement, StillNamed
<1>6. ASSUME NEW i \in 1..Len(queue') PROVE AuditStatement(queue[i])'
  <2>1. PICK s : s = queue'[i]
    OBVIOUS
  <2>2. AuditStatement(s)'
    BY <1>2, <1>4, <1>5, <2>1 DEF AuditInv
  <2>3. QED
    BY <2>1, <2>2 DEF AuditStatement
<1>7. QED
  BY <1>3, <1>6 DEF AuditInv

LEMMA ProcessEndsAudit ==
    ASSUME NamesItsBlock', IndicesUnique', ProcessEnds
    PROVE  AuditInv'
<1>1. queue' = <<>>
  BY DEF ProcessEnds
<1>2. 1..Len(queue') = {}
  BY <1>1, EmptySeq
<1>3. QED
  BY <1>2 DEF AuditInv

LEMMA CrashAudit ==
    ASSUME TypeInv, AuditInv, Crash
    PROVE  AuditInv'
<1>1. CASE UNCHANGED db
  BY <1>1, UnchangedTable, ProcessEndsAudit DEF Crash, db, AuditTableUnchanged
<1>2. CASE queue # <<>> /\ ~Rejected(Head(queue)) /\ Perform(Head(queue))
  <2>1. PICK q : q = Head(queue)
    OBVIOUS
  <2>2. q \in Queries
    BY <1>2, <2>1, HeadUnderway DEF Underway
  <2>3. 1 \in 1..Len(queue) /\ q = queue[1]
    <3>1. queue \in Seq(Queries)
      BY DEF TypeInv, TypeOK, MemoryOK
    <3>2. QED
      BY <1>2, <2>1, <3>1, EmptySeq
  <2>4. AuditStatement(q) /\ Perform(q) /\ ~Rejected(q)
    BY <1>2, <2>1, <2>3 DEF AuditInv
  <2>5. NamesItsBlock' /\ IndicesUnique'
    BY <2>2, <2>4, PerformAudit
  <2>6. QED
    BY <2>5, ProcessEndsAudit DEF Crash
<1>3. QED
  BY <1>1, <1>2 DEF Crash

LEMMA FatalErrorAudit ==
    ASSUME TypeInv, AuditInv, NEW r, FatalError(r)
    PROVE  AuditInv'
BY UnchangedTable, ProcessEndsAudit DEF FatalError, db, AuditTableUnchanged

\* A restart leaves a table alone that has rows, and an empty one named
\* nothing.
LEMMA RestartAudit ==
    ASSUME TypeInv, AuditInv, Restart
    PROVE  AuditInv'
<1>1. queue' = <<>> /\ 1..Len(queue') = {}
  <2>1. queue' = <<>>
    BY DEF Restart, TypeInv, ChainsLoaded
  <2>2. QED
    BY <2>1, EmptySeq
<1>2. audit_logs' = audit_logs /\ blocks' = TablesAfterBoot
  BY DEF Restart
<1>3. CASE blocks[AuditLedger] # <<>>
  <2>1. AuditTableUnchanged
    BY <1>2, <1>3 DEF AuditTableUnchanged, TablesAfterBoot, Ledgers
  <2>2. QED
    BY <1>1, <1>2, <2>1, UnchangedTable DEF AuditInv
<1>4. CASE blocks[AuditLedger] = <<>>
  <2>1. 1..Len(blocks[AuditLedger]) = {}
    BY <1>4, EmptySeq
  <2>2. \A a \in audit_logs : a.block_index = NULL
    BY <2>1 DEF AuditInv, NamesItsBlock, Named
  <2>3. blocks'[AuditLedger] = <<BootGenesis>>
    BY <1>2, <1>4 DEF TablesAfterBoot, Ledgers
  <2>4. \A i \in 1..Len(blocks'[AuditLedger]) : i = 1
    BY <2>3
  <2>5. QED
    BY <1>1, <1>2, <2>2, <2>4 DEF AuditInv, NamesItsBlock, IndicesUnique
<1>5. QED
  BY <1>3, <1>4

LEMMA InitAudit == Init => AuditInv
<1> SUFFICES ASSUME Init PROVE AuditInv
  OBVIOUS
<1>1. queue = <<>> /\ 1..Len(queue) = {}
  BY EmptySeq DEF Init, InitWith
<1>2. audit_logs = {} /\ blocks[AuditLedger] = <<BootGenesis>>
  BY DEF Init, InitWith, Ledgers
<1>3. \A i \in 1..Len(blocks[AuditLedger]) : i = 1
  BY <1>2
<1>4. QED
  BY <1>1, <1>2, <1>3 DEF AuditInv, NamesItsBlock, IndicesUnique

LEMMA NextAudit == TypeInv /\ AuditInv /\ [Next]_vars => AuditInv'
<1> SUFFICES ASSUME TypeInv, AuditInv, [Next]_vars PROVE AuditInv'
  OBVIOUS
<1>1. ASSUME NEW r \in Requests, Arrive(r) PROVE AuditInv'
  BY <1>1, ArriveAudit
<1>2. ASSUME NEW r \in Requests, Serve(r) PROVE AuditInv'
  BY <1>2, ServeAudit
<1>3. ASSUME NEW r \in Requests, FatalError(r) PROVE AuditInv'
  BY <1>3, FatalErrorAudit
<1>4. CASE Crash
  BY <1>4, CrashAudit
<1>5. CASE Restart
  BY <1>5, RestartAudit
<1>6. CASE UNCHANGED vars
  BY <1>6
     DEF vars, shared, db, memory, AuditInv, NamesItsBlock, Named, IndicesUnique, AuditStatement
<1>7. QED
  BY <1>1, <1>2, <1>3, <1>4, <1>5, <1>6 DEF Next

\* The index of a row of audit_logs leads to one row of audit_ledger_blocks,
\* which records the same request, whatever recordAuditLog loses to failing
\* statements, concurrent handlers and restarts.
THEOREM AuditLogsAreLinked == Spec => []AuditLogNamesItsBlock
<1>1. TypeInv /\ AuditInv => AuditLogNamesItsBlock
  <2> SUFFICES ASSUME TypeInv, AuditInv PROVE AuditLogNamesItsBlock
    OBVIOUS
  <2>1. DOMAIN blocks[AuditLedger] = 1..Len(blocks[AuditLedger])
    BY LenProperties DEF TypeInv, TypeOK, TablesOK, Ledgers
  <2>2. QED
    BY <2>1 DEF AuditInv, NamesItsBlock, Named, IndicesUnique, AuditLogNamesItsBlock
<1>2. QED
  BY InitType, NextType, InitAudit, NextAudit, <1>1, PTL DEF Spec
=============================================================================
