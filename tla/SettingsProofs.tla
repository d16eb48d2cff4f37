---------------------------- MODULE SettingsProofs ----------------------------
(***************************************************************************)
(* What hangs on the status of the election: toggles that do not overlap   *)
(* are counted, a vote enters only while it is open, and while it is open  *)
(* no block is made that creates, renames or switches a candidate, however *)
(* requests overlap each other, and whatever fails or is killed.           *)
(*                                                                         *)
(* The first half is about ElectionServer.  In the second half the queue   *)
(* holds statements of the candidate handlers too, and its invariant says  *)
(* no more of either than the lock needs.                                  *)
(***************************************************************************)
EXTENDS CandidateServer, HandlerProofs, FiniteSetTheorems

(***************************************************************************)
(* The inductive invariant.                                                *)
(***************************************************************************)
\* The status after these toggles.
OpenBy(flips) == InitiallyOpen <=> Cardinality(flips) % 2 = 0

\* The request waits for one of these statements.
Asks(q, r, stmts) == \E i \in 1..Len(q) : q[i].req = r /\ q[i].stmt \in stmts

WaitedFor(stmts) == "UPDATE keys" \notin stmts

Recording == {InsertBlockStmt(AuditLedger), "INSERT audit_logs"}
Voting    == {"SELECT sudah_vote", "SELECT candidate", "INSERT votes"}

Asked == {r \in Requests : req[r] # NULL}

Calm == TogglesApart /\ \A r \in Toggles : reply[r] # "connection lost"

\* A toggle has flipped the status when its UPDATE is done, two statements
\* before its client hears of it.
Flipped == {r \in Toggles : reply[r] = "ok" \/ Asks(queue, r, Recording)}

\* The value a toggle is about to write is not the one it will find.
Deciding ==
    \A r \in Toggles :
        /\ Asks(queue, r, {"SET is_open"}) => ~settings.is_open
        /\ Asks(queue, r, {"CLEAR is_open"}) => settings.is_open

StatusInv == (settings.is_open <=> OpenBy(Flipped)) /\ Deciding

\* castVote has passed its check of the status.
Entered(r) == Stored(r) \/ Asks(queue, r, Voting)

AwayFromToggles(r) == \A t \in Toggles : Apart(r, t)

EnteredOpen ==
    \A r \in Requests :
        Sent(r, "castVote") /\ AwayFromToggles(r) /\ Entered(r)
            => OpenAfter(Toggles \cap req[r].after)

SettingsInv ==
    /\ IsFiniteSet(Asked)
    /\ \A v \in votes : req[v.req] # NULL
    /\ Calm => StatusInv /\ EnteredOpen

(***************************************************************************)
(* Lemmas on flips, on the queue and on what stays as it is.               *)
(***************************************************************************)
LEMMA OneMoreFlip ==
    ASSUME NEW S, IsFiniteSet(S), NEW t, t \notin S
    PROVE  OpenBy(S \cup {t}) <=> ~OpenBy(S)
<1>1. Cardinality(S) \in Nat /\ Cardinality(S \cup {t}) = Cardinality(S) + 1
  BY FS_CardinalityType, FS_AddElement
<1>2. \A n \in Nat : (n + 1) % 2 = 0 <=> ~(n % 2 = 0)
  OBVIOUS
<1>3. Cardinality(S \cup {t}) % 2 = 0 <=> ~(Cardinality(S) % 2 = 0)
  BY <1>1, <1>2
<1>4. InitiallyOpen \in BOOLEAN
  BY ServerAssumption
<1>5. QED
  BY <1>3, <1>4 DEF OpenBy

LEMMA AsksOther ==
    ASSUME queue \in Seq(Queries), queue # <<>>, NEW qs \in Seq(Queries), Issue(qs),
           NEW r, Head(queue).req = r, \A j \in 1..Len(qs) : qs[j].req = r,
           NEW t, t # r, NEW stmts
    PROVE  Asks(queue', t, stmts) <=> Asks(queue, t, stmts)
<1>1. /\ Len(queue) \in Nat \ {0} /\ Head(queue) = queue[1]
      /\ Len(queue') = Len(queue) - 1 + Len(qs) /\ Len(qs) \in Nat
      /\ \A i \in 1..Len(queue) - 1 : queue'[i] = queue[i + 1]
  BY IssueIndices
<1>2. \A i \in 1..Len(queue') :
          \/ \E k \in 1..Len(queue) : k # 1 /\ i = k - 1 /\ queue'[i] = queue[k]
          \/ \E j \in 1..Len(qs) : i = Len(queue) - 1 + j /\ queue'[i] = qs[j]
  BY IssueOrigin
<1>3. \A k \in 1..Len(queue) : k # 1 => k - 1 \in 1..Len(queue') /\ queue'[k - 1] = queue[k]
  BY <1>1
<1>4. Asks(queue', t, stmts) => Asks(queue, t, stmts)
  BY <1>2 DEF Asks
<1>5. ASSUME NEW k \in 1..Len(queue), queue[k].req = t, queue[k].stmt \in stmts
      PROVE  Asks(queue', t, stmts)
  <2>1. k # 1
    BY <1>1, <1>5
  <2>2. QED
    BY <1>3, <1>5, <2>1 DEF Asks
<1>6. QED
  BY <1>4, <1>5 DEF Asks

\* A handler asks for what the callback of its last statement has issued.
LEMMA AsksOwn ==
    ASSUME TypeInv, HandlersInv, queue # <<>>, Awaited(Head(queue)),
           NEW r, Head(queue).req = r, NEW qs \in Seq(Queries), Issue(qs),
           NEW stmts, WaitedFor(stmts)
    PROVE  /\ Asks(queue, r, stmts) <=> Head(queue).stmt \in stmts
           /\ Asks(queue', r, stmts) => \E j \in 1..Len(qs) : qs[j].stmt \in stmts
           /\ qs # <<>> /\ (\A j \in 1..Len(qs) : qs[j].req = r /\ qs[j].stmt \in stmts)
                 => Asks(queue', r, stmts)
<1>1. /\ queue \in Seq(Queries) /\ 1 \in 1..Len(queue) /\ Head(queue) = queue[1]
  BY HeadOwn
<1>2. \A k \in 1..Len(queue) : Awaited(queue[k]) /\ queue[k].req = r => k = 1
  BY <1>1 DEF HandlersInv, OneEach
<1>3. \A k \in 1..Len(queue) : queue[k].req = r /\ queue[k].stmt \in stmts => k = 1
  BY <1>2 DEF Awaited, WaitedFor
<1>4. Asks(queue, r, stmts) <=> Head(queue).stmt \in stmts
  BY <1>1, <1>3 DEF Asks
<1>5. Asks(queue', r, stmts) => \E j \in 1..Len(qs) : qs[j].stmt \in stmts
  <2>1. SUFFICES ASSUME NEW i \in 1..Len(queue'),
                        queue'[i].req = r, queue'[i].stmt \in stmts
                 PROVE  \E j \in 1..Len(qs) : qs[j].stmt \in stmts
    BY DEF Asks
  <2>2. \/ \E k \in 1..Len(queue) : k # 1 /\ i = k - 1 /\ queue'[i] = queue[k]
        \/ \E j \in 1..Len(qs) : i = Len(queue) - 1 + j /\ queue'[i] = qs[j]
    BY <1>1, IssueOrigin
  <2>3. QED
    BY <1>3, <2>1, <2>2
<1>6. ASSUME qs # <<>>, \A j \in 1..Len(qs) : qs[j].req = r /\ qs[j].stmt \in stmts
      PROVE  Asks(queue', r, stmts)
  <2>1. Len(qs) \in Nat \ {0} /\ 1 \in 1..Len(qs)
    <3>1. Len(qs) \in Nat /\ Len(qs) # 0
      BY <1>6, EmptySeq
    <3>2. QED
      BY <3>1
  <2>2. /\ Len(queue') = Len(queue) - 1 + Len(qs)
        /\ Len(queue) \in Nat \ {0} /\ Len(qs) \in Nat
        /\ \A j \in 1..Len(qs) : queue'[Len(queue) - 1 + j] = qs[j]
    BY <1>1, IssueIndices
  <2>3. Len(queue) \in 1..Len(queue') /\ queue'[Len(queue)] = qs[1]
    <3>1. Len(queue) - 1 + 1 = Len(queue)
      BY <2>2
    <3>2. queue'[Len(queue) - 1 + 1] = qs[1]
      BY <2>1, <2>2
    <3>3. QED
      BY <2>1, <2>2, <3>1, <3>2
  <2>4. QED
    BY <1>6, <2>1, <2>3 DEF Asks
<1>7. QED
  BY <1>4, <1>5, <1>6

\* Whoever is answered waits for nothing.
LEMMA AnsweredAsksNothing ==
    ASSUME TypeInv, HandlersInv, NEW r, reply[r] # NULL, NEW stmts, WaitedFor(stmts)
    PROVE  ~Asks(queue, r, stmts)
BY DEF HandlersInv, Waits, Awaited, WaitedFor, Asks

\* No request is changed, and no answer taken back.
Kept ==
    \A r \in Requests : /\ req[r] # NULL => req'[r] = req[r]
                        /\ reply[r] # NULL => reply'[r] = reply[r]

LEMMA KeptToggles ==
    ASSUME TypeInv, HandlersInv, Kept
    PROVE  /\ Toggles \subseteq Toggles'
           /\ \A r, s \in Requests :
                 req[r] # NULL /\ req[s] # NULL /\ Apart(r, s)' => Apart(r, s)
           /\ Calm' => Calm
           /\ \A s \in Requests : req[s] # NULL /\ AwayFromToggles(s)' => AwayFromToggles(s)
<1>1. Toggles \subseteq Toggles'
  BY DEF Kept, Toggles, Sent
<1>2. \A r, s \in Requests :
          req[r] # NULL /\ req[s] # NULL /\ Apart(r, s)' => Apart(r, s)
  BY DEF Kept, Apart
<1>3. \A r \in Toggles : r \in Requests /\ req[r] # NULL
  BY DEF Toggles, Sent
<1>4. "connection lost" # NULL
  BY NullAssumption DEF Replies
<1>5. Calm' => Calm
  BY <1>1, <1>2, <1>3, <1>4 DEF Calm, TogglesApart, Kept
<1>6. QED
  BY <1>1, <1>2, <1>3, <1>5 DEF AwayFromToggles

LEMMA KeptOpen ==
    ASSUME TypeInv, HandlersInv, Kept, NEW s \in Requests, req[s] # NULL
    PROVE  OpenAfter(Toggles \cap req[s].after)' <=> OpenAfter(Toggles \cap req[s].after)
<1> DEFINE flips == {r \in Toggles \cap req[s].after : Done(r, "toggleElectionStatus")}
<1>1. req'[s] = req[s]
  BY DEF Kept
<1>2. \A r \in req[s].after : r \in Requests /\ reply[r] # NULL /\ req[r] # NULL
  BY DEF TypeInv, TypeOK, RequestsOK, Inputs, HandlersInv, Admitted
<1>3. \A r \in req[s].after : req'[r] = req[r] /\ reply'[r] = reply[r]
  BY <1>2 DEF Kept
<1>4. flips' = flips
  BY <1>1, <1>2, <1>3 DEF Toggles, Sent, Done
<1>5. QED
  BY <1>4 DEF OpenAfter

(***************************************************************************)
(* One step of a handler.                                                  *)
(***************************************************************************)
LEMMA PerformSettings ==
    ASSUME TablesOK, NEW q, Perform(q)
    PROVE  /\ q.stmt \notin {"SET is_open", "CLEAR is_open"} => settings' = settings
           /\ q.stmt = "SET is_open" => settings'.is_open
           /\ q.stmt = "CLEAR is_open" => ~settings'.is_open
           /\ \A v \in votes' : v \in votes \/ (q.stmt = "INSERT votes" /\ v.req = q.req)
<1>1. CASE UpdateIsOpen(q)
  <2>1. settings \in [is_open : BOOLEAN]
    BY DEF TablesOK
  <2>2. /\ q.stmt \in {"SET is_open", "CLEAR is_open"} /\ votes' = votes
        /\ settings'.is_open = (q.stmt = "SET is_open")
    BY <1>1, <2>1 DEF UpdateIsOpen
  <2>3. QED
    BY <2>2
<1>2. CASE InsertVote(q)
  <2> DEFINE vote == [req |-> q.req, user |-> req[q.req].user,
                      candidate |-> req[q.req].candidate]
  <2>1. q.stmt = "INSERT votes" /\ settings' = settings /\ votes' = votes \cup {vote}
    BY <1>2 DEF InsertVote
  <2>2. vote.req = q.req
    OBVIOUS
  <2> HIDE DEF vote
  <2>3. QED
    BY <2>1, <2>2
<1>3. CASE ~UpdateIsOpen(q) /\ ~InsertVote(q)
  <2>1. settings' = settings /\ votes' \subseteq votes
    BY <1>3 DEF Perform, Read, DeleteVotes, UpdateFlag, UpdateKeys, DeleteUser, SaveBlock,
       DeleteBlocks, InsertAuditLog, db
  <2>2. q.stmt \notin {"SET is_open", "CLEAR is_open"}
    BY <1>3 DEF Perform, Read, DeleteVotes, UpdateFlag, UpdateKeys, DeleteUser, SaveBlock,
       DeleteBlocks, InsertAuditLog, InsertBlockStmt
  <2>3. QED
    BY <2>1, <2>2
<1>4. QED
  BY <1>1, <1>2, <1>3

LEMMA ServeHead ==
    ASSUME TypeInv, HandlersInv, NEW r \in Requests, Serve(r)
    PROVE  /\ queue # <<>> /\ queue \in Seq(Queries) /\ Head(queue).req = r /\ req' = req
           /\ req[r] # NULL /\ MayIssue(req[r].op, Head(queue).stmt)
           /\ Awaited(Head(queue)) => reply[r] = NULL
           /\ Succeeds(r, Head(queue).stmt) \/ Fails(r, Head(queue).stmt)
           /\ Turn(r)
           /\ Kept
<1>1. PICK stmt : Succeeds(r, stmt) \/ Fails(r, stmt)
  BY CallbackStatement DEF Serve
<1>2. /\ queue # <<>> /\ Head(queue).req = r /\ Head(queue).stmt = stmt /\ req' = req
      /\ req[r] # NULL
  BY <1>1, StatementType
<1>3. /\ queue \in Seq(Queries) /\ MayIssue(req[r].op, Head(queue).stmt)
      /\ Awaited(Head(queue)) => reply[r] = NULL
  BY <1>2, HeadOwn DEF OwnStatement, Own
<1>4. Turn(r)
  BY CallbackTurn DEF Serve
<1>5. reply \in [Requests -> Replies \cup {NULL}]
  BY DEF TypeInv, TypeOK, RequestsOK
<1>6. Kept
  <2>1. CASE GoesOn(r)
    BY <1>2, <2>1 DEF GoesOn, Kept
  <2>2. CASE AnswersClient(r)
    BY <1>2, <1>3, <1>5, <2>2 DEF AnswersClient, Kept
  <2>3. QED
    BY <1>4, <2>1, <2>2 DEF Turn
<1>7. QED
  BY <1>1, <1>2, <1>3, <1>4, <1>6

\* A step of one request leaves the others where they are.
LEMMA ServeOthers ==
    ASSUME TypeInv, HandlersInv, NEW r \in Requests, Serve(r), NEW t \in Requests, t # r
    PROVE  /\ reply'[t] = reply[t]
           /\ \A stmts : Asks(queue', t, stmts) <=> Asks(queue, t, stmts)
<1>1. /\ queue # <<>> /\ queue \in Seq(Queries) /\ Head(queue).req = r /\ Turn(r)
  BY ServeHead
<1>2. reply \in [Requests -> Replies \cup {NULL}]
  BY DEF TypeInv, TypeOK, RequestsOK
<1>3. CASE GoesOn(r)
  <2>1. PICK qs : IssuesOwn(r, qs) /\ reply' = reply
    BY <1>3 DEF GoesOn
  <2>2. qs \in Seq(Queries) /\ Issue(qs) /\ \A j \in 1..Len(qs) : qs[j].req = r
    BY <2>1 DEF IssuesOwn
  <2>3. \A stmts : Asks(queue', t, stmts) <=> Asks(queue, t, stmts)
    BY <1>1, <2>2, AsksOther
  <2>4. QED
    BY <2>1, <2>3
<1>4. CASE AnswersClient(r)
  <2>1. <<>> \in Seq(Queries) /\ 1..Len(<<>>) = {}
    BY EmptySeq
  <2>2. Issue(<<>>) /\ reply'[t] = reply[t]
    BY <1>2, <1>4 DEF AnswersClient
  <2>3. \A j \in 1..Len(<<>>) : <<>>[j].req = r
    BY <2>1
  <2>4. \A stmts : Asks(queue', t, stmts) <=> Asks(queue, t, stmts)
    BY <1>1, <2>1, <2>2, <2>3, AsksOther
  <2>5. QED
    BY <2>2, <2>4
<1>5. QED
  BY <1>1, <1>3, <1>4 DEF Turn

LEMMA ServeOwn ==
    ASSUME TypeInv, HandlersInv, NEW r \in Requests, Serve(r), Awaited(Head(queue)),
           NEW stmts, WaitedFor(stmts)
    PROVE  /\ Asks(queue, r, stmts) <=> Head(queue).stmt \in stmts
           /\ Asks(queue', r, stmts) =>
                 GoesOn(r) /\ \E next \in stmts : Follows(Head(queue).stmt, next)
           /\ GoesOn(r) /\ (\A next : Follows(Head(queue).stmt, next) => next \in stmts)
                 => Asks(queue', r, stmts)
<1>1. /\ queue # <<>> /\ queue \in Seq(Queries) /\ Head(queue).req = r /\ Turn(r)
  BY ServeHead
<1>2. CASE GoesOn(r)
  <2>1. PICK qs : IssuesOwn(r, qs) /\ (Awaited(Head(queue)) <=> qs # <<>>)
    BY <1>2 DEF GoesOn
  <2>2. /\ qs \in Seq(Queries) /\ Issue(qs) /\ qs # <<>>
        /\ \A j \in 1..Len(qs) : qs[j].req = r /\ Follows(Head(queue).stmt, qs[j].stmt)
    BY <2>1 DEF IssuesOwn
  <2>3. /\ Asks(queue, r, stmts) <=> Head(queue).stmt \in stmts
        /\ Asks(queue', r, stmts) => \E j \in 1..Len(qs) : qs[j].stmt \in stmts
        /\ qs # <<>> /\ (\A j \in 1..Len(qs) : qs[j].req = r /\ qs[j].stmt \in stmts)
              => Asks(queue', r, stmts)
    BY <1>1, <2>2, AsksOwn
  <2>4. QED
    BY <1>2, <2>2, <2>3
<1>3. CASE AnswersClient(r) /\ ~GoesOn(r)
  <2>1. <<>> \in Seq(Queries) /\ 1..Len(<<>>) = {}
    BY EmptySeq
  <2>2. Issue(<<>>)
    BY <1>3 DEF AnswersClient
  <2>3. /\ Asks(queue, r, stmts) <=> Head(queue).stmt \in stmts
        /\ Asks(queue', r, stmts) => \E j \in 1..Len(<<>>) : <<>>[j].stmt \in stmts
    BY <1>1, <2>1, <2>2, AsksOwn
  <2>4. ~Asks(queue', r, stmts)
    BY <2>1, <2>3
  <2>5. QED
    BY <1>3, <2>3, <2>4
<1>4. QED
  BY <1>1, <1>2, <1>3 DEF Turn

(***************************************************************************)
(* The status and the toggles.                                             *)
(***************************************************************************)
ReadsStatus(q) == q.stmt = "SELECT is_open"

LEMMA StatusCallback ==
    ASSUME ReadsStatus(Head(queue)), NEW r, Callback(r)
    PROVE  StatusRead(r) \/ StatusNotRead(r)
<1> USE DEF Succeeds, Fails, Executes, ReadsStatus
<1>1. CASE CastVote(r)
  BY <1>1 DEF CastVote, CheckSettings, CheckSudahVote, CheckCandidate, CheckFails, VoteSaved,
     VoteNotSaved, FlagSet, FlagNotSet, KeysSaved, VoteBlockSaved, VoteBlockLost,
     InsertBlockStmt, VoteLedger
<1>2. CASE UserAdmin(r)
  BY <1>2 DEF UserAdmin, UserDeleted, UserNotDeleted, VotesDeleted, VotesNotDeleted,
     FlagsCleared, FlagsNotCleared, BlocksDeleted, GenesisSaved, ResetChainFails,
     InsertBlockStmt, VoteLedger
<1>3. CASE SettingsAdmin(r)
  BY <1>3 DEF SettingsAdmin, StatusUpdated, StatusNotUpdated
<1>4. CASE RecordAudit(r)
  BY <1>4 DEF RecordAudit, AuditBlockSaved, AuditBlockLost, AuditLogSaved, AuditLogLost,
     InsertBlockStmt, VoteLedger, AuditLedger
<1>5. QED
  BY <1>1, <1>2, <1>3, <1>4 DEF Callback

\* The new value is the opposite of the one read.
LEMMA Decides ==
    ASSUME TypeInv, HandlersInv, NEW r \in Requests, Serve(r),
           ReadsStatus(Head(queue))
    PROVE  /\ Asks(queue', r, {"SET is_open"}) => ~settings.is_open
           /\ Asks(queue', r, {"CLEAR is_open"}) => settings.is_open
<1>1. /\ queue # <<>> /\ queue \in Seq(Queries) /\ Head(queue).req = r
  BY ServeHead
<1>2. Awaited(Head(queue))
  BY DEF Awaited, ReadsStatus
<1>3. WaitedFor({"SET is_open"}) /\ WaitedFor({"CLEAR is_open"})
  BY DEF WaitedFor
<1>4. StatusRead(r) \/ StatusNotRead(r)
  BY StatusCallback DEF Serve
<1>5. CASE StatusNotRead(r)
  <2>1. <<>> \in Seq(Queries) /\ 1..Len(<<>>) = {} /\ Issue(<<>>)
    <3>1. Issue(<<>>)
      BY <1>5 DEF StatusNotRead, Answer
    <3>2. QED
      BY <3>1, EmptySeq
  <2>2. \A stmts : WaitedFor(stmts) => ~Asks(queue', r, stmts)
    <3>1. ASSUME NEW stmts, WaitedFor(stmts) PROVE ~Asks(queue', r, stmts)
      <4>1. Asks(queue', r, stmts) => \E j \in 1..Len(<<>>) : <<>>[j].stmt \in stmts
        BY <1>1, <1>2, <2>1, <3>1, AsksOwn
      <4>2. QED
        BY <2>1, <4>1
    <3>2. QED
      BY <3>1
  <2>3. QED
    BY <1>3, <2>2
<1>6. CASE StatusRead(r)
  <2> DEFINE next == IF settings.is_open THEN "CLEAR is_open" ELSE "SET is_open"
             q    == Query(r, next, NULL)
  <2>1. Issue(<<q>>) /\ q.stmt = next
    BY <1>6 DEF StatusRead, Proceed, Query
  <2>2. next \in Statements
    BY DEF Statements
  <2>3. q \in Queries
    BY <2>2, QueryType
  <2>4. /\ next = "SET is_open" => ~settings.is_open
        /\ next = "CLEAR is_open" => settings.is_open
    OBVIOUS
  <2> HIDE DEF q, next
  <2>5. <<q>> \in Seq(Queries) /\ \A j \in 1..Len(<<q>>) : <<q>>[j] = q
    BY <2>3
  <2>6. ASSUME NEW stmts, WaitedFor(stmts), Asks(queue', r, stmts) PROVE next \in stmts
    <3>1. \E j \in 1..Len(<<q>>) : <<q>>[j].stmt \in stmts
      BY <1>1, <1>2, <2>1, <2>5, <2>6, AsksOwn
    <3>2. QED
      BY <2>1, <2>5, <3>1
  <2>7. QED
    BY <1>3, <2>4, <2>6
<1>7. QED
  BY <1>4, <1>5, <1>6

\* Toggles that do not overlap: while one waits the others are answered.
LEMMA OthersAnswered ==
    ASSUME HandlersInv, TogglesApart, NEW r \in Toggles, reply[r] = NULL,
           NEW t \in Toggles, t # r
    PROVE  reply[t] # NULL
<1>1. /\ r \in Requests /\ t \in Requests
      /\ req[r] # NULL /\ req[t] # NULL
  BY DEF Toggles, Sent
<1>2. Apart(r, t)
  BY DEF TogglesApart
<1>3. QED
  BY <1>1, <1>2 DEF Apart, HandlersInv, Admitted

LEMMA ToggleHead ==
    ASSUME TypeInv, HandlersInv, NEW r \in Toggles, Serve(r)
    PROVE  Head(queue).stmt \in {"SELECT is_open", "SET is_open", "CLEAR is_open",
                                 InsertBlockStmt(AuditLedger), "INSERT audit_logs"}
<1>1. r \in Requests /\ req[r].op = "toggleElectionStatus"
  BY DEF Toggles, Sent
<1>2. queue # <<>> /\ MayIssue(req[r].op, Head(queue).stmt)
  BY <1>1, ServeHead
<1>3. Head(queue).stmt \in Statements \cup BlockStatements
  BY <1>2, HeadUnderway DEF Underway, Queries
<1>4. \A l \in Ledgers : l = VoteLedger \/ l = AuditLedger
  BY DEF Ledgers
<1>5. Head(queue).stmt \in Statements \/ Head(queue).stmt = InsertBlockStmt(VoteLedger)
          \/ Head(queue).stmt = InsertBlockStmt(AuditLedger)
  BY <1>3, <1>4 DEF BlockStatements
<1>6. QED
  BY <1>1, <1>2, <1>5 DEF MayIssue, Statements

\* What a step of a toggle does to the status, and to the toggle itself.
Flips(r) ==
    /\ r \notin Flipped
    /\ r \in Flipped'
    /\ settings'.is_open <=> ~settings.is_open

LEMMA ServeToggle ==
    ASSUME TypeInv, HandlersInv, Deciding, NEW r \in Toggles, Serve(r)
    PROVE  /\ Flips(r) \/ (settings' = settings /\ (r \in Flipped' <=> r \in Flipped))
           /\ Flips(r) => reply[r] = NULL
           /\ Asks(queue', r, {"SET is_open"}) => ~settings'.is_open
           /\ Asks(queue', r, {"CLEAR is_open"}) => settings'.is_open
<1> DEFINE h == Head(queue).stmt
<1>1. /\ r \in Requests /\ queue # <<>> /\ Head(queue).req = r /\ req' = req
      /\ Succeeds(r, h) \/ Fails(r, h)
      /\ Turn(r)
  BY ServeHead DEF Toggles
<1>2. h \in {"SELECT is_open", "SET is_open", "CLEAR is_open",
             InsertBlockStmt(AuditLedger), "INSERT audit_logs"}
  BY ToggleHead
<1>3. Awaited(Head(queue)) /\ reply[r] = NULL
  <2>1. Awaited(Head(queue))
    BY <1>2 DEF Awaited, InsertBlockStmt, AuditLedger, VoteLedger
  <2>2. QED
    BY <1>1, <2>1, ServeHead
<1>4. /\ TablesOK
      /\ reply \in [Requests -> Replies \cup {NULL}]
  BY DEF TypeInv, TypeOK, RequestsOK
<1>5. Toggles' = Toggles
  BY <1>1 DEF Toggles, Sent
<1>6. WaitedFor(Recording) /\ WaitedFor({"SET is_open"}) /\ WaitedFor({"CLEAR is_open"})
  BY DEF WaitedFor, Recording, InsertBlockStmt, AuditLedger, VoteLedger
<1>7. \A stmts : WaitedFor(stmts) =>
          /\ Asks(queue, r, stmts) <=> h \in stmts
          /\ Asks(queue', r, stmts) => GoesOn(r) /\ \E next \in stmts : Follows(h, next)
          /\ GoesOn(r) /\ (\A next : Follows(h, next) => next \in stmts)
                => Asks(queue', r, stmts)
  BY <1>1, <1>3, ServeOwn
<1>8. "ok" # NULL
  BY NullAssumption DEF Replies
<1>9. r \in Flipped <=> h \in Recording
  BY <1>3, <1>6, <1>7, <1>8 DEF Flipped
<1>10. GoesOn(r) => reply'[r] = NULL
  BY <1>3 DEF GoesOn
<1>11. AnswersClient(r) =>
          /\ MayAnswer(r, h)
          /\ reply'[r] = "ok" <=> h = "INSERT audit_logs"
  BY <1>1, <1>4 DEF AnswersClient
<1>12. r \in Flipped' <=> reply'[r] = "ok" \/ Asks(queue', r, Recording)
  BY <1>5 DEF Flipped
<1>13. /\ Succeeds(r, h) => Perform(Head(queue))
       /\ Fails(r, h) => settings' = settings
  BY DEF Succeeds, Fails, db
<1> HIDE DEF h
<1>14. \A next : Follows(h, next) =>
          /\ h = "SELECT is_open" => next \in {"SET is_open", "CLEAR is_open"}
          /\ h \in {"SET is_open", "CLEAR is_open"} => next = InsertBlockStmt(AuditLedger)
          /\ h = InsertBlockStmt(AuditLedger) => next = "INSERT audit_logs"
          /\ h # "INSERT audit_logs"
  BY DEF Follows, InsertBlockStmt, AuditLedger, VoteLedger
<1>15. /\ Asks(queue', r, {"SET is_open"}) => h = "SELECT is_open"
       /\ Asks(queue', r, {"CLEAR is_open"}) => h = "SELECT is_open"
       /\ h \in {"SELECT is_open", "INSERT audit_logs"} => ~Asks(queue', r, Recording)
       /\ GoesOn(r) /\ h \notin {"SELECT is_open", "INSERT audit_logs"}
             => Asks(queue', r, Recording)
  <2>1. InsertBlockStmt(AuditLedger) = "INSERT audit_ledger_blocks"
    BY DEF InsertBlockStmt, AuditLedger, VoteLedger
  <2>2. ASSUME Asks(queue', r, {"SET is_open"}) PROVE h = "SELECT is_open"
    <3>1. Follows(h, "SET is_open")
      <4> DEFINE stmts == {"SET is_open"}
      <4>1. WaitedFor(stmts) /\ Asks(queue', r, stmts)
        BY <1>6, <2>2
      <4> HIDE DEF stmts
      <4>2. \E next \in stmts : Follows(h, next)
        BY <1>7, <4>1
      <4>3. QED
        BY <4>2 DEF stmts
    <3>2. h = "SELECT is_open" \/ h = InsertBlockStmt(AuditLedger) \/ h = "INSERT audit_logs"
             \/ h \in {"SET is_open", "CLEAR is_open"}
      BY <1>2
    <3>3. "SET is_open" # "INSERT audit_logs" /\ "SET is_open" # InsertBlockStmt(AuditLedger)
      BY <2>1
    <3>4. QED
      BY <1>14, <3>1, <3>2, <3>3
  <2>3. ASSUME Asks(queue', r, {"CLEAR is_open"}) PROVE h = "SELECT is_open"
    <3>1. Follows(h, "CLEAR is_open")
      <4> DEFINE stmts == {"CLEAR is_open"}
      <4>1. WaitedFor(stmts) /\ Asks(queue', r, stmts)
        BY <1>6, <2>3
      <4> HIDE DEF stmts
      <4>2. \E next \in stmts : Follows(h, next)
        BY <1>7, <4>1
      <4>3. QED
        BY <4>2 DEF stmts
    <3>2. h = "SELECT is_open" \/ h = InsertBlockStmt(AuditLedger) \/ h = "INSERT audit_logs"
             \/ h \in {"SET is_open", "CLEAR is_open"}
      BY <1>2
    <3>3. "CLEAR is_open" # "INSERT audit_logs" /\ "CLEAR is_open" # InsertBlockStmt(AuditLedger)
      BY <2>1
    <3>4. QED
      BY <1>14, <3>1, <3>2, <3>3
  <2>4. ASSUME h \in {"SELECT is_open", "INSERT audit_logs"}, Asks(queue', r, Recording)
        PROVE  FALSE
    <3>1. PICK next \in Recording : Follows(h, next)
      BY <1>6, <1>7, <2>4
    <3>2. QED
      BY <1>14, <2>1, <2>4, <3>1 DEF Recording
  <2>5. ASSUME GoesOn(r), h \notin {"SELECT is_open", "INSERT audit_logs"}
        PROVE  Asks(queue', r, Recording)
    <3>1. \A next : Follows(h, next) => next \in Recording
      BY <1>2, <1>14, <2>5 DEF Recording
    <3>2. QED
      BY <1>6, <1>7, <2>5, <3>1
  <2>6. QED
    BY <2>2, <2>3, <2>4, <2>5
<1>16. CASE h = "SELECT is_open"
  <2>1. settings' = settings
    <3>1. h \notin {"SET is_open", "CLEAR is_open"}
      BY <1>16
    <3>2. QED
      BY <1>1, <1>4, <1>13, <3>1, PerformSettings DEF h
  <2>2. r \notin Flipped
    BY <1>9, <1>16 DEF Recording, InsertBlockStmt, AuditLedger, VoteLedger
  <2>3. reply'[r] # "ok"
    BY <1>1, <1>8, <1>10, <1>11, <1>16 DEF Turn
  <2>4. r \notin Flipped'
    BY <1>12, <1>15, <1>16, <2>3
  <2>5. /\ Asks(queue', r, {"SET is_open"}) => ~settings.is_open
        /\ Asks(queue', r, {"CLEAR is_open"}) => settings.is_open
    BY <1>1, <1>16, Decides DEF ReadsStatus, h
  <2>6. QED
    BY <1>3, <2>1, <2>2, <2>4, <2>5
<1>17. CASE h \in {"SET is_open", "CLEAR is_open"}
  <2>1. /\ h # InsertBlockStmt(AuditLedger) /\ h \notin Recording
        /\ h \notin {"SELECT is_open", "INSERT audit_logs"}
    BY <1>17 DEF Recording, InsertBlockStmt, AuditLedger, VoteLedger
  <2>2. /\ ~Asks(queue', r, {"SET is_open"}) /\ ~Asks(queue', r, {"CLEAR is_open"})
        /\ r \notin Flipped
    BY <1>9, <1>15, <2>1
  <2>3. CASE GoesOn(r)
    <3>1. Succeeds(r, h)
      BY <2>1, <2>3 DEF GoesOn, h
    <3>2. settings'.is_open <=> h = "SET is_open"
      BY <1>4, <1>13, <1>17, <3>1, PerformSettings DEF h
    <3>3. settings.is_open <=> h = "CLEAR is_open"
      BY <1>6, <1>7, <1>17 DEF Deciding
    <3>4. settings'.is_open <=> ~settings.is_open
      BY <1>17, <3>2, <3>3
    <3>5. r \in Flipped'
      BY <1>12, <1>15, <2>1, <2>3
    <3>6. QED
      BY <1>3, <2>2, <3>4, <3>5 DEF Flips
  <2>4. CASE AnswersClient(r) /\ ~GoesOn(r)
    <3>1. MayAnswer(r, h) /\ reply'[r] # "ok"
      BY <1>11, <2>1, <2>4
    <3>2. settings' = settings
      BY <1>13, <1>17, <3>1 DEF MayAnswer
    <3>3. r \notin Flipped'
      BY <1>6, <1>7, <1>12, <2>4, <3>1
    <3>4. QED
      BY <1>3, <2>2, <3>2, <3>3
  <2>5. QED
    BY <1>1, <2>3, <2>4 DEF Turn
<1>18. CASE h = InsertBlockStmt(AuditLedger)
  <2>1. /\ h \notin {"SET is_open", "CLEAR is_open", "SELECT is_open", "INSERT audit_logs"}
        /\ h \notin {"SET is_open", "CLEAR is_open"}
        /\ h \notin {"SELECT settings", "SELECT sudah_vote", "SELECT candidate",
                     "INSERT audit_logs"}
        /\ h \in Recording
    BY <1>18 DEF Recording, InsertBlockStmt, AuditLedger, VoteLedger
  <2>2. ~AnswersClient(r)
    BY <1>11, <1>18, <2>1 DEF MayAnswer
  <2>3. GoesOn(r)
    BY <1>1, <2>2 DEF Turn
  <2>4. r \in Flipped /\ r \in Flipped'
    BY <1>9, <1>12, <1>15, <2>1, <2>3
  <2>5. settings' = settings
    BY <1>1, <1>4, <1>13, <2>1, PerformSettings DEF h
  <2>6. ~Asks(queue', r, {"SET is_open"}) /\ ~Asks(queue', r, {"CLEAR is_open"})
    BY <1>15, <2>1
  <2>7. QED
    BY <1>3, <2>4, <2>5, <2>6
<1>19. CASE h = "INSERT audit_logs"
  <2>1. h \notin {"SET is_open", "CLEAR is_open"} /\ h # "SELECT is_open" /\ h \in Recording
    BY <1>19 DEF Recording, InsertBlockStmt, AuditLedger, VoteLedger
  <2>2. settings' = settings
    BY <1>1, <1>4, <1>13, <2>1, PerformSettings DEF h
  <2>3. ~GoesOn(r)
    <3>1. ASSUME GoesOn(r) PROVE FALSE
      <4>1. \A next : Follows(h, next) => next \in Recording
        BY <1>14, <1>19
      <4>2. Asks(queue', r, Recording)
        BY <1>6, <1>7, <3>1, <4>1
      <4>3. QED
        BY <1>15, <1>19, <4>2
    <3>2. QED
      BY <3>1
  <2>4. reply'[r] = "ok"
    BY <1>1, <1>11, <1>19, <2>3 DEF Turn
  <2>5. r \in Flipped /\ r \in Flipped'
    BY <1>9, <1>12, <2>1, <2>4
  <2>6. ~Asks(queue', r, {"SET is_open"}) /\ ~Asks(queue', r, {"CLEAR is_open"})
    BY <1>15, <2>1
  <2>7. QED
    BY <1>3, <2>2, <2>5, <2>6
<1>20. QED
  BY <1>2, <1>16, <1>17, <1>18, <1>19

LEMMA FlippedFinite == IsFiniteSet(Asked) => IsFiniteSet(Flipped)
<1>1. Flipped \subseteq Asked
  BY DEF Flipped, Asked, Toggles, Sent
<1>2. QED
  BY <1>1, FS_Subset

\* The status only changes in a toggle's turn.
LEMMA ServeNoToggle ==
    ASSUME TypeInv, HandlersInv, NEW r \in Requests, r \notin Toggles, Serve(r)
    PROVE  settings' = settings
<1>1. /\ queue # <<>> /\ req[r] # NULL /\ MayIssue(req[r].op, Head(queue).stmt)
      /\ Succeeds(r, Head(queue).stmt) \/ Fails(r, Head(queue).stmt)
  BY ServeHead
<1>2. Head(queue).stmt \notin {"SET is_open", "CLEAR is_open"}
  BY <1>1 DEF MayIssue, Toggles, Sent
<1>3. TablesOK
  BY DEF TypeInv, TypeOK
<1>4. Succeeds(r, Head(queue).stmt) => Perform(Head(queue))
  BY DEF Succeeds
<1>5. Fails(r, Head(queue).stmt) => settings' = settings
  BY DEF Fails, db
<1>6. QED
  BY <1>1, <1>2, <1>3, <1>4, <1>5, PerformSettings

LEMMA ServeStatus ==
    ASSUME TypeInv, HandlersInv, IsFiniteSet(Asked), Calm, StatusInv,
           NEW r \in Requests, Serve(r)
    PROVE  StatusInv'
<1>1. Toggles' = Toggles
  BY ServeHead DEF Toggles, Sent
<1>2. \A t \in Toggles : t # r =>
          /\ reply'[t] = reply[t]
          /\ \A stmts : Asks(queue', t, stmts) <=> Asks(queue, t, stmts)
  BY ServeOthers DEF Toggles
<1>3. \A t \in Toggles : t # r => (t \in Flipped' <=> t \in Flipped)
  BY <1>1, <1>2 DEF Flipped
<1>4. Flipped \subseteq Toggles /\ Flipped' \subseteq Toggles
  BY <1>1 DEF Flipped
<1>5. CASE r \in Toggles /\ Flips(r)
  <2>1. /\ reply[r] = NULL
        /\ Asks(queue', r, {"SET is_open"}) => ~settings'.is_open
        /\ Asks(queue', r, {"CLEAR is_open"}) => settings'.is_open
    BY <1>5, ServeToggle DEF StatusInv
  <2>2. Flipped' = Flipped \cup {r}
    BY <1>3, <1>4, <1>5 DEF Flips
  <2>3. IsFiniteSet(Flipped) /\ r \notin Flipped
    BY <1>5, FlippedFinite DEF Flips
  <2>4. OpenBy(Flipped') <=> ~OpenBy(Flipped)
    BY <2>2, <2>3, OneMoreFlip
  <2>5. settings'.is_open <=> OpenBy(Flipped')
    BY <1>5, <2>4 DEF StatusInv, Flips
  <2>6. WaitedFor({"SET is_open"}) /\ WaitedFor({"CLEAR is_open"})
    BY DEF WaitedFor
  <2>7. ASSUME NEW t \in Toggles, t # r
        PROVE  ~Asks(queue', t, {"SET is_open"}) /\ ~Asks(queue', t, {"CLEAR is_open"})
    <3>1. reply[t] # NULL
      BY <1>5, <2>1, <2>7, OthersAnswered DEF Calm
    <3>2. \A stmts : WaitedFor(stmts) => ~Asks(queue, t, stmts)
      BY <3>1, AnsweredAsksNothing
    <3>3. QED
      BY <1>2, <2>6, <2>7, <3>2
  <2>8. Deciding'
    BY <1>1, <2>1, <2>7 DEF Deciding
  <2>9. OpenBy(Flipped)' <=> OpenBy(Flipped')
    BY DEF OpenBy
  <2>10. QED
    BY <2>5, <2>8, <2>9 DEF StatusInv
<1>6. CASE r \notin Toggles \/ ~Flips(r)
  <2>1. /\ settings' = settings
        /\ r \in Toggles => (r \in Flipped' <=> r \in Flipped)
        /\ r \in Toggles /\ Asks(queue', r, {"SET is_open"}) => ~settings'.is_open
        /\ r \in Toggles /\ Asks(queue', r, {"CLEAR is_open"}) => settings'.is_open
    BY <1>6, ServeToggle, ServeNoToggle DEF StatusInv
  <2>2. \A t \in Toggles : t \in Flipped' <=> t \in Flipped
    BY <1>3, <2>1
  <2>3. Flipped' = Flipped
    BY <1>4, <2>2
  <2>4. Deciding'
    BY <1>1, <1>2, <2>1 DEF Deciding, StatusInv
  <2>5. QED
    BY <2>1, <2>3, <2>4 DEF StatusInv, OpenBy
<1>7. QED
  BY <1>5, <1>6

(***************************************************************************)
(* The votes.                                                              *)
(***************************************************************************)
\* For a vote that no toggle overlaps, what the toggles have done is what
\* those answered before it have done.
LEMMA PassesOpen ==
    ASSUME TypeInv, HandlersInv, StatusInv, NEW r \in Requests, req[r] # NULL,
           reply[r] = NULL, AwayFromToggles(r), settings.is_open
    PROVE  OpenAfter(Toggles \cap req[r].after)
<1>1. \A t \in Toggles : t \in Requests /\ req[t] # NULL
  BY DEF Toggles, Sent
<1>2. \A t \in Toggles : t \in req[r].after
  BY <1>1 DEF AwayFromToggles, Apart, HandlersInv, Admitted
<1>3. \A t \in Toggles : reply[t] # NULL
  BY <1>2 DEF HandlersInv, Admitted
<1>4. WaitedFor(Recording)
  BY DEF WaitedFor, Recording, InsertBlockStmt, AuditLedger, VoteLedger
<1>5. \A t \in Toggles : ~Asks(queue, t, Recording)
  BY <1>3, <1>4, AnsweredAsksNothing
<1>6. Flipped = {t \in Toggles \cap req[r].after : Done(t, "toggleElectionStatus")}
  BY <1>2, <1>5 DEF Flipped, Done, Toggles
<1>7. QED
  BY <1>6 DEF StatusInv, OpenBy, OpenAfter

\* Nothing follows the update of the keys.
LEMMA ServeKeys ==
    ASSUME TypeInv, HandlersInv, NEW r \in Requests, Serve(r), ~Awaited(Head(queue)),
           NEW t, NEW stmts, Asks(queue', t, stmts)
    PROVE  Asks(queue, t, stmts)
<1>1. queue # <<>> /\ queue \in Seq(Queries) /\ Turn(r)
  BY ServeHead
<1>2. PICK qs : IssuesOwn(r, qs) /\ (Awaited(Head(queue)) <=> qs # <<>>)
  BY <1>1 DEF Turn, GoesOn, AnswersClient
<1>3. Issue(<<>>)
  BY <1>2 DEF IssuesOwn
<1>4. \A i \in 1..Len(queue') : \E k \in 1..Len(queue) : queue'[i] = queue[k]
  BY <1>1, <1>3, AnswerOrigin
<1>5. QED
  BY <1>4 DEF Asks

\* A vote is entered by the check of the status only.
LEMMA ServeEntered ==
    ASSUME TypeInv, HandlersInv, NEW r \in Requests, Serve(r),
           NEW s \in Requests, Sent(s, "castVote"), Entered(s)'
    PROVE  \/ Entered(s)
           \/ s = r /\ reply[r] = NULL /\ settings.is_open
<1> DEFINE h == Head(queue).stmt
<1>1. /\ queue # <<>> /\ Head(queue).req = r
      /\ Succeeds(r, h) \/ Fails(r, h)
      /\ Awaited(Head(queue)) => reply[r] = NULL
  BY ServeHead
<1>2. WaitedFor(Voting)
  BY DEF WaitedFor, Voting
<1>3. h = "INSERT votes" => Awaited(Head(queue)) /\ h \in Voting
  BY DEF Awaited, Voting
<1> HIDE DEF h
<1>4. CASE Asks(queue', s, Voting)
  <2>1. CASE s # r
    BY <1>4, <2>1, ServeOthers DEF Entered
  <2>2. CASE ~Awaited(Head(queue))
    BY <1>4, <2>2, ServeKeys DEF Entered
  <2>3. CASE s = r /\ Awaited(Head(queue))
    <3>1. PICK next \in Voting : GoesOn(r) /\ Follows(h, next)
      BY <1>2, <1>4, <2>3, ServeOwn DEF h
    <3>2. h \in {"SELECT settings", "SELECT sudah_vote", "SELECT candidate"}
      BY <3>1 DEF Follows, Voting, InsertBlockStmt, VoteLedger, AuditLedger
    <3>3. CASE h = "SELECT settings"
      BY <1>1, <2>3, <3>1, <3>3 DEF GoesOn, Passed, h
    <3>4. CASE h # "SELECT settings"
      <4>1. h \in Voting
        BY <3>2, <3>4 DEF Voting
      <4>2. Asks(queue, r, Voting)
        BY <1>2, <2>3, <4>1, ServeOwn DEF h
      <4>3. QED
        BY <2>3, <4>2 DEF Entered
    <3>5. QED
      BY <3>3, <3>4
  <2>4. QED
    BY <2>1, <2>2, <2>3
<1>5. CASE Stored(s)'
  <2>1. PICK v \in votes' : v.req = s
    BY <1>5 DEF Stored
  <2>2. CASE v \in votes
    BY <2>1, <2>2 DEF Entered, Stored
  <2>3. CASE v \notin votes
    <3>1. TablesOK
      BY DEF TypeInv, TypeOK
    <3>2. Fails(r, h) => votes' = votes
      BY DEF Fails, db
    <3>3. Perform(Head(queue))
      BY <1>1, <2>3, <3>2 DEF Succeeds
    <3>4. h = "INSERT votes" /\ s = r
      BY <1>1, <2>1, <2>3, <3>1, <3>3, PerformSettings DEF h
    <3>5. Awaited(Head(queue)) /\ h \in Voting
      BY <1>3, <3>4
    <3>6. Asks(queue, r, Voting)
      BY <1>2, <3>5, ServeOwn DEF h
    <3>7. QED
      BY <3>4, <3>6 DEF Entered
  <2>4. QED
    BY <2>2, <2>3
<1>6. QED
  BY <1>4, <1>5 DEF Entered

LEMMA KeptEntered ==
    ASSUME TypeInv, HandlersInv, EnteredOpen, Kept,
           NEW s \in Requests, Sent(s, "castVote"), AwayFromToggles(s)', Entered(s)
    PROVE  OpenAfter(Toggles \cap req[s].after)'
<1>1. req[s] # NULL
  BY DEF Sent
<1>2. AwayFromToggles(s)
  BY <1>1, KeptToggles
<1>3. OpenAfter(Toggles \cap req[s].after)
  BY <1>2 DEF EnteredOpen
<1>4. QED
  BY <1>1, <1>3, KeptOpen

\* The votes' rows after a statement.
LEMMA MovedVotes ==
    ASSUME TypeInv, \A v \in votes : req[v.req] # NULL, req' = req,
           UNCHANGED db \/ (queue # <<>> /\ Perform(Head(queue)))
    PROVE  \A v \in votes' : req'[v.req] # NULL
<1>1. TablesOK
  BY DEF TypeInv, TypeOK
<1>2. CASE UNCHANGED db
  BY <1>2 DEF db
<1>3. CASE queue # <<>> /\ Perform(Head(queue))
  <2>1. req[Head(queue).req] # NULL
    BY <1>3, HeadUnderway DEF Underway
  <2>2. \A v \in votes' : v \in votes \/ v.req = Head(queue).req
    BY <1>1, <1>3, PerformSettings
  <2>3. QED
    BY <2>1, <2>2
<1>4. QED
  BY <1>2, <1>3

LEMMA ServeSettings ==
    ASSUME TypeInv, HandlersInv, SettingsInv, NEW r \in Requests, Serve(r)
    PROVE  SettingsInv'
<1>1. /\ queue # <<>> /\ Head(queue).req = r /\ req' = req /\ Kept
      /\ Succeeds(r, Head(queue).stmt) \/ Fails(r, Head(queue).stmt)
  BY ServeHead
<1>2. Asked' = Asked
  BY <1>1 DEF Asked
<1>3. UNCHANGED db \/ (queue # <<>> /\ Perform(Head(queue)))
  BY <1>1 DEF Succeeds, Fails
<1>4. \A v \in votes' : req'[v.req] # NULL
  BY <1>1, <1>3, MovedVotes DEF SettingsInv
<1>5. ASSUME Calm' PROVE StatusInv' /\ EnteredOpen'
  <2>1. Calm /\ StatusInv /\ EnteredOpen
    BY <1>1, <1>5, KeptToggles DEF SettingsInv
  <2>2. StatusInv'
    BY <2>1, ServeStatus DEF SettingsInv
  <2>3. ASSUME NEW s \in Requests, Sent(s, "castVote")', AwayFromToggles(s)', Entered(s)'
        PROVE  OpenAfter(Toggles \cap req[s].after)'
    <3>1. Sent(s, "castVote") /\ req[s] # NULL
      BY <1>1, <2>3 DEF Sent
    <3>2. CASE Entered(s)
      BY <1>1, <2>1, <2>3, <3>1, <3>2, KeptEntered
    <3>3. CASE s = r /\ reply[r] = NULL /\ settings.is_open
      <4>1. AwayFromToggles(s)
        BY <1>1, <2>3, <3>1, KeptToggles
      <4>2. OpenAfter(Toggles \cap req[s].after)
        BY <2>1, <3>1, <3>3, <4>1, PassesOpen
      <4>3. QED
        BY <1>1, <3>1, <4>2, KeptOpen
    <3>4. QED
      BY <2>3, <3>1, <3>2, <3>3, ServeEntered
  <2>4. QED
    BY <2>2, <2>3 DEF EnteredOpen
<1>6. QED
  BY <1>2, <1>4, <1>5 DEF SettingsInv

(***************************************************************************)
(* The other steps.                                                        *)
(***************************************************************************)
LEMMA ArriveAsks ==
    ASSUME TypeInv, HandlersInv, NEW r \in Requests, NEW input \in Inputs, NEW q \in Queries,
           Arrives(r, input, <<q>>), FirstStatement(r, input, q)
    PROVE  /\ req[r] = NULL /\ reply[r] = NULL /\ reply' = reply
           /\ req' = [req EXCEPT ![r] = input] /\ req'[r] = input
           /\ \A s \in Requests : s # r => req'[s] = req[s]
           /\ Kept
           /\ \A s, stmts : s # r => (Asks(queue', s, stmts) <=> Asks(queue, s, stmts))
           /\ \A stmts : Asks(queue', r, stmts) => q.stmt \in stmts
<1>1. /\ req[r] = NULL /\ reply' = reply /\ req' = [req EXCEPT ![r] = input]
      /\ queue' = queue \o <<q>>
  BY DEF Arrives
<1>2. req \in [Requests -> Inputs \cup {NULL}] /\ queue \in Seq(Queries)
  BY DEF TypeInv, TypeOK, RequestsOK, MemoryOK
<1>3. /\ req'[r] = input
      /\ \A s \in Requests : s # r => req'[s] = req[s]
  BY <1>1, <1>2
<1>4. reply[r] = NULL
  BY <1>1 DEF HandlersInv, Admitted
<1>5. Kept
  BY <1>1, <1>3 DEF Kept
<1>6. \A i \in 1..Len(queue) : queue[i].req # r
  BY <1>1 DEF TypeInv, QueueOK, Underway
<1>7. q.req = r
  BY DEF FirstStatement
<1>8. /\ \A i \in 1..Len(queue) : i \in 1..Len(queue') /\ queue'[i] = queue[i]
      /\ \A i \in 1..Len(queue') :
            (i \in 1..Len(queue) /\ queue'[i] = queue[i]) \/ queue'[i] = q
  <2>1. /\ Len(queue) \in Nat /\ Len(queue') = Len(queue) + 1
        /\ \A i \in 1..Len(queue) : queue'[i] = queue[i]
        /\ \A i \in 1..Len(queue') : i \in 1..Len(queue) \/ queue'[i] = q
    BY <1>1, <1>2, ArrivesElements
  <2>2. QED
    BY <2>1
<1>9. \A s, stmts : s # r => (Asks(queue', s, stmts) <=> Asks(queue, s, stmts))
  BY <1>7, <1>8 DEF Asks
<1>10. \A stmts : Asks(queue', r, stmts) => q.stmt \in stmts
  BY <1>6, <1>8 DEF Asks
<1>11. QED
  BY <1>1, <1>3, <1>4, <1>5, <1>9, <1>10

LEMMA ArriveSettings ==
    ASSUME TypeInv, HandlersInv, SettingsInv, NEW r \in Requests, Arrive(r)
    PROVE  SettingsInv'
<1>1. PICK input \in Inputs, q \in Queries :
          Arrives(r, input, <<q>>) /\ FirstStatement(r, input, q)
  BY ArriveShape
<1>2. /\ req[r] = NULL /\ reply[r] = NULL /\ reply' = reply
      /\ req' = [req EXCEPT ![r] = input] /\ req'[r] = input
      /\ \A s \in Requests : s # r => req'[s] = req[s]
      /\ Kept
      /\ \A s, stmts : s # r => (Asks(queue', s, stmts) <=> Asks(queue, s, stmts))
      /\ \A stmts : Asks(queue', r, stmts) => q.stmt \in stmts
  BY <1>1, ArriveAsks
<1>3. settings' = settings /\ votes' = votes
  BY <1>1 DEF Arrives, db
<1>4. input # NULL
  BY NullAssumption
<1>5. IsFiniteSet(Asked')
  <2>1. Asked' = Asked \cup {r}
    BY <1>2, <1>4 DEF Asked
  <2>2. QED
    BY <2>1, FS_AddElement DEF SettingsInv
<1>6. \A v \in votes' : req'[v.req] # NULL
  <2>1. \A v \in votes : v.req \in Requests /\ req[v.req] # NULL
    BY DEF SettingsInv, TypeInv, TypeOK, TablesOK
  <2>2. QED
    BY <1>2, <1>3, <2>1
<1>7. /\ r \in Toggles' => q.stmt = "SELECT is_open"
      /\ Sent(r, "castVote")' => q.stmt = "SELECT settings"
  <2>1. /\ r \in Toggles' => input.op = "toggleElectionStatus"
        /\ Sent(r, "castVote")' => input.op = "castVote"
    BY <1>2 DEF Toggles, Sent
  <2>2. QED
    BY <1>1, <2>1 DEF FirstStatement
<1>8. /\ \A t \in Toggles' : t # r => t \in Toggles
      /\ r \notin Toggles /\ Toggles \subseteq Toggles'
  BY <1>2 DEF Toggles, Sent
<1>9. ASSUME Calm' PROVE StatusInv' /\ EnteredOpen'
  <2>1. Calm /\ StatusInv /\ EnteredOpen
    BY <1>2, <1>9, KeptToggles DEF SettingsInv
  <2>2. r \in Toggles' => /\ ~Asks(queue', r, Recording)
                          /\ ~Asks(queue', r, {"SET is_open"})
                          /\ ~Asks(queue', r, {"CLEAR is_open"})
    <3>1. "SELECT is_open" \notin Recording
      BY DEF Recording, InsertBlockStmt, AuditLedger, VoteLedger
    <3>2. QED
      BY <1>2, <1>7, <3>1
  <2>3. r \notin Flipped' /\ r \notin Flipped
    <3>1. "ok" # NULL
      BY NullAssumption DEF Replies
    <3>2. QED
      BY <1>2, <1>8, <2>2, <3>1 DEF Flipped
  <2>4. \A t \in Toggles : t \in Flipped' <=> t \in Flipped
    <3>1. \A t \in Toggles : t \in Toggles' /\ t # r
      BY <1>8
    <3>2. QED
      BY <1>2, <3>1 DEF Flipped
  <2>5. Flipped' = Flipped
    <3>1. Flipped \subseteq Toggles /\ \A t \in Flipped' : t \in Toggles
      <4>1. \A t \in Flipped' : t \in Toggles'
        BY DEF Flipped
      <4>2. QED
        BY <1>8, <2>3, <4>1 DEF Flipped
    <3>2. QED
      BY <2>4, <3>1
  <2>6. Deciding'
    BY <1>2, <1>3, <1>8, <2>1, <2>2 DEF StatusInv, Deciding
  <2>7. StatusInv'
    BY <1>3, <2>1, <2>5, <2>6 DEF StatusInv, OpenBy
  <2>8. ASSUME NEW s \in Requests, Sent(s, "castVote")', AwayFromToggles(s)', Entered(s)'
        PROVE  OpenAfter(Toggles \cap req[s].after)'
    <3>1. s # r
      <4>1. ASSUME s = r PROVE FALSE
        <5>1. "SELECT settings" \notin Voting
          BY DEF Voting
        <5>2. ~Asks(queue', r, Voting)
          BY <1>2, <1>7, <2>8, <4>1, <5>1
        <5>3. ~Stored(r)'
          BY <1>2, <1>3 DEF Stored, SettingsInv
        <5>4. QED
          BY <2>8, <4>1, <5>2, <5>3 DEF Entered
      <4>2. QED
        BY <4>1
    <3>2. Entered(s) /\ Sent(s, "castVote")
      BY <1>2, <1>3, <2>8, <3>1 DEF Entered, Stored, Sent
    <3>3. QED
      BY <1>2, <2>1, <2>8, <3>2, KeptEntered
  <2>9. QED
    BY <2>7, <2>8 DEF EnteredOpen
<1>10. QED
  BY <1>5, <1>6, <1>9 DEF SettingsInv

\* When the process ends with a toggle under way, its client is cut off.
LEMMA EndSettings ==
    ASSUME TypeInv, HandlersInv, SettingsInv, ProcessEnds,
           UNCHANGED db \/ (queue # <<>> /\ Perform(Head(queue)))
    PROVE  SettingsInv'
<1>1. /\ req' = req /\ queue' = <<>> /\ TablesOK
      /\ \A r \in Requests : reply'[r] = IF req[r] # NULL /\ reply[r] = NULL
                                         THEN "connection lost" ELSE reply[r]
  BY DEF ProcessEnds, TypeInv, TypeOK
<1>2. \A t, stmts : ~Asks(queue', t, stmts)
  <2>1. 1..Len(<<>>) = {}
    BY EmptySeq
  <2>2. QED
    BY <1>1, <2>1 DEF Asks
<1>3. Kept
  BY <1>1 DEF Kept
<1>4. Asked' = Asked /\ Toggles' = Toggles
  BY <1>1 DEF Asked, Toggles, Sent
<1>5. \A v \in votes' : req'[v.req] # NULL
  BY <1>1, MovedVotes DEF SettingsInv
<1>6. ASSUME Calm' PROVE StatusInv' /\ EnteredOpen'
  <2>1. Calm /\ StatusInv /\ EnteredOpen
    BY <1>3, <1>6, KeptToggles DEF SettingsInv
  <2>2. \A t \in Toggles : reply[t] # NULL /\ reply'[t] = reply[t]
    <3>1. \A t \in Toggles : t \in Requests /\ req[t] # NULL /\ reply'[t] # "connection lost"
      BY <1>4, <1>6 DEF Calm, Toggles, Sent
    <3>2. QED
      BY <1>1, <3>1
  <2>3. WaitedFor(Recording)
    BY DEF WaitedFor, Recording, InsertBlockStmt, AuditLedger, VoteLedger
  <2>4. Flipped' = Flipped
    BY <1>2, <1>4, <2>2, <2>3, AnsweredAsksNothing DEF Flipped
  <2>5. settings' = settings
    <3>1. CASE UNCHANGED db
      BY <3>1 DEF db
    <3>2. CASE queue # <<>> /\ Perform(Head(queue))
      <4>1. /\ OwnStatement(Head(queue)) /\ req[Head(queue).req] # NULL
            /\ Head(queue).req \in Requests
            /\ Awaited(Head(queue)) => reply[Head(queue).req] = NULL
        BY <3>2, HeadOwn, HeadUnderway DEF Underway
      <4>2. Head(queue).stmt \in {"SET is_open", "CLEAR is_open"}
                => Awaited(Head(queue)) /\ Head(queue).req \in Toggles
        BY <4>1 DEF Awaited, OwnStatement, Own, MayIssue, Toggles, Sent
      <4>3. Head(queue).stmt \notin {"SET is_open", "CLEAR is_open"}
        BY <2>2, <4>1, <4>2
      <4>4. QED
        BY <1>1, <3>2, <4>3, PerformSettings
    <3>3. QED
      BY <3>1, <3>2
  <2>6. Deciding'
    BY <1>2 DEF Deciding
  <2>7. StatusInv'
    BY <2>1, <2>4, <2>5, <2>6 DEF StatusInv, OpenBy
  <2>8. ASSUME NEW s \in Requests, Sent(s, "castVote")', AwayFromToggles(s)', Entered(s)'
        PROVE  OpenAfter(Toggles \cap req[s].after)'
    <3>1. Stored(s)'
      BY <1>2, <2>8 DEF Entered
    <3>2. Entered(s)
      <4>1. PICK v \in votes' : v.req = s
        BY <3>1 DEF Stored
      <4>2. CASE v \in votes
        BY <4>1, <4>2 DEF Entered, Stored
      <4>3. CASE v \notin votes
        <5>1. queue # <<>> /\ Perform(Head(queue))
          BY <4>1, <4>3 DEF db
        <5>2. Head(queue).stmt = "INSERT votes" /\ Head(queue).req = s
          BY <1>1, <4>1, <4>3, <5>1, PerformSettings
        <5>3. 1 \in 1..Len(queue) /\ Head(queue) = queue[1]
          BY <5>1, HeadOwn
        <5>4. Head(queue).stmt \in Voting
          BY <5>2 DEF Voting
        <5>5. QED
          BY <5>2, <5>3, <5>4 DEF Entered, Asks
      <4>4. QED
        BY <4>2, <4>3
    <3>3. Sent(s, "castVote")
      BY <1>1, <2>8 DEF Sent
    <3>4. QED
      BY <1>3, <2>1, <2>8, <3>2, <3>3, KeptEntered
  <2>9. QED
    BY <2>7, <2>8 DEF EnteredOpen
<1>7. QED
  BY <1>4, <1>5, <1>6 DEF SettingsInv

LEMMA InitSettings == Init => SettingsInv
<1> SUFFICES ASSUME Init PROVE SettingsInv
  OBVIOUS
<1>1. Asked = {} /\ Toggles = {} /\ votes = {} /\ settings.is_open = InitiallyOpen
  BY DEF Init, InitWith, Asked, Toggles, Sent
<1>2. IsFiniteSet(Asked)
  BY <1>1, FS_EmptySet
<1>3. Flipped = {}
  BY <1>1 DEF Flipped
<1>4. OpenBy(Flipped) <=> InitiallyOpen
  <2>1. Cardinality({}) % 2 = 0
    <3>1. Cardinality({}) = 0
      BY FS_EmptySet
    <3>2. 0 % 2 = 0
      OBVIOUS
    <3>3. QED
      BY <3>1, <3>2
  <2>2. QED
    BY <1>3, <2>1, ServerAssumption DEF OpenBy
<1>5. StatusInv
  BY <1>1, <1>4 DEF StatusInv, Deciding
<1>6. EnteredOpen
  BY DEF EnteredOpen, Sent, Init, InitWith
<1>7. QED
  BY <1>1, <1>2, <1>5, <1>6 DEF SettingsInv

LEMMA NextSettings == TypeInv /\ HandlersInv /\ SettingsInv /\ [Next]_vars => SettingsInv'
<1> SUFFICES ASSUME TypeInv, HandlersInv, SettingsInv, [Next]_vars PROVE SettingsInv'
  OBVIOUS
<1>1. ASSUME NEW r \in Requests, Arrive(r) PROVE SettingsInv'
  BY <1>1, ArriveSettings
<1>2. ASSUME NEW r \in Requests, Serve(r) PROVE SettingsInv'
  BY <1>2, ServeSettings
<1>3. ASSUME NEW r \in Requests, FatalError(r) PROVE SettingsInv'
  BY <1>3, EndSettings DEF FatalError
<1>4. CASE Crash
  BY <1>4, EndSettings DEF Crash
<1>5. CASE Restart \/ UNCHANGED vars
  <2>1. UNCHANGED <<votes, settings, queue, req, reply>>
    BY <1>5 DEF Restart, vars, shared, memory, db
  <2>2. QED
    BY <2>1 DEF SettingsInv, Asked, Calm, TogglesApart, Apart, Toggles, Sent, StatusInv, OpenBy,
       Flipped, Deciding, EnteredOpen, AwayFromToggles, Entered, Stored, OpenAfter, Done
<1>6. QED
  BY <1>1, <1>2, <1>3, <1>4, <1>5 DEF Next

LEMMA SettingsInvariant == Spec => [](TypeInv /\ HandlersInv /\ SettingsInv)
<1>1. Init => SettingsInv
  BY InitSettings
<1>2. TypeInv /\ HandlersInv /\ SettingsInv /\ [Next]_vars => SettingsInv'
  BY NextSettings
<1>3. QED
  BY <1>1, <1>2, HandlersInvariant, PTL DEF Spec

\* Toggles that do not overlap each other are all counted and none is counted
\* twice, for any number of them, between any other requests, through failed
\* statements, kills and restarts: the status is the one the server started
\* with, flipped once for every toggle that was told it had been done.
THEOREM TogglesAreCounted == Spec => []TogglesAddUp
<1>1. TypeInv /\ HandlersInv /\ SettingsInv => TogglesAddUp
  <2> SUFFICES ASSUME TypeInv, HandlersInv, SettingsInv, TogglesApart,
                      \A r \in Toggles : reply[r] \notin {NULL, "connection lost"}
               PROVE  settings.is_open <=> OpenAfter(Toggles)
    BY DEF TogglesAddUp
  <2>1. Calm /\ StatusInv
    BY DEF Calm, SettingsInv
  <2>2. WaitedFor(Recording)
    BY DEF WaitedFor, Recording, InsertBlockStmt, AuditLedger, VoteLedger
  <2>3. \A t \in Toggles : ~Asks(queue, t, Recording)
    BY <2>2, AnsweredAsksNothing
  <2>4. Flipped = {r \in Toggles : Done(r, "toggleElectionStatus")}
    BY <2>3 DEF Flipped, Done, Toggles
  <2>5. QED
    BY <2>1, <2>4 DEF StatusInv, OpenBy, OpenAfter
<1>2. QED
  BY <1>1, SettingsInvariant, PTL

\* No vote is stored that asked while the election was closed, whatever other
\* votes, resets and deletions it overlaps and whatever fails, as long as it
\* overlaps no toggle.
THEOREM ClosedTakesNoVote == Spec => []NoVoteWhileClosed
<1>1. SettingsInv => NoVoteWhileClosed
  BY DEF SettingsInv, NoVoteWhileClosed, Calm, EnteredOpen, AwayFromToggles, Entered
<1>2. QED
  BY <1>1, SettingsInvariant, PTL

(***************************************************************************)
(* The lock of the candidate ledger: the inductive invariant.              *)
(***************************************************************************)
IsSequence(s) == \E S : s \in Seq(S)

IsToggle(r)    == Sent(r, "toggleElectionStatus")
IsCandidate(r) == req[r] # NULL /\ req[r].op \in CandidateHandlers
Watched(r)     == IsToggle(r) \/ IsCandidate(r)

Toggling == {"SELECT is_open", "SET is_open", "CLEAR is_open"}

\* The statements of the candidate handlers, and those of them at which the
\* lock of a transaction that is submitted has been read.
PastLock == {"SELECT existing", "SELECT last_tx_id"}

SavesTx == "INSERT candidate_ledger_blocks"

CandidateSteps ==
    PastLock \cup {SavesTx, "SELECT lock", "SELECT row", "SELECT id", "UPDATE candidates",
                   "INSERT candidates", "UPDATE sync_state", "SELECT legacy", "UPDATE legacy"}

Fits(r, stmt) ==
    /\ stmt \in Toggling => IsToggle(r)
    /\ IsToggle(r) => stmt \in Toggling \cup Recording
    /\ stmt \in CandidateSteps <=> IsCandidate(r)

\* Toggles and candidate handlers wait for one statement at a time.
EntryOK(i) ==
    LET r == queue[i].req
    IN  /\ r \in Requests /\ req[r] # NULL
        /\ Fits(r, queue[i].stmt)
        /\ Watched(r) => /\ reply[r] = NULL
                         /\ \A j \in 1..Len(queue) : queue[j].req = r => j = i

\* What a request may do that the lock forbids was forbidden by nothing when it
\* was sent.
Unlocked(r) ==
    Calm /\ AwayFromToggles(r) => ~OpenAfter(Toggles \cap req[r].after)

Lawful(b) ==
    /\ RequestOf(b) \in Requests /\ req[RequestOf(b)] # NULL
    /\ TxOf(b).tx_type \in LOCKED_FORBIDDEN_TYPES => Unlocked(RequestOf(b))

\* What a statement past the lock is for.
Carried(q) ==
    /\ q.stmt \in PastLock /\ req[q.req].tx_type \in LOCKED_FORBIDDEN_TYPES => Unlocked(q.req)
    /\ q.stmt = SavesTx => q.block.block.index \in Nat \ {0} /\ Lawful(q.block.block)

LedgerOK(s) ==
    /\ IsSequence(s)
    /\ \A i \in 1..Len(s) :
          IF i = 1 THEN s[i].index = 0 ELSE s[i].index \in Nat \ {0} /\ Lawful(s[i])

QueueRight ==
    /\ IsSequence(queue)
    /\ \A i \in 1..Len(queue) : EntryOK(i) /\ Carried(queue[i])

RequestRight(r) ==
    /\ req[r] = NULL => reply[r] = NULL
    /\ req[r] # NULL => req[r].after \subseteq Requests /\ \A s \in req[r].after : reply[s] # NULL

RequestsRight ==
    /\ DOMAIN req = Requests /\ DOMAIN reply = Requests
    /\ \A r \in Requests : RequestRight(r)
    /\ IsFiniteSet(Asked)

LedgersRight ==
    /\ LedgerOK(candidateChain) /\ LedgerOK(candidate_blocks)
    /\ candidate_blocks # <<>>
    /\ up => candidateChain # <<>>

TablesRight ==
    /\ settings \in [is_open : BOOLEAN]
    /\ DOMAIN users \subseteq Users
    /\ \A u \in DOMAIN users : "public_key" \in DOMAIN users[u]
                               /\ users[u].public_key \in KeyPairs \cup {NULL}

LockInv ==
    /\ QueueRight /\ RequestsRight /\ LedgersRight /\ TablesRight
    /\ Calm => StatusInv

(***************************************************************************)
(* The queue after a callback.                                             *)
(***************************************************************************)
LEMMA IssuedSequence ==
    ASSUME NEW S, queue \in Seq(S), queue # <<>>, NEW qs \in Seq(S), Issue(qs)
    PROVE  /\ queue' \in Seq(S)
           /\ Head(queue) = queue[1]
           /\ Len(queue) \in Nat \ {0} /\ Len(qs) \in Nat
           /\ Len(queue') = Len(queue) - 1 + Len(qs)
           /\ \A i \in 1..Len(queue) - 1 : queue'[i] = queue[i + 1]
           /\ \A j \in 1..Len(qs) : queue'[Len(queue) - 1 + j] = qs[j]
BY DEF Issue

LEMMA Issued ==
    ASSUME IsSequence(queue), queue # <<>>, NEW qs, IsSequence(qs), Issue(qs)
    PROVE  /\ IsSequence(queue')
           /\ 1 \in 1..Len(queue) /\ Head(queue) = queue[1]
           /\ \A i \in 1..Len(queue') :
                 \/ \E k \in 1..Len(queue) : k # 1 /\ i = k - 1 /\ queue'[i] = queue[k]
                 \/ \E j \in 1..Len(qs) : i = Len(queue) - 1 + j /\ queue'[i] = qs[j]
           /\ \A k \in 1..Len(queue) : k # 1 => k - 1 \in 1..Len(queue') /\ queue'[k - 1] = queue[k]
           /\ \A j \in 1..Len(qs) : Len(queue) - 1 + j \in 1..Len(queue')
                                    /\ queue'[Len(queue) - 1 + j] = qs[j]
<1>1. PICK S, T : queue \in Seq(S) /\ qs \in Seq(T)
  BY DEF IsSequence
<1>2. queue \in Seq(S \cup T) /\ qs \in Seq(S \cup T)
  BY <1>1
<1>3. /\ queue' \in Seq(S \cup T)
      /\ Head(queue) = queue[1]
      /\ Len(queue) \in Nat \ {0} /\ Len(qs) \in Nat
      /\ Len(queue') = Len(queue) - 1 + Len(qs)
      /\ \A i \in 1..Len(queue) - 1 : queue'[i] = queue[i + 1]
      /\ \A j \in 1..Len(qs) : queue'[Len(queue) - 1 + j] = qs[j]
  BY <1>2, IssuedSequence
<1>4. ASSUME NEW i \in 1..Len(queue')
      PROVE  \/ \E k \in 1..Len(queue) : k # 1 /\ i = k - 1 /\ queue'[i] = queue[k]
             \/ \E j \in 1..Len(qs) : i = Len(queue) - 1 + j /\ queue'[i] = qs[j]
  <2>1. CASE i <= Len(queue) - 1
    <3>1. i + 1 \in 1..Len(queue) /\ i + 1 # 1 /\ i = (i + 1) - 1 /\ queue'[i] = queue[i + 1]
      BY <1>3, <2>1
    <3>2. QED
      BY <3>1
  <2>2. CASE i > Len(queue) - 1
    <3>1. i - (Len(queue) - 1) \in 1..Len(qs) /\ i = Len(queue) - 1 + (i - (Len(queue) - 1))
      BY <1>3, <2>2
    <3>2. QED
      BY <1>3, <3>1
  <2>3. QED
    BY <1>3, <2>1, <2>2
<1>5. \A k \in 1..Len(queue) : k # 1 => k - 1 \in 1..Len(queue') /\ queue'[k - 1] = queue[k]
  BY <1>3
<1>6. \A j \in 1..Len(qs) : Len(queue) - 1 + j \in 1..Len(queue')
  BY <1>3
<1>7. IsSequence(queue')
  BY <1>3 DEF IsSequence
<1>8. \A j \in 1..Len(qs) : queue'[Len(queue) - 1 + j] = qs[j]
  BY <1>3
<1>9. 1 \in 1..Len(queue) /\ Head(queue) = queue[1]
  BY <1>3
<1>10. QED
  BY <1>4, <1>5, <1>6, <1>7, <1>8, <1>9

LEMMA ShortSequences ==
    /\ IsSequence(<<>>) /\ 1..Len(<<>>) = {}
    /\ \A q : IsSequence(<<q>>) /\ 1..Len(<<q>>) = {1} /\ <<q>>[1] = q
<1>1. <<>> \in Seq({}) /\ 1..Len(<<>>) = {}
  OBVIOUS
<1>2. ASSUME NEW q PROVE <<q>> \in Seq({q}) /\ 1..Len(<<q>>) = {1} /\ <<q>>[1] = q
  OBVIOUS
<1>3. QED
  BY <1>1, <1>2 DEF IsSequence

\* A request whose statement was not at the head asks for what it asked for.
LEMMA OtherAsks ==
    ASSUME IsSequence(queue), queue # <<>>, NEW qs, IsSequence(qs), Issue(qs),
           NEW r, Head(queue).req = r, \A j \in 1..Len(qs) : qs[j].req = r,
           NEW t, t # r, NEW stmts
    PROVE  Asks(queue', t, stmts) <=> Asks(queue, t, stmts)
<1>1. /\ Head(queue) = queue[1]
      /\ \A i \in 1..Len(queue') :
            \/ \E k \in 1..Len(queue) : k # 1 /\ i = k - 1 /\ queue'[i] = queue[k]
            \/ \E j \in 1..Len(qs) : i = Len(queue) - 1 + j /\ queue'[i] = qs[j]
      /\ \A k \in 1..Len(queue) : k # 1 => k - 1 \in 1..Len(queue') /\ queue'[k - 1] = queue[k]
  BY Issued
<1>2. Asks(queue', t, stmts) => Asks(queue, t, stmts)
  BY <1>1 DEF Asks
<1>3. Asks(queue, t, stmts) => Asks(queue', t, stmts)
  <2>1. SUFFICES ASSUME NEW k \in 1..Len(queue), queue[k].req = t, queue[k].stmt \in stmts
                 PROVE  Asks(queue', t, stmts)
    BY DEF Asks
  <2>2. k # 1
    BY <1>1, <2>1
  <2>3. QED
    BY <1>1, <2>1, <2>2 DEF Asks
<1>4. QED
  BY <1>2, <1>3

\* A watched request asks for the statement at the head, then for its next.
LEMMA WatchedAsks ==
    ASSUME QueueRight, queue # <<>>, NEW qs, IsSequence(qs), Issue(qs),
           NEW r, Head(queue).req = r, Watched(r), \A j \in 1..Len(qs) : qs[j].req = r,
           NEW stmts
    PROVE  /\ Asks(queue, r, stmts) <=> Head(queue).stmt \in stmts
           /\ Asks(queue', r, stmts) <=> \E j \in 1..Len(qs) : qs[j].stmt \in stmts
<1>1. /\ 1 \in 1..Len(queue) /\ Head(queue) = queue[1]
      /\ \A i \in 1..Len(queue') :
            \/ \E k \in 1..Len(queue) : k # 1 /\ i = k - 1 /\ queue'[i] = queue[k]
            \/ \E j \in 1..Len(qs) : i = Len(queue) - 1 + j /\ queue'[i] = qs[j]
      /\ \A j \in 1..Len(qs) : Len(queue) - 1 + j \in 1..Len(queue')
                               /\ queue'[Len(queue) - 1 + j] = qs[j]
  BY Issued DEF QueueRight
<1>2. EntryOK(1)
  BY <1>1 DEF QueueRight
<1>3. \A k \in 1..Len(queue) : queue[k].req = r => k = 1
  BY <1>1, <1>2 DEF EntryOK
<1>4. Asks(queue, r, stmts) <=> Head(queue).stmt \in stmts
  BY <1>1, <1>3 DEF Asks
<1>5. ASSUME NEW j \in 1..Len(qs), qs[j].stmt \in stmts
      PROVE  Asks(queue', r, stmts)
  BY <1>1, <1>5 DEF Asks
<1>6. Asks(queue', r, stmts) => \E j \in 1..Len(qs) : qs[j].stmt \in stmts
  BY <1>1, <1>3 DEF Asks
<1>7. QED
  BY <1>4, <1>5, <1>6

(***************************************************************************)
(* What stays as it is.                                                    *)
(***************************************************************************)
\* No request is changed, no answer taken back, and none of a toggle's changed.
Steady ==
    \A r \in Requests : /\ req[r] # NULL => req'[r] = req[r]
                        /\ reply[r] # NULL => reply'[r] # NULL
                        /\ r \in Toggles /\ reply[r] # NULL => reply'[r] = reply[r]

LEMMA SteadyToggles ==
    ASSUME Steady
    PROVE  /\ Toggles \subseteq Toggles'
           /\ \A r, s \in Requests :
                 req[r] # NULL /\ req[s] # NULL /\ Apart(r, s)' => Apart(r, s)
           /\ Calm' => Calm
           /\ \A s \in Requests : req[s] # NULL /\ AwayFromToggles(s)' => AwayFromToggles(s)
<1>1. Toggles \subseteq Toggles'
  BY DEF Steady, Toggles, Sent
<1>2. \A r, s \in Requests :
          req[r] # NULL /\ req[s] # NULL /\ Apart(r, s)' => Apart(r, s)
  BY DEF Steady, Apart
<1>3. \A r \in Toggles : r \in Requests /\ req[r] # NULL
  BY DEF Toggles, Sent
<1>4. "connection lost" # NULL
  BY NullAssumption DEF Replies
<1>5. Calm' => Calm
  BY <1>1, <1>2, <1>3, <1>4 DEF Calm, TogglesApart, Steady
<1>6. QED
  BY <1>1, <1>2, <1>3, <1>5 DEF AwayFromToggles

LEMMA UnlockedStays ==
    ASSUME RequestsRight, Steady, NEW s \in Requests, req[s] # NULL, Unlocked(s)
    PROVE  Unlocked(s)'
<1> DEFINE flips == {r \in Toggles \cap req[s].after : Done(r, "toggleElectionStatus")}
<1>1. req'[s] = req[s]
  BY DEF Steady
<1>2. \A r \in req[s].after : r \in Requests /\ reply[r] # NULL /\ req[r] # NULL
  BY DEF RequestsRight, RequestRight
<1>3. \A r \in req[s].after : req'[r] = req[r] /\ (r \in Toggles => reply'[r] = reply[r])
  BY <1>2 DEF Steady
<1>4. flips' = flips
  BY <1>1, <1>2, <1>3 DEF Toggles, Sent, Done
<1>5. OpenAfter(Toggles \cap req[s].after)' <=> OpenAfter(Toggles \cap req[s].after)
  BY <1>4 DEF OpenAfter
<1>6. QED
  BY <1>5, SteadyToggles DEF Unlocked

LEMMA LawfulStays ==
    ASSUME RequestsRight, Steady, NEW b, Lawful(b)
    PROVE  Lawful(b)'
<1>1. req'[RequestOf(b)] # NULL
  BY DEF Lawful, Steady
<1>2. QED
  BY <1>1, UnlockedStays DEF Lawful

LEMMA LedgerStays ==
    ASSUME RequestsRight, Steady, NEW s, LedgerOK(s)
    PROVE  LedgerOK(s)'
BY LawfulStays DEF LedgerOK

LEMMA CarriedStays ==
    ASSUME RequestsRight, Steady, NEW q, q.req \in Requests, req[q.req] # NULL, Carried(q)
    PROVE  Carried(q)'
<1>1. req'[q.req] = req[q.req]
  BY DEF Steady
<1>2. QED
  BY <1>1, UnlockedStays, LawfulStays DEF Carried

LEMMA LedgerGrows ==
    ASSUME NEW s, LedgerOK(s), s # <<>>, NEW b, b.index \in Nat \ {0}, Lawful(b)
    PROVE  LedgerOK(Append(s, b)) /\ Append(s, b) # <<>>
<1>1. PICK S : s \in Seq(S)
  BY DEF LedgerOK, IsSequence
<1>2. s \in Seq(S \cup {b})
  BY <1>1
<1>3. /\ Append(s, b) \in Seq(S \cup {b}) /\ Append(s, b) # <<>>
      /\ Len(s) \in Nat \ {0} /\ Len(Append(s, b)) = Len(s) + 1
      /\ \A i \in 1..Len(s) : Append(s, b)[i] = s[i]
      /\ Append(s, b)[Len(s) + 1] = b
  BY <1>2
<1>4. QED
  BY <1>3 DEF LedgerOK, IsSequence

(***************************************************************************)
(* What each callback does, as far as the lock is concerned.               *)
(***************************************************************************)
LEMMA PerformTables ==
    ASSUME TablesRight, NEW q, q.req \in Requests, Perform(q)
    PROVE  /\ TablesRight'
           /\ q.stmt \notin {"SET is_open", "CLEAR is_open"} => settings' = settings
           /\ q.stmt = "SET is_open" => settings'.is_open
           /\ q.stmt = "CLEAR is_open" => ~settings'.is_open
<1>1. CASE UpdateIsOpen(q)
  <2>1. /\ q.stmt \in {"SET is_open", "CLEAR is_open"} /\ users' = users
        /\ settings' = [settings EXCEPT !.is_open = (q.stmt = "SET is_open")]
    BY <1>1 DEF UpdateIsOpen
  <2>2. settings' \in [is_open : BOOLEAN] /\ settings'.is_open = (q.stmt = "SET is_open")
    BY <2>1 DEF TablesRight
  <2>3. QED
    BY <2>1, <2>2 DEF TablesRight
<1>2. CASE UpdateFlag(q)
  <2>1. /\ settings' = settings /\ q.stmt \in {"SET sudah_vote", "CLEAR sudah_vote"}
        /\ DOMAIN users' = DOMAIN users
        /\ \A u \in DOMAIN users :
              users'[u] = users[u] \/ \E f : users'[u] = [users[u] EXCEPT !.sudah_vote = f]
    BY <1>2 DEF UpdateFlag
  <2>2. QED
    BY <2>1 DEF TablesRight
<1>3. CASE UpdateKeys(q)
  <2>1. /\ settings' = settings /\ q.stmt = "UPDATE keys" /\ DOMAIN users' = DOMAIN users
        /\ \A u \in DOMAIN users :
              users'[u] = users[u]
                 \/ users'[u] = [users[u] EXCEPT !.public_key = GeneratedKey(q.req)]
    BY <1>3 DEF UpdateKeys
  <2>2. GeneratedKey(q.req) \in KeyPairs
    BY DEF GeneratedKey, KeyPairs
  <2>3. QED
    BY <2>1, <2>2 DEF TablesRight
<1>4. CASE DeleteUser(q)
  <2>1. /\ settings' = settings /\ q.stmt = "DELETE users" /\ DOMAIN users' \subseteq DOMAIN users
        /\ \A u \in DOMAIN users' : users'[u] = users[u]
    BY <1>4 DEF DeleteUser
  <2>2. QED
    BY <2>1 DEF TablesRight
<1>5. CASE ~UpdateIsOpen(q) /\ ~UpdateFlag(q) /\ ~UpdateKeys(q) /\ ~DeleteUser(q)
  <2>1. /\ settings' = settings /\ users' = users
        /\ q.stmt \notin {"SET is_open", "CLEAR is_open"}
    BY <1>5 DEF Perform, Read, InsertVote, DeleteVotes, SaveBlock, DeleteBlocks, InsertAuditLog,
       db, InsertBlockStmt
  <2>2. QED
    BY <2>1 DEF TablesRight
<1>6. QED
  BY <1>1, <1>2, <1>3, <1>4, <1>5

\* The callbacks of votes and user administration stay among themselves.
PlainStep(r) ==
    /\ Head(queue).stmt \notin Toggling \cup Recording \cup CandidateSteps
    /\ \E qs : /\ IsSequence(qs) /\ Issue(qs)
               /\ \A j \in 1..Len(qs) :
                     qs[j].req = r /\ qs[j].stmt \notin Toggling \cup CandidateSteps
    /\ \/ reply' = reply
       \/ \E message \in Replies : reply' = [reply EXCEPT ![r] = message]

PlainHead == Head(queue).stmt \notin Toggling \cup Recording \cup CandidateSteps

Plain ==
    {"SELECT settings", "SELECT sudah_vote", "SELECT candidate", "INSERT votes", "DELETE votes",
     "SET sudah_vote", "CLEAR sudah_vote", "UPDATE keys", "DELETE users", "DELETE blockchain",
     "INSERT blockchain"}

LEMMA PlainStatements ==
    /\ InsertBlockStmt(VoteLedger) = "INSERT blockchain"
    /\ InsertBlockStmt(AuditLedger) = "INSERT audit_ledger_blocks"
    /\ \A stmt \in Plain : stmt \notin Toggling \cup Recording \cup CandidateSteps
    /\ \A stmt \in Recording : stmt \notin Toggling \cup CandidateSteps
BY DEF InsertBlockStmt, VoteLedger, AuditLedger, Toggling, Recording, CandidateSteps, PastLock,
   SavesTx, Plain

LEMMA PlainCallback ==
    ASSUME NEW r, NEW stmt \in Plain, Succeeds(r, stmt) \/ Fails(r, stmt)
    PROVE  PlainHead
BY PlainStatements DEF PlainHead, Succeeds, Fails, Executes

LEMMA IssuePlain ==
    ASSUME PlainHead, NEW r, NEW stmt, NEW block, Issue(<<Query(r, stmt, block)>>), reply' = reply,
           stmt \notin Toggling \cup CandidateSteps
    PROVE  PlainStep(r)
<1> DEFINE q == Query(r, stmt, block)
<1>1. q.req = r /\ q.stmt = stmt
  BY DEF Query
<1> HIDE DEF q
<1>2. IsSequence(<<q>>) /\ Issue(<<q>>) /\ \A j \in 1..Len(<<q>>) : <<q>>[j] = q
  BY ShortSequences DEF q
<1>3. QED
  BY <1>1, <1>2 DEF PlainStep, PlainHead

LEMMA ProceedPlain ==
    ASSUME PlainHead, NEW r, NEW stmt \in Plain, NEW block, Proceed(r, stmt, block)
    PROVE  PlainStep(r)
BY IssuePlain, PlainStatements DEF Proceed

LEMMA AnswerPlain ==
    ASSUME PlainHead, NEW r, NEW message \in Replies, Answer(r, message)
    PROVE  PlainStep(r)
<1>1. IsSequence(<<>>) /\ Issue(<<>>) /\ \A j \in 1..Len(<<>>) : FALSE
  BY ShortSequences DEF Answer
<1>2. \E m \in Replies : reply' = [reply EXCEPT ![r] = m]
  BY DEF Answer
<1>3. QED
  BY <1>1, <1>2 DEF PlainStep, PlainHead

LEMMA RecordPlain ==
    ASSUME PlainHead, NEW r, RecordAuditLog(r)
    PROVE  PlainStep(r)
<1>1. Issue(<<Query(r, InsertBlockStmt(AuditLedger), NextAuditBlock(r))>>) /\ reply' = reply
  BY DEF RecordAuditLog, AddBlock
<1>2. InsertBlockStmt(AuditLedger) \notin Toggling \cup CandidateSteps
  BY PlainStatements DEF Recording
<1>3. QED
  BY <1>1, <1>2, IssuePlain

LEMMA VoteStep ==
    ASSUME NEW r, CastVote(r)
    PROVE  PlainStep(r)
<1> USE DEF Plain, Replies
<1>1. CASE CheckSettings(r)
  BY <1>1, PlainCallback, ProceedPlain, AnswerPlain DEF CheckSettings
<1>2. CASE CheckSudahVote(r)
  BY <1>2, PlainCallback, ProceedPlain, AnswerPlain DEF CheckSudahVote
<1>3. CASE CheckCandidate(r)
  BY <1>3, PlainCallback, ProceedPlain, AnswerPlain DEF CheckCandidate
<1>4. CASE CheckFails(r)
  BY <1>4, PlainCallback, AnswerPlain DEF CheckFails
<1>5. CASE VoteSaved(r)
  BY <1>5, PlainCallback, ProceedPlain DEF VoteSaved
<1>6. CASE VoteNotSaved(r)
  BY <1>6, PlainCallback, AnswerPlain DEF VoteNotSaved
<1>7. CASE FlagSet(r)
  <2> DEFINE insert == Query(r, InsertBlockStmt(VoteLedger), NextVoteBlock(r))
             keys   == Query(r, "UPDATE keys", NULL)
  <2>1. /\ Succeeds(r, "SET sudah_vote") /\ reply' = reply
        /\ Issue(<<keys, insert>>) \/ Issue(<<insert>>)
    BY <1>7 DEF FlagSet
  <2>2. /\ insert.req = r /\ insert.stmt = "INSERT blockchain"
        /\ keys.req = r /\ keys.stmt = "UPDATE keys"
    BY PlainStatements DEF Query
  <2> HIDE DEF insert, keys
  <2>3. /\ <<keys, insert>> \in Seq({keys, insert}) /\ <<insert>> \in Seq({keys, insert})
        /\ \A j \in 1..Len(<<keys, insert>>) : <<keys, insert>>[j] \in {keys, insert}
        /\ \A j \in 1..Len(<<insert>>) : <<insert>>[j] \in {keys, insert}
    OBVIOUS
  <2>4. PICK qs \in {<<keys, insert>>, <<insert>>} : Issue(qs)
    BY <2>1
  <2>5. IsSequence(qs) /\ \A j \in 1..Len(qs) : qs[j] \in {keys, insert}
    BY <2>3, <2>4 DEF IsSequence
  <2>6. \A j \in 1..Len(qs) : qs[j].req = r /\ qs[j].stmt \notin Toggling \cup CandidateSteps
    BY <2>2, <2>5, PlainStatements DEF Plain
  <2>7. PlainHead
    BY <2>1, PlainCallback DEF Plain
  <2>8. QED
    BY <2>1, <2>4, <2>5, <2>6, <2>7 DEF PlainStep, PlainHead
<1>8. CASE FlagNotSet(r)
  BY <1>8, PlainCallback, AnswerPlain DEF FlagNotSet
<1>9. CASE KeysSaved(r)
  <2>1. Succeeds(r, "UPDATE keys") /\ Issue(<<>>) /\ reply' = reply
    BY <1>9 DEF KeysSaved
  <2>2. PlainHead
    BY <2>1, PlainCallback
  <2>3. QED
    BY <2>1, <2>2, ShortSequences DEF PlainStep, PlainHead
<1>10. CASE VoteBlockSaved(r)
  BY <1>10, PlainCallback, PlainStatements, RecordPlain DEF VoteBlockSaved
<1>11. CASE VoteBlockLost(r)
  BY <1>11, PlainCallback, PlainStatements, AnswerPlain DEF VoteBlockLost
<1>12. QED
  BY <1>1, <1>2, <1>3, <1>4, <1>5, <1>6, <1>7, <1>8, <1>9, <1>10, <1>11 DEF CastVote

LEMMA UserStep ==
    ASSUME NEW r, UserAdmin(r)
    PROVE  PlainStep(r)
<1> USE DEF Plain, Replies
<1>1. CASE UserDeleted(r)
  BY <1>1, PlainCallback, RecordPlain DEF UserDeleted
<1>2. CASE UserNotDeleted(r)
  BY <1>2, PlainCallback, AnswerPlain DEF UserNotDeleted
<1>3. CASE VotesDeleted(r)
  BY <1>3, PlainCallback, ProceedPlain DEF VotesDeleted
<1>4. CASE VotesNotDeleted(r)
  BY <1>4, PlainCallback, AnswerPlain DEF VotesNotDeleted
<1>5. CASE FlagsCleared(r)
  BY <1>5, PlainCallback, ProceedPlain, RecordPlain DEF FlagsCleared
<1>6. CASE FlagsNotCleared(r)
  BY <1>6, PlainCallback, AnswerPlain DEF FlagsNotCleared
<1>7. CASE BlocksDeleted(r)
  BY <1>7, PlainCallback, PlainStatements, ProceedPlain DEF BlocksDeleted
<1>8. CASE GenesisSaved(r)
  <2>1. /\ Succeeds(r, "INSERT blockchain") /\ reply' = reply
        /\ Issue(<<Query(r, InsertBlockStmt(AuditLedger), NextAuditBlock(r))>>)
    BY <1>8, PlainStatements DEF GenesisSaved
  <2>2. InsertBlockStmt(AuditLedger) \notin Toggling \cup CandidateSteps
    BY PlainStatements DEF Recording
  <2>3. QED
    BY <2>1, <2>2, PlainCallback, IssuePlain
<1>9. CASE ResetChainFails(r)
  BY <1>9, PlainCallback, PlainStatements, AnswerPlain DEF ResetChainFails
<1>10. QED
  BY <1>1, <1>2, <1>3, <1>4, <1>5, <1>6, <1>7, <1>8, <1>9 DEF UserAdmin

(***************************************************************************)
(* One callback of any handler.                                            *)
(***************************************************************************)
Turns(r, qs) ==
    /\ r \in Requests /\ queue # <<>> /\ Head(queue).req = r /\ req' = req
    /\ IsSequence(qs) /\ Issue(qs)
    /\ \A j \in 1..Len(qs) : qs[j].req = r /\ Fits(r, qs[j].stmt) /\ Carried(qs[j])
    /\ Watched(r) => (\A j \in 1..Len(qs) : j = 1) /\ (qs = <<>> \/ reply' = reply)
    /\ \/ reply' = reply
       \/ \E m : reply' = [reply EXCEPT ![r] = m] /\ (Watched(r) \/ m # NULL)

LEMMA HeadEntry ==
    ASSUME QueueRight, queue # <<>>
    PROVE  /\ 1 \in 1..Len(queue) /\ Head(queue) = queue[1]
           /\ EntryOK(1) /\ Carried(Head(queue))
<1>1. PICK S : queue \in Seq(S)
  BY DEF QueueRight, IsSequence
<1>2. 1 \in 1..Len(queue) /\ Head(queue) = queue[1]
  BY <1>1
<1>3. QED
  BY <1>2 DEF QueueRight

LEMMA TurnsSteady ==
    ASSUME QueueRight, RequestsRight, NEW r, NEW qs, Turns(r, qs)
    PROVE  /\ Steady
           /\ Watched(r) => reply[r] = NULL
           /\ \A t \in Requests : t # r => reply'[t] = reply[t]
<1>1. Head(queue) = queue[1] /\ EntryOK(1)
  BY HeadEntry DEF Turns
<1>2. Watched(r) => reply[r] = NULL
  BY <1>1 DEF EntryOK, Turns
<1>3. \A t \in Requests : t # r => reply'[t] = reply[t]
  BY DEF Turns, RequestsRight
<1>4. r \in Toggles => Watched(r)
  BY DEF Toggles, Watched, IsToggle
<1>5. r \in Requests /\ (reply'[r] = reply[r] \/ Watched(r) \/ reply'[r] # NULL)
  BY DEF Turns, RequestsRight
<1>6. req' = req
  BY DEF Turns
<1>7. QED
  BY <1>2, <1>3, <1>4, <1>5, <1>6 DEF Steady

LEMMA TurnsQueue ==
    ASSUME QueueRight, RequestsRight, NEW r, NEW qs, Turns(r, qs)
    PROVE  QueueRight' /\ RequestsRight'
<1>1. /\ r \in Requests /\ req' = req /\ Head(queue).req = r /\ queue # <<>>
      /\ IsSequence(qs) /\ Issue(qs) /\ IsSequence(queue)
  BY DEF Turns, QueueRight
<1>2. /\ Steady
      /\ Watched(r) => reply[r] = NULL
      /\ \A t \in Requests : t # r => reply'[t] = reply[t]
  BY TurnsSteady
<1>3. /\ IsSequence(queue') /\ 1 \in 1..Len(queue) /\ Head(queue) = queue[1]
      /\ \A i \in 1..Len(queue') :
            \/ \E k \in 1..Len(queue) : k # 1 /\ i = k - 1 /\ queue'[i] = queue[k]
            \/ \E j \in 1..Len(qs) : i = Len(queue) - 1 + j /\ queue'[i] = qs[j]
  BY <1>1, Issued
<1>4. \A t : /\ Watched(t)' <=> Watched(t)
             /\ \A stmt : Fits(t, stmt)' <=> Fits(t, stmt)
  BY <1>1 DEF Watched, IsToggle, IsCandidate, Sent, Fits
<1>5. \A k \in 1..Len(queue) : k # 1 /\ Watched(queue[k].req) => queue[k].req # r
  BY <1>1, <1>3 DEF QueueRight, EntryOK
<1>6. ASSUME NEW i \in 1..Len(queue'), NEW k \in 1..Len(queue), k # 1, i = k - 1,
             queue'[i] = queue[k]
      PROVE  EntryOK(i)' /\ Carried(queue[i])'
  <2> DEFINE t == queue[k].req
  <2>1. EntryOK(k) /\ Carried(queue[k]) /\ t \in Requests /\ req[t] # NULL
    BY DEF QueueRight, EntryOK
  <2>2. queue'[i].req = t
    BY <1>6
  <2>3. Watched(t) => /\ t # r /\ reply'[t] = NULL
                      /\ \A i2 \in 1..Len(queue') : queue'[i2].req = t => i2 = i
    <3>1. SUFFICES ASSUME Watched(t)
                   PROVE  /\ t # r /\ reply'[t] = NULL
                          /\ \A i2 \in 1..Len(queue') : queue'[i2].req = t => i2 = i
      OBVIOUS
    <3>2. t # r /\ reply'[t] = NULL
      BY <1>2, <1>5, <1>6, <2>1, <3>1 DEF EntryOK
    <3>3. \A k2 \in 1..Len(queue) : queue[k2].req = t => k2 = k
      BY <2>1, <3>1 DEF EntryOK
    <3>4. \A j \in 1..Len(qs) : qs[j].req # t
      BY <3>2 DEF Turns
    <3>5. QED
      BY <1>3, <1>6, <3>2, <3>3, <3>4
  <2>4. Fits(t, queue'[i].stmt)
    BY <1>6, <2>1 DEF EntryOK
  <2>5. Carried(queue[i])'
    <3>1. ASSUME NEW q, q = queue[k] PROVE Carried(q)'
      BY <1>2, <2>1, <3>1, CarriedStays
    <3>2. QED
      BY <1>6, <3>1
  <2>6. QED
    BY <1>1, <1>4, <2>1, <2>2, <2>3, <2>4, <2>5 DEF EntryOK
<1>7. ASSUME NEW i \in 1..Len(queue'), NEW j \in 1..Len(qs), i = Len(queue) - 1 + j,
             queue'[i] = qs[j]
      PROVE  EntryOK(i)' /\ Carried(queue[i])'
  <2>1. qs[j].req = r /\ Fits(r, qs[j].stmt) /\ Carried(qs[j])
    BY DEF Turns
  <2>2. req[r] # NULL
    BY <1>1, HeadEntry DEF EntryOK
  <2>3. Watched(r) => /\ reply'[r] = NULL
                      /\ \A i2 \in 1..Len(queue') : queue'[i2].req = r => i2 = i
    <3>1. SUFFICES ASSUME Watched(r)
                   PROVE  /\ reply'[r] = NULL
                          /\ \A i2 \in 1..Len(queue') : queue'[i2].req = r => i2 = i
      OBVIOUS
    <3>2. j = 1 /\ \A j2 \in 1..Len(qs) : j2 = 1
      BY <3>1 DEF Turns
    <3>3. reply' = reply
      BY <3>1, ShortSequences DEF Turns
    <3>4. \A k \in 1..Len(queue) : k # 1 => queue[k].req # r
      BY <1>5, <3>1
    <3>5. QED
      BY <1>2, <1>3, <1>7, <3>1, <3>2, <3>3, <3>4
  <2>4. Carried(queue[i])'
    <3>1. Carried(qs[j])'
      BY <1>1, <1>2, <2>1, <2>2, CarriedStays
    <3>2. QED
      BY <1>7, <3>1
  <2>5. QED
    BY <1>1, <1>4, <1>7, <2>1, <2>2, <2>3, <2>4 DEF EntryOK
<1>8. QueueRight'
  BY <1>3, <1>6, <1>7 DEF QueueRight
<1>9. RequestsRight'
  <2>1. DOMAIN reply' = DOMAIN reply
    BY DEF Turns
  <2>2. req[r] # NULL
    BY <1>1, HeadEntry DEF EntryOK
  <2>3. \A s \in Requests : RequestRight(s)'
    <3>1. ASSUME NEW s \in Requests PROVE RequestRight(s)'
      <4>1. RequestRight(s)
        BY DEF RequestsRight
      <4>2. req[s] = NULL => reply'[s] = NULL
        BY <1>2, <2>2, <4>1 DEF RequestRight
      <4>3. req[s] # NULL => \A u \in req[s].after : reply'[u] # NULL
        BY <1>2, <4>1 DEF RequestRight, Steady
      <4>4. QED
        BY <1>1, <4>1, <4>2, <4>3 DEF RequestRight
    <3>2. QED
      BY <3>1
  <2>4. Asked' = Asked
    BY <1>1 DEF Asked
  <2>5. QED
    BY <1>1, <2>1, <2>3, <2>4 DEF RequestsRight
<1>10. QED
  BY <1>8, <1>9

(***************************************************************************)
(* The status.                                                             *)
(***************************************************************************)
LEMMA SameStatus ==
    ASSUME StatusInv, Toggles' = Toggles, settings' = settings,
           \A t \in Toggles : reply'[t] = "ok" <=> reply[t] = "ok",
           \A t \in Toggles : \A stmts : Asks(queue', t, stmts) <=> Asks(queue, t, stmts)
    PROVE  StatusInv'
<1>1. Flipped' = Flipped
  BY DEF Flipped
<1>2. Deciding'
  BY DEF StatusInv, Deciding
<1>3. QED
  BY <1>1, <1>2 DEF StatusInv, OpenBy

LEMMA TurnsAside ==
    ASSUME QueueRight, RequestsRight, NEW r, NEW qs, Turns(r, qs), ~IsToggle(r),
           settings' = settings, StatusInv
    PROVE  StatusInv'
<1>1. \A t \in Requests : t # r => reply'[t] = reply[t]
  BY TurnsSteady
<1>2. \A t, stmts : t # r => (Asks(queue', t, stmts) <=> Asks(queue, t, stmts))
  BY OtherAsks DEF Turns, QueueRight
<1>3. Toggles' = Toggles /\ \A t \in Toggles : t \in Requests /\ t # r
  BY DEF Turns, Toggles, Sent, IsToggle
<1>4. QED
  BY <1>1, <1>2, <1>3, SameStatus

\* The effect on the status of a callback of a toggle: of the one that follows
\* the update, and of the others.
Counts(r, qs) ==
    /\ Head(queue).stmt \in {"SET is_open", "CLEAR is_open"}
    /\ settings'.is_open <=> Head(queue).stmt = "SET is_open"
    /\ \E q : qs = <<q>> /\ q.stmt \in Recording

Stays(r, qs) ==
    /\ settings' = settings
    /\ Head(queue).stmt \in Recording <=>
          reply'[r] = "ok" \/ \E j \in 1..Len(qs) : qs[j].stmt \in Recording
    /\ \A j \in 1..Len(qs) : /\ qs[j].stmt = "SET is_open" => ~settings.is_open
                             /\ qs[j].stmt = "CLEAR is_open" => settings.is_open

\* Toggles that do not overlap: while one waits the others are answered.
LEMMA OthersDone ==
    ASSUME QueueRight, RequestsRight, TogglesApart, NEW r \in Toggles, reply[r] = NULL,
           NEW t \in Toggles, t # r
    PROVE  /\ reply[t] # NULL
           /\ \A stmts : ~Asks(queue, t, stmts)
<1>1. /\ r \in Requests /\ t \in Requests /\ IsToggle(t)
      /\ req[r] # NULL /\ req[t] # NULL
  BY DEF Toggles, Sent, IsToggle
<1>2. Apart(r, t)
  BY DEF TogglesApart
<1>3. reply[t] # NULL
  BY <1>1, <1>2 DEF Apart, RequestsRight, RequestRight
<1>4. \A i \in 1..Len(queue) : queue[i].req # t
  BY <1>1, <1>3 DEF QueueRight, EntryOK, Watched
<1>5. QED
  BY <1>3, <1>4 DEF Asks

LEMMA ToggleTurns ==
    ASSUME QueueRight, RequestsRight, Calm, StatusInv, NEW r, NEW qs, Turns(r, qs), IsToggle(r),
           Counts(r, qs) \/ Stays(r, qs)
    PROVE  StatusInv'
<1>1. /\ r \in Toggles /\ Watched(r) /\ r \in Requests /\ queue # <<>> /\ Head(queue).req = r
      /\ IsSequence(queue) /\ IsSequence(qs) /\ Issue(qs) /\ \A j \in 1..Len(qs) : qs[j].req = r
      /\ Toggles' = Toggles
  BY DEF Turns, Toggles, IsToggle, Watched, Sent, QueueRight
<1>2. /\ reply[r] = NULL
      /\ \A t \in Requests : t # r => reply'[t] = reply[t]
  BY <1>1, TurnsSteady
<1>3. \A t, stmts : t # r => (Asks(queue', t, stmts) <=> Asks(queue, t, stmts))
  BY <1>1, OtherAsks
<1>4. \A stmts : /\ Asks(queue, r, stmts) <=> Head(queue).stmt \in stmts
                 /\ Asks(queue', r, stmts) <=> \E j \in 1..Len(qs) : qs[j].stmt \in stmts
  BY <1>1, WatchedAsks
<1>5. \A t \in Toggles : t # r =>
          t \in Requests /\ \A stmts : ~Asks(queue, t, stmts) /\ ~Asks(queue', t, stmts)
  BY <1>1, <1>2, <1>3, OthersDone DEF Calm, Toggles
<1>6. "ok" # NULL
  BY NullAssumption DEF Replies
<1>7. r \in Flipped <=> Head(queue).stmt \in Recording
  BY <1>1, <1>2, <1>4, <1>6 DEF Flipped
<1>8. r \in Flipped' <=> reply'[r] = "ok" \/ \E j \in 1..Len(qs) : qs[j].stmt \in Recording
  <2>1. r \in Flipped' <=> reply'[r] = "ok" \/ Asks(queue', r, Recording)
    BY <1>1 DEF Flipped
  <2>2. QED
    BY <1>4, <2>1
<1>9. \A t \in Toggles : t # r => (t \in Flipped' <=> t \in Flipped)
  BY <1>1, <1>2, <1>5 DEF Flipped
<1>10. Flipped \subseteq Toggles /\ Flipped' \subseteq Toggles
  BY <1>1 DEF Flipped
<1>11. CASE Counts(r, qs)
  <2>1. PICK q : qs = <<q>> /\ q.stmt \in Recording
    BY <1>11 DEF Counts
  <2>2. 1..Len(qs) = {1} /\ qs[1] = q
    BY <2>1, ShortSequences
  <2>3. \A stmt \in Recording : stmt \notin {"SET is_open", "CLEAR is_open"}
    BY DEF Recording, InsertBlockStmt, AuditLedger, VoteLedger
  <2>4. r \notin Flipped /\ r \in Flipped'
    BY <1>7, <1>8, <1>11, <2>1, <2>2, <2>3 DEF Counts
  <2>5. Flipped' = Flipped \cup {r}
    BY <1>1, <1>9, <1>10, <2>4
  <2>6. IsFiniteSet(Flipped)
    BY FlippedFinite DEF RequestsRight
  <2>7. OpenBy(Flipped') <=> ~OpenBy(Flipped)
    BY <2>4, <2>5, <2>6, OneMoreFlip
  <2>8. settings.is_open <=> Head(queue).stmt = "CLEAR is_open"
    <3>1. /\ Asks(queue, r, {"SET is_open"}) => ~settings.is_open
          /\ Asks(queue, r, {"CLEAR is_open"}) => settings.is_open
      BY <1>1 DEF StatusInv, Deciding
    <3>2. QED
      BY <1>4, <1>11, <3>1 DEF Counts
  <2>9. settings'.is_open <=> ~settings.is_open
    BY <1>11, <2>8 DEF Counts
  <2>10. ~Asks(queue', r, {"SET is_open"}) /\ ~Asks(queue', r, {"CLEAR is_open"})
    <3>1. \A stmts : Asks(queue', r, stmts) => q.stmt \in stmts
      BY <1>4, <2>1, <2>2
    <3>2. \A stmt : q.stmt # stmt => ~Asks(queue', r, {stmt})
      <4>1. \A stmt : q.stmt \in {stmt} => q.stmt = stmt
        OBVIOUS
      <4>2. QED
        BY <3>1, <4>1
    <3>3. QED
      BY <2>1, <2>3, <3>2
  <2>11. Deciding'
    BY <1>1, <1>5, <2>10 DEF Deciding
  <2>12. OpenBy(Flipped)' <=> OpenBy(Flipped')
    BY DEF OpenBy
  <2>13. QED
    BY <2>7, <2>9, <2>11, <2>12 DEF StatusInv
<1>12. CASE Stays(r, qs)
  <2>1. r \in Flipped' <=> r \in Flipped
    BY <1>7, <1>8, <1>12 DEF Stays
  <2>2. Flipped' = Flipped
    <3>1. \A t \in Toggles : t \in Flipped' <=> t \in Flipped
      BY <1>9, <2>1
    <3>2. QED
      BY <1>10, <3>1
  <2>3. /\ Asks(queue', r, {"SET is_open"}) => ~settings'.is_open
        /\ Asks(queue', r, {"CLEAR is_open"}) => settings'.is_open
    <3>1. ASSUME NEW stmt
          PROVE  Asks(queue', r, {stmt}) => \E j \in 1..Len(qs) : qs[j].stmt = stmt
      <4> DEFINE stmts == {stmt}
      <4>1. \A x : x \in stmts => x = stmt
        OBVIOUS
      <4> HIDE DEF stmts
      <4>2. Asks(queue', r, stmts) => \E j \in 1..Len(qs) : qs[j].stmt = stmt
        BY <1>4, <4>1
      <4>3. QED
        BY <4>2 DEF stmts
    <3>2. /\ settings' = settings
          /\ \A j \in 1..Len(qs) : /\ qs[j].stmt = "SET is_open" => ~settings.is_open
                                   /\ qs[j].stmt = "CLEAR is_open" => settings.is_open
      BY <1>12 DEF Stays
    <3>3. QED
      BY <3>1, <3>2
  <2>4. Deciding'
    BY <1>1, <1>5, <2>3 DEF Deciding
  <2>5. QED
    BY <1>12, <2>2, <2>4 DEF StatusInv, OpenBy, Stays
<1>13. QED
  BY <1>11, <1>12

(***************************************************************************)
(* The handlers of votes, users and the status.                            *)
(***************************************************************************)
LEMMA LedgersStay ==
    ASSUME LedgersRight, RequestsRight, Steady, UNCHANGED <<candidate_blocks, candidateChain, up>>
    PROVE  LedgersRight'
<1>1. ASSUME NEW s, s \in {candidateChain, candidate_blocks} PROVE LedgerOK(s)'
  BY <1>1, LedgerStays DEF LedgersRight
<1>2. LedgerOK(candidateChain)' /\ LedgerOK(candidate_blocks)'
  BY <1>1
<1>3. QED
  BY <1>2 DEF LedgersRight

LEMMA TurnsLock ==
    ASSUME LockInv, NEW r, NEW qs, Turns(r, qs), TablesRight',
           UNCHANGED <<candidate_blocks, candidateChain, up>> \/ LedgersRight',
           Calm /\ StatusInv => StatusInv'
    PROVE  LockInv'
<1>1. Steady
  BY TurnsSteady DEF LockInv
<1>2. QueueRight' /\ RequestsRight'
  BY TurnsQueue DEF LockInv
<1>3. LedgersRight'
  BY <1>1, LedgersStay DEF LockInv
<1>4. Calm' => StatusInv'
  BY <1>1, SteadyToggles DEF LockInv
<1>5. QED
  BY <1>2, <1>3, <1>4 DEF LockInv

LEMMA CarriesNothing ==
    ASSUME NEW q, q.stmt \notin CandidateSteps
    PROVE  Carried(q)
BY DEF Carried, CandidateSteps

LEMMA ServeTables ==
    ASSUME LockInv, NEW r \in Requests, Serve(r)
    PROVE  /\ queue # <<>> /\ Head(queue).req = r /\ req' = req /\ up' = up /\ TablesRight'
           /\ Head(queue).stmt \notin {"SET is_open", "CLEAR is_open"} => settings' = settings
<1>1. PICK stmt : Succeeds(r, stmt) \/ Fails(r, stmt)
  BY CallbackStatement DEF Serve
<1>2. queue # <<>> /\ Head(queue).req = r /\ req' = req
  BY <1>1 DEF Succeeds, Fails, Executes
<1>3. Perform(Head(queue)) \/ UNCHANGED <<users, settings>>
  BY <1>1 DEF Succeeds, Fails, db
<1>4. CASE Perform(Head(queue))
  BY <1>2, <1>4, PerformTables DEF LockInv, Serve, lifecycle
<1>5. CASE UNCHANGED <<users, settings>>
  BY <1>2, <1>5 DEF LockInv, Serve, lifecycle, TablesRight
<1>6. QED
  BY <1>3, <1>4, <1>5

LEMMA PlainLock ==
    ASSUME LockInv, NEW r \in Requests, Serve(r), UNCHANGED candidateVars, PlainStep(r)
    PROVE  LockInv'
<1>1. /\ queue # <<>> /\ Head(queue).req = r /\ req' = req /\ up' = up /\ TablesRight'
      /\ Head(queue).stmt \notin {"SET is_open", "CLEAR is_open"} => settings' = settings
  BY ServeTables
<1>2. PlainHead
  BY DEF PlainStep, PlainHead
<1>3. ~IsToggle(r) /\ ~IsCandidate(r) /\ settings' = settings
  BY <1>1, <1>2, HeadEntry DEF LockInv, EntryOK, Fits, PlainHead, Toggling
<1>4. PICK qs : /\ IsSequence(qs) /\ Issue(qs)
                /\ \A j \in 1..Len(qs) :
                      qs[j].req = r /\ qs[j].stmt \notin Toggling \cup CandidateSteps
  BY DEF PlainStep
<1>5. \A m \in Replies : m # NULL
  BY NullAssumption
<1>6. Turns(r, qs)
  BY <1>1, <1>3, <1>4, <1>5, CarriesNothing DEF Turns, Watched, Fits, PlainStep
<1>7. StatusInv => StatusInv'
  BY <1>3, <1>6, TurnsAside DEF LockInv
<1>8. UNCHANGED <<candidate_blocks, candidateChain, up>>
  BY <1>1 DEF candidateVars, candidateTables
<1>9. QED
  BY <1>1, <1>6, <1>7, <1>8, TurnsLock

\* The callback of a toggle issues one statement, or answers.
OneOrNone(r, qs) ==
    \/ /\ qs = <<>>
       /\ \E m \in Replies : reply' = [reply EXCEPT ![r] = m]
    \/ /\ reply' = reply
       /\ \E q : /\ qs = <<q>> /\ q.req = r
                 /\ q.stmt \in Recording \cup Toggling
                 /\ q.stmt \in Toggling => IsToggle(r)

LEMMA ToggleLock ==
    ASSUME LockInv, NEW r \in Requests, Serve(r), UNCHANGED candidateVars,
           Head(queue).stmt \in Toggling \cup Recording,
           NEW qs, Issue(qs), OneOrNone(r, qs),
           IsToggle(r) => Counts(r, qs) \/ Stays(r, qs)
    PROVE  LockInv'
<1>1. /\ queue # <<>> /\ Head(queue).req = r /\ req' = req /\ up' = up /\ TablesRight'
      /\ Head(queue).stmt \notin {"SET is_open", "CLEAR is_open"} => settings' = settings
  BY ServeTables
<1>2. \A stmt \in Toggling \cup Recording : stmt \notin CandidateSteps
  BY DEF Toggling, Recording, InsertBlockStmt, AuditLedger, VoteLedger, CandidateSteps, PastLock,
     SavesTx
<1>3. /\ Head(queue).stmt \in Toggling => IsToggle(r)
      /\ ~IsCandidate(r)
      /\ ~IsToggle(r) => settings' = settings
  BY <1>1, <1>2, HeadEntry DEF LockInv, EntryOK, Fits, Toggling
<1>4. /\ IsSequence(qs) /\ \A j \in 1..Len(qs) : j = 1
      /\ \A j \in 1..Len(qs) : /\ qs[j].req = r /\ qs[j].stmt \in Recording \cup Toggling
                               /\ qs[j].stmt \in Toggling => IsToggle(r)
  <2>1. CASE qs = <<>>
    <3>1. IsSequence(qs) /\ 1..Len(qs) = {}
      BY <2>1, ShortSequences
    <3>2. QED
      BY <3>1
  <2>2. ASSUME NEW q, qs = <<q>>, q.req = r, q.stmt \in Recording \cup Toggling,
               q.stmt \in Toggling => IsToggle(r)
        PROVE  /\ IsSequence(qs) /\ \A j \in 1..Len(qs) : j = 1
               /\ \A j \in 1..Len(qs) : /\ qs[j].req = r
                                        /\ qs[j].stmt \in Recording \cup Toggling
                                        /\ qs[j].stmt \in Toggling => IsToggle(r)
    <3>1. IsSequence(qs) /\ 1..Len(qs) = {1} /\ qs[1] = q
      BY <2>2, ShortSequences
    <3>2. QED
      BY <2>2, <3>1
  <2>3. QED
    BY <2>1, <2>2 DEF OneOrNone
<1>5. \A m \in Replies : m # NULL
  BY NullAssumption
<1>6. \A j \in 1..Len(qs) : qs[j].req = r /\ Fits(r, qs[j].stmt) /\ Carried(qs[j])
  BY <1>2, <1>3, <1>4, CarriesNothing DEF Fits
<1>7. /\ qs = <<>> \/ reply' = reply
      /\ reply' = reply \/ \E m : reply' = [reply EXCEPT ![r] = m] /\ m # NULL
  BY <1>5 DEF OneOrNone
<1>8. Turns(r, qs)
  BY <1>1, <1>4, <1>6, <1>7 DEF Turns
<1>9. Calm /\ StatusInv => StatusInv'
  BY <1>3, <1>8, TurnsAside, ToggleTurns DEF LockInv
<1>10. UNCHANGED <<candidate_blocks, candidateChain, up>>
  BY <1>1 DEF candidateVars, candidateTables
<1>11. QED
  BY <1>1, <1>8, <1>9, <1>10, TurnsLock

LEMMA AnswersToggle ==
    ASSUME LockInv, NEW r \in Requests, Serve(r), UNCHANGED candidateVars,
           Head(queue).stmt \in Toggling \cup Recording, NEW m \in Replies, Answer(r, m),
           m = "ok" <=> Head(queue).stmt \in Recording,
           settings' = settings
    PROVE  LockInv'
<1>1. /\ Issue(<<>>) /\ reply' = [reply EXCEPT ![r] = m]
      /\ 1..Len(<<>>) = {} /\ reply'[r] = m
  BY ShortSequences DEF Answer, LockInv, RequestsRight
<1>2. OneOrNone(r, <<>>)
  BY <1>1 DEF OneOrNone
<1>3. Stays(r, <<>>)
  BY <1>1 DEF Stays
<1>4. QED
  BY <1>1, <1>2, <1>3, ToggleLock

LEMMA RecordsToggle ==
    ASSUME LockInv, NEW r \in Requests, Serve(r), UNCHANGED candidateVars,
           Head(queue).stmt \in Toggling \cup Recording,
           NEW stmt \in Recording, NEW block,
           Issue(<<Query(r, stmt, block)>>), reply' = reply,
           \/ Head(queue).stmt \in Recording /\ settings' = settings
           \/ /\ Head(queue).stmt \in {"SET is_open", "CLEAR is_open"}
              /\ settings'.is_open <=> Head(queue).stmt = "SET is_open"
    PROVE  LockInv'
<1> DEFINE q == Query(r, stmt, block)
<1>1. q.req = r /\ q.stmt = stmt
  BY DEF Query
<1> HIDE DEF q
<1>2. Issue(<<q>>) /\ 1..Len(<<q>>) = {1} /\ <<q>>[1] = q
  BY ShortSequences DEF q
<1>3. stmt \notin Toggling
  BY DEF Recording, InsertBlockStmt, AuditLedger, VoteLedger, Toggling
<1>4. OneOrNone(r, <<q>>)
  BY <1>1, <1>3 DEF OneOrNone
<1>5. Counts(r, <<q>>) \/ Stays(r, <<q>>)
  <2>1. CASE Head(queue).stmt \in Recording /\ settings' = settings
    BY <1>1, <1>2, <1>3, <2>1 DEF Stays, Toggling
  <2>2. CASE /\ Head(queue).stmt \in {"SET is_open", "CLEAR is_open"}
             /\ settings'.is_open <=> Head(queue).stmt = "SET is_open"
    BY <1>1, <2>2 DEF Counts
  <2>3. QED
    BY <2>1, <2>2
<1>6. QED
  BY <1>2, <1>4, <1>5, ToggleLock

LEMMA SettingsLock ==
    ASSUME LockInv, NEW r \in Requests, Serve(r), UNCHANGED candidateVars, SettingsAdmin(r)
    PROVE  LockInv'
<1> DEFINE h == Head(queue).stmt
<1> USE DEF Succeeds, Fails, Executes
<1>1. /\ Head(queue).req = r /\ queue # <<>>
      /\ h \in Toggling
      /\ h \in {"SELECT is_open", "SET is_open", "CLEAR is_open"}
  BY ServeTables DEF SettingsAdmin, StatusRead, StatusNotRead, StatusUpdated, StatusNotUpdated,
     Toggling
<1>2. h \notin Recording /\ Recording # {} /\ InsertBlockStmt(AuditLedger) \in Recording
  BY <1>1 DEF Recording, InsertBlockStmt, AuditLedger, VoteLedger
<1>3. IsToggle(r)
  BY <1>1, HeadEntry DEF LockInv, EntryOK, Fits
<1>4. CASE StatusRead(r)
  <2> DEFINE next == IF settings.is_open THEN "CLEAR is_open" ELSE "SET is_open"
             q    == Query(r, next, NULL)
  <2>1. Issue(<<q>>) /\ reply' = reply /\ h = "SELECT is_open" /\ q.stmt = next /\ q.req = r
    BY <1>4 DEF StatusRead, Proceed, Query
  <2>2. /\ next = "SET is_open" => ~settings.is_open
        /\ next = "CLEAR is_open" => settings.is_open
        /\ next \in Toggling /\ next \notin Recording
    BY DEF Toggling, Recording, InsertBlockStmt, AuditLedger, VoteLedger
  <2>3. settings' = settings
    BY <2>1, ServeTables
  <2> HIDE DEF q, next
  <2>4. 1..Len(<<q>>) = {1} /\ <<q>>[1] = q
    BY ShortSequences
  <2>5. OneOrNone(r, <<q>>)
    BY <1>3, <2>1, <2>2 DEF OneOrNone
  <2>6. reply'[r] # "ok"
    <3>1. reply[r] = NULL
      BY <1>1, <1>3, HeadEntry DEF LockInv, EntryOK, Watched
    <3>2. "ok" # NULL
      BY NullAssumption DEF Replies
    <3>3. QED
      BY <2>1, <3>1, <3>2
  <2>7. Stays(r, <<q>>)
    BY <1>2, <2>1, <2>2, <2>3, <2>4, <2>6 DEF Stays
  <2>8. QED
    BY <1>1, <2>1, <2>5, <2>7, ToggleLock
<1>5. CASE StatusNotRead(r)
  <2> DEFINE m == "Database error"
  <2>1. m \in Replies /\ m # "ok" /\ Answer(r, m) /\ settings' = settings
    BY <1>5 DEF StatusNotRead, Replies, db
  <2> HIDE DEF m
  <2>2. QED
    BY <1>1, <1>2, <2>1, AnswersToggle
<1>6. CASE StatusUpdated(r)
  <2>1. /\ h \in {"SET is_open", "CLEAR is_open"} /\ Perform(Head(queue))
        /\ Issue(<<Query(r, InsertBlockStmt(AuditLedger), NextAuditBlock(r))>>)
        /\ reply' = reply
    BY <1>6 DEF StatusUpdated, RecordAuditLog, AddBlock
  <2>2. settings'.is_open <=> h = "SET is_open"
    BY <1>1, <2>1, PerformTables DEF LockInv
  <2>3. QED
    BY <1>1, <1>2, <2>1, <2>2, RecordsToggle
<1>7. CASE StatusNotUpdated(r)
  <2> DEFINE m == "Gagal update status"
  <2>1. m \in Replies /\ m # "ok" /\ Answer(r, m) /\ settings' = settings
    BY <1>7 DEF StatusNotUpdated, Replies, db
  <2> HIDE DEF m
  <2>2. QED
    BY <1>1, <1>2, <2>1, AnswersToggle
<1>8. QED
  BY <1>4, <1>5, <1>6, <1>7 DEF SettingsAdmin

LEMMA RecordLock ==
    ASSUME LockInv, NEW r \in Requests, Serve(r), UNCHANGED candidateVars, RecordAudit(r)
    PROVE  LockInv'
<1> USE DEF Succeeds, Fails, Executes
<1>1. /\ Head(queue).stmt \in Recording /\ "INSERT audit_logs" \in Recording
      /\ Head(queue).stmt \notin {"SET is_open", "CLEAR is_open"}
  BY DEF RecordAudit, AuditBlockSaved, AuditBlockLost, AuditLogSaved, AuditLogLost, Recording,
     InsertBlockStmt, AuditLedger, VoteLedger
<1>2. settings' = settings
  BY <1>1, ServeTables
<1>3. CASE AuditBlockSaved(r) \/ AuditBlockLost(r)
  <2>1. PICK block : Issue(<<Query(r, "INSERT audit_logs", block)>>) /\ reply' = reply
    BY <1>3 DEF AuditBlockSaved, AuditBlockLost, Proceed
  <2>2. QED
    BY <1>1, <1>2, <2>1, RecordsToggle
<1>4. CASE AuditLogSaved(r) \/ AuditLogLost(r)
  <2> DEFINE m == "ok"
  <2>1. m \in Replies /\ m = "ok" /\ Answer(r, m)
    BY <1>4 DEF AuditLogSaved, AuditLogLost, Replies
  <2> HIDE DEF m
  <2>2. QED
    BY <1>1, <1>2, <2>1, AnswersToggle
<1>5. QED
  BY <1>3, <1>4 DEF RecordAudit

LEMMA ServeLock ==
    ASSUME LockInv, NEW r \in Requests, Serve(r), UNCHANGED candidateVars
    PROVE  LockInv'
BY VoteStep, UserStep, PlainLock, SettingsLock, RecordLock DEF Serve, Callback

(***************************************************************************)
(* The handlers of candidates.                                             *)
(***************************************************************************)
\* The statement at the head is one of theirs, and has been answered.
CandidateHead(r) ==
    /\ r \in Requests /\ queue # <<>> /\ Head(queue).req = r
    /\ Head(queue).stmt \in CandidateSteps
    /\ up /\ UNCHANGED <<up, req, users, settings>>
    /\ \/ candidate_blocks' = candidate_blocks
       \/ /\ Head(queue).stmt = SavesTx
          /\ candidate_blocks' = Append(candidate_blocks, Head(queue).block.block)

LEMMA RunsHead ==
    ASSUME up, UNCHANGED lifecycle, NEW r \in Requests, NEW stmt \in CandidateSteps,
           Runs(r, stmt) \/ Refused(r, stmt)
    PROVE  CandidateHead(r) /\ Head(queue).stmt = stmt
<1>1. /\ queue # <<>> /\ Head(queue).req = r /\ Head(queue).stmt = stmt
      /\ UNCHANGED <<up, req, users, settings>>
  BY DEF Runs, Refused, Executes, db, lifecycle
<1>2. PerformCandidates(Head(queue)) \/ UNCHANGED candidate_blocks
  BY DEF Runs, Refused, candidateTables
<1>3. PerformCandidates(Head(queue)) =>
          \/ candidate_blocks' = candidate_blocks
          \/ /\ Head(queue).stmt = SavesTx
             /\ candidate_blocks' = Append(candidate_blocks, Head(queue).block.block)
  BY DEF PerformCandidates, ReadCandidates, SaveTxBlock, InsertCandidate, UpdateCandidate,
     AdoptLegacy, UpdateSyncState, candidateTables, SavesTx
<1>4. QED
  BY <1>1, <1>2, <1>3 DEF CandidateHead

LEMMA HeadCandidate ==
    ASSUME LockInv, NEW r, CandidateHead(r)
    PROVE  /\ IsCandidate(r) /\ ~IsToggle(r) /\ Watched(r) /\ reply[r] = NULL /\ req[r] # NULL
           /\ Carried(Head(queue)) /\ candidateChain # <<>> /\ candidate_blocks # <<>>
<1>1. EntryOK(1) /\ Head(queue) = queue[1] /\ Carried(Head(queue))
  BY HeadEntry DEF LockInv, CandidateHead
<1>2. IsCandidate(r) /\ Watched(r) /\ reply[r] = NULL /\ req[r] # NULL
  BY <1>1 DEF EntryOK, Fits, CandidateHead, Watched
<1>3. ~IsToggle(r)
  BY <1>2 DEF IsCandidate, IsToggle, Sent, CandidateHandlers
<1>4. QED
  BY <1>1, <1>2, <1>3 DEF LockInv, LedgersRight, CandidateHead

\* A transaction that the lock lets pass when it is read.
LEMMA OpensUnlocked ==
    ASSUME LockInv, NEW r \in Requests, req[r] # NULL, reply[r] = NULL, ~settings.is_open
    PROVE  Unlocked(r)
<1> SUFFICES ASSUME Calm, AwayFromToggles(r) PROVE ~OpenAfter(Toggles \cap req[r].after)
  BY DEF Unlocked
<1>1. \A t \in Toggles : t \in Requests /\ req[t] # NULL /\ IsToggle(t)
  BY DEF Toggles, Sent, IsToggle
<1>2. \A t \in Toggles : t \in req[r].after
  BY <1>1 DEF AwayFromToggles, Apart, LockInv, RequestsRight, RequestRight
<1>3. \A t \in Toggles : reply[t] # NULL
  BY <1>2 DEF LockInv, RequestsRight, RequestRight
<1>4. \A t \in Toggles : ~Asks(queue, t, Recording)
  BY <1>1, <1>3 DEF Asks, LockInv, QueueRight, EntryOK, Watched
<1>5. Flipped = {t \in Toggles \cap req[r].after : Done(t, "toggleElectionStatus")}
  BY <1>2, <1>4 DEF Flipped, Done, Toggles
<1>6. ~OpenBy(Flipped)
  BY DEF LockInv, StatusInv
<1>7. OpenBy(Flipped) <=> OpenAfter(Toggles \cap req[r].after)
  BY <1>5 DEF OpenBy, OpenAfter
<1>8. QED
  BY <1>6, <1>7

LEMMA CandidateLock ==
    ASSUME LockInv, NEW r, CandidateHead(r), NEW qs, Turns(r, qs),
           \/ candidateChain' = candidateChain
           \/ \E b : /\ candidateChain' = Append(candidateChain, b)
                     /\ b.index \in Nat \ {0} /\ Lawful(b)
    PROVE  LockInv'
<1>1. /\ ~IsToggle(r) /\ Carried(Head(queue))
      /\ candidateChain # <<>> /\ candidate_blocks # <<>>
  BY HeadCandidate
<1>2. settings' = settings /\ users' = users /\ up' = up /\ up
  BY DEF CandidateHead
<1>3. StatusInv => StatusInv'
  BY <1>1, <1>2, TurnsAside DEF LockInv
<1>4. TablesRight'
  BY <1>2 DEF LockInv, TablesRight
<1>5. Steady /\ RequestsRight
  BY TurnsSteady DEF LockInv
<1>6. ASSUME NEW s, s = candidateChain' PROVE LedgerOK(s)' /\ s # <<>>
  <2>1. LedgerOK(s) /\ s # <<>>
    BY <1>1, <1>6, LedgerGrows DEF LockInv, LedgersRight
  <2>2. QED
    BY <1>5, <2>1, LedgerStays
<1>7. ASSUME NEW s, s = candidate_blocks' PROVE LedgerOK(s)' /\ s # <<>>
  <2>1. CASE candidate_blocks' = candidate_blocks
    <3>1. LedgerOK(s) /\ s # <<>>
      BY <1>1, <1>7, <2>1 DEF LockInv, LedgersRight
    <3>2. QED
      BY <1>5, <3>1, LedgerStays
  <2>2. ASSUME Head(queue).stmt = SavesTx,
               candidate_blocks' = Append(candidate_blocks, Head(queue).block.block)
        PROVE  LedgerOK(s)' /\ s # <<>>
    <3>1. Head(queue).block.block.index \in Nat \ {0} /\ Lawful(Head(queue).block.block)
      BY <1>1, <2>2 DEF Carried
    <3>2. LedgerOK(candidate_blocks)
      BY DEF LockInv, LedgersRight
    <3>3. LedgerOK(s) /\ s # <<>>
      BY <1>1, <1>7, <2>2, <3>1, <3>2, LedgerGrows
    <3>4. QED
      BY <1>5, <3>3, LedgerStays
  <2>3. QED
    BY <2>1, <2>2 DEF CandidateHead
<1>8. LedgersRight'
  <2>1. LedgerOK(candidateChain)' /\ LedgerOK(candidate_blocks)'
    BY <1>6, <1>7
  <2>2. QED
    BY <1>6, <1>7, <2>1 DEF LedgersRight
<1>9. QED
  BY <1>3, <1>4, <1>8, TurnsLock

\* How their callbacks end: with an answer, with a statement of no account, on
\* the way to a transaction, or with its block.
Quiet == CandidateSteps \ (PastLock \cup {SavesTx})

LEMMA RespondLock ==
    ASSUME LockInv, NEW r, CandidateHead(r), NEW m, Respond(r, m)
    PROVE  LockInv'
<1>1. /\ Issue(<<>>) /\ reply' = [reply EXCEPT ![r] = m] /\ candidateChain' = candidateChain
      /\ IsSequence(<<>>) /\ 1..Len(<<>>) = {}
  BY ShortSequences DEF Respond, Answer
<1>2. Turns(r, <<>>)
  BY <1>1, HeadCandidate DEF Turns, CandidateHead
<1>3. QED
  BY <1>1, <1>2, CandidateLock

LEMMA OneTurn ==
    ASSUME LockInv, NEW r, CandidateHead(r), NEW q, q.req = r, q.stmt \in CandidateSteps,
           Issue(<<q>>), reply' = reply, Carried(q)
    PROVE  Turns(r, <<q>>)
<1>1. IsSequence(<<q>>) /\ 1..Len(<<q>>) = {1} /\ <<q>>[1] = q
  BY ShortSequences
<1>2. \A stmt \in CandidateSteps : stmt \notin Toggling
  BY DEF Toggling, CandidateSteps, PastLock, SavesTx
<1>3. Fits(r, q.stmt)
  BY <1>2, HeadCandidate DEF Fits
<1>4. \A j \in 1..Len(<<q>>) : j = 1 /\ <<q>>[j] = q
  BY <1>1
<1>5. QED
  BY <1>1, <1>3, <1>4 DEF Turns, CandidateHead

LEMMA IssueLock ==
    ASSUME LockInv, NEW r, CandidateHead(r), NEW q, q.req = r, q.stmt \in Quiet,
           Issue(<<q>>), UNCHANGED <<reply, candidateChain>>
    PROVE  LockInv'
<1>1. q.stmt \in CandidateSteps /\ Carried(q)
  BY DEF Quiet, Carried
<1>2. Turns(r, <<q>>)
  BY <1>1, OneTurn
<1>3. QED
  BY <1>2, CandidateLock

LEMMA ContinueLock ==
    ASSUME LockInv, NEW r, CandidateHead(r), NEW stmt, NEW context, Continue(r, stmt, context),
           stmt \in Quiet
    PROVE  LockInv'
<1> DEFINE q == Query(r, stmt, context)
<1>1. /\ q.req = r /\ q.stmt = stmt /\ Issue(<<q>>)
      /\ UNCHANGED <<reply, candidateChain>>
  BY DEF Continue, Proceed, Query
<1> HIDE DEF q
<1>2. QED
  BY <1>1, IssueLock

LEMMA PassLock ==
    ASSUME LockInv, NEW r, CandidateHead(r), NEW stmt \in PastLock, NEW context,
           Continue(r, stmt, context),
           req[r].tx_type \in LOCKED_FORBIDDEN_TYPES => Unlocked(r)
    PROVE  LockInv'
<1> DEFINE q == Query(r, stmt, context)
<1>1. /\ q.req = r /\ q.stmt = stmt /\ Issue(<<q>>)
      /\ reply' = reply /\ candidateChain' = candidateChain
  BY DEF Continue, Proceed, Query
<1> HIDE DEF q
<1>2. q.stmt \in CandidateSteps /\ q.stmt # SavesTx
  BY <1>1 DEF CandidateSteps, PastLock, SavesTx
<1>3. Carried(q)
  BY <1>1, <1>2 DEF Carried
<1>4. Turns(r, <<q>>)
  BY <1>1, <1>2, <1>3, OneTurn
<1>5. QED
  BY <1>1, <1>4, CandidateLock

LEMMA NewBlockFields ==
    ASSUME NEW s, NEW timestamp, NEW data, NEW key
    PROVE  LET b == NewBlock(s, timestamp, data, key)
           IN  b.index = Len(s) /\ b.timestamp = timestamp /\ b.data = data
BY DEF NewBlock, Link, Block

LEMMA AddLock ==
    ASSUME LockInv, NEW r, CandidateHead(r), NEW row, NEW rows, NEW tx,
           AddTransaction(r, row, rows, tx),
           tx.tx_type \in LOCKED_FORBIDDEN_TYPES => Unlocked(r)
    PROVE  LockInv'
<1> DEFINE b == NewBlock(candidateChain, <<r, row>>, TxData(tx), SystemKey)
           c == [block |-> b, rows |-> rows]
           q == Query(r, SavesTx, c)
<1>1. /\ candidateChain' = Append(candidateChain, b) /\ Issue(<<q>>) /\ reply' = reply
  BY DEF AddTransaction, SavesTx
<1>2. b.index = Len(candidateChain) /\ b.timestamp = <<r, row>> /\ b.data = TxData(tx)
  BY NewBlockFields
<1>3. q.req = r /\ q.stmt = SavesTx /\ q.block.block = b
  BY DEF Query
<1> HIDE DEF b, c, q
<1>4. RequestOf(b) = r /\ TxOf(b) = tx
  BY <1>2 DEF RequestOf, TxOf, TxData
<1>5. Lawful(b)
  BY <1>4, HeadCandidate DEF Lawful, CandidateHead
<1>6. b.index \in Nat \ {0}
  <2>1. candidateChain # <<>> /\ IsSequence(candidateChain)
    BY HeadCandidate DEF LockInv, LedgersRight, LedgerOK
  <2>2. PICK S : candidateChain \in Seq(S)
    BY <2>1 DEF IsSequence
  <2>3. Len(candidateChain) \in Nat \ {0}
    BY <2>1, <2>2
  <2>4. QED
    BY <1>2, <2>3
<1>7. q.stmt \in CandidateSteps /\ q.stmt \notin PastLock
  BY <1>3 DEF CandidateSteps, PastLock, SavesTx
<1>8. Carried(q)
  BY <1>3, <1>5, <1>6, <1>7 DEF Carried
<1>9. Turns(r, <<q>>)
  BY <1>1, <1>3, <1>7, <1>8, OneTurn
<1>10. QED
  BY <1>1, <1>5, <1>6, <1>9, CandidateLock

LEMMA CandidateStatements ==
    /\ \A stmt \in {"SELECT lock", "SELECT row", "SELECT id", "UPDATE candidates",
                    "INSERT candidates", "UPDATE sync_state", "SELECT legacy", "UPDATE legacy"} :
          stmt \in Quiet /\ stmt \in CandidateSteps
    /\ SavesTx = "INSERT candidate_ledger_blocks" /\ SavesTx \in CandidateSteps
    /\ \A stmt \in {"SELECT existing", "SELECT last_tx_id"} :
          stmt \in PastLock /\ stmt \in CandidateSteps
BY DEF Quiet, CandidateSteps, PastLock, SavesTx

\* What was not forbidden when the lock was read was let pass by it.
LEMMA NotForbidden ==
    ASSUME LockInv, NEW r, CandidateHead(r), NEW tx_type, ~Forbidden(tx_type),
           tx_type \in LOCKED_FORBIDDEN_TYPES
    PROVE  Unlocked(r)
<1>1. ~settings.is_open
  BY DEF Forbidden, Locked
<1>2. r \in Requests /\ req[r] # NULL /\ reply[r] = NULL
  BY HeadCandidate DEF CandidateHead
<1>3. QED
  BY <1>1, <1>2, OpensUnlocked

LEMMA TransactionType ==
    ASSUME NEW r, NEW row, NEW input, NEW ref, NEW prev
    PROVE  Transaction(r, row, input, ref, prev).tx_type = input.tx_type
BY DEF Transaction

LEMMA SubmitLock ==
    ASSUME LockInv, up, UNCHANGED lifecycle, NEW r \in Requests, Submit(r)
    PROVE  LockInv'
<1>1. ASSUME NEW stmt \in {"SELECT lock", "SELECT existing", "SELECT last_tx_id",
                           "INSERT candidate_ledger_blocks"},
             Runs(r, stmt) \/ Refused(r, stmt)
      PROVE  CandidateHead(r) /\ Head(queue).stmt = stmt
  BY <1>1, CandidateStatements, RunsHead
<1>2. ASSUME NEW stmt \in {"SELECT existing", "SELECT last_tx_id"}, Runs(r, stmt)
      PROVE  req[r].tx_type \in LOCKED_FORBIDDEN_TYPES => Unlocked(r)
  BY <1>1, <1>2, CandidateStatements, HeadCandidate DEF Carried, CandidateHead
<1>3. CASE RejectedByLock(r)
  BY <1>1, <1>3, RespondLock DEF RejectedByLock
<1>4. CASE CreateRead(r)
  <2> DEFINE tx == Transaction(r, NULL, req[r], CandidateRef(r, NULL), NULL)
  <2>1. /\ CandidateHead(r) /\ ~Forbidden(req[r].tx_type)
        /\ (\E m : Respond(r, m)) \/ AddTransaction(r, NULL, <<>>, tx)
    BY <1>1, <1>4 DEF CreateRead
  <2>2. req[r].tx_type \in LOCKED_FORBIDDEN_TYPES => Unlocked(r)
    BY <2>1, NotForbidden
  <2>3. tx.tx_type = req[r].tx_type
    BY TransactionType
  <2> HIDE DEF tx
  <2>4. QED
    BY <2>1, <2>2, <2>3, RespondLock, AddLock
<1>5. CASE OtherRead(r)
  <2>1. /\ CandidateHead(r) /\ ~Forbidden(req[r].tx_type)
        /\ \/ Respond(r, "candidate_ref wajib diisi")
           \/ Continue(r, "SELECT existing", Locked)
    BY <1>1, <1>5 DEF OtherRead
  <2>2. req[r].tx_type \in LOCKED_FORBIDDEN_TYPES => Unlocked(r)
    BY <2>1, NotForbidden
  <2>3. QED
    BY <2>1, <2>2, RespondLock, PassLock, CandidateStatements
<1>6. CASE ExistingRead(r)
  <2>1. /\ CandidateHead(r)
        /\ Respond(r, "invalid") \/ Continue(r, "SELECT last_tx_id", NULL)
    BY <1>1, <1>6 DEF ExistingRead
  <2>2. req[r].tx_type \in LOCKED_FORBIDDEN_TYPES => Unlocked(r)
    BY <1>2, <1>6 DEF ExistingRead
  <2>3. QED
    BY <2>1, <2>2, RespondLock, PassLock, CandidateStatements
<1>7. CASE PrevTxRead(r)
  <2> DEFINE ref == req[r].candidate_ref
  <2>1. /\ CandidateHead(r)
        /\ AddTransaction(r, NULL, <<>>, Transaction(r, NULL, req[r], ref, LastTxId(ref)))
    BY <1>1, <1>7 DEF PrevTxRead
  <2>2. req[r].tx_type \in LOCKED_FORBIDDEN_TYPES => Unlocked(r)
    BY <1>2, <1>7 DEF PrevTxRead
  <2>3. QED
    BY <2>1, <2>2, AddLock, TransactionType
<1>8. CASE TxBlockSaved(r)
  <2> DEFINE q == SyncAfterTransaction(r, Head(queue).block.block)
  <2>1. CandidateHead(r) /\ Issue(<<q>>) /\ UNCHANGED <<reply, candidateChain>>
    BY <1>1, <1>8 DEF TxBlockSaved
  <2>2. q.req = r /\ q.stmt \in {"SELECT row", "SELECT id", "UPDATE sync_state"}
    BY DEF SyncAfterTransaction, Resync, Write, NoteProgress, Upsert, Query
  <2> HIDE DEF q
  <2>3. QED
    BY <2>1, <2>2, IssueLock, CandidateStatements
<1>9. CASE SubmitFails(r)
  BY <1>1, <1>9, RespondLock DEF SubmitFails
<1>10. QED
  BY <1>3, <1>4, <1>5, <1>6, <1>7, <1>8, <1>9 DEF Submit

LEMMA WriteStatement ==
    ASSUME NEW r, NEW rows, NEW index
    PROVE  /\ Write(r, rows, index).req = r
           /\ Write(r, rows, index).stmt \in {"SELECT id", "UPDATE sync_state"}
BY DEF Write, NoteProgress, Upsert, Query

LEMMA ProjectLock ==
    ASSUME LockInv, up, UNCHANGED lifecycle, NEW r \in Requests, Project(r)
    PROVE  LockInv'
<1>1. ASSUME NEW stmt \in {"SELECT row", "SELECT id", "UPDATE candidates", "INSERT candidates",
                           "UPDATE sync_state"},
             Runs(r, stmt) \/ Refused(r, stmt)
      PROVE  CandidateHead(r)
  BY <1>1, CandidateStatements, RunsHead
<1>2. CASE RowRead(r)
  <2>1. PICK rows, index : Issue(<<Upsert(r, rows, index)>>)
    BY <1>2 DEF RowRead
  <2>2. CandidateHead(r) /\ UNCHANGED <<reply, candidateChain>>
    BY <1>1, <1>2 DEF RowRead
  <2>3. Upsert(r, rows, index).req = r /\ Upsert(r, rows, index).stmt = "SELECT id"
    BY DEF Upsert, Query
  <2>4. QED
    BY <2>1, <2>2, <2>3, IssueLock, CandidateStatements
<1>3. CASE IdRead(r)
  <2>1. PICK stmt \in {"UPDATE candidates", "INSERT candidates"} :
            Continue(r, stmt, Head(queue).block)
    BY <1>3 DEF IdRead
  <2>2. CandidateHead(r)
    BY <1>1, <1>3 DEF IdRead
  <2>3. QED
    BY <2>1, <2>2, ContinueLock, CandidateStatements
<1>4. CASE RowWritten(r)
  <2>1. PICK rows, index : Issue(<<Write(r, rows, index)>>)
    BY <1>4 DEF RowWritten
  <2>2. CandidateHead(r) /\ UNCHANGED <<reply, candidateChain>>
    BY <1>1, <1>4 DEF RowWritten
  <2> DEFINE q == Write(r, rows, index)
  <2>3. q.req = r /\ q.stmt \in {"SELECT id", "UPDATE sync_state"} /\ Issue(<<q>>)
    BY <2>1, WriteStatement
  <2> HIDE DEF q
  <2>4. QED
    BY <2>2, <2>3, IssueLock, CandidateStatements
<1>5. CASE ProgressNoted(r)
  BY <1>1, <1>5, RespondLock DEF ProgressNoted
<1>6. CASE NotProjected(r)
  <2>1. CandidateHead(r) /\ \E m : Respond(r, m)
    BY <1>1, <1>6 DEF NotProjected
  <2>2. QED
    BY <2>1, RespondLock
<1>7. QED
  BY <1>2, <1>3, <1>4, <1>5, <1>6 DEF Project

LEMMA MigrateLock ==
    ASSUME LockInv, up, UNCHANGED lifecycle, NEW r \in Requests, Migrate(r)
    PROVE  LockInv'
<1>1. ASSUME NEW stmt \in {"SELECT legacy", "SELECT lock", "INSERT candidate_ledger_blocks",
                           "UPDATE legacy"},
             Runs(r, stmt) \/ Refused(r, stmt)
      PROVE  CandidateHead(r)
  BY <1>1, CandidateStatements, RunsHead
<1>2. ASSUME CandidateHead(r), NEW rows, MigrateRest(r, rows) PROVE LockInv'
  BY <1>2, RespondLock, ContinueLock, CandidateStatements DEF MigrateRest
<1>3. CASE LegacyRead(r)
  BY <1>1, <1>2, <1>3 DEF LegacyRead
<1>4. CASE LegacyAdmitted(r)
  <2> DEFINE create(id) == [tx_type |-> "CANDIDATE_CREATE", nama |-> LegacyRow(id).nama,
                            deskripsi |-> NULL, void_tx_id |-> NULL]
             tx(id) == Transaction(r, id, create(id), CandidateRef(r, id), NULL)
  <2>1. CandidateHead(r)
    BY <1>1, <1>4 DEF LegacyAdmitted
  <2>2. \/ \E rows : MigrateRest(r, rows)
        \/ /\ ~Forbidden("CANDIDATE_CREATE")
           /\ \E id, rows : AddTransaction(r, id, rows, tx(id))
    BY <1>4 DEF LegacyAdmitted
  <2>3. \A id : tx(id).tx_type = "CANDIDATE_CREATE"
    BY TransactionType
  <2> HIDE DEF tx
  <2>4. ~Forbidden("CANDIDATE_CREATE") => Unlocked(r)
    BY <2>1, NotForbidden DEF LOCKED_FORBIDDEN_TYPES
  <2>5. QED
    BY <1>2, <2>1, <2>2, <2>3, <2>4, AddLock
<1>5. CASE LegacyBlockSaved(r)
  BY <1>1, <1>5, ContinueLock, CandidateStatements DEF LegacyBlockSaved
<1>6. CASE LegacyAdopted(r)
  BY <1>1, <1>2, <1>6 DEF LegacyAdopted
<1>7. CASE MigrationFails(r)
  BY <1>1, <1>7, RespondLock DEF MigrationFails
<1>8. QED
  BY <1>3, <1>4, <1>5, <1>6, <1>7 DEF Migrate

(***************************************************************************)
(* A request comes.                                                        *)
(***************************************************************************)
\* It comes with one statement, which is one of its handler.
Joins(r, input, q) ==
    /\ r \in Requests /\ req[r] = NULL
    /\ input # NULL /\ input.after = Answered
    /\ q.req = r
    /\ input.op = "toggleElectionStatus" => q.stmt = "SELECT is_open"
    /\ q.stmt \in Toggling => input.op = "toggleElectionStatus"
    /\ q.stmt \in CandidateSteps <=> input.op \in CandidateHandlers
    /\ q.stmt \in CandidateSteps => q.stmt \in Quiet
    /\ req' = [req EXCEPT ![r] = input]
    /\ queue' = queue \o <<q>> \/ queue' = Append(queue, q)
    /\ UNCHANGED <<reply, users, settings, up, candidateVars>>

LEMMA Appended ==
    ASSUME IsSequence(queue), NEW q, queue' = queue \o <<q>> \/ queue' = Append(queue, q)
    PROVE  /\ IsSequence(queue')
           /\ \A i \in 1..Len(queue) : i \in 1..Len(queue') /\ queue'[i] = queue[i]
           /\ \A i \in 1..Len(queue') : \/ i \in 1..Len(queue) /\ queue'[i] = queue[i]
                                        \/ i = Len(queue) + 1 /\ queue'[i] = q
<1>1. PICK S : queue \in Seq(S)
  BY DEF IsSequence
<1>2. queue \in Seq(S \cup {q}) /\ <<q>> \in Seq(S \cup {q})
  BY <1>1
<1>3. /\ queue' \in Seq(S \cup {q}) /\ Len(queue) \in Nat /\ Len(queue') = Len(queue) + 1
      /\ \A i \in 1..Len(queue) : queue'[i] = queue[i]
      /\ queue'[Len(queue) + 1] = q
  <2>1. CASE queue' = Append(queue, q)
    BY <1>2, <2>1
  <2>2. CASE queue' = queue \o <<q>>
    <3>1. Len(<<q>>) = 1 /\ <<q>>[1] = q
      OBVIOUS
    <3>2. /\ queue' \in Seq(S \cup {q}) /\ Len(queue) \in Nat /\ Len(queue') = Len(queue) + 1
          /\ \A i \in 1..Len(queue) : queue'[i] = queue[i]
      BY <1>2, <2>2, <3>1
    <3>3. queue'[Len(queue) + 1] = q
      BY <1>2, <2>2, <3>1
    <3>4. QED
      BY <3>2, <3>3
  <2>3. QED
    BY <2>1, <2>2
<1>4. QED
  BY <1>3 DEF IsSequence

LEMMA JoinsSteady ==
    ASSUME LockInv, NEW r, NEW input, NEW q, Joins(r, input, q)
    PROVE  /\ Steady /\ reply[r] = NULL /\ reply' = reply /\ req'[r] = input
           /\ \A s \in Requests : s # r => req'[s] = req[s]
           /\ \A i \in 1..Len(queue) : queue[i].req # r
<1>1. DOMAIN req = Requests /\ RequestRight(r)
  BY DEF LockInv, RequestsRight, Joins
<1>2. /\ reply[r] = NULL /\ reply' = reply /\ req'[r] = input /\ req[r] = NULL
      /\ \A s \in Requests : s # r => req'[s] = req[s]
  BY <1>1 DEF Joins, RequestRight
<1>3. \A i \in 1..Len(queue) : queue[i].req # r
  BY <1>2 DEF LockInv, QueueRight, EntryOK
<1>4. QED
  BY <1>2, <1>3 DEF Steady

LEMMA JoinsQueue ==
    ASSUME LockInv, NEW r, NEW input, NEW q, Joins(r, input, q)
    PROVE  QueueRight'
<1>1. /\ Steady /\ reply[r] = NULL /\ reply' = reply /\ req'[r] = input
      /\ \A s \in Requests : s # r => req'[s] = req[s]
      /\ \A i \in 1..Len(queue) : queue[i].req # r
  BY JoinsSteady
<1>2. /\ IsSequence(queue')
      /\ \A i \in 1..Len(queue) : i \in 1..Len(queue') /\ queue'[i] = queue[i]
      /\ \A i \in 1..Len(queue') : \/ i \in 1..Len(queue) /\ queue'[i] = queue[i]
                                   \/ i = Len(queue) + 1 /\ queue'[i] = q
  BY Appended DEF Joins, LockInv, QueueRight
<1>3. r \in Requests /\ q.req = r /\ input # NULL /\ RequestsRight
  BY DEF Joins, LockInv
<1>4. ASSUME NEW i \in 1..Len(queue), queue'[i] = queue[i]
      PROVE  EntryOK(i)' /\ Carried(queue[i])'
  <2> PICK t : t = queue[i].req
    OBVIOUS
  <2>1. EntryOK(i) /\ Carried(queue[i]) /\ t \in Requests /\ req[t] # NULL /\ t # r
    BY <1>1 DEF LockInv, QueueRight, EntryOK
  <2>2. req'[t] = req[t] /\ reply'[t] = reply[t]
    BY <1>1, <2>1
  <2>3. /\ Watched(t)' <=> Watched(t)
        /\ \A stmt : Fits(t, stmt)' <=> Fits(t, stmt)
    BY <2>2 DEF Watched, IsToggle, IsCandidate, Sent, Fits
  <2>4. \A j \in 1..Len(queue') : queue'[j].req = t => j \in 1..Len(queue) /\ queue[j].req = t
    BY <1>2, <1>3, <2>1
  <2>5. Carried(queue[i])'
    <3>1. ASSUME NEW p, p = queue[i] PROVE Carried(p)'
      BY <1>1, <1>3, <2>1, <3>1, CarriedStays
    <3>2. QED
      BY <1>4, <3>1
  <2>6. /\ Fits(t, queue[i].stmt)
        /\ Watched(t) => /\ reply[t] = NULL
                         /\ \A j \in 1..Len(queue) : queue[j].req = t => j = i
    BY <2>1 DEF EntryOK
  <2>7. Fits(t, queue[i].stmt)'
    BY <1>4, <2>3, <2>6
  <2>8. Watched(t)' => /\ reply'[t] = NULL
                       /\ \A j \in 1..Len(queue') : queue'[j].req = t => j = i
    BY <2>2, <2>3, <2>4, <2>6
  <2>9. queue'[i].req = t /\ t \in Requests /\ req'[t] # NULL
    BY <1>4, <2>1, <2>2
  <2>10. QED
    BY <2>5, <2>7, <2>8, <2>9 DEF EntryOK
<1>5. ASSUME NEW i \in 1..Len(queue'), i = Len(queue) + 1, queue'[i] = q
      PROVE  EntryOK(i)' /\ Carried(queue[i])'
  <2>1. /\ IsToggle(r)' <=> input.op = "toggleElectionStatus"
        /\ IsCandidate(r)' <=> input.op \in CandidateHandlers
    BY <1>1, <1>3 DEF IsToggle, IsCandidate, Sent
  <2>2. "SELECT is_open" \in Toggling
    BY DEF Toggling
  <2>3. Fits(r, q.stmt)'
    BY <2>1, <2>2 DEF Fits, Joins
  <2>4. \A j \in 1..Len(queue') : queue'[j].req = r => j = i
    BY <1>1, <1>2, <1>5
  <2>5. q.stmt \notin PastLock \cup {SavesTx}
    BY DEF Joins, Quiet, CandidateSteps
  <2>6. Carried(queue[i])'
    BY <1>5, <2>5 DEF Carried
  <2>7. QED
    BY <1>1, <1>3, <1>5, <2>3, <2>4, <2>6 DEF EntryOK
<1>6. QED
  BY <1>2, <1>4, <1>5 DEF QueueRight

LEMMA JoinsRequests ==
    ASSUME LockInv, NEW r, NEW input, NEW q, Joins(r, input, q)
    PROVE  RequestsRight'
<1>1. /\ Steady /\ reply[r] = NULL /\ reply' = reply /\ req'[r] = input
      /\ \A s \in Requests : s # r => req'[s] = req[s]
  BY JoinsSteady
<1>2. input # NULL /\ input.after = Answered /\ req' = [req EXCEPT ![r] = input] /\ r \in Requests
  BY DEF Joins
<1>3. Asked' = Asked \cup {r}
  BY <1>1, <1>2 DEF Asked
<1>4. IsFiniteSet(Asked')
  BY <1>3, FS_AddElement DEF LockInv, RequestsRight
<1>5. ASSUME NEW s \in Requests PROVE RequestRight(s)'
  <2>1. CASE s = r
    BY <1>1, <1>2, <2>1 DEF RequestRight, Answered
  <2>2. CASE s # r
    BY <1>1, <2>2 DEF RequestRight, LockInv, RequestsRight
  <2>3. QED
    BY <2>1, <2>2
<1>6. DOMAIN req' = Requests /\ DOMAIN reply' = Requests
  BY <1>1, <1>2 DEF LockInv, RequestsRight
<1>7. QED
  BY <1>4, <1>5, <1>6 DEF RequestsRight

LEMMA JoinsStatus ==
    ASSUME LockInv, NEW r, NEW input, NEW q, Joins(r, input, q), StatusInv
    PROVE  StatusInv'
<1>1. /\ reply[r] = NULL /\ reply' = reply /\ req'[r] = input
      /\ \A s \in Requests : s # r => req'[s] = req[s]
      /\ \A i \in 1..Len(queue) : queue[i].req # r
  BY JoinsSteady
<1>2. /\ \A i \in 1..Len(queue) : i \in 1..Len(queue') /\ queue'[i] = queue[i]
      /\ \A i \in 1..Len(queue') : \/ i \in 1..Len(queue) /\ queue'[i] = queue[i]
                                   \/ i = Len(queue) + 1 /\ queue'[i] = q
  BY Appended DEF Joins, LockInv, QueueRight
<1>3. q.req = r /\ settings' = settings /\ req[r] = NULL /\ input # NULL /\ r \in Requests
  BY DEF Joins
<1>4. \A s, stmts : s # r => (Asks(queue', s, stmts) <=> Asks(queue, s, stmts))
  BY <1>2, <1>3 DEF Asks
<1>5. \A stmts : Asks(queue', r, stmts) => q.stmt \in stmts
  BY <1>1, <1>2 DEF Asks
<1>6. r \in Toggles' => q.stmt = "SELECT is_open"
  BY <1>1 DEF Toggles, Sent, Joins
<1>7. "SELECT is_open" \notin Recording
  BY DEF Recording, InsertBlockStmt, AuditLedger, VoteLedger
<1>8. r \in Toggles' => /\ ~Asks(queue', r, Recording)
                        /\ ~Asks(queue', r, {"SET is_open"})
                        /\ ~Asks(queue', r, {"CLEAR is_open"})
  BY <1>5, <1>6, <1>7
<1>9. /\ \A t \in Toggles' : t # r => t \in Toggles
      /\ r \notin Toggles /\ \A t \in Toggles : t \in Toggles' /\ t # r
  BY <1>1, <1>3 DEF Toggles, Sent
<1>10. "ok" # NULL
  BY NullAssumption DEF Replies
<1>11. Flipped' = Flipped
  <2>1. \A t \in Toggles' : t \in Flipped' <=> t \in Flipped
    <3>1. r \in Toggles' => r \notin Flipped'
      BY <1>1, <1>8, <1>10 DEF Flipped
    <3>2. r \notin Flipped
      BY <1>9 DEF Flipped
    <3>3. \A t \in Toggles' : t # r => (t \in Flipped' <=> t \in Flipped)
      BY <1>1, <1>4, <1>9 DEF Flipped
    <3>4. QED
      BY <3>1, <3>2, <3>3
  <2>2. Flipped \subseteq Toggles' /\ Flipped' \subseteq Toggles'
    BY <1>9 DEF Flipped
  <2>3. QED
    BY <2>1, <2>2
<1>12. Deciding'
  BY <1>3, <1>4, <1>8, <1>9 DEF StatusInv, Deciding
<1>13. QED
  BY <1>3, <1>11, <1>12 DEF StatusInv, OpenBy

LEMMA JoinsLock ==
    ASSUME LockInv, NEW r, NEW input, NEW q, Joins(r, input, q)
    PROVE  LockInv'
<1>1. Steady
  BY JoinsSteady
<1>2. QueueRight' /\ RequestsRight'
  BY JoinsQueue, JoinsRequests
<1>3. LedgersRight'
  BY <1>1, LedgersStay DEF LockInv, Joins, candidateVars, candidateTables
<1>4. TablesRight'
  BY DEF LockInv, TablesRight, Joins
<1>5. Calm' => StatusInv'
  BY <1>1, JoinsStatus, SteadyToggles DEF LockInv
<1>6. QED
  BY <1>2, <1>3, <1>4, <1>5 DEF LockInv

LEMMA ArrivesLock ==
    ASSUME LockInv, UNCHANGED candidateVars, NEW r \in Requests,
           NEW op \in Handlers, NEW u \in Users \cup {NULL}, NEW c \in CandidateIds,
           NEW key \in KeyPairs \cup {NULL}, NEW stmt, NEW block,
           Arrives(r, Input(op, u, c, key), <<Query(r, stmt, block)>>),
           \/ op = "toggleElectionStatus" /\ stmt = "SELECT is_open"
           \/ op # "toggleElectionStatus" /\ stmt \notin Toggling \cup CandidateSteps
    PROVE  LockInv'
<1>1. /\ Input(op, u, c, key) \in Inputs /\ Input(op, u, c, key).op = op
      /\ Input(op, u, c, key).after = Answered
  BY DEF Input, Inputs, Answered
<1> DEFINE input == Input(op, u, c, key)
           q     == Query(r, stmt, block)
<1>2. input # NULL /\ input.op = op /\ input.after = Answered
  BY <1>1, NullAssumption, Zenon
<1>3. q.req = r /\ q.stmt = stmt
  BY DEF Query
<1>4. Arrives(r, input, <<q>>)
  OBVIOUS
<1> HIDE DEF input, q
<1>5. op \notin CandidateHandlers
  BY DEF Handlers, CandidateHandlers
<1>6. "SELECT is_open" \notin CandidateSteps
  BY DEF CandidateSteps, PastLock, SavesTx
<1>7. Joins(r, input, q)
  BY <1>2, <1>3, <1>4, <1>5, <1>6 DEF Joins, Arrives, db, lifecycle
<1>8. QED
  BY <1>7, JoinsLock

LEMMA ArriveLock ==
    ASSUME LockInv, NEW r \in Requests, Arrive(r), UNCHANGED candidateVars
    PROVE  LockInv'
<1>1. /\ {"castVote", "deleteUser", "resetUserVote", "resetAll", "toggleElectionStatus", "hack"}
            \subseteq Handlers
      /\ NULL \in CandidateIds
  BY DEF Handlers, CandidateIds
<1>2. /\ \A stmt \in {"SELECT settings", "DELETE users", "DELETE votes",
                      InsertBlockStmt(AuditLedger)} : stmt \notin Toggling \cup CandidateSteps
  BY PlainStatements DEF Plain, Recording
<1>3. CASE CastVoteArrives(r)
  <2>1. PICK u \in Users, c \in CandidateIds :
            \E key \in SessionKeys(u) :
                Arrives(r, Input("castVote", u, c, key), <<Query(r, "SELECT settings", NULL)>>)
    BY <1>3 DEF CastVoteArrives, CandidateIds
  <2>2. PICK key \in SessionKeys(u) :
            Arrives(r, Input("castVote", u, c, key), <<Query(r, "SELECT settings", NULL)>>)
    BY <2>1
  <2>3. key \in KeyPairs \cup {NULL}
    BY DEF SessionKeys, StoredKey, KeyPairs, LockInv, TablesRight
  <2>4. QED
    BY <1>1, <1>2, <2>2, <2>3, ArrivesLock
<1>4. CASE DeleteUserArrives(r)
  <2>1. PICK u \in Users : Arrives(r, Input("deleteUser", u, NULL, NULL),
                                   <<Query(r, "DELETE users", NULL)>>)
    BY <1>4 DEF DeleteUserArrives
  <2>2. QED
    BY <1>1, <1>2, <2>1, ArrivesLock
<1>5. CASE ResetUserVoteArrives(r)
  <2>1. PICK u \in Users : Arrives(r, Input("resetUserVote", u, NULL, NULL),
                                   <<Query(r, "DELETE votes", NULL)>>)
    BY <1>5 DEF ResetUserVoteArrives
  <2>2. QED
    BY <1>1, <1>2, <2>1, ArrivesLock
<1>6. CASE ResetAllArrives(r)
  <2>1. Arrives(r, Input("resetAll", NULL, NULL, NULL), <<Query(r, "DELETE votes", NULL)>>)
    BY <1>6 DEF ResetAllArrives
  <2>2. QED
    BY <1>1, <1>2, <2>1, ArrivesLock
<1>7. CASE ToggleArrives(r)
  <2>1. Arrives(r, Input("toggleElectionStatus", NULL, NULL, NULL),
                <<Query(r, "SELECT is_open", NULL)>>)
    BY <1>7 DEF ToggleArrives
  <2>2. QED
    BY <1>1, <2>1, ArrivesLock
<1>8. CASE HackArrives(r)
  <2>1. Arrives(r, Input("hack", NULL, NULL, NULL),
                <<Query(r, InsertBlockStmt(AuditLedger), NextAuditBlock(r))>>)
    BY <1>8 DEF HackArrives
  <2>2. QED
    BY <1>1, <1>2, <2>1, ArrivesLock
<1>9. QED
  BY <1>3, <1>4, <1>5, <1>6, <1>7, <1>8 DEF Arrive

LEMMA CandidateJoins ==
    ASSUME LockInv, NEW r \in Requests, NEW input, NEW q, CandidateArrives(r, input, q),
           input # NULL, input.after = Answered, q.req = r, q.stmt \in Quiet
    PROVE  LockInv'
<1>1. input.op \in CandidateHandlers
  BY CandidateAssumption DEF CandidateArrives
<1>2. input.op # "toggleElectionStatus"
  BY <1>1 DEF CandidateHandlers
<1>3. q.stmt \in CandidateSteps /\ q.stmt \notin Toggling
  BY DEF Quiet, CandidateSteps, PastLock, SavesTx, Toggling
<1>4. Joins(r, input, q)
  BY <1>1, <1>2, <1>3 DEF Joins, CandidateArrives, db, lifecycle
<1>5. QED
  BY <1>4, JoinsLock

LEMMA SubmissionType ==
    ASSUME NEW input \in Submissions
    PROVE  input \in CandidateInputs /\ input.after = Answered
<1>1. /\ KnownRefs \subseteq Refs /\ KnownTxIds \subseteq TxIds /\ Answered \in SUBSET Requests
  BY DEF KnownRefs, KnownTxIds, Answered
<1>2. {"CANDIDATE_CREATE", "CANDIDATE_UPDATE", "CANDIDATE_DEACTIVATE", "CANDIDATE_REACTIVATE",
       "CANDIDATE_CORRECTION", "CANDIDATE_VOID"} \subseteq TX_TYPES
  BY DEF TX_TYPES
<1> DEFINE N   == Names \cup {NULL}
           D   == Descriptions \cup {NULL}
           no  == FALSE
           yes == TRUE
           creates   == {Submission("CANDIDATE_CREATE", NULL, n, d, NULL, no) :
                            n \in Names, d \in D}
           updates   == {Submission("CANDIDATE_UPDATE", c, n, d, NULL, no) :
                            c \in KnownRefs, n \in Names, d \in D}
           switches  == {Submission(t, c, NULL, NULL, NULL, no) :
                            t \in {"CANDIDATE_DEACTIVATE", "CANDIDATE_REACTIVATE"},
                            c \in KnownRefs}
           corrects  == {Submission("CANDIDATE_CORRECTION", c, n, d, NULL, yes) :
                            c \in KnownRefs, n \in N, d \in D}
           voids     == {Submission("CANDIDATE_VOID", c, NULL, NULL, v, yes) :
                            c \in KnownRefs, v \in KnownTxIds \cup {NULL}}
           partial   == {Submission(t, c, NULL, NULL, NULL, no) :
                            t \in {"CANDIDATE_UPDATE", "CANDIDATE_CORRECTION", "CANDIDATE_VOID"},
                            c \in KnownRefs}
           empty     == {Submission(t, NULL, NULL, NULL, NULL, no) :
                            t \in {"CANDIDATE_CREATE", "CANDIDATE_UPDATE"}}
<1> HIDE DEF creates, updates, switches, corrects, voids, partial, empty
<1>3. input \in creates \/ input \in updates \/ input \in switches \/ input \in corrects
      \/ input \in voids \/ input \in partial \/ input \in empty
  <2>1. Submissions = ((((((creates \cup updates) \cup switches) \cup corrects) \cup voids)
                          \cup partial) \cup empty)
    BY DEF Submissions, creates, updates, switches, corrects, voids, partial, empty
  <2>2. QED
    BY <2>1
<1>4. KnownRefs \subseteq Refs \cup {NULL} /\ KnownTxIds \cup {NULL} \subseteq TxIds \cup {NULL}
  BY <1>1
<1>5. no \in BOOLEAN /\ yes \in BOOLEAN
  OBVIOUS
<1> HIDE DEF N, D, no, yes
<1>6. /\ Names \subseteq Names \cup {NULL} /\ NULL \in Names \cup {NULL}
      /\ NULL \in Descriptions \cup {NULL} /\ NULL \in Refs \cup {NULL}
      /\ NULL \in TxIds \cup {NULL}
      /\ N = Names \cup {NULL} /\ D = Descriptions \cup {NULL}
  BY DEF N, D
<1>7. CASE input \in creates
  <2>1. PICK n \in Names, d \in D : input = Submission("CANDIDATE_CREATE", NULL, n, d, NULL, no)
    BY <1>7 DEF creates
  <2>2. QED
    BY <1>1, <1>2, <1>4, <1>5, <1>6, <2>1 DEF Submission, CandidateInputs
<1>8. CASE input \in updates
  <2>1. PICK c \in KnownRefs, n \in Names, d \in D :
            input = Submission("CANDIDATE_UPDATE", c, n, d, NULL, no)
    BY <1>8 DEF updates
  <2>2. QED
    BY <1>1, <1>2, <1>4, <1>5, <1>6, <2>1 DEF Submission, CandidateInputs
<1>9. CASE input \in switches
  <2>1. PICK t \in {"CANDIDATE_DEACTIVATE", "CANDIDATE_REACTIVATE"}, c \in KnownRefs :
            input = Submission(t, c, NULL, NULL, NULL, no)
    BY <1>9 DEF switches
  <2>2. QED
    BY <1>1, <1>2, <1>4, <1>5, <1>6, <2>1 DEF Submission, CandidateInputs
<1>10. CASE input \in corrects
  <2>1. PICK c \in KnownRefs, n \in N, d \in D :
            input = Submission("CANDIDATE_CORRECTION", c, n, d, NULL, yes)
    BY <1>10 DEF corrects
  <2>2. QED
    BY <1>1, <1>2, <1>4, <1>5, <1>6, <2>1 DEF Submission, CandidateInputs
<1>11. CASE input \in voids
  <2>1. PICK c \in KnownRefs, v \in KnownTxIds \cup {NULL} :
            input = Submission("CANDIDATE_VOID", c, NULL, NULL, v, yes)
    BY <1>11 DEF voids
  <2>2. QED
    BY <1>1, <1>2, <1>4, <1>5, <1>6, <2>1 DEF Submission, CandidateInputs
<1>12. CASE input \in partial
  <2>1. PICK t \in {"CANDIDATE_UPDATE", "CANDIDATE_CORRECTION", "CANDIDATE_VOID"},
              c \in KnownRefs : input = Submission(t, c, NULL, NULL, NULL, no)
    BY <1>12 DEF partial
  <2>2. QED
    BY <1>1, <1>2, <1>4, <1>5, <1>6, <2>1 DEF Submission, CandidateInputs
<1>13. CASE input \in empty
  <2>1. PICK t \in {"CANDIDATE_CREATE", "CANDIDATE_UPDATE"} :
            input = Submission(t, NULL, NULL, NULL, NULL, no)
    BY <1>13 DEF empty
  <2>2. QED
    BY <1>1, <1>2, <1>4, <1>5, <1>6, <2>1 DEF Submission, CandidateInputs
<1>14. QED
  BY <1>3, <1>7, <1>8, <1>9, <1>10, <1>11, <1>12, <1>13

LEMMA CandidateArriveLock ==
    ASSUME LockInv, NEW r \in Requests, CandidateArrive(r)
    PROVE  LockInv'
<1>1. Answered \in SUBSET Requests
  BY DEF Answered
<1>2. CASE SubmitArrives(r)
  <2>1. PICK input \in Submissions : CandidateArrives(r, input, Query(r, "SELECT lock", NULL))
    BY <1>2 DEF SubmitArrives
  <2>2. input # NULL /\ input.after = Answered
    BY SubmissionType, CandidateNullAssumption
  <2> DEFINE q == Query(r, "SELECT lock", NULL)
  <2>3. q.req = r /\ q.stmt \in Quiet /\ CandidateArrives(r, input, q)
    BY <2>1, CandidateStatements DEF Query
  <2> HIDE DEF q
  <2>4. QED
    BY <2>2, <2>3, CandidateJoins
<1>3. ASSUME NEW op \in {"resync", "migrateLegacy"}, NEW q, q.req = r, q.stmt \in Quiet,
             CandidateArrives(r, [op |-> op, after |-> Answered], q)
      PROVE  LockInv'
  <2> DEFINE input == [op |-> op, after |-> Answered]
  <2>1. input \in CandidateInputs /\ input.after = Answered
    BY <1>1 DEF CandidateInputs
  <2>2. input # NULL
    BY <2>1, CandidateNullAssumption
  <2> HIDE DEF input
  <2>3. CandidateArrives(r, input, q)
    BY <1>3 DEF input
  <2>4. QED
    BY <1>3, <2>1, <2>2, <2>3, CandidateJoins
<1>4. CASE ResyncArrives(r)
  <2> DEFINE q == Resync(r)
  <2>1. q.req = r /\ q.stmt \in {"SELECT id", "UPDATE sync_state"}
    BY WriteStatement DEF Resync
  <2>2. CandidateArrives(r, [op |-> "resync", after |-> Answered], q)
    BY <1>4 DEF ResyncArrives
  <2> HIDE DEF q
  <2>3. QED
    BY <1>3, <2>1, <2>2, CandidateStatements
<1>5. CASE MigrateArrives(r)
  <2> DEFINE q == Query(r, "SELECT legacy", NULL)
  <2>1. q.req = r /\ q.stmt = "SELECT legacy"
    BY DEF Query
  <2>2. CandidateArrives(r, [op |-> "migrateLegacy", after |-> Answered], q)
    BY <1>5 DEF MigrateArrives
  <2> HIDE DEF q
  <2>3. QED
    BY <1>3, <2>1, <2>2, CandidateStatements
<1>6. QED
  BY <1>2, <1>4, <1>5 DEF CandidateArrive

(***************************************************************************)
(* The process ends and comes back.                                        *)
(***************************************************************************)
\* The statement under way may have been done by the database.
Ends ==
    /\ ProcessEnds /\ candidateChain' = <<>> /\ TablesRight'
    /\ \/ settings' = settings
       \/ queue # <<>> /\ Head(queue).stmt \in {"SET is_open", "CLEAR is_open"}
    /\ \/ candidate_blocks' = candidate_blocks
       \/ /\ queue # <<>>
          /\ Head(queue).stmt = SavesTx
          /\ candidate_blocks' = Append(candidate_blocks, Head(queue).block.block)

LEMMA EndsSteady ==
    ASSUME LockInv, Ends
    PROVE  /\ Steady /\ req' = req /\ queue' = <<>> /\ ~up'
           /\ DOMAIN reply' = Requests
           /\ \A r \in Requests :
                 reply'[r] = IF req[r] # NULL /\ reply[r] = NULL THEN "connection lost"
                                                                  ELSE reply[r]
<1>1. /\ req' = req /\ queue' = <<>> /\ ~up'
      /\ DOMAIN reply' = Requests
      /\ \A r \in Requests :
            reply'[r] = IF req[r] # NULL /\ reply[r] = NULL THEN "connection lost"
                                                             ELSE reply[r]
  BY DEF Ends, ProcessEnds
<1>2. QED
  BY <1>1 DEF Steady

LEMMA EndsLedgers ==
    ASSUME LockInv, Ends
    PROVE  LedgersRight'
<1>1. Steady /\ RequestsRight /\ ~up'
  BY EndsSteady DEF LockInv
<1>2. ASSUME NEW s, s = candidateChain' PROVE LedgerOK(s)'
  <2>1. LedgerOK(s)
    BY <1>2, ShortSequences DEF LedgerOK, Ends
  <2>2. QED
    BY <1>1, <2>1, LedgerStays
<1>3. ASSUME NEW s, s = candidate_blocks' PROVE LedgerOK(s)' /\ s # <<>>
  <2>1. LedgerOK(candidate_blocks) /\ candidate_blocks # <<>>
    BY DEF LockInv, LedgersRight
  <2>2. CASE candidate_blocks' = candidate_blocks
    <3>1. LedgerOK(s) /\ s # <<>>
      BY <1>3, <2>1, <2>2
    <3>2. QED
      BY <1>1, <3>1, LedgerStays
  <2>3. ASSUME queue # <<>>, Head(queue).stmt = SavesTx,
               candidate_blocks' = Append(candidate_blocks, Head(queue).block.block)
        PROVE  LedgerOK(s)' /\ s # <<>>
    <3>1. Head(queue).block.block.index \in Nat \ {0} /\ Lawful(Head(queue).block.block)
      BY <2>3, HeadEntry DEF Carried, LockInv
    <3>2. LedgerOK(s) /\ s # <<>>
      BY <1>3, <2>1, <2>3, <3>1, LedgerGrows
    <3>3. QED
      BY <1>1, <3>2, LedgerStays
  <2>4. QED
    BY <2>2, <2>3 DEF Ends
<1>4. LedgerOK(candidateChain)' /\ LedgerOK(candidate_blocks)'
  BY <1>2, <1>3
<1>5. QED
  BY <1>1, <1>3, <1>4 DEF LedgersRight

\* A toggle under way is cut off, and then the count no longer matters.
LEMMA EndsStatus ==
    ASSUME LockInv, Ends, Calm'
    PROVE  StatusInv'
<1>1. /\ Steady /\ req' = req /\ queue' = <<>>
      /\ \A r \in Requests :
            reply'[r] = IF req[r] # NULL /\ reply[r] = NULL THEN "connection lost"
                                                             ELSE reply[r]
  BY EndsSteady
<1>2. StatusInv /\ Toggles' = Toggles
  BY <1>1, SteadyToggles DEF LockInv, Toggles, Sent
<1>3. \A t \in Toggles : /\ t \in Requests /\ IsToggle(t)
                         /\ reply[t] # NULL /\ reply'[t] = reply[t]
  <2>1. \A t \in Toggles : t \in Requests /\ IsToggle(t) /\ req[t] # NULL
                           /\ reply'[t] # "connection lost"
    BY <1>2 DEF Calm, Toggles, Sent, IsToggle
  <2>2. QED
    BY <1>1, <2>1
<1>4. \A t \in Toggles, i \in 1..Len(queue) : queue[i].req # t
  BY <1>3 DEF LockInv, QueueRight, EntryOK, Watched
<1>5. \A t \in Toggles : \A stmts : Asks(queue', t, stmts) <=> Asks(queue, t, stmts)
  BY <1>1, <1>4, ShortSequences DEF Asks
<1>6. settings' = settings
  <2>1. ASSUME queue # <<>>, Head(queue).stmt \in {"SET is_open", "CLEAR is_open"} PROVE FALSE
    <3>1. 1 \in 1..Len(queue) /\ Head(queue) = queue[1] /\ EntryOK(1)
      BY <2>1, HeadEntry DEF LockInv
    <3>2. Head(queue).req \in Requests /\ IsToggle(Head(queue).req)
      BY <2>1, <3>1 DEF EntryOK, Fits, Toggling
    <3>3. Head(queue).req \in Toggles
      BY <3>2 DEF IsToggle, Toggles
    <3>4. QED
      BY <1>4, <3>1, <3>3
  <2>2. QED
    BY <2>1 DEF Ends
<1>7. QED
  BY <1>2, <1>3, <1>5, <1>6, SameStatus

LEMMA EndsLock ==
    ASSUME LockInv, Ends
    PROVE  LockInv'
<1>1. /\ Steady /\ req' = req /\ queue' = <<>> /\ DOMAIN reply' = Requests
      /\ \A r \in Requests :
            reply'[r] = IF req[r] # NULL /\ reply[r] = NULL THEN "connection lost"
                                                             ELSE reply[r]
  BY EndsSteady
<1>2. QueueRight'
  BY <1>1, ShortSequences DEF QueueRight
<1>3. RequestsRight'
  <2>1. ASSUME NEW r \in Requests PROVE RequestRight(r)'
    <3>1. RequestRight(r)
      BY DEF LockInv, RequestsRight
    <3>2. req[r] # NULL => \A s \in req[r].after : reply'[s] # NULL
      BY <1>1, <3>1 DEF RequestRight, Steady
    <3>3. QED
      BY <1>1, <3>1, <3>2 DEF RequestRight
  <2>2. Asked' = Asked
    BY <1>1 DEF Asked
  <2>3. QED
    BY <1>1, <2>1, <2>2 DEF LockInv, RequestsRight
<1>4. QED
  BY <1>2, <1>3, EndsLedgers, EndsStatus DEF LockInv, Ends

LEMMA FatalLock ==
    ASSUME LockInv, NEW r \in Requests, FatalError(r), candidateChain' = <<>>,
           UNCHANGED candidateTables
    PROVE  LockInv'
<1>1. Ends
  BY DEF Ends, FatalError, db, candidateTables, LockInv, TablesRight
<1>2. QED
  BY <1>1, EndsLock

LEMMA CrashLock ==
    ASSUME LockInv, CrashAny
    PROVE  LockInv'
<1>1. CASE Crash /\ UNCHANGED candidateTables
  <2>1. ProcessEnds /\ candidateChain' = <<>> /\ candidate_blocks' = candidate_blocks
    BY <1>1 DEF CrashAny, Crash, candidateTables
  <2>2. CASE UNCHANGED db
    BY <2>1, <2>2, EndsLock DEF Ends, db, LockInv, TablesRight
  <2>3. CASE queue # <<>> /\ Perform(Head(queue))
    <3>1. Head(queue).req \in Requests
      BY <2>3, HeadEntry DEF LockInv, EntryOK
    <3>2. TablesRight' /\ (Head(queue).stmt \notin {"SET is_open", "CLEAR is_open"}
                               => settings' = settings)
      BY <2>3, <3>1, PerformTables DEF LockInv
    <3>3. QED
      BY <2>1, <2>3, <3>2, EndsLock DEF Ends
  <2>4. QED
    BY <1>1, <2>2, <2>3 DEF Crash
<1>2. CASE CandidateCrash
  <2>1. /\ queue # <<>> /\ PerformCandidates(Head(queue)) /\ ProcessEnds /\ candidateChain' = <<>>
        /\ users' = users /\ settings' = settings
    BY <1>2 DEF CrashAny, CandidateCrash, db
  <2>2. \/ candidate_blocks' = candidate_blocks
        \/ /\ Head(queue).stmt = SavesTx
           /\ candidate_blocks' = Append(candidate_blocks, Head(queue).block.block)
    BY <2>1 DEF PerformCandidates, ReadCandidates, SaveTxBlock, InsertCandidate, UpdateCandidate,
       AdoptLegacy, UpdateSyncState, candidateTables, SavesTx
  <2>3. TablesRight'
    BY <2>1 DEF LockInv, TablesRight
  <2>4. QED
    BY <2>1, <2>2, <2>3, EndsLock DEF Ends
<1>3. QED
  BY <1>1, <1>2 DEF CrashAny

\* Rows in the order of their index: the genesis row, whose index is the
\* least, is the first.
LEMMA LoadedLedger ==
    ASSUME NEW s, LedgerOK(s), s # <<>>, NEW c \in LoadOrders(s)
    PROVE  LedgerOK(c) /\ c # <<>>
<1> DEFINE n == Len(s)
<1>1. PICK p \in [1..n -> 1..n] :
          /\ c = [i \in 1..n |-> s[p[i]]]
          /\ \A i, j \in 1..n : i < j => p[i] # p[j] /\ s[p[i]].index <= s[p[j]].index
  BY DEF LoadOrders
<1>2. PICK S : s \in Seq(S)
  BY DEF LedgerOK, IsSequence
<1>3. n \in Nat \ {0} /\ \A i \in 1..n : s[i] \in S
  BY <1>2
<1>4. \A i \in 1..n : IF i = 1 THEN s[i].index = 0 ELSE s[i].index \in Nat \ {0} /\ Lawful(s[i])
  BY DEF LedgerOK
<1> HIDE DEF n
<1>5. c \in [1..n -> S]
  BY <1>1, <1>3
<1>6. c \in Seq(S) /\ Len(c) = n /\ c # <<>>
  BY <1>3, <1>5
<1>7. \E k \in 1..n : p[k] = 1
  <2>1. SUFFICES ASSUME \A k \in 1..n : p[k] # 1 PROVE FALSE
    OBVIOUS
  <2>2. p \in [1..n -> 2..n]
    BY <1>1, <1>3, <2>1
  <2>3. /\ IsFiniteSet(1..n) /\ IsFiniteSet(2..n)
        /\ Cardinality(1..n) = n /\ Cardinality(2..n) = n - 1
    <3>1. n \in Int /\ 1 \in Int /\ 2 \in Int /\ n >= 1
      BY <1>3
    <3>2. IsFiniteSet(1..n) /\ Cardinality(1..n) = IF 1 > n THEN 0 ELSE n - 1 + 1
      BY <3>1, FS_Interval
    <3>3. IsFiniteSet(2..n) /\ Cardinality(2..n) = IF 2 > n THEN 0 ELSE n - 2 + 1
      BY <3>1, FS_Interval
    <3>4. QED
      BY <3>1, <3>2, <3>3
  <2>4. Cardinality(2..n) < Cardinality(1..n)
    BY <1>3, <2>3
  <2>5. \E x, y \in 1..n : x # y /\ p[x] = p[y]
    BY <2>2, <2>3, <2>4, FS_PigeonHole
  <2>6. PICK x \in 1..n, y \in 1..n : x # y /\ p[x] = p[y]
    BY <2>5
  <2>7. x < y \/ y < x
    BY <1>3, <2>6
  <2>8. QED
    BY <1>1, <2>6, <2>7
<1>8. PICK k \in 1..n : p[k] = 1
  BY <1>7
<1>9. p[1] = 1
  <2>1. SUFFICES ASSUME p[1] # 1 PROVE FALSE
    OBVIOUS
  <2>2. 1 \in 1..n /\ k # 1 /\ 1 < k
    BY <1>3, <1>8, <2>1
  <2>3. s[p[1]].index <= s[1].index /\ p[1] \in 1..n /\ 1 \in 1..n
    BY <1>1, <1>8, <2>2
  <2>4. s[p[1]].index \in Nat \ {0} /\ s[1].index = 0
    BY <1>4, <2>1, <2>3
  <2>5. QED
    BY <2>3, <2>4
<1>10. \A i \in 1..n : i # 1 => p[i] \in 1..n /\ p[i] # 1
  <2>1. \A i \in 1..n : i # 1 => 1 < i /\ 1 \in 1..n
    BY <1>3
  <2>2. QED
    BY <1>1, <1>9, <2>1
<1>11. \A i \in 1..n : IF i = 1 THEN c[i].index = 0 ELSE c[i].index \in Nat \ {0} /\ Lawful(c[i])
  <2>1. \A i \in 1..n : c[i] = s[p[i]] /\ p[i] \in 1..n
    BY <1>1
  <2>2. QED
    BY <1>4, <1>9, <1>10, <2>1
<1>12. QED
  BY <1>6, <1>11 DEF LedgerOK, IsSequence

LEMMA SameLock ==
    ASSUME LockInv, UNCHANGED <<queue, req, reply, users, settings>>, LedgersRight'
    PROVE  LockInv'
<1>1. QueueRight'
  <2>1. \A r, stmt : /\ Watched(r)' <=> Watched(r)
                     /\ Fits(r, stmt)' <=> Fits(r, stmt)
    BY DEF Watched, IsToggle, IsCandidate, Sent, Fits
  <2>2. ASSUME NEW i \in 1..Len(queue) PROVE EntryOK(i)' /\ Carried(queue[i])'
    <3>1. EntryOK(i) /\ Carried(queue[i])
      BY DEF LockInv, QueueRight
    <3>2. Steady
      BY DEF Steady
    <3>3. EntryOK(i)'
      BY <2>1, <3>1 DEF EntryOK
    <3>4. ASSUME NEW q, q = queue[i] PROVE Carried(q)'
      BY <3>1, <3>2, <3>4, CarriedStays DEF EntryOK, LockInv
    <3>5. Carried(queue[i])'
      BY <3>4
    <3>6. QED
      BY <3>3, <3>5
  <2>3. QED
    BY <2>2 DEF LockInv, QueueRight
<1>2. RequestsRight'
  BY DEF LockInv, RequestsRight, RequestRight, Asked
<1>3. TablesRight'
  BY DEF LockInv, TablesRight
<1>4. Calm' => StatusInv'
  <2>1. Toggles' = Toggles
    BY DEF Toggles, Sent
  <2>2. Calm' => Calm
    BY <2>1 DEF Calm, TogglesApart, Apart
  <2>3. \A t \in Toggles : \A stmts : Asks(queue', t, stmts) <=> Asks(queue, t, stmts)
    OBVIOUS
  <2>4. QED
    BY <2>1, <2>2, <2>3, SameStatus DEF LockInv
<1>5. QED
  BY <1>1, <1>2, <1>3, <1>4 DEF LockInv

LEMMA RestartLock ==
    ASSUME LockInv, RestartAny
    PROVE  LockInv'
<1>1. UNCHANGED <<queue, req, reply, users, settings>>
  BY DEF RestartAny, Restart
<1>2. Steady /\ RequestsRight
  BY <1>1 DEF Steady, LockInv
<1>3. LedgerOK(candidate_blocks) /\ candidate_blocks # <<>>
  BY DEF LockInv, LedgersRight
<1>4. candidate_blocks' = candidate_blocks /\ candidateChain' \in LoadOrders(candidate_blocks)
  BY <1>3 DEF RestartAny, CandidateBlocksAfterBoot
<1>5. ASSUME NEW s, s \in {candidateChain', candidate_blocks'} PROVE LedgerOK(s)' /\ s # <<>>
  <2>1. LedgerOK(s) /\ s # <<>>
    BY <1>3, <1>4, <1>5, LoadedLedger
  <2>2. QED
    BY <1>2, <2>1, LedgerStays
<1>6. LedgerOK(candidateChain)' /\ LedgerOK(candidate_blocks)'
  BY <1>5
<1>7. LedgersRight'
  BY <1>5, <1>6 DEF LedgersRight
<1>8. QED
  BY <1>1, <1>7, SameLock

LEMMA InitLock == CandidateInit => LockInv
<1> SUFFICES ASSUME CandidateInit PROVE LockInv
  OBVIOUS
<1>1. /\ Asked = {} /\ Toggles = {} /\ queue = <<>>
      /\ settings = [is_open |-> InitiallyOpen]
      /\ \A r \in Requests : req[r] = NULL /\ reply[r] = NULL
      /\ DOMAIN req = Requests /\ DOMAIN reply = Requests
      /\ candidate_blocks = <<BootGenesis>> /\ candidateChain = <<BootGenesis>>
  BY DEF CandidateInit, Init, InitWith, Asked, Toggles, Sent
<1>2. QueueRight
  BY <1>1, ShortSequences DEF QueueRight
<1>3. RequestsRight
  BY <1>1, FS_EmptySet DEF RequestsRight, RequestRight
<1>4. LedgersRight
  <2> DEFINE s == <<BootGenesis>>
  <2>1. BootGenesis.index = 0
    BY DEF BootGenesis, GenesisBlock, Block
  <2>2. s # <<>>
    OBVIOUS
  <2>3. IsSequence(s) /\ 1..Len(s) = {1} /\ s[1] = BootGenesis
    BY ShortSequences
  <2> HIDE DEF s
  <2>4. LedgerOK(s)
    BY <2>1, <2>3 DEF LedgerOK
  <2>5. candidate_blocks = s /\ candidateChain = s
    BY <1>1 DEF s
  <2>6. QED
    BY <2>2, <2>4, <2>5 DEF LedgersRight
<1>5. TablesRight
  <2>1. \A u \in Users : StoredKey(u) \in KeyPairs
    BY DEF StoredKey, KeyPairs
  <2>2. users = [u \in Users |-> [sudah_vote |-> FALSE,
                                   public_key |-> IF u \in Unkeyed THEN NULL ELSE StoredKey(u)]]
    BY DEF CandidateInit, Init, InitWith
  <2>3. \A u \in DOMAIN users : "public_key" \in DOMAIN users[u]
                                /\ users[u].public_key \in KeyPairs \cup {NULL}
    BY <2>1, <2>2
  <2>4. settings \in [is_open : BOOLEAN] /\ DOMAIN users \subseteq Users
    BY <1>1, <2>2, ServerAssumption
  <2>5. QED
    BY <2>3, <2>4 DEF TablesRight
<1>6. StatusInv
  <2>1. Flipped = {}
    BY <1>1 DEF Flipped
  <2>2. Cardinality({}) % 2 = 0
    <3>1. Cardinality({}) = 0
      BY FS_EmptySet
    <3>2. 0 % 2 = 0
      OBVIOUS
    <3>3. QED
      BY <3>1, <3>2
  <2>3. OpenBy(Flipped) <=> InitiallyOpen
    BY <2>1, <2>2, ServerAssumption DEF OpenBy
  <2>4. settings.is_open = InitiallyOpen
    BY <1>1
  <2>5. QED
    BY <1>1, <2>3, <2>4 DEF StatusInv, Deciding
<1>7. QED
  BY <1>2, <1>3, <1>4, <1>5, <1>6 DEF LockInv

LEMMA NextLock == LockInv /\ [CandidateNext]_allVars => LockInv'
<1> SUFFICES ASSUME LockInv, [CandidateNext]_allVars PROVE LockInv'
  OBVIOUS
<1>1. ASSUME NEW r \in Requests, Arrive(r) /\ UNCHANGED candidateVars PROVE LockInv'
  BY <1>1, ArriveLock
<1>2. ASSUME NEW r \in Requests, CandidateArrive(r) PROVE LockInv'
  BY <1>2, CandidateArriveLock
<1>3. ASSUME NEW r \in Requests, ServeAny(r) PROVE LockInv'
  <2>1. CASE Serve(r) /\ UNCHANGED candidateVars
    BY <2>1, ServeLock
  <2>2. CASE CandidateServe(r)
    BY <2>2, SubmitLock, ProjectLock, MigrateLock DEF CandidateServe
  <2>3. CASE FatalError(r) /\ candidateChain' = <<>> /\ UNCHANGED candidateTables
    BY <2>3, FatalLock
  <2>4. QED
    BY <1>3, <2>1, <2>2, <2>3 DEF ServeAny
<1>4. CASE CrashAny
  BY <1>4, CrashLock
<1>5. CASE RestartAny
  BY <1>5, RestartLock
<1>6. CASE UNCHANGED allVars
  <2>1. UNCHANGED <<queue, req, reply, users, settings, up, candidate_blocks, candidateChain>>
    BY <1>6 DEF allVars, vars, shared, memory, db, candidateVars, candidateTables
  <2>2. LedgersRight'
    BY <2>1, LedgersStay DEF LockInv, Steady
  <2>3. QED
    BY <2>1, <2>2, SameLock
<1>7. QED
  BY <1>1, <1>2, <1>3, <1>4, <1>5, <1>6 DEF CandidateNext

LEMMA LockInvariant == CandidateSpec => []LockInv
BY InitLock, NextLock, PTL DEF CandidateSpec

\* While the election is open the candidate ledger takes corrections and voids
\* only: for any number of requests, submissions and migrations between them,
\* through failed statements, kills and restarts, no block in memory whose
\* request overlaps no toggle creates, renames or switches a candidate if the
\* election was open when it was sent.
THEOREM LedgerStaysLocked == CandidateSpec => []LockIsHonoured
<1>1. LockInv => LockIsHonoured
  <2> SUFFICES ASSUME LockInv, Calm, NEW i \in TxIndices,
                      AwayFromToggles(RequestOf(candidateChain[i])),
                      TxAt(i).tx_type \in LOCKED_FORBIDDEN_TYPES
               PROVE  ~OpenAfter(Toggles \cap req[RequestOf(candidateChain[i])].after)
    BY DEF LockIsHonoured, Calm, AwayFromToggles
  <2>1. LedgerOK(candidateChain)
    BY DEF LockInv, LedgersRight
  <2>2. i \in 1..Len(candidateChain) /\ i # 1
    <3>1. PICK S : candidateChain \in Seq(S)
      BY <2>1 DEF LedgerOK, IsSequence
    <3>2. QED
      BY <3>1 DEF TxIndices
  <2>3. Lawful(candidateChain[i])
    BY <2>1, <2>2 DEF LedgerOK
  <2>4. QED
    BY <2>3 DEF Lawful, Unlocked, TxAt
<1>2. QED
  BY <1>1, LockInvariant, PTL
================================================================================
