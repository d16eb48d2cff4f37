------------------------------ MODULE PageProofs ------------------------------
(***************************************************************************)
(* The voting page and the sessions: whose vote a stored vote is, and what *)
(* becomes of a session that is destroyed.  The log page: it misses no row *)
(* and an export is whole, whatever is recorded between two statements of  *)
(* a query or two pages of a reader.                                       *)
(***************************************************************************)
EXTENDS VotingPage, AuditLogPage, FiniteSetTheorems, TLAPS

(***************************************************************************)
(* Types.  A request that is answered has another shape than one under way.*)
(***************************************************************************)
AllKinds == SessionChanging \cup {"vote", "logout", "read"}
Names    == Users \cup {NULL}
Ids      == Nat \cup {NULL}
Sessions == [user : Names, sudah_vote : BOOLEAN, admin : BOOLEAN]

UnderWay ==
    [kind : AllKinds, user : Names, candidate : Candidates \cup {NULL}, cookie : Ids,
     awaited : BOOLEAN, phase : {"sent", "begun", "voted"}, id : Ids,
     loaded : Sessions \cup {NULL}, session : Sessions \cup {NULL},
     flagged : BOOLEAN, outcome : {NULL, "berhasil"}]

AnswersSent ==
    [kind : AllKinds, user : Names, candidate : Candidates \cup {NULL},
     phase : {"answered"}, id : Ids, sudah_vote : BOOLEAN \cup {NULL},
     outcome : {NULL, "berhasil", "ok"}]

PageTypeOK ==
    /\ currentUser \in [id : Users, sudah_vote : BOOLEAN] \cup {NULL}
    /\ dialog \in [candidate : Candidates, shown : Users] \cup {NULL}
    /\ cookie \in Nat /\ sent \in Nat
    /\ DOMAIN requests \subseteq 1..sent
    /\ requests \in [DOMAIN requests -> UnderWay \cup AnswersSent]
    /\ \A r \in DOMAIN requests :
          requests[r].kind = "login" =>
              /\ requests[r].user \in Users
              /\ requests[r].phase = "answered" => requests[r].sudah_vote \in BOOLEAN
    /\ DOMAIN store \subseteq Nat
    /\ store \in [DOMAIN store -> Sessions]
    /\ timers \subseteq Nat /\ ended \subseteq Nat
    /\ undercut \in BOOLEAN /\ overlapped \in BOOLEAN

(***************************************************************************)
(* Session ids.                                                            *)
(***************************************************************************)
Waits(r)    == requests[r].phase = "sent"
Works(r)    == requests[r].phase \in {"begun", "voted"}
IsAnswer(r) == requests[r].phase = "answered"

\* An id is the browser's only when the answer that brings it has arrived.
Private(r) ==
    /\ r # cookie
    /\ \A q \in DOMAIN requests :
          /\ Waits(q) => requests[q].cookie \in Nat /\ requests[q].cookie # r
          /\ Works(q) => requests[q].id \in Nat /\ (requests[q].id = r => q = r)
          /\ IsAnswer(q) => requests[q].id \in {q, NULL}
    /\ r \in DOMAIN store \cup timers \cup ended => ~Waits(r)

Known(s) == s <= sent

IdsOK ==
    /\ \A s \in DOMAIN store \cup timers \cup ended \cup {cookie} : Known(s)
    /\ \A q \in DOMAIN requests :
          /\ Waits(q) => Known(requests[q].cookie)
          /\ Works(q) => Known(requests[q].id)
    /\ \A r \in DOMAIN requests : Private(r)

(***************************************************************************)
(* Sessions under way.                                                     *)
(***************************************************************************)
\* What a request has made of its session before its handler ends.
CopyOK(r) ==
    LET q == requests[r]
    IN  Works(r) =>
          /\ q.session \in Sessions
          /\ \/ q.session = q.loaded
             \/ q.id = r /\ q.phase = "begun" /\ q.session.user = NULL
             \/ q.kind = "vote" /\ q.phase = "voted" /\ q.session.user \in voted
          /\ q.phase = "voted" => q.kind = "vote"

\* The session a request other than a login was given is nobody's.
NewIsNobodys(r) ==
    requests[r].kind # "login" =>
        /\ r \in DOMAIN store => store[r].user = NULL
        /\ Works(r) /\ requests[r].id = r => requests[r].session.user = NULL

SessionsOK == \A r \in DOMAIN requests : CopyOK(r) /\ NewIsNobodys(r)

(***************************************************************************)
(* Destroyed sessions: no request under way has one.                       *)
(***************************************************************************)
EndedInv ==
    ~undercut =>
        /\ ended \cap DOMAIN store = {}
        /\ \A r \in DOMAIN requests : Works(r) => requests[r].id \notin ended

(***************************************************************************)
(* Whose sessions the browser's cookies name.                              *)
(***************************************************************************)
Changes(r) == requests[r].kind \in SessionChanging
Admin(r)   == requests[r].kind \in {"adminLogin", "adminLogout"}
LoggingIn(r) == requests[r].kind = "login"
LoggedIn(r)  == LoggingIn(r) /\ IsAnswer(r) /\ requests[r].outcome # NULL
VoteSent(r)  == requests[r].kind = "vote" /\ Waits(r)

\* The users the page shows, is about to show, or lets vote.
Seen ==
       {u \in Users : currentUser # NULL /\ currentUser.id = u}
  \cup {u \in Users : dialog # NULL /\ dialog.shown = u}
  \cup {requests[r].user : r \in {r \in DOMAIN requests : VoteSent(r) \/ LoggedIn(r)}}

\* A session of user u or of somebody whose flag already forbids a vote.
CleanUser(user, u, flags) == user = NULL \/ user = u \/ user \in flags

CleanIn(sessions, flags, s, u) == s \in DOMAIN sessions => CleanUser(sessions[s].user, u, flags)

Clean(s, u)     == CleanIn(store, voted, s, u)
CleanNext(s, u) == CleanIn(store', voted', s, u)

OneChange ==
    /\ \A r, q \in DOMAIN requests : Changes(r) /\ Changes(q) => r = q
    /\ \A r \in DOMAIN requests :
          LoggingIn(r) => /\ currentUser = NULL /\ dialog = NULL
                          /\ \A q \in DOMAIN requests : ~VoteSent(q)

OneSeen == \A u, v \in Seen : u = v

SeenClean ==
    \A u \in Seen :
        /\ Clean(cookie, u)
        /\ \A r \in DOMAIN requests :
              /\ VoteSent(r) \/ (Admin(r) /\ Waits(r)) => Clean(requests[r].cookie, u)
              /\ Admin(r) /\ Works(r) => CleanUser(requests[r].session.user, u, voted)
              /\ LoggingIn(r) /\ IsAnswer(r) /\ requests[r].id = r => Clean(r, u)

\* The session a login is going to write is the one the cookie names, or the
\* cookie names a harmless one.
LoginClean ==
    \A r \in DOMAIN requests :
        /\ LoggingIn(r) /\ Waits(r) => requests[r].cookie = cookie \/ Clean(cookie, NULL)
        /\ LoggingIn(r) /\ Works(r) =>
              /\ requests[r].id = cookie \/ Clean(cookie, NULL)
              /\ Clean(requests[r].id, requests[r].session.user)

VotesClean ==
    /\ \A r \in DOMAIN requests :
          /\ VoteSent(r) => requests[r].user \in Users
          /\ requests[r].kind = "vote" /\ requests[r].phase = "begun" /\ ~requests[r].flagged
               => requests[r].session.user \in {NULL, requests[r].user}
    /\ \A v \in votes : v.user = v.shown

ShownInv == ~overlapped => OneChange /\ OneSeen /\ SeenClean /\ LoginClean /\ VotesClean

PageInv == PageTypeOK /\ IdsOK /\ SessionsOK

(***************************************************************************)
(* What the actions do to the requests.                                    *)
(***************************************************************************)
\* Only request r is changed, or taken away.
OthersKept(r) ==
    /\ requests' = [q \in DOMAIN requests' |-> requests'[q]]
    /\ DOMAIN requests' \subseteq DOMAIN requests
    /\ DOMAIN requests \subseteq DOMAIN requests' \cup {r}
    /\ \A q \in DOMAIN requests' : q # r => requests'[q] = requests[q]

LEMMA SendShape ==
    ASSUME PageTypeOK, NEW kind, NEW user \in Names,
           NEW candidate \in Candidates \cup {NULL}, Send(kind, user, candidate)
    PROVE  /\ sent' = sent + 1
           /\ requests' = [q \in DOMAIN requests' |-> requests'[q]]
           /\ sent + 1 \notin DOMAIN requests
           /\ DOMAIN requests' = DOMAIN requests \cup {sent + 1}
           /\ \A q \in DOMAIN requests : requests'[q] = requests[q]
           /\ requests'[sent + 1] \in UnderWay
           /\ requests'[sent + 1].kind = kind /\ requests'[sent + 1].user = user
           /\ requests'[sent + 1].cookie = cookie
           /\ requests'[sent + 1].phase = "sent"
<1> DEFINE new == [kind |-> kind, user |-> user, candidate |-> candidate, cookie |-> cookie,
                   awaited |-> TRUE, phase |-> "sent", id |-> NULL, loaded |-> NULL,
                   session |-> NULL, flagged |-> FALSE, outcome |-> NULL]
<1>1. sent' = sent + 1 /\ requests' = Extended(requests, sent + 1, new)
  BY DEF Send
<1>2. kind \in AllKinds
  BY PageAssumption DEF Send, AllKinds
<1>3. /\ new \in UnderWay
      /\ new.kind = kind /\ new.user = user /\ new.cookie = cookie /\ new.phase = "sent"
  BY <1>2 DEF UnderWay, PageTypeOK, Ids
<1>4. sent + 1 \notin DOMAIN requests
  BY DEF PageTypeOK
<1>5. /\ DOMAIN requests' = DOMAIN requests \cup {sent + 1}
      /\ requests' = [q \in DOMAIN requests' |-> requests'[q]]
      /\ requests'[sent + 1] = new
      /\ \A q \in DOMAIN requests : requests'[q] = requests[q]
  BY <1>1, <1>4 DEF Extended
<1>6. QED
  <2> HIDE DEF new
  <2>1. QED
    BY <1>1, <1>3, <1>4, <1>5

\* A request that has been given its session.
Begun(q, id, loaded, session, flagged) ==
    [q EXCEPT !.phase = "begun", !.cookie = NULL, !.id = id, !.loaded = loaded,
              !.session = session, !.flagged = flagged]

LEMMA BegunRecord ==
    ASSUME NEW q \in UnderWay, NEW id \in Ids, NEW loaded \in Sessions \cup {NULL},
           NEW session \in Sessions, NEW flagged \in BOOLEAN,
           NEW new, new = Begun(q, id, loaded, session, flagged)
    PROVE  /\ new \in UnderWay
           /\ new.kind = q.kind /\ new.user = q.user
           /\ new.phase = "begun" /\ new.session = session /\ new.flagged = flagged
           /\ new.id = id /\ new.loaded = loaded
BY DEF UnderWay, Ids, Begun

LEMMA BeginShape ==
    ASSUME PageTypeOK, IdsOK, NEW r \in DOMAIN requests, Begin(r)
    PROVE  /\ OthersKept(r) /\ r \in DOMAIN requests'
           /\ Waits(r) /\ requests'[r] \in UnderWay
           /\ requests'[r].kind = requests[r].kind /\ requests'[r].user = requests[r].user
           /\ requests'[r].phase = "begun"
           /\ requests'[r].session \in Sessions
           /\ \/ /\ requests[r].cookie \in DOMAIN store
                 /\ requests'[r].id = requests[r].cookie
                 /\ requests'[r].session = store[requests[r].cookie]
                 /\ requests'[r].loaded = requests'[r].session
              \/ /\ requests[r].cookie \notin DOMAIN store
                 /\ requests'[r].id = r
                 /\ requests'[r].session.user = NULL
           /\ requests'[r].kind = "vote" /\ ~requests'[r].flagged
                => requests'[r].session.user \notin voted
<1> DEFINE sid     == requests[r].cookie
           known   == sid \in DOMAIN store
           session == IF known THEN store[sid] ELSE NewSession
           id      == IF known THEN sid ELSE r
           loaded  == IF known THEN session ELSE NULL
           flagged == requests[r].kind = "vote" /\ session.user \in voted
           new     == Begun(requests[r], id, loaded, session, flagged)
<1>1. /\ requests[r].phase = "sent"
      /\ requests' = [requests EXCEPT ![r] = new]
  BY DEF Begin, Begun
<1>2. requests[r] \in UnderWay
  BY <1>1 DEF PageTypeOK, AnswersSent
<1>3. session \in Sessions /\ (~known => session.user = NULL)
  BY DEF PageTypeOK, NewSession, Sessions, Names
<1>4. sid \in Nat /\ r \in Nat
  BY <1>1 DEF IdsOK, Private, Waits, PageTypeOK
<1>5. flagged \in BOOLEAN /\ (requests[r].kind = "vote" /\ ~flagged => session.user \notin voted)
  OBVIOUS
<1>6. /\ new \in UnderWay
      /\ new.kind = requests[r].kind /\ new.user = requests[r].user
      /\ new.phase = "begun" /\ new.session = session /\ new.flagged = flagged
      /\ new.id = id /\ new.loaded = loaded
  <2>1. id \in Ids
    BY <1>4 DEF Ids
  <2>2. loaded \in Sessions \cup {NULL}
    BY <1>3
  <2>3. session \in Sessions
    BY <1>3
  <2>4. flagged \in BOOLEAN
    BY <1>5
  <2>5. new = Begun(requests[r], id, loaded, session, flagged)
    OBVIOUS
  <2> HIDE DEF id, loaded, session, flagged, new
  <2>6. QED
    BY <1>2, <2>1, <2>2, <2>3, <2>4, <2>5, BegunRecord
<1>7. OthersKept(r) /\ r \in DOMAIN requests' /\ requests'[r] = new
  BY <1>1 DEF OthersKept
<1>8. QED
  <2> HIDE DEF new, flagged
  <2>1. requests'[r].session = session /\ requests'[r].flagged = flagged
    BY <1>6, <1>7
  <2>2. QED
    BY <1>1, <1>3, <1>5, <1>6, <1>7, <2>1 DEF Waits

LEMMA CastVoteShape ==
    ASSUME PageTypeOK, SessionsOK, NEW r \in DOMAIN requests, CastVote(r)
    PROVE  /\ OthersKept(r) /\ r \in DOMAIN requests'
           /\ requests[r].kind = "vote" /\ requests[r].phase = "begun"
           /\ ~requests[r].flagged
           /\ requests[r].session.user # NULL
           /\ requests'[r] \in UnderWay
           /\ requests'[r].kind = "vote" /\ requests'[r].phase = "voted"
           /\ requests'[r].id = requests[r].id
           /\ requests'[r].session \in Sessions
           /\ requests'[r].session.user = requests[r].session.user
           /\ \/ requests'[r].session = requests'[r].loaded
              \/ requests'[r].session.user \in voted'
           /\ voted \subseteq voted'
           /\ \A v \in votes' : v \in votes \/ (v.user = requests[r].session.user
                                              /\ v.shown = requests[r].user)
<1> DEFINE u == requests[r].session.user
<1>1. /\ requests[r].kind = "vote" /\ requests[r].phase = "begun"
      /\ ~requests[r].flagged /\ u # NULL
  BY DEF CastVote
<1>2. requests[r] \in UnderWay
  BY <1>1 DEF PageTypeOK, AnswersSent
<1>3. requests[r].session \in Sessions
  BY <1>1 DEF SessionsOK, CopyOK, Works
<1>4. \/ requests[r].session = requests[r].loaded
      \/ requests[r].session.user = NULL
  BY <1>1 DEF SessionsOK, CopyOK, Works
<1>5. votes' = votes \cup {[user |-> u, candidate |-> requests[r].candidate,
                            shown |-> requests[r].user]}
  BY DEF CastVote
<1>6. CASE /\ voted' = voted \cup {u}
           /\ requests' = [requests EXCEPT ![r].phase = "voted", ![r].outcome = "berhasil",
                                           ![r].session.sudah_vote = TRUE]
  <2> DEFINE session == [requests[r].session EXCEPT !.sudah_vote = TRUE]
             new     == [requests[r] EXCEPT !.phase = "voted", !.outcome = "berhasil",
                                            !.session = session]
  <2>1. requests' = [requests EXCEPT ![r] = new]
    BY <1>2, <1>6 DEF UnderWay
  <2>2. session \in Sessions /\ session.user = u
    BY <1>3 DEF Sessions
  <2>3. /\ new \in UnderWay /\ new.kind = "vote" /\ new.phase = "voted"
        /\ new.id = requests[r].id /\ new.session = session
    <3> HIDE DEF session
    <3>1. QED
      BY <1>1, <1>2, <2>2 DEF UnderWay
  <2>4. OthersKept(r) /\ r \in DOMAIN requests' /\ requests'[r] = new
    BY <2>1 DEF OthersKept
  <2>5. QED
    <3> HIDE DEF new, session
    <3>1. QED
      BY <1>1, <1>5, <1>6, <2>2, <2>3, <2>4
<1>7. CASE /\ voted' \in {voted, voted \cup {u}}
           /\ requests' = [requests EXCEPT ![r].phase = "voted"]
  <2> DEFINE new == [requests[r] EXCEPT !.phase = "voted"]
  <2>1. requests' = [requests EXCEPT ![r] = new]
    BY <1>7
  <2>2. /\ new \in UnderWay /\ new.kind = "vote" /\ new.phase = "voted"
        /\ new.id = requests[r].id /\ new.session = requests[r].session
        /\ new.loaded = requests[r].loaded
    BY <1>1, <1>2 DEF UnderWay
  <2>3. OthersKept(r) /\ r \in DOMAIN requests' /\ requests'[r] = new
    BY <2>1 DEF OthersKept
  <2>4. QED
    <3> HIDE DEF new
    <3>1. QED
      BY <1>1, <1>3, <1>4, <1>5, <1>7, <2>2, <2>3
<1>8. QED
  BY <1>6, <1>7 DEF CastVote

\* The table of sessions has one more or is changed at one id.
Writes(id, session) ==
    /\ store' = [s \in DOMAIN store' |-> store'[s]]
    /\ DOMAIN store' = DOMAIN store \cup {id}
    /\ store'[id] = session
    /\ \A s \in DOMAIN store : s # id => store'[s] = store[s]

LEMMA ResultShape ==
    ASSUME PageTypeOK, SessionsOK, NEW r \in DOMAIN requests, Works(r),
           NEW result \in Result(r)
    PROVE  /\ result.session \in Sessions
           /\ ~Changes(r) => result.session = requests[r].session
           /\ Admin(r) => result.session.user = requests[r].session.user
           /\ LoggingIn(r) => \/ result.session.user = requests[r].user
                              \/ /\ result.session = requests[r].session
                                 /\ result.outcome = NULL
           /\ result.outcome \in {NULL, "berhasil", "ok"}
<1>1. requests[r] \in UnderWay
  BY DEF PageTypeOK, AnswersSent, Works
<1>2. requests[r].session \in Sessions
  BY DEF SessionsOK, CopyOK
<1>3. CASE LoggingIn(r)
  <2> DEFINE session == [user |-> requests[r].user, sudah_vote |-> requests[r].user \in voted,
                         admin |-> requests[r].session.admin]
  <2>1. /\ requests[r].user \in Users
        /\ requests[r].session.admin \in BOOLEAN
    BY <1>2, <1>3 DEF PageTypeOK, LoggingIn, Sessions
  <2>2. session \in Sessions /\ session.user = requests[r].user
    BY <2>1 DEF Sessions, Names
  <2>3. \/ result = [session |-> session, outcome |-> "ok"]
        \/ result = [session |-> requests[r].session, outcome |-> NULL]
    BY <1>3 DEF Result, LoggingIn
  <2>4. QED
    <3> HIDE DEF session
    <3>1. QED
      BY <1>2, <1>3, <2>2, <2>3 DEF LoggingIn, Changes, SessionChanging, Admin
<1>4. CASE Admin(r)
  <2> DEFINE given == [requests[r].session EXCEPT !.admin = TRUE]
             taken == [requests[r].session EXCEPT !.admin = FALSE]
  <2>1. \/ result = [session |-> given, outcome |-> NULL]
        \/ result = [session |-> taken, outcome |-> NULL]
        \/ result = [session |-> requests[r].session, outcome |-> NULL]
    BY <1>4 DEF Result, Admin
  <2>2. given \in Sessions /\ given.user = requests[r].session.user
    BY <1>2 DEF Sessions
  <2>3. taken \in Sessions /\ taken.user = requests[r].session.user
    BY <1>2 DEF Sessions
  <2>4. ~LoggingIn(r) /\ Changes(r)
    BY <1>4 DEF LoggingIn, Changes, SessionChanging, Admin
  <2>5. QED
    <3> HIDE DEF given, taken
    <3>1. QED
      BY <1>2, <2>1, <2>2, <2>3, <2>4
<1>5. CASE ~LoggingIn(r) /\ ~Admin(r)
  <2>1. result = [session |-> requests[r].session, outcome |-> requests[r].outcome]
    BY <1>5 DEF Result, LoggingIn, Admin
  <2>2. requests[r].outcome \in {NULL, "berhasil"}
    BY <1>1 DEF UnderWay
  <2>3. QED
    BY <1>2, <1>5, <2>1, <2>2
<1>6. QED
  BY <1>3, <1>4, <1>5

LEMMA FinishShape ==
    ASSUME NEW r \in DOMAIN requests, NEW answer, requests' = Finish(r, answer)
    PROVE  /\ OthersKept(r)
           /\ r \in DOMAIN requests' => requests'[r] = answer
<1>1. CASE requests' = Extended(requests, r, answer)
  BY <1>1 DEF Extended, OthersKept
<1>2. CASE requests' = Without(requests, r)
  BY <1>2 DEF Without, Restrict, OthersKept
<1>3. QED
  BY <1>1, <1>2 DEF Finish

LEMMA AnsweredShape ==
    ASSUME PageTypeOK, IdsOK, SessionsOK, NEW r \in DOMAIN requests, Answered(r)
    PROVE  /\ Works(r) /\ requests[r].kind # "logout" /\ OthersKept(r)
           /\ r \in DOMAIN requests' =>
                 /\ requests'[r] \in AnswersSent
                 /\ requests'[r].kind = requests[r].kind
                 /\ requests'[r].user = requests[r].user
                 /\ requests'[r].phase = "answered"
                 /\ requests'[r].id = IF requests[r].id = r THEN r ELSE NULL
                 /\ LoggingIn(r) => requests'[r].sudah_vote \in BOOLEAN
           /\ \E session \in Sessions :
                 /\ \/ session = requests[r].loaded /\ store' = store
                    \/ session # requests[r].loaded /\ Writes(requests[r].id, session)
                 /\ ~Changes(r) => session = requests[r].session
                 /\ Admin(r) => session.user = requests[r].session.user
                 /\ LoggingIn(r) =>
                       \/ session.user = requests[r].user
                       \/ /\ session = requests[r].session
                          /\ r \in DOMAIN requests' => requests'[r].outcome = NULL
           /\ timers' \subseteq timers \cup {requests[r].id}
<1>1. Works(r) /\ requests[r].kind # "logout"
  BY DEF Answered, Works
<1>2. PICK result \in Result(r) :
          /\ store' = Saved(r, result.session)
          /\ requests' = Finish(r, Answer(r, requests[r].id,
                 IF requests[r].kind = "login" THEN result.session.sudah_vote ELSE NULL,
                 result.outcome))
  BY DEF Answered
<1> DEFINE sudah_vote == IF requests[r].kind = "login" THEN result.session.sudah_vote ELSE NULL
           id         == IF requests[r].id = r THEN r ELSE NULL
           answer     == [kind |-> requests[r].kind, user |-> requests[r].user,
                          candidate |-> requests[r].candidate, phase |-> "answered",
                          id |-> id, sudah_vote |-> sudah_vote, outcome |-> result.outcome]
<1>3. requests' = Finish(r, answer)
  BY <1>2 DEF Answer
<1>4. OthersKept(r) /\ (r \in DOMAIN requests' => requests'[r] = answer)
  <2> HIDE DEF answer
  <2>1. QED
    BY <1>3, FinishShape
<1>5. requests[r] \in UnderWay
  BY <1>1 DEF PageTypeOK, AnswersSent, Works
<1>6. /\ result.session \in Sessions
      /\ ~Changes(r) => result.session = requests[r].session
      /\ Admin(r) => result.session.user = requests[r].session.user
      /\ LoggingIn(r) => \/ result.session.user = requests[r].user
                         \/ /\ result.session = requests[r].session
                            /\ result.outcome = NULL
      /\ result.outcome \in {NULL, "berhasil", "ok"}
  BY <1>1, ResultShape
<1>7. sudah_vote \in BOOLEAN \cup {NULL} /\ (LoggingIn(r) => sudah_vote \in BOOLEAN)
  BY <1>6 DEF Sessions, LoggingIn
<1>8. id \in Ids
  BY DEF Ids, PageTypeOK
<1>9. /\ answer \in AnswersSent /\ answer.kind = requests[r].kind
      /\ answer.user = requests[r].user /\ answer.phase = "answered"
      /\ answer.id = id /\ answer.sudah_vote = sudah_vote /\ answer.outcome = result.outcome
  <2> HIDE DEF id, sudah_vote
  <2>1. QED
    BY <1>5, <1>6, <1>7, <1>8 DEF UnderWay, AnswersSent
<1>10. \/ result.session = requests[r].loaded /\ store' = store
       \/ result.session # requests[r].loaded /\ Writes(requests[r].id, result.session)
  BY <1>2 DEF Saved, Extended, Writes
<1>11. timers' \subseteq timers \cup {requests[r].id}
  BY DEF Answered, TimersAfter
<1>12. QED
  <2> HIDE DEF answer, sudah_vote
  <2>1. r \in DOMAIN requests' =>
            /\ requests'[r] \in AnswersSent
            /\ requests'[r].kind = requests[r].kind
            /\ requests'[r].user = requests[r].user
            /\ requests'[r].phase = "answered"
            /\ requests'[r].id = IF requests[r].id = r THEN r ELSE NULL
            /\ LoggingIn(r) => requests'[r].sudah_vote \in BOOLEAN
            /\ requests'[r].outcome = result.outcome
    BY <1>4, <1>7, <1>9
  <2>2. QED
    BY <1>1, <1>4, <1>6, <1>10, <1>11, <2>1

LEMMA LogoutShape ==
    ASSUME PageTypeOK, NEW r \in DOMAIN requests, LogoutAnswered(r)
    PROVE  /\ Works(r) /\ requests[r].kind = "logout" /\ OthersKept(r)
           /\ r \in DOMAIN requests' =>
                 /\ requests'[r] \in AnswersSent
                 /\ requests'[r].kind = "logout" /\ requests'[r].phase = "answered"
                 /\ requests'[r].id = NULL
           /\ store' = [s \in DOMAIN store \ {requests[r].id} |-> store[s]]
           /\ Ends(requests[r].id, DOMAIN requests \ {r})
<1> DEFINE answer == [kind |-> requests[r].kind, user |-> requests[r].user,
                      candidate |-> requests[r].candidate, phase |-> "answered",
                      id |-> NULL, sudah_vote |-> NULL, outcome |-> "ok"]
<1>1. Works(r) /\ requests[r].kind = "logout"
  BY DEF LogoutAnswered, Works
<1>2. NULL # r
  BY PageAssumption DEF PageTypeOK
<1>3. requests' = Finish(r, answer)
  BY <1>2 DEF LogoutAnswered, Answer
<1>4. OthersKept(r) /\ (r \in DOMAIN requests' => requests'[r] = answer)
  <2> HIDE DEF answer
  <2>1. QED
    BY <1>3, FinishShape
<1>5. requests[r] \in UnderWay
  BY <1>1 DEF PageTypeOK, AnswersSent, Works
<1>6. answer \in AnswersSent /\ answer.kind = requests[r].kind /\ answer.phase = "answered"
      /\ answer.id = NULL
  BY <1>5 DEF UnderWay, AnswersSent, Ids
<1>7. /\ store' = [s \in DOMAIN store \ {requests[r].id} |-> store[s]]
      /\ Ends(requests[r].id, DOMAIN requests \ {r})
  BY DEF LogoutAnswered, AfterLogout, Without, Restrict
<1>8. QED
  <2> HIDE DEF answer
  <2>1. QED
    BY <1>1, <1>4, <1>6, <1>7

LEMMA DeliverShape ==
    ASSUME NEW r \in DOMAIN requests, Deliver(r)
    PROVE  /\ IsAnswer(r) /\ OthersKept(r) /\ r \notin DOMAIN requests'
           /\ cookie' = IF requests[r].id = r THEN r ELSE cookie
           /\ UNCHANGED <<dialog, sent, overlapped, store, timers, voted, votes, ended, undercut>>
BY DEF Deliver, IsAnswer, Without, Restrict, OthersKept, ServerUnchanged, tables

\* A reload and a kill drop requests; of those that stay, the browser forgets
\* some, and some logouts are answered by their broken connection.
Carried(q) ==
    /\ requests'[q] \in UnderWay \cup AnswersSent
    /\ requests'[q].kind = requests[q].kind
    /\ \/ requests'[q] = requests[q]
       \/ /\ requests[q] \in UnderWay
          /\ requests'[q].user = requests[q].user /\ requests'[q].cookie = requests[q].cookie
          /\ requests'[q].phase = requests[q].phase /\ requests'[q].id = requests[q].id
          /\ requests'[q].loaded = requests[q].loaded
          /\ requests'[q].session = requests[q].session
          /\ requests'[q].flagged = requests[q].flagged
       \/ /\ requests'[q].kind = "logout" /\ requests'[q].phase = "answered"
          /\ requests'[q].id = NULL

AllCarried ==
    /\ requests' = [q \in DOMAIN requests' |-> requests'[q]]
    /\ DOMAIN requests' \subseteq DOMAIN requests
    /\ \A q \in DOMAIN requests' : Carried(q)

LEMMA ReloadShape ==
    ASSUME PageTypeOK, Reload
    PROVE  /\ AllCarried
           /\ \A q \in DOMAIN requests' : requests'[q].phase # "answered"
<1>1. requests' = [r \in {r \in DOMAIN requests : requests[r].phase # "answered"} |->
                      [requests[r] EXCEPT !.awaited = FALSE]]
  BY DEF Reload
<1>2. ASSUME NEW q \in DOMAIN requests'
      PROVE  Carried(q) /\ requests'[q].phase # "answered"
  <2> DEFINE new == [requests[q] EXCEPT !.awaited = FALSE]
  <2>1. q \in DOMAIN requests /\ requests[q].phase # "answered" /\ requests'[q] = new
    BY <1>1, <1>2
  <2>2. requests[q] \in UnderWay
    BY <2>1 DEF PageTypeOK, AnswersSent
  <2>3. /\ new \in UnderWay /\ new.kind = requests[q].kind
        /\ new.user = requests[q].user /\ new.cookie = requests[q].cookie
        /\ new.phase = requests[q].phase /\ new.id = requests[q].id
        /\ new.loaded = requests[q].loaded /\ new.session = requests[q].session
        /\ new.flagged = requests[q].flagged
    BY <2>2 DEF UnderWay
  <2>4. QED
    <3> HIDE DEF new
    <3>1. QED
      BY <2>1, <2>2, <2>3 DEF Carried
<1>3. /\ requests' = [q \in DOMAIN requests' |-> requests'[q]]
      /\ DOMAIN requests' \subseteq DOMAIN requests
  BY <1>1
<1>4. QED
  BY <1>2, <1>3 DEF AllCarried

LEMMA CrashShape ==
    ASSUME PageTypeOK, Crash
    PROVE  AllCarried
<1> DEFINE answer(r) == [kind |-> requests[r].kind, user |-> requests[r].user,
                         candidate |-> requests[r].candidate, phase |-> "answered",
                         id |-> NULL, sudah_vote |-> NULL, outcome |-> NULL]
<1>1. NULL \notin DOMAIN requests
  BY PageAssumption DEF PageTypeOK
<1>2. requests' = [r \in {r \in DOMAIN requests : Waiting(r)} |->
           IF requests[r].phase = "answered" THEN requests[r] ELSE answer(r)]
  BY <1>1 DEF Crash, Answer
<1>3. ASSUME NEW q \in DOMAIN requests'
      PROVE  Carried(q)
  <2>1. q \in DOMAIN requests /\ Waiting(q)
    BY <1>2
  <2>2. CASE requests[q].phase = "answered"
    <3>1. requests'[q] = requests[q]
      BY <1>2, <2>2
    <3>2. requests[q] \in UnderWay \cup AnswersSent
      BY <2>1 DEF PageTypeOK
    <3>3. QED
      BY <3>1, <3>2 DEF Carried
  <2>3. CASE requests[q].phase # "answered"
    <3>1. requests[q].kind = "logout" /\ requests'[q] = answer(q)
      BY <1>2, <2>1, <2>3 DEF Waiting
    <3>2. requests[q] \in UnderWay
      BY <2>1, <2>3 DEF PageTypeOK, AnswersSent
    <3>3. /\ answer(q) \in AnswersSent /\ answer(q).kind = requests[q].kind
          /\ answer(q).phase = "answered" /\ answer(q).id = NULL
      BY <3>2 DEF UnderWay, AnswersSent, Ids
    <3>4. QED
      <4> HIDE DEF answer
      <4>1. QED
        BY <3>1, <3>3 DEF Carried
  <2>4. QED
    BY <2>2, <2>3
<1>4. /\ requests' = [q \in DOMAIN requests' |-> requests'[q]]
      /\ DOMAIN requests' \subseteq DOMAIN requests
  BY <1>2
<1>5. QED
  BY <1>3, <1>4 DEF AllCarried

(***************************************************************************)
(* Types.                                                                  *)
(***************************************************************************)
RequestsOK ==
    /\ requests = [q \in DOMAIN requests |-> requests[q]]
    /\ \A r \in DOMAIN requests :
          /\ r \in 1..sent
          /\ requests[r] \in UnderWay \cup AnswersSent
          /\ requests[r].kind = "login" =>
                /\ requests[r].user \in Users
                /\ requests[r].phase = "answered" => requests[r].sudah_vote \in BOOLEAN

TablesOK ==
    /\ DOMAIN store \subseteq Nat
    /\ store \in [DOMAIN store -> Sessions]
    /\ timers \subseteq Nat /\ ended \subseteq Nat
    /\ undercut \in BOOLEAN /\ overlapped \in BOOLEAN

BrowserOK ==
    /\ currentUser \in [id : Users, sudah_vote : BOOLEAN] \cup {NULL}
    /\ dialog \in [candidate : Candidates, shown : Users] \cup {NULL}
    /\ cookie \in Nat /\ sent \in Nat

LEMMA TypeParts ==
    PageTypeOK <=> RequestsOK /\ TablesOK /\ BrowserOK
BY DEF PageTypeOK, RequestsOK, TablesOK, BrowserOK

LEMMA TypePartsNext ==
    PageTypeOK' <=> RequestsOK' /\ TablesOK' /\ BrowserOK'
BY DEF PageTypeOK, RequestsOK, TablesOK, BrowserOK

\* What the browser sends, and when.
BrowserSends ==
    \E kind \in AllKinds, user \in Names, candidate \in Candidates \cup {NULL} :
        /\ Send(kind, user, candidate)
        /\ cookie' = cookie /\ currentUser' = currentUser /\ dialog' \in {dialog, NULL}
        /\ ServerUnchanged
        /\ kind = "login" => user \in Users /\ currentUser = NULL /\ dialog = NULL
        /\ kind = "vote" => dialog # NULL /\ user = dialog.shown

Opens ==
    /\ currentUser # NULL
    /\ \E c \in Candidates : dialog' = [candidate |-> c, shown |-> currentUser.id]
    /\ UNCHANGED <<currentUser, cookie, requests, sent, overlapped>> /\ ServerUnchanged

Quiet ==
    /\ dialog' \in {dialog, NULL}
    /\ UNCHANGED <<currentUser, cookie, requests, sent, overlapped>> /\ ServerUnchanged

LEMMA BrowserShape ==
    ASSUME PageTypeOK, Browser
    PROVE  BrowserSends \/ Opens \/ Quiet \/ Reload
<1>1. \A u \in Users : u \in Names
  BY DEF Names
<1>2. NULL \in Names /\ NULL \in Candidates \cup {NULL}
  BY DEF Names
<1>3. {"login", "logout", "vote", "adminLogin", "adminLogout", "read"} \subseteq AllKinds
  BY DEF AllKinds, SessionChanging
<1>4. ASSUME NEW u \in Users, Login(u) PROVE BrowserSends
  <2>1. /\ Send("login", u, NULL) /\ currentUser = NULL /\ dialog = NULL
        /\ cookie' = cookie /\ currentUser' = currentUser /\ dialog' = dialog
        /\ ServerUnchanged
    BY <1>4 DEF Login, NoOverlay, page
  <2>2. QED
    BY <1>1, <1>2, <1>3, <2>1 DEF BrowserSends
<1>5. ASSUME Logout PROVE BrowserSends
  <2>1. /\ Send("logout", NULL, NULL)
        /\ cookie' = cookie /\ currentUser' = currentUser /\ dialog' = dialog
        /\ ServerUnchanged
    BY <1>5 DEF Logout, page
  <2>2. QED
    BY <1>2, <1>3, <2>1 DEF BrowserSends
<1>6. ASSUME NEW c \in Candidates, Vote(c) PROVE Opens
  BY <1>6 DEF Vote, Opens
<1>7. ASSUME Confirmed PROVE BrowserSends \/ Quiet
  <2>1. CASE Send("vote", dialog.shown, dialog.candidate)
    <3>1. /\ dialog # NULL /\ dialog' = NULL
          /\ cookie' = cookie /\ currentUser' = currentUser /\ ServerUnchanged
      BY <1>7 DEF Confirmed
    <3>2. dialog.shown \in Names /\ dialog.candidate \in Candidates \cup {NULL}
      BY <3>1 DEF PageTypeOK, Names
    <3>3. QED
      BY <1>3, <2>1, <3>1, <3>2 DEF BrowserSends
  <2>2. CASE UNCHANGED <<requests, sent, overlapped>>
    BY <1>7, <2>2 DEF Confirmed, Quiet
  <2>3. QED
    BY <1>7, <2>1, <2>2 DEF Confirmed
<1>8. ASSUME TutupKonfirmasi PROVE BrowserSends
  <2>1. /\ Send("logout", NULL, NULL)
        /\ cookie' = cookie /\ currentUser' = currentUser /\ dialog' = dialog
        /\ ServerUnchanged
    BY <1>8 DEF TutupKonfirmasi
  <2>2. QED
    BY <1>2, <1>3, <2>1 DEF BrowserSends
<1>9. ASSUME OtherRequest PROVE BrowserSends
  <2>1. PICK kind \in {"adminLogin", "adminLogout", "read"} : Send(kind, NULL, NULL)
    BY <1>9 DEF OtherRequest
  <2>2. /\ cookie' = cookie /\ currentUser' = currentUser /\ dialog' = dialog
        /\ ServerUnchanged
    BY <1>9 DEF OtherRequest, page
  <2>3. kind \in AllKinds /\ kind # "login" /\ kind # "vote"
    BY <1>3, <2>1
  <2>4. QED
    BY <1>2, <2>1, <2>2, <2>3 DEF BrowserSends
<1>10. QED
  BY <1>4, <1>5, <1>6, <1>7, <1>8, <1>9 DEF Browser

LEMMA RequestsKept ==
    ASSUME RequestsOK, NEW r \in DOMAIN requests, OthersKept(r), sent' = sent,
           r \in DOMAIN requests' =>
              /\ requests'[r] \in UnderWay \cup AnswersSent
              /\ requests'[r].kind = "login" =>
                    /\ requests'[r].user \in Users
                    /\ requests'[r].phase = "answered" => requests'[r].sudah_vote \in BOOLEAN
    PROVE  RequestsOK'
BY DEF RequestsOK, OthersKept

LEMMA RequestsCarried ==
    ASSUME RequestsOK, AllCarried, sent' = sent
    PROVE  RequestsOK'
<1>1. ASSUME NEW q \in DOMAIN requests'
      PROVE  /\ q \in 1..sent'
             /\ requests'[q] \in UnderWay \cup AnswersSent
             /\ requests'[q].kind = "login" =>
                   /\ requests'[q].user \in Users
                   /\ requests'[q].phase = "answered" => requests'[q].sudah_vote \in BOOLEAN
  <2>1. q \in DOMAIN requests /\ Carried(q)
    BY <1>1 DEF AllCarried
  <2>2. q \in 1..sent'
    BY <2>1 DEF RequestsOK
  <2>3. requests[q] \in UnderWay => requests[q].phase # "answered"
    BY DEF UnderWay
  <2>4. QED
    BY <2>1, <2>2, <2>3 DEF Carried, RequestsOK
<1>2. QED
  BY <1>1 DEF RequestsOK, AllCarried

LEMMA StoreShrinks ==
    ASSUME TablesOK, NEW sid, store' = [s \in DOMAIN store \ {sid} |-> store[s]]
    PROVE  DOMAIN store' \subseteq Nat /\ store' \in [DOMAIN store' -> Sessions]
BY DEF TablesOK

LEMMA StoreWritten ==
    ASSUME TablesOK, NEW sid \in Nat, NEW session \in Sessions, Writes(sid, session)
    PROVE  DOMAIN store' \subseteq Nat /\ store' \in [DOMAIN store' -> Sessions]
BY DEF TablesOK, Writes

LEMMA PageTypes ==
    ASSUME PageInv, [PageNext]_pageVars
    PROVE  PageTypeOK'
<1> USE TypeParts, TypePartsNext DEF PageInv
<1>1. RequestsOK /\ TablesOK /\ BrowserOK
  OBVIOUS
<1>2. CASE BrowserSends
  <2>1. PICK kind \in AllKinds, user \in Names, candidate \in Candidates \cup {NULL} :
            /\ Send(kind, user, candidate)
            /\ cookie' = cookie /\ currentUser' = currentUser /\ dialog' \in {dialog, NULL}
            /\ ServerUnchanged
            /\ kind = "login" => user \in Users /\ currentUser = NULL /\ dialog = NULL
    BY <1>2 DEF BrowserSends
  <2>2. RequestsOK'
    <3> USE SendShape, <2>1
    <3>1. /\ sent' = sent + 1 /\ sent \in Nat
          /\ requests' = [q \in DOMAIN requests' |-> requests'[q]]
          /\ DOMAIN requests' = DOMAIN requests \cup {sent + 1}
          /\ \A q \in DOMAIN requests : requests'[q] = requests[q]
          /\ requests'[sent + 1] \in UnderWay
          /\ requests'[sent + 1].kind = kind /\ requests'[sent + 1].user = user
          /\ requests'[sent + 1].phase = "sent"
      BY DEF PageTypeOK
    <3>2. QED
      BY <1>1, <3>1 DEF RequestsOK
  <2>3. TablesOK'
    <3>1. overlapped' \in BOOLEAN
      BY <2>1 DEF Send
    <3>2. QED
      BY <1>1, <2>1, <3>1 DEF TablesOK, ServerUnchanged
  <2>4. BrowserOK'
    <3>1. sent' = sent + 1
      BY <2>1, SendShape
    <3>2. QED
      BY <1>1, <2>1, <3>1 DEF BrowserOK
  <2>5. QED
    BY <2>2, <2>3, <2>4
<1>3. CASE Opens \/ Quiet
  <2>1. RequestsOK' /\ TablesOK'
    BY <1>1, <1>3 DEF Opens, Quiet, RequestsOK, TablesOK, ServerUnchanged
  <2>2. BrowserOK'
    BY <1>1, <1>3 DEF Opens, Quiet, BrowserOK
  <2>3. QED
    BY <2>1, <2>2
<1>4. CASE Reload
  <2>1. RequestsOK'
    BY <1>1, <1>4, ReloadShape, RequestsCarried DEF Reload
  <2>2. TablesOK' /\ BrowserOK'
    BY <1>1, <1>4 DEF Reload, TablesOK, BrowserOK, ServerUnchanged
  <2>3. QED
    BY <2>1, <2>2
<1>5. ASSUME NEW r \in DOMAIN requests, Begin(r) PROVE PageTypeOK'
  <2>1. OthersKept(r) /\ requests'[r] \in UnderWay /\ requests'[r].phase = "begun"
        /\ requests'[r].kind = requests[r].kind /\ requests'[r].user = requests[r].user
    BY <1>5, BeginShape
  <2>2. RequestsOK'
    <3>1. sent' = sent
      BY <1>5 DEF Begin, BrowserUnchanged
    <3>2. QED
      BY <1>1, <2>1, <3>1, RequestsKept DEF RequestsOK
  <2>3. TablesOK' /\ BrowserOK'
    BY <1>1, <1>5 DEF Begin, TablesOK, BrowserOK, BrowserUnchanged, page, past
  <2>4. QED
    BY <2>2, <2>3
<1>6. ASSUME NEW r \in DOMAIN requests, CastVote(r) PROVE PageTypeOK'
  <2>1. OthersKept(r) /\ requests'[r] \in UnderWay /\ requests'[r].kind = "vote"
    BY <1>6, CastVoteShape
  <2>2. RequestsOK'
    <3>1. sent' = sent
      BY <1>6 DEF CastVote, BrowserUnchanged
    <3>2. QED
      BY <1>1, <2>1, <3>1, RequestsKept
  <2>3. TablesOK' /\ BrowserOK'
    BY <1>1, <1>6 DEF CastVote, TablesOK, BrowserOK, BrowserUnchanged, page, past
  <2>4. QED
    BY <2>2, <2>3
<1>7. ASSUME NEW r \in DOMAIN requests, Answered(r) PROVE PageTypeOK'
  <2>1. /\ OthersKept(r) /\ Works(r)
        /\ r \in DOMAIN requests' =>
              /\ requests'[r] \in AnswersSent
              /\ requests'[r].kind = requests[r].kind /\ requests'[r].user = requests[r].user
              /\ LoggingIn(r) => requests'[r].sudah_vote \in BOOLEAN
        /\ \E session \in Sessions : store' = store \/ Writes(requests[r].id, session)
        /\ timers' \subseteq timers \cup {requests[r].id}
    BY <1>7, AnsweredShape
  <2>2. requests[r].id \in Nat
    BY <2>1 DEF IdsOK, Private
  <2>3. RequestsOK'
    <3>1. sent' = sent
      BY <1>7 DEF Answered, BrowserUnchanged
    <3>2. QED
      BY <1>1, <2>1, <3>1, RequestsKept DEF RequestsOK, LoggingIn
  <2>4. DOMAIN store' \subseteq Nat /\ store' \in [DOMAIN store' -> Sessions]
    BY <1>1, <2>1, <2>2, StoreWritten DEF TablesOK
  <2>5. TablesOK' /\ BrowserOK'
    BY <1>1, <1>7, <2>1, <2>2, <2>4
       DEF Answered, TablesOK, BrowserOK, BrowserUnchanged, page
  <2>6. QED
    BY <2>3, <2>5
<1>8. ASSUME NEW r \in DOMAIN requests, LogoutAnswered(r) PROVE PageTypeOK'
  <2>1. /\ OthersKept(r) /\ Works(r)
        /\ r \in DOMAIN requests' =>
              requests'[r] \in AnswersSent /\ requests'[r].kind = "logout"
        /\ store' = [s \in DOMAIN store \ {requests[r].id} |-> store[s]]
        /\ Ends(requests[r].id, DOMAIN requests \ {r})
    BY <1>8, LogoutShape
  <2>2. requests[r].id \in Nat
    BY <2>1 DEF IdsOK, Private
  <2>3. RequestsOK'
    <3>1. sent' = sent
      BY <1>8 DEF LogoutAnswered, BrowserUnchanged
    <3>2. QED
      BY <1>1, <2>1, <3>1, RequestsKept
  <2>4. DOMAIN store' \subseteq Nat /\ store' \in [DOMAIN store' -> Sessions]
    BY <1>1, <2>1, StoreShrinks
  <2>5. ended' \subseteq Nat /\ undercut' \in BOOLEAN
    BY <1>1, <2>1, <2>2 DEF Ends, TablesOK
  <2>6. TablesOK' /\ BrowserOK'
    BY <1>1, <1>8, <2>4, <2>5 DEF LogoutAnswered, TablesOK, BrowserOK, BrowserUnchanged, page
  <2>7. QED
    BY <2>3, <2>6
<1>9. ASSUME NEW r \in DOMAIN requests, Deliver(r) PROVE PageTypeOK'
  <2>1. /\ OthersKept(r) /\ r \notin DOMAIN requests' /\ IsAnswer(r)
        /\ cookie' = IF requests[r].id = r THEN r ELSE cookie
        /\ UNCHANGED <<dialog, sent, overlapped, store, timers, voted, votes, ended, undercut>>
    BY <1>9, DeliverShape
  <2>2. RequestsOK'
    BY <1>1, <2>1, RequestsKept
  <2>3. TablesOK'
    BY <1>1, <2>1 DEF TablesOK
  <2>4. currentUser' \in [id : Users, sudah_vote : BOOLEAN] \cup {NULL}
    <3>1. Display(r)
      BY <1>9 DEF Deliver
    <3>2. CASE Shows("login", r) /\ currentUser' = [id |-> requests[r].user,
                                                    sudah_vote |-> requests[r].sudah_vote]
      BY <1>1, <2>1, <3>2 DEF Shows, RequestsOK, IsAnswer
    <3>3. CASE currentUser # NULL /\ currentUser' = [currentUser EXCEPT !.sudah_vote = TRUE]
      BY <1>1, <3>3 DEF BrowserOK
    <3>4. CASE currentUser' \in {currentUser, NULL}
      BY <1>1, <3>4 DEF BrowserOK
    <3>5. QED
      BY <3>1, <3>2, <3>3, <3>4 DEF Display
  <2>5. BrowserOK'
    <3>1. r \in Nat
      BY <1>1 DEF RequestsOK
    <3>2. QED
      BY <1>1, <2>1, <2>4, <3>1 DEF BrowserOK
  <2>6. QED
    BY <2>2, <2>3, <2>5
<1>10. ASSUME NEW sid \in timers, TimerFires(sid) PROVE PageTypeOK'
  <2>1. /\ store' = [s \in DOMAIN store \ {sid} |-> store[s]]
        /\ timers' = timers \ {sid} /\ Ends(sid, DOMAIN requests)
        /\ UNCHANGED <<requests, overlapped>> /\ BrowserUnchanged
    BY <1>10 DEF TimerFires, Without, Restrict
  <2>2. DOMAIN store' \subseteq Nat /\ store' \in [DOMAIN store' -> Sessions]
    BY <1>1, <2>1, StoreShrinks
  <2>3. ended' \subseteq Nat /\ undercut' \in BOOLEAN
    BY <1>1, <2>1 DEF Ends, TablesOK
  <2>4. TablesOK' /\ BrowserOK' /\ RequestsOK'
    BY <1>1, <2>1, <2>2, <2>3 DEF TablesOK, BrowserOK, RequestsOK, BrowserUnchanged, page
  <2>5. QED
    BY <2>4
<1>11. CASE Crash
  <2>1. RequestsOK'
    BY <1>1, <1>11, CrashShape, RequestsCarried DEF Crash, BrowserUnchanged
  <2>2. TablesOK' /\ BrowserOK'
    BY <1>1, <1>11 DEF Crash, TablesOK, BrowserOK, BrowserUnchanged, page, past
  <2>3. QED
    BY <2>1, <2>2
<1>12. CASE UNCHANGED pageVars
  BY <1>12 DEF pageVars, page, past, PageTypeOK
<1>13. QED
  BY <1>2, <1>3, <1>4, <1>5, <1>6, <1>7, <1>8, <1>9, <1>10, <1>11, <1>12, BrowserShape
     DEF PageNext, Handle

(***************************************************************************)
(* Session ids.                                                            *)
(***************************************************************************)
UsedIds == DOMAIN store \cup timers \cup ended

\* The ids after a step that changes or removes request r, which is past its
\* Begin then, and uses no new ids but, possibly, r.
LEMMA IdsKept ==
    ASSUME PageTypeOK, IdsOK, NEW r \in DOMAIN requests, OthersKept(r), sent' = sent,
           cookie' = cookie \/ (cookie' = r /\ r \notin DOMAIN requests'),
           r \in DOMAIN requests' => requests'[r].phase # "sent",
           r \in DOMAIN requests' /\ Works(r)' =>
              /\ requests'[r].id \in Nat /\ requests'[r].id <= sent
              /\ \A p \in DOMAIN requests : requests'[r].id = p => p = r,
           r \in DOMAIN requests' /\ IsAnswer(r)' => requests'[r].id \in {r, NULL},
           \A s \in UsedIds' \ UsedIds :
              s <= sent /\ \A p \in DOMAIN requests : p = s => p = r
    PROVE  IdsOK'
<1>1. r \in Nat /\ r <= sent
  BY DEF PageTypeOK
<1>2. \A s \in UsedIds' \cup {cookie'} : s <= sent
  BY <1>1 DEF IdsOK, Known, UsedIds
<1>3. ASSUME NEW q \in DOMAIN requests'
      PROVE  /\ Waits(q)' => requests'[q].cookie <= sent
             /\ Works(q)' => requests'[q].id <= sent
  <2>1. CASE q = r
    BY <1>3, <2>1 DEF Waits
  <2>2. CASE q # r
    <3>1. q \in DOMAIN requests /\ requests'[q] = requests[q]
      BY <1>3, <2>2 DEF OthersKept
    <3>2. QED
      BY <3>1 DEF IdsOK, Known, Waits, Works
  <2>3. QED
    BY <2>1, <2>2
<1>4. ASSUME NEW p \in DOMAIN requests'
      PROVE  Private(p)'
  <2>1. p \in DOMAIN requests /\ Private(p)
    BY <1>4 DEF OthersKept, IdsOK
  <2>2. p # cookie'
    BY <1>4, <2>1 DEF Private
  <2>3. ASSUME NEW q \in DOMAIN requests'
        PROVE  /\ Waits(q)' => requests'[q].cookie \in Nat /\ requests'[q].cookie # p
               /\ Works(q)' => requests'[q].id \in Nat /\ (requests'[q].id = p => q = p)
               /\ IsAnswer(q)' => requests'[q].id \in {q, NULL}
    <3>1. CASE q = r
      BY <2>1, <2>3, <3>1 DEF Waits
    <3>2. CASE q # r
      <4>1. q \in DOMAIN requests /\ requests'[q] = requests[q]
        BY <2>3, <3>2 DEF OthersKept
      <4>2. QED
        BY <2>1, <4>1 DEF Private, Waits, Works, IsAnswer
    <3>3. QED
      BY <3>1, <3>2
  <2>4. p \in UsedIds' => ~Waits(p)'
    <3>1. CASE p = r
      BY <1>4, <3>1 DEF Waits
    <3>2. CASE p # r
      <4>1. requests'[p] = requests[p]
        BY <1>4, <3>2 DEF OthersKept
      <4>2. p \in UsedIds' => p \in UsedIds
        BY <2>1, <3>2
      <4>3. QED
        BY <2>1, <4>1, <4>2 DEF Private, Waits, UsedIds
    <3>3. QED
      BY <3>1, <3>2
  <2>5. QED
    BY <2>2, <2>3, <2>4 DEF Private, UsedIds
<1>5. QED
  BY <1>2, <1>3, <1>4 DEF IdsOK, Known, UsedIds

LEMMA IdsCarried ==
    ASSUME PageTypeOK, IdsOK, AllCarried, sent' = sent, cookie' = cookie,
           UsedIds' \subseteq UsedIds
    PROVE  IdsOK'
<1>1. \A s \in UsedIds' \cup {cookie'} : s <= sent
  BY DEF IdsOK, Known, UsedIds
<1>2. ASSUME NEW q \in DOMAIN requests'
      PROVE  /\ q \in DOMAIN requests
             /\ Waits(q)' => Waits(q) /\ requests'[q].cookie = requests[q].cookie
             /\ Works(q)' => Works(q) /\ requests'[q].id = requests[q].id
             /\ IsAnswer(q)' =>
                   \/ requests'[q].id = NULL
                   \/ IsAnswer(q) /\ requests'[q].id = requests[q].id
             /\ ~Waits(q) => ~Waits(q)'
  <2>1. q \in DOMAIN requests /\ Carried(q)
    BY <1>2 DEF AllCarried
  <2>2. requests[q] \in UnderWay => requests[q].phase # "answered"
    BY DEF UnderWay
  <2>3. QED
    BY <2>1, <2>2 DEF Carried, Waits, Works, IsAnswer
<1>3. ASSUME NEW q \in DOMAIN requests'
      PROVE  /\ Waits(q)' => requests'[q].cookie <= sent
             /\ Works(q)' => requests'[q].id <= sent
  BY <1>2, <1>3 DEF IdsOK, Known
<1>4. ASSUME NEW p \in DOMAIN requests'
      PROVE  Private(p)'
  <2>1. p \in DOMAIN requests /\ Private(p)
    BY <1>2, <1>4 DEF IdsOK
  <2>2. ASSUME NEW q \in DOMAIN requests'
        PROVE  /\ Waits(q)' => requests'[q].cookie \in Nat /\ requests'[q].cookie # p
               /\ Works(q)' => requests'[q].id \in Nat /\ (requests'[q].id = p => q = p)
               /\ IsAnswer(q)' => requests'[q].id \in {q, NULL}
    BY <1>2, <2>1, <2>2 DEF Private
  <2>3. p \in UsedIds' => ~Waits(p)'
    BY <1>2, <1>4, <2>1 DEF Private, UsedIds
  <2>4. QED
    BY <2>1, <2>2, <2>3 DEF Private, UsedIds
<1>5. QED
  BY <1>1, <1>3, <1>4 DEF IdsOK, Known, UsedIds

LEMMA IdsSent ==
    ASSUME PageTypeOK, IdsOK, BrowserSends
    PROVE  IdsOK'
<1>1. PICK new : new = sent + 1
  OBVIOUS
<1>2. /\ sent' = new /\ cookie' = cookie /\ UsedIds' = UsedIds
      /\ new \notin DOMAIN requests
      /\ DOMAIN requests' = DOMAIN requests \cup {new}
      /\ \A q \in DOMAIN requests : requests'[q] = requests[q]
      /\ requests'[new].cookie = cookie /\ requests'[new].phase = "sent"
  BY <1>1, SendShape DEF BrowserSends, UsedIds, ServerUnchanged
<1>3. sent \in Nat /\ cookie \in Nat /\ cookie <= sent
  BY DEF PageTypeOK, IdsOK, Known
<1>4. /\ \A s \in UsedIds : s \in Nat /\ s <= sent
      /\ \A q \in DOMAIN requests :
            /\ Waits(q) => requests[q].cookie \in Nat /\ requests[q].cookie <= sent
            /\ Works(q) => requests[q].id \in Nat /\ requests[q].id <= sent
  BY DEF PageTypeOK, IdsOK, Known, UsedIds, Private
<1>5. \A n \in Nat : n <= sent => n <= sent' /\ n # new
  BY <1>1, <1>2, <1>3
<1>6. ASSUME NEW q \in DOMAIN requests', q # new
      PROVE  q \in DOMAIN requests /\ requests'[q] = requests[q]
  BY <1>2, <1>6
<1>7. ASSUME NEW p \in DOMAIN requests', p # new
      PROVE  Private(p)'
  <2>1. p \in DOMAIN requests /\ Private(p) /\ requests'[p] = requests[p]
    BY <1>6, <1>7 DEF IdsOK
  <2>2. ASSUME NEW q \in DOMAIN requests'
        PROVE  /\ Waits(q)' => requests'[q].cookie \in Nat /\ requests'[q].cookie # p
               /\ Works(q)' => requests'[q].id \in Nat /\ (requests'[q].id = p => q = p)
               /\ IsAnswer(q)' => requests'[q].id \in {q, NULL}
    <3>1. CASE q = new
      BY <1>2, <1>3, <2>1, <3>1 DEF Private, Works, IsAnswer
    <3>2. CASE q # new
      BY <1>6, <2>1, <2>2, <3>2 DEF Private, Waits, Works, IsAnswer
    <3>3. QED
      BY <3>1, <3>2
  <2>3. QED
    BY <1>2, <2>1, <2>2 DEF Private, Waits, UsedIds
<1>8. Private(new)'
  <2>1. new # cookie /\ new \notin UsedIds
    BY <1>3, <1>4, <1>5
  <2>2. ASSUME NEW q \in DOMAIN requests'
        PROVE  /\ Waits(q)' => requests'[q].cookie \in Nat /\ requests'[q].cookie # new
               /\ Works(q)' => requests'[q].id \in Nat /\ (requests'[q].id = new => q = new)
               /\ IsAnswer(q)' => requests'[q].id \in {q, NULL}
    <3>1. CASE q = new
      BY <1>2, <1>3, <2>1, <3>1 DEF Works, IsAnswer
    <3>2. CASE q # new
      <4>1. q \in DOMAIN requests /\ requests'[q] = requests[q]
        BY <1>6, <2>2, <3>2
      <4>2. Private(q)
        BY <4>1 DEF IdsOK
      <4>3. IsAnswer(q) => requests[q].id \in {q, NULL}
        BY <4>1, <4>2 DEF Private
      <4>4. QED
        BY <1>4, <1>5, <4>1, <4>3 DEF Waits, Works, IsAnswer
    <3>3. QED
      BY <3>1, <3>2
  <2>3. new \in UsedIds' => ~Waits(new)'
    BY <1>2, <2>1
  <2>4. QED
    BY <1>2, <2>1, <2>2 DEF Private, UsedIds
<1>9. \A s \in UsedIds' \cup {cookie'} : s <= sent'
  BY <1>2, <1>3, <1>4, <1>5
<1>10. ASSUME NEW q \in DOMAIN requests'
      PROVE  /\ Waits(q)' => requests'[q].cookie <= sent'
             /\ Works(q)' => requests'[q].id <= sent'
  <2>1. CASE q = new
    BY <1>2, <1>3, <1>5, <2>1 DEF Works
  <2>2. CASE q # new
    BY <1>4, <1>5, <1>6, <1>10, <2>2 DEF Waits, Works
  <2>3. QED
    BY <2>1, <2>2
<1>11. QED
  BY <1>7, <1>8, <1>9, <1>10 DEF IdsOK, Known, UsedIds

LEMMA PageIds ==
    ASSUME PageInv, [PageNext]_pageVars
    PROVE  IdsOK'
<1> USE DEF PageInv
<1>1. ASSUME NEW r \in DOMAIN requests
      PROVE  /\ Private(r)
             /\ Works(r) => /\ requests[r].id \in Nat /\ requests[r].id <= sent
                            /\ \A p \in DOMAIN requests : requests[r].id = p => p = r
             /\ Waits(r) => /\ requests[r].cookie \in Nat /\ requests[r].cookie <= sent
                            /\ \A p \in DOMAIN requests : requests[r].cookie # p
  BY <1>1 DEF IdsOK, Known, Private
<1>2. CASE BrowserSends
  BY <1>2, IdsSent
<1>3. CASE Opens \/ Quiet
  <2>1. /\ requests' = requests /\ sent' = sent /\ cookie' = cookie
        /\ store' = store /\ timers' = timers /\ ended' = ended
    BY <1>3 DEF Opens, Quiet, ServerUnchanged
  <2>2. QED
    BY <2>1 DEF IdsOK, Known, Private, Waits, Works, IsAnswer
<1>4. CASE Reload
  BY <1>4, ReloadShape, IdsCarried DEF Reload, UsedIds, ServerUnchanged
<1>5. ASSUME NEW r \in DOMAIN requests, Begin(r) PROVE IdsOK'
  <2>1. /\ sent' = sent /\ cookie' = cookie
        /\ store' = store /\ timers' = timers /\ ended' = ended
    BY <1>5 DEF Begin, BrowserUnchanged, past
  <2>2. /\ OthersKept(r) /\ requests'[r].phase = "begun" /\ Waits(r)
        /\ requests'[r].id \in {r, requests[r].cookie}
    BY <1>5, BeginShape
  <2>3. requests'[r].id \in Nat /\ requests'[r].id <= sent
    BY <1>1, <2>2 DEF PageTypeOK
  <2>4. \A p \in DOMAIN requests : requests'[r].id = p => p = r
    BY <1>1, <2>2
  <2>5. UsedIds' \subseteq UsedIds
    BY <2>1 DEF UsedIds
  <2>6. QED
    BY <2>1, <2>2, <2>3, <2>4, <2>5, IdsKept DEF IsAnswer
<1>6. ASSUME NEW r \in DOMAIN requests, CastVote(r) PROVE IdsOK'
  <2>1. /\ sent' = sent /\ cookie' = cookie
        /\ store' = store /\ timers' = timers /\ ended' = ended
    BY <1>6 DEF CastVote, BrowserUnchanged, past
  <2>2. /\ OthersKept(r) /\ requests'[r].phase = "voted" /\ Works(r)
        /\ requests'[r].id = requests[r].id
    BY <1>6, CastVoteShape DEF Works
  <2>3. UsedIds' \subseteq UsedIds
    BY <2>1 DEF UsedIds
  <2>4. QED
    BY <1>1, <2>1, <2>2, <2>3, IdsKept DEF IsAnswer
<1>7. ASSUME NEW r \in DOMAIN requests, Answered(r) PROVE IdsOK'
  <2>1. sent' = sent /\ cookie' = cookie /\ ended' = ended
    BY <1>7 DEF Answered, BrowserUnchanged
  <2>2. /\ OthersKept(r) /\ Works(r)
        /\ r \in DOMAIN requests' =>
              /\ requests'[r].phase = "answered"
              /\ requests'[r].id = IF requests[r].id = r THEN r ELSE NULL
        /\ \E session \in Sessions : store' = store \/ Writes(requests[r].id, session)
        /\ timers' \subseteq timers \cup {requests[r].id}
    BY <1>7, AnsweredShape
  <2>3. UsedIds' \subseteq UsedIds \cup {requests[r].id}
    BY <2>1, <2>2 DEF UsedIds, Writes
  <2>4. QED
    BY <1>1, <2>1, <2>2, <2>3, IdsKept DEF Works, IsAnswer
<1>8. ASSUME NEW r \in DOMAIN requests, LogoutAnswered(r) PROVE IdsOK'
  <2>1. sent' = sent /\ cookie' = cookie /\ timers' = timers
    BY <1>8 DEF LogoutAnswered, BrowserUnchanged
  <2>2. /\ OthersKept(r) /\ Works(r)
        /\ r \in DOMAIN requests' =>
              requests'[r].phase = "answered" /\ requests'[r].id = NULL
        /\ store' = [s \in DOMAIN store \ {requests[r].id} |-> store[s]]
        /\ Ends(requests[r].id, DOMAIN requests \ {r})
    BY <1>8, LogoutShape
  <2>3. UsedIds' \subseteq UsedIds \cup {requests[r].id}
    BY <2>1, <2>2 DEF UsedIds, Ends
  <2>4. QED
    BY <1>1, <2>1, <2>2, <2>3, IdsKept DEF Works, IsAnswer
<1>9. ASSUME NEW r \in DOMAIN requests, Deliver(r) PROVE IdsOK'
  <2>1. /\ OthersKept(r) /\ r \notin DOMAIN requests'
        /\ cookie' = IF requests[r].id = r THEN r ELSE cookie
        /\ sent' = sent /\ UsedIds' = UsedIds
    BY <1>9, DeliverShape DEF UsedIds
  <2>2. UsedIds' \subseteq UsedIds
    BY <2>1
  <2>3. QED
    BY <2>1, <2>2, IdsKept
<1>10. ASSUME NEW sid \in timers, TimerFires(sid) PROVE IdsOK'
  <2>1. /\ requests' = requests /\ sent' = sent /\ cookie' = cookie
        /\ DOMAIN store' \subseteq DOMAIN store
        /\ timers' \subseteq timers /\ ended' = ended \cup {sid}
    BY <1>10 DEF TimerFires, Without, Restrict, Ends, BrowserUnchanged
  <2>2. DOMAIN store' \cup timers' \cup ended' \subseteq DOMAIN store \cup timers \cup ended
    BY <2>1
  <2>3. QED
    BY <2>1, <2>2 DEF IdsOK, Known, Private, Waits, Works, IsAnswer
<1>11. CASE Crash
  <2>1. UsedIds' \subseteq UsedIds
    BY <1>11 DEF Crash, UsedIds, past
  <2>2. QED
    BY <1>11, <2>1, CrashShape, IdsCarried DEF Crash, BrowserUnchanged
<1>12. CASE UNCHANGED pageVars
  BY <1>12 DEF pageVars, page, past, IdsOK, Known, Private, Waits, Works, IsAnswer
<1>13. QED
  BY <1>2, <1>3, <1>4, <1>5, <1>6, <1>7, <1>8, <1>9, <1>10, <1>11, <1>12, BrowserShape
     DEF PageNext, Handle

(***************************************************************************)
(* Sessions under way.                                                     *)
(***************************************************************************)
\* What is required of a request that a step does not touch, if no session at
\* its own id is written.
LEMMA SessionKept ==
    ASSUME SessionsOK, NEW q \in DOMAIN requests, requests'[q] = requests[q],
           voted \subseteq voted',
           q \in DOMAIN store' => q \in DOMAIN store /\ store'[q] = store[q]
    PROVE  CopyOK(q)' /\ NewIsNobodys(q)'
<1>1. CopyOK(q) /\ NewIsNobodys(q)
  BY DEF SessionsOK
<1>2. CopyOK(q)'
  BY <1>1 DEF CopyOK, Works
<1>3. NewIsNobodys(q)'
  BY <1>1 DEF NewIsNobodys, Works
<1>4. QED
  BY <1>2, <1>3

LEMMA SessionsCarried ==
    ASSUME SessionsOK, AllCarried, voted' = voted, store' = store
    PROVE  SessionsOK'
<1>1. ASSUME NEW q \in DOMAIN requests'
      PROVE  CopyOK(q)' /\ NewIsNobodys(q)'
  <2>1. q \in DOMAIN requests /\ Carried(q) /\ CopyOK(q) /\ NewIsNobodys(q)
    BY <1>1 DEF AllCarried, SessionsOK
  <2>2. CopyOK(q)'
    BY <2>1 DEF Carried, CopyOK, Works
  <2>3. NewIsNobodys(q)'
    BY <2>1 DEF Carried, NewIsNobodys, Works
  <2>4. QED
    BY <2>2, <2>3
<1>2. QED
  BY <1>1 DEF SessionsOK

LEMMA PageSessions ==
    ASSUME PageInv, [PageNext]_pageVars
    PROVE  SessionsOK'
<1> USE DEF PageInv
<1>1. \A r \in DOMAIN requests : Private(r) /\ CopyOK(r) /\ NewIsNobodys(r)
  BY DEF IdsOK, SessionsOK
<1>2. CASE BrowserSends
  <2>1. /\ store' = store /\ voted' = voted
        /\ DOMAIN requests' = DOMAIN requests \cup {sent + 1}
        /\ \A q \in DOMAIN requests : requests'[q] = requests[q]
        /\ requests'[sent + 1].phase = "sent"
    BY <1>2, SendShape DEF BrowserSends, ServerUnchanged, tables
  <2>2. PICK new : new = sent + 1
    OBVIOUS
  <2>3. new \notin DOMAIN store'
    BY <2>1, <2>2 DEF IdsOK, Known, PageTypeOK
  <2>4. CopyOK(new)' /\ NewIsNobodys(new)'
    BY <2>1, <2>2, <2>3 DEF CopyOK, NewIsNobodys, Works
  <2>5. ASSUME NEW q \in DOMAIN requests', q # new
        PROVE  CopyOK(q)' /\ NewIsNobodys(q)'
    BY <2>1, <2>2, <2>5, SessionKept
  <2>6. QED
    BY <2>4, <2>5 DEF SessionsOK
<1>3. CASE Opens \/ Quiet
  <2>1. requests' = requests /\ store' = store /\ voted' = voted
    BY <1>3 DEF Opens, Quiet, ServerUnchanged, tables
  <2>2. QED
    BY <2>1 DEF SessionsOK, CopyOK, NewIsNobodys, Works
<1>4. CASE Reload
  BY <1>4, ReloadShape, SessionsCarried DEF Reload, ServerUnchanged, tables
<1>5. ASSUME NEW r \in DOMAIN requests, Begin(r) PROVE SessionsOK'
  <2>1. store' = store /\ voted' = voted
    BY <1>5 DEF Begin, tables
  <2>2. /\ OthersKept(r) /\ Waits(r)
        /\ requests'[r].phase = "begun" /\ requests'[r].session \in Sessions
        /\ \/ /\ requests'[r].id = requests[r].cookie
              /\ requests'[r].loaded = requests'[r].session
           \/ requests'[r].id = r /\ requests'[r].session.user = NULL
    BY <1>5, BeginShape
  <2>3. CopyOK(r)'
    BY <2>2 DEF CopyOK, Works
  <2>4. NewIsNobodys(r)'
    BY <1>1, <2>1, <2>2 DEF NewIsNobodys, Private
  <2>5. ASSUME NEW q \in DOMAIN requests', q # r
        PROVE  CopyOK(q)' /\ NewIsNobodys(q)'
    BY <2>1, <2>2, <2>5, SessionKept DEF OthersKept
  <2>6. QED
    BY <2>3, <2>4, <2>5 DEF SessionsOK
<1>6. ASSUME NEW r \in DOMAIN requests, CastVote(r) PROVE SessionsOK'
  <2>1. store' = store
    BY <1>6 DEF CastVote
  <2>2. /\ OthersKept(r) /\ requests[r].kind = "vote" /\ Works(r)
        /\ requests[r].session.user # NULL
        /\ requests'[r].kind = "vote" /\ requests'[r].phase = "voted"
        /\ requests'[r].id = requests[r].id
        /\ requests'[r].session \in Sessions
        /\ \/ requests'[r].session = requests'[r].loaded
           \/ requests'[r].session.user \in voted'
        /\ voted \subseteq voted'
    BY <1>6, CastVoteShape DEF Works
  <2>3. CopyOK(r)'
    BY <2>2 DEF CopyOK, Works
  <2>4. NewIsNobodys(r)'
    BY <1>1, <2>1, <2>2 DEF NewIsNobodys
  <2>5. ASSUME NEW q \in DOMAIN requests', q # r
        PROVE  CopyOK(q)' /\ NewIsNobodys(q)'
    BY <2>1, <2>2, <2>5, SessionKept DEF OthersKept
  <2>6. QED
    BY <2>3, <2>4, <2>5 DEF SessionsOK
<1>7. ASSUME NEW r \in DOMAIN requests, Answered(r) PROVE SessionsOK'
  <2>1. voted' = voted
    BY <1>7 DEF Answered, tables
  <2>2. /\ OthersKept(r) /\ Works(r)
        /\ r \in DOMAIN requests' =>
              requests'[r].kind = requests[r].kind /\ requests'[r].phase = "answered"
    BY <1>7, AnsweredShape
  <2>3. PICK session \in Sessions :
            /\ store' = store \/ Writes(requests[r].id, session)
            /\ ~Changes(r) => session = requests[r].session
            /\ Admin(r) => session.user = requests[r].session.user
    BY <1>7, AnsweredShape
  <2>4. requests[r].kind # "login" => session.user = requests[r].session.user
    <3>1. requests[r].kind # "login" => ~Changes(r) \/ Admin(r)
      BY DEF Changes, Admin, SessionChanging
    <3>2. QED
      BY <2>3, <3>1
  <2>5. ASSUME r \in DOMAIN requests' PROVE CopyOK(r)' /\ NewIsNobodys(r)'
    <3>1. ~Works(r)'
      BY <2>2, <2>5 DEF Works
    <3>2. requests[r].kind # "login" /\ r \in DOMAIN store' => store'[r].user = NULL
      BY <1>1, <2>2, <2>3, <2>4 DEF NewIsNobodys, Writes
    <3>3. QED
      BY <2>2, <2>5, <3>1, <3>2 DEF CopyOK, NewIsNobodys
  <2>6. ASSUME NEW q \in DOMAIN requests', q # r
        PROVE  CopyOK(q)' /\ NewIsNobodys(q)'
    <3>1. q \in DOMAIN requests /\ requests'[q] = requests[q]
      BY <2>2, <2>6 DEF OthersKept
    <3>2. q # requests[r].id
      BY <1>1, <2>2, <2>6, <3>1 DEF Private
    <3>3. q \in DOMAIN store' => q \in DOMAIN store /\ store'[q] = store[q]
      BY <2>3, <3>2 DEF Writes
    <3>4. QED
      BY <2>1, <3>1, <3>3, SessionKept
  <2>7. QED
    BY <2>5, <2>6 DEF SessionsOK
<1>8. ASSUME NEW r \in DOMAIN requests, LogoutAnswered(r) PROVE SessionsOK'
  <2>1. voted' = voted
    BY <1>8 DEF LogoutAnswered, tables
  <2>2. /\ OthersKept(r)
        /\ r \in DOMAIN requests' =>
              requests'[r].kind = requests[r].kind /\ requests'[r].phase = "answered"
        /\ store' = [s \in DOMAIN store \ {requests[r].id} |-> store[s]]
    BY <1>8, LogoutShape
  <2>3. \A s \in DOMAIN store' : s \in DOMAIN store /\ store'[s] = store[s]
    BY <2>2
  <2>4. ASSUME r \in DOMAIN requests' PROVE CopyOK(r)' /\ NewIsNobodys(r)'
    BY <1>1, <2>2, <2>3, <2>4 DEF CopyOK, NewIsNobodys, Works
  <2>5. ASSUME NEW q \in DOMAIN requests', q # r
        PROVE  CopyOK(q)' /\ NewIsNobodys(q)'
    BY <2>1, <2>2, <2>3, <2>5, SessionKept DEF OthersKept
  <2>6. QED
    BY <2>4, <2>5 DEF SessionsOK
<1>9. ASSUME NEW r \in DOMAIN requests, Deliver(r) PROVE SessionsOK'
  <2>1. /\ OthersKept(r) /\ r \notin DOMAIN requests'
        /\ store' = store /\ voted' = voted
    BY <1>9, DeliverShape
  <2>2. ASSUME NEW q \in DOMAIN requests'
        PROVE  CopyOK(q)' /\ NewIsNobodys(q)'
    BY <2>1, <2>2, SessionKept DEF OthersKept
  <2>3. QED
    BY <2>2 DEF SessionsOK
<1>10. ASSUME NEW sid \in timers, TimerFires(sid) PROVE SessionsOK'
  <2>1. /\ requests' = requests /\ voted' = voted
        /\ \A s \in DOMAIN store' : s \in DOMAIN store /\ store'[s] = store[s]
    BY <1>10 DEF TimerFires, Without, Restrict, tables
  <2>2. ASSUME NEW q \in DOMAIN requests'
        PROVE  CopyOK(q)' /\ NewIsNobodys(q)'
    BY <2>1, <2>2, SessionKept
  <2>3. QED
    BY <2>2 DEF SessionsOK
<1>11. CASE Crash
  BY <1>11, CrashShape, SessionsCarried DEF Crash, tables
<1>12. CASE UNCHANGED pageVars
  <2>1. requests' = requests /\ store' = store /\ voted' = voted
    BY <1>12 DEF pageVars, tables
  <2>2. QED
    BY <2>1 DEF SessionsOK, CopyOK, NewIsNobodys, Works
<1>13. QED
  BY <1>2, <1>3, <1>4, <1>5, <1>6, <1>7, <1>8, <1>9, <1>10, <1>11, <1>12, BrowserShape
     DEF PageNext, Handle

(***************************************************************************)
(* Destroyed sessions.                                                     *)
(***************************************************************************)
\* A step that undercuts nobody, changes no set of ids and gives no request a
\* destroyed session.
LEMMA EndedKept ==
    ASSUME EndedInv, undercut' = undercut, ended' = ended,
           ended \cap DOMAIN store' \subseteq ended \cap DOMAIN store,
           \A q \in DOMAIN requests' :
              Works(q)' => \/ requests'[q].id \notin ended
                           \/ q \in DOMAIN requests /\ Works(q) /\ requests'[q].id = requests[q].id
    PROVE  EndedInv'
BY DEF EndedInv

LEMMA EndedMore ==
    ASSUME EndedInv, NEW sid, NEW users, Ends(sid, users), TablesOK,
           store' = [s \in DOMAIN store \ {sid} |-> store[s]],
           \A q \in DOMAIN requests' :
              Works(q)' => q \in users /\ q \in DOMAIN requests /\ requests'[q] = requests[q]
    PROVE  EndedInv'
<1>1. ended' = ended \cup {sid} /\ DOMAIN store' = DOMAIN store \ {sid}
  BY DEF Ends
<1>2. ASSUME ~undercut'
      PROVE  /\ ~undercut
             /\ \A o \in users : Works(o) => requests[o].id # sid
  BY <1>2 DEF Ends, Works, TablesOK
<1>3. ASSUME ~undercut' PROVE ended' \cap DOMAIN store' = {}
  BY <1>1, <1>2, <1>3 DEF EndedInv
<1>4. ASSUME ~undercut', NEW q \in DOMAIN requests', Works(q)'
      PROVE  requests'[q].id \notin ended'
  <2>1. Works(q)
    BY <1>4 DEF Works
  <2>2. QED
    BY <1>1, <1>2, <1>4, <2>1 DEF EndedInv
<1>5. QED
  BY <1>3, <1>4 DEF EndedInv

LEMMA PageEnded ==
    ASSUME PageInv, EndedInv, [PageNext]_pageVars
    PROVE  EndedInv'
<1> USE DEF PageInv
<1>1. TablesOK /\ \A r \in DOMAIN requests : Private(r)
  BY TypeParts DEF IdsOK
<1>2. CASE BrowserSends
  <2>1. /\ store' = store /\ undercut' = undercut /\ ended' = ended
        /\ DOMAIN requests' = DOMAIN requests \cup {sent + 1}
        /\ \A q \in DOMAIN requests : requests'[q] = requests[q]
        /\ requests'[sent + 1].phase = "sent"
    BY <1>2, SendShape DEF BrowserSends, ServerUnchanged
  <2>2. ASSUME NEW q \in DOMAIN requests', Works(q)'
        PROVE  q \in DOMAIN requests /\ Works(q) /\ requests'[q].id = requests[q].id
    BY <2>1, <2>2 DEF Works
  <2>3. QED
    BY <2>1, <2>2, EndedKept
<1>3. CASE Opens \/ Quiet
  <2>1. requests' = requests /\ store' = store /\ ended' = ended /\ undercut' = undercut
    BY <1>3 DEF Opens, Quiet, ServerUnchanged
  <2>2. QED
    BY <2>1 DEF EndedInv, Works
<1>4. CASE Reload \/ Crash
  <2>1. AllCarried /\ store' = store /\ ended' = ended /\ undercut' = undercut
    BY <1>4, ReloadShape, CrashShape DEF Reload, Crash, ServerUnchanged, past
  <2>2. ASSUME NEW q \in DOMAIN requests', Works(q)'
        PROVE  q \in DOMAIN requests /\ Works(q) /\ requests'[q].id = requests[q].id
    BY <2>1, <2>2 DEF AllCarried, Carried, Works
  <2>3. QED
    BY <2>1, <2>2, EndedKept
<1>5. ASSUME NEW r \in DOMAIN requests, Begin(r) PROVE EndedInv'
  <2>1. store' = store /\ ended' = ended /\ undercut' = undercut
    BY <1>5 DEF Begin, past
  <2>2. /\ OthersKept(r) /\ Waits(r)
        /\ \/ requests[r].cookie \in DOMAIN store /\ requests'[r].id = requests[r].cookie
           \/ requests'[r].id = r
    BY <1>5, BeginShape
  <2>3. ~undercut => requests'[r].id \notin ended
    BY <1>1, <2>2 DEF Private, EndedInv
  <2>4. \A q \in DOMAIN requests' : q # r => q \in DOMAIN requests /\ requests'[q] = requests[q]
    BY <2>2 DEF OthersKept
  <2>5. QED
    BY <2>1, <2>3, <2>4 DEF EndedInv, Works
<1>6. ASSUME NEW r \in DOMAIN requests, CastVote(r) PROVE EndedInv'
  <2>1. store' = store /\ ended' = ended /\ undercut' = undercut
    BY <1>6 DEF CastVote, past
  <2>2. OthersKept(r) /\ Works(r) /\ requests'[r].id = requests[r].id
    BY <1>6, CastVoteShape DEF Works
  <2>3. QED
    BY <2>1, <2>2, EndedKept DEF OthersKept, Works
<1>7. ASSUME NEW r \in DOMAIN requests, Answered(r) PROVE EndedInv'
  <2>1. ended' = ended /\ undercut' = undercut
    BY <1>7 DEF Answered
  <2>2. /\ OthersKept(r) /\ Works(r)
        /\ r \in DOMAIN requests' => requests'[r].phase = "answered"
        /\ \E session \in Sessions : store' = store \/ Writes(requests[r].id, session)
    BY <1>7, AnsweredShape
  <2>3. ~undercut => ended \cap DOMAIN store' \subseteq ended \cap DOMAIN store
    BY <2>2 DEF EndedInv, Writes
  <2>4. ASSUME NEW q \in DOMAIN requests', Works(q)'
        PROVE  q \in DOMAIN requests /\ Works(q) /\ requests'[q].id = requests[q].id
    BY <2>2, <2>4 DEF OthersKept, Works
  <2>5. QED
    BY <2>1, <2>3, <2>4 DEF EndedInv
<1>8. ASSUME NEW r \in DOMAIN requests, LogoutAnswered(r) PROVE EndedInv'
  <2>1. /\ OthersKept(r)
        /\ r \in DOMAIN requests' => requests'[r].phase = "answered"
        /\ store' = [s \in DOMAIN store \ {requests[r].id} |-> store[s]]
        /\ Ends(requests[r].id, DOMAIN requests \ {r})
    BY <1>8, LogoutShape
  <2>2. ASSUME NEW q \in DOMAIN requests', Works(q)'
        PROVE  /\ q \in DOMAIN requests \ {r} /\ q \in DOMAIN requests
               /\ requests'[q] = requests[q]
    BY <2>1, <2>2 DEF OthersKept, Works
  <2>3. QED
    BY <1>1, <2>1, <2>2, EndedMore
<1>9. ASSUME NEW r \in DOMAIN requests, Deliver(r) PROVE EndedInv'
  <2>1. /\ OthersKept(r) /\ r \notin DOMAIN requests'
        /\ store' = store /\ ended' = ended /\ undercut' = undercut
    BY <1>9, DeliverShape
  <2>2. QED
    BY <2>1, EndedKept DEF OthersKept, Works
<1>10. ASSUME NEW sid \in timers, TimerFires(sid) PROVE EndedInv'
  <2>1. /\ store' = [s \in DOMAIN store \ {sid} |-> store[s]]
        /\ Ends(sid, DOMAIN requests) /\ requests' = requests
    BY <1>10 DEF TimerFires, Without, Restrict
  <2>2. QED
    BY <1>1, <2>1, EndedMore
<1>11. CASE UNCHANGED pageVars
  <2>1. requests' = requests /\ store' = store /\ ended' = ended /\ undercut' = undercut
    BY <1>11 DEF pageVars, past
  <2>2. QED
    BY <2>1 DEF EndedInv, Works
<1>12. QED
  BY <1>2, <1>3, <1>4, <1>5, <1>6, <1>7, <1>8, <1>9, <1>10, <1>11, BrowserShape
     DEF PageNext, Handle

LEMMA PageInitially ==
    ASSUME PageInit
    PROVE  PageInv /\ EndedInv
<1>1. DOMAIN requests = {}
  BY DEF PageInit
<1>2. store \in [DOMAIN store -> Sessions] /\ DOMAIN store = {0}
  BY DEF PageInit, NewSession, Sessions, Names
<1>3. PageTypeOK
  BY <1>1, <1>2 DEF PageInit, PageTypeOK
<1>4. IdsOK
  BY <1>1, <1>2 DEF PageInit, IdsOK, Known
<1>5. SessionsOK
  BY <1>1 DEF SessionsOK
<1>6. EndedInv
  BY <1>1 DEF PageInit, EndedInv
<1>7. QED
  BY <1>3, <1>4, <1>5, <1>6 DEF PageInv

THEOREM PageInvariant == PageSpec => []PageInv
<1>1. PageInit => PageInv
  BY PageInitially
<1>2. PageInv /\ [PageNext]_pageVars => PageInv'
  BY PageTypes, PageIds, PageSessions DEF PageInv
<1>3. QED
  BY <1>1, <1>2, PTL DEF PageSpec

\* A session that a logout or the timer of a vote destroys (server.js,
\* votingService.js) stays destroyed, whatever requests the browser still has
\* under way and whatever cookies are still on their way to it, unless one of
\* them had loaded that session before.
THEOREM DestroyedStaysDestroyed == PageSpec => []DestroyedForGood
<1>1. PageInit => EndedInv
  BY PageInitially
<1>2. PageInv /\ EndedInv /\ [PageNext]_pageVars => EndedInv'
  BY PageEnded
<1>3. EndedInv => DestroyedForGood
  BY DEF EndedInv, DestroyedForGood
<1>4. QED
  BY <1>1, <1>2, <1>3, PageInvariant, PTL DEF PageSpec

(***************************************************************************)
(* Whose sessions the browser's cookies name.                              *)
(***************************************************************************)
Overlapless == OneChange /\ OneSeen /\ SeenClean /\ LoginClean /\ VotesClean

\* Sessions are only taken away.
Fewer == \A s \in DOMAIN store' : s \in DOMAIN store /\ store'[s] = store[s]

LEMMA CleanKept ==
    ASSUME voted \subseteq voted', Fewer, NEW s, NEW u, Clean(s, u)
    PROVE  CleanNext(s, u)
BY DEF Clean, CleanNext, CleanIn, CleanUser, Fewer

\* A session of nobody's is clean for everybody.
LEMMA CleanForAll ==
    ASSUME NEW s, NEW u, Clean(s, NULL)
    PROVE  Clean(s, u)
BY DEF Clean, CleanIn, CleanUser

LEMMA CleanForAllNext ==
    ASSUME NEW s, NEW u, CleanNext(s, NULL)
    PROVE  CleanNext(s, u)
BY DEF CleanNext, CleanIn, CleanUser

LEMMA Carries ==
    ASSUME AllCarried, NEW q \in DOMAIN requests'
    PROVE  /\ q \in DOMAIN requests
           /\ requests'[q].kind = requests[q].kind
           /\ (Changes(q)' <=> Changes(q)) /\ (Admin(q)' <=> Admin(q))
           /\ (LoggingIn(q)' <=> LoggingIn(q))
           /\ VoteSent(q)' => VoteSent(q) /\ requests'[q].user = requests[q].user
           /\ Waits(q)' => Waits(q) /\ requests'[q].cookie = requests[q].cookie
           /\ Works(q)' => /\ Works(q) /\ requests'[q].id = requests[q].id
                           /\ requests'[q].session = requests[q].session
                           /\ requests'[q].user = requests[q].user
                           /\ requests'[q].phase = requests[q].phase
                           /\ requests'[q].flagged = requests[q].flagged
           /\ LoggingIn(q)' /\ IsAnswer(q)' =>
                 IsAnswer(q) /\ requests'[q] = requests[q]
<1>1. q \in DOMAIN requests /\ Carried(q)
  BY DEF AllCarried
<1>2. requests[q] \in UnderWay => requests[q].phase \in {"sent", "begun", "voted"}
  BY DEF UnderWay
<1>3. requests'[q].kind = requests[q].kind
  BY <1>1 DEF Carried
<1>4. LoggingIn(q)' => requests'[q].kind # "logout"
  BY DEF LoggingIn
<1>5. QED
  BY <1>1, <1>2, <1>3, <1>4
     DEF Carried, Changes, Admin, LoggingIn, VoteSent, Waits, Works, IsAnswer

LEMMA SeenBy ==
    \A u : u \in Seen <=>
        \/ u \in Users /\ currentUser # NULL /\ currentUser.id = u
        \/ u \in Users /\ dialog # NULL /\ dialog.shown = u
        \/ \E r \in DOMAIN requests : (VoteSent(r) \/ LoggedIn(r)) /\ requests[r].user = u
BY DEF Seen

LEMMA SeenByNext ==
    \A u : u \in Seen' <=>
        \/ u \in Users /\ currentUser' # NULL /\ currentUser'.id = u
        \/ u \in Users /\ dialog' # NULL /\ dialog'.shown = u
        \/ \E r \in DOMAIN requests' : (VoteSent(r)' \/ LoggedIn(r)') /\ requests'[r].user = u
BY DEF Seen

\* Who is seen when requests are only dropped and the page shows nobody new.
LEMMA SeenCarried ==
    ASSUME AllCarried,
           currentUser' # NULL => currentUser'.id \in Seen \/ currentUser'.id \notin Users,
           dialog' # NULL => dialog'.shown \in Seen \/ dialog'.shown \notin Users
    PROVE  Seen' \subseteq Seen
<1>1. ASSUME NEW q \in DOMAIN requests', VoteSent(q)' \/ LoggedIn(q)'
      PROVE  /\ q \in DOMAIN requests
             /\ VoteSent(q) \/ LoggedIn(q)
             /\ requests'[q].user = requests[q].user
  BY <1>1, Carries DEF LoggedIn
<1>2. QED
  BY <1>1, SeenBy, SeenByNext

\* Steps that send nothing, answer nothing but logouts and write no session.
LEMMA ShownCarried ==
    ASSUME Overlapless, AllCarried, Fewer, voted \subseteq voted', votes' = votes,
           Seen' \subseteq Seen,
           \A q \in DOMAIN requests' : LoggingIn(q) => currentUser' = NULL /\ dialog' = NULL,
           \/ cookie' = cookie
           \/ CleanNext(cookie', NULL)
           \/ /\ \A q \in DOMAIN requests' : ~LoggingIn(q)
              /\ \A u \in Seen' : CleanNext(cookie', u)
    PROVE  Overlapless'
<1> USE Carries
<1>1. OneChange'
  BY DEF Overlapless, OneChange
<1>2. OneSeen'
  BY DEF Overlapless, OneSeen
<1>3. SeenClean'
  <2>1. ASSUME NEW u \in Seen' PROVE CleanNext(cookie', u)
    <3>1. u \in Seen /\ Clean(cookie, u)
      BY <2>1 DEF Overlapless, SeenClean
    <3>2. CASE cookie' = cookie
      BY <3>1, <3>2, CleanKept
    <3>3. CASE CleanNext(cookie', NULL)
      BY <3>3, CleanForAllNext
    <3>4. QED
      BY <2>1, <3>2, <3>3
  <2>2. ASSUME NEW u \in Seen', NEW q \in DOMAIN requests'
        PROVE  /\ VoteSent(q)' \/ (Admin(q)' /\ Waits(q)') => CleanNext(requests'[q].cookie, u)
               /\ Admin(q)' /\ Works(q)' => CleanUser(requests'[q].session.user, u, voted')
               /\ LoggingIn(q)' /\ IsAnswer(q)' /\ requests'[q].id = q => CleanNext(q, u)
    <3>1. /\ VoteSent(q) \/ (Admin(q) /\ Waits(q)) => Clean(requests[q].cookie, u)
          /\ Admin(q) /\ Works(q) => CleanUser(requests[q].session.user, u, voted)
          /\ LoggingIn(q) /\ IsAnswer(q) /\ requests[q].id = q => Clean(q, u)
      BY <2>2 DEF Overlapless, SeenClean
    <3>2. VoteSent(q)' \/ (Admin(q)' /\ Waits(q)') => CleanNext(requests'[q].cookie, u)
      <4>1. VoteSent(q)' => Waits(q)'
        BY DEF VoteSent, Waits
      <4>2. QED
        BY <2>2, <3>1, <4>1, CleanKept
    <3>3. Admin(q)' /\ Works(q)' => CleanUser(requests'[q].session.user, u, voted')
      BY <2>2, <3>1 DEF CleanUser
    <3>4. LoggingIn(q)' /\ IsAnswer(q)' /\ requests'[q].id = q => CleanNext(q, u)
      BY <2>2, <3>1, CleanKept
    <3>5. QED
      BY <3>2, <3>3, <3>4
  <2>3. QED
    BY <2>1, <2>2 DEF SeenClean, Clean, CleanNext
<1>4. LoginClean'
  <2>1. ASSUME NEW q \in DOMAIN requests', LoggingIn(q)'
        PROVE  /\ Waits(q)' => requests'[q].cookie = cookie' \/ CleanNext(cookie', NULL)
               /\ Works(q)' => /\ requests'[q].id = cookie' \/ CleanNext(cookie', NULL)
                               /\ CleanNext(requests'[q].id, requests'[q].session.user)
    <3>1. q \in DOMAIN requests /\ LoggingIn(q)
      BY <2>1
    <3>2. /\ Waits(q) => requests[q].cookie = cookie \/ Clean(cookie, NULL)
          /\ Works(q) => /\ requests[q].id = cookie \/ Clean(cookie, NULL)
                         /\ Clean(requests[q].id, requests[q].session.user)
      BY <3>1 DEF Overlapless, LoginClean
    <3>3. Works(q)' => CleanNext(requests'[q].id, requests'[q].session.user)
      BY <2>1, <3>2, CleanKept
    <3>4. Clean(cookie, NULL) => CleanNext(cookie, NULL)
      BY CleanKept
    <3>5. CASE cookie' = cookie
      BY <2>1, <3>2, <3>3, <3>4, <3>5
    <3>6. CASE CleanNext(cookie', NULL)
      BY <3>3, <3>6
    <3>7. QED
      BY <2>1, <3>1, <3>5, <3>6
  <2>2. QED
    BY <2>1 DEF LoginClean, Clean, CleanNext
<1>5. VotesClean'
  <2>1. ASSUME NEW q \in DOMAIN requests'
        PROVE  /\ VoteSent(q)' => requests'[q].user \in Users
               /\ requests'[q].kind = "vote" /\ requests'[q].phase = "begun"
                     /\ ~requests'[q].flagged
                   => requests'[q].session.user \in {NULL, requests'[q].user}
    <3>1. requests'[q].phase = "begun" => Works(q)'
      BY DEF Works
    <3>2. QED
      BY <2>1, <3>1 DEF Overlapless, VotesClean
  <2>2. QED
    BY <2>1 DEF Overlapless, VotesClean
<1>6. QED
  BY <1>1, <1>2, <1>3, <1>4, <1>5 DEF Overlapless

LEMMA SameRequest ==
    ASSUME NEW q, requests'[q] = requests[q]
    PROVE  /\ (Changes(q)' <=> Changes(q)) /\ (Admin(q)' <=> Admin(q))
           /\ (LoggingIn(q)' <=> LoggingIn(q)) /\ (VoteSent(q)' <=> VoteSent(q))
           /\ (LoggedIn(q)' <=> LoggedIn(q)) /\ (Waits(q)' <=> Waits(q))
           /\ (Works(q)' <=> Works(q)) /\ (IsAnswer(q)' <=> IsAnswer(q))
BY DEF Changes, Admin, LoggingIn, VoteSent, LoggedIn, Waits, Works, IsAnswer

\* What a request the step does not touch needs, if sessions stay clean.
CleanFor(q, u) ==
    /\ VoteSent(q) \/ (Admin(q) /\ Waits(q)) => Clean(requests[q].cookie, u)
    /\ Admin(q) /\ Works(q) => CleanUser(requests[q].session.user, u, voted)
    /\ LoggingIn(q) /\ IsAnswer(q) /\ requests[q].id = q => Clean(q, u)

LoginCleanFor(q) ==
    /\ LoggingIn(q) /\ Waits(q) => requests[q].cookie = cookie \/ Clean(cookie, NULL)
    /\ LoggingIn(q) /\ Works(q) =>
          /\ requests[q].id = cookie \/ Clean(cookie, NULL)
          /\ Clean(requests[q].id, requests[q].session.user)

VoteCleanFor(q) ==
    /\ VoteSent(q) => requests[q].user \in Users
    /\ requests[q].kind = "vote" /\ requests[q].phase = "begun" /\ ~requests[q].flagged
         => requests[q].session.user \in {NULL, requests[q].user}

LEMMA CleanParts ==
    /\ SeenClean <=> \A u \in Seen :
                        Clean(cookie, u) /\ \A q \in DOMAIN requests : CleanFor(q, u)
    /\ LoginClean <=> \A q \in DOMAIN requests : LoginCleanFor(q)
    /\ VotesClean <=> /\ \A q \in DOMAIN requests : VoteCleanFor(q)
                      /\ \A v \in votes : v.user = v.shown
BY DEF SeenClean, LoginClean, VotesClean, CleanFor, LoginCleanFor, VoteCleanFor

LEMMA CleanPartsNext ==
    /\ SeenClean' <=> \A u \in Seen' :
                        CleanNext(cookie', u) /\ \A q \in DOMAIN requests' : CleanFor(q, u)'
    /\ LoginClean' <=> \A q \in DOMAIN requests' : LoginCleanFor(q)'
    /\ VotesClean' <=> /\ \A q \in DOMAIN requests' : VoteCleanFor(q)'
                       /\ \A v \in votes' : v.user = v.shown
BY DEF SeenClean, LoginClean, VotesClean, CleanFor, LoginCleanFor, VoteCleanFor,
       Clean, CleanNext

LEMMA SameClean ==
    ASSUME NEW q, requests'[q] = requests[q], voted \subseteq voted', cookie' = cookie
    PROVE  /\ \A u : CleanFor(q, u) /\ (\A s : Clean(s, u) => CleanNext(s, u))
                        => CleanFor(q, u)'
           /\ LoginCleanFor(q) /\ (\A s, u : Clean(s, u) => CleanNext(s, u))
                        => LoginCleanFor(q)'
           /\ VoteCleanFor(q) => VoteCleanFor(q)'
<1> USE SameRequest
<1>1. ASSUME NEW u, CleanFor(q, u), \A s : Clean(s, u) => CleanNext(s, u)
      PROVE  CleanFor(q, u)'
  <2>1. \A x : CleanUser(x, u, voted) => CleanUser(x, u, voted')
    BY DEF CleanUser
  <2>2. \A s : Clean(s, u) => CleanIn(store', voted', s, u)
    BY <1>1 DEF CleanNext
  <2>3. QED
    BY <1>1, <2>1, <2>2 DEF CleanFor, Clean
<1>2. ASSUME LoginCleanFor(q), \A s, u : Clean(s, u) => CleanNext(s, u)
      PROVE  LoginCleanFor(q)'
  <2>1. \A s, u : Clean(s, u) => CleanIn(store', voted', s, u)
    BY <1>2 DEF CleanNext
  <2>2. /\ LoggingIn(q) /\ Waits(q) => requests[q].cookie = cookie \/ Clean(cookie, NULL)
        /\ LoggingIn(q) /\ Works(q) =>
              /\ requests[q].id = cookie \/ Clean(cookie, NULL)
              /\ Clean(requests[q].id, requests[q].session.user)
    BY <1>2 DEF LoginCleanFor
  <2>3. /\ LoggingIn(q)' /\ Waits(q)' =>
              requests'[q].cookie = cookie' \/ CleanIn(store', voted', cookie', NULL)
        /\ LoggingIn(q)' /\ Works(q)' =>
              /\ requests'[q].id = cookie' \/ CleanIn(store', voted', cookie', NULL)
              /\ CleanIn(store', voted', requests'[q].id, requests'[q].session.user)
    BY <2>1, <2>2
  <2>4. QED
    BY <2>3 DEF LoginCleanFor, Clean
<1>3. ASSUME VoteCleanFor(q) PROVE VoteCleanFor(q)'
  BY <1>3 DEF VoteCleanFor
<1>4. QED
  BY <1>1, <1>2, <1>3

LEMMA ShownSent ==
    ASSUME PageInv, Overlapless, BrowserSends, ~overlapped'
    PROVE  Overlapless'
<1> USE DEF PageInv
<1>1. PICK kind \in AllKinds, user \in Names, candidate \in Candidates \cup {NULL} :
          /\ Send(kind, user, candidate)
          /\ cookie' = cookie /\ currentUser' = currentUser /\ dialog' \in {dialog, NULL}
          /\ ServerUnchanged
          /\ kind = "login" => user \in Users /\ currentUser = NULL /\ dialog = NULL
          /\ kind = "vote" => dialog # NULL /\ user = dialog.shown
  BY DEF BrowserSends
<1>2. PICK new : new = sent + 1
  OBVIOUS
<1>3. /\ DOMAIN requests' = DOMAIN requests \cup {new} /\ new \notin DOMAIN requests
      /\ \A q \in DOMAIN requests : requests'[q] = requests[q]
      /\ requests'[new].kind = kind /\ requests'[new].user = user
      /\ requests'[new].cookie = cookie /\ requests'[new].phase = "sent"
  BY <1>1, <1>2, SendShape
<1>4. store' = store /\ voted' = voted /\ votes' = votes
  BY <1>1 DEF ServerUnchanged, tables
<1>5. kind \in SessionChanging =>
          \A q \in DOMAIN requests : ~Changes(q) /\ ~VoteSent(q)
  BY <1>1 DEF Send, LoginInTheWay, Changes, VoteSent, Waits
<1>6. kind = "vote" => user \in Users /\ user \in Seen
  BY <1>1, SeenBy DEF PageTypeOK
<1>7. kind = "vote" => \A q \in DOMAIN requests : ~LoggingIn(q)
  BY <1>1 DEF Overlapless, OneChange
<1>8. \A q \in DOMAIN requests :
          /\ (Changes(q)' <=> Changes(q)) /\ (LoggingIn(q)' <=> LoggingIn(q))
          /\ (VoteSent(q)' <=> VoteSent(q)) /\ (LoggedIn(q)' <=> LoggedIn(q))
  BY <1>3, SameRequest
<1>9. /\ (Changes(new)' <=> kind \in SessionChanging)
      /\ (LoggingIn(new)' <=> kind = "login")
      /\ (Admin(new)' => kind \in SessionChanging)
      /\ (VoteSent(new)' <=> kind = "vote")
      /\ ~LoggedIn(new)' /\ Waits(new)' /\ ~Works(new)' /\ ~IsAnswer(new)'
  BY <1>3 DEF Changes, LoggingIn, Admin, SessionChanging, VoteSent, LoggedIn, Waits,
              Works, IsAnswer
<1>10. Seen' \subseteq Seen
  <2>1. ASSUME NEW q \in DOMAIN requests', VoteSent(q)' \/ LoggedIn(q)'
        PROVE  requests'[q].user \in Seen
    BY <1>3, <1>6, <1>8, <1>9, <2>1, SeenBy
  <2>2. QED
    BY <1>1, <2>1, SeenBy, SeenByNext
<1>11. OneChange'
  <2>1. ASSUME NEW q \in DOMAIN requests', NEW p \in DOMAIN requests', Changes(q)', Changes(p)'
        PROVE  q = p
    BY <1>3, <1>5, <1>8, <1>9, <2>1 DEF Overlapless, OneChange
  <2>2. ASSUME NEW q \in DOMAIN requests', LoggingIn(q)'
        PROVE  /\ currentUser' = NULL /\ dialog' = NULL
               /\ \A p \in DOMAIN requests' : ~VoteSent(p)'
    <3>1. CASE q = new
      <4>1. kind = "login"
        BY <1>9, <2>2, <3>1
      <4>2. kind \in SessionChanging /\ kind # "vote"
        BY <4>1 DEF SessionChanging
      <4>3. QED
        BY <1>1, <1>3, <1>5, <1>8, <1>9, <4>1, <4>2
    <3>2. CASE q # new
      <4>1. q \in DOMAIN requests /\ LoggingIn(q)
        BY <1>3, <1>8, <2>2, <3>2
      <4>2. kind # "vote"
        BY <1>7, <4>1
      <4>3. QED
        BY <1>1, <1>3, <1>8, <1>9, <4>1, <4>2 DEF Overlapless, OneChange
    <3>3. QED
      BY <3>1, <3>2
  <2>3. QED
    BY <2>1, <2>2 DEF OneChange
<1>12. OneSeen'
  BY <1>10 DEF Overlapless, OneSeen
<1>13. \A s, u : Clean(s, u) <=> CleanNext(s, u)
  BY <1>4 DEF Clean, CleanNext
<1>14. SeenClean'
  <2>1. ASSUME NEW u \in Seen'
        PROVE  CleanNext(cookie', u) /\ \A q \in DOMAIN requests' : CleanFor(q, u)'
    <3>1. Clean(cookie, u) /\ \A q \in DOMAIN requests : CleanFor(q, u)
      BY <1>10, <2>1, CleanParts DEF Overlapless
    <3>2. CleanFor(new, u)'
      <4>1. CleanIn(store', voted', requests'[new].cookie, u)
        BY <1>3, <1>13, <3>1 DEF CleanNext
      <4>2. QED
        BY <1>9, <4>1 DEF CleanFor, Clean
    <3>3. \A q \in DOMAIN requests : CleanFor(q, u)'
      BY <1>1, <1>3, <1>4, <1>13, <3>1, SameClean
    <3>4. QED
      BY <1>1, <1>3, <1>13, <3>1, <3>2, <3>3
  <2>2. QED
    BY <2>1, CleanPartsNext
<1>15. LoginClean'
  <2>1. LoginCleanFor(new)'
    BY <1>1, <1>3, <1>9 DEF LoginCleanFor
  <2>2. \A q \in DOMAIN requests : LoginCleanFor(q)'
    BY <1>1, <1>3, <1>4, <1>13, CleanParts, SameClean DEF Overlapless
  <2>3. QED
    BY <1>3, <2>1, <2>2, CleanPartsNext
<1>16. VotesClean'
  <2>1. VoteCleanFor(new)'
    BY <1>3, <1>6, <1>9 DEF VoteCleanFor
  <2>2. \A q \in DOMAIN requests : VoteCleanFor(q)'
    BY <1>1, <1>3, <1>4, CleanParts, SameClean DEF Overlapless
  <2>3. \A v \in votes' : v.user = v.shown
    BY <1>4, CleanParts DEF Overlapless
  <2>4. QED
    BY <1>3, <2>1, <2>2, <2>3, CleanPartsNext
<1>17. QED
  BY <1>11, <1>12, <1>14, <1>15, <1>16 DEF Overlapless

\* A handler's step on request r, before its answer: who is seen, which logins
\* there are and which votes are sent does not grow.
LEMMA HandlerShows ==
    ASSUME Overlapless, NEW r \in DOMAIN requests, OthersKept(r), r \in DOMAIN requests',
           requests'[r].kind = requests[r].kind,
           requests'[r].phase \in {"begun", "voted"},
           UNCHANGED <<currentUser, dialog>>
    PROVE  /\ OneChange' /\ Seen' \subseteq Seen /\ OneSeen'
           /\ (Changes(r)' <=> Changes(r)) /\ (Admin(r)' <=> Admin(r))
           /\ (LoggingIn(r)' <=> LoggingIn(r))
           /\ ~VoteSent(r)' /\ ~LoggedIn(r)' /\ ~Waits(r)' /\ ~IsAnswer(r)' /\ Works(r)'
<1>1. /\ (Changes(r)' <=> Changes(r)) /\ (Admin(r)' <=> Admin(r))
      /\ (LoggingIn(r)' <=> LoggingIn(r))
      /\ ~VoteSent(r)' /\ ~LoggedIn(r)' /\ ~Waits(r)' /\ ~IsAnswer(r)' /\ Works(r)'
  BY DEF Changes, Admin, LoggingIn, VoteSent, LoggedIn, Waits, IsAnswer, Works
<1>2. \A q \in DOMAIN requests' : q # r =>
          /\ q \in DOMAIN requests /\ requests'[q].user = requests[q].user
          /\ (Changes(q)' <=> Changes(q)) /\ (LoggingIn(q)' <=> LoggingIn(q))
          /\ (VoteSent(q)' <=> VoteSent(q)) /\ (LoggedIn(q)' <=> LoggedIn(q))
  BY SameRequest DEF OthersKept
<1>3. \A q \in DOMAIN requests' :
          /\ q \in DOMAIN requests
          /\ Changes(q)' => Changes(q)
          /\ LoggingIn(q)' => LoggingIn(q)
          /\ VoteSent(q)' => VoteSent(q)
          /\ VoteSent(q)' \/ LoggedIn(q)' =>
                (VoteSent(q) \/ LoggedIn(q)) /\ requests'[q].user = requests[q].user
  BY <1>1, <1>2
<1>4. OneChange'
  BY <1>3 DEF Overlapless, OneChange
<1>5. Seen' \subseteq Seen
  BY <1>3, SeenBy, SeenByNext
<1>6. QED
  BY <1>1, <1>4, <1>5 DEF Overlapless, OneSeen

LEMMA ShownBegin ==
    ASSUME PageInv, Overlapless, NEW r \in DOMAIN requests, Begin(r)
    PROVE  Overlapless'
<1> USE DEF PageInv
<1>1. /\ store' = store /\ voted' = voted /\ votes' = votes /\ cookie' = cookie
      /\ UNCHANGED <<currentUser, dialog>>
  BY DEF Begin, tables, BrowserUnchanged, page
<1>2. /\ OthersKept(r) /\ r \in DOMAIN requests' /\ Waits(r)
      /\ requests'[r].kind = requests[r].kind /\ requests'[r].user = requests[r].user
      /\ requests'[r].phase = "begun"
      /\ \/ /\ requests[r].cookie \in DOMAIN store
            /\ requests'[r].id = requests[r].cookie
            /\ requests'[r].session = store[requests[r].cookie]
         \/ /\ requests[r].cookie \notin DOMAIN store
            /\ requests'[r].id = r
            /\ requests'[r].session.user = NULL
      /\ requests'[r].kind = "vote" /\ ~requests'[r].flagged
           => requests'[r].session.user \notin voted
  BY BeginShape
<1>3. /\ OneChange' /\ Seen' \subseteq Seen /\ OneSeen'
      /\ (Admin(r)' <=> Admin(r)) /\ (LoggingIn(r)' <=> LoggingIn(r))
      /\ ~VoteSent(r)' /\ ~Waits(r)' /\ ~IsAnswer(r)' /\ Works(r)'
  BY <1>1, <1>2, HandlerShows
<1>4. \A s, u : Clean(s, u) <=> CleanNext(s, u)
  BY <1>1 DEF Clean, CleanNext
<1>5. \A u : Clean(requests[r].cookie, u) => CleanUser(requests'[r].session.user, u, voted)
  BY <1>2 DEF Clean, CleanIn, CleanUser
<1>6. r \notin DOMAIN store
  BY <1>2 DEF IdsOK, Private
<1>7. SeenClean'
  <2>1. ASSUME NEW u \in Seen'
        PROVE  CleanNext(cookie', u) /\ \A q \in DOMAIN requests' : CleanFor(q, u)'
    <3>1. Clean(cookie, u) /\ \A q \in DOMAIN requests : CleanFor(q, u)
      BY <1>3, <2>1, CleanParts DEF Overlapless
    <3>2. CleanFor(r, u)'
      <4>1. Admin(r) => CleanUser(requests'[r].session.user, u, voted')
        BY <1>1, <1>2, <1>5, <3>1 DEF CleanFor
      <4>2. QED
        BY <1>3, <4>1 DEF CleanFor
    <3>3. \A q \in DOMAIN requests' : q # r => CleanFor(q, u)'
      BY <1>1, <1>2, <1>4, <3>1, SameClean DEF OthersKept
    <3>4. QED
      BY <1>1, <1>4, <3>1, <3>2, <3>3
  <2>2. QED
    BY <2>1, CleanPartsNext
<1>8. LoginClean'
  <2>1. LoginCleanFor(r)'
    <3>1. LoggingIn(r) => requests[r].cookie = cookie \/ Clean(cookie, NULL)
      BY <1>2, CleanParts DEF Overlapless, LoginCleanFor
    <3>2. LoggingIn(r) => requests'[r].id = cookie \/ Clean(cookie, NULL)
      BY <1>2, <3>1 DEF Clean, CleanIn
    <3>3. Clean(requests'[r].id, requests'[r].session.user)
      BY <1>2, <1>6 DEF Clean, CleanIn, CleanUser
    <3>4. /\ LoggingIn(r) => requests'[r].id = cookie' \/ CleanIn(store', voted', cookie', NULL)
          /\ CleanIn(store', voted', requests'[r].id, requests'[r].session.user)
      BY <1>1, <1>4, <3>2, <3>3 DEF CleanNext
    <3>5. QED
      BY <1>3, <3>4 DEF LoginCleanFor, Clean
  <2>2. \A q \in DOMAIN requests' : q # r => LoginCleanFor(q)'
    BY <1>1, <1>2, <1>4, CleanParts, SameClean DEF Overlapless, OthersKept
  <2>3. QED
    BY <2>1, <2>2, CleanPartsNext
<1>9. VotesClean'
  <2>1. VoteCleanFor(r)'
    <3>1. CASE requests[r].kind = "vote"
      <4>1. VoteSent(r) /\ requests[r].user \in Seen
        BY <1>2, <3>1, SeenBy DEF VoteSent, Waits
      <4>2. Clean(requests[r].cookie, requests[r].user)
        BY <4>1, CleanParts DEF Overlapless, CleanFor
      <4>3. CleanUser(requests'[r].session.user, requests'[r].user, voted)
        BY <1>2, <1>5, <4>2
      <4>4. QED
        BY <1>2, <1>3, <4>3 DEF CleanUser, VoteCleanFor
    <3>2. CASE requests[r].kind # "vote"
      BY <1>2, <1>3, <3>2 DEF VoteCleanFor
    <3>3. QED
      BY <3>1, <3>2
  <2>2. \A q \in DOMAIN requests' : q # r => VoteCleanFor(q)'
    BY <1>1, <1>2, CleanParts, SameClean DEF Overlapless, OthersKept
  <2>3. \A v \in votes' : v.user = v.shown
    BY <1>1, CleanParts DEF Overlapless
  <2>4. QED
    BY <2>1, <2>2, <2>3, CleanPartsNext
<1>10. QED
  BY <1>3, <1>7, <1>8, <1>9 DEF Overlapless

LEMMA ShownCastVote ==
    ASSUME PageInv, Overlapless, NEW r \in DOMAIN requests, CastVote(r)
    PROVE  Overlapless'
<1> USE DEF PageInv
<1>1. store' = store /\ cookie' = cookie /\ UNCHANGED <<currentUser, dialog>>
  BY DEF CastVote, BrowserUnchanged, page
<1>2. /\ OthersKept(r) /\ r \in DOMAIN requests'
      /\ requests[r].kind = "vote" /\ requests[r].phase = "begun" /\ ~requests[r].flagged
      /\ requests[r].session.user # NULL
      /\ requests'[r].kind = "vote" /\ requests'[r].phase = "voted"
      /\ voted \subseteq voted'
      /\ \A v \in votes' : v \in votes \/ (v.user = requests[r].session.user
                                           /\ v.shown = requests[r].user)
  BY CastVoteShape
<1>3. /\ OneChange' /\ Seen' \subseteq Seen /\ OneSeen'
      /\ (Admin(r)' <=> Admin(r)) /\ (LoggingIn(r)' <=> LoggingIn(r)) /\ ~VoteSent(r)'
  BY <1>1, <1>2, HandlerShows
<1>4. ~Admin(r)' /\ ~LoggingIn(r)'
  BY <1>2 DEF Admin, LoggingIn
<1>5. \A s, u : Clean(s, u) => CleanNext(s, u)
  BY <1>1, <1>2 DEF Clean, CleanNext, CleanIn, CleanUser
<1>6. SeenClean'
  <2>1. ASSUME NEW u \in Seen'
        PROVE  CleanNext(cookie', u) /\ \A q \in DOMAIN requests' : CleanFor(q, u)'
    <3>1. Clean(cookie, u) /\ \A q \in DOMAIN requests : CleanFor(q, u)
      BY <1>3, <2>1, CleanParts DEF Overlapless
    <3>2. CleanFor(r, u)'
      BY <1>3, <1>4 DEF CleanFor
    <3>3. \A q \in DOMAIN requests' : q # r => CleanFor(q, u)'
      BY <1>1, <1>2, <1>5, <3>1, SameClean DEF OthersKept
    <3>4. QED
      BY <1>1, <1>5, <3>1, <3>2, <3>3
  <2>2. QED
    BY <2>1, CleanPartsNext
<1>7. LoginClean'
  <2>1. LoginCleanFor(r)'
    BY <1>4 DEF LoginCleanFor
  <2>2. \A q \in DOMAIN requests' : q # r => LoginCleanFor(q)'
    BY <1>1, <1>2, <1>5, CleanParts, SameClean DEF Overlapless, OthersKept
  <2>3. QED
    BY <2>1, <2>2, CleanPartsNext
<1>8. VotesClean'
  <2>1. VoteCleanFor(r)'
    BY <1>2, <1>3 DEF VoteCleanFor
  <2>2. \A q \in DOMAIN requests' : q # r => VoteCleanFor(q)'
    BY <1>1, <1>2, CleanParts, SameClean DEF Overlapless, OthersKept
  <2>3. requests[r].session.user = requests[r].user
    BY <1>2, CleanParts DEF Overlapless, VoteCleanFor
  <2>4. \A v \in votes' : v.user = v.shown
    BY <1>2, <2>3, CleanParts DEF Overlapless
  <2>5. QED
    BY <2>1, <2>2, <2>4, CleanPartsNext
<1>9. QED
  BY <1>3, <1>6, <1>7, <1>8 DEF Overlapless

\* The answer of a handler that changes no login: what it writes is nobody's
\* session, one whose voter has the flag, or for an admin one that was clean.
LEMMA ShownAnsweredOther ==
    ASSUME PageInv, Overlapless, NEW r \in DOMAIN requests, Answered(r), ~LoggingIn(r)
    PROVE  Overlapless'
<1> USE DEF PageInv
<1>1. /\ voted' = voted /\ votes' = votes /\ cookie' = cookie
      /\ UNCHANGED <<currentUser, dialog>>
  BY DEF Answered, tables, BrowserUnchanged, page
<1>2. /\ Works(r) /\ OthersKept(r)
      /\ r \in DOMAIN requests' => /\ requests'[r].kind = requests[r].kind
                                   /\ requests'[r].phase = "answered"
  BY AnsweredShape
<1>3. PICK session \in Sessions :
          /\ \/ store' = store
             \/ session # requests[r].loaded /\ Writes(requests[r].id, session)
          /\ ~Changes(r) => session = requests[r].session
          /\ Admin(r) => session.user = requests[r].session.user
  BY AnsweredShape
<1>4. Changes(r) <=> Admin(r)
  BY DEF Changes, Admin, LoggingIn, SessionChanging
<1>5. r \in DOMAIN requests' =>
          /\ (Changes(r)' <=> Changes(r)) /\ (Admin(r)' <=> Admin(r))
          /\ ~LoggingIn(r)' /\ ~VoteSent(r)' /\ ~LoggedIn(r)' /\ ~Waits(r)' /\ ~Works(r)'
          /\ requests'[r].phase # "begun"
  BY <1>2 DEF Changes, Admin, LoggingIn, VoteSent, LoggedIn, Waits, Works
<1>6. \A q \in DOMAIN requests' : q # r =>
          /\ q \in DOMAIN requests /\ requests'[q] = requests[q]
          /\ (Changes(q)' <=> Changes(q)) /\ (LoggingIn(q)' <=> LoggingIn(q))
          /\ (VoteSent(q)' <=> VoteSent(q)) /\ (LoggedIn(q)' <=> LoggedIn(q))
  BY <1>2, SameRequest DEF OthersKept
<1>7. OneChange'
  <2>1. \A q \in DOMAIN requests' :
            /\ q \in DOMAIN requests
            /\ Changes(q)' => Changes(q)
            /\ LoggingIn(q)' => LoggingIn(q)
            /\ VoteSent(q)' => VoteSent(q)
    BY <1>5, <1>6
  <2>2. QED
    BY <1>1, <2>1 DEF Overlapless, OneChange
<1>8. Seen' \subseteq Seen
  BY <1>1, <1>5, <1>6, SeenBy, SeenByNext
<1>9. ~Admin(r) => \A u : CleanUser(session.user, u, voted) \/ store' = store
  BY <1>2, <1>3, <1>4 DEF SessionsOK, CopyOK, CleanUser
<1>10. \A u \in Seen : CleanUser(session.user, u, voted) \/ store' = store
  BY <1>2, <1>3, <1>9, CleanParts DEF Overlapless, CleanFor
<1>11. ASSUME NEW u, CleanUser(session.user, u, voted) \/ store' = store
       PROVE  \A s : Clean(s, u) => CleanNext(s, u)
  BY <1>1, <1>3, <1>11 DEF Clean, CleanNext, CleanIn, Writes
<1>12. SeenClean'
  <2>1. ASSUME NEW u \in Seen'
        PROVE  CleanNext(cookie', u) /\ \A q \in DOMAIN requests' : CleanFor(q, u)'
    <3>1. Clean(cookie, u) /\ \A q \in DOMAIN requests : CleanFor(q, u)
      BY <1>8, <2>1, CleanParts DEF Overlapless
    <3>2. \A s : Clean(s, u) => CleanNext(s, u)
      BY <1>8, <1>10, <1>11, <2>1
    <3>3. r \in DOMAIN requests' => CleanFor(r, u)'
      BY <1>5 DEF CleanFor
    <3>4. \A q \in DOMAIN requests' : q # r => CleanFor(q, u)'
      BY <1>1, <1>6, <3>1, <3>2, SameClean
    <3>5. QED
      BY <1>1, <3>1, <3>2, <3>3, <3>4
  <2>2. QED
    BY <2>1, CleanPartsNext
<1>13. LoginClean'
  <2>1. ASSUME NEW q \in DOMAIN requests', q # r
        PROVE  LoginCleanFor(q)'
    <3>1. q \in DOMAIN requests /\ requests'[q] = requests[q] /\ LoginCleanFor(q)
      BY <1>6, <2>1, CleanParts DEF Overlapless
    <3>2. CASE LoggingIn(q)
      <4>1. Changes(q)
        BY <3>2 DEF Changes, LoggingIn, SessionChanging
      <4>2. ~Admin(r)
        BY <1>4, <2>1, <3>1, <4>1 DEF Overlapless, OneChange
      <4>3. \A s, u : Clean(s, u) => CleanNext(s, u)
        BY <1>9, <1>11, <4>2
      <4>4. QED
        BY <1>1, <3>1, <4>3, SameClean
    <3>3. CASE ~LoggingIn(q)
      BY <1>6, <2>1, <3>3 DEF LoginCleanFor
    <3>4. QED
      BY <3>2, <3>3
  <2>2. r \in DOMAIN requests' => LoginCleanFor(r)'
    BY <1>5 DEF LoginCleanFor
  <2>3. QED
    BY <2>1, <2>2, CleanPartsNext
<1>14. VotesClean'
  <2>1. r \in DOMAIN requests' => VoteCleanFor(r)'
    BY <1>5 DEF VoteCleanFor
  <2>2. \A q \in DOMAIN requests' : q # r => VoteCleanFor(q)'
    BY <1>1, <1>6, CleanParts, SameClean DEF Overlapless
  <2>3. \A v \in votes' : v.user = v.shown
    BY <1>1, CleanParts DEF Overlapless
  <2>4. QED
    BY <2>1, <2>2, <2>3, CleanPartsNext
<1>15. QED
  BY <1>7, <1>8, <1>12, <1>13, <1>14 DEF Overlapless, OneSeen

\* The answer of a login: nobody was seen, and the cookie names the session
\* that has its user now, or a harmless one.
LEMMA ShownAnsweredLogin ==
    ASSUME PageInv, Overlapless, NEW r \in DOMAIN requests, Answered(r), LoggingIn(r)
    PROVE  Overlapless'
<1> USE DEF PageInv
<1>1. /\ voted' = voted /\ votes' = votes /\ cookie' = cookie
      /\ UNCHANGED <<currentUser, dialog>>
  BY DEF Answered, tables, BrowserUnchanged, page
<1>2. /\ Works(r) /\ OthersKept(r)
      /\ r \in DOMAIN requests' =>
            /\ requests'[r].kind = requests[r].kind /\ requests'[r].user = requests[r].user
            /\ requests'[r].phase = "answered"
            /\ requests'[r].id = IF requests[r].id = r THEN r ELSE NULL
  BY AnsweredShape
<1>3. PICK session \in Sessions :
          /\ \/ session = requests[r].loaded /\ store' = store
             \/ session # requests[r].loaded /\ Writes(requests[r].id, session)
          /\ \/ session.user = requests[r].user
             \/ /\ session = requests[r].session
                /\ r \in DOMAIN requests' => requests'[r].outcome = NULL
  BY AnsweredShape
<1>4. Changes(r)
  BY DEF Changes, LoggingIn, SessionChanging
<1>5. /\ currentUser = NULL /\ dialog = NULL
      /\ \A q \in DOMAIN requests : ~VoteSent(q) /\ (Changes(q) => q = r)
  BY <1>4 DEF Overlapless, OneChange
<1>6. r \in DOMAIN requests' =>
          /\ LoggingIn(r)' /\ ~Admin(r)' /\ ~VoteSent(r)' /\ ~Waits(r)' /\ ~Works(r)'
          /\ requests'[r].kind # "vote"
  BY <1>2 DEF LoggingIn, Admin, VoteSent, Waits, Works
<1>7. \A q \in DOMAIN requests' : q # r =>
          /\ q \in DOMAIN requests /\ requests'[q] = requests[q]
          /\ ~Changes(q)' /\ ~Admin(q)' /\ ~LoggingIn(q)' /\ ~VoteSent(q)'
  <2>1. ASSUME NEW q \in DOMAIN requests', q # r
        PROVE  /\ q \in DOMAIN requests /\ requests'[q] = requests[q]
               /\ ~Changes(q) /\ ~VoteSent(q)
    BY <1>2, <1>5, <2>1 DEF OthersKept
  <2>2. \A q : ~Changes(q) => ~Admin(q) /\ ~LoggingIn(q)
    BY DEF Changes, Admin, LoggingIn, SessionChanging
  <2>3. QED
    BY <2>1, <2>2, SameRequest
<1>8. OneChange'
  BY <1>1, <1>5, <1>6, <1>7 DEF OneChange
<1>9. \A u \in Seen' : /\ r \in DOMAIN requests' /\ requests[r].user = u
                       /\ requests'[r].outcome # NULL
  <2>1. ASSUME NEW q \in DOMAIN requests', VoteSent(q)' \/ LoggedIn(q)'
        PROVE  q = r /\ requests'[q].outcome # NULL
    BY <1>6, <1>7, <2>1 DEF LoggedIn
  <2>2. QED
    BY <1>1, <1>2, <1>5, <2>1, SeenByNext
<1>10. OneSeen'
  BY <1>9 DEF OneSeen
<1>11. LoginCleanFor(r) /\ CopyOK(r)
  BY CleanParts DEF Overlapless, SessionsOK
<1>12. ASSUME NEW u \in Seen'
       PROVE  CleanNext(requests[r].id, u) /\ CleanNext(cookie, u)
  <2>1. session.user = u
    BY <1>3, <1>9, <1>12
  <2>2. CleanNext(requests[r].id, u)
    <3>1. CASE Writes(requests[r].id, session)
      BY <2>1, <3>1 DEF Writes, CleanNext, CleanIn, CleanUser
    <3>2. CASE session = requests[r].loaded /\ store' = store
      <4>1. Clean(requests[r].id, requests[r].session.user)
        BY <1>2, <1>11 DEF LoginCleanFor
      <4>2. requests[r].session.user \in {u, NULL}
        BY <1>2, <1>11, <2>1, <3>2 DEF CopyOK, LoggingIn
      <4>3. QED
        BY <1>1, <3>2, <4>1, <4>2 DEF Clean, CleanNext, CleanIn, CleanUser
    <3>3. QED
      BY <1>3, <3>1, <3>2
  <2>3. CASE requests[r].id = cookie
    BY <2>2, <2>3
  <2>4. CASE requests[r].id # cookie
    <3>1. Clean(cookie, NULL)
      BY <1>2, <1>11, <2>4 DEF LoginCleanFor
    <3>2. cookie \in DOMAIN store' => cookie \in DOMAIN store /\ store'[cookie] = store[cookie]
      BY <1>3, <2>4 DEF Writes
    <3>3. QED
      BY <1>1, <2>2, <3>1, <3>2 DEF Clean, CleanNext, CleanIn, CleanUser
  <2>5. QED
    BY <2>3, <2>4
<1>13. SeenClean'
  <2>1. ASSUME NEW u \in Seen'
        PROVE  CleanNext(cookie', u) /\ \A q \in DOMAIN requests' : CleanFor(q, u)'
    <3>1. CleanNext(requests[r].id, u) /\ CleanNext(cookie, u)
      BY <1>12, <2>1
    <3>2. CleanFor(r, u)'
      <4>1. requests'[r].id = r => requests[r].id = r
        <5>1. NULL # r
          BY PageAssumption DEF PageTypeOK
        <5>2. QED
          BY <1>2, <1>9, <2>1, <5>1
      <4>2. requests'[r].id = r => CleanIn(store', voted', r, u)
        BY <3>1, <4>1 DEF CleanNext
      <4>3. QED
        BY <1>6, <1>9, <2>1, <4>2 DEF CleanFor, Clean
    <3>3. \A q \in DOMAIN requests' : q # r => CleanFor(q, u)'
      BY <1>7 DEF CleanFor
    <3>4. QED
      BY <1>1, <3>1, <3>2, <3>3
  <2>2. QED
    BY <2>1, CleanPartsNext
<1>14. LoginClean'
  <2>1. \A q \in DOMAIN requests' : LoginCleanFor(q)'
    BY <1>6, <1>7 DEF LoginCleanFor
  <2>2. QED
    BY <2>1, CleanPartsNext
<1>15. VotesClean'
  <2>1. r \in DOMAIN requests' => VoteCleanFor(r)'
    BY <1>6 DEF VoteCleanFor
  <2>2. \A q \in DOMAIN requests' : q # r => VoteCleanFor(q)'
    BY <1>1, <1>7, CleanParts, SameClean DEF Overlapless
  <2>3. \A v \in votes' : v.user = v.shown
    BY <1>1, CleanParts DEF Overlapless
  <2>4. QED
    BY <2>1, <2>2, <2>3, CleanPartsNext
<1>16. QED
  BY <1>8, <1>10, <1>13, <1>14, <1>15 DEF Overlapless

LEMMA ShownDelivered ==
    ASSUME PageInv, Overlapless, NEW r \in DOMAIN requests, Deliver(r)
    PROVE  Overlapless'
<1> USE DEF PageInv
<1>1. /\ IsAnswer(r) /\ OthersKept(r) /\ r \notin DOMAIN requests'
      /\ cookie' = IF requests[r].id = r THEN r ELSE cookie
      /\ store' = store /\ voted' = voted /\ votes' = votes /\ dialog' = dialog
  BY DeliverShape
<1>2. /\ \A q \in DOMAIN requests' :
            q \in DOMAIN requests /\ q # r /\ requests'[q] = requests[q]
      /\ AllCarried
  <2>1. \A q \in DOMAIN requests' :
            q \in DOMAIN requests /\ q # r /\ requests'[q] = requests[q]
    BY <1>1 DEF OthersKept
  <2>2. QED
    BY <1>1, <2>1 DEF AllCarried, Carried, OthersKept, PageTypeOK
<1>3. Fewer
  BY <1>1 DEF Fewer
<1>4. \/ /\ LoggedIn(r) /\ currentUser' = [id |-> requests[r].user,
                                          sudah_vote |-> requests[r].sudah_vote]
      \/ currentUser # NULL /\ currentUser' = [currentUser EXCEPT !.sudah_vote = TRUE]
      \/ currentUser' \in {currentUser, NULL}
  BY <1>1 DEF Deliver, Display, Shows, LoggedIn, LoggingIn
<1>5. currentUser' # NULL => currentUser'.id \in Seen
  <2>1. CASE LoggedIn(r) /\ currentUser' = [id |-> requests[r].user,
                                           sudah_vote |-> requests[r].sudah_vote]
    BY <2>1, SeenBy
  <2>2. CASE currentUser # NULL /\ currentUser' = [currentUser EXCEPT !.sudah_vote = TRUE]
    <3>1. currentUser'.id = currentUser.id /\ currentUser.id \in Users
      BY <2>2 DEF PageTypeOK
    <3>2. QED
      BY <2>2, <3>1, SeenBy
  <2>3. CASE currentUser' \in {currentUser, NULL}
    BY <2>3, SeenBy DEF PageTypeOK
  <2>4. QED
    BY <1>4, <2>1, <2>2, <2>3
<1>6. Seen' \subseteq Seen
  <2>1. dialog' # NULL => dialog'.shown \in Seen \/ dialog'.shown \notin Users
    BY <1>1, SeenBy
  <2>2. QED
    BY <1>2, <1>5, <2>1, SeenCarried
<1>7. \A q \in DOMAIN requests' : LoggingIn(q) => currentUser' = NULL /\ dialog' = NULL
  <2>1. ASSUME NEW q \in DOMAIN requests', LoggingIn(q)
        PROVE  currentUser' = NULL /\ dialog' = NULL
    <3>1. currentUser = NULL /\ dialog = NULL
      BY <1>2, <2>1 DEF Overlapless, OneChange
    <3>2. Changes(q) /\ (LoggedIn(r) => Changes(r))
      BY <2>1 DEF Changes, LoggedIn, LoggingIn, SessionChanging
    <3>3. ~LoggedIn(r)
      BY <1>2, <2>1, <3>2 DEF Overlapless, OneChange
    <3>4. QED
      BY <1>1, <1>4, <3>1, <3>3
  <2>2. QED
    BY <2>1
<1>8. \/ cookie' = cookie
      \/ CleanNext(cookie', NULL)
      \/ /\ \A q \in DOMAIN requests' : ~LoggingIn(q)
         /\ \A u \in Seen' : CleanNext(cookie', u)
  <2>1. CASE requests[r].id # r
    BY <1>1, <2>1
  <2>2. CASE requests[r].id = r /\ LoggingIn(r)
    <3>1. \A q \in DOMAIN requests' : ~LoggingIn(q)
      <4>1. \A q : LoggingIn(q) => Changes(q)
        BY DEF LoggingIn, Changes, SessionChanging
      <4>2. QED
        BY <1>2, <2>2, <4>1 DEF Overlapless, OneChange
    <3>2. \A u \in Seen' : Clean(r, u)
      BY <1>1, <1>6, <2>2, CleanParts DEF Overlapless, CleanFor
    <3>3. \A u \in Seen' : CleanNext(cookie', u)
      BY <1>1, <2>2, <3>2 DEF Clean, CleanNext
    <3>4. QED
      BY <3>1, <3>3
  <2>3. CASE requests[r].id = r /\ ~LoggingIn(r)
    <3>1. r \in DOMAIN store => store[r].user = NULL
      BY <2>3 DEF SessionsOK, NewIsNobodys, LoggingIn
    <3>2. CleanNext(cookie', NULL)
      BY <1>1, <2>3, <3>1 DEF CleanNext, CleanIn, CleanUser
    <3>3. QED
      BY <3>2
  <2>4. QED
    BY <2>1, <2>2, <2>3
<1>9. QED
  BY <1>1, <1>2, <1>3, <1>6, <1>7, <1>8, ShownCarried

\* A step of the browser that sends nothing, or one that only drops requests
\* or sessions.
LEMMA ShownQuiet ==
    ASSUME PageInv, Overlapless,
           \/ Opens \/ Quiet \/ Reload \/ Crash
           \/ \E sid \in timers : TimerFires(sid)
           \/ \E r \in DOMAIN requests : LogoutAnswered(r)
           \/ UNCHANGED pageVars
    PROVE  Overlapless'
<1> USE DEF PageInv
<1>1. cookie' = cookie /\ voted' = voted /\ votes' = votes
  BY DEF Opens, Quiet, Reload, Crash, TimerFires, LogoutAnswered, pageVars, page, tables,
         ServerUnchanged, BrowserUnchanged
<1>2. Fewer
  BY LogoutShape
     DEF Opens, Quiet, Reload, Crash, TimerFires, pageVars, ServerUnchanged, Fewer,
         Without, Restrict
<1>3. requests' = requests => AllCarried
  BY DEF AllCarried, Carried, PageTypeOK
<1>4. ASSUME NEW r \in DOMAIN requests, LogoutAnswered(r) PROVE AllCarried
  <2>1. /\ OthersKept(r) /\ requests[r].kind = "logout"
        /\ r \in DOMAIN requests' =>
              /\ requests'[r] \in AnswersSent
              /\ requests'[r].kind = "logout" /\ requests'[r].phase = "answered"
              /\ requests'[r].id = NULL
    BY <1>4, LogoutShape
  <2>2. r \in DOMAIN requests' => Carried(r)
    BY <2>1 DEF Carried
  <2>3. ASSUME NEW q \in DOMAIN requests', q # r
        PROVE  q \in DOMAIN requests /\ Carried(q)
    BY <2>1, <2>3 DEF Carried, OthersKept, PageTypeOK
  <2>4. QED
    BY <2>1, <2>2, <2>3 DEF AllCarried, OthersKept
<1>5. AllCarried
  BY <1>3, <1>4, ReloadShape, CrashShape DEF Opens, Quiet, TimerFires, pageVars
<1>6. \/ currentUser' \in {currentUser, NULL} /\ dialog' \in {dialog, NULL}
      \/ Opens
  BY DEF Quiet, Reload, Crash, TimerFires, LogoutAnswered, pageVars, page, BrowserUnchanged
<1>7. currentUser' # NULL => currentUser'.id \in Seen
  BY <1>6, SeenBy DEF Opens, PageTypeOK
<1>8. dialog' # NULL => dialog'.shown \in Seen
  <2>1. CASE dialog' \in {dialog, NULL}
    BY <2>1, SeenBy DEF PageTypeOK
  <2>2. CASE Opens
    BY <2>2, SeenBy DEF Opens, PageTypeOK
  <2>3. QED
    BY <1>6, <2>1, <2>2
<1>9. Seen' \subseteq Seen
  BY <1>5, <1>7, <1>8, SeenCarried
<1>10. \A q \in DOMAIN requests' : LoggingIn(q) => currentUser' = NULL /\ dialog' = NULL
  <2>1. ASSUME NEW q \in DOMAIN requests', LoggingIn(q)
        PROVE  currentUser = NULL /\ dialog = NULL
    BY <1>5, <2>1 DEF AllCarried, Overlapless, OneChange
  <2>2. QED
    BY <1>6, <2>1 DEF Opens
<1>11. QED
  BY <1>1, <1>2, <1>5, <1>9, <1>10, ShownCarried

LEMMA PageShown ==
    ASSUME PageInv, ShownInv, [PageNext]_pageVars
    PROVE  ShownInv'
<1> SUFFICES ASSUME ~overlapped' PROVE Overlapless'
  BY DEF ShownInv, Overlapless
<1> USE DEF PageInv
<1>1. \/ BrowserSends \/ Opens \/ Quiet \/ Reload \/ Crash \/ UNCHANGED pageVars
      \/ \E r \in DOMAIN requests : Handle(r)
      \/ \E sid \in timers : TimerFires(sid)
  BY BrowserShape DEF PageNext
<1>2. ~overlapped
  <2>1. CASE BrowserSends
    BY <2>1 DEF BrowserSends, Send
  <2>2. CASE ~BrowserSends
    BY <1>1, <2>2 DEF Opens, Quiet, Reload, Crash, pageVars, past, TimerFires, Handle,
                      Begin, CastVote, Answered, LogoutAnswered, Deliver
  <2>3. QED
    BY <2>1, <2>2
<1>3. Overlapless
  BY <1>2 DEF ShownInv, Overlapless
<1>4. CASE \E r \in DOMAIN requests : Handle(r)
  <2>1. PICK r \in DOMAIN requests : Handle(r)
    BY <1>4
  <2>2. QED
    BY <1>3, <2>1, ShownBegin, ShownCastVote, ShownAnsweredLogin, ShownAnsweredOther,
       ShownDelivered, ShownQuiet DEF Handle
<1>5. QED
  BY <1>1, <1>3, <1>4, ShownSent, ShownQuiet

\* In a browser that voters share (script.js, server.js, votingService.js), a
\* vote is stored for the voter the page showed when the candidate was clicked,
\* for any number of requests, reloads and kills of the server, unless a login
\* is sent while another is going on or a vote has not yet loaded its session.
THEOREM VotesAreOfTheShownUser == PageSpec => []VoteIsOfTheShownUser
<1>1. PageInit => ShownInv
  <2>1. ASSUME PageInit PROVE ShownInv
    <3>1. DOMAIN requests = {} /\ votes = {} /\ currentUser = NULL /\ dialog = NULL
      BY <2>1 DEF PageInit
    <3>2. Seen = {}
      BY <3>1, SeenBy
    <3>3. QED
      BY <3>1, <3>2 DEF ShownInv, OneChange, OneSeen, SeenClean, LoginClean, VotesClean
  <2>2. QED
    BY <2>1
<1>2. PageInv /\ ShownInv /\ [PageNext]_pageVars => ShownInv'
  BY PageShown
<1>3. ShownInv => VoteIsOfTheShownUser
  BY DEF ShownInv, VotesClean, VoteIsOfTheShownUser
<1>4. QED
  BY <1>1, <1>2, <1>3, PageInvariant, PTL DEF PageSpec

(***************************************************************************)
(* The log page: the inductive invariant.                                  *)
(***************************************************************************)
\* The place of a row among those that are found.
Place(found, dir, i) ==
    Cardinality(IF dir = "ASC" THEN {j \in found : j <= i} ELSE {j \in found : j >= i})

\* Of the rows the reader looks for, those of the first pages were seen.
Covers(r, seen, pages) ==
    \A i \in r.present :
        Place(Matching(r.filter), state.sortDir, i) <= pages * PageLimit => i \in seen

\* The one request of a reader who waits.
PageRight(r, f) ==
    /\ f.kind = "list"
    /\ f.phase # "answered" =>
          /\ f.filter = r.filter /\ f.page = state.page
          /\ f.sortDir = state.sortDir /\ f.limit = PageLimit
          /\ Covers(r, r.seen, state.page - 1)
    /\ f.phase = "answered" =>
          /\ Covers(r, r.seen \cup f.rows, state.page)
          /\ OnLastPage(f) /\ ~f.overtaken => r.present \subseteq r.seen \cup f.rows

ReaderRight(r) ==
    /\ {"filter", "present", "seen", "ended"} \subseteq DOMAIN r
    /\ r.present \subseteq Matching(r.filter)
    /\ r.ended => r.present \subseteq r.seen
    /\ \/ Idle /\ Covers(r, r.seen, state.page)
       \/ \E f : fetches = SetToBag({f}) /\ PageRight(r, f)

ExportRight(f) ==
    /\ f.phase # "answered" =>
          /\ f.page = 1 /\ f.sortDir = "DESC" /\ f.limit = ExportLimit
          /\ f.present \subseteq Matching(f.filter)
    /\ f.phase = "answered" =>
          \A i \in f.present \ f.rows :
              Cardinality(f.rows) = ExportLimit /\ \A j \in f.rows : i < j

FetchRight(f) ==
    /\ {"kind", "phase", "present"} \subseteq DOMAIN f
    /\ f.phase # "answered" => {"filter", "page", "sortDir", "limit", "total"} \subseteq DOMAIN f
    /\ f.kind = "export" => ExportRight(f)

LogInv ==
    /\ rows \in Seq(Actions)
    /\ state \in [page : Nat \ {0}, sortDir : {"ASC", "DESC"}]
    /\ \A f \in DOMAIN fetches : FetchRight(f)
    /\ \A r \in reading : ReaderRight(r)

(***************************************************************************)
(* Bags of requests.                                                       *)
(***************************************************************************)
LEMMA AddedRequests ==
    ASSUME NEW B, NEW x
    PROVE  DOMAIN (B (+) SetToBag({x})) = DOMAIN B \cup {x}
BY DEF (+), SetToBag

LEMMA RemainingRequests ==
    ASSUME NEW B, NEW x
    PROVE  DOMAIN (B (-) SetToBag({x})) \subseteq DOMAIN B
BY DEF (-), SetToBag

LEMMA EmptyBagDomain == DOMAIN EmptyBag = {}
BY DEF EmptyBag, SetToBag

\* The bag of a reader who waits.
LEMMA OneRequest ==
    ASSUME NEW x
    PROVE  /\ DOMAIN SetToBag({x}) = {x}
           /\ EmptyBag (+) SetToBag({x}) = SetToBag({x})
           /\ SetToBag({x}) (-) SetToBag({x}) = EmptyBag
<1>1. SetToBag({x}) = [e \in {x} |-> 1] /\ EmptyBag = [e \in {} |-> 1]
    BY DEF SetToBag, EmptyBag
<1>2. [e \in {} |-> 1] (+) [e \in {x} |-> 1] = [e \in {x} |-> 1]
    BY DEF (+)
<1>3. [e \in {x} |-> 1] (-) [e \in {x} |-> 1] = [e \in {} |-> 1]
    BY DEF (-)
<1> QED
    BY <1>1, <1>2, <1>3

(***************************************************************************)
(* Places.                                                                 *)
(***************************************************************************)
LEMMA MatchingFinite ==
    ASSUME rows \in Seq(Actions), NEW filter
    PROVE  /\ Matching(filter) \subseteq Nat \ {0}
           /\ IsFiniteSet(Matching(filter))
<1>1. Matching(filter) \subseteq 1..Len(rows) /\ Len(rows) \in Nat
    BY DEF Matching
<1>2. IsFiniteSet(1..Len(rows))
    BY <1>1, FS_Interval
<1> QED
    BY <1>1, <1>2, FS_Subset

LEMMA MatchingGrows ==
    ASSUME rows \in Seq(Actions), NEW action \in Actions, rows' = Append(rows, action),
           NEW filter
    PROVE  /\ Matching(filter) \subseteq Matching(filter)'
           /\ Matching(filter)' \subseteq Nat \ {0}
           /\ IsFiniteSet(Matching(filter)')
<1>1. DOMAIN rows \subseteq DOMAIN rows' /\ \A i \in DOMAIN rows : rows'[i] = rows[i]
    OBVIOUS
<1>2. DOMAIN rows' = 1..Len(rows') /\ Len(rows') \in Nat
    OBVIOUS
<1>3. IsFiniteSet(1..Len(rows'))
    BY <1>2, FS_Interval
<1>4. Matching(filter)' \subseteq 1..Len(rows')
    BY <1>2 DEF Matching
<1>5. IsFiniteSet(Matching(filter)')
    BY <1>3, <1>4, FS_Subset
<1>6. Matching(filter) \subseteq Matching(filter)'
    BY <1>1 DEF Matching
<1> QED
    BY <1>2, <1>4, <1>5, <1>6

LEMMA PlaceGrows ==
    ASSUME NEW S, NEW T, IsFiniteSet(T), S \subseteq T, NEW dir, NEW i
    PROVE  /\ Place(S, dir, i) \in Nat
           /\ Place(S, dir, i) <= Place(T, dir, i)
           /\ Place(S, dir, i) <= Cardinality(T)
           /\ Cardinality(T) \in Nat
<1> DEFINE In(U) == IF dir = "ASC" THEN {j \in U : j <= i} ELSE {j \in U : j >= i}
<1>1. In(S) \subseteq In(T) /\ In(T) \subseteq T
    OBVIOUS
<1>2. Place(S, dir, i) = Cardinality(In(S)) /\ Place(T, dir, i) = Cardinality(In(T))
    BY DEF Place
<1> HIDE DEF In
<1>3. IsFiniteSet(In(T)) /\ Cardinality(In(T)) <= Cardinality(T)
    BY <1>1, FS_Subset
<1>4. IsFiniteSet(In(S)) /\ Cardinality(In(S)) <= Cardinality(In(T))
    BY <1>1, <1>3, FS_Subset
<1>5. Cardinality(In(S)) \in Nat /\ Cardinality(In(T)) \in Nat /\ Cardinality(T) \in Nat
    BY <1>3, <1>4, FS_CardinalityType
<1> QED
    BY <1>2, <1>3, <1>4, <1>5

\* Nobody stands before the first place.
LEMMA PlacePositive ==
    ASSUME NEW S, IsFiniteSet(S), S \subseteq Nat, NEW dir, NEW i \in S
    PROVE  Place(S, dir, i) \in Nat \ {0}
<1> DEFINE In == IF dir = "ASC" THEN {j \in S : j <= i} ELSE {j \in S : j >= i}
<1>1. i \in In /\ In \subseteq S
    OBVIOUS
<1>2. Place(S, dir, i) = Cardinality(In)
    BY DEF Place
<1> HIDE DEF In
<1>3. IsFiniteSet(In)
    BY <1>1, FS_Subset
<1>4. Cardinality(In) \in Nat /\ Cardinality(In) # 0
    BY <1>1, <1>3, FS_CardinalityType, FS_EmptySet
<1> QED
    BY <1>2, <1>4

LEMMA CoversKept ==
    ASSUME rows \in Seq(Actions), NEW action \in Actions, rows' = Append(rows, action),
           state' = state, state.page \in Nat,
           NEW r, NEW seen, NEW pages \in Int, Covers(r, seen, pages)
    PROVE  Covers(r, seen, pages)'
<1> DEFINE before == Matching(r.filter)
           after  == Matching(r.filter)'
<1>1. IsFiniteSet(after) /\ before \subseteq after
    BY MatchingGrows
<1>2. IsFiniteSet(before)
    BY <1>1, FS_Subset
<1>3. pages * PageLimit \in Int
    BY AuditLogAssumption
<1> HIDE DEF before, after
<1>4. \A i : /\ Place(before, state.sortDir, i) \in Nat
             /\ Place(after, state.sortDir, i) \in Nat
             /\ Place(before, state.sortDir, i) <= Place(after, state.sortDir, i)
    BY <1>1, <1>2, PlaceGrows
<1>5. \A i \in r.present :
          Place(before, state.sortDir, i) <= pages * PageLimit => i \in seen
    BY DEF Covers, before
<1>6. \A i \in r.present :
          Place(after, state.sortDir, i) <= pages * PageLimit => i \in seen
    BY <1>3, <1>4, <1>5
<1> QED
    BY <1>6 DEF Covers, after, Place

LEMMA Products ==
    ASSUME NEW p \in Int, NEW q \in Int, p <= q
    PROVE  p * PageLimit \in Int /\ q * PageLimit \in Int /\ p * PageLimit <= q * PageLimit
BY AuditLogAssumption

LEMMA NextPageOf ==
    ASSUME NEW p \in Nat
    PROVE  (p - 1) * PageLimit + PageLimit = p * PageLimit
BY AuditLogAssumption

(***************************************************************************)
(* What a query cuts out.                                                  *)
(***************************************************************************)
LEMMA SelectedPage ==
    ASSUME NEW f, f.kind = "list", f.limit = PageLimit, f.page \in Nat \ {0}
    PROVE  Selection(f) =
              {i \in Matching(f.filter) :
                  LET place == Place(Matching(f.filter), f.sortDir, i)
                  IN  (f.page - 1) * PageLimit < place /\ place <= f.page * PageLimit}
<1>1. PageLimit \in Nat /\ MaxAllowedLimit \in Nat /\ PageLimit <= MaxAllowedLimit
    BY AuditLogAssumption
<1>2. SafeLimit(f.kind, f.limit) = PageLimit
    BY <1>1 DEF SafeLimit, Min
<1>3. Offset(f.page, PageLimit) + PageLimit = f.page * PageLimit
    BY NextPageOf DEF Offset
<1> QED
    BY <1>2, <1>3 DEF Selection, Offset, Place

LEMMA SelectedExport ==
    ASSUME NEW f, f.kind = "export", f.limit = ExportLimit, f.page = 1, f.sortDir = "DESC"
    PROVE  Selection(f) =
              {i \in Matching(f.filter) :
                  LET place == Place(Matching(f.filter), "DESC", i)
                  IN  0 < place /\ place <= ExportLimit}
<1>1. ExportLimit \in Nat
    BY AuditLogAssumption
<1>2. SafeLimit(f.kind, f.limit) = ExportLimit
    BY <1>1 DEF SafeLimit, Min
<1>3. Offset(f.page, ExportLimit) = 0 /\ 0 + ExportLimit = ExportLimit
    BY <1>1 DEF Offset
<1> QED
    BY <1>2, <1>3 DEF Selection, Place

LEMMA MaxBounds ==
    ASSUME NEW a \in Int, NEW b \in Int
    PROVE  Max({a, b}) \in Int /\ a <= Max({a, b})
<1>1. \E x \in {a, b} : \A y \in {a, b} : x >= y
    OBVIOUS
<1>2. Max({a, b}) \in {a, b} /\ \A y \in {a, b} : Max({a, b}) >= y
    BY <1>1 DEF Max
<1> QED
    BY <1>2

\* The label does not call a page the last one before every row has a page.
LEMMA LastPageHoldsAll ==
    ASSUME NEW f, f.total \in Nat, state.page \in Nat, OnLastPage(f)
    PROVE  f.total <= state.page * PageLimit
<1>1. PageLimit \in Nat \ {0}
    BY AuditLogAssumption
<1>2. (f.total + PageLimit - 1) \div PageLimit \in Int
    BY <1>1
<1>3. /\ TotalPages(f.total) \in Int
      /\ (f.total + PageLimit - 1) \div PageLimit <= TotalPages(f.total)
    BY <1>2, MaxBounds DEF TotalPages
<1>4. (f.total + PageLimit - 1) \div PageLimit <= state.page
    BY <1>2, <1>3 DEF OnLastPage
<1> QED
    BY <1>1, <1>4

\* The places of the newest rows, counted from the newest, leave none out.
LEMMA NewestRows ==
    ASSUME NEW S, IsFiniteSet(S), S \subseteq Nat, NEW n \in Nat,
           NEW T, T = {j \in S : 0 < Place(S, "DESC", j) /\ Place(S, "DESC", j) <= n},
           NEW i \in S, i \notin T
    PROVE  Cardinality(T) = n /\ \A j \in T : i < j
<1> DEFINE After(j) == {k \in S : k >= j}
           place    == [j \in S |-> Cardinality(After(j))]
           N        == Cardinality(S)
<1>1. \A j \in S : IsFiniteSet(After(j)) /\ Cardinality(After(j)) \in Nat /\ After(j) \subseteq S
                     /\ Cardinality(After(j)) <= N
  <2>1. ASSUME NEW j \in S
        PROVE  IsFiniteSet(After(j)) /\ Cardinality(After(j)) <= N
    <3>1. After(j) \in SUBSET S
        OBVIOUS
    <3> QED
        BY <3>1, FS_Subset
  <2> QED
    BY <2>1, FS_CardinalityType
<1>2. \A j \in S : Place(S, "DESC", j) = place[j] /\ place[j] \in 1..N
  <2>1. \A j \in S : Place(S, "DESC", j) = place[j]
    BY DEF Place
  <2>2. \A j \in S : Place(S, "DESC", j) \in Nat \ {0}
    BY PlacePositive
  <2> QED
    BY <1>1, <2>1, <2>2, FS_CardinalityType
<1>3. ASSUME NEW j \in S, NEW k \in S, j < k
      PROVE  place[k] < place[j]
  <2>1. j \in Nat /\ k \in Nat /\ j \in After(j) /\ j \notin After(k)
    BY <1>3
  <2>2. \A x \in S : x >= k => x >= j
    BY <1>3, <2>1
  <2>3. After(k) \in SUBSET After(j)
    BY <2>2
  <2> HIDE DEF After
  <2>4. /\ Cardinality(After(k)) <= Cardinality(After(j))
        /\ Cardinality(After(k)) # Cardinality(After(j))
    BY <1>1, <2>1, <2>3, FS_Subset
  <2>5. place[j] = Cardinality(After(j)) /\ place[k] = Cardinality(After(k))
    BY DEF place
  <2> QED
    BY <1>1, <2>4, <2>5
<1>4. N \in Nat
    BY FS_CardinalityType
<1> HIDE DEF place, N
<1>5. place \in Injection(S, 1..N)
  <2>1. place \in [S -> 1..N]
    BY <1>2 DEF place
  <2>2. \A j, k \in S : j # k => place[j] # place[k]
    BY <1>2, <1>3
  <2> QED
    BY <2>1, <2>2 DEF Injection, IsInjective
<1>6. IsFiniteSet(1..N) /\ Cardinality(1..N) = N
    BY <1>4, FS_Interval
<1>7. place \in Surjection(S, 1..N)
    BY <1>5, <1>6, FS_Injection DEF N
<1>8. T = {j \in S : place[j] <= n} /\ n < place[i]
  <2>1. \A j \in S : place[j] \in Int /\ 0 < place[j]
    BY <1>2, <1>4
  <2>2. \A j \in S : j \in T <=> place[j] <= n
    BY <1>2, <2>1
  <2>3. T \subseteq S
    OBVIOUS
  <2>4. n < place[i]
    BY <2>1, <2>2
  <2>5. T = {j \in S : place[j] <= n}
    BY <2>2, <2>3, Zenon
  <2> QED
    BY <2>4, <2>5
<1>9. \A j \in T : i < j
    BY <1>2, <1>3, <1>8
<1>10. n <= N
    BY <1>2, <1>4, <1>8
<1> DEFINE first == [j \in T |-> place[j]]
<1>11. first \in Bijection(T, 1..n)
  <2>1. \A j \in T : place[j] \in 1..n
    BY <1>2, <1>4, <1>8
  <2>2. first \in [T -> 1..n]
    BY <2>1
  <2>3. \A j, k \in T : first[j] = first[k] => j = k
    BY <1>5, <1>8 DEF Injection, IsInjective
  <2>4. ASSUME NEW m \in 1..n
        PROVE  \E j \in T : first[j] = m
    <3>1. m \in 1..N
        BY <1>4, <1>10
    <3>2. PICK j \in S : place[j] = m
        BY <1>7, <3>1 DEF Surjection
    <3> QED
        BY <1>8, <3>2
  <2> QED
    BY <2>2, <2>3, <2>4 DEF Bijection, Injection, IsInjective, Surjection
<1>12. IsFiniteSet(T)
    BY FS_Subset
<1>13. Cardinality(1..n) = n
    BY FS_Interval
<1>14. Cardinality(1..n) = Cardinality(T)
    BY <1>11, <1>12, FS_Bijection DEF ExistsBijection
<1> QED
    BY <1>9, <1>13, <1>14

(***************************************************************************)
(* The reader turns the page.                                              *)
(***************************************************************************)
\* With the rows, what is known of the requests stays.
LEMMA FetchesKept ==
    ASSUME rows' = rows, NEW f, FetchRight(f)
    PROVE  FetchRight(f)'
BY DEF FetchRight, ExportRight, Matching

LEMMA SentKept ==
    ASSUME LogInv, rows' = rows, NEW f, FetchRight(f), fetches' = fetches (+) SetToBag({f})
    PROVE  \A g \in DOMAIN fetches' : FetchRight(g)'
<1>1. DOMAIN fetches' = DOMAIN fetches \cup {f}
    BY AddedRequests
<1>2. \A g \in DOMAIN fetches' : FetchRight(g)
    BY <1>1 DEF LogInv
<1> QED
    BY <1>2, FetchesKept

\* A waiting reader knows no request.
LEMMA WaitingReader ==
    ASSUME NEW r, ReaderRight(r), Idle
    PROVE  Covers(r, r.seen, state.page)
BY OneRequest, EmptyBagDomain DEF ReaderRight, Idle

LEMMA FetchInv ==
    ASSUME LogInv, NEW filter, NEW next \in [page : Nat \ {0}, sortDir : {"ASC", "DESC"}],
           NEW restart \in BOOLEAN, FetchLogs(filter, next, restart),
           restart => next.page = 1,
           ~restart => next.sortDir = state.sortDir /\ next.page - 1 <= state.page
    PROVE  LogInv'
<1> DEFINE f == ListFetch(filter, next)
<1>1. rows' = rows /\ state' = next /\ fetches' = fetches (+) SetToBag({f})
    BY DEF FetchLogs, Sends
<1>2. FetchRight(f) /\ f.kind = "list" /\ f.phase = "sent" /\ f.filter = filter
        /\ f.page = next.page /\ f.sortDir = next.sortDir /\ f.limit = PageLimit
    BY DEF FetchRight, ListFetch
<1> HIDE DEF f
<1>3. \A g \in DOMAIN fetches' : FetchRight(g)'
    BY <1>1, <1>2, SentKept
<1>4. Idle => fetches' = SetToBag({f})
    BY <1>1, OneRequest DEF Idle
<1>5. \A r : PageRight(r, f)' <=> r.filter = filter /\ Covers(r, r.seen, next.page - 1)'
    BY <1>1, <1>2 DEF PageRight
<1>6. ASSUME Idle, restart, NEW r,
             r = [filter |-> filter, present |-> Matching(filter), seen |-> {}, ended |-> FALSE]
      PROVE  ReaderRight(r)'
  <2>1. next.page - 1 = 0 /\ (next.page - 1) * PageLimit = 0
    BY <1>6, AuditLogAssumption
  <2>2. \A i \in Matching(filter) : Place(Matching(filter), next.sortDir, i) \in Nat \ {0}
    BY MatchingFinite, PlacePositive DEF LogInv
  <2>3. Covers(r, r.seen, next.page - 1)'
    BY <1>1, <1>6, <2>1, <2>2 DEF Covers, Matching
  <2>4. PageRight(r, f)'
    BY <1>5, <1>6, <2>3
  <2> QED
    BY <1>1, <1>4, <1>6, <2>4 DEF ReaderRight, Matching
<1>7. ASSUME Idle, ~restart, NEW q \in reading, q.filter = filter, NEW r,
             r = [q EXCEPT !.ended = FALSE]
      PROVE  ReaderRight(r)'
  <2>1. ReaderRight(q) /\ Covers(q, q.seen, state.page)
    BY <1>7, WaitingReader DEF LogInv
  <2>2. r.filter = q.filter /\ r.present = q.present /\ r.seen = q.seen /\ ~r.ended
        /\ {"filter", "present", "seen", "ended"} \subseteq DOMAIN r
    BY <1>7, <2>1 DEF ReaderRight
  <2>3. /\ (next.page - 1) * PageLimit <= state.page * PageLimit
        /\ (next.page - 1) * PageLimit \in Int /\ state.page * PageLimit \in Int
    BY <1>7, Products DEF LogInv
  <2>4. \A i \in q.present : Place(Matching(filter), state.sortDir, i) \in Nat
    BY MatchingFinite, PlaceGrows DEF LogInv
  <2>5. Covers(r, r.seen, next.page - 1)'
    <3>1. \A i \in r.present :
              Place(Matching(filter), state.sortDir, i) <= (next.page - 1) * PageLimit
                  => i \in r.seen
        BY <1>7, <2>1, <2>2, <2>3, <2>4 DEF Covers
    <3>2. Matching(r.filter)' = Matching(filter) /\ state'.sortDir = state.sortDir
        BY <1>1, <1>7, <2>2 DEF Matching
    <3> QED
        BY <3>1, <3>2 DEF Covers, Place
  <2>6. PageRight(r, f)'
    BY <1>5, <1>7, <2>2, <2>5
  <2> QED
    BY <1>1, <1>4, <1>7, <2>1, <2>2, <2>6 DEF ReaderRight, Matching
<1>8. \A r \in reading' : ReaderRight(r)'
    BY <1>6, <1>7 DEF FetchLogs
<1> QED
    BY <1>1, <1>3, <1>8 DEF LogInv

LEMMA ListInv ==
    ASSUME LogInv, NEW filter,
           ReloadLogs(filter) \/ PrevPage(filter) \/ NextPage(filter) \/ SortClicked(filter)
    PROVE  LogInv'
<1>1. state \in [page : Nat \ {0}, sortDir : {"ASC", "DESC"}]
    BY DEF LogInv
<1>2. CASE ReloadLogs(filter)
  <2> DEFINE next == [state EXCEPT !.page = 1]
  <2>1. FetchLogs(filter, next, TRUE)
    BY <1>2 DEF ReloadLogs
  <2>2. next \in [page : Nat \ {0}, sortDir : {"ASC", "DESC"}] /\ next.page = 1
    BY <1>1, <1>2 DEF ReloadLogs
  <2> HIDE DEF next
  <2> QED
    BY <2>1, <2>2, FetchInv
<1>3. CASE PrevPage(filter)
  <2> DEFINE next == [state EXCEPT !.page = @ - 1]
  <2>1. FetchLogs(filter, next, FALSE)
    BY <1>3 DEF PrevPage
  <2>2. /\ next \in [page : Nat \ {0}, sortDir : {"ASC", "DESC"}]
        /\ next.sortDir = state.sortDir /\ next.page - 1 <= state.page
    BY <1>1, <1>3 DEF PrevPage
  <2> HIDE DEF next
  <2> QED
    BY <2>1, <2>2, FetchInv
<1>4. CASE NextPage(filter)
  <2> DEFINE next == [state EXCEPT !.page = @ + 1]
  <2>1. FetchLogs(filter, next, FALSE)
    BY <1>4 DEF NextPage
  <2>2. /\ next \in [page : Nat \ {0}, sortDir : {"ASC", "DESC"}]
        /\ next.sortDir = state.sortDir /\ next.page - 1 <= state.page
    BY <1>1, <1>4 DEF NextPage
  <2> HIDE DEF next
  <2> QED
    BY <2>1, <2>2, FetchInv
<1>5. CASE SortClicked(filter)
  <2> DEFINE next == [page |-> 1, sortDir |-> IF state.sortDir = "ASC" THEN "DESC" ELSE "ASC"]
  <2>1. FetchLogs(filter, next, TRUE)
    BY <1>5 DEF SortClicked
  <2>2. next \in [page : Nat \ {0}, sortDir : {"ASC", "DESC"}] /\ next.page = 1
    OBVIOUS
  <2> HIDE DEF next
  <2> QED
    BY <2>1, <2>2, FetchInv
<1> QED
    BY <1>2, <1>3, <1>4, <1>5

LEMMA ExportInv ==
    ASSUME LogInv, Export
    PROVE  LogInv'
<1> DEFINE f == [kind |-> "export", phase |-> "sent", filter |-> link, page |-> 1,
                 sortDir |-> "DESC", limit |-> ExportLimit, present |-> Matching(link),
                 total |-> 0]
<1>1. rows' = rows /\ state' = state /\ reading' = {} /\ fetches' = fetches (+) SetToBag({f})
    BY DEF Export, Sends, logPage
<1>2. FetchRight(f)
    BY DEF FetchRight, ExportRight
<1> HIDE DEF f
<1>3. \A g \in DOMAIN fetches' : FetchRight(g)'
    BY <1>1, <1>2, SentKept
<1> QED
    BY <1>1, <1>3 DEF LogInv

LEMMA FailInv ==
    ASSUME LogInv, NEW f, Fails(f)
    PROVE  LogInv'
<1>1. rows' = rows /\ state' = state /\ reading' = {} /\ DOMAIN fetches' \subseteq DOMAIN fetches
    BY RemainingRequests DEF Fails, logPage
<1>2. \A g \in DOMAIN fetches' : FetchRight(g)'
    BY <1>1, FetchesKept DEF LogInv
<1> QED
    BY <1>1, <1>2 DEF LogInv

LEMMA RecordInv ==
    ASSUME LogInv, NEW action \in Actions, RecordAuditLog(action)
    PROVE  LogInv'
<1>1. rows' = Append(rows, action) /\ UNCHANGED <<state, fetches, reading>> /\ rows \in Seq(Actions)
    BY DEF RecordAuditLog, logPage, LogInv
<1>2. \A filter : Matching(filter) \subseteq Matching(filter)'
    BY <1>1, MatchingGrows
<1>3. ASSUME NEW f, FetchRight(f)
      PROVE  FetchRight(f)'
    BY <1>2, <1>3 DEF FetchRight, ExportRight
<1>4. state.page \in Int /\ state.page - 1 \in Int /\ state.page \in Nat
    BY DEF LogInv
<1>5. ASSUME NEW r, NEW seen, NEW pages \in Int, Covers(r, seen, pages)
      PROVE  Covers(r, seen, pages)'
    BY <1>1, <1>4, <1>5, CoversKept
<1>6. ASSUME NEW r, NEW f, PageRight(r, f)
      PROVE  PageRight(r, f)'
    BY <1>1, <1>4, <1>5, <1>6 DEF PageRight, OnLastPage
<1>7. ASSUME NEW r \in reading
      PROVE  ReaderRight(r)'
    BY <1>1, <1>2, <1>4, <1>5, <1>6 DEF LogInv, ReaderRight, Idle
<1> QED
    BY <1>1, <1>3, <1>7 DEF LogInv

(***************************************************************************)
(* The queries.                                                            *)
(***************************************************************************)
\* A request goes on: what is known of it must hold of its next form.
LEMMA BecomesInv ==
    ASSUME LogInv, NEW f \in DOMAIN fetches, NEW g, Becomes(f, g), FetchRight(g),
           UNCHANGED <<rows, state, reading>>,
           \A r \in reading : PageRight(r, f) => PageRight(r, g)
    PROVE  LogInv'
<1>1. DOMAIN fetches' \subseteq DOMAIN fetches \cup {g}
  <2> DEFINE others == fetches (-) SetToBag({f})
  <2>1. fetches' = others (+) SetToBag({g})
    BY DEF Becomes
  <2>2. DOMAIN others \subseteq DOMAIN fetches
    BY RemainingRequests
  <2> HIDE DEF others
  <2>3. DOMAIN fetches' = DOMAIN others \cup {g}
    BY <2>1, AddedRequests
  <2> QED
    BY <2>2, <2>3
<1>2. \A h \in DOMAIN fetches' : FetchRight(h)
    BY <1>1 DEF LogInv
<1>3. \A h \in DOMAIN fetches' : FetchRight(h)'
    BY <1>2, FetchesKept
<1>4. \A r, h : PageRight(r, h) => PageRight(r, h)'
    BY DEF PageRight, Covers, OnLastPage, Matching
<1>5. ASSUME NEW r \in reading
      PROVE  ReaderRight(r)'
  <2>1. ReaderRight(r)
    BY DEF LogInv
  <2>2. ~Idle
    BY EmptyBagDomain DEF Idle
  <2>3. PICK h : fetches = SetToBag({h}) /\ PageRight(r, h)
    BY <2>1, <2>2 DEF ReaderRight
  <2>4. h = f
    BY <2>3, OneRequest
  <2>5. fetches' = SetToBag({g})
    BY <2>3, <2>4, OneRequest DEF Becomes
  <2>6. PageRight(r, g)'
    BY <1>4, <2>3, <2>4
  <2> QED
    BY <2>1, <2>5, <2>6 DEF ReaderRight, Matching
<1> QED
    BY <1>3, <1>5 DEF LogInv

LEMMA CountInv ==
    ASSUME LogInv, NEW f \in DOMAIN fetches, Count(f)
    PROVE  LogInv'
<1> DEFINE g == [f EXCEPT !.phase = "counted", !.total = Cardinality(Matching(f.filter))]
<1>1. UNCHANGED <<rows, state, reading>> /\ f.phase = "sent" /\ Becomes(f, g)
    BY DEF Count, logPage
<1>2. FetchRight(f)
    BY DEF LogInv
<1>3. /\ {"kind", "phase", "present", "filter", "page", "sortDir", "limit", "total"}
            \subseteq DOMAIN g
      /\ g.phase = "counted"
      /\ g.kind = f.kind /\ g.present = f.present /\ g.filter = f.filter /\ g.page = f.page
      /\ g.sortDir = f.sortDir /\ g.limit = f.limit
    BY <1>1, <1>2 DEF FetchRight
<1> HIDE DEF g
<1>4. FetchRight(g)
    BY <1>1, <1>2, <1>3 DEF FetchRight, ExportRight
<1>5. \A r : PageRight(r, f) => PageRight(r, g)
    BY <1>1, <1>3 DEF PageRight
<1> QED
    BY <1>1, <1>4, <1>5, BecomesInv

LEMMA ExportSelected ==
    ASSUME LogInv, NEW f, FetchRight(f), f.kind = "export", f.phase = "counted"
    PROVE  \A i \in f.present \ Selection(f) :
               Cardinality(Selection(f)) = ExportLimit /\ \A j \in Selection(f) : i < j
<1> DEFINE S == Matching(f.filter)
           T == Selection(f)
<1>1. /\ f.page = 1 /\ f.sortDir = "DESC" /\ f.limit = ExportLimit
      /\ f.present \subseteq S
    BY DEF FetchRight, ExportRight
<1>2. T = {j \in S : 0 < Place(S, "DESC", j) /\ Place(S, "DESC", j) <= ExportLimit}
    BY <1>1, SelectedExport
<1>3. IsFiniteSet(S) /\ S \subseteq Nat /\ ExportLimit \in Nat
    BY MatchingFinite, AuditLogAssumption DEF LogInv
<1> HIDE DEF S, T
<1>4. \A i \in S : i \notin T => Cardinality(T) = ExportLimit /\ \A j \in T : i < j
    BY <1>2, <1>3, NewestRows
<1> QED
    BY <1>1, <1>4 DEF T

\* The page a waiting reader gets continues what the reader has seen.
LEMMA PageSelected ==
    ASSUME LogInv, NEW r \in reading, NEW f, PageRight(r, f), f.phase = "counted"
    PROVE  Covers(r, r.seen \cup Selection(f), state.page)
<1> DEFINE S        == Matching(f.filter)
           place(i) == Place(S, f.sortDir, i)
           L        == PageLimit
<1>1. /\ f.kind = "list" /\ f.limit = PageLimit /\ f.page = state.page
      /\ f.filter = r.filter /\ f.sortDir = state.sortDir
      /\ Covers(r, r.seen, state.page - 1)
    BY DEF PageRight
<1>2. state.page \in Nat \ {0}
    BY DEF LogInv
<1>3. Selection(f) = {i \in S : (f.page - 1) * L < place(i) /\ place(i) <= f.page * L}
    BY <1>1, <1>2, SelectedPage
<1>4. r.present \subseteq S
    BY <1>1 DEF LogInv, ReaderRight
<1>5. \A i \in S : place(i) \in Nat
    BY MatchingFinite, PlaceGrows DEF LogInv
<1>6. (f.page - 1) * L \in Int /\ f.page * L \in Int
    BY <1>1, <1>2, Products
<1>7. \A i \in r.present : place(i) <= (f.page - 1) * L => i \in r.seen
    BY <1>1 DEF Covers
<1>8. ASSUME NEW i \in r.present, place(i) <= f.page * L
      PROVE  i \in r.seen \cup Selection(f)
  <2>1. place(i) \in Nat /\ i \in S
    BY <1>4, <1>5
  <2>2. CASE place(i) <= (f.page - 1) * L
    BY <1>7, <2>2
  <2>3. CASE (f.page - 1) * L < place(i)
    BY <1>3, <1>8, <2>1, <2>3
  <2> HIDE DEF place
  <2> QED
    BY <1>6, <2>1, <2>2, <2>3
<1> QED
    BY <1>1, <1>8 DEF Covers

\* No row came between the two statements: the last page completes the list.
LEMMA LastPageSelected ==
    ASSUME LogInv, NEW r \in reading, NEW f, PageRight(r, f), f.phase = "counted", OnLastPage(f),
           f.total = Cardinality(Matching(f.filter))
    PROVE  r.present \subseteq r.seen \cup Selection(f)
<1> DEFINE S == Matching(f.filter)
<1>1. f.filter = r.filter
    BY DEF PageRight
<1>2. IsFiniteSet(S) /\ r.present \subseteq S
    BY <1>1, MatchingFinite DEF LogInv, ReaderRight
<1>3. state.page \in Nat
    BY DEF LogInv
<1> HIDE DEF S
<1>4. \A i : Place(S, state.sortDir, i) \in Nat /\ Place(S, state.sortDir, i) <= Cardinality(S)
        /\ Cardinality(S) \in Nat
    BY <1>2, PlaceGrows
<1>5. f.total = Cardinality(S) /\ Cardinality(S) <= state.page * PageLimit
    BY <1>3, <1>4, LastPageHoldsAll DEF S
<1>6. state.page * PageLimit \in Int
    BY <1>3, AuditLogAssumption
<1>7. \A i : Place(S, state.sortDir, i) <= state.page * PageLimit
    BY <1>4, <1>5, <1>6
<1> QED
    BY <1>1, <1>7, PageSelected DEF Covers, S

LEMMA SelectInv ==
    ASSUME LogInv, NEW f \in DOMAIN fetches, Select(f)
    PROVE  LogInv'
<1> DEFINE g == [kind |-> f.kind, phase |-> "answered", rows |-> Selection(f),
                 total |-> f.total, present |-> f.present,
                 overtaken |-> f.total # Cardinality(Matching(f.filter))]
<1>1. UNCHANGED <<rows, state, reading>> /\ f.phase = "counted" /\ Becomes(f, g)
    BY DEF Select, logPage
<1>2. FetchRight(f)
    BY DEF LogInv
<1>3. /\ {"kind", "phase", "present"} \subseteq DOMAIN g
      /\ g.kind = f.kind /\ g.phase = "answered" /\ g.present = f.present
      /\ g.rows = Selection(f) /\ g.total = f.total
      /\ g.overtaken <=> f.total # Cardinality(Matching(f.filter))
    OBVIOUS
<1> HIDE DEF g
<1>4. FetchRight(g)
    BY <1>1, <1>2, <1>3, ExportSelected DEF FetchRight, ExportRight
<1>5. ASSUME NEW r \in reading, PageRight(r, f)
      PROVE  PageRight(r, g)
  <2>1. f.kind = "list" /\ Covers(r, r.seen \cup g.rows, state.page)
    BY <1>1, <1>3, <1>5, PageSelected DEF PageRight
  <2>2. OnLastPage(g) /\ ~g.overtaken => r.present \subseteq r.seen \cup g.rows
    BY <1>1, <1>3, <1>5, LastPageSelected DEF OnLastPage
  <2> QED
    BY <1>3, <2>1, <2>2 DEF PageRight
<1> QED
    BY <1>1, <1>4, <1>5, BecomesInv

LEMMA ReceiveInv ==
    ASSUME LogInv, NEW f \in DOMAIN fetches, Receive(f)
    PROVE  LogInv'
<1>1. /\ rows' = rows /\ state' = state /\ fetches' = fetches (-) SetToBag({f})
      /\ f.phase = "answered"
    BY DEF Receive, logPage
<1>2. DOMAIN fetches' \subseteq DOMAIN fetches
    BY <1>1, RemainingRequests
<1>3. \A g \in DOMAIN fetches' : FetchRight(g)'
    BY <1>1, <1>2, FetchesKept DEF LogInv
<1>4. ASSUME NEW q \in reading
      PROVE  fetches' = EmptyBag /\ PageRight(q, f)
  <2>1. ReaderRight(q) /\ ~Idle
    BY EmptyBagDomain DEF LogInv, Idle
  <2>2. PICK h : fetches = SetToBag({h}) /\ PageRight(q, h)
    BY <2>1 DEF ReaderRight
  <2>3. h = f
    BY <2>2, OneRequest
  <2> QED
    BY <1>1, <2>2, <2>3, OneRequest
<1>5. ASSUME NEW q \in reading, NEW r, f.kind = "list",
             r = [q EXCEPT !.seen  = q.seen \cup f.rows,
                           !.ended = OnLastPage(f) /\ ~f.overtaken]
      PROVE  ReaderRight(r)'
  <2>1. ReaderRight(q) /\ PageRight(q, f) /\ fetches' = EmptyBag
    BY <1>4 DEF LogInv
  <2>2. /\ {"filter", "present", "seen", "ended"} \subseteq DOMAIN r
        /\ r.filter = q.filter /\ r.present = q.present /\ r.seen = q.seen \cup f.rows
        /\ r.ended <=> OnLastPage(f) /\ ~f.overtaken
    BY <1>5, <2>1 DEF ReaderRight
  <2>3. Covers(q, r.seen, state.page) /\ (r.ended => r.present \subseteq r.seen)
    BY <1>1, <2>1, <2>2 DEF PageRight
  <2>4. Covers(r, r.seen, state.page)'
    BY <1>1, <2>2, <2>3 DEF Covers, Matching
  <2> QED
    BY <1>1, <2>1, <2>2, <2>3, <2>4 DEF ReaderRight, Matching, Idle
<1>6. CASE Show(f)
    BY <1>1, <1>3, <1>5, <1>6 DEF Show, LogInv
<1>7. CASE Download(f)
  <2>1. f.kind = "export" /\ reading' = reading
    BY <1>7 DEF Download
  <2>2. reading = {}
    BY <1>4, <2>1 DEF PageRight
  <2> QED
    BY <1>1, <1>3, <2>1, <2>2 DEF LogInv
<1> QED
    BY <1>6, <1>7 DEF Receive

LEMMA LogInitially ==
    ASSUME LogInit
    PROVE  LogInv
<1> DEFINE f == ListFetch(link, state)
<1>1. FetchRight(f)
    BY DEF FetchRight, ListFetch
<1>2. DOMAIN fetches = {f}
    BY OneRequest DEF LogInit
<1> HIDE DEF f
<1> QED
    BY <1>1, <1>2 DEF LogInit, LogInv

LEMMA LogInvariant == LogSpec => []LogInv
<1>1. LogInit => LogInv
    BY LogInitially
<1>2. LogInv /\ [LogNext]_logVars => LogInv'
  <2> SUFFICES ASSUME LogInv, [LogNext]_logVars PROVE LogInv'
    OBVIOUS
  <2>1. CASE UNCHANGED logVars
    <3>1. UNCHANGED <<rows, state, fetches, reading>>
      BY <2>1 DEF logVars, logPage
    <3>2. \A f : FetchRight(f) => FetchRight(f)'
      BY <3>1, FetchesKept
    <3>3. \A r : ReaderRight(r) => ReaderRight(r)'
      BY <3>1 DEF ReaderRight, PageRight, Covers, OnLastPage, Matching, Idle
    <3> QED
      BY <3>1, <3>2, <3>3 DEF LogInv
  <2>2. CASE LogNext
    BY <2>2, ListInv, ExportInv, RecordInv, CountInv, SelectInv, FailInv, ReceiveInv DEF LogNext
  <2> QED
    BY <2>1, <2>2
<1> QED
    BY <1>1, <1>2, PTL DEF LogSpec

\* getLogs counts and selects in two statements, and OFFSET counts from a start
\* that recordAuditLog moves.  Whoever turns the pages one after the other till
\* the label says it is the last has nevertheless seen every row there was in
\* the beginning, with any filter, length of page, order and number of rows.
THEOREM ReadersMissNoRow == LogSpec => []PagesShowEveryRow
<1>1. LogInv => PagesShowEveryRow
    BY DEF LogInv, ReaderRight, PagesShowEveryRow
<1> QED
    BY <1>1, LogInvariant, PTL

\* An export of getLogsForExport holds every row there was when it was asked
\* for, or as many as its limit allows and then the newest of them.
THEOREM ExportsAreWhole == LogSpec => []ExportIsWhole
<1>1. LogInv => ExportIsWhole
    BY DEF LogInv, FetchRight, ExportRight, ExportIsWhole
<1> QED
    BY <1>1, LogInvariant, PTL
=============================================================================
