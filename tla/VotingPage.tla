----------------------------- MODULE VotingPage -----------------------------
(***************************************************************************)
(* public/script.js in one browser, the sessions of server.js that its     *)
(* requests use, and the login and vote handlers as far as they read and   *)
(* write a session.  What castVote does to the tables is in VotingService  *)
(* in full; here it is one step that stores a vote or not.                 *)
(*                                                                         *)
(* express-session (resave false, saveUninitialized true): a request gets  *)
(* a COPY of the stored session its cookie names, or a new session when    *)
(* there is none, and writes the whole copy back before it is answered if  *)
(* the copy is new or has changed.  Requests of one browser overlap, and   *)
(* reach the server in any order.                                          *)
(***************************************************************************)
EXTENDS Naturals, Functions

CONSTANTS NULL,
          Users,        \* the voters, who share the browser
          Candidates,   \* candidates on the page
          Kinds,        \* which requests the browser sends
          MaxRequests,  \* bound: requests sent
          MaxReloads,   \* bound: times the page is loaded again
          MaxCrashes    \* bound: times the server process is killed

SessionChanging == {"login", "adminLogin", "adminLogout"}

ASSUME PageAssumption ==
    /\ Kinds \subseteq SessionChanging \cup {"vote", "logout", "read"}
    /\ MaxRequests \in Nat /\ MaxReloads \in Nat /\ MaxCrashes \in Nat
    /\ NULL \notin Users \cup Candidates /\ NULL \notin Nat

VARIABLES currentUser,  \* who the page shows, with the page's sudah_vote
          dialog,       \* the vote waiting for `Ya, Pilih Ini`
          receipt,      \* whom the confirmation overlay names, if it is shown
          reloads,      \* times the page was loaded again
          cookie,       \* the session id the browser sends
          requests,     \* requests under way, with their handlers' state
          sent,         \* requests sent so far, which are numbered
          store,        \* table sessions: from ids to sessions
          timers,       \* ids whose destruction after a vote is pending
          voted,        \* users whose sudah_vote is set in the table
          votes,        \* votes stored, each with the user the page showed
          crashes,      \* times the process was killed
          told,         \* history: sessions of voters told `Voting berhasil`
          ended,        \* history: sessions destroyed, by a logout or a timer
          undercut,     \* history: one was, under a request that had loaded it
          overlapped    \* history: a login has overlapped another or a vote on its way

page   == <<currentUser, dialog, receipt, reloads>>
tables == <<voted, votes>>
past   == <<told, ended, undercut, overlapped>>

pageVars == <<page, cookie, requests, sent, store, timers, tables, crashes, past>>

\* Ids: 0 of the page's first load, else the request that was given the session.
NewSession == [user |-> NULL, sudah_vote |-> FALSE, admin |-> FALSE]

PageInit ==
    /\ currentUser = NULL /\ dialog = NULL /\ receipt = NULL
    /\ reloads = 0
    /\ cookie = 0
    /\ requests = <<>> /\ sent = 0
    /\ store = [s \in {0} |-> NewSession]
    /\ timers = {}
    /\ voted = {} /\ votes = {}
    /\ crashes = 0
    /\ told = {} /\ ended = {}
    /\ undercut = FALSE /\ overlapped = FALSE

(***************************************************************************)
(* The browser.                                                            *)
(***************************************************************************)
\* A function with a value set or added, and with one removed.
Extended(f, x, value) == [y \in DOMAIN f \cup {x} |-> IF y = x THEN value ELSE f[y]]

Without(f, x) == Restrict(f, DOMAIN f \ {x})

\* A login is not finished, or a vote has not reached the server.
LoginInTheWay ==
    \E r \in DOMAIN requests :
        \/ requests[r].kind \in SessionChanging
        \/ requests[r].kind = "vote" /\ requests[r].phase = "sent"

Send(kind, user, candidate) ==
    /\ kind \in Kinds
    /\ sent < MaxRequests
    /\ sent' = sent + 1
    /\ requests' = Extended(requests, sent',
           [kind |-> kind, user |-> user, candidate |-> candidate, cookie |-> cookie,
            awaited |-> TRUE, phase |-> "sent", id |-> NULL, loaded |-> NULL,
            session |-> NULL, flagged |-> FALSE, outcome |-> NULL])
    /\ overlapped' = (overlapped \/ (kind \in SessionChanging /\ LoginInTheWay))

ServerUnchanged == UNCHANGED <<store, timers, tables, crashes, told, ended, undercut>>

NoOverlay == dialog = NULL /\ receipt = NULL

\* The form of the login screen.
Login(u) ==
    /\ currentUser = NULL /\ NoOverlay
    /\ Send("login", u, NULL)
    /\ UNCHANGED <<page, cookie>> /\ ServerUnchanged

Logout ==
    /\ currentUser # NULL /\ NoOverlay
    /\ Send("logout", NULL, NULL)
    /\ UNCHANGED <<page, cookie>> /\ ServerUnchanged

\* A click on a candidate's card opens the dialog over the page.
Vote(c) ==
    /\ currentUser # NULL /\ NoOverlay
    /\ ~currentUser.sudah_vote
    /\ dialog' = [candidate |-> c, shown |-> currentUser.id]
    /\ UNCHANGED <<currentUser, receipt, reloads, cookie, requests, sent, overlapped>>
    /\ ServerUnchanged

Confirmed ==
    /\ dialog # NULL
    /\ dialog' = NULL
    /\ \/ Send("vote", dialog.shown, dialog.candidate)
       \/ UNCHANGED <<requests, sent, overlapped>>
    /\ UNCHANGED <<currentUser, receipt, reloads, cookie>> /\ ServerUnchanged

TutupKonfirmasi ==
    /\ receipt # NULL
    /\ receipt' = NULL
    /\ Send("logout", NULL, NULL)
    /\ UNCHANGED <<currentUser, dialog, reloads, cookie>> /\ ServerUnchanged

\* A reload forgets who was logged in and what was asked; the server and the
\* cookie do not.
Reload ==
    /\ reloads < MaxReloads
    /\ reloads' = reloads + 1
    /\ requests' = [r \in {r \in DOMAIN requests : requests[r].phase # "answered"} |->
                       [requests[r] EXCEPT !.awaited = FALSE]]
    /\ currentUser' = NULL /\ dialog' = NULL /\ receipt' = NULL
    /\ UNCHANGED <<cookie, sent, overlapped>> /\ ServerUnchanged

\* admin.html in another tab has the same cookie; and either page reads lists,
\* results and the state of the chain now and then.
OtherRequest ==
    /\ \E kind \in {"adminLogin", "adminLogout", "read"} : Send(kind, NULL, NULL)
    /\ UNCHANGED <<page, cookie>> /\ ServerUnchanged

(***************************************************************************)
(* The server: a request loads its session, works, and is answered.        *)
(***************************************************************************)
BrowserUnchanged == UNCHANGED <<page, cookie, sent>>

Begin(r) ==
    /\ requests[r].phase = "sent"
    /\ LET sid     == requests[r].cookie
           known   == sid \in DOMAIN store
           session == IF known THEN store[sid] ELSE NewSession
       IN  requests' = [requests EXCEPT
               ![r].phase   = "begun",
               ![r].cookie  = NULL,
               ![r].id      = IF known THEN sid ELSE r,
               ![r].loaded  = IF known THEN session ELSE NULL,
               ![r].session = session,
               ![r].flagged = requests[r].kind = "vote" /\ session.user \in voted]
    /\ UNCHANGED <<store, timers, tables, crashes, past>> /\ BrowserUnchanged

\* castVote with a login and without the flag: the vote is stored, then the flag
\* is set and a block made, each of which may fail.  A vote may be refused for
\* many reasons, and is with the flag or without a login; then nothing happens.
CastVote(r) ==
    LET u == requests[r].session.user
    IN  /\ requests[r].kind = "vote" /\ requests[r].phase = "begun"
        /\ u # NULL /\ ~requests[r].flagged
        /\ votes' = votes \cup {[user |-> u, candidate |-> requests[r].candidate,
                                 shown |-> requests[r].user]}
        /\ \/ /\ voted' = voted \cup {u}
              /\ requests' = [requests EXCEPT ![r].phase = "voted", ![r].outcome = "berhasil",
                                              ![r].session.sudah_vote = TRUE]
           \/ /\ voted' \in {voted, voted \cup {u}}
              /\ requests' = [requests EXCEPT ![r].phase = "voted"]
        /\ UNCHANGED <<store, timers, crashes, past>> /\ BrowserUnchanged

\* What the handler has made of the session and what it answers.
Result(r) ==
    LET q == requests[r]
    IN  CASE q.kind = "login" ->
                 {[session |-> [user |-> q.user, sudah_vote |-> q.user \in voted,
                                admin |-> q.session.admin],
                   outcome |-> "ok"],
                  [session |-> q.session, outcome |-> NULL]}
          [] q.kind = "adminLogin" ->
                 {[session |-> [q.session EXCEPT !.admin = TRUE], outcome |-> NULL],
                  [session |-> q.session, outcome |-> NULL]}
          [] q.kind = "adminLogout" ->
                 {[session |-> [q.session EXCEPT !.admin = FALSE], outcome |-> NULL]}
          [] OTHER -> {[session |-> q.session, outcome |-> q.outcome]}

\* The session written back whether it has changed or not.
Saved_Always(r, session) ==
    Extended(store, requests[r].id, session)

\* The table after the request: the whole copy, if it is new or has changed.
Saved(r, session) ==
    IF session = requests[r].loaded
    THEN store ELSE Extended(store, requests[r].id, session)

\* No timer after a vote.
TimersAfter_None(r) == timers

\* Three seconds after a vote, and whatever the session is used for by then.
TimersAfter(r) ==
    IF requests[r].outcome = "berhasil" THEN timers \cup {requests[r].id} ELSE timers

\* What the answer carries: the cookie of a new session and, after a login,
\* the user's sudah_vote.  After a reload nobody waits for it.
Answer(r, id, sudah_vote, outcome) ==
    [kind |-> requests[r].kind, user |-> requests[r].user,
     candidate |-> requests[r].candidate, phase |-> "answered",
     id |-> IF id = r THEN r ELSE NULL, sudah_vote |-> sudah_vote, outcome |-> outcome]

\* A refusal only makes the page say so.
Matters(answer) == answer.id # NULL \/ answer.outcome # NULL \/ answer.kind = "logout"

Finish(r, answer) ==
    IF requests[r].awaited /\ Matters(answer)
    THEN Extended(requests, r, answer) ELSE Without(requests, r)

Answered(r) ==
    /\ requests[r].phase \in {"begun", "voted"} /\ requests[r].kind # "logout"
    /\ \E result \in Result(r) :
          /\ store' = Saved(r, result.session)
          /\ requests' = Finish(r, Answer(r, requests[r].id,
                 IF requests[r].kind = "login" THEN result.session.sudah_vote ELSE NULL,
                 result.outcome))
    /\ timers' = TimersAfter(r)
    /\ told' = told \cup {requests[r].id : o \in {requests[r].outcome} \cap {"berhasil"}}
    /\ UNCHANGED <<tables, crashes, ended, undercut, overlapped>> /\ BrowserUnchanged

\* The user taken out of the session, which is kept.
AfterLogout_Kept(r) == Saved(r, [requests[r].session EXCEPT !.user = NULL])

AfterLogout(r) == Without(store, requests[r].id)

Ends(sid, users) ==
    /\ ended' = ended \cup {sid}
    /\ undercut' = (undercut \/ \E o \in users :
           requests[o].phase \in {"begun", "voted"} /\ requests[o].id = sid)

LogoutAnswered(r) ==
    /\ requests[r].kind = "logout" /\ requests[r].phase = "begun"
    /\ store' = AfterLogout(r)
    /\ requests' = Finish(r, Answer(r, NULL, NULL, "ok"))
    /\ Ends(requests[r].id, DOMAIN requests \ {r})
    /\ UNCHANGED <<timers, tables, crashes, told, overlapped>> /\ BrowserUnchanged

TimerFires(sid) ==
    /\ sid \in timers
    /\ timers' = timers \ {sid}
    /\ store' = Without(store, sid)
    /\ Ends(sid, DOMAIN requests)
    /\ UNCHANGED <<requests, tables, crashes, told, overlapped>> /\ BrowserUnchanged

\* The page still gets this answer, or notices that there is none.
Waiting(r) ==
    \/ requests[r].phase = "answered"
    \/ (requests[r].kind = "logout" /\ requests[r].awaited)

\* Sessions are in a table: they outlive the process, its timers do not.  (A
\* kill with no timer pending, which loses answers alone, is left out.)
Crash ==
    /\ crashes < MaxCrashes
    /\ timers # {}
    /\ crashes' = crashes + 1
    /\ timers' = {}
    /\ requests' = [r \in {r \in DOMAIN requests : Waiting(r)} |->
           IF requests[r].phase = "answered" THEN requests[r] ELSE Answer(r, NULL, NULL, NULL)]
    /\ UNCHANGED <<store, tables, past>> /\ BrowserUnchanged

(***************************************************************************)
(* An answer reaches the page that asked for it.                           *)
(***************************************************************************)
Shows(kind, r) == requests[r].kind = kind /\ requests[r].outcome # NULL

\* The answer to a vote looks at who is shown by now; with nobody shown the
\* handler throws, and the page says that the vote could not be sent.
Display(r) ==
    \/ /\ Shows("login", r)
       /\ currentUser' = [id |-> requests[r].user,
                          sudah_vote |-> requests[r].sudah_vote]
       /\ UNCHANGED receipt
    \/ /\ Shows("vote", r) /\ currentUser # NULL
       /\ currentUser' = [currentUser EXCEPT !.sudah_vote = TRUE]
       /\ receipt' = [name |-> currentUser.id, candidate |-> requests[r].candidate]
    \/ /\ requests[r].kind = "logout"
       /\ currentUser' = NULL
       /\ UNCHANGED receipt
    \/ /\ ~Shows("login", r) /\ ~(Shows("vote", r) /\ currentUser # NULL)
       /\ requests[r].kind # "logout"
       /\ UNCHANGED <<currentUser, receipt>>

Deliver(r) ==
    /\ requests[r].phase = "answered"
    /\ requests' = Without(requests, r)
    /\ Display(r)
    /\ cookie' = IF requests[r].id = r THEN r ELSE cookie
    /\ UNCHANGED <<dialog, reloads, sent, overlapped>> /\ ServerUnchanged

Browser ==
    \/ \E u \in Users : Login(u)
    \/ \E c \in Candidates : Vote(c)
    \/ Logout \/ Confirmed \/ TutupKonfirmasi \/ Reload \/ OtherRequest

Handle(r) == Begin(r) \/ CastVote(r) \/ Answered(r) \/ LogoutAnswered(r) \/ Deliver(r)

PageNext ==
    \/ Browser
    \/ \E r \in DOMAIN requests : Handle(r)
    \/ \E sid \in timers : TimerFires(sid)
    \/ Crash

\* A pending timer fires: setTimeout, unless the process ends first.
PageSpec ==
    /\ PageInit /\ [][PageNext]_pageVars
    /\ \A sid \in 0..MaxRequests : WF_pageVars(TimerFires(sid))

(***************************************************************************)
(* Properties.                                                             *)
(***************************************************************************)
\* A shared browser and a page that only remembers who logged in: a vote that
\* is stored is stored for the voter the page showed when the candidate was
\* clicked, through reloads, late answers, timers of earlier voters, requests
\* that write an old session back, and crashes.  It takes that no login, of
\* voter or admin, is sent while another is going on or while a vote has not
\* yet loaded its session.
VoteIsOfTheShownUser ==
    ~overlapped => \A v \in votes : v.user = v.shown

\* A session that a logout or a timer destroys stays destroyed, whatever
\* cookies and requests are still under way, unless one of them had loaded it.
DestroyedForGood ==
    ~undercut => ended \cap DOMAIN store = {}

\* A voter who was told that the vote is in does not stay logged in: in the end
\* the sessions of such votes are gone, with the same exception, and unless the
\* process was killed before its timer fired.
VotedSessionEnds ==
    []<>(undercut \/ crashes > 0 \/ told \cap DOMAIN store = {})
=============================================================================
