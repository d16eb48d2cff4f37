---------------------------- MODULE ElectionWindow ----------------------------
(***************************************************************************)
(* When voting is possible and when candidates may change: the settings    *)
(* row with its schedule, the handlers that decide by it, and the election *)
(* page of public/admin.js that sets it.  A toggle is its two statements   *)
(* here, any other handler one step; how the statements of the others      *)
(* overlap is in ElectionServer and CandidateServer, for a row without a   *)
(* schedule.                                                               *)
(*                                                                         *)
(* The columns start_time and end_time, and the fields of the form, hold   *)
(* the hour a clock shows; instants are hours of UTC.  Server and browser  *)
(* are in one zone.                                                        *)
(***************************************************************************)
EXTENDS Integers, Bags, BagsExt

CONSTANTS Unset,      \* NULL of a column, and nothing yet on the page
          Zones,      \* hours a zone may be ahead of UTC
          Hours,      \* hours that are typed into the form
          SavedHours, \* bound: hours that are saved, typed or loaded
          MaxClock,   \* bound: hours that pass
          MaxToggles, \* bound: times the status is toggled
          MaxShifts,  \* bound: times a schedule is saved as it was loaded
          MaxPosts    \* bound: requests of administrators under way at a time

ASSUME WindowAssumption ==
    /\ Zones \cup SavedHours \subseteq Int /\ Hours \subseteq SavedHours
    /\ Unset \notin Int
    /\ {MaxClock, MaxToggles, MaxShifts, MaxPosts} \subseteq Nat

VARIABLES election, \* the settings row: is_open, start_time, end_time
          clock,    \* the hour of UTC
          zone,     \* of server and browser
          form,     \* startTime and endTime: the text and, as history, its origin
          badge,    \* the status shown, with the toggles it knows of, or Unset
          posts,    \* bag of requests under way
          toggles,  \* history: times the status was written
          origin,   \* history: of each time, the hour typed and the shifts since
          voting    \* history: a vote was accepted, the window is still that one

onPage     == <<form, badge, posts>>
windowVars == <<election, clock, zone, onPage, toggles, origin, voting>>

Fields == {"start_time", "end_time"}

(***************************************************************************)
(* Times.                                                                  *)
(***************************************************************************)
\* new Date(...) of a DATETIME, or of the text of a field.
Instant(hour) == hour - zone

\* What a field shows: toISOString().slice(0, 16), the hour of UTC without its Z.
ShownText(hour) == Instant(hour)

\* The text taken for an hour of UTC.
StoredHour_FromUTC(text) == text + zone

\* The text as the UPDATE gets it.
StoredHour(text) == text

(***************************************************************************)
(* Who goes by the row.                                                    *)
(***************************************************************************)
NotYetStarted == election.start_time # Unset /\ clock < Instant(election.start_time)

Over == election.end_time # Unset /\ clock > Instant(election.end_time)

\* castVote.
VotingAccepted == election.is_open /\ ~NotYetStarted /\ ~Over

\* A lock that goes by the status alone.
IsLedgerLocked_StatusOnly == election.is_open

\* The criterion of the candidate ledger, for what it forbids while voting.
IsLedgerLocked == election.is_open \/ (election.start_time # Unset /\ ~NotYetStarted)

VoteAccepted ==
    /\ VotingAccepted
    /\ voting' = TRUE
    /\ UNCHANGED <<election, clock, zone, onPage, toggles, origin>>

ClockTicks ==
    /\ clock < MaxClock
    /\ clock' = clock + 1
    /\ UNCHANGED <<election, zone, onPage, toggles, origin, voting>>

(***************************************************************************)
(* The page.                                                               *)
(***************************************************************************)
Posts(post) ==
    /\ BagCardinality(posts) < MaxPosts
    /\ posts' = BagAdd(posts, post)
    /\ UNCHANGED <<election, clock, zone, form, badge, toggles, origin, voting>>

\* The section is opened, perhaps once more.
LoadSettings == Posts([kind |-> "load", answer |-> Unset])

\* The button reads `Tutup Voting` or `Buka Voting`, and `Toggle` before the first
\* answer; what it sends is a toggle.
ToggleVoting == Posts([kind |-> "toggle", answer |-> Unset, read |-> Unset, badge |-> badge])

\* From another page, by another administrator; this page hears nothing of it.
ToggledElsewhere == Posts([kind |-> "elsewhere", answer |-> Unset, read |-> Unset])

\* Nothing in a field.
Blank == [text |-> Unset, hour |-> Unset, shifts |-> 0]

TypeTime(f, text) ==
    /\ form' = [form EXCEPT ![f] = [text |-> text, hour |-> text, shifts |-> 0]]
    /\ UNCHANGED <<election, clock, zone, badge, posts, toggles, origin, voting>>

SaveSchedule ==
    /\ \A f \in Fields : form[f].text \in SavedHours /\ form[f].shifts <= MaxShifts
    /\ Posts([kind |-> "schedule", answer |-> Unset, form |-> form])

\* What updateToggleUI makes of an answer: without is_open it reads closed.
ToldStatus(answer) ==
    IF "is_open" \in DOMAIN answer THEN [is_open |-> answer.is_open, seen |-> answer.seen]
                                   ELSE [is_open |-> FALSE, seen |-> Unset]

\* What loadSettings makes of an answer: without the time an empty field.
ToldField(answer, f) ==
    IF f \notin DOMAIN answer \/ answer[f] = Unset THEN Blank
    ELSE [text |-> ShownText(answer[f]), hour |-> answer.origin[f].hour,
          shifts |-> answer.origin[f].shifts + 1]

\* Answers arrive in any order, and a load overwrites what was typed meanwhile.
\* loadSettings does not look whether the answer is a refusal.
PostAnswered(post) ==
    LET answer == post.answer
    IN  /\ answer # Unset
        /\ posts' = BagRemove(posts, post)
        /\ badge' = ToldStatus(answer)
        /\ form'  = IF post.kind = "load" THEN [f \in Fields |-> ToldField(answer, f)] ELSE form
        /\ UNCHANGED <<election, clock, zone, toggles, origin, voting>>

\* The request or its answer is lost, or a toggle or a schedule is refused: the
\* page shows at most a message.
PostLost(post) ==
    /\ posts' = BagRemove(posts, post)
    /\ UNCHANGED <<election, clock, zone, form, badge, toggles, origin, voting>>

(***************************************************************************)
(* The handlers.                                                           *)
(***************************************************************************)
Answers(post, answer) == posts' = BagAdd(BagRemove(posts, post), [post EXCEPT !.answer = answer])

\* The answer is of no more consequence on the page than a message.
AnswersNothing(post) == posts' = BagRemove(posts, post)

\* What a load gets when the SELECT fails, or requireAdmin denies the access:
\* a message, and perhaps ok: false.
Refusal == [ok |-> FALSE]

\* result[0], with the history that goes with it.
Row == [is_open |-> election.is_open, start_time |-> election.start_time,
        end_time |-> election.end_time, seen |-> toggles, origin |-> origin]

GetSettings(post) ==
    /\ post.kind = "load"
    /\ Answers(post, Row) \/ Answers(post, Refusal)
    /\ UNCHANGED <<election, toggles, origin, voting>>

Toggles(post) == post.kind \in {"toggle", "elsewhere"}

\* The first statement of toggleElectionStatus.
SelectStatus(post) ==
    /\ Toggles(post)
    /\ post.read = Unset
    /\ posts' = BagAdd(BagRemove(posts, post),
                    [post EXCEPT !.read = [is_open |-> election.is_open, seen |-> toggles]])
    /\ UNCHANGED <<election, toggles, origin, voting>>

\* The answer to a toggle has the status there was.
ToggleAnswer_Old(was_open, n) == [is_open |-> was_open, seen |-> n]

ToggleAnswer(was_open, n) == [is_open |-> ~was_open, seen |-> n]

\* The second statement.  Closing an election leaves the window it was in,
\* unless that is scheduled.
UpdateStatus(post) ==
    /\ Toggles(post)
    /\ post.read # Unset
    /\ toggles < MaxToggles
    /\ toggles' = toggles + 1
    /\ election' = [election EXCEPT !.is_open = ~post.read.is_open]
    /\ voting' = (voting /\ (election'.is_open \/ election.start_time # Unset))
    /\ IF post.kind = "toggle" THEN Answers(post, ToggleAnswer(post.read.is_open, toggles'))
                               ELSE AnswersNothing(post)
    /\ UNCHANGED origin

UpdateSchedule(post) ==
    /\ post.kind = "schedule"
    /\ LET field(f) == post.form[f]
           accepted == Instant(field("start_time").text) < Instant(field("end_time").text)
       IN  /\ IF accepted
              THEN /\ election' = [election EXCEPT
                                      !.start_time = StoredHour(field("start_time").text),
                                      !.end_time   = StoredHour(field("end_time").text)]
                   /\ origin' = [f \in Fields |-> [hour |-> field(f).hour,
                                                   shifts |-> field(f).shifts]]
                   /\ voting' = FALSE
              ELSE UNCHANGED <<election, origin, voting>>
    /\ AnswersNothing(post)
    /\ UNCHANGED toggles

PostServed(post) ==
    /\ post.answer = Unset
    /\ \/ GetSettings(post) \/ SelectStatus(post) \/ UpdateStatus(post)
       \/ UpdateSchedule(post)
    /\ UNCHANGED <<clock, zone, form, badge>>

WindowInit ==
    /\ election = [is_open |-> FALSE, start_time |-> Unset, end_time |-> Unset]
    /\ clock = 0 /\ zone \in Zones
    /\ form = [f \in Fields |-> Blank]
    /\ badge = Unset /\ posts = EmptyBag
    /\ toggles = 0 /\ voting = FALSE
    /\ origin = [f \in Fields |-> [hour |-> Unset, shifts |-> 0]]

WindowNext ==
    \/ VoteAccepted \/ ClockTicks
    \/ LoadSettings \/ ToggleVoting \/ ToggledElsewhere \/ SaveSchedule
    \/ \E f \in Fields, text \in Hours : TypeTime(f, text)
    \/ \E post \in DOMAIN posts : PostServed(post) \/ PostAnswered(post) \/ PostLost(post)

WindowSpec == WindowInit /\ [][WindowNext]_windowVars

(***************************************************************************)
(* Properties.                                                             *)
(***************************************************************************)
\* Once a vote has been accepted no candidate changes until the window it fell
\* in is left: with a schedule by saving another one and in no other way, though
\* the election be closed and its end go by.
CandidatesFrozen == voting => IsLedgerLocked

\* The button sends a toggle, whatever it reads.  A click does the opposite only
\* when the page is behind: the status was written, by a click not yet answered
\* or by somebody else, after the page was told of it and before the handler
\* read it (a double click whose two requests overlap still does what it read);
\* or when the last load was refused: then the button reads `Buka Voting` over an
\* open election, and the click closes it.
WrongClicksAreUninformed ==
    [][ \A post \in DOMAIN posts :
            post.kind = "toggle" /\ post.badge # Unset /\ UpdateStatus(post) =>
                \/ election'.is_open # post.badge.is_open
                \/ post.badge.seen # Unset /\ post.badge.seen < post.read.seen
                \/ post.badge.seen = Unset /\ ~election'.is_open ]_windowVars

\* The schedule in force is what was typed once, earlier by the zone's hours for each
\* time it was saved as it had been loaded, and by nothing else: whatever answers
\* come late and overwrite the form, whichever of the two times was typed anew.
\* In the zone of UTC it is always what was typed.
ScheduleShiftsByTheZone ==
    \A f \in Fields : election[f] # Unset =>
        Instant(election[f]) = Instant(origin[f].hour) - zone * origin[f].shifts
=============================================================================
