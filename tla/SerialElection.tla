---------------------------- MODULE SerialElection ----------------------------
(***************************************************************************)
(* The election as the voters of the web page meet it: a voter sends a     *)
(* vote when the one before has been answered.  Under that discipline, with*)
(* statements that succeed and a process that lives, the server implements *)
(* Ballot, whatever other voters and the administrator do meanwhile.       *)
(***************************************************************************)
EXTENDS ElectionServer

Voting(r, u) == Sent(r, "castVote") /\ req[r].user = u /\ reply[r] = NULL

OneAtATime ==
    \A u \in Users, r, s \in Requests : Voting(r, u) /\ Voting(s, u) => r = s

SerialSpec == Init /\ [][Next /\ OneAtATime']_vars

\* Two stored votes are no ballot of any voter.
Overvote == <<"overvote">>

BallotOf(u) ==
    LET mine == {v \in votes : v.user = u}
    IN  IF mine = {} THEN NULL
        ELSE IF Cardinality(mine) = 1 THEN (CHOOSE v \in mine : TRUE).candidate
        ELSE Overvote

Abstract == INSTANCE Ballot WITH ballot <- [u \in Users |-> BallotOf(u)]

\* The votes table is a ballot box: castVote puts in one ballot per voter, the
\* administrator's resets take out one voter's or all of them.
ImplementsBallot == Abstract!Spec
=============================================================================
