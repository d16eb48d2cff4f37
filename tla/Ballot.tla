-------------------------------- MODULE Ballot --------------------------------
(***************************************************************************)
(* What an election promises a voter: a ballot box that holds at most one  *)
(* ballot per voter, which only an administrator takes out again.          *)
(***************************************************************************)
CONSTANTS Users, Candidates, NULL

VARIABLE ballot     \* each voter's ballot in the box, or NULL

Init == ballot = [u \in Users |-> NULL]

Cast(u, c) ==
    /\ ballot[u] = NULL
    /\ ballot' = [ballot EXCEPT ![u] = c]

TakeBack(voters) ==
    ballot' = [u \in Users |-> IF u \in voters THEN NULL ELSE ballot[u]]

Next ==
    \/ \E u \in Users, c \in Candidates : Cast(u, c)
    \/ \E u \in Users : TakeBack({u})
    \/ TakeBack(Users)

Spec == Init /\ [][Next]_ballot
=============================================================================
