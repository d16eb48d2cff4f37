--------------------------- MODULE MCElectionServer ---------------------------
(***************************************************************************)
(* Small instances of ElectionServer for TLC.  Users, candidates and       *)
(* requests are interchangeable, so their permutations are symmetries of   *)
(* the runs that check no liveness.                                        *)
(***************************************************************************)
EXTENDS ElectionServer, TLC

Symmetry == Permutations(Users) \cup Permutations(Candidates) \cup Permutations(Requests)
=============================================================================
