-------------------------- MODULE MCCandidateServer --------------------------
(***************************************************************************)
(* Small instances of CandidateServer for TLC, with the symmetries of the  *)
(* runs that check no liveness.                                            *)
(***************************************************************************)
EXTENDS CandidateServer, TLC

Symmetry ==
    UNION {Permutations(S) : S \in {Users, Candidates, Requests, Names, Descriptions}}
=============================================================================
