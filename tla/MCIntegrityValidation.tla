------------------------- MODULE MCIntegrityValidation -------------------------
(***************************************************************************)
(* Small instances of IntegrityValidation for TLC: the users and votes of  *)
(* the tool are interchangeable, and so are the requests to the server.    *)
(***************************************************************************)
EXTENDS IntegrityValidation, TLC

Symmetry == Permutations(ValidationUsers) \cup Permutations(ValidationVotes)
                \cup Permutations(Clients)
=============================================================================
