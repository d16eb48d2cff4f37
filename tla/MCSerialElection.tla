--------------------------- MODULE MCSerialElection ---------------------------
EXTENDS SerialElection, TLC

Symmetry == Permutations(Users) \cup Permutations(Candidates) \cup Permutations(Requests)
=============================================================================
