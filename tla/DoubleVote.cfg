CONSTANTS
  NULL = NULL
  Users = {u1}
  Candidates = {c1}
  BadCandidates = {}
  Requests = {r1, r2}
  Unkeyed = {}
  Operations = {"castVote"}
  InitiallyOpen = TRUE
  MaxFaults = 0
  MaxCrashes = 0
SPECIFICATION Spec
SYMMETRY Symmetry
INVARIANT OneVotePerVoter
CHECK_DEADLOCK FALSE
