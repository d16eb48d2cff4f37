CONSTANTS
  NULL = NULL
  Users = {u1, v1}
  Candidates = {1}
  BadCandidates = {}
  Requests = {r1, t1}
  Unkeyed = {}
  Operations = {"castVote"}
  InitiallyOpen = TRUE
  MaxFaults = 0
  MaxCrashes = 0
  ValidationUsers = {v1}
  ValidationVotes = {t1}
SPECIFICATION ValidationSpec
CHECK_DEADLOCK FALSE
SYMMETRY Symmetry
INVARIANT NonDestructive
