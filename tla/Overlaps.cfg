CONSTANTS
  NULL = NULL
  Users = {u1, u2}
  Candidates = {c1}
  BadCandidates = {}
  Requests = {r1, r2, r3}
  Unkeyed = {u2}
  Operations = {"castVote", "resetUserVote", "resetAll", "deleteUser", "hack"}
  InitiallyOpen = TRUE
  MaxFaults = 1
  MaxCrashes = 0
SPECIFICATION Spec
SYMMETRY Symmetry
INVARIANT TypeOK
INVARIANT FlagAgreesWithVotes
INVARIANT MemoryChainsValid
PROPERTY TamperEvident
PROPERTY ResetIsComplete
CHECK_DEADLOCK FALSE
