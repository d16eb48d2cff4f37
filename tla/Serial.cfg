CONSTANTS
  NULL = NULL
  Users = {u1, u2}
  Candidates = {c1, c2}
  BadCandidates = {x}
  Requests = {r1, r2, r3}
  Unkeyed = {}
  Operations = {"castVote", "resetUserVote", "resetAll"}
  InitiallyOpen = TRUE
  MaxFaults = 0
  MaxCrashes = 0
SPECIFICATION SerialSpec
SYMMETRY Symmetry
PROPERTY ImplementsBallot
CHECK_DEADLOCK FALSE
