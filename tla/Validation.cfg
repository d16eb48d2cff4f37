CONSTANTS
  NULL = NULL
  Users = {u1, v1, v2}
  Candidates = {1, 12}
  BadCandidates = {}
  Requests = {r1, t1, t2}
  Unkeyed = {}
  Operations = {"castVote", "toggleElectionStatus"}
  InitiallyOpen = TRUE
  MaxFaults = 1
  MaxCrashes = 0
  ValidationUsers = {v1, v2}
  ValidationVotes = {t1, t2}
SPECIFICATION ValidationSpec
INVARIANT CleanupRestores
INVARIANT ReportIsRight
INVARIANT VotersKeepTheirVotes
CHECK_DEADLOCK FALSE
SYMMETRY Symmetry
