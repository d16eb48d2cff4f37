CONSTANTS
  NULL = NULL
  Users = {}
  Candidates = {c1}
  BadCandidates = {}
  Requests = {r1, r2, r3}
  Unkeyed = {}
  Operations = {"toggleElectionStatus"}
  CandidateOperations = {"submitTransaction", "migrateLegacy", "resync"}
  SubmittedTypes = {"CANDIDATE_CREATE", "CANDIDATE_UPDATE", "CANDIDATE_VOID"}
  Names = {n1}
  Descriptions = {}
  InitiallyOpen = FALSE
  MaxFaults = 0
  MaxCrashes = 1
SPECIFICATION CandidateSpec
SYMMETRY Symmetry
INVARIANT CandidatesTypeOK
INVARIANT LockIsHonoured
INVARIANT HistoryRefersBack
INVARIANT RowsAreBacked
CHECK_DEADLOCK FALSE
