CONSTANTS
  NULL = NULL
  Users = {}
  Candidates = {c1}
  BadCandidates = {}
  Requests = {r1, r2, r3}
  Unkeyed = {}
  Operations = {}
  CandidateOperations = {"submitTransaction", "migrateLegacy", "resync"}
  SubmittedTypes = {"CANDIDATE_CREATE", "CANDIDATE_UPDATE", "CANDIDATE_DEACTIVATE", "CANDIDATE_REACTIVATE", "CANDIDATE_CORRECTION", "CANDIDATE_VOID"}
  Names = {n1}
  Descriptions = {d1}
  InitiallyOpen = FALSE
  MaxFaults = 1
  MaxCrashes = 1
SPECIFICATION SerialCandidateSpec
SYMMETRY Symmetry
INVARIANT ProjectionIsReplay
INVARIANT ReplayIsLastValue
INVARIANT MigrationRegistersOnce
INVARIANT HistoryRefersBack
PROPERTY ResyncRepairs
CHECK_DEADLOCK FALSE
