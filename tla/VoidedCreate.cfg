CONSTANTS
  NULL = NULL
  Users = {}
  Candidates = {}
  BadCandidates = {}
  Requests = {r1, r2}
  Unkeyed = {}
  Operations = {}
  CandidateOperations = {"submitTransaction"}
  SubmittedTypes = {"CANDIDATE_CREATE", "CANDIDATE_VOID"}
  Names = {n1}
  Descriptions = {}
  InitiallyOpen = FALSE
  MaxFaults = 0
  MaxCrashes = 0
SPECIFICATION SerialCandidateSpec
SYMMETRY Symmetry
INVARIANT VoidedLeaveNoTrace
CHECK_DEADLOCK FALSE
