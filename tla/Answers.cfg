CONSTANTS
  NULL = NULL
  Users = {u1}
  Candidates = {c1}
  BadCandidates = {}
  Requests = {r1, r2}
  Unkeyed = {}
  Operations = {"castVote", "resetAll", "deleteUser", "toggleElectionStatus", "hack", "resetUserVote"}
  CandidateOperations = {"submitTransaction", "migrateLegacy", "resync"}
  SubmittedTypes = {"CANDIDATE_CREATE", "CANDIDATE_VOID"}
  Names = {n1}
  Descriptions = {}
  InitiallyOpen = TRUE
  MaxFaults = 1
  MaxCrashes = 1
SPECIFICATION FairCandidateSpec
PROPERTY EveryRequestIsAnswered
CHECK_DEADLOCK FALSE
