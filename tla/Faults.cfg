CONSTANTS
  NULL = NULL
  Users = {u1, u2}
  Candidates = {c1}
  BadCandidates = {}
  Requests = {r1, r2, r3}
  Unkeyed = {}
  Operations = {"castVote", "toggleElectionStatus"}
  InitiallyOpen = TRUE
  MaxFaults = 2
  MaxCrashes = 1
SPECIFICATION Spec
SYMMETRY Symmetry
INVARIANT NoVoteAfterReceipt
INVARIANT NoBlockWithoutVote
INVARIANT ReceiptIsDurable
INVARIANT AuditLogNamesItsBlock
INVARIANT WriteBehind
INVARIANT RecoverableLedgers
INVARIANT TogglesAddUp
INVARIANT NoVoteWhileClosed
CHECK_DEADLOCK FALSE
