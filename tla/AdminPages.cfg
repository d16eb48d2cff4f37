CONSTANTS
  NULL = NULL
  Parts = {"audit log", "explorer", "schedule", "window", "status", "merkle"}
  NoFilter = NoFilter
  Actions = {VOTE, LOGIN}
  PageLimit = 2
  MaxAllowedLimit = 2
  ExportLimit = 3
  MaxRows = 4
  MaxPage = 2
  MaxFetches = 2
  ExplorerLedgers = {"vote", "audit"}
  ListLimit = 2
  MaxBlocks = 2
  MaxResets = 1
  MaxAnswers = 3
  Unset = Unset
  Zones = {0, 1}
  Hours = {2, 3}
  SavedHours = {0, 1, 2, 3}
  MaxClock = 3
  MaxToggles = 3
  MaxShifts = 2
  MaxPosts = 2
  Transactions = {ta, tb}
  MaxTransactions = 6
SYMMETRY Symmetry
SPECIFICATION PagesSpec
INVARIANT PagesShowEveryRow
INVARIANT ExportIsWhole
INVARIANT DetailIsOfTheRow
INVARIANT BadgeIsOfTheLedger
INVARIANT TamperedBlockIsFound
INVARIANT ProofsVerify
INVARIANT RootsBind
INVARIANT CandidatesFrozen
INVARIANT ScheduleShiftsByTheZone
PROPERTY WrongClicksAreUninformed
CHECK_DEADLOCK FALSE
