CONSTANTS
  NULL = NULL
  Users = {a, b}
  Candidates = {c}
  Kinds = {"login", "vote", "logout", "adminLogin", "read"}
  MaxRequests = 4
  MaxReloads = 1
  MaxCrashes = 1
SPECIFICATION PageSpec
INVARIANT VoteIsOfTheShownUser
INVARIANT DestroyedForGood
PROPERTY VotedSessionEnds
CHECK_DEADLOCK FALSE
