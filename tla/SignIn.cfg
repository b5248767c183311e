SPECIFICATION OAuthFairSpec
CONSTANTS
  Ids = {i1, i2}
  People = {p1}
  Workers = {w1, w2}
  Flows = {f1}
  None = None
  MaxJobs = 2
  DbMayFail = TRUE
  NewMayFail = TRUE
INVARIANTS PoolFollowsTable AddsOnce
PROPERTIES FlowsEnd CallbackAnswered
CHECK_DEADLOCK FALSE
