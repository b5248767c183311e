SPECIFICATION FairSpec
CONSTANTS
  Accounts = {a1, a2}
  Loop = Loop
  Others = {f1}
  None = None
  TTL = 2
  Period = 2
  FetchTimeout = 1
  CallsTimeout = 2
  Unlucky = {f1}
INVARIANTS TypeOK AgeBounded OpenIsRecent
PROPERTIES BarReachesPool
