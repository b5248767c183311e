SPECIFICATION ForwardSpec
CONSTANTS
  Accounts = {a1}
  Keys = {}
  None = None
  StickyTTL = 0
  StickyMax = 1
  BaseBackoff = 1
  MaxBackoff = 3
  WordSize = 8
  MaxFailures = 4
  Listings = {"on"}
  Quotas = {}
  Requests = {r1}
  Affinities = {None}
  AccountMax = 1
  CapacityRetries = 1
PROPERTIES BlameKeepsAPromise
