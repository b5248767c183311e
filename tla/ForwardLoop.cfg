SPECIFICATION ForwardSpec
CONSTANTS
  Accounts = {a1, a2}
  Keys = {k1}
  None = None
  StickyTTL = 0
  StickyMax = 1
  BaseBackoff = 1
  MaxBackoff = 1
  WordSize = 8
  MaxFailures = 1
  Listings = {"on"}
  Quotas = {}
  Requests = {r1, r2}
  Affinities = {k1}
  AccountMax = 1
  CapacityRetries = 1
INVARIANTS SlotsConserved RefusedTwice
PROPERTIES SessionMovesForCause AnswerNears
SYMMETRY Symmetric
