SPECIFICATION Spec
CONSTANTS
  Accounts = {a1, a2}
  Keys = {k1, k2, k3}
  None = None
  StickyTTL = 1
  StickyMax = 2
  BaseBackoff = 1
  MaxBackoff = 3
  WordSize = 8
  MaxFailures = 4
  Listings = {"absent", "on", "off"}
  Quotas = {"open", "barred"}
INVARIANTS CoolingIsEarned StickyAgrees LruByExpiry
PROPERTIES FailureCools
SYMMETRY Symmetric
