SPECIFICATION Spec
CONSTANTS
  Requests = {r1, r2}
  Handlers = {h1, h2}
  value = value
  Values = {value}
  Useless = Useless
  None = None
  PricesTTL = 2
  MaxRead = 1
  DbMayFail = FALSE
  Bodies <- Forms
  MaxSessions = 3
  MaxMoves = 1
INVARIANTS SavedIsInForce
CONSTRAINT Focus
SYMMETRY Symmetric
