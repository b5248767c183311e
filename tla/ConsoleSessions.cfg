SPECIFICATION Spec
CONSTANTS
  Requests = {r1, r2}
  Handlers = {h1, h2}
  value = value
  Values = {value}
  Useless = Useless
  None = None
  PricesTTL = 2
  MaxRead = 1
  DbMayFail = TRUE
  Bodies <- Forms
  MaxSessions = 3
  MaxMoves = 1
INVARIANTS ConsoleTypeOK SettledPrices RefusalsBounded
CONSTRAINT Focus
SYMMETRY Symmetric
