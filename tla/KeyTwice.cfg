SPECIFICATION Spec
CONSTANTS
  Requests = {r1, r2}
  Handlers = {v1, v2}
  Numbers = {1, 2, 3, 4}
  Caps = {1}
  Rpm = 1
  Window = 3
  MaxSkew = 1
  MaxEdits = 0
  None = None
INVARIANTS KeyLimitHolds
