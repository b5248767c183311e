SPECIFICATION FairSpec
CONSTANTS
  Requests = {r1, r2}
  Handlers = {v1, v2}
  Numbers = {1, 2, 3, 4}
  Caps = {1, 2}
  Rpm = 1
  Window = 3
  MaxSkew = 1
  MaxEdits = 1
  None = None
INVARIANTS TokensConserved LimiterBound
PROPERTIES LimitTakesEffect
