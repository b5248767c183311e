SPECIFICATION Spec
CONSTANTS
  Gateways = {g1}
  Threads = {t1}
  MaxToken = 2
  MaxLogins = 1
  Revokes = TRUE
  PromptPersist = TRUE
  RepliesLost = FALSE
  StoreFails = FALSE
  None = None
  MasterKeys = {k1, k2}
  Devices = {d1, d2}
  ReadErrors = TRUE
  Torn = Torn
PROPERTIES
  KeyIsKept
