SPECIFICATION Spec
CONSTANTS
  Gateways = {g1, g2}
  Threads = {t1, t2}
  MaxToken = 4
  MaxLogins = 2
  Revokes = TRUE
  PromptPersist = TRUE
  RepliesLost = TRUE
  StoreFails = TRUE
  None = None
  MasterKeys = {k1, k2}
  Devices = {d1, d2}
  ReadErrors = TRUE
  Torn = Torn
INVARIANTS RestartSafe NewLoginUsed DataReadable OneDevice
SYMMETRY Symmetric
