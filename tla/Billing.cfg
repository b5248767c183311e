SPECIFICATION FairSpec
CONSTANTS
  Logs = {l1, l2, l3}
  Keys = {k1}
  None = None
  Loop = Loop
  Main = Main
  FlushBatch = 2
  DbMayFail = TRUE
INVARIANTS ChargedOnce CleanStopFlushes
PROPERTIES KeepsBooks
