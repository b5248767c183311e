SPECIFICATION ExchangeSpec
CONSTANTS
  f = f
  g = g
  a = a
  u = u
  Glyphs <- MCGlyphs
  Width <- MCWidth
  Fingerprint <- MCFingerprint
  SystemByteLimit = 4
  HeadBytes = 7
  NoKey = NoKey
  NoUsage = NoUsage
  Bodies <- MCBodies
  Additions <- MCAdditions
  Events <- MCEvents
  MaxTurns = 2
  MaxEvents = 3
  EnvMode = "relaxed"
  Absent = Absent
PROPERTIES FirstMessageDecides
