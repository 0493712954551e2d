CONSTANTS
  c1 = c1
  m1 = m1
  u1 = u1
  u2 = u2
  NoCall = NoCall
  Numerals = {"2", "30"}
  Reader = Reader
  Calls = {c1}
  MsgIds = {m1}
  Users = {u1, u2}
  Salts = {0, 1}
  InitialSalt = 2
  Bodies <- MCBodies
  MaxAcks = 0

SPECIFICATION ConnFairSpec

CHECK_DEADLOCK FALSE

INVARIANTS
  CloseIsComplete

PROPERTIES
  QuietAfterClose
  InvokesEnd
  ShutdownEnds
  AcksAreFlushed
