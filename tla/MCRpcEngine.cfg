CONSTANTS
  c1 = c1
  c2 = c2
  m1 = m1
  NoCall = NoCall
  Numerals = {"2", "30"}
  Calls = {c1, c2}
  MsgIds = {m1}
  Bodies <- MCBodies
  MaxAcks = 1

SPECIFICATION FairSpec

INVARIANTS
  SendsNeverBlock
  NoLostWakeup
  NoLeak
  OwnAnswer

PROPERTIES
  PromiseKept
  CloseReleasesCallers
  AnswerEndsCall
