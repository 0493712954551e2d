CONSTANTS
  a = a
  b = b
  k = k
  Senders = {a, b, k}
  KeepAlive = {k}
  Times = {9, 17}
  Offsets <- MCOffsets
  NanosPerSec = 8
  Quarter = 8
  Top = 64
  SeqTop = 4
  MaxNumbered = 2

SPECIFICATION NumSpec

CHECK_DEADLOCK FALSE

INVARIANTS
  MessageIDs
  SequenceNumbers
  RealTimeOrder
