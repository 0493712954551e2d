CONSTANTS
  Block <- MCBlock
  Xor <- MCXor
  E <- MCE
  D <- MCD
  IvC <- MCIvC
  IvM <- MCIvM
  N = 4
  Cases <- AllCases
  Word <- MCWord
  BlockLen = 4
  HeaderLen = 8
  MinPad = 3
  Inners <- MCInners
  Payloads <- MCPayloads
  PadWords = {0, 3}
  ExpectedIDs = {0, 1}
  Flip <- MCFlip

SPECIFICATION PacketSpec

CHECK_DEADLOCK FALSE

INVARIANTS
  ApartIsIge
  AcceptedIsSent
  SentIsAccepted
