CONSTANTS
  Senders = {1, 5}
  Codecs <- AllCodecs
  Lens = {0, 2, 3, 4, 8}
  Radix = 6
  Word = 2
  Escape = 2
  Unit = 2
  MaxLen = 8
  MaxPad = 2
  MaxSends = 2

SPECIFICATION WireFairSpec

CHECK_DEADLOCK FALSE

INVARIANTS
  FramesIntact
  NoFrameRefused
  ChecksumsProtect

PROPERTIES
  SendsReturn
