CONSTANTS
  Radix = 4
  ShortMax = 1
  CRCVector = 200
  Roots <- MCRoots
  Nums = {27}
  ByteLens = {0, 1, 2, 5, 64}
  MaxCount = 2
  MaxBuf = 100
  MaxDamaged = 28

SPECIFICATION Spec

CHECK_DEADLOCK FALSE

INVARIANTS
  RoundTrip
  CutIsRefused
  DecoderBounded
