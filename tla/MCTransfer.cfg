CONSTANTS
  w1 = w1
  w2 = w2
  Workers = {w1, w2}
  Size = 9
  Length = 9
  Custom = 2
  Default = 4
  KB = 1
  Threshold = 8
  Faults = {"invoke", "refuse", "cancel", "read"}
  FileSizes = {0, 1, 3, 8, 9}
  Limit = 3

SPECIFICATION Spec

CHECK_DEADLOCK FALSE

INVARIANTS
  OkMeansStored
  BoundedMemory
  ProgressAddsUp
  WrittenIsPrefix
  OkMeansWhole

PROPERTIES
  UploadReturns
  DownloadReturns
