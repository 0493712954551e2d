CONSTANTS
  Users = {"u1", "u2"}
  Values = {"empty", "short", "long"}
  Size <- MCSize
  Kinds = {"file", "memory"}
  MaxSaves = 3
  MaxLoads = 2
  MaxRestarts = 1

SPECIFICATION Spec

CHECK_DEADLOCK FALSE

INVARIANTS
  LoadReturnsSaved
  StoredIsSaved

PROPERTIES
  CallsReturn
