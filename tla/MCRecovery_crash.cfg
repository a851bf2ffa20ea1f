CONSTANTS
  Keys = {1}
  MAX_LEVEL = 1
  COMPACTION_TRIGGER = 2
  Radix = 4
  BadClose = {"returns", "kills"}
  MaxWrites = 4
  MaxStarts = 3
  MaxCrashes = 1
SPECIFICATION Spec
ACTION_CONSTRAINT LastWriteBound
INVARIANTS
  TypeOK
  ServesNewest
  DataOnDisk
