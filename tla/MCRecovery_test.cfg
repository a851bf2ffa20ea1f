CONSTANTS
  Keys = {1, 2}
  MAX_LEVEL = 1
  COMPACTION_TRIGGER = 2
  Radix = 10
  BadClose = {"returns"}
  MaxWrites = 2
  MaxStarts = 2
  MaxCrashes = 0
SPECIFICATION Spec
INVARIANTS
  RecoveryTest
