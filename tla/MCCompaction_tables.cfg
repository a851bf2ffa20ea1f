SPECIFICATION Spec
CONSTANTS
  num_compactors = 2
  MAX_LEVEL = 3
  COMPACTION_TRIGGER = 2
  Readers = {}
  MaxFlushes = 8
INVARIANTS TypeOK NothingLost Chronological RemovesWhatItMerged PurgeOnlyOldest NoLostWakeup
