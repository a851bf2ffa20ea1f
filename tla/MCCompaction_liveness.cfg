SPECIFICATION FairSpec
CONSTANTS
  num_compactors = 2
  MAX_LEVEL = 2
  COMPACTION_TRIGGER = 2
  Readers = {}
  MaxFlushes = 5
PROPERTIES LevelsShrink StoppedCompactorEnds
