SPECIFICATION Spec
CONSTANTS
  num_compactors = 2
  MAX_LEVEL = 2
  COMPACTION_TRIGGER = 2
  Readers = {r1}
  MaxFlushes = 6
INVARIANTS SearchMeetsAllInOrder
