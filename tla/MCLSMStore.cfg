SPECIFICATION Spec
CONSTANTS
  Keys = {k1, k2}
  Readers = {r1}
  MAX_LEVEL = 2
  COMPACTION_TRIGGER = 2
  MaxWrites = 4
SYMMETRY KeySymmetry
INVARIANTS TypeOK
PROPERTIES FreshGets
