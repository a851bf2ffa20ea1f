SPECIFICATION Spec
CONSTANTS
  Keys = {k1}
  Readers = {r1, r2}
  RING_BUFFER_SIZE = 2
  MaxWrites = 3
SYMMETRY Symmetry
PROPERTIES ImplementsKVStore
