SPECIFICATION Spec
CONSTANTS
  Keys = {k1, k2}
  Readers = {r1}
  RING_BUFFER_SIZE = 4
  MaxWrites = 3
SYMMETRY Symmetry
INVARIANTS TypeOK OneHandoff Recoverable LogLifecycle FreshRead
PROPERTIES ActiveStableWhileFlushing ClearOnlyPublished
