SPECIFICATION FairSpec
CONSTANTS
  Keys = {k1}
  Readers = {r1}
  RING_BUFFER_SIZE = 4
  MaxWrites = 2
PROPERTIES EveryGetReturns EveryWriteCompletes ShutdownCompletes
