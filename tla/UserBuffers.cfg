CONSTANTS
  b1 = b1
  b2 = b2
  b3 = b3
  Buffers <- MCBuffers
SPECIFICATION Spec
SYMMETRY Symmetry
INVARIANTS TypeOK ListedIsOwned EveryBufferAccounted RunningHasPins
