CONSTANTS
  Workers = {w1}
  Callers = {}
  Buffers = {b1, b2}
  None = None
  Slow = FALSE
SPECIFICATION FairSpec
INVARIANTS TypeOK HeldOnce NoBufferLost
PROPERTIES NoOverwrite EveryMessageAcked EveryBufferReturns ImplementsMessageExchange
