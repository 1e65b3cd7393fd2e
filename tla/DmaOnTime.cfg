CONSTANTS
  NumDma = 2
  ReadCh = 1
  WriteCh = 0
  DmaDirection <- MCDirection
  Late = FALSE
  ArmMessages = TRUE
SPECIFICATION FairSpec
INVARIANTS TypeOK BufferOutlivesTransfer OneCompletion
PROPERTIES SuccessMeansMoved SetBitIsHandled ImplementsDmaService EveryCallReturns
