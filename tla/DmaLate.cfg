CONSTANTS
  NumDma = 2
  ReadCh = 1
  WriteCh = 0
  DmaDirection <- MCDirection
  Late = TRUE
  ArmMessages = FALSE
SPECIFICATION Spec
INVARIANTS NoStrandedCompletion
