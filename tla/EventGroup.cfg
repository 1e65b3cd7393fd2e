CONSTANTS
  Bits <- MCBits
  Mask <- MCMask
  First = 1
  Windows = 2
  Signals = TRUE
  MaxDone = 3
SPECIFICATION FairSpec
INVARIANTS TypeOK NoLostWakeup
PROPERTIES TimeoutMeansNoEvent EveryEventTaken ImplementsEventFlags
