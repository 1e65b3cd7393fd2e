CONSTANTS
  a1 = a1
  a2 = a2
  u1 = u1
  u2 = u2
  NTasks = 1
  NTypes = 3
  Channels <- All
  Direction <- AllDirections
  AudioOut <- Pcm
  KindsOf <- AllKinds
  Getters <- All
  Frames <- YuvOnly
  Planar <- YuvOnly
  Planes <- AllPlanes
  ArmSize = 8
  UserSize = 12
  MaxDMA = 8
  ArmBufs <- MixedArmBufs
  UserBufs <- MixedUserBufs
  Small <- TooSmall
  None = None
SPECIFICATION Spec
INVARIANTS TypeOK TransferIsCovered
PROPERTIES ImplementsExchange
