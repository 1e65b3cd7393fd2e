CONSTANTS
  a1 = a1
  a2 = a2
  u1 = u1
  u2 = u2
  NTasks = 2
  NTypes = 2
  Channels <- Made
  Direction <- MadeDirections
  AudioOut = None
  KindsOf <- MadeKinds
  Getters <- MadeFrames
  Frames <- MadeFrames
  Planar = {}
  Planes <- NoPlanes
  ArmSize = 8
  UserSize = 12
  MaxDMA = 4
  ArmBufs <- MadeArmBufs
  UserBufs <- OneUserBuf
  Small = {}
  None = None
SPECIFICATION FairSpec
INVARIANTS NothingLeftBehind
PROPERTIES EveryRequestReturns
