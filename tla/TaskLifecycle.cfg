CONSTANTS
  t1 = t1
  t2 = t2
  y1 = y1
  y2 = y2
  c1 = c1
  c2 = c2
  None = None
  Tasks <- MCTasks
  Types <- MCTypes
  Channels <- MCChannels
SPECIFICATION FairSpec
INVARIANTS TypeOK SlotsAgree SessionIsUp
PROPERTIES CallReturns
