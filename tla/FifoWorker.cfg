CONSTANTS
  worker = worker
  e0 = e0
  e1 = e1
  NoThread = NoThread
  Threads <- MCThreads
  Entries <- MCEntries
  Zero = e0
  Size = 3
  Words = 5
  HasMutex = FALSE
SPECIFICATION Spec
INVARIANTS TypeOK FifoInv
PROPERTIES ImplementsQueue
