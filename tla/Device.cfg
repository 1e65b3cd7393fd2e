CONSTANTS
  irq_work = irq_work
  dma_work = dma_work
  Works <- MCWorks
SPECIFICATION Spec
INVARIANTS NothingOutlivesDevice NothingLeftButLeaks RunsWhatWasVerified
