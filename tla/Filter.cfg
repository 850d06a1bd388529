CONSTANTS
  pDrop = pDrop
  pNoID = pNoID
  Packet = {pDrop, pNoID}
  Content <- MCContent
  FailOpen = FALSE
  MaxQueueLen = 2
  VerdictMayFail = FALSE
  MaxTicks = 2
SPECIFICATION Spec
PROPERTIES SignalFlushes QueuedDecided
INVARIANTS LastLineComplete
