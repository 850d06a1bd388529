CONSTANTS
  pMalformed = pMalformed
  pPoison = pPoison
  pNoPayload = pNoPayload
  pNoID = pNoID
  Packet = {pMalformed, pPoison, pNoPayload, pNoID}
  Content <- MCContent
  FailOpen = FALSE
  MaxQueueLen = 2
  VerdictMayFail = TRUE
  MaxTicks = 2
SPECIFICATION Spec
INVARIANTS TypeOK Accounting SnapshotSkew LinesMonotone BlockedNotForwarded AnsweredNotForwarded
