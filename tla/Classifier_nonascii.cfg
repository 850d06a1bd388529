CONSTANTS
  Lower <- MCLower
  Width <- MCWidth
  RuleConfig <- NonASCIIConfig
  Packet <- NonASCIIPacket
  SpareCap = 0
SPECIFICATION Spec
CHECK_DEADLOCK FALSE
INVARIANTS
  HTTPHostBlocked
