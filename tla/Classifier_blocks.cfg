CONSTANTS
  Lower <- MCLower
  Width <- MCWidth
  RuleConfig <- MCRuleConfig
  Packet <- MCPacket
  SpareCap = 0
SPECIFICATION Spec
CHECK_DEADLOCK FALSE
INVARIANTS
  BlocksExactly
  AnswerPasses
  ReasonDecides
  HTTPHostDecides
