CONSTANTS
  Lower <- MCLower
  Ascii <- MCAscii
  Width <- MCWidth
  Bytes <- MCBytes
  Mode = {"native", "typo"}
  DomainCall <- MCDomainCall
  PrefixCall <- MCPrefixCall
  PortCall <- MCPortCall
  MaxEntries = 2
  MaxLookupFaults = 1
  CPU = {c1}
  Packet <- MCPackets
  MaxPackets = 1
  MaxGets = 0
SPECIFICATION Spec
INVARIANTS
  NothingLeaked
  AddedRulesEnforced
