CONSTANTS
  Lower <- MCLower
  Ascii <- MCAscii
  Width <- MCWidth
  Bytes <- MCBytes
  Mode = {"auto"}
  DomainCall <- StatsDomainCall
  PrefixCall = {}
  PortCall = {}
  MaxEntries = 2
  MaxLookupFaults = 0
  CPU = {c1, c2}
  Packet <- StatsPackets
  MaxPackets = 3
  MaxGets = 1
SPECIFICATION Spec
INVARIANTS
  XdpAccounting
  GetStatsSkew
