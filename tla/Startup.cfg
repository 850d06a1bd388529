CONSTANTS
  File <- MCFile
  ToolSet <- MCToolSet
SPECIFICATION BootSpec
INVARIANTS
  AcceptedUsable
  HooksAsMeant
