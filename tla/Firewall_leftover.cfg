CONSTANTS
  Config <- IptablesConfigs
  DeleteTries = 20
  MaxDeleteFaults = 0
  MaxCrashes = 0
  MaxChanges = 0
SPECIFICATION Spec
INVARIANTS
  StoppedClean
