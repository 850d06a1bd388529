CONSTANTS
  Config <- ChangingConfigs
  DeleteTries = 20
  MaxDeleteFaults = 1
  MaxCrashes = 1
  MaxChanges = 2
SPECIFICATION FairSpec
INVARIANTS
  TypeOK
  CopiesBounded
  CompleteWhenUp
  CleanExit
  RulesTraceable
PROPERTIES
  KeepsContract
  SignalStops
