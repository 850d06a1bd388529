SPECIFICATION FairSpec
INVARIANTS
  TypeOK
  ExitClean
  KilledLeavesNoRules
  BoundOnlyWithRules
  ErrorReported
PROPERTIES
  SignalEnds
  EngineErrorEnds
  BlackoutEnds
