SPECIFICATION FairSpec
CONSTANTS
  Chains <- MCChains
  WaterTemps <- MCWater
  Celsius = TRUE
  Lossy = TRUE
  Faults = {"E2"}
  ProbeBackoff <- MCBackoff
  ProbeBackoffCap = 10
  E2Probes = 3
INVARIANTS
  TypeOK
  ConfirmedOff
  EndsSwitchedOff
  RunsSwitchedOn
  WaitsForSetpoint
PROPERTIES
  RampApproachesEnd
  InterruptEndsRun
CHECK_DEADLOCK FALSE
