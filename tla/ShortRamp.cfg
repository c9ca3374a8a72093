SPECIFICATION Spec
CONSTANTS
  Chains <- MCChainsShortRamp
  WaterTemps <- MCWater
  Celsius = TRUE
  Lossy = FALSE
  Faults = {}
  ProbeBackoff <- MCBackoff
  ProbeBackoffCap = 10
  E2Probes = 3
INVARIANTS
  WaitsForCommanded
CHECK_DEADLOCK FALSE
