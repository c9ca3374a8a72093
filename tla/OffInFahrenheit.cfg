SPECIFICATION Spec
CONSTANTS
  Chains <- MCChainsHold
  WaterTemps <- MCWater
  Celsius = FALSE
  Lossy = TRUE
  Faults = {}
  ProbeBackoff <- MCBackoff
  ProbeBackoffCap = 10
  E2Probes = 3
INVARIANTS
  ConfirmedOff
CHECK_DEADLOCK FALSE
