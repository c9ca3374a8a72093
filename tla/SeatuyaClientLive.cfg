SPECIFICATION FairSpec
CONSTANTS
  Versions <- MCVersions
  Keys = {k1, k2}
  NoKey = NoKey
  DeviceKey = k1
  DefaultRetryLimit = 1
  RetryLimits <- MCRetryLimitsSmall
  Id22 = FALSE
  Firmware22 = TRUE
  Pushes = TRUE
  MaxCalls = 2
  MaxQueue = 2
PROPERTIES
  CallReturns
