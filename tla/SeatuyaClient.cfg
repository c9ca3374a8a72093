SPECIFICATION Spec
CONSTANTS
  Versions <- MCVersions
  Keys = {k1}
  NoKey = NoKey
  DeviceKey = k1
  DefaultRetryLimit = 2
  RetryLimits <- MCRetryLimits
  Id22 = FALSE
  Firmware22 = FALSE
  Pushes = TRUE
  MaxCalls = 3
  MaxQueue = 2
INVARIANTS
  TypeOK
  AttemptsBounded
  RetryUnderSession
  RetriedAnswerIsFresh
  QueryPrefersDataPoints
PROPERTIES
  ImplementsRetriedCall
