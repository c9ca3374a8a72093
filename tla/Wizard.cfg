SPECIFICATION Spec
CONSTANTS
  Options <- MCOptions
  Files <- MCFiles
  Accounts <- MCAccounts
  LocalDevices = {"b", "c", "d"}
  Addresses = {"x", "y"}
  Capacity = 3
INVARIANTS
  TypeOK
  CallBounded
  RetryCarriesToken
  IssuedAtMostOnce
  KeysSaved
PROPERTIES
  Ends
CHECK_DEADLOCK FALSE
