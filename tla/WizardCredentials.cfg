SPECIFICATION Spec
CONSTANTS
  Options <- AllGiven
  Files <- MCFiles
  Accounts <- MCAccounts
  LocalDevices = {"b"}
  Addresses = {"x"}
  Capacity = 3
INVARIANTS
  OptionsCount
CHECK_DEADLOCK FALSE
