CONSTANTS
  Invocations <- BsdInvocations
  IntMax = 9999
SPECIFICATION Spec
INVARIANT AddressOfCooker
CHECK_DEADLOCK FALSE
