CONSTANTS
  Invocations <- MCInvocations
  IntMax = 9999
SPECIFICATION Spec
INVARIANTS TypeOK AddressOfCooker AsWritten  DryRunSilent
CHECK_DEADLOCK FALSE
