SPECIFICATION Spec
CONSTANTS
  Procs = {p1, p2, p3}
  Refs = {r1, r2}
  Handles = {h1, h2}
  NULL = NULL
  Calls <- MCCalls
INVARIANTS
  TypeOK
  CallsUseOwnHandle
  DestroyedOnce
  NoLeak
PROPERTIES
  Reclaimed
