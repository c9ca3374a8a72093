SPECIFICATION Spec
CONSTANTS
  Ports <- MCPorts
  WithKey = TRUE
  JUNK_CHUNK = 2
  JUNK_LIMIT = 9
  StallLimit = 4
  SndBuf = 2
  RcvBuf = 2
  Waits = {0, 2}
  IDLE_HOLD_SEC = 2
INVARIANTS
  TypeOK
  VerdictSound
  OneConnection
PROPERTIES
  ReportTrue
  Ends
CHECK_DEADLOCK FALSE
