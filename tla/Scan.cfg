SPECIFICATION Spec
CONSTANTS
  Datagrams <- MCDatagrams
  AES_BLOCK = 2
  Capacity = 2
  QueueLen = 1
  Wait = 1
  MaxFound = 3
INVARIANTS
  TypeOK
  ListsWhatIsHeard
  
  NoPortStarves
PROPERTIES
  Ends
CHECK_DEADLOCK FALSE
