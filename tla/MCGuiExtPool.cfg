CONSTANTS
  Producers = {p1}
  Consumers = {c1, c2}
  NumTypes = 2
  BufNum = 1
  MaxAlloc = 1
  None = None
  MaxCalls = 2
SPECIFICATION Spec
CHECK_DEADLOCK FALSE
INVARIANTS
  TypeOK
  SlotsMatchQueue
PROPERTIES
  HeldKept
  
