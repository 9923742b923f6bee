CONSTANTS
  Clients = {"agps", "at_cmd_test"}
  Bits <- MCOneBit
  NamedRestarts <- MCOneNamed
  Offload = FALSE
  SuplEnabled = TRUE
  StartFailures = {"pwrctl", "init"}
  StopMayFail = TRUE
  MainCap = 2
  GpsCap = 2
SPECIFICATION Spec
INVARIANTS
  SessionInv
  
  
  
  ClientInv
PROPERTIES
  StoppedOnlyWhenUnused
