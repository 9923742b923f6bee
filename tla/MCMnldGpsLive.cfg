CONSTANTS
  Clients = {"agps"}
  Bits <- MCOneBit
  NamedRestarts <- MCOneNamed
  Offload = FALSE
  SuplEnabled = TRUE
  StartFailures = {"pwrctl", "init", "late"}
  StopMayFail = TRUE
  MainCap = 2
  GpsCap = 2
SPECIFICATION FairSpec
PROPERTIES
  UnusedGpsStops
  OpenResolves
  
