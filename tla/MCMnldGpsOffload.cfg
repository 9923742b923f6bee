CONSTANTS
  Clients = {"hal", "flp_test"}
  Bits <- MCTwoBits
  NamedRestarts <- MCTwoNamed
  Offload = TRUE
  SuplEnabled = TRUE
  StartFailures = {"late"}
  StopMayFail = TRUE
  MainCap = 1
  GpsCap = 1
SPECIFICATION Spec
INVARIANTS
  AidingAccounted
