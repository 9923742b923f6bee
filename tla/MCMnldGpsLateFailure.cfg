CONSTANTS
  Clients = {"hal"}
  Bits = {}
  NamedRestarts = {}
  Offload = FALSE
  SuplEnabled = TRUE
  StartFailures = {"late"}
  StopMayFail = FALSE
  MainCap = 2
  GpsCap = 2
SPECIFICATION Spec
INVARIANTS
  StartDoneMeansStarted
