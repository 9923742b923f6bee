CONSTANTS
  Threads = {1, 2}
  Chips <- MCChips
  Pre <- MCPre
  Post <- MCPost
  Others = {"reset", "pcm"}
  EFuse = "efuse"
SPECIFICATION Spec
INVARIANTS
  TypeOK
  MutexAlive
  FwOkMeansConfigured
PROPERTIES
  AddressKept
  RequestsEnd
