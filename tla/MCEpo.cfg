CONSTANTS
  Days = 4
  EpoEnabled = TRUE
  WifiTrigger = TRUE
  RetryLimit = 1
  DelayLimit = 1
  TryLimit = 1
  ShortReplies = FALSE
  EpoCap = 1
  MainCap = 1
  LastEdition = 2
  MaxRequests = 1
SPECIFICATION FairSpec
INVARIANTS
  TypeOK
  OneDownload
  
PROPERTIES
  CounterNotShared
  EpoDownloadEnds
  QepoAnswered
