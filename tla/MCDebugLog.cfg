SPECIFICATION FairSpec
CONSTANTS
  Threads <- MCThreads
  BufCap = 2
  MaxMsg = 6
  MaxFiles = 2
  Dbg2File = FALSE
  Overlap <- MCNone
INVARIANT TypeOK
 
INVARIANT BuffersExclusive
 
 
