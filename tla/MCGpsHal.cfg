CONSTANTS
  HalCap <- MCHalCap
  MaxDeaths <- MCThreeDeaths
SPECIFICATION FairSpec
INVARIANTS
  TypeOK
  WantedIsAskedFor
  NoInheritedSession
  ResourcesAtMostOnce
PROPERTIES
  WantedGpsRuns
