\* Two unlimited runs with the default selector: they end.
SPECIFICATION FairSpec
CONSTANTS
  NoManifest = NoManifest
  a = a
  b = b
  r0 = r0
  r1 = r1
  Run = {r1, r2}
  EarlierRun = {r0}
  InitialSessions <- EarlierSession
  ChatRun = {r1, r2}
  Feature = {a, b}
  Requests <- OneRequest
  StarterList <- MCStarterList
  Selector <- AllDefault
  Policy <- AllUnlimited
INVARIANTS
  NoFeatureTwice
PROPERTIES
  RunEnds
CHECK_DEADLOCK FALSE
