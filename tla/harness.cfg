\* Two runs, of two harnesses with different policies and selectors.
SPECIFICATION Spec
CONSTANTS
  NoManifest = NoManifest
  a = a
  b = b
  r0 = r0
  r1 = r1
  Run = {r1, r2}
  EarlierRun = {r0}
  InitialSessions <- AnySession
  ChatRun = {r1, r2}
  Feature = {a, b}
  Requests <- MixedRequests
  StarterList <- MCStarterList
  Selector <- CustomAndDefault
  Policy <- BatchAndStrict
INVARIANTS
  NoEarlyCompletion
  PassesOnlyWhenApproved
  SucceededIsTrue
  TurnsWithinBudget
  IncrementalScope
  CleanHandoff
PROPERTIES
  SessionKept
CHECK_DEADLOCK FALSE
