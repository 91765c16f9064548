\* A failure between removal and rename.
SPECIFICATION Spec
CONSTANTS
  NoManifest = NoManifest
  a = a
  b = b
  w = w
  Feature = {a, b}
  List <- MCList
  Target <- MCTarget
  Client = {w, c1}
  Ops <- Loggers
  InitialSession <- EmptySession
  MaxCalls = 2
  NoFile = NoFile
  Torn = Torn
  SafeRename = FALSE
INVARIANTS
  AcknowledgedKept
CHECK_DEADLOCK FALSE
