\* Two initializers, one after an interrupted one.
SPECIFICATION Spec
CONSTANTS
  NoManifest = NoManifest
  a = a
  b = b
  w = w
  Feature = {a, b}
  List <- MCList
  Target <- MCTarget
  Client = {w, c1}
  Ops <- Initializers
  InitialSession <- EmptySession
  MaxCalls = 2
  OneProcess = TRUE
  Interrupted = TRUE
INVARIANTS
  ExistsMeansWritten
CHECK_DEADLOCK FALSE
