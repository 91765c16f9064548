\* Two initializers of a session nobody has touched.
SPECIFICATION Spec
CONSTANTS
  NoManifest = NoManifest
  a = a
  b = b
  w = w
  Feature = {a, b}
  List <- MCList
  Target <- MCTarget
  Client = {w, c1}
  Ops <- Initializers
  InitialSession <- EmptySession
  MaxCalls = 1
  NoRow = NoRow
  NoClient = NoClient
  RowAtStart = FALSE
INVARIANTS
  CreatedOnce
CHECK_DEADLOCK FALSE
