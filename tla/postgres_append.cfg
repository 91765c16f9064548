\* Two clients append to the log of one session.
SPECIFICATION Spec
CONSTANTS
  NoManifest = NoManifest
  a = a
  b = b
  w = w
  Feature = {a, b}
  List <- MCList
  Target <- MCTarget
  Client = {w, c1}
  Ops <- Loggers
  InitialSession <- Logged
  MaxCalls = 1
  NoRow = NoRow
  NoClient = NoClient
  RowAtStart = TRUE
INVARIANTS
  AcknowledgedKept
CHECK_DEADLOCK FALSE
