\* Every backend in every deployment that is promised something; two clients.
SPECIFICATION Spec
CONSTANTS
  NoManifest = NoManifest
  a = a
  b = b
  w = w
  Feature = {a, b}
  List <- MCList
  Target <- MCTarget
  Client = {w, c1}
  Ops <- Mixed
  WriterOps <- OneWriter
  InitializerOps <- InitializersAndReaders
  ProcessOps <- Appenders
  InitialSession <- EmptySession
  MaxCalls = 2
  NoRow = NoRow
  NoClient = NoClient
  NoFile = NoFile
  Torn = Torn
  Plan <- MCPlan
  Instant <- MCInstant
  Checkpoint <- MCCheckpoint
  Roles <- MCRoles
  MaxWrites = 3
INVARIANTS
  TypeOK
  CreatedOnce
  AcknowledgedKept
  LoadsBack
PROPERTIES
  ContractKept
CHECK_DEADLOCK FALSE
