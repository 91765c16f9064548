\* Tools, requests and phases under a counting, a logging, and a panicking
\* observer that is wrapped or not; calls may be dropped at any await.
SPECIFICATION FairSpec
CONSTANTS
  Execution = {e1, e2, e3}
  Registered = {e1, e2}
  SyncTool = {e2}
  HasTimeout = TRUE
  Adapter = {"openai", "ollama"}
  MaxAttempts = 2
  MaxRounds = 1
  MaxTurns = 2
  MaxChanges = 3
  Phase = {p1, p2}
  MaxObserved = 1
INVARIANTS
  HookOrder
  TimeoutMeansUnanswered
  Balanced
  NeverStuck
  AuthFresh
PROPERTIES
  TimeoutEnforced
CHECK_DEADLOCK FALSE
