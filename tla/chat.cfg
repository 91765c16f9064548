\* A plain and a streamed turn of one session go through every round and retry.
SPECIFICATION FairSpec
CONSTANTS
  Turn = {t1, s1}
  Streamed = {s1}
  HasTools = TRUE
  MaxRoundTrips = 2
  MaxAttempts = 2
  ToolCall = {1, 2}
INVARIANTS
  TypeOK
  WholeTurns
  PersistedOnce
  HistorySeesFinished
  ResultsAnswerCalls
  BoundedRequests
PROPERTIES
  TurnEnds
CHECK_DEADLOCK FALSE
