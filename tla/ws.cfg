\* Requests of both kinds, with two credentials, share a websocket; any of them may
\* be dropped.
SPECIFICATION FairSpec
CONSTANTS
  r1 = r1
  r2 = r2
  r3 = r3
  key = key
  other = other
  Request = {r1, r2, r3}
  Streamed = {r2}
  AuthOf <- MCAuthOf
  NoAuth = NoAuth
  NoRequest = NoRequest
  MaxEvents = 1
INVARIANTS
  TypeOK
  OwnFrames
PROPERTIES
  CompleteHeals
  EveryRequestEnds
CHECK_DEADLOCK FALSE
