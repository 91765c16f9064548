--------------------------- MODULE ChatTurnProofs ----------------------------
(***************************************************************************)
(* Proofs about ChatTurn, for any number of overlapping turns of both      *)
(* kinds, any limits and any tools: the types of its variables, the bound  *)
(* on requests and the results they carry, what the transcript holds, and  *)
(* what later turns see of earlier ones.                                   *)
(***************************************************************************)
EXTENDS ChatTurn, FiniteSetTheorems, TLAPS

----------------------------------------------------------------------------
(* The locals of a turn.  What the calls and results are plays no part in   *)
(* the proofs about requests and the transcript.                            *)
Fields == {"pc", "history", "said", "attempt", "rounds", "calls", "results", "seen", "requests"}

Open == {"idle", "loading", "requesting", "backoff", "receiving", "tools", "storing", "stored"}

LocalsInv(l) ==
  /\ DOMAIN l = Fields
  /\ l.pc \in Open \cup Ended
  /\ l.said \in Nat /\ l.attempt \in Nat /\ l.rounds \in Nat /\ l.requests \in Nat

Shape == DOMAIN turn = Turn /\ \A t \in Turn : LocalsInv(turn[t])

LEMMA InitShape == Init => Shape
BY DEF Init, Shape, LocalsInv, Fields, Open, Ended

(* One turn moves at a time. *)
LEMMA OneMoves ==
  ASSUME DOMAIN turn = Turn, NEW t \in Turn, NEW l, turn' = [turn EXCEPT ![t] = l]
  PROVE  /\ DOMAIN turn' = Turn
         /\ turn'[t] = l
         /\ \A u \in Turn \ {t} : turn'[u] = turn[u]
OBVIOUS

----------------------------------------------------------------------------
(* How the locals of turn t may change in one step, from a to b, and the    *)
(* transcript with them: what becomes of the fields these proofs are about. *)

Keeps(a, b) == b.history = a.history /\ b.said = a.said

Begins(t, a, b) ==
  /\ a.pc = "idle" /\ b.pc \in {"loading", "failed"} /\ Keeps(a, b)
  /\ finished' = [finished EXCEPT ![t] = {u \in Turn : Is(u, "complete")}]
  /\ UNCHANGED transcript

Loads(a, b) ==
  /\ a.pc = "loading" /\ b.pc = "requesting" /\ b.said = a.said /\ b.history = transcript
  /\ UNCHANGED <<transcript, finished>>

Loop == {"requesting", "backoff", "receiving", "tools"}

(* Requests, waits, receives or runs tools. *)
Works(a, b) ==
  /\ a.pc \in Loop /\ b.pc \in Loop /\ Keeps(a, b)
  /\ UNCHANGED <<transcript, finished>>

Responds(a, b) ==
  /\ a.pc \in Loop /\ b.pc \in Loop \cup {"storing"}
  /\ b.history = a.history /\ b.said = a.said + 1
  /\ UNCHANGED <<transcript, finished>>

Stores(t, a, b) ==
  /\ a.pc = "storing" /\ b.pc = "stored" /\ Keeps(a, b)
  /\ transcript' = transcript \o Persisted(t) /\ UNCHANGED finished

(* The store fails after it took the first messages. *)
Tears(t, a, b) ==
  /\ a.pc = "storing" /\ b.pc = "failed" /\ Keeps(a, b)
  /\ \E n \in 0 .. a.said : transcript' = transcript \o SubSeq(Persisted(t), 1, n)
  /\ UNCHANGED finished

GivesUp(a, b) ==
  /\ a.pc \in Open \ {"idle"} /\ b.pc \in {"failed", "dropped"} /\ Keeps(a, b)
  /\ UNCHANGED <<transcript, finished>>

Completes(a, b) ==
  /\ a.pc = "stored" /\ b.pc = "complete" /\ Keeps(a, b)
  /\ UNCHANGED <<transcript, finished>>

Moves(t, a, b) ==
  \/ Begins(t, a, b) \/ Loads(a, b) \/ Works(a, b) \/ Responds(a, b)
  \/ Stores(t, a, b) \/ Tears(t, a, b) \/ GivesUp(a, b) \/ Completes(a, b)

(* The locals b that a step of t leaves, and that they are locals. *)
MovesTo(t, b) ==
  turn' = [turn EXCEPT ![t] = b] /\ LocalsInv(b) /\ Moves(t, turn[t], b)

LEMMA OverLocals ==
  ASSUME NEW a, LocalsInv(a), NEW how \in Ended
  PROVE  /\ LocalsInv(Over(a, how)) /\ Keeps(a, Over(a, how))
         /\ Over(a, how).pc = how /\ Over(a, how).requests = a.requests
BY DEF LocalsInv, Over, Keeps, Fields, Open, Ended

LEMMA CountedType ==
  ASSUME NEW t \in Turn, LocalsInv(turn[t])
  PROVE  Counted(t) \in Nat /\ Counted(t) <= turn[t].requests + 1
BY DEF Counted, LocalsInv

LEMMA RespondedMoves ==
  ASSUME Shape, NEW t \in Turn, NEW calls, NEW requests \in Nat,
         turn[t].pc \in Loop, Responded(t, calls, requests), UNCHANGED <<transcript, finished>>
  PROVE  \E b : MovesTo(t, b)
<1> DEFINE run == ShouldRunTools(t, calls)
           b == [turn[t] EXCEPT !.pc = IF run THEN "tools" ELSE "storing",
                                !.said = @ + 1, !.calls = IF run THEN calls ELSE << >>,
                                !.results = << >>, !.seen = {}, !.requests = requests]
<1>1. LocalsInv(turn[t])
  BY DEF Shape
<1>2. turn' = [turn EXCEPT ![t] = b]
  BY DEF Responded
<1> HIDE DEF run
<1>3. LocalsInv(b) /\ Responds(turn[t], b)
  BY <1>1 DEF LocalsInv, Responds, Loop, Fields, Open, Ended
<1> HIDE DEF b
<1>4. QED
  BY <1>2, <1>3 DEF MovesTo, Moves

LEMMA EndMoves ==
  ASSUME Shape, NEW t \in Turn, turn[t].pc \in Open \ {"idle"},
         NEW how \in {"failed", "dropped"}, End(t, how), UNCHANGED <<transcript, finished>>
  PROVE  \E b : MovesTo(t, b)
<1>1. LocalsInv(turn[t]) /\ how \in Ended
  BY DEF Shape, Ended
<1> DEFINE b == Over(turn[t], how)
<1>2. turn' = [turn EXCEPT ![t] = b]
  BY DEF End
<1>3. LocalsInv(b) /\ Keeps(turn[t], b) /\ b.pc = how
  BY <1>1, OverLocals
<1> HIDE DEF b
<1>4. QED
  BY <1>2, <1>3 DEF MovesTo, Moves, GivesUp

(* Steps within the loop that say nothing yet. *)
LEMMA WorkMoves ==
  ASSUME Shape, NEW t \in Turn, NEW b, turn' = [turn EXCEPT ![t] = b], LocalsInv(b),
         turn[t].pc \in Loop, b.pc \in Loop, Keeps(turn[t], b), UNCHANGED <<transcript, finished>>
  PROVE  \E c : MovesTo(t, c)
BY DEF MovesTo, Moves, Works

LEMMA AttemptFailsMoves ==
  ASSUME Shape, NEW t \in Turn, NEW retryable \in BOOLEAN, AttemptFails(t, retryable)
  PROVE  \E b : MovesTo(t, b)
<1> DEFINE counted == [turn[t] EXCEPT !.requests = Counted(t)]
<1>1. LocalsInv(turn[t]) /\ turn[t].pc = "requesting" /\ Counted(t) \in Nat
      /\ UNCHANGED <<transcript, finished>>
  BY CountedType DEF Shape, AttemptFails, Is
<1>2. LocalsInv(counted) /\ Keeps(turn[t], counted)
  BY <1>1 DEF LocalsInv, Keeps, Fields
<1>3. CASE retryable /\ ShouldRetry(turn[t].attempt)
  <2> DEFINE b == [counted EXCEPT !.pc = "backoff"]
  <2>1. turn' = [turn EXCEPT ![t] = b]
    BY <1>3 DEF AttemptFails
  <2> HIDE DEF counted
  <2>2. LocalsInv(b) /\ Keeps(turn[t], b) /\ b.pc = "backoff"
    BY <1>2 DEF LocalsInv, Keeps, Fields, Open
  <2> HIDE DEF b
  <2>3. QED
    BY <1>1, <2>1, <2>2, WorkMoves DEF Loop
<1>4. CASE ~(retryable /\ ShouldRetry(turn[t].attempt))
  <2> DEFINE b == Over(counted, "failed")
  <2>1. turn' = [turn EXCEPT ![t] = b]
    BY <1>4 DEF AttemptFails
  <2> HIDE DEF counted
  <2>2. LocalsInv(b) /\ Keeps(counted, b) /\ b.pc = "failed"
    BY <1>2, OverLocals DEF Ended
  <2> HIDE DEF b
  <2>3. QED
    BY <1>1, <1>2, <2>1, <2>2 DEF MovesTo, Moves, GivesUp, Keeps, Open
<1>5. QED
  BY <1>3, <1>4

LEMMA StepMoves ==
  ASSUME Shape, NEW t \in Turn, Begin(t) \/ Progress(t) \/ Dropped(t)
  PROVE  \E b : MovesTo(t, b)
<1>0. LocalsInv(turn[t])
  BY DEF Shape
<1>1. CASE Begin(t)
  <2>1. CASE Become(t, "loading")
    <3> DEFINE b == [turn[t] EXCEPT !.pc = "loading"]
    <3>1. LocalsInv(b) /\ Begins(t, turn[t], b)
      BY <1>0, <1>1 DEF Begin, Begins, Is, LocalsInv, Keeps, Fields, Open
    <3>2. turn' = [turn EXCEPT ![t] = b]
      BY <2>1 DEF Become
    <3> HIDE DEF b
    <3>3. QED
      BY <3>1, <3>2 DEF MovesTo, Moves
  <2>2. CASE End(t, "failed")
    <3> DEFINE b == Over(turn[t], "failed")
    <3>1. LocalsInv(b) /\ Keeps(turn[t], b) /\ b.pc = "failed"
      BY <1>0, OverLocals DEF Ended
    <3>2. turn' = [turn EXCEPT ![t] = b]
      BY <2>2 DEF End
    <3> HIDE DEF b
    <3>3. QED
      BY <1>1, <3>1, <3>2 DEF MovesTo, Moves, Begin, Begins, Is
  <2>3. QED
    BY <1>1, <2>1, <2>2 DEF Begin
<1>2. CASE LoadMessages(t)
  <2>1. CASE turn' = [turn EXCEPT ![t].pc = "requesting", ![t].history = transcript]
    <3> DEFINE b == [turn[t] EXCEPT !.pc = "requesting", !.history = transcript]
    <3>1. LocalsInv(b) /\ Loads(turn[t], b)
      BY <1>0, <1>2 DEF LoadMessages, Loads, Is, LocalsInv, Fields, Open
    <3>2. turn' = [turn EXCEPT ![t] = b]
      BY <2>1
    <3> HIDE DEF b
    <3>3. QED
      BY <3>1, <3>2 DEF MovesTo, Moves
  <2>2. QED
    BY <1>2, <2>1, EndMoves DEF LoadMessages, Is, Open
<1>3. CASE \E retryable \in BOOLEAN : AttemptFails(t, retryable)
  BY <1>3, AttemptFailsMoves
<1>4. CASE Backoff(t)
  <2> DEFINE n == turn[t].attempt + 1
             b == [turn[t] EXCEPT !.pc = "requesting", !.attempt = n]
  <2>1. n \in Nat
    BY <1>0 DEF LocalsInv
  <2>2. turn' = [turn EXCEPT ![t] = b]
    BY <1>4 DEF Backoff
  <2> HIDE DEF n
  <2>3. LocalsInv(b) /\ Keeps(turn[t], b) /\ b.pc = "requesting"
    BY <1>0, <2>1 DEF LocalsInv, Keeps, Fields, Open
  <2> HIDE DEF b
  <2>4. QED
    BY <1>4, <2>2, <2>3, WorkMoves DEF Backoff, Is, Loop
<1>5. CASE Complete(t)
  <2>2. PICK calls : Responded(t, calls, Counted(t))
    BY <1>5 DEF Complete
  <2>3. turn[t].pc \in Loop /\ Counted(t) \in Nat /\ UNCHANGED <<transcript, finished>>
    BY <1>0, <1>5, CountedType DEF Complete, Is, Loop
  <2>4. QED
    BY <2>2, <2>3, RespondedMoves
<1>6. CASE StreamOpens(t)
  <2> DEFINE b == [turn[t] EXCEPT !.pc = "receiving", !.requests = Counted(t)]
  <2>1. turn' = [turn EXCEPT ![t] = b]
    BY <1>6 DEF StreamOpens
  <2>2. Counted(t) \in Nat
    BY <1>0, CountedType
  <2>3. LocalsInv(b) /\ Keeps(turn[t], b) /\ b.pc = "receiving"
    BY <1>0, <2>2 DEF LocalsInv, Keeps, Fields, Open
  <2> HIDE DEF b
  <2>4. QED
    BY <1>6, <2>1, <2>3, WorkMoves DEF StreamOpens, Is, Loop
<1>7. CASE ToolCallDelta(t)
  <2>1. PICK call \in ToolCall : turn' = [turn EXCEPT ![t].seen = @ \cup {call}]
    BY <1>7 DEF ToolCallDelta
  <2> DEFINE b == [turn[t] EXCEPT !.seen = @ \cup {call}]
  <2>2. turn' = [turn EXCEPT ![t] = b]
    BY <2>1
  <2>3. LocalsInv(b) /\ Keeps(turn[t], b) /\ b.pc = turn[t].pc
    BY <1>0 DEF LocalsInv, Keeps, Fields
  <2> HIDE DEF b
  <2>4. QED
    BY <1>7, <2>2, <2>3, WorkMoves DEF ToolCallDelta, Is, Loop
<1>8. CASE StreamEnds(t)
  <2>1. turn[t].pc \in Loop /\ turn[t].requests \in Nat /\ UNCHANGED <<transcript, finished>>
    BY <1>0, <1>8 DEF StreamEnds, Is, Loop, LocalsInv
  <2>3. PICK calls : Responded(t, calls, turn[t].requests)
    BY <1>8 DEF StreamEnds
  <2>4. QED
    BY <2>1, <2>3, RespondedMoves
<1>9. CASE StreamFails(t)
  BY <1>9, EndMoves DEF StreamFails, Is, Open
<1>10. CASE RunTool(t)
  <2>1. CASE End(t, "failed")
    BY <1>10, <2>1, EndMoves DEF RunTool, Is, Open
  <2>2. ASSUME NEW results, turn' = [turn EXCEPT ![t].results = results]
        PROVE  \E b : MovesTo(t, b)
    <3> DEFINE b == [turn[t] EXCEPT !.results = results]
    <3>1. turn' = [turn EXCEPT ![t] = b]
      BY <2>2
    <3>2. LocalsInv(b) /\ Keeps(turn[t], b) /\ b.pc = turn[t].pc
      BY <1>0 DEF LocalsInv, Keeps, Fields
    <3> HIDE DEF b
    <3>3. QED
      BY <1>10, <3>1, <3>2, WorkMoves DEF RunTool, Is, Loop
  <2>3. QED
    BY <1>10, <2>1, <2>2 DEF RunTool
<1>11. CASE NextRound(t)
  <2> DEFINE n == turn[t].rounds + 1
             b == [turn[t] EXCEPT !.pc = "requesting", !.rounds = n, !.attempt = 1]
  <2>1. n \in Nat
    BY <1>0 DEF LocalsInv
  <2>2. turn' = [turn EXCEPT ![t] = b]
    BY <1>11 DEF NextRound
  <2> HIDE DEF n
  <2>3. LocalsInv(b) /\ Keeps(turn[t], b) /\ b.pc = "requesting"
    BY <1>0, <2>1 DEF LocalsInv, Keeps, Fields, Open
  <2> HIDE DEF b
  <2>4. QED
    BY <1>11, <2>2, <2>3, WorkMoves DEF NextRound, Is, Loop
<1>12. CASE AppendMessages(t)
  <2> DEFINE b == [turn[t] EXCEPT !.pc = "stored"]
  <2>1. LocalsInv(b) /\ Stores(t, turn[t], b)
    BY <1>0, <1>12 DEF AppendMessages, Stores, Is, LocalsInv, Keeps, Fields, Open
  <2>2. turn' = [turn EXCEPT ![t] = b]
    BY <1>12 DEF AppendMessages, Become
  <2> HIDE DEF b
  <2>3. QED
    BY <2>1, <2>2 DEF MovesTo, Moves
<1>13. CASE StoreFails(t)
  <2> DEFINE b == Over(turn[t], "failed")
  <2>1. LocalsInv(b) /\ Keeps(turn[t], b) /\ b.pc = "failed"
    BY <1>0, OverLocals DEF Ended
  <2>2. turn' = [turn EXCEPT ![t] = b]
    BY <1>13 DEF StoreFails, End
  <2> HIDE DEF b
  <2>3. Tears(t, turn[t], b) \/ GivesUp(turn[t], b)
    BY <1>13, <2>1 DEF StoreFails, Is, Tears, GivesUp, Open
  <2>4. QED
    BY <2>1, <2>2, <2>3 DEF MovesTo, Moves
<1>14. CASE TurnComplete(t)
  <2> DEFINE b == Over(turn[t], "complete")
  <2>1. LocalsInv(b) /\ Keeps(turn[t], b) /\ b.pc = "complete"
    BY <1>0, OverLocals DEF Ended
  <2>2. turn' = [turn EXCEPT ![t] = b]
    BY <1>14 DEF TurnComplete, End
  <2> HIDE DEF b
  <2>3. QED
    BY <1>14, <2>1, <2>2 DEF MovesTo, Moves, Completes, TurnComplete, Is
<1>15. CASE Dropped(t)
  BY <1>0, <1>15, EndMoves DEF Dropped, LocalsInv
<1>16. QED
  BY <1>1, <1>2, <1>3, <1>4, <1>5, <1>6, <1>7, <1>8, <1>9, <1>10, <1>11, <1>12, <1>13,
     <1>14, <1>15 DEF Progress

----------------------------------------------------------------------------
(* The budget of requests. *)

(* A budget for each round, of which the attempts of this round are taken.  *)
Taken(l) == MaxAttempts * l.rounds + l.attempt

BudgetInv(l) ==
  /\ l.attempt \in 1 .. MaxAttempts /\ l.rounds \in 0 .. MaxRoundTrips
  /\ l.pc = "tools" => l.rounds < MaxRoundTrips
  /\ l.pc \in {"idle", "loading"} => l.requests = 0
  /\ l.pc = "requesting" => l.requests < Taken(l)
  /\ l.pc = "backoff" => l.attempt < MaxAttempts
  /\ l.pc \in {"backoff", "receiving", "tools", "storing", "stored"} => l.requests <= Taken(l)
  /\ l.requests <= MaxRequests

LEMMA LimitTypes ==
  /\ MaxAttempts \in Nat /\ MaxAttempts >= 1 /\ MaxRoundTrips \in Nat
  /\ MaxRequests \in Nat
BY ChatAssumption DEF MaxRequests

(* The attempts of all rounds are within the bound. *)
LEMMA RoundsFit ==
  ASSUME NEW r \in 0 .. MaxRoundTrips, NEW n \in 1 .. MaxAttempts
  PROVE  /\ MaxAttempts * r \in Nat
         /\ MaxAttempts * r + n <= MaxRequests
         /\ MaxAttempts * (r + 1) = MaxAttempts * r + MaxAttempts
<1>1. MaxAttempts * r \in Nat
  BY LimitTypes
<1>2. MaxAttempts * (r + 1) = MaxAttempts * r + MaxAttempts
  BY LimitTypes
<1>3. MaxAttempts * (r + 1) <= MaxAttempts * (MaxRoundTrips + 1)
  <2>1. PICK d \in Nat : MaxRoundTrips + 1 = (r + 1) + d
    <3>1. MaxRoundTrips - r \in Nat
      BY LimitTypes
    <3>2. MaxRoundTrips + 1 = (r + 1) + (MaxRoundTrips - r)
      BY LimitTypes
    <3>3. QED
      BY <3>1, <3>2
  <2>2. MaxAttempts * ((r + 1) + d) = MaxAttempts * (r + 1) + MaxAttempts * d
    BY LimitTypes
  <2>3. MaxAttempts * d \in Nat /\ MaxAttempts * (r + 1) \in Nat
    BY LimitTypes
  <2>4. QED
    BY <2>1, <2>2, <2>3
<1>4. QED
  BY <1>1, <1>2, <1>3, LimitTypes DEF MaxRequests

LEMMA TakenType ==
  ASSUME NEW l, BudgetInv(l)
  PROVE  Taken(l) \in Nat /\ Taken(l) <= MaxRequests
<1>1. l.rounds \in 0 .. MaxRoundTrips /\ l.attempt \in 1 .. MaxAttempts
  BY DEF BudgetInv
<1>2. MaxAttempts * l.rounds \in Nat /\ MaxAttempts * l.rounds + l.attempt <= MaxRequests
  BY <1>1, RoundsFit
<1>3. MaxAttempts * l.rounds + l.attempt \in Nat
  BY <1>1, <1>2, LimitTypes
<1>4. QED
  BY <1>2, <1>3 DEF Taken

(* What a request costs when one may be made. *)
LEMMA CountedFits ==
  ASSUME NEW t \in Turn, LocalsInv(turn[t]), BudgetInv(turn[t]), Is(t, "requesting")
  PROVE  Counted(t) \in Nat /\ Counted(t) <= Taken(turn[t]) /\ Counted(t) <= MaxRequests
<1>1. turn[t].requests < Taken(turn[t]) /\ turn[t].requests \in Nat
  BY DEF BudgetInv, LocalsInv, Is
<1>2. Taken(turn[t]) \in Nat /\ Taken(turn[t]) <= MaxRequests
  BY TakenType
<1>3. QED
  BY <1>1, <1>2, LimitTypes DEF Counted

LEMMA OverFits ==
  ASSUME NEW a, LocalsInv(a), NEW how \in Ended, a.requests <= MaxRequests
  PROVE  BudgetInv(Over(a, how))
<1>1. /\ Over(a, how).pc = how /\ Over(a, how).requests = a.requests
      /\ Over(a, how).attempt = 1 /\ Over(a, how).rounds = 0
  BY DEF LocalsInv, Over, Fields
<1>2. QED
  BY <1>1, LimitTypes DEF BudgetInv, Ended

LEMMA EndFits ==
  ASSUME Shape, NEW t \in Turn, BudgetInv(turn[t]), NEW how \in Ended, End(t, how)
  PROVE  BudgetInv(turn'[t])
<1>1. LocalsInv(turn[t]) /\ turn[t].requests <= MaxRequests
  BY DEF Shape, BudgetInv
<1>2. turn'[t] = Over(turn[t], how)
  BY OneMoves DEF End, Shape
<1>3. QED
  BY <1>1, <1>2, OverFits

LEMMA RespondedFits ==
  ASSUME Shape, NEW t \in Turn, BudgetInv(turn[t]), NEW calls, NEW requests \in Nat,
         requests <= Taken(turn[t]), Responded(t, calls, requests)
  PROVE  BudgetInv(turn'[t])
<1> DEFINE run == ShouldRunTools(t, calls)
           b == [turn[t] EXCEPT !.pc = IF run THEN "tools" ELSE "storing",
                                !.said = @ + 1, !.calls = IF run THEN calls ELSE << >>,
                                !.results = << >>, !.seen = {}, !.requests = requests]
<1>1. LocalsInv(turn[t])
  BY DEF Shape
<1>2. turn'[t] = b
  BY OneMoves DEF Responded, Shape
<1>3. run => turn[t].rounds < MaxRoundTrips
  BY DEF ShouldRunTools
<1> HIDE DEF run
<1>4. /\ b.pc = IF run THEN "tools" ELSE "storing"
      /\ b.attempt = turn[t].attempt /\ b.rounds = turn[t].rounds /\ b.requests = requests
  BY <1>1 DEF LocalsInv, Fields
<1> HIDE DEF b
<1>5. Taken(b) = Taken(turn[t])
  BY <1>4 DEF Taken
<1>6. requests <= MaxRequests
  BY TakenType, LimitTypes
<1>7. QED
  BY <1>2, <1>3, <1>4, <1>5, <1>6 DEF BudgetInv

LEMMA BudgetStep ==
  ASSUME Shape, NEW t \in Turn, BudgetInv(turn[t]), Begin(t) \/ Progress(t) \/ Dropped(t)
  PROVE  BudgetInv(turn'[t])
<1>0. LocalsInv(turn[t]) /\ Taken(turn[t]) \in Nat /\ Taken(turn[t]) <= MaxRequests
  BY TakenType DEF Shape
<1>1. CASE \E how \in Ended : End(t, how)
  BY <1>1, EndFits
<1>2. ASSUME NEW pc \in {"loading", "stored"}, Become(t, pc),
             pc = "loading" => Is(t, "idle"), pc = "stored" => Is(t, "storing")
      PROVE  BudgetInv(turn'[t])
  <2>1. turn'[t] = [turn[t] EXCEPT !.pc = pc]
    BY <1>2, OneMoves DEF Become, Shape
  <2>2. /\ turn'[t].pc = pc /\ turn'[t].attempt = turn[t].attempt
        /\ turn'[t].rounds = turn[t].rounds /\ turn'[t].requests = turn[t].requests
    BY <1>0, <2>1 DEF LocalsInv, Fields
  <2>3. QED
    BY <1>2, <2>2 DEF BudgetInv, Taken, Is
<1>3. CASE LoadMessages(t) /\ turn' = [turn EXCEPT ![t].pc = "requesting", ![t].history = transcript]
  <2>1. /\ turn'[t].pc = "requesting" /\ turn'[t].attempt = turn[t].attempt
        /\ turn'[t].rounds = turn[t].rounds /\ turn'[t].requests = turn[t].requests
    BY <1>0, <1>3 DEF LocalsInv, Fields, Shape
  <2>2. turn[t].requests = 0
    BY <1>3 DEF LoadMessages, Is, BudgetInv
  <2>3. Taken(turn'[t]) = Taken(turn[t])
    BY <2>1 DEF Taken
  <2>4. Taken(turn[t]) >= 1
    <3>1. turn[t].attempt \in 1 .. MaxAttempts /\ MaxAttempts * turn[t].rounds \in Nat
      BY RoundsFit DEF BudgetInv
    <3>2. QED
      BY <3>1, LimitTypes DEF Taken
  <2>5. QED
    BY <1>0, <2>1, <2>2, <2>3, <2>4, LimitTypes DEF BudgetInv
<1>4. ASSUME NEW retryable \in BOOLEAN, AttemptFails(t, retryable)
      PROVE  BudgetInv(turn'[t])
  <2> DEFINE counted == [turn[t] EXCEPT !.requests = Counted(t)]
  <2>1. Counted(t) \in Nat /\ Counted(t) <= Taken(turn[t]) /\ Counted(t) <= MaxRequests
    BY <1>0, <1>4, CountedFits DEF AttemptFails
  <2>2. LocalsInv(counted) /\ counted.requests = Counted(t)
        /\ counted.attempt = turn[t].attempt /\ counted.rounds = turn[t].rounds
    BY <1>0, <2>1 DEF LocalsInv, Fields
  <2>3. turn'[t] = IF retryable /\ ShouldRetry(turn[t].attempt)
                   THEN [counted EXCEPT !.pc = "backoff"] ELSE Over(counted, "failed")
    BY <1>4, OneMoves DEF AttemptFails, Shape
  <2> HIDE DEF counted
  <2>4. CASE retryable /\ ShouldRetry(turn[t].attempt)
    <3>1. /\ turn'[t].pc = "backoff" /\ turn'[t].attempt = turn[t].attempt
          /\ turn'[t].rounds = turn[t].rounds /\ turn'[t].requests = Counted(t)
      BY <2>2, <2>3, <2>4 DEF LocalsInv, Fields
    <3>2. QED
      BY <2>1, <2>4, <3>1 DEF BudgetInv, Taken, ShouldRetry
  <2>5. CASE ~(retryable /\ ShouldRetry(turn[t].attempt))
    BY <2>1, <2>2, <2>3, <2>5, OverFits DEF Ended
  <2>6. QED
    BY <2>4, <2>5
<1>5. CASE Backoff(t)
  <2>1. turn'[t] = [turn[t] EXCEPT !.pc = "requesting", !.attempt = turn[t].attempt + 1]
    BY <1>5, OneMoves DEF Backoff, Shape
  <2>2. /\ turn'[t].pc = "requesting" /\ turn'[t].attempt = turn[t].attempt + 1
        /\ turn'[t].rounds = turn[t].rounds /\ turn'[t].requests = turn[t].requests
    BY <1>0, <2>1 DEF LocalsInv, Fields
  <2>3. MaxAttempts * turn[t].rounds \in Nat
    BY RoundsFit DEF BudgetInv
  <2>4. QED
    BY <1>0, <1>5, <2>2, <2>3, LimitTypes DEF BudgetInv, Taken, Backoff, Is, LocalsInv
<1>6. CASE Complete(t)
  <2>1. Counted(t) \in Nat /\ Counted(t) <= Taken(turn[t])
    BY <1>0, <1>6, CountedFits DEF Complete
  <2>2. PICK calls : Responded(t, calls, Counted(t))
    BY <1>6 DEF Complete
  <2>3. QED
    BY <2>1, <2>2, RespondedFits
<1>7. CASE StreamOpens(t)
  <2>1. Counted(t) \in Nat /\ Counted(t) <= Taken(turn[t]) /\ Counted(t) <= MaxRequests
    BY <1>0, <1>7, CountedFits DEF StreamOpens
  <2>2. turn'[t] = [turn[t] EXCEPT !.pc = "receiving", !.requests = Counted(t)]
    BY <1>7, OneMoves DEF StreamOpens, Shape
  <2>3. /\ turn'[t].pc = "receiving" /\ turn'[t].attempt = turn[t].attempt
        /\ turn'[t].rounds = turn[t].rounds /\ turn'[t].requests = Counted(t)
    BY <1>0, <2>2 DEF LocalsInv, Fields
  <2>4. QED
    BY <2>1, <2>3 DEF BudgetInv, Taken
<1>8. CASE ToolCallDelta(t)
  <2>1. PICK call \in ToolCall : turn' = [turn EXCEPT ![t].seen = @ \cup {call}]
    BY <1>8 DEF ToolCallDelta
  <2>2. turn'[t] = [turn[t] EXCEPT !.seen = @ \cup {call}]
    BY <2>1, OneMoves DEF Shape
  <2>3. /\ turn'[t].pc = turn[t].pc /\ turn'[t].attempt = turn[t].attempt
        /\ turn'[t].rounds = turn[t].rounds /\ turn'[t].requests = turn[t].requests
    BY <1>0, <2>2 DEF LocalsInv, Fields
  <2>4. QED
    BY <2>3 DEF BudgetInv, Taken
<1>9. CASE StreamEnds(t)
  <2>1. turn[t].requests \in Nat /\ turn[t].requests <= Taken(turn[t])
    BY <1>0, <1>9 DEF StreamEnds, Is, LocalsInv, BudgetInv
  <2>2. PICK calls : Responded(t, calls, turn[t].requests)
    BY <1>9 DEF StreamEnds
  <2>3. QED
    BY <2>1, <2>2, RespondedFits
<1>10. ASSUME NEW results, turn' = [turn EXCEPT ![t].results = results]
       PROVE  BudgetInv(turn'[t])
  <2>1. turn'[t] = [turn[t] EXCEPT !.results = results]
    BY <1>10, OneMoves DEF Shape
  <2>2. /\ turn'[t].pc = turn[t].pc /\ turn'[t].attempt = turn[t].attempt
        /\ turn'[t].rounds = turn[t].rounds /\ turn'[t].requests = turn[t].requests
    BY <1>0, <2>1 DEF LocalsInv, Fields
  <2>3. QED
    BY <2>2 DEF BudgetInv, Taken
<1>11. CASE NextRound(t)
  <2>1. turn'[t] = [turn[t] EXCEPT !.pc = "requesting", !.rounds = turn[t].rounds + 1,
                                   !.attempt = 1]
    BY <1>11, OneMoves DEF NextRound, Shape
  <2>2. /\ turn'[t].pc = "requesting" /\ turn'[t].attempt = 1
        /\ turn'[t].rounds = turn[t].rounds + 1 /\ turn'[t].requests = turn[t].requests
    BY <1>0, <2>1 DEF LocalsInv, Fields
  <2>3. /\ MaxAttempts * turn[t].rounds \in Nat
        /\ MaxAttempts * (turn[t].rounds + 1) = MaxAttempts * turn[t].rounds + MaxAttempts
    BY RoundsFit DEF BudgetInv
  <2>4. /\ turn[t].requests <= MaxAttempts * turn[t].rounds + MaxAttempts
        /\ turn[t].rounds + 1 \in 0 .. MaxRoundTrips
    <3>1. /\ turn[t].pc = "tools" /\ turn[t].attempt \in 1 .. MaxAttempts
          /\ turn[t].requests \in Nat
          /\ turn[t].rounds \in 0 .. MaxRoundTrips /\ turn[t].rounds < MaxRoundTrips
          /\ turn[t].requests <= MaxAttempts * turn[t].rounds + turn[t].attempt
      BY <1>0, <1>11 DEF BudgetInv, Taken, NextRound, Is, LocalsInv
    <3>2. QED
      BY <2>3, <3>1, LimitTypes
  <2>5. turn'[t].requests < Taken(turn'[t])
    BY <1>0, <2>2, <2>3, <2>4, LimitTypes DEF Taken, LocalsInv
  <2>6. QED
    BY <2>2, <2>4, <2>5, LimitTypes DEF BudgetInv
<1>12. QED
  <2>1. CASE Begin(t)
    BY <1>1, <1>2, <2>1 DEF Begin, Ended
  <2>2. CASE LoadMessages(t)
    BY <1>1, <1>3, <2>2 DEF LoadMessages, Ended
  <2>3. CASE StreamFails(t) \/ StoreFails(t) \/ TurnComplete(t) \/ Dropped(t)
    BY <1>1, <2>3 DEF StreamFails, StoreFails, TurnComplete, Dropped, Ended
  <2>4. CASE RunTool(t)
    BY <1>1, <1>10, <2>4 DEF RunTool, Ended
  <2>5. CASE AppendMessages(t)
    BY <1>2, <2>5 DEF AppendMessages
  <2>6. QED
    BY <1>4, <1>5, <1>6, <1>7, <1>8, <1>9, <1>11, <2>1, <2>2, <2>3, <2>4, <2>5 DEF Progress

----------------------------------------------------------------------------
(* What the transcript holds. *)

TranscriptType ==
  /\ transcript \in Seq(Message)
  /\ \A i \in DOMAIN transcript :
       LET m == transcript[i]
       IN  /\ m.part <= turn[m.turn].said
           /\ turn[m.turn].pc \in {"stored"} \cup Ended

(* A turn that was stored is there, and nothing is there twice. *)
Has(t) == \A k \in 0 .. turn[t].said : [turn |-> t, part |-> k] \in Range(transcript)

Once == \A i, j \in DOMAIN transcript : transcript[i] = transcript[j] => i = j

TranscriptInv ==
  /\ TranscriptType /\ Once
  /\ \A t \in Turn : turn[t].pc \in {"stored", "complete"} => Has(t)

(* The messages of the turn of which transcript[i] is one stand together.   *)
TogetherAt(i) ==
  LET m == transcript[i]
  IN  /\ m.part > 0 =>
           i > 1 /\ transcript[i - 1] = [m EXCEPT !.part = @ - 1]
      /\ m.part < turn[m.turn].said /\ ~Is(m.turn, "failed") =>
           i < Len(transcript) /\ transcript[i + 1] = [m EXCEPT !.part = @ + 1]

LEMMA ConcatFacts ==
  ASSUME NEW S, NEW q \in Seq(S), NEW r \in Seq(S)
  PROVE  /\ q \o r \in Seq(S)
         /\ Len(q \o r) = Len(q) + Len(r)
         /\ DOMAIN (q \o r) = 1 .. Len(q) + Len(r)
         /\ \A i \in 1 .. Len(q) + Len(r) :
              (q \o r)[i] = IF i <= Len(q) THEN q[i] ELSE r[i - Len(q)]
OBVIOUS

LEMMA FunctionIsSeq ==
  ASSUME NEW S, NEW n \in Nat, NEW f \in [1 .. n -> S]
  PROVE  f \in Seq(S) /\ Len(f) = n
OBVIOUS

(* The first n messages of t. *)
First(t, n) == SubSeq(Persisted(t), 1, n)

LEMMA PersistedFacts ==
  ASSUME Shape, NEW t \in Turn
  PROVE  /\ Persisted(t) \in Seq(Message)
         /\ Len(Persisted(t)) = turn[t].said + 1
         /\ \A k \in 1 .. turn[t].said + 1 : Persisted(t)[k] = [turn |-> t, part |-> k - 1]
<1>1. turn[t].said + 1 \in Nat /\ turn[t].said \in Nat
  BY DEF Shape, LocalsInv
<1>2. Persisted(t) \in [1 .. turn[t].said + 1 -> Message]
  BY <1>1 DEF Persisted, Message
<1>3. Persisted(t) \in Seq(Message) /\ Len(Persisted(t)) = turn[t].said + 1
  BY <1>1, <1>2, FunctionIsSeq
<1>4. QED
  BY <1>3 DEF Persisted

LEMMA FirstFacts ==
  ASSUME Shape, NEW t \in Turn, NEW n \in 0 .. turn[t].said
  PROVE  /\ First(t, n) \in Seq(Message)
         /\ Len(First(t, n)) = n
         /\ \A k \in 1 .. n : First(t, n)[k] = [turn |-> t, part |-> k - 1]
<1>1. turn[t].said \in Nat
  BY DEF Shape, LocalsInv
<1>2. /\ Persisted(t) \in Seq(Message) /\ Len(Persisted(t)) = turn[t].said + 1
      /\ \A k \in 1 .. turn[t].said + 1 : Persisted(t)[k] = [turn |-> t, part |-> k - 1]
  BY PersistedFacts
<1> DEFINE q == Persisted(t)
<1> HIDE DEF q
<1>3. /\ SubSeq(q, 1, n) \in Seq(Message) /\ Len(SubSeq(q, 1, n)) = n
      /\ \A k \in 1 .. n : SubSeq(q, 1, n)[k] = q[k]
  <2>1. q \in Seq(Message) /\ Len(q) = turn[t].said + 1
    BY <1>2 DEF q
  <2>2. QED
    BY <1>1, <2>1
<1>4. QED
  BY <1>1, <1>2, <1>3 DEF First, q

LEMMA ElementOfSeqDomain ==
  ASSUME NEW S, NEW q \in Seq(S), NEW i \in DOMAIN q
  PROVE  q[i] \in S
OBVIOUS

LEMMA ElementType ==
  ASSUME transcript \in Seq(Message), NEW i \in DOMAIN transcript
  PROVE  /\ transcript[i] \in Message
         /\ transcript[i].turn \in Turn /\ transcript[i].part \in Nat
<1>1. transcript[i] \in Message
  BY ElementOfSeqDomain
<1>2. QED
  BY <1>1 DEF Message

(* A turn that is not yet stored has no message in the transcript. *)
LEMMA NotYetThere ==
  ASSUME TranscriptInv, NEW t \in Turn, turn[t].pc \in Open \ {"stored"},
         NEW i \in DOMAIN transcript
  PROVE  transcript[i].turn # t
BY DEF TranscriptInv, TranscriptType, Open, Ended

(* Steps that leave the transcript alone. *)
LEMMA KeptTranscript ==
  ASSUME Shape, TranscriptInv, NEW t \in Turn, NEW b, MovesTo(t, b),
         UNCHANGED transcript, ~Stores(t, turn[t], b)
  PROVE  /\ TranscriptInv'
         /\ (\A i \in DOMAIN transcript : TogetherAt(i))
              => (\A i \in DOMAIN transcript : TogetherAt(i))'
<1>1. /\ turn'[t] = b /\ DOMAIN turn' = Turn /\ \A u \in Turn \ {t} : turn'[u] = turn[u]
      /\ Moves(t, turn[t], b) /\ LocalsInv(b)
  BY OneMoves DEF MovesTo, Shape
<1>2. transcript \in Seq(Message)
  BY DEF TranscriptInv, TranscriptType
<1>3. turn[t].pc \in Open
  BY <1>1 DEF Moves, Begins, Loads, Works, Responds, Stores, Tears, GivesUp, Completes, Loop, Open
<1>4. turn[t].pc = "stored" => Keeps(turn[t], b) /\ b.pc \in Ended
  BY <1>1 DEF Moves, Begins, Loads, Works, Responds, Stores, Tears, GivesUp, Completes, Loop, Ended
<1>5. ASSUME NEW i \in DOMAIN transcript
      PROVE  LET u == transcript[i].turn
             IN  /\ u \in Turn /\ turn'[u].said = turn[u].said
                 /\ turn'[u].pc \in {"stored"} \cup Ended
                 /\ turn[u].pc = "failed" => turn'[u].pc = "failed"
  <2> DEFINE u == transcript[i].turn
  <2>1. u \in Turn /\ turn[u].pc \in {"stored"} \cup Ended
    BY <1>2, ElementType DEF TranscriptInv, TranscriptType
  <2>2. CASE u # t
    BY <1>1, <2>1, <2>2
  <2>3. CASE u = t
    <3>1. turn[t].pc = "stored"
      BY <1>3, <2>1, <2>3 DEF Open, Ended
    <3>2. QED
      BY <1>1, <1>4, <2>1, <2>3, <3>1 DEF Keeps
  <2>4. QED
    BY <2>2, <2>3
<1>6. TranscriptType'
  BY <1>2, <1>5 DEF TranscriptInv, TranscriptType
<1>7. Once'
  BY DEF TranscriptInv, Once
<1>8. ASSUME NEW u \in Turn, turn'[u].pc \in {"stored", "complete"}
      PROVE  Has(u)'
  <2>1. turn'[u].said = turn[u].said /\ turn[u].pc \in {"stored", "complete"}
    <3>1. CASE u # t
      BY <1>1, <1>8, <3>1
    <3>2. CASE u = t
      <4>1. turn[t].pc = "stored" /\ Keeps(turn[t], b)
        BY <1>1, <1>8, <3>2 DEF Moves, Begins, Loads, Works, Responds, Stores, Tears, GivesUp,
                                Completes, Loop
      <4>2. QED
        BY <1>1, <3>2, <4>1 DEF Keeps
    <3>3. QED
      BY <3>1, <3>2
  <2>2. QED
    BY <2>1 DEF TranscriptInv, Has
<1>9. ASSUME NEW i \in DOMAIN transcript, TogetherAt(i) PROVE TogetherAt(i)'
  BY <1>5, <1>9 DEF TogetherAt, Is
<1>10. QED
  BY <1>6, <1>7, <1>8, <1>9 DEF TranscriptInv

(* Turn t is stored, or a part of it. *)
LEMMA GrownTranscript ==
  ASSUME Shape, TranscriptInv, NEW t \in Turn, turn[t].pc = "storing",
         NEW b, turn' = [turn EXCEPT ![t] = b], LocalsInv(b), Keeps(turn[t], b),
         b.pc \in {"stored", "failed"},
         NEW n \in 0 .. turn[t].said + 1, b.pc = "stored" => n = turn[t].said + 1,
         NEW q \in Seq(Message), Len(q) = n,
         \A k \in 1 .. n : q[k] = [turn |-> t, part |-> k - 1],
         transcript' = transcript \o q
  PROVE  /\ TranscriptInv'
         /\ (\A i \in DOMAIN transcript : TogetherAt(i))
              => (\A i \in DOMAIN transcript : TogetherAt(i))'
<1>1. /\ turn'[t] = b /\ DOMAIN turn' = Turn /\ \A u \in Turn \ {t} : turn'[u] = turn[u]
      /\ b.said = turn[t].said /\ turn[t].said \in Nat
  BY OneMoves DEF Shape, LocalsInv, Keeps
<1> DEFINE L == Len(transcript)
<1>2. transcript \in Seq(Message) /\ L \in Nat /\ DOMAIN transcript = 1 .. L
  BY DEF TranscriptInv, TranscriptType
<1>3. /\ transcript' \in Seq(Message)
      /\ Len(transcript') = L + n
      /\ DOMAIN transcript' = 1 .. L + n
      /\ \A i \in 1 .. L + n :
           transcript'[i] = IF i <= L THEN transcript[i] ELSE q[i - L]
  <2> DEFINE r == transcript \o q
  <2>1. /\ r \in Seq(Message)
        /\ Len(r) = Len(transcript) + Len(q)
        /\ DOMAIN r = 1 .. Len(transcript) + Len(q)
        /\ \A i \in 1 .. Len(transcript) + Len(q) :
             r[i] = IF i <= Len(transcript) THEN transcript[i] ELSE q[i - Len(transcript)]
    BY <1>2, ConcatFacts
  <2>2. transcript' = r /\ Len(q) = n
    OBVIOUS
  <2> HIDE DEF r
  <2>3. QED BY <2>1, <2>2
<1>4. ASSUME NEW i \in 1 .. L
      PROVE  /\ transcript'[i] = transcript[i]
             /\ transcript[i].turn \in Turn \ {t} /\ transcript[i].part \in Nat
  BY <1>2, <1>3, ElementType, NotYetThere DEF Open
<1> n \in Nat /\ L \in Nat
  BY <1>1, <1>2
<1> HIDE DEF L
<1>5. ASSUME NEW k \in 0 .. n - 1
      PROVE  /\ transcript'[L + 1 + k] = [turn |-> t, part |-> k]
             /\ L + 1 + k \in DOMAIN transcript'
             /\ k \in Nat /\ k <= turn[t].said
  <2> DEFINE j == k + 1
             i == L + 1 + k
  <2>1. j \in 1 .. n /\ j - 1 = k /\ i \in 1 .. L + n /\ ~(i <= L) /\ i - L = j
    OBVIOUS
  <2> HIDE DEF j, i
  <2>2. transcript'[i] = q[i - L]
    BY <1>3, <2>1
  <2>3. q[j] = [turn |-> t, part |-> j - 1]
    BY <2>1
  <2>4. transcript'[i] = [turn |-> t, part |-> k]
    BY <2>1, <2>2, <2>3
  <2>5. k \in Nat /\ k <= turn[t].said
    BY <1>1
  <2>6. QED
    BY <1>3, <2>1, <2>4, <2>5 DEF i
<1>p. ASSUME NEW i \in L + 1 .. L + n
      PROVE  \E k \in 0 .. n - 1 : i = L + 1 + k
  <2>1. i - L - 1 \in 0 .. n - 1 /\ i = L + 1 + (i - L - 1)
    OBVIOUS
  <2>2. QED
    BY <2>1
<1>6. TranscriptType'
  <2>1. ASSUME NEW i \in DOMAIN transcript'
        PROVE  LET m == transcript'[i]
               IN  m.part <= turn'[m.turn].said /\ turn'[m.turn].pc \in {"stored"} \cup Ended
    <3>1. CASE i \in 1 .. L
      BY <1>1, <1>2, <1>4, <3>1 DEF TranscriptInv, TranscriptType
    <3>2. CASE i \in L + 1 .. L + n
      <4>1. PICK k \in 0 .. n - 1 : i = L + 1 + k
        BY <1>p, <3>2
      <4>2. transcript'[i] = [turn |-> t, part |-> k] /\ k <= turn[t].said
        BY <1>5, <4>1
      <4>3. QED
        BY <1>1, <4>2 DEF Ended
    <3>3. QED
      BY <1>2, <1>3, <2>1, <3>1, <3>2
  <2>2. QED
    BY <1>3, <2>1 DEF TranscriptType
<1>7. Once'
  <2>1. SUFFICES ASSUME NEW i \in DOMAIN transcript', NEW j \in DOMAIN transcript',
                        transcript'[i] = transcript'[j]
                 PROVE  i = j
    BY DEF Once
  <2>2. CASE i \in 1 .. L /\ j \in 1 .. L
    BY <1>2, <1>4, <2>1, <2>2 DEF TranscriptInv, Once
  <2>3. CASE i \in L + 1 .. L + n /\ j \in L + 1 .. L + n
    <3>1. PICK k \in 0 .. n - 1 : i = L + 1 + k
      BY <1>p, <2>3
    <3>2. PICK h \in 0 .. n - 1 : j = L + 1 + h
      BY <1>p, <2>3
    <3>3. [turn |-> t, part |-> k] = [turn |-> t, part |-> h]
      BY <1>5, <2>1, <3>1, <3>2
    <3>4. k = h
      BY <3>3
    <3>5. QED
      BY <3>1, <3>2, <3>4
  <2>4. CASE i \in 1 .. L /\ j \in L + 1 .. L + n
    <3>1. PICK k \in 0 .. n - 1 : j = L + 1 + k
      BY <1>p, <2>4
    <3>2. transcript'[j] = [turn |-> t, part |-> k]
      BY <1>5, <3>1
    <3>3. transcript'[j].turn = t
      BY <3>2
    <3>4. transcript'[i].turn # t
      BY <1>4, <2>4
    <3>5. QED
      BY <2>1, <3>3, <3>4
  <2>5. CASE j \in 1 .. L /\ i \in L + 1 .. L + n
    <3>1. PICK k \in 0 .. n - 1 : i = L + 1 + k
      BY <1>p, <2>5
    <3>2. transcript'[i] = [turn |-> t, part |-> k]
      BY <1>5, <3>1
    <3>3. transcript'[i].turn = t
      BY <3>2
    <3>4. transcript'[j].turn # t
      BY <1>4, <2>5
    <3>5. QED
      BY <2>1, <3>3, <3>4
  <2>6. QED
    BY <1>2, <1>3, <2>1, <2>2, <2>3, <2>4, <2>5
<1>8. ASSUME NEW u \in Turn, turn'[u].pc \in {"stored", "complete"}
      PROVE  Has(u)'
  <2>1. CASE u # t
    <3>1. Has(u) /\ turn'[u].said = turn[u].said
      BY <1>1, <1>8, <2>1 DEF TranscriptInv
    <3>2. Range(transcript) \subseteq Range(transcript')
      BY <1>2, <1>3, <1>4 DEF Range
    <3>3. QED
      BY <3>1, <3>2 DEF Has
  <2>2. CASE u = t
    <3>1. n = turn[t].said + 1
      BY <1>1, <1>8, <2>2
    <3>2. ASSUME NEW k \in 0 .. turn[t].said
          PROVE  [turn |-> t, part |-> k] \in Range(transcript')
      <4>1. k \in 0 .. n - 1
        BY <1>1, <3>1
      <4>2. QED
        BY <1>5, <4>1 DEF Range
    <3>3. QED
      BY <1>1, <2>2, <3>2 DEF Has
  <2>3. QED
    BY <2>1, <2>2
<1>9. ASSUME \A i \in DOMAIN transcript : TogetherAt(i), NEW i \in DOMAIN transcript'
      PROVE  TogetherAt(i)'
  <2>1. CASE i \in 1 .. L
    <3>1. TogetherAt(i) /\ transcript'[i] = transcript[i]
          /\ transcript[i].turn \in Turn \ {t}
      BY <1>2, <1>4, <1>9, <2>1
    <3>2. turn'[transcript[i].turn] = turn[transcript[i].turn]
      BY <1>1, <3>1
    <3>3. i > 1 => i - 1 \in 1 .. L /\ transcript'[i - 1] = transcript[i - 1]
      BY <1>2, <1>4, <2>1
    <3>4. i < L => i + 1 \in 1 .. L /\ transcript'[i + 1] = transcript[i + 1]
      BY <1>2, <1>4, <2>1
    <3>5. i < L => i < Len(transcript')
      BY <1>2, <1>3, <2>1
    <3>6. QED
      BY <3>1, <3>2, <3>3, <3>4, <3>5 DEF TogetherAt, Is
  <2>2. CASE i \in L + 1 .. L + n
    <3>1. PICK k \in 0 .. n - 1 : i = L + 1 + k
      BY <1>p, <2>2
    <3>2. transcript'[i] = [turn |-> t, part |-> k] /\ k \in Nat
      BY <1>5, <3>1
    <3>3. ASSUME k > 0
          PROVE  i > 1 /\ transcript'[i - 1] = [transcript'[i] EXCEPT !.part = @ - 1]
      <4>1. k - 1 \in 0 .. n - 1 /\ i - 1 = L + 1 + (k - 1) /\ i > 1
        BY <3>1, <3>3
      <4>2. transcript'[i - 1] = [turn |-> t, part |-> k - 1]
        BY <1>5, <4>1
      <4>3. QED
        BY <3>2, <4>1, <4>2
    <3>4. ASSUME k < turn'[t].said, turn'[t].pc # "failed"
          PROVE  i < Len(transcript') /\ transcript'[i + 1] = [transcript'[i] EXCEPT !.part = @ + 1]
      <4>1. n = turn[t].said + 1
        BY <1>1, <3>4
      <4>2. k + 1 \in 0 .. n - 1 /\ i + 1 = L + 1 + (k + 1) /\ i < L + n
        BY <1>1, <3>1, <3>4, <4>1
      <4>3. transcript'[i + 1] = [turn |-> t, part |-> k + 1]
        BY <1>5, <4>2
      <4>4. QED
        BY <1>3, <3>2, <4>2, <4>3
    <3>5. transcript'[i].part = k /\ transcript'[i].turn = t
      BY <3>2
    <3>6. QED
      BY <3>3, <3>4, <3>5 DEF TogetherAt, Is
  <2>3. QED
    BY <1>2, <1>3, <1>9, <2>1, <2>2
<1>10. QED
  BY <1>6, <1>7, <1>8, <1>9 DEF TranscriptInv

LEMMA TranscriptStep ==
  ASSUME Shape, TranscriptInv, NEW t \in Turn, NEW b, MovesTo(t, b)
  PROVE  /\ TranscriptInv'
         /\ (\A i \in DOMAIN transcript : TogetherAt(i))
              => (\A i \in DOMAIN transcript : TogetherAt(i))'
<1>1. CASE Stores(t, turn[t], b)
  <2> DEFINE q == Persisted(t)
             n == turn[t].said + 1
  <2>1. /\ q \in Seq(Message) /\ Len(q) = n
        /\ \A k \in 1 .. n : q[k] = [turn |-> t, part |-> k - 1]
    BY PersistedFacts
  <2>2. n \in 0 .. turn[t].said + 1
    BY DEF Shape, LocalsInv
  <2>3. /\ turn' = [turn EXCEPT ![t] = b] /\ LocalsInv(b) /\ Keeps(turn[t], b)
        /\ turn[t].pc = "storing" /\ b.pc = "stored" /\ transcript' = transcript \o q
    BY <1>1 DEF MovesTo, Stores
  <2> HIDE DEF q
  <2>4. QED
    BY <2>1, <2>2, <2>3, GrownTranscript
<1>2. CASE Tears(t, turn[t], b)
  <2>1. PICK n \in 0 .. turn[t].said : transcript' = transcript \o First(t, n)
    BY <1>2 DEF Tears, First
  <2> DEFINE q == First(t, n)
  <2>2. /\ q \in Seq(Message) /\ Len(q) = n
        /\ \A k \in 1 .. n : q[k] = [turn |-> t, part |-> k - 1]
    BY FirstFacts
  <2>3. n \in 0 .. turn[t].said + 1
    BY DEF Shape, LocalsInv
  <2>4. /\ turn' = [turn EXCEPT ![t] = b] /\ LocalsInv(b) /\ Keeps(turn[t], b)
        /\ turn[t].pc = "storing" /\ b.pc = "failed" /\ transcript' = transcript \o q
    BY <1>2, <2>1 DEF MovesTo, Tears
  <2> HIDE DEF q
  <2>5. QED
    BY <2>2, <2>3, <2>4, GrownTranscript
<1>3. CASE ~Stores(t, turn[t], b) /\ ~Tears(t, turn[t], b)
  <2>1. UNCHANGED transcript
    BY <1>3 DEF MovesTo, Moves, Begins, Loads, Works, Responds, GivesUp, Completes
  <2>2. QED
    BY <1>3, <2>1, KeptTranscript
<1>4. QED
  BY <1>1, <1>2, <1>3

----------------------------------------------------------------------------
(* What a turn sees of the turns that had returned when it began. *)

Sees(t) ==
  \A u \in finished[t] : \A k \in 0 .. turn[u].said :
    [turn |-> u, part |-> k] \in Range(turn[t].history)

HistoryInv ==
  /\ finished \in [Turn -> SUBSET Turn]
  /\ \A t \in Turn : \A u \in finished[t] : turn[u].pc = "complete"
  /\ \A t \in Turn : turn[t].pc \in {"idle", "loading"} => turn[t].said = 0
  /\ \A t \in Turn : turn[t].pc \in Loop \cup {"storing", "stored"} => Sees(t)
  /\ \A t \in Turn : turn[t].said > 0 => Sees(t)

LEMMA HistoryStep ==
  ASSUME Shape, TranscriptInv, HistoryInv, NEW t \in Turn, NEW b, MovesTo(t, b)
  PROVE  HistoryInv'
<1>1. /\ turn'[t] = b /\ DOMAIN turn' = Turn /\ \A u \in Turn \ {t} : turn'[u] = turn[u]
      /\ Moves(t, turn[t], b) /\ LocalsInv(b) /\ turn[t].said \in Nat
  BY OneMoves DEF MovesTo, Shape, LocalsInv
<1>2. turn[t].pc # "complete"
  BY <1>1 DEF Moves, Begins, Loads, Works, Responds, Stores, Tears, GivesUp, Completes, Loop, Open
<1>3. finished' \in [Turn -> SUBSET Turn] /\ \A u \in Turn \ {t} : finished'[u] = finished[u]
  BY <1>1 DEF HistoryInv, Moves, Begins, Loads, Works, Responds, Stores, Tears, GivesUp, Completes
<1>4. \/ finished'[t] = finished[t]
      \/ Begins(t, turn[t], b) /\ finished'[t] = {u \in Turn : turn[u].pc = "complete"}
  BY <1>1 DEF HistoryInv, Moves, Begins, Loads, Works, Responds, Stores, Tears, GivesUp,
              Completes, Is
<1>5. ASSUME NEW w \in Turn, NEW u \in finished'[w]
      PROVE  u \in Turn \ {t} /\ turn[u].pc = "complete" /\ turn'[u] = turn[u]
  <2>1. u \in Turn /\ turn[u].pc = "complete"
    <3>1. CASE finished'[w] = finished[w]
      BY <1>5, <3>1 DEF HistoryInv
    <3>2. CASE w = t /\ finished'[t] = {v \in Turn : turn[v].pc = "complete"}
      BY <1>5, <3>2
    <3>3. QED
      BY <1>3, <1>4, <3>1, <3>2
  <2>2. QED
    BY <1>1, <1>2, <2>1
<1>6. ASSUME NEW w \in Turn \ {t}, Sees(w) PROVE Sees(w)'
  BY <1>1, <1>3, <1>5, <1>6 DEF Sees
<1>7. ASSUME Keeps(turn[t], b) \/ b.history = turn[t].history, finished'[t] = finished[t], Sees(t)
      PROVE  Sees(t)'
  BY <1>1, <1>5, <1>7 DEF Sees, Keeps
<1>8. /\ b.pc \in {"idle", "loading"} => b.said = 0
      /\ b.pc \in Loop \cup {"storing", "stored"} => Sees(t)'
      /\ b.said > 0 => Sees(t)'
  <2>1. CASE Begins(t, turn[t], b)
    BY <2>1 DEF Begins, Keeps, HistoryInv, Loop
  <2>2. CASE Loads(turn[t], b)
    <3>1. finished'[t] = finished[t] /\ b.history = transcript /\ b.pc = "requesting"
      BY <2>2 DEF Loads
    <3>2. ASSUME NEW u \in finished'[t], NEW k \in 0 .. turn'[u].said
          PROVE  [turn |-> u, part |-> k] \in Range(turn'[t].history)
      <4>1. Has(u) /\ turn'[u] = turn[u]
        BY <1>5, <3>2 DEF TranscriptInv
      <4>2. QED
        BY <1>1, <3>1, <3>2, <4>1 DEF Has
    <3>3. Sees(t)'
      BY <3>2 DEF Sees
    <3>4. QED
      BY <3>1, <3>3
  <2>3. CASE Works(turn[t], b) \/ Responds(turn[t], b) \/ Stores(t, turn[t], b)
             \/ Tears(t, turn[t], b) \/ Completes(turn[t], b)
    <3>1. /\ turn[t].pc \in Loop \cup {"storing", "stored"} /\ b.history = turn[t].history
          /\ b.pc \notin {"idle", "loading"} /\ finished'[t] = finished[t]
      BY <2>3 DEF Works, Responds, Stores, Tears, Completes, Keeps, Loop
    <3>2. QED
      BY <1>7, <3>1 DEF HistoryInv
  <2>4. CASE GivesUp(turn[t], b)
    <3>1. /\ b.said = turn[t].said /\ Keeps(turn[t], b) /\ finished'[t] = finished[t]
          /\ b.pc \in {"failed", "dropped"}
      BY <2>4 DEF GivesUp, Keeps
    <3>2. QED
      BY <1>7, <3>1 DEF HistoryInv, Loop
  <2>5. QED
    BY <1>1, <2>1, <2>2, <2>3, <2>4 DEF Moves
<1>9. QED
  BY <1>1, <1>3, <1>5, <1>6, <1>8 DEF HistoryInv

----------------------------------------------------------------------------
(* What a turn asks for and is answered.  A turn that runs tools has the    *)
(* results of the first of its calls, and the rounds bound what it said.    *)

Locals ==
  [pc : {"idle", "loading", "requesting", "backoff", "receiving", "tools",
         "storing", "stored"} \cup Ended,
   history : Seq(Message),
   said : 0 .. MaxRoundTrips + 1,
   attempt : 1 .. MaxAttempts,
   rounds : 0 .. MaxRoundTrips,
   calls : Seq(ToolCall),
   results : Seq(ToolCall),
   seen : SUBSET ToolCall,
   requests : 0 .. MaxRequests + 1]

CallsInv(l) ==
  /\ IsFiniteSet(l.seen)
  /\ l.pc \in {"idle", "loading"} => l.rounds = 0 /\ l.said = 0 /\ l.results = l.calls
  /\ l.pc \in {"requesting", "backoff", "receiving"} => l.said = l.rounds
  /\ l.pc \in {"requesting", "backoff"} => l.results = l.calls
  /\ l.pc = "tools" =>
       /\ l.said = l.rounds + 1
       /\ Len(l.results) <= Len(l.calls)
       /\ \A i \in 1 .. Len(l.results) : l.results[i] = l.calls[i]

LEMMA OverCalls ==
  ASSUME NEW a \in Locals, NEW how \in Ended
  PROVE  Over(a, how) \in Locals /\ CallsInv(Over(a, how))
<1>1. IsFiniteSet({})
  BY FS_EmptySet
<1>2. Over(a, how) \in Locals
  <2>1. 1 \in 1 .. MaxAttempts /\ 0 \in 0 .. MaxRoundTrips
    BY LimitTypes
  <2>2. << >> \in Seq(ToolCall) /\ {} \in SUBSET ToolCall
    OBVIOUS
  <2>3. QED
    BY <2>1, <2>2 DEF Over, Locals
<1>3. Over(a, how).seen = {} /\ Over(a, how).pc = how
  BY DEF Over, Locals
<1>4. QED
  BY <1>1, <1>2, <1>3 DEF CallsInv, Ended

LEMMA RespondedCalls ==
  ASSUME turn \in [Turn -> Locals], NEW t \in Turn, NEW calls \in Seq(ToolCall),
         NEW requests \in 0 .. MaxRequests + 1, turn[t].said = turn[t].rounds,
         Responded(t, calls, requests)
  PROVE  turn'[t] \in Locals /\ CallsInv(turn'[t])
<1> DEFINE run == ShouldRunTools(t, calls)
           l == turn[t]
           pc == IF run THEN "tools" ELSE "storing"
           c == IF run THEN calls ELSE << >>
           said == l.said + 1
           b == [l EXCEPT !.pc = pc, !.said = said, !.calls = c,
                          !.results = << >>, !.seen = {}, !.requests = requests]
<1>1. turn'[t] = b
  BY DEF Responded
<1>2. c \in Seq(ToolCall) /\ pc \in {"tools", "storing"}
  OBVIOUS
<1>3. l \in Locals
  OBVIOUS
<1>4. said \in 0 .. MaxRoundTrips + 1 /\ said = l.rounds + 1
  BY <1>3, LimitTypes DEF Locals
<1> HIDE DEF run, l, pc, c, said
<1>5. b \in Locals
  <2>1. << >> \in Seq(ToolCall) /\ {} \in SUBSET ToolCall
    OBVIOUS
  <2>2. QED BY <1>2, <1>3, <1>4, <2>1 DEF Locals
<1>6. /\ b.pc = pc /\ b.said = said /\ b.rounds = l.rounds /\ b.seen = {} /\ b.results = << >>
      /\ b.calls = c
  BY <1>3 DEF Locals
<1> HIDE DEF b
<1>7. Len(<< >>) = 0 /\ Len(c) \in Nat /\ IsFiniteSet({})
  BY <1>2, FS_EmptySet
<1>8. CallsInv(b)
  BY <1>2, <1>4, <1>6, <1>7 DEF CallsInv
<1>9. QED
  BY <1>1, <1>5, <1>8

(* The calls of one response are a sequence. *)
LEMMA CallsType ==
  ASSUME NEW S \in SUBSET ToolCall, IsFiniteSet(S), NEW calls \in SetToSeqs(S)
  PROVE  calls \in Seq(ToolCall)
<1>1. Cardinality(S) \in Nat
  BY FS_CardinalityType
<1>2. calls \in [1 .. Cardinality(S) -> ToolCall]
  BY DEF SetToSeqs
<1>3. QED
  BY <1>1, <1>2

LEMMA CallsStep ==
  ASSUME turn \in [Turn -> Locals], transcript \in Seq(Message), NEW t \in Turn,
         CallsInv(turn[t]), BudgetInv(turn[t]), Begin(t) \/ Progress(t) \/ Dropped(t)
  PROVE  turn'[t] \in Locals /\ CallsInv(turn'[t])
<1> DEFINE l == turn[t]
<1>0. l \in Locals /\ CallsInv(l) /\ BudgetInv(l)
  OBVIOUS
<1>c. Counted(t) \in 0 .. MaxRequests + 1
  BY <1>0, LimitTypes DEF Counted, Locals
<1>1. CASE \E how \in Ended : End(t, how)
  BY <1>0, <1>1, OverCalls DEF End
<1>2. ASSUME NEW pc \in {"loading", "stored"}, Become(t, pc),
             pc = "loading" => Is(t, "idle"), pc = "stored" => Is(t, "storing")
      PROVE  turn'[t] \in Locals /\ CallsInv(turn'[t])
  <2>1. turn'[t] = [l EXCEPT !.pc = pc] /\ (pc = "loading" => l.pc = "idle")
    BY <1>2 DEF Become, Is
  <2> HIDE DEF l
  <2>2. [l EXCEPT !.pc = pc] \in Locals
    BY <1>0 DEF Locals
  <2>3. CallsInv([l EXCEPT !.pc = pc])
    BY <1>0, <2>1 DEF CallsInv, Locals
  <2>4. QED BY <2>1, <2>2, <2>3
<1>3. CASE LoadMessages(t) /\ turn' = [turn EXCEPT ![t].pc = "requesting", ![t].history = transcript]
  <2> DEFINE b == [l EXCEPT !.pc = "requesting", !.history = transcript]
  <2>1. turn'[t] = b /\ l.pc = "loading"
    BY <1>3 DEF LoadMessages, Is
  <2> HIDE DEF l
  <2>2. b \in Locals
    BY <1>0 DEF Locals
  <2>3. CallsInv(b)
    BY <1>0, <2>1 DEF CallsInv, Locals
  <2>4. QED BY <2>1, <2>2, <2>3
<1>4. ASSUME NEW retryable \in BOOLEAN, AttemptFails(t, retryable)
      PROVE  turn'[t] \in Locals /\ CallsInv(turn'[t])
  <2> DEFINE n == Counted(t)
             counted == [l EXCEPT !.requests = n]
             b == [counted EXCEPT !.pc = "backoff"]
  <2>1. l.pc = "requesting" /\ (turn'[t] = b \/ turn'[t] = Over(counted, "failed"))
    BY <1>4 DEF AttemptFails, Is
  <2> HIDE DEF l, n
  <2>2. n \in 0 .. MaxRequests + 1
    BY <1>c DEF n
  <2>3. counted \in Locals
    BY <1>0, <2>2 DEF Locals
  <2>4. b \in Locals
    BY <1>0, <2>2 DEF Locals
  <2>5. CallsInv(b)
    BY <1>0, <2>1 DEF CallsInv, Locals
  <2>6. QED BY <2>1, <2>3, <2>4, <2>5, OverCalls DEF Ended
<1>5. CASE Backoff(t)
  <2> DEFINE n == l.attempt + 1
             b == [l EXCEPT !.pc = "requesting", !.attempt = n]
  <2>1. l.pc = "backoff" /\ turn'[t] = b
    BY <1>5 DEF Backoff, Is
  <2> HIDE DEF l
  <2>2. n \in 1 .. MaxAttempts
    BY <1>0, <2>1, LimitTypes DEF BudgetInv
  <2> HIDE DEF n
  <2>3. b \in Locals
    BY <1>0, <2>2 DEF Locals
  <2>4. CallsInv(b)
    BY <1>0, <2>1 DEF CallsInv, Locals
  <2>5. QED BY <2>1, <2>3, <2>4
<1>6. CASE Complete(t)
  <2>s. PICK ids \in SUBSET ToolCall :
          IsFiniteSet(ids) /\ \E calls \in SetToSeqs(ids) : Responded(t, calls, Counted(t))
    BY <1>6 DEF Complete
  <2>1. PICK calls \in SetToSeqs(ids) : Responded(t, calls, Counted(t))
    BY <2>s
  <2>2. calls \in Seq(ToolCall) /\ l.said = l.rounds
    BY <1>0, <1>6, <2>s, CallsType DEF Complete, Is, CallsInv
  <2>3. QED
    BY <1>c, <2>1, <2>2, RespondedCalls
<1>7. CASE StreamOpens(t)
  <2> DEFINE n == Counted(t)
             b == [l EXCEPT !.pc = "receiving", !.requests = n]
  <2>1. l.pc = "requesting" /\ turn'[t] = b
    BY <1>7 DEF StreamOpens, Is
  <2> HIDE DEF l, n
  <2>2. n \in 0 .. MaxRequests + 1
    BY <1>c DEF n
  <2>3. b \in Locals
    BY <1>0, <2>2 DEF Locals
  <2>4. CallsInv(b)
    BY <1>0, <2>1 DEF CallsInv, Locals
  <2>5. QED BY <2>1, <2>3, <2>4
<1>8. CASE ToolCallDelta(t)
  <2>1. PICK call \in ToolCall : turn' = [turn EXCEPT ![t].seen = @ \cup {call}]
    BY <1>8 DEF ToolCallDelta
  <2> DEFINE s == l.seen \cup {call}
             b == [l EXCEPT !.seen = s]
  <2>2. turn'[t] = b /\ l.pc = "receiving"
    BY <1>8, <2>1 DEF ToolCallDelta, Is
  <2> HIDE DEF l
  <2>3. s \subseteq ToolCall /\ IsFiniteSet(s)
    BY <1>0, FS_AddElement DEF Locals, CallsInv
  <2> HIDE DEF s
  <2>4. b \in Locals
    BY <1>0, <2>3 DEF Locals
  <2>5. CallsInv(b)
    BY <1>0, <2>2, <2>3 DEF CallsInv, Locals
  <2>6. QED BY <2>2, <2>4, <2>5
<1>9. CASE StreamEnds(t)
  <2>1. PICK calls \in SetToSeqs(turn[t].seen) : Responded(t, calls, turn[t].requests)
    BY <1>9 DEF StreamEnds
  <2>2. /\ turn[t].seen \in SUBSET ToolCall /\ IsFiniteSet(turn[t].seen)
        /\ turn[t].requests \in 0 .. MaxRequests + 1
    BY <1>0 DEF Locals, CallsInv
  <2>3. calls \in Seq(ToolCall) /\ l.said = l.rounds
    <3> DEFINE seen == turn[t].seen
    <3>1. l.said = l.rounds
      BY <1>0, <1>9 DEF StreamEnds, Is, CallsInv
    <3>2. PICK S \in SUBSET ToolCall : S = seen
      BY <2>2
    <3>3. calls \in Seq(ToolCall)
      BY <2>1, <2>2, <3>2, CallsType
    <3>4. QED BY <3>1, <3>3
  <2>4. QED
    BY <2>1, <2>2, <2>3, RespondedCalls
<1>10. CASE RunTool(t)
  <2>1. CASE End(t, "failed")
    BY <1>1, <2>1 DEF Ended
  <2>2. CASE turn' = [turn EXCEPT ![t].results = Append(@, turn[t].calls[Len(@) + 1])]
    <3> DEFINE n == Len(l.results)
               e == l.calls[n + 1]
               r == Append(l.results, e)
               b == [l EXCEPT !.results = r]
    <3>1. l.pc = "tools" /\ turn'[t] = b /\ n < Len(l.calls)
      BY <1>10, <2>2 DEF RunTool, Is
    <3> HIDE DEF l
    <3>2. l.results \in Seq(ToolCall) /\ l.calls \in Seq(ToolCall)
      BY <1>0 DEF Locals
    <3>3. e \in ToolCall /\ n \in Nat /\ Len(l.calls) \in Nat
      BY <3>1, <3>2
    <3>4. \A i \in 1 .. n : l.results[i] = l.calls[i]
      BY <1>0, <3>1 DEF CallsInv
    <3> HIDE DEF e
    <3>5. /\ r \in Seq(ToolCall) /\ Len(r) = n + 1
          /\ \A i \in 1 .. n : r[i] = l.results[i]
          /\ r[n + 1] = e
      BY <3>2, <3>3
    <3> HIDE DEF r, n
    <3>6. \A i \in 1 .. n + 1 : r[i] = l.calls[i]
      BY <3>3, <3>4, <3>5 DEF e
    <3>7. b \in Locals
      BY <1>0, <3>5 DEF Locals
    <3>8. /\ b.pc = l.pc /\ b.said = l.said /\ b.rounds = l.rounds /\ b.seen = l.seen
          /\ b.calls = l.calls /\ b.results = r
      BY <1>0 DEF Locals
    <3>9. Len(r) <= Len(l.calls)
      BY <3>1, <3>3, <3>5
    <3> HIDE DEF b
    <3>10. CallsInv(b)
      BY <1>0, <3>1, <3>5, <3>6, <3>8, <3>9 DEF CallsInv
    <3>11. QED BY <3>1, <3>7, <3>10
  <2>3. QED BY <1>10, <2>1, <2>2 DEF RunTool
<1>11. CASE NextRound(t)
  <2> DEFINE n == l.rounds + 1
             b == [l EXCEPT !.pc = "requesting", !.rounds = n, !.attempt = 1]
  <2>1. l.pc = "tools" /\ turn'[t] = b /\ Len(l.results) >= Len(l.calls)
    BY <1>11 DEF NextRound, Is
  <2> HIDE DEF l
  <2>2. n \in 0 .. MaxRoundTrips /\ l.said = n
    BY <1>0, <2>1, LimitTypes DEF BudgetInv, CallsInv
  <2>3. l.results = l.calls
    <3>1. l.results \in Seq(ToolCall) /\ l.calls \in Seq(ToolCall)
      BY <1>0 DEF Locals
    <3>2. /\ Len(l.results) = Len(l.calls)
          /\ \A i \in 1 .. Len(l.results) : l.results[i] = l.calls[i]
      BY <1>0, <2>1, <3>1 DEF CallsInv
    <3>3. QED BY <3>1, <3>2
  <2> HIDE DEF n
  <2>4. b \in Locals
    <3>1. 1 \in 1 .. MaxAttempts
      BY LimitTypes
    <3>2. QED BY <1>0, <2>2, <3>1 DEF Locals
  <2>5. CallsInv(b)
    BY <1>0, <2>2, <2>3 DEF CallsInv, Locals
  <2>6. QED BY <2>1, <2>4, <2>5
<1>12. QED
  BY <1>1, <1>2, <1>3, <1>4, <1>5, <1>6, <1>7, <1>8, <1>9, <1>10, <1>11
     DEF Begin, Progress, Dropped, LoadMessages, StreamFails, AppendMessages, StoreFails,
         TurnComplete, Ended

----------------------------------------------------------------------------
Inv ==
  /\ Shape
  /\ turn \in [Turn -> Locals]
  /\ \A t \in Turn : BudgetInv(turn[t]) /\ CallsInv(turn[t])
  /\ TranscriptInv
  /\ \A i \in DOMAIN transcript : TogetherAt(i)
  /\ HistoryInv

LEMMA InitInv == Init => Inv
<1> SUFFICES ASSUME Init PROVE Inv
  OBVIOUS
<1>1. Shape
  BY InitShape
<1>2. \A t \in Turn : BudgetInv(turn[t])
  BY LimitTypes DEF Init, BudgetInv, Taken
<1>c. \A t \in Turn : CallsInv(turn[t])
  BY FS_EmptySet DEF Init, CallsInv
<1>l. turn \in [Turn -> Locals]
  <2>1. /\ 0 \in 0 .. MaxRoundTrips + 1 /\ 0 \in 0 .. MaxRoundTrips /\ 1 \in 1 .. MaxAttempts
        /\ 0 \in 0 .. MaxRequests + 1
    BY LimitTypes
  <2>2. << >> \in Seq(Message) /\ << >> \in Seq(ToolCall) /\ {} \in SUBSET ToolCall
    OBVIOUS
  <2>3. QED BY <2>1, <2>2 DEF Init, Locals
<1>3. transcript \in Seq(Message) /\ DOMAIN transcript = {}
  BY DEF Init
<1>4. TranscriptInv
  BY <1>3 DEF TranscriptInv, TranscriptType, Once, Init
<1>5. HistoryInv
  BY DEF HistoryInv, Init, Loop
<1>6. QED
  BY <1>1, <1>2, <1>c, <1>l, <1>3, <1>4, <1>5 DEF Inv

LEMMA NextInv == Inv /\ [Next]_vars => Inv'
<1> SUFFICES ASSUME Inv, [Next]_vars PROVE Inv'
  OBVIOUS
<1>1. ASSUME NEW t \in Turn, Begin(t) \/ Progress(t) \/ Dropped(t)
      PROVE  Inv'
  <2>1. PICK b : MovesTo(t, b)
    BY <1>1, StepMoves DEF Inv
  <2>2. /\ turn'[t] = b /\ DOMAIN turn' = Turn /\ \A u \in Turn \ {t} : turn'[u] = turn[u]
        /\ LocalsInv(b)
    BY <2>1, OneMoves DEF MovesTo, Inv, Shape
  <2>3. Shape'
    BY <2>2 DEF Inv, Shape
  <2>4. (\A u \in Turn : BudgetInv(turn[u]) /\ CallsInv(turn[u]))' /\ turn' \in [Turn -> Locals]
    <3>1. BudgetInv(turn'[t])
      BY <1>1, BudgetStep DEF Inv
    <3>2. transcript \in Seq(Message)
      BY DEF Inv, TranscriptInv, TranscriptType
    <3>3. turn'[t] \in Locals /\ CallsInv(turn'[t])
      BY <1>1, <3>2, CallsStep DEF Inv
    <3>4. \A u \in Turn : turn'[u] \in Locals
      BY <2>2, <3>3 DEF Inv
    <3>5. turn' = [turn EXCEPT ![t] = b]
      BY <2>1 DEF MovesTo
    <3>6. turn' \in [Turn -> Locals]
      BY <2>2, <3>4, <3>5 DEF Inv
    <3>7. \A u \in Turn : BudgetInv(turn'[u]) /\ CallsInv(turn'[u])
      BY <2>2, <3>1, <3>3 DEF Inv
    <3>8. QED
      BY <3>6, <3>7 DEF BudgetInv, CallsInv, Taken
  <2>5. TranscriptInv' /\ (\A i \in DOMAIN transcript : TogetherAt(i))'
    BY <2>1, TranscriptStep DEF Inv
  <2>6. HistoryInv'
    BY <2>1, HistoryStep DEF Inv
  <2>7. QED
    BY <2>3, <2>4, <2>5, <2>6 DEF Inv
<1>2. CASE UNCHANGED vars
  BY <1>2 DEF vars, Inv, Shape, TranscriptInv, TranscriptType, Once, Has, TogetherAt, Is,
              HistoryInv, Sees
<1>3. QED
  BY <1>1, <1>2 DEF Next

----------------------------------------------------------------------------
(* The variables keep their types: the counters of a turn stay within the    *)
(* limits of its service.                                                    *)
THEOREM TurnTyped == Spec => []TypeOK
<1>1. Inv => TypeOK
  BY DEF Inv, TypeOK, Locals, TranscriptInv, TranscriptType, HistoryInv
<1>2. QED
  BY InitInv, NextInv, <1>1, PTL DEF Spec

(* A request after a round of tools carries the results of that round's      *)
(* calls, in order, and nothing else (service.rs:237, 393).                  *)
THEOREM ResultsAnswerCallsHolds == Spec => []ResultsAnswerCalls
<1>1. Inv => ResultsAnswerCalls
  BY DEF Inv, CallsInv, ResultsAnswerCalls
<1>2. QED
  BY InitInv, NextInv, <1>1, PTL DEF Spec

(* One turn never calls the provider more than MaxAttempts times for each of *)
(* MaxRoundTrips + 1 responses (service.rs:301, resilience.rs:103).          *)
THEOREM BoundedRequestsHolds == Spec => []BoundedRequests
<1>1. Inv => BoundedRequests
  BY DEF Inv, BudgetInv, BoundedRequests
<1>2. QED
  BY InitInv, NextInv, <1>1, PTL DEF Spec

(* However many turns overlap, each stands in the transcript in one piece,   *)
(* and complete unless its append failed (service.rs:221, 421).              *)
THEOREM WholeTurnsHolds == Spec => []WholeTurns
<1>1. Inv => WholeTurns
  BY DEF Inv, WholeTurns, TogetherAt
<1>2. QED
  BY InitInv, NextInv, <1>1, PTL DEF Spec

LEMMA AskedOnce ==
  ASSUME Inv, NEW t \in Turn
  PROVE  LET asked == IndicesOf([turn |-> t, part |-> 0])
         IN  /\ Cardinality(asked) <= 1
             /\ Is(t, "complete") => asked # {}
<1> DEFINE m == [turn |-> t, part |-> 0]
           asked == IndicesOf(m)
<1>1. \A i, j \in asked : i = j
  BY DEF IndicesOf, Inv, TranscriptInv, Once
<1>2. Cardinality(asked) <= 1
  <2>1. CASE asked = {}
    BY <2>1, FS_EmptySet
  <2>2. CASE asked # {}
    <3>1. PICK i : asked = {i}
      BY <1>1, <2>2
    <3>2. QED
      BY <3>1, FS_Singleton
  <2>3. QED
    BY <2>1, <2>2
<1>3. ASSUME Is(t, "complete") PROVE asked # {}
  <2>1. Has(t) /\ turn[t].said \in Nat
    BY <1>3 DEF Inv, TranscriptInv, Is, Shape, LocalsInv
  <2>2. m \in Range(transcript)
    BY <2>1 DEF Has
  <2>3. QED
    BY <2>2 DEF Range, IndicesOf
<1>4. QED
  BY <1>2, <1>3

(* A turn that returned is in the transcript, and none is in it twice        *)
(* (service.rs:221, 421).                                                    *)
THEOREM PersistedOnceHolds == Spec => []PersistedOnce
<1>1. Inv => PersistedOnce
  BY AskedOnce DEF PersistedOnce
<1>2. QED
  BY InitInv, NextInv, <1>1, PTL DEF Spec

(* A turn is answered with the messages of every turn that had returned      *)
(* before it began, whatever else is under way (service.rs:448).             *)
THEOREM HistorySeesFinishedHolds == Spec => []HistorySeesFinished
<1>1. Inv => HistorySeesFinished
  BY DEF Inv, HistoryInv, Sees, HistorySeesFinished
<1>2. QED
  BY InitInv, NextInv, <1>1, PTL DEF Spec

=============================================================================
