---------------------------- MODULE HarnessProofs ---------------------------
(***************************************************************************)
(* Proofs about Harness: its type invariant, that no run overwrites a      *)
(* session or declares completion early, that features pass only when      *)
(* approved, how many turns a feature and how many features a run gets,    *)
(* and that what the checkpoint log tells of a run is true and complete.   *)
(***************************************************************************)
EXTENDS Harness, FiniteSetTheorems, TLAPS

----------------------------------------------------------------------------

LEMMA ElementOfSeqDomain ==
  ASSUME NEW S, NEW q \in Seq(S), NEW i \in DOMAIN q
  PROVE  q[i] \in S
OBVIOUS

(* Appending makes a sequence longer by its last element and keeps the rest. *)
LEMMA AppendFacts ==
  ASSUME NEW S, NEW q \in Seq(S), NEW e \in S
  PROVE  /\ Append(q, e) \in Seq(S)
         /\ Append(q, e) # << >>
         /\ Len(Append(q, e)) = Len(q) + 1
         /\ DOMAIN Append(q, e) = DOMAIN q \cup {Len(q) + 1}
         /\ \A i \in DOMAIN q : Append(q, e)[i] = q[i]
         /\ Append(q, e)[Len(q) + 1] = e
<1>1. /\ Append(q, e) \in Seq(S)
      /\ Len(Append(q, e)) = Len(q) + 1
      /\ \A i \in 1 .. Len(q) : Append(q, e)[i] = q[i]
      /\ Append(q, e)[Len(q) + 1] = e
  OBVIOUS
<1>2. Append(q, e) # << >>
  BY <1>1
<1>3. QED
  BY <1>1, <1>2

(* What the writes of the backend do to a well-typed session. *)

LEMMA InitializeType ==
  ASSUME NEW s \in SessionType, NEW r \in Run,
         NEW list \in Seq(FeatureRecord(Feature))
  PROVE  InitializeIfMissing(s, r, list, r, Started(r)) \in SessionType
<1>1. r \in RunId /\ Started(r) \in [run : RunId, status : RunStatus]
  BY DEF RunId, Started, RunStatus
<1>2. Append(s.progress, r) \in Seq(RunId)
  BY <1>1 DEF SessionType
<1>3. Append(s.checkpoints, Started(r)) \in Seq([run : RunId, status : RunStatus])
  BY <1>1 DEF SessionType
<1>4. QED
  BY <1>1, <1>2, <1>3 DEF InitializeIfMissing, SessionType

LEMMA RecordCheckpointType ==
  ASSUME NEW s \in SessionType, NEW c \in [run : RunId, status : RunStatus]
  PROVE  RecordCheckpoint(s, c) \in SessionType
<1>1. Append(s.checkpoints, c) \in Seq([run : RunId, status : RunStatus])
  BY DEF SessionType
<1>2. QED
  BY <1>1 DEF RecordCheckpoint, SessionType

LEMMA AppendProgressType ==
  ASSUME NEW s \in SessionType, NEW r \in Run
  PROVE  AppendProgress(s, r) \in SessionType
<1>1. Append(s.progress, r) \in Seq(RunId)
  BY DEF SessionType, RunId
<1>2. QED
  BY <1>1 DEF AppendProgress, SessionType

(* An update changes no id, and turns no flag but those of the feature asked *)
(* for.                                                                      *)
LEMMA UpdateFeaturePassEffect ==
  ASSUME NEW s \in SessionType, NEW f \in Feature
  PROVE  LET t == UpdateFeaturePass(s, f, TRUE) IN
         /\ t \in SessionType
         /\ t.manifest = s.manifest
         /\ t.checkpoints = s.checkpoints
         /\ DOMAIN t.features = DOMAIN s.features
         /\ \A i \in DOMAIN s.features :
              /\ t.features[i].id = s.features[i].id
              /\ t.features[i].passes => s.features[i].passes \/ s.features[i].id = f
              /\ s.features[i].passes => t.features[i].passes
<1> DEFINE fs == s.features
           gs == [i \in DOMAIN fs |->
                   IF fs[i].id = f /\ \A j \in 1 .. (i - 1) : fs[j].id # f
                   THEN [fs[i] EXCEPT !.passes = TRUE]
                   ELSE fs[i]]
<1>1. fs \in Seq(FeatureRecord(Feature))
  BY DEF SessionType
<1>2. \A i \in DOMAIN fs : fs[i] \in [id : Feature, passes : BOOLEAN]
  <2> HIDE DEF fs, gs
  <2>1. \A i \in DOMAIN fs : fs[i] \in FeatureRecord(Feature)
    BY <1>1, ElementOfSeqDomain
  <2>2. QED BY <2>1 DEF FeatureRecord
<1>3. \A i \in DOMAIN fs :
        /\ gs[i] \in [id : Feature, passes : BOOLEAN]
        /\ gs[i].id = fs[i].id
        /\ gs[i].passes => fs[i].passes \/ fs[i].id = f
        /\ fs[i].passes => gs[i].passes
  <2> SUFFICES ASSUME NEW i \in DOMAIN fs
               PROVE  /\ gs[i] \in [id : Feature, passes : BOOLEAN]
                      /\ gs[i].id = fs[i].id
                      /\ gs[i].passes => fs[i].passes \/ fs[i].id = f
                      /\ fs[i].passes => gs[i].passes
    OBVIOUS
  <2> HIDE DEF fs
  <2>1. fs[i] \in [id : Feature, passes : BOOLEAN]
    BY <1>2
  <2>2. \/ gs[i] = [fs[i] EXCEPT !.passes = TRUE] /\ fs[i].id = f
        \/ gs[i] = fs[i]
    OBVIOUS
  <2>3. CASE gs[i] = [fs[i] EXCEPT !.passes = TRUE] /\ fs[i].id = f
    <3> HIDE DEF gs
    <3> QED BY <2>1, <2>3
  <2>4. CASE gs[i] = fs[i]
    <3> HIDE DEF gs
    <3> QED BY <2>1, <2>4
  <2>5. QED BY <2>2, <2>3, <2>4
<1>4. gs \in Seq(FeatureRecord(Feature)) /\ DOMAIN gs = DOMAIN fs
  <2>1. DOMAIN fs = 1 .. Len(fs) /\ Len(fs) \in Nat
    BY <1>1
  <2>2. gs \in [1 .. Len(fs) -> FeatureRecord(Feature)]
    BY <1>3, <2>1 DEF FeatureRecord
  <2>3. QED
    BY <2>1, <2>2
<1>5. UpdateFeaturePass(s, f, TRUE) = [s EXCEPT !.features = gs]
  BY DEF UpdateFeaturePass
<1> HIDE DEF gs
<1>6. QED
  BY <1>3, <1>4, <1>5 DEF SessionType

----------------------------------------------------------------------------
(* Type correctness. *)

LEMMA PolicyFacts ==
  ASSUME NEW r \in Run
  PROVE  MaxTurns(r) \in Nat /\ MaxTurns(r) >= 1 /\ RetryBudget(r) \in Nat
BY PolicyAssumption DEF RunPolicy, ValidatePolicy, MaxTurns, RetryBudget

LEMMA CurrentType ==
  ASSUME TypeOK, NEW r \in Run, processed[r] # << >>
  PROVE  Current(r) \in Feature
<1>1. processed[r] \in Seq(Feature)
  BY DEF TypeOK
<1>2. QED
  BY <1>1 DEF Current

LEMMA WrittenType ==
  ASSUME TypeOK, NEW r \in Run
  PROVE  Written(r) \in SessionType
<1>1. session \in SessionType
  BY DEF TypeOK
<1>2. CASE pc[r] = "initialize"
  <2>1. InitialFeatures(r) \in Seq(FeatureRecord(Feature))
    BY RequestAssumption DEF TypeOK, InitialFeatures
  <2>2. QED
    BY <1>1, <1>2, <2>1, InitializeType DEF Written
<1>3. CASE pc[r] = "checkpoint"
  <2>1. Started(r) \in [run : RunId, status : RunStatus]
    BY DEF Started, RunId, RunStatus
  <2>2. QED
    BY <1>1, <1>3, <2>1, RecordCheckpointType DEF Written
<1>4. CASE pc[r] = "mark"
  <2>1. Current(r) \in Feature
    BY <1>4, CurrentType DEF TypeOK
  <2>2. QED
    BY <1>1, <1>4, <2>1, UpdateFeaturePassEffect DEF Written
<1>5. CASE pc[r] = "handoff"
  <2>1. Terminal(r) \in [run : RunId, status : RunStatus]
    BY DEF Terminal, RunId, RunStatus
  <2>2. QED
    BY <1>1, <1>5, <2>1, RecordCheckpointType DEF Written
<1>6. CASE pc[r] = "progress"
  BY <1>1, <1>6, AppendProgressType DEF Written
<1>7. CASE pc[r] \notin {"initialize", "checkpoint", "mark", "handoff", "progress"}
  BY <1>1, <1>7 DEF Written
<1>8. QED
  BY <1>2, <1>3, <1>4, <1>5, <1>6, <1>7

LEMMA TypeStep == TypeOK /\ [Next]_vars => TypeOK'
<1> SUFFICES ASSUME TypeOK, [Next]_vars PROVE TypeOK'
  OBVIOUS
<1> USE DEF TypeOK, Goto, Return, Conclude, progressVars, Waiting, MemoryCall, Outcome
<1>1. CASE UNCHANGED vars
  BY <1>1 DEF vars
<1>2. ASSUME NEW r \in Run, Start(r) PROVE TypeOK'
  BY <1>2 DEF Start, RunSession, RunInitializer, RunTaskIteration,
              EnterInitializer, EnterTaskIteration
<1>3. ASSUME NEW r \in Run, Cancel(r) PROVE TypeOK'
  BY <1>3 DEF Cancel
<1>4. ASSUME NEW r \in Run, Advance(r) PROVE TypeOK'
  <2>w. Written(r) \in SessionType
    BY WrittenType
  <2>p. MaxTurns(r) \in Nat /\ RetryBudget(r) \in Nat
    BY PolicyFacts
  <2>1. CASE SelectPhase(r)
    BY <2>1 DEF SelectPhase, EnterInitializer, EnterTaskIteration
  <2>2. CASE InitializeSession(r)
    BY <2>2, <2>w DEF InitializeSession
  <2>3. CASE VerifyManifest(r)
    BY <2>3 DEF VerifyManifest
  <2>4. CASE RecordStarted(r)
    BY <2>4, <2>w DEF RecordStarted
  <2>5. CASE LoadBootstrap(r)
    <3>1. session.features \in Seq(FeatureRecord(Feature))
      BY DEF SessionType
    <3>2. QED BY <2>5, <3>1 DEF LoadBootstrap
  <2>6. CASE CheckHealth(r)
    BY <2>6 DEF CheckHealth
  <2>7. CASE SelectFeature(r)
    <3>1. PICK f \in Selectable(r, session.features) :
            processed' = [processed EXCEPT ![r] = Append(@, f)]
      BY <2>7 DEF SelectFeature
    <3>2. f \in Feature
      <4>1. session.features \in Seq(FeatureRecord(Feature))
        BY DEF SessionType
      <4>2. \A i \in DOMAIN session.features : session.features[i].id \in Feature
        <5> SUFFICES ASSUME NEW i \in DOMAIN session.features
                     PROVE  session.features[i].id \in Feature
          OBVIOUS
        <5> DEFINE fs == session.features
        <5>1. fs \in Seq(FeatureRecord(Feature)) BY <4>1
        <5> HIDE DEF fs
        <5>2. i \in DOMAIN fs => fs[i] \in FeatureRecord(Feature)
          BY <5>1, ElementOfSeqDomain
        <5>3. QED BY <5>2 DEF FeatureRecord, fs
      <4>3. QED BY <4>2 DEF Selectable
    <3>3. processed' \in [Run -> Seq(Feature)] /\ processed'[r] # << >>
      <4>1. processed \in [Run -> Seq(Feature)]
        OBVIOUS
      <4> HIDE DEF TypeOK
      <4>2. processed[r] \in Seq(Feature)
        BY <4>1
      <4>3. Append(processed[r], f) \in Seq(Feature) /\ Append(processed[r], f) # << >>
        BY <3>2, <4>2, AppendFacts
      <4>4. QED BY <3>1, <4>1, <4>3
    <3>4. QED
      BY <2>7, <2>p, <3>1, <3>3 DEF SelectFeature
  <2>8. CASE FindNoFeature(r)
    BY <2>8 DEF FindNoFeature
  <2>9. CASE FinishBatch(r)
    BY <2>9 DEF FinishBatch, BatchResult
  <2>10. CASE ExecuteTurn(r)
    <3>1. turns[r] \in Nat /\ turns[r] + 1 <= MaxTurns(r)
      BY <2>10, <2>p DEF ExecuteTurn
    <3>2. turns' \in [Run -> Nat] /\ \A q \in Run : turns'[q] <= MaxTurns(q)
      BY <2>10, <3>1 DEF ExecuteTurn
    <3>3. retries' \in [Run -> Nat] /\ \A q \in Run : retries'[q] <= RetryBudget(q)
      <4>1. retries[r] > 0 => retries[r] - 1 \in Nat /\ retries[r] - 1 <= RetryBudget(r)
        BY <2>p
      <4>2. QED BY <2>10, <4>1 DEF ExecuteTurn, MayRetry
    <3>4. QED BY <2>10, <3>2, <3>3 DEF ExecuteTurn
  <2>11. CASE Approve(r)
    <3>1. <<r, Current(r)>> \in Run \X Feature
      BY <2>11, CurrentType DEF Approve
    <3>2. QED BY <2>11, <3>1 DEF Approve
  <2>12. CASE Reject(r)
    <3>1. retries' \in [Run -> Nat] /\ \A q \in Run : retries'[q] <= RetryBudget(q)
      <4>1. retries[r] > 0 => retries[r] - 1 \in Nat /\ retries[r] - 1 <= RetryBudget(r)
        BY <2>p
      <4>2. QED BY <2>12, <4>1 DEF Reject, MayRetry
    <3>2. QED BY <2>12, <3>1 DEF Reject
  <2>13. CASE ValidatorError(r)
    BY <2>13 DEF ValidatorError
  <2>14. CASE MarkPassed(r)
    <3>1. Current(r) \in Feature
      BY <2>14, CurrentType DEF MarkPassed
    <3>2. Append(validated[r], Current(r)) \in Seq(Feature)
      BY <3>1
    <3>3. QED BY <2>14, <2>w, <3>2 DEF MarkPassed
  <2>15. CASE RecordTerminal(r)
    BY <2>15, <2>w DEF RecordTerminal
  <2>16. CASE RecordProgress(r)
    BY <2>16, <2>w DEF RecordProgress
  <2>17. CASE MemoryError(r)
    BY <2>17, <2>w DEF MemoryError
  <2>18. QED
    BY <1>4, <2>1, <2>2, <2>3, <2>4, <2>5, <2>6, <2>7, <2>8, <2>9, <2>10, <2>11,
       <2>12, <2>13, <2>14, <2>15, <2>16, <2>17 DEF Advance
<1>5. QED
  BY <1>1, <1>2, <1>3, <1>4 DEF Next

(* The variables keep their types, for any number of runs and any policy. *)
THEOREM TypeCorrect == Spec => []TypeOK
<1>1. Init => TypeOK
  BY SessionAssumption, RequestAssumption, PolicyFacts
     DEF Init, TypeOK, Waiting, MemoryCall, Outcome
<1>2. QED
  BY <1>1, TypeStep, PTL DEF Spec

----------------------------------------------------------------------------
(* What a step does to the session. *)

(* The session changes only by the write some run is waiting for. *)
LEMMA SessionStep ==
  ASSUME [Next]_vars
  PROVE  \/ session' = session
         \/ \E r \in Run : pc[r] \in MemoryCall /\ session' = Written(r)
<1> USE DEF MemoryCall
<1>1. CASE UNCHANGED vars
  BY <1>1 DEF vars
<1>2. ASSUME NEW r \in Run, Start(r) PROVE session' = session
  BY <1>2 DEF Start, RunSession, RunInitializer, RunTaskIteration
<1>3. ASSUME NEW r \in Run, Cancel(r) PROVE session' = session
  BY <1>3 DEF Cancel
<1>4. ASSUME NEW r \in Run, Advance(r)
      PROVE  \/ session' = session
             \/ pc[r] \in MemoryCall /\ session' = Written(r)
  BY <1>4 DEF Advance, SelectPhase, InitializeSession, VerifyManifest, RecordStarted,
              LoadBootstrap, CheckHealth, SelectFeature, FindNoFeature, FinishBatch,
              ExecuteTurn, Approve, Reject, ValidatorError, MarkPassed,
              RecordTerminal, RecordProgress, MemoryError
<1>5. QED
  BY <1>1, <1>2, <1>3, <1>4 DEF Next

LEMMA WrittenKeeps ==
  ASSUME TypeOK, NEW r \in Run, IsInitialized(session), session' = Written(r)
  PROVE  KeepSession
<1>1. session \in SessionType
  BY DEF TypeOK
<1>2. CASE pc[r] = "initialize" \/ pc[r] \notin {"checkpoint", "mark", "handoff", "progress"}
  <2>1. session' = session
    BY <1>2 DEF Written, InitializeIfMissing
  <2>2. QED BY <2>1 DEF KeepSession
<1>3. ASSUME NEW c \in [run : RunId, status : RunStatus],
             session' = RecordCheckpoint(session, c)
      PROVE  KeepSession
  <2>1. session.checkpoints \in Seq([run : RunId, status : RunStatus])
    BY <1>1 DEF SessionType
  <2>2. /\ session'.manifest = session.manifest
        /\ session'.features = session.features
        /\ session'.checkpoints = Append(session.checkpoints, c)
    BY <1>1, <1>3 DEF RecordCheckpoint, SessionType
  <2>3. \A k \in DOMAIN session.checkpoints :
          k \in DOMAIN session'.checkpoints /\ session'.checkpoints[k] = session.checkpoints[k]
    BY <2>1, <2>2, AppendFacts
  <2>4. QED BY <2>2, <2>3 DEF KeepSession
<1>4. CASE pc[r] = "checkpoint"
  <2>1. Started(r) \in [run : RunId, status : RunStatus]
    BY DEF Started, RunId, RunStatus
  <2>2. QED BY <1>3, <1>4, <2>1 DEF Written
<1>5. CASE pc[r] = "handoff"
  <2>1. Terminal(r) \in [run : RunId, status : RunStatus]
    BY DEF Terminal, RunId, RunStatus
  <2>2. QED BY <1>3, <1>5, <2>1 DEF Written
<1>6. CASE pc[r] = "mark"
  <2>1. Current(r) \in Feature
    BY <1>6, CurrentType DEF TypeOK
  <2>2. session' = UpdateFeaturePass(session, Current(r), TRUE)
    BY <1>6 DEF Written
  <2> DEFINE t == UpdateFeaturePass(session, Current(r), TRUE)
  <2>3. /\ t.manifest = session.manifest
        /\ t.checkpoints = session.checkpoints
        /\ DOMAIN t.features = DOMAIN session.features
        /\ \A i \in DOMAIN session.features :
             /\ t.features[i].id = session.features[i].id
             /\ session.features[i].passes => t.features[i].passes
    BY <1>1, <2>1, UpdateFeaturePassEffect
  <2>4. session' = t
    BY <2>2
  <2> HIDE DEF t
  <2>5. QED
    BY <2>3, <2>4 DEF KeepSession
<1>7. CASE pc[r] = "progress"
  BY <1>1, <1>7 DEF Written, AppendProgress, KeepSession, SessionType
<1>8. QED
  BY <1>2, <1>4, <1>5, <1>6, <1>7

LEMMA KeepStep == TypeOK /\ [Next]_vars => KeepSession
<1> SUFFICES ASSUME TypeOK, [Next]_vars, IsInitialized(session) PROVE KeepSession
  BY DEF KeepSession
<1>1. CASE session' = session
  BY <1>1 DEF KeepSession
<1>2. CASE \E r \in Run : session' = Written(r)
  BY <1>2, WrittenKeeps
<1>3. QED
  BY <1>1, <1>2, SessionStep

(* No run overwrites an initialized session, whatever runs do it at once. *)
THEOREM SessionNeverOverwritten == Spec => SessionKept
<1>1. TypeOK /\ [Next]_vars => [KeepSession]_session
  BY KeepStep
<1>2. QED
  BY <1>1, TypeCorrect, PTL DEF Spec, SessionKept

----------------------------------------------------------------------------
(* Completion is never declared early.                                     *)
(*                                                                         *)
(* NoEarlyCompletion is not inductive: a run in "health" decides from the  *)
(* list it loaded.  GateInv adds that such a list is behind the session,   *)
(* never ahead of it, and that a run past its load works on an initialized *)
(* session, which KeepSession then protects.                               *)

PastLoad == {"health", "select", "turn", "validate", "mark"}

BehindSession(r) ==
  /\ DOMAIN loaded[r] = DOMAIN session.features
  /\ \A i \in DOMAIN loaded[r] : loaded[r][i].passes => session.features[i].passes

GateInv ==
  \A r \in Run :
    /\ pc[r] \in PastLoad => IsInitialized(session)
    /\ pc[r] = "health" => BehindSession(r)
    /\ outcome[r] = "complete" =>
         IsInitialized(session) /\ AllRequiredPassed(session.features)

LEMMA EmptyHasNoDomain ==
  ASSUME NEW S, NEW q \in Seq(S)
  PROVE  q = << >> <=> DOMAIN q = {}
OBVIOUS

LEMMA FeaturesType ==
  ASSUME TypeOK
  PROVE  /\ session.features \in Seq(FeatureRecord(Feature))
         /\ \A r \in Run : loaded[r] \in Seq(FeatureRecord(Feature))
BY DEF TypeOK, SessionType

(* What passes in a list passes in a list of the same length that is ahead. *)
LEMMA PassedStays ==
  ASSUME NEW p \in Seq(FeatureRecord(Feature)), NEW q \in Seq(FeatureRecord(Feature)),
         DOMAIN p = DOMAIN q,
         \A i \in DOMAIN p : p[i].passes => q[i].passes,
         AllRequiredPassed(p)
  PROVE  AllRequiredPassed(q)
<1>1. p # << >> /\ \A i \in DOMAIN p : p[i].passes
  BY DEF AllRequiredPassed
<1>2. q # << >>
  BY <1>1, EmptyHasNoDomain
<1>3. QED
  BY <1>1, <1>2 DEF AllRequiredPassed

(* A step keeps the facts of GateInv about a run it does not move. *)
LEMMA GateKept ==
  ASSUME TypeOK, TypeOK', GateInv, KeepSession, NEW q \in Run
  PROVE  /\ IsInitialized(session) => IsInitialized(session)'
         /\ pc[q] = "health" /\ loaded'[q] = loaded[q] => BehindSession(q)'
         /\ outcome[q] = "complete" => AllRequiredPassed(session.features)'
<1>1. IsInitialized(session) => IsInitialized(session)'
  BY DEF KeepSession, IsInitialized
<1>2. ASSUME pc[q] = "health", loaded'[q] = loaded[q] PROVE BehindSession(q)'
  <2>1. IsInitialized(session) /\ BehindSession(q)
    BY <1>2 DEF GateInv, PastLoad
  <2>2. QED BY <1>2, <2>1 DEF KeepSession, BehindSession
<1>3. ASSUME outcome[q] = "complete" PROVE AllRequiredPassed(session'.features)
  <2>1. IsInitialized(session) /\ AllRequiredPassed(session.features)
    BY <1>3 DEF GateInv
  <2>2. /\ session.features \in Seq(FeatureRecord(Feature))
        /\ session'.features \in Seq(FeatureRecord(Feature))
    BY FeaturesType DEF TypeOK, SessionType
  <2>3. QED BY <2>1, <2>2, PassedStays DEF KeepSession
<1>4. QED
  BY <1>1, <1>2, <1>3

(* A step moves one run; the others keep all they have. *)
LEMMA OneRunMoves ==
  ASSUME TypeOK, [Next]_vars, NEW q \in Run
  PROVE  \/ /\ pc'[q] = pc[q]
            /\ loaded'[q] = loaded[q]
            /\ processed'[q] = processed[q]
            /\ turns'[q] = turns[q]
            /\ retries'[q] = retries[q]
            /\ outcome'[q] = outcome[q]
         \/ Start(q) \/ Advance(q) \/ Cancel(q)
<1> DEFINE Same == /\ pc'[q] = pc[q]
                   /\ loaded'[q] = loaded[q]
                   /\ processed'[q] = processed[q]
                   /\ turns'[q] = turns[q]
                   /\ retries'[q] = retries[q]
                   /\ outcome'[q] = outcome[q]
<1>t. /\ pc \in [Run -> Waiting \cup {"idle", "returned", "cancelled"}]
      /\ outcome \in [Run -> Outcome]
      /\ loaded \in [Run -> Seq(FeatureRecord(Feature))]
      /\ processed \in [Run -> Seq(Feature)]
      /\ turns \in [Run -> Nat]
      /\ retries \in [Run -> Nat]
  BY DEF TypeOK
<1>1. CASE UNCHANGED vars
  BY <1>1 DEF vars
<1>2. ASSUME NEW r \in Run, r # q, Start(r) \/ Advance(r) \/ Cancel(r)
      PROVE  Same
  BY <1>2, <1>t DEF Start, Advance, Cancel, Goto, Return, Conclude, progressVars,
              RunSession, RunInitializer, RunTaskIteration, EnterInitializer,
              EnterTaskIteration, SelectPhase, InitializeSession, VerifyManifest,
              RecordStarted, LoadBootstrap, CheckHealth, SelectFeature, FindNoFeature,
              FinishBatch, ExecuteTurn, Approve, Reject, ValidatorError, MarkPassed,
              RecordTerminal, RecordProgress, MemoryError
<1>3. QED
  BY <1>1, <1>2 DEF Next

LEMMA GateStep == TypeOK /\ TypeOK' /\ GateInv /\ [Next]_vars => GateInv'
<1> SUFFICES ASSUME TypeOK, TypeOK', GateInv, [Next]_vars, NEW q \in Run
             PROVE  /\ pc'[q] \in PastLoad => IsInitialized(session)'
                    /\ pc'[q] = "health" => BehindSession(q)'
                    /\ outcome'[q] = "complete" =>
                         IsInitialized(session)' /\ AllRequiredPassed(session.features)'
  BY DEF GateInv
<1>k. KeepSession
  BY KeepStep
<1>0. /\ pc[q] \in PastLoad => IsInitialized(session)
      /\ outcome[q] = "complete" => IsInitialized(session)
  BY DEF GateInv
<1>1. CASE pc'[q] = pc[q] /\ loaded'[q] = loaded[q] /\ outcome'[q] = outcome[q]
  BY <1>0, <1>1, <1>k, GateKept
<1>t. /\ pc \in [Run -> Waiting \cup {"idle", "returned", "cancelled"}]
      /\ outcome \in [Run -> Outcome]
      /\ loaded \in [Run -> Seq(FeatureRecord(Feature))]
  BY DEF TypeOK
<1>3. CASE Start(q) \/ Cancel(q)
  <2>1. pc'[q] \notin PastLoad /\ outcome'[q] \in {outcome[q], "error"}
    BY <1>3, <1>t DEF Start, Cancel, Goto, Return, RunSession, RunInitializer, PastLoad,
                RunTaskIteration, EnterInitializer, EnterTaskIteration
  <2>2. QED BY <1>0, <1>k, <2>1, GateKept DEF PastLoad
<1>4. CASE Advance(q)
  <2>1. CASE LoadBootstrap(q)
    <3>1. CASE IsInitialized(session)
      BY <1>0, <1>k, <1>t, <2>1, <3>1, GateKept
         DEF LoadBootstrap, Goto, BehindSession
    <3>2. CASE ~IsInitialized(session)
      BY <1>t, <2>1, <3>2 DEF LoadBootstrap, Conclude, PastLoad
    <3>3. QED BY <3>1, <3>2
  <2>2. CASE CheckHealth(q)
    <3>1. IsInitialized(session) /\ BehindSession(q)
      BY <2>2 DEF CheckHealth, GateInv, PastLoad
    <3>2. AllRequiredPassed(loaded[q]) => AllRequiredPassed(session.features)
      BY <3>1, FeaturesType, PassedStays DEF BehindSession
    <3>3. session' = session /\ pc'[q] # "health"
      BY <1>t, <2>2 DEF CheckHealth, Goto, Conclude
    <3>4. outcome'[q] = "complete" =>
            outcome[q] = "complete" \/ AllRequiredPassed(loaded[q])
      BY <1>t, <2>2 DEF CheckHealth, Goto, Conclude
    <3>5. outcome[q] = "complete" => AllRequiredPassed(session.features)
      BY DEF GateInv
    <3>6. QED BY <3>1, <3>2, <3>3, <3>4, <3>5
  <2>3. CASE FinishBatch(q)
    <3>1. IsInitialized(session) /\ session' = session
      BY <2>3 DEF FinishBatch, GateInv, PastLoad
    <3>2. pc'[q] = "handoff"
          /\ (outcome'[q] = "complete" => AllRequiredPassed(session.features))
      BY <1>t, <2>3 DEF FinishBatch, Conclude, BatchResult
    <3>3. QED BY <3>1, <3>2 DEF PastLoad
  <2>4. ASSUME Advance(q), ~LoadBootstrap(q), ~CheckHealth(q), ~FinishBatch(q)
        PROVE  /\ pc'[q] \in PastLoad => pc[q] \in PastLoad
               /\ pc'[q] # "health"
               /\ outcome'[q] = "complete" => outcome[q] = "complete"
    BY <2>4, <1>t DEF Advance, Goto, Return, Conclude, PastLoad,
              EnterInitializer, EnterTaskIteration, SelectPhase, InitializeSession,
              VerifyManifest, RecordStarted, SelectFeature, FindNoFeature,
              ExecuteTurn, Approve, Reject, ValidatorError, MarkPassed,
              RecordTerminal, RecordProgress, MemoryError
  <2>5. QED
    BY <1>4, <1>0, <1>k, <2>1, <2>2, <2>3, <2>4, GateKept
<1>5. QED
  BY <1>1, <1>3, <1>4, OneRunMoves

(* The harness does not declare completion early: whatever other runs did  *)
(* since a run loaded its feature list, the list it calls complete still   *)
(* passes in the session.                                                  *)
THEOREM NoEarlyCompletionHolds == Spec => []NoEarlyCompletion
<1>1. Init => GateInv
  BY DEF Init, GateInv, PastLoad
<1>2. GateInv => NoEarlyCompletion
  BY DEF GateInv, NoEarlyCompletion
<1>3. QED
  BY <1>1, <1>2, GateStep, TypeCorrect, PTL DEF Spec

----------------------------------------------------------------------------
(* Features pass only when approved.                                       *)
(*                                                                         *)
(* ApprovalInv adds what the two writes that touch `passes` rest on: a run *)
(* about to mark a feature has the approval of it, and a run about to      *)
(* initialize a session has validated the list it initializes with.        *)

ApprovalInv ==
  /\ PassesOnlyWhenApproved
  /\ \A r \in Run :
       /\ pc[r] = "mark" => <<r, Current(r)>> \in approved
       /\ pc[r] = "initialize" => Acceptable(r)

LEMMA ApprovedGrows == TypeOK /\ [Next]_vars => approved \subseteq approved'
<1> SUFFICES ASSUME TypeOK, [Next]_vars PROVE approved \subseteq approved'
  OBVIOUS
<1>1. ASSUME NEW r \in Run, Start(r) \/ Advance(r) \/ Cancel(r)
      PROVE  approved \subseteq approved'
  BY <1>1 DEF Start, Advance, Cancel, progressVars,
              RunSession, RunInitializer, RunTaskIteration, SelectPhase,
              InitializeSession, VerifyManifest,
              RecordStarted, LoadBootstrap, CheckHealth, SelectFeature, FindNoFeature,
              FinishBatch, ExecuteTurn, Approve, Reject, ValidatorError, MarkPassed,
              RecordTerminal, RecordProgress, MemoryError
<1>2. QED
  BY <1>1 DEF Next, vars

(* The write a run waits for makes no feature pass that is not approved. *)
LEMMA WrittenApproved ==
  ASSUME TypeOK, ApprovalInv, NEW r \in Run,
         session' = Written(r), approved \subseteq approved'
  PROVE  PassesOnlyWhenApproved'
<1>1. session \in SessionType
  BY DEF TypeOK
<1>2. ASSUME session'.features = session.features PROVE PassesOnlyWhenApproved'
  BY <1>2 DEF ApprovalInv, PassesOnlyWhenApproved
<1>3. CASE pc[r] = "initialize"
  <2>1. CASE IsInitialized(session)
    BY <1>2, <1>3, <2>1 DEF Written, InitializeIfMissing
  <2>2. CASE ~IsInitialized(session)
    <3>1. session'.features = InitialFeatures(r)
      BY <1>1, <1>3, <2>2 DEF Written, InitializeIfMissing, SessionType
    <3>2. \A i \in DOMAIN InitialFeatures(r) : ~InitialFeatures(r)[i].passes
      BY <1>3 DEF ApprovalInv, Acceptable, ValidateFeatureList
    <3> HIDE DEF InitialFeatures
    <3>3. QED BY <3>1, <3>2 DEF PassesOnlyWhenApproved
  <2>3. QED BY <2>1, <2>2
<1>4. CASE pc[r] = "mark"
  <2>1. Current(r) \in Feature /\ <<r, Current(r)>> \in approved
    BY <1>4, CurrentType DEF TypeOK, ApprovalInv
  <2> DEFINE t == UpdateFeaturePass(session, Current(r), TRUE)
  <2>2. /\ DOMAIN t.features = DOMAIN session.features
        /\ \A i \in DOMAIN session.features :
             /\ t.features[i].id = session.features[i].id
             /\ t.features[i].passes =>
                  session.features[i].passes \/ session.features[i].id = Current(r)
             /\ session.features[i].passes => t.features[i].passes
    BY <1>1, <2>1, UpdateFeaturePassEffect
  <2>3. session' = t
    BY <1>4 DEF Written
  <2> HIDE DEF t
  <2>4. QED
    BY <2>1, <2>2, <2>3 DEF ApprovalInv, PassesOnlyWhenApproved
<1>5. CASE pc[r] \notin {"initialize", "mark"}
  BY <1>1, <1>2, <1>5 DEF Written, RecordCheckpoint, AppendProgress, SessionType
<1>6. QED
  BY <1>3, <1>4, <1>5

LEMMA ApprovalStep == TypeOK /\ ApprovalInv /\ [Next]_vars => ApprovalInv'
<1> SUFFICES ASSUME TypeOK, ApprovalInv, [Next]_vars PROVE ApprovalInv'
  OBVIOUS
<1>1. approved \subseteq approved'
  BY ApprovedGrows
<1>2. PassesOnlyWhenApproved'
  <2>1. CASE session' = session
    BY <1>1, <2>1 DEF ApprovalInv, PassesOnlyWhenApproved
  <2>2. QED
    BY <1>1, <2>1, SessionStep, WrittenApproved
<1>3. ASSUME NEW q \in Run
      PROVE  /\ pc'[q] = "mark" => <<q, Current(q)'>> \in approved'
             /\ pc'[q] = "initialize" => Acceptable(q)'
  <2>t. /\ pc \in [Run -> Waiting \cup {"idle", "returned", "cancelled"}]
        /\ processed \in [Run -> Seq(Feature)]
    BY DEF TypeOK
  <2>1. request' = request
    BY DEF Next, vars, Start, Advance, Cancel, progressVars, RunSession, RunInitializer,
           RunTaskIteration, SelectPhase, InitializeSession, VerifyManifest,
           RecordStarted, LoadBootstrap, CheckHealth, SelectFeature, FindNoFeature,
           FinishBatch, ExecuteTurn, Approve, Reject, ValidatorError, MarkPassed,
           RecordTerminal, RecordProgress, MemoryError
  <2>2. Acceptable(q)' <=> Acceptable(q)
    BY <2>1 DEF Acceptable, InitialFeatures
  <2>3. ASSUME Start(q) \/ Advance(q) \/ Cancel(q)
        PROVE  /\ pc'[q] = "initialize" => pc[q] = "initialize" \/ Acceptable(q)
               /\ pc'[q] = "mark" => Approve(q)
    <3>1. ASSUME Start(q) \/ Cancel(q)
          PROVE  /\ pc'[q] = "initialize" => Acceptable(q)
                 /\ pc'[q] # "mark"
      BY <3>1, <2>t DEF Start, Cancel, Goto, Return, RunSession, RunInitializer,
             EnterInitializer, EnterTaskIteration, RunTaskIteration
    <3>2. ASSUME Advance(q), ~Approve(q)
          PROVE  /\ pc'[q] = "initialize" => Acceptable(q)
                 /\ pc'[q] # "mark"
      BY <3>2, <2>t DEF Advance, Goto, Return, Conclude,
             EnterInitializer, EnterTaskIteration, SelectPhase, InitializeSession,
             VerifyManifest, RecordStarted, LoadBootstrap, CheckHealth, SelectFeature,
             FindNoFeature, FinishBatch, ExecuteTurn, Reject, ValidatorError, MarkPassed,
             RecordTerminal, RecordProgress, MemoryError
    <3>3. Approve(q) => pc'[q] = "mark"
      BY <2>t DEF Approve, Goto
    <3>4. QED BY <2>3, <3>1, <3>2, <3>3
  <2>4. \/ pc'[q] = pc[q] /\ processed'[q] = processed[q]
        \/ Start(q) \/ Advance(q) \/ Cancel(q)
    BY OneRunMoves
  <2>5. Approve(q) => /\ <<q, Current(q)>> \in approved'
                      /\ processed'[q] = processed[q]
    BY DEF Approve
  <2>6. processed'[q] = processed[q] => Current(q)' = Current(q)
    BY DEF Current
  <2>7. QED
    BY <1>1, <2>2, <2>3, <2>4, <2>5, <2>6 DEF ApprovalInv
<1>4. QED
  BY <1>2, <1>3 DEF ApprovalInv

(* The harness marks a feature as passing only when a validator accepted   *)
(* it, whatever write fails and whatever runs work on the session.         *)
THEOREM PassesOnlyWhenApprovedHolds == Spec => []PassesOnlyWhenApproved
<1>1. Init => ApprovalInv
  <2> SUFFICES ASSUME Init PROVE ApprovalInv
    OBVIOUS
  <2>1. \A i \in DOMAIN session.features : ~session.features[i].passes
    BY SessionAssumption DEF Init
  <2>2. \A r \in Run : pc[r] = "idle"
    BY DEF Init
  <2>3. QED BY <2>1, <2>2 DEF ApprovalInv, PassesOnlyWhenApproved
<1>2. ApprovalInv => PassesOnlyWhenApproved
  BY DEF ApprovalInv
<1>3. QED
  BY <1>1, <1>2, ApprovalStep, TypeCorrect, PTL DEF Spec

----------------------------------------------------------------------------
(* The turn loop.                                                          *)
(*                                                                         *)
(* TurnInv relates the two counters: a turn that did not end the loop has  *)
(* spent a retry, so the retries that are left are what the turns used     *)
(* leave of the budget.                                                    *)

TurnInv ==
  \A r \in Run :
    /\ turns[r] + retries[r] <= RetryBudget(r) + 1
    /\ pc[r] = "turn" => turns[r] < MaxTurns(r) /\ turns[r] + retries[r] = RetryBudget(r)
    /\ pc[r] = "validate" => turns[r] + retries[r] = RetryBudget(r) + 1

LEMMA TurnStep == TypeOK /\ TurnInv /\ [Next]_vars => TurnInv'
<1> SUFFICES ASSUME TypeOK, TurnInv, [Next]_vars, NEW q \in Run
             PROVE  /\ turns'[q] + retries'[q] <= RetryBudget(q) + 1
                    /\ pc'[q] = "turn" =>
                         turns'[q] < MaxTurns(q) /\ turns'[q] + retries'[q] = RetryBudget(q)
                    /\ pc'[q] = "validate" => turns'[q] + retries'[q] = RetryBudget(q) + 1
  BY DEF TurnInv
<1>t. /\ pc \in [Run -> Waiting \cup {"idle", "returned", "cancelled"}]
      /\ turns \in [Run -> Nat]
      /\ retries \in [Run -> Nat]
  BY DEF TypeOK
<1>p. RetryBudget(q) \in Nat /\ MaxTurns(q) \in Nat /\ MaxTurns(q) >= 1
  BY PolicyFacts
<1>0. /\ turns[q] + retries[q] <= RetryBudget(q) + 1
      /\ pc[q] = "turn" => turns[q] < MaxTurns(q) /\ turns[q] + retries[q] = RetryBudget(q)
      /\ pc[q] = "validate" => turns[q] + retries[q] = RetryBudget(q) + 1
      /\ turns[q] \in Nat /\ retries[q] \in Nat
  BY <1>t DEF TurnInv
<1>1. CASE SelectFeature(q)
  BY <1>1, <1>t, <1>p DEF SelectFeature, Goto
<1>2. CASE ExecuteTurn(q)
  <2>1. turns'[q] = turns[q] + 1 /\ pc[q] = "turn"
    BY <1>2, <1>t DEF ExecuteTurn
  <2>2. \/ retries'[q] = retries[q] /\ pc'[q] # "turn"
        \/ retries'[q] = retries[q] - 1 /\ turns'[q] < MaxTurns(q) /\ pc'[q] = "turn"
    BY <1>2, <1>t DEF ExecuteTurn, MayRetry, Goto, Conclude
  <2>3. QED BY <1>0, <1>p, <2>1, <2>2
<1>3. CASE Reject(q)
  <2>1. turns'[q] = turns[q] /\ pc[q] = "validate"
    BY <1>3, <1>t DEF Reject
  <2>2. \/ retries'[q] = retries[q] /\ pc'[q] = "handoff"
        \/ retries'[q] = retries[q] - 1 /\ turns[q] < MaxTurns(q) /\ pc'[q] = "turn"
    BY <1>3, <1>t DEF Reject, MayRetry, Goto, Conclude
  <2>3. QED BY <1>0, <1>p, <2>1, <2>2
<1>4. ASSUME Start(q) \/ Advance(q) \/ Cancel(q),
             ~SelectFeature(q), ~ExecuteTurn(q), ~Reject(q)
      PROVE  /\ turns'[q] = turns[q]
             /\ retries'[q] = retries[q]
             /\ pc'[q] \notin {"turn", "validate"}
  BY <1>4, <1>t DEF Start, Advance, Cancel, Goto, Return, Conclude, progressVars, RunSession,
         RunInitializer, EnterInitializer, EnterTaskIteration,
         RunTaskIteration, SelectPhase, InitializeSession, VerifyManifest,
         RecordStarted, LoadBootstrap, CheckHealth, FindNoFeature,
         FinishBatch, Approve, ValidatorError,
         MarkPassed, RecordTerminal, RecordProgress, MemoryError
<1>5. QED
  BY <1>0, <1>1, <1>2, <1>3, <1>4, OneRunMoves

(* A feature never gets more turns than the policy allows, and the turn    *)
(* loop never runs out of them, for every valid policy.                    *)
THEOREM TurnsWithinBudgetHolds == Spec => []TurnsWithinBudget
<1>1. Init => TurnInv
  BY PolicyFacts DEF Init, TurnInv
<1>2. TypeOK /\ TurnInv => TurnsWithinBudget
  <2> SUFFICES ASSUME TypeOK, TurnInv, NEW r \in Run
               PROVE  /\ turns[r] <= RetryBudget(r) + 1
                      /\ pc[r] = "turn" => turns[r] < MaxTurns(r)
    BY DEF TurnsWithinBudget
  <2>1. retries[r] \in Nat /\ turns[r] \in Nat
    BY DEF TypeOK
  <2>2. QED BY <2>1, PolicyFacts DEF TurnInv
<1>3. QED
  BY <1>1, <1>2, TurnStep, TypeCorrect, PTL DEF Spec

----------------------------------------------------------------------------
(* What one step does: one run moves, and writes what it waits to write or *)
(* nothing; the others keep all they have.                                 *)

Moves(r) == Start(r) \/ Advance(r) \/ Cancel(r)

Stays(q) ==
  /\ pc'[q] = pc[q]
  /\ processed'[q] = processed[q]
  /\ validated'[q] = validated[q]
  /\ outcome'[q] = outcome[q]

LEMMA OthersStay ==
  ASSUME TypeOK, NEW r \in Run, Moves(r), NEW q \in Run, q # r
  PROVE  Stays(q)
<1>t. /\ pc \in [Run -> Waiting \cup {"idle", "returned", "cancelled"}]
      /\ outcome \in [Run -> Outcome]
      /\ processed \in [Run -> Seq(Feature)]
      /\ validated \in [Run -> Seq(Feature)]
  BY DEF TypeOK
<1>1. QED
  BY <1>t DEF Moves, Stays, Start, Advance, Cancel, Goto, Return, Conclude, progressVars,
              RunSession, RunInitializer, RunTaskIteration, EnterInitializer,
              EnterTaskIteration, SelectPhase, InitializeSession, VerifyManifest,
              RecordStarted, LoadBootstrap, CheckHealth, SelectFeature, FindNoFeature,
              FinishBatch, ExecuteTurn, Approve, Reject, ValidatorError, MarkPassed,
              RecordTerminal, RecordProgress, MemoryError

LEMMA MoverWrites ==
  ASSUME NEW r \in Run, Moves(r)
  PROVE  \/ session' = session
         \/ pc[r] \in MemoryCall /\ session' = Written(r)
<1> USE DEF MemoryCall
<1>1. ASSUME Start(r) \/ Cancel(r) PROVE session' = session
  BY <1>1 DEF Start, Cancel, RunSession, RunInitializer, RunTaskIteration
<1>2. ASSUME Advance(r)
      PROVE  \/ session' = session
             \/ pc[r] \in MemoryCall /\ session' = Written(r)
  BY <1>2 DEF Advance, SelectPhase, InitializeSession, VerifyManifest, RecordStarted,
         LoadBootstrap, CheckHealth, SelectFeature, FindNoFeature, FinishBatch,
         ExecuteTurn, Approve, Reject, ValidatorError, MarkPassed,
         RecordTerminal, RecordProgress, MemoryError
<1>3. QED
  BY <1>1, <1>2 DEF Moves

----------------------------------------------------------------------------
(* The features a run takes up: what it gets approved is among them, and   *)
(* ScopeInv bounds how many they are.                                      *)

ScopeInv ==
  \A r \in Run :
    /\ \A f \in Feature :
         <<r, f>> \in approved => \E n \in DOMAIN processed[r] : processed[r][n] = f
    /\ Policy[r].mode # "unlimited_batch" => Len(processed[r]) <= Policy[r].max_features

LEMMA AppendKeeps ==
  ASSUME NEW q \in Seq(Feature), NEW f \in Feature
  PROVE  /\ \A n \in DOMAIN q : n \in DOMAIN Append(q, f) /\ Append(q, f)[n] = q[n]
         /\ \A n \in DOMAIN Append(q, f) : n \in DOMAIN q \/ Append(q, f)[n] = f
BY AppendFacts

(* What a selector returns is a feature. *)
LEMMA SelectableIsFeature ==
  ASSUME TypeOK, NEW r \in Run PROVE Selectable(r, session.features) \subseteq Feature
<1> DEFINE fs == session.features
<1>1. fs \in Seq(FeatureRecord(Feature))
  BY DEF TypeOK, SessionType
<1> HIDE DEF fs
<1>2. \A i \in DOMAIN fs : fs[i] \in FeatureRecord(Feature)
  BY <1>1, ElementOfSeqDomain
<1>3. Selectable(r, fs) \subseteq Feature
  BY <1>2 DEF Selectable, FeatureRecord
<1>4. QED
  BY <1>3 DEF fs

LEMMA CurrentIsLast ==
  ASSUME TypeOK, NEW r \in Run, processed[r] # << >>
  PROVE  /\ Len(processed[r]) \in DOMAIN processed[r]
         /\ Current(r) = processed[r][Len(processed[r])]
         /\ Current(r) \in Feature
<1>1. processed[r] \in Seq(Feature)
  BY DEF TypeOK
<1>2. QED
  BY <1>1, CurrentType DEF Current

LEMMA ScopeStep == TypeOK /\ ScopeInv /\ [Next]_vars => ScopeInv'
<1> SUFFICES ASSUME TypeOK, ScopeInv, Next PROVE ScopeInv'
  BY DEF ScopeInv, vars
<1>1. PICK r \in Run : Moves(r)
  BY DEF Next, Moves
<1>t. /\ processed \in [Run -> Seq(Feature)]
      /\ Policy[r].max_features \in Nat
  BY PolicyAssumption DEF TypeOK, RunPolicy
<1>2. CASE SelectFeature(r)
  <2>1. PICK f \in Selectable(r, session.features) :
          processed' = [processed EXCEPT ![r] = Append(@, f)]
    BY <1>2 DEF SelectFeature
  <2>2. approved' = approved /\ f \in Feature
    BY <1>2, SelectableIsFeature DEF SelectFeature
  <2>3. processed[r] \in Seq(Feature) /\ processed'[r] = Append(processed[r], f)
        /\ \A q \in Run : q # r => processed'[q] = processed[q]
    BY <1>t, <2>1
  <2>4. \A n \in DOMAIN processed[r] :
          n \in DOMAIN processed'[r] /\ processed'[r][n] = processed[r][n]
    BY <2>2, <2>3, AppendKeeps
  <2>5. Len(processed'[r]) = Len(processed[r]) + 1 /\ Len(processed[r]) \in Nat
    BY <2>2, <2>3, AppendFacts
  <2>6. Policy[r].mode # "unlimited_batch" => Len(processed'[r]) <= Policy[r].max_features
    BY <1>2, <1>t, <2>5 DEF SelectFeature, UnderLimit
  <2>7. QED
    BY <2>2, <2>3, <2>4, <2>6 DEF ScopeInv
<1>3. CASE Approve(r)
  <2>1. processed' = processed /\ approved' = approved \cup {<<r, Current(r)>>}
    BY <1>3 DEF Approve
  <2>2. \E n \in DOMAIN processed[r] : processed[r][n] = Current(r)
    BY <1>3, CurrentIsLast DEF Approve, TypeOK
  <2>3. QED
    BY <2>1, <2>2 DEF ScopeInv
<1>4. CASE ~SelectFeature(r) /\ ~Approve(r)
  <2>1. UNCHANGED <<processed, approved>>
    BY <1>1, <1>4 DEF Moves, Start, Advance, Cancel, progressVars,
              RunSession, RunInitializer, RunTaskIteration, SelectPhase, InitializeSession,
              VerifyManifest, RecordStarted, LoadBootstrap, CheckHealth, FindNoFeature,
              FinishBatch, ExecuteTurn, Reject, ValidatorError, MarkPassed,
              RecordTerminal, RecordProgress, MemoryError
  <2>2. QED
    BY <2>1 DEF ScopeInv
<1>5. QED
  BY <1>2, <1>3, <1>4

LEMMA UpTo == \A n \in Nat : IsFiniteSet(1 .. n) /\ Cardinality(1 .. n) = n
<1> SUFFICES ASSUME NEW n \in Nat PROVE IsFiniteSet(1 .. n) /\ Cardinality(1 .. n) = n
  OBVIOUS
<1>1. Cardinality(1 .. n) = (IF 1 > n THEN 0 ELSE n - 1 + 1) /\ IsFiniteSet(1 .. n)
  BY FS_Interval
<1>2. QED
  BY <1>1

(* No run gets more features approved than its mode allows, whatever it is *)
(* given to select from (harness.rs:610-651).                    *)
THEOREM IncrementalScopeHolds == Spec => []IncrementalScope
<1>1. Init => ScopeInv
  <2> SUFFICES ASSUME Init, NEW r \in Run
               PROVE  Policy[r].mode # "unlimited_batch" => 0 <= Policy[r].max_features
    BY DEF Init, ScopeInv
  <2>1. QED
    BY PolicyAssumption DEF RunPolicy
<1>2. TypeOK /\ ScopeInv => IncrementalScope
  <2> SUFFICES ASSUME TypeOK, ScopeInv, NEW r \in Run, Policy[r].mode # "unlimited_batch"
               PROVE  Cardinality({a \in approved : a[1] = r}) <= Policy[r].max_features
    BY DEF IncrementalScope
  <2> DEFINE S == {a \in approved : a[1] = r}
             n == Len(processed[r])
             F == [k \in 1 .. n |-> <<r, processed[r][k]>>]
  <2>1. processed[r] \in Seq(Feature) /\ n \in Nat /\ Policy[r].max_features \in Nat
    BY PolicyAssumption DEF TypeOK, RunPolicy
  <2>2. S \subseteq Range(F)
    <3> SUFFICES ASSUME NEW a \in S PROVE a \in Range(F)
      OBVIOUS
    <3>1. a \in Run \X Feature /\ a[1] = r /\ a \in approved
      BY DEF TypeOK
    <3>2. a = <<r, a[2]>> /\ a[2] \in Feature
      BY <3>1
    <3>3. PICK k \in DOMAIN processed[r] : processed[r][k] = a[2]
      BY <3>1, <3>2 DEF ScopeInv
    <3>4. k \in 1 .. n
      BY <2>1
    <3>5. F[k] = a
      BY <3>2, <3>3, <3>4
    <3>6. QED
      BY <3>4, <3>5 DEF Range
  <2>3. IsFiniteSet(1 .. n) /\ Cardinality(1 .. n) = n
    BY <2>1, UpTo
  <2>4. F \in Surjection(1 .. n, Range(F))
    BY DEF Range, Surjection
  <2>5. IsFiniteSet(Range(F)) /\ Cardinality(Range(F)) <= n
    BY <2>3, <2>4, FS_Surjection
  <2>6. IsFiniteSet(S) /\ Cardinality(S) <= Cardinality(Range(F))
    BY <2>2, <2>5, FS_Subset
  <2>7. Cardinality(S) \in Nat /\ Cardinality(Range(F)) \in Nat
    BY <2>5, <2>6, FS_CardinalityType
  <2>8. n <= Policy[r].max_features
    BY DEF ScopeInv
  <2> HIDE DEF S, n, F
  <2>9. Cardinality(S) <= Policy[r].max_features
    BY <2>1, <2>5, <2>6, <2>7, <2>8
  <2>10. QED
    BY <2>9 DEF S
<1>3. QED
  BY <1>1, <1>2, ScopeStep, TypeCorrect, PTL DEF Spec

----------------------------------------------------------------------------
(* The features a run has worked on.                                       *)
(*                                                                         *)
(* ListInv says what the feature list of the session is.  WorkInv relates  *)
(* what a run took up to what it validated and to what passes in the       *)
(* session: at the head of its loop, and once it has a result to report,   *)
(* everything is settled; on a feature, everything but that feature is.    *)

Passing(f) == \E i \in DOMAIN session.features :
                session.features[i] = [id |-> f, passes |-> TRUE]

ListInv ==
  /\ UniqueIds(session.features)
  /\ ~IsInitialized(session) =>
       \A i \in DOMAIN session.features : ~session.features[i].passes

Early     == {"idle", "select_phase", "initialize", "verify", "checkpoint", "bootstrap",
              "health"}
OnFeature == {"turn", "validate", "mark"}
Ended     == {"handoff", "progress", "returned", "cancelled"}

Settled(r) ==
  /\ validated[r] = processed[r]
  /\ \A n \in DOMAIN processed[r] : Passing(processed[r][n])

WorkOf(r) ==
  /\ pc[r] \in Early => processed[r] = << >> /\ validated[r] = << >>
  /\ pc[r] = "select" => Settled(r)
  /\ pc[r] \in OnFeature =>
       /\ processed[r] = Append(validated[r], Current(r))
       /\ \A n \in DOMAIN validated[r] : Passing(validated[r][n])
  /\ outcome[r] \in {"complete", "partial"} => pc[r] \in Ended /\ Settled(r)

WorkInv ==
  /\ \A r \in Run : WorkOf(r)
  /\ \A k \in DOMAIN session.checkpoints :
       session.checkpoints[k].status = "Succeeded" =>
         LET r == session.checkpoints[k].run IN
         r \in Run /\ pc[r] \in Ended /\ Settled(r)

LEMMA ListStep == TypeOK /\ GateInv /\ ApprovalInv /\ ListInv /\ [Next]_vars => ListInv'
<1> SUFFICES ASSUME TypeOK, GateInv, ApprovalInv, ListInv, [Next]_vars PROVE ListInv'
  OBVIOUS
<1>1. CASE session' = session
  BY <1>1 DEF ListInv
<1>2. CASE IsInitialized(session)
  <2>1. KeepSession
    BY KeepStep
  <2>2. /\ IsInitialized(session)'
        /\ DOMAIN session'.features = DOMAIN session.features
        /\ \A i \in DOMAIN session.features :
             session'.features[i].id = session.features[i].id
    BY <1>2, <2>1 DEF KeepSession, IsInitialized
  <2>3. UniqueIds(session'.features)
    BY <2>2 DEF ListInv, UniqueIds
  <2>4. QED
    BY <2>2, <2>3 DEF ListInv
<1>3. CASE ~IsInitialized(session) /\ session' # session
  <2>1. PICK r \in Run : pc[r] \in MemoryCall /\ session' = Written(r)
    BY <1>3, SessionStep
  <2>2. session \in SessionType /\ pc[r] # "mark"
    BY <1>3 DEF TypeOK, GateInv, PastLoad
  <2>3. CASE pc[r] = "initialize"
    <3>1. session'.features = InitialFeatures(r)
      BY <1>3, <2>1, <2>2, <2>3 DEF Written, InitializeIfMissing, SessionType
    <3>2. ValidateFeatureList(InitialFeatures(r))
      BY <2>3 DEF ApprovalInv, Acceptable
    <3> HIDE DEF InitialFeatures
    <3>3. QED
      BY <3>1, <3>2 DEF ListInv, ValidateFeatureList
  <2>4. CASE pc[r] # "initialize"
    <3>1. session'.features = session.features /\ session'.manifest = session.manifest
      BY <2>1, <2>2, <2>4 DEF Written, RecordCheckpoint, AppendProgress, SessionType
    <3>2. QED
      BY <1>3, <3>1 DEF ListInv, IsInitialized
  <2>5. QED
    BY <2>3, <2>4
<1>4. QED
  BY <1>1, <1>2, <1>3

LEMMA ListHolds == Spec => [](TypeOK /\ GateInv /\ ApprovalInv /\ ListInv)
<1>1. Init => GateInv
  BY DEF Init, GateInv, PastLoad
<1>2. Init => ApprovalInv /\ ListInv
  <2> SUFFICES ASSUME Init PROVE ApprovalInv /\ ListInv
    OBVIOUS
  <2>1. /\ UniqueIds(session.features)
        /\ \A i \in DOMAIN session.features : ~session.features[i].passes
    BY SessionAssumption DEF Init
  <2>2. \A r \in Run : pc[r] = "idle"
    BY DEF Init
  <2>3. QED BY <2>1, <2>2 DEF ApprovalInv, PassesOnlyWhenApproved, ListInv
<1>3. QED
  BY <1>1, <1>2, GateStep, ApprovalStep, ListStep, TypeCorrect, PTL DEF Spec

(* What passes goes on passing. *)
LEMMA PassingStays ==
  ASSUME TypeOK, TypeOK', ListInv, [Next]_vars, NEW f \in Feature, Passing(f)
  PROVE  Passing(f)'
<1>1. PICK i \in DOMAIN session.features :
        session.features[i] = [id |-> f, passes |-> TRUE]
  BY DEF Passing
<1>2. IsInitialized(session)
  BY <1>1 DEF ListInv
<1>3. /\ i \in DOMAIN session'.features
      /\ session'.features[i].id = f
      /\ session'.features[i].passes
  BY <1>1, <1>2, KeepStep DEF KeepSession
<1> DEFINE fs == session'.features
<1>4. fs \in Seq(FeatureRecord(Feature))
  BY DEF TypeOK, SessionType
<1> HIDE DEF fs
<1>5. i \in DOMAIN fs => fs[i] \in FeatureRecord(Feature)
  BY <1>4, ElementOfSeqDomain
<1>6. session'.features[i] \in [id : Feature, passes : BOOLEAN]
  BY <1>3, <1>5 DEF fs, FeatureRecord
<1>7. session'.features[i] = [id |-> f, passes |-> TRUE]
  BY <1>3, <1>6
<1>8. QED
  BY <1>3, <1>7 DEF Passing

(* The update makes the feature it is asked for pass. *)
LEMMA MarkMakesPassing ==
  ASSUME TypeOK, ListInv, NEW f \in Feature, HasFeature(session, f),
         session' = UpdateFeaturePass(session, f, TRUE)
  PROVE  Passing(f)'
<1> DEFINE fs == session.features
           gs == [i \in DOMAIN fs |->
                   IF fs[i].id = f /\ \A j \in 1 .. (i - 1) : fs[j].id # f
                   THEN [fs[i] EXCEPT !.passes = TRUE]
                   ELSE fs[i]]
<1>1. fs \in Seq(FeatureRecord(Feature)) /\ session \in SessionType
  BY DEF TypeOK, SessionType
<1>2. session'.features = gs
  BY <1>1 DEF UpdateFeaturePass, SessionType
<1>3. PICK i \in DOMAIN fs : fs[i].id = f
  BY DEF HasFeature
<1>4. \A j \in DOMAIN fs : fs[j].id = f => j = i
  BY <1>3 DEF ListInv, UniqueIds
<1> HIDE DEF fs
<1>5. \A j \in 1 .. (i - 1) : j \in DOMAIN fs /\ j # i
  BY <1>1, <1>3
<1>6. gs[i] = [fs[i] EXCEPT !.passes = TRUE] /\ i \in DOMAIN gs
  BY <1>3, <1>4, <1>5
<1>7. fs[i] \in FeatureRecord(Feature)
  BY <1>1, <1>3, ElementOfSeqDomain
<1> HIDE DEF gs
<1>8. gs[i] = [id |-> f, passes |-> TRUE]
  <2>1. fs[i] \in [id : Feature, passes : BOOLEAN]
    BY <1>7 DEF FeatureRecord
  <2>2. QED BY <1>3, <1>6, <2>1
<1>9. QED
  BY <1>2, <1>6, <1>8 DEF Passing

(* What is settled stays settled while its run takes up nothing more. *)
LEMMA SettledStays ==
  ASSUME TypeOK, NEW r \in Run, Settled(r),
         processed'[r] = processed[r], validated'[r] = validated[r],
         \A f \in Feature : Passing(f) => Passing(f)'
  PROVE  Settled(r)'
<1>1. processed[r] \in Seq(Feature)
  BY DEF TypeOK
<1>2. \A n \in DOMAIN processed[r] : processed[r][n] \in Feature
  BY <1>1, ElementOfSeqDomain
<1> HIDE DEF Passing
<1>3. \A n \in DOMAIN processed[r] : Passing(processed[r][n])'
  BY <1>2 DEF Settled
<1>4. QED
  BY <1>3 DEF Settled

(* A run that stays, or moves without taking up or finishing a feature. *)
LEMMA WorkKept ==
  ASSUME TypeOK, NEW r \in Run, WorkOf(r), Stays(r),
         \A f \in Feature : Passing(f) => Passing(f)'
  PROVE  WorkOf(r)'
<1>1. Settled(r) => Settled(r)'
  BY SettledStays DEF Stays
<1>2. validated[r] \in Seq(Feature)
  BY DEF TypeOK
<1>3. \A n \in DOMAIN validated[r] : validated[r][n] \in Feature
  BY <1>2, ElementOfSeqDomain
<1>4. Current(r)' = Current(r)
  BY DEF Stays, Current
<1> HIDE DEF Passing, Settled, Current
<1>5. QED
  BY <1>1, <1>3, <1>4 DEF WorkOf, Stays

LEMMA MovesElsewhere ==
  ASSUME TypeOK, NEW r \in Run, Moves(r), ~SelectFeature(r), ~MarkPassed(r)
  PROVE  /\ processed'[r] = processed[r] /\ validated'[r] = validated[r]
         /\ pc'[r] \in Early => pc[r] \in Early
         /\ pc'[r] = "select" => pc[r] \in Early
         /\ pc'[r] \in OnFeature => pc[r] \in OnFeature
         /\ pc[r] \in Ended => pc'[r] \in Ended
         /\ outcome'[r] \in {"complete", "partial"} =>
              \/ outcome[r] \in {"complete", "partial"}
              \/ pc[r] \in Early \cup {"select"} /\ pc'[r] \in Ended
<1> USE DEF Early, OnFeature, Ended
<1>t. /\ pc \in [Run -> Waiting \cup {"idle", "returned", "cancelled"}]
      /\ outcome \in [Run -> Outcome]
  BY DEF TypeOK
<1>1. CASE Start(r) \/ Cancel(r)
  BY <1>1, <1>t DEF Start, Cancel, Goto, Return, progressVars, RunSession, RunInitializer,
         RunTaskIteration, EnterInitializer, EnterTaskIteration
<1>2. CASE Advance(r)
  BY <1>2, <1>t DEF Advance, Goto, Return, Conclude, progressVars, EnterInitializer,
              EnterTaskIteration, SelectPhase, InitializeSession, VerifyManifest,
              RecordStarted, LoadBootstrap, CheckHealth, FindNoFeature,
              FinishBatch, ExecuteTurn, Approve, Reject, ValidatorError,
              RecordTerminal, RecordProgress, MemoryError
<1>3. QED
  BY <1>1, <1>2 DEF Moves

LEMMA WorkMoved ==
  ASSUME TypeOK, TypeOK', ListInv, NEW r \in Run, WorkOf(r), Moves(r),
         \A f \in Feature : Passing(f) => Passing(f)'
  PROVE  WorkOf(r)'
<1> HIDE DEF Passing
<1>t. /\ pc \in [Run -> Waiting \cup {"idle", "returned", "cancelled"}]
      /\ outcome \in [Run -> Outcome]
      /\ processed \in [Run -> Seq(Feature)]
      /\ validated \in [Run -> Seq(Feature)]
  BY DEF TypeOK
<1>v. validated[r] \in Seq(Feature) /\ \A n \in DOMAIN validated[r] : validated[r][n] \in Feature
  <2>1. validated[r] \in Seq(Feature)
    BY <1>t
  <2>2. QED BY <2>1, ElementOfSeqDomain
<1>1. CASE SelectFeature(r)
  <2>1. PICK f \in Selectable(r, session.features) :
          processed' = [processed EXCEPT ![r] = Append(@, f)]
    BY <1>1 DEF SelectFeature
  <2>2. f \in Feature
    BY SelectableIsFeature
  <2>3. /\ processed'[r] = Append(validated[r], f)
        /\ validated'[r] = validated[r]
        /\ \A n \in DOMAIN validated[r] : Passing(validated[r][n])
        /\ pc[r] = "select" /\ pc'[r] = "turn" /\ outcome'[r] = outcome[r]
    BY <1>1, <1>t, <2>1 DEF SelectFeature, WorkOf, Settled, Goto
  <2>4. Current(r)' = f
    BY <1>v, <2>2, <2>3, AppendFacts DEF Current
  <2>5. outcome'[r] \notin {"complete", "partial"}
    BY <2>3 DEF WorkOf, Ended
  <2>6. \A n \in DOMAIN validated[r] : Passing(validated[r][n])'
    BY <1>v, <2>3
  <2>7. QED
    BY <2>3, <2>4, <2>5, <2>6 DEF WorkOf, Early, OnFeature
<1>2. CASE MarkPassed(r)
  <2>1. /\ pc[r] = "mark"
        /\ session' = UpdateFeaturePass(session, Current(r), TRUE)
        /\ processed'[r] = processed[r]
    BY <1>2 DEF MarkPassed, Written
  <2>2. Current(r) \in Feature
    BY <2>1, CurrentIsLast DEF TypeOK
  <2>3. CASE HasFeature(session, Current(r))
    <3>1. /\ pc'[r] = "select" /\ outcome'[r] = outcome[r]
          /\ validated'[r] = Append(validated[r], Current(r))
      BY <1>2, <1>t, <2>3 DEF MarkPassed, Goto
    <3>2. \A f \in Feature : f = Current(r) => Passing(f)'
      <4> SUFFICES ASSUME NEW f \in Feature, f = Current(r) PROVE Passing(f)'
        OBVIOUS
      <4>1. HasFeature(session, f) /\ session' = UpdateFeaturePass(session, f, TRUE)
        BY <2>1, <2>3
      <4>2. QED BY <4>1, MarkMakesPassing
    <3>3. processed[r] = Append(validated[r], Current(r))
          /\ \A n \in DOMAIN validated[r] : Passing(validated[r][n])
      BY <2>1 DEF WorkOf, OnFeature
    <3>4. \A n \in DOMAIN processed[r] : Passing(processed[r][n])'
      <4> SUFFICES ASSUME NEW n \in DOMAIN processed[r], NEW f, f = processed[r][n]
                   PROVE  Passing(f)'
        BY <2>1 DEF Passing
      <4>1. CASE n \in DOMAIN validated[r]
        <5>1. f = validated[r][n]
          BY <1>v, <2>2, <3>3, <4>1, AppendFacts
        <5>2. f \in Feature /\ Passing(f)
          BY <1>v, <3>3, <4>1, <5>1
        <5>3. QED BY <5>2
      <4>2. CASE n = Len(validated[r]) + 1
        <5>1. f = Current(r)
          BY <1>v, <2>2, <3>3, <4>2, AppendFacts
        <5>2. QED BY <2>2, <3>2, <5>1
      <4>3. QED
        BY <1>v, <2>2, <3>3, <4>1, <4>2, AppendFacts
    <3>5. Settled(r)'
      BY <2>1, <3>1, <3>3, <3>4 DEF Settled
    <3>6. outcome'[r] \notin {"complete", "partial"}
      BY <2>1, <3>1 DEF WorkOf, Ended
    <3>7. QED
      BY <3>1, <3>5, <3>6 DEF WorkOf, Early, OnFeature
  <2>4. CASE ~HasFeature(session, Current(r))
    <3>1. pc'[r] = "handoff" /\ outcome'[r] = "error"
      BY <1>2, <1>t, <2>4 DEF MarkPassed, Conclude
    <3>2. QED
      BY <3>1 DEF WorkOf, Early, OnFeature
  <2>5. QED
    BY <2>3, <2>4
<1>3. CASE ~SelectFeature(r) /\ ~MarkPassed(r)
  <2>1. processed'[r] = processed[r] /\ validated'[r] = validated[r]
    BY <1>3, MovesElsewhere
  <2>2. Settled(r) => Settled(r)'
    BY <2>1, SettledStays
  <2>3. Current(r)' = Current(r)
    BY <2>1 DEF Current
  <2>4. pc[r] \in Early \cup {"select"} => Settled(r)
    BY DEF WorkOf, Settled
  <2>5. pc'[r] \in OnFeature =>
          /\ processed[r] = Append(validated[r], Current(r))
          /\ \A n \in DOMAIN validated[r] : Passing(validated[r][n])'
    BY <1>3, <1>v, MovesElsewhere DEF WorkOf
  <2> HIDE DEF Settled, Current
  <2>6. outcome'[r] \in {"complete", "partial"} => pc'[r] \in Ended /\ Settled(r)
    BY <1>3, <2>4, MovesElsewhere DEF WorkOf
  <2>7. pc'[r] \in Early => processed[r] = << >> /\ validated[r] = << >>
    BY <1>3, MovesElsewhere DEF WorkOf
  <2>8. pc'[r] = "select" => Settled(r)
    BY <1>3, <2>4, MovesElsewhere
  <2>9. QED
    BY <2>1, <2>2, <2>3, <2>5, <2>6, <2>7, <2>8 DEF WorkOf
<1>4. QED
  BY <1>1, <1>2, <1>3

(* What a write adds to the checkpoint log and to the progress list. *)
LEMMA WrittenLog ==
  ASSUME TypeOK, NEW r \in Run, session' = Written(r)
  PROVE  LET creates == pc[r] = "initialize" /\ ~IsInitialized(session) IN
         /\ session'.checkpoints =
              IF creates \/ pc[r] = "checkpoint" THEN Append(session.checkpoints, Started(r))
              ELSE IF pc[r] = "handoff" THEN Append(session.checkpoints, Terminal(r))
              ELSE session.checkpoints
         /\ session'.progress =
              IF creates \/ pc[r] = "progress" THEN Append(session.progress, r)
              ELSE session.progress
<1>1. session \in SessionType
  BY DEF TypeOK
<1>2. CASE pc[r] = "mark"
  <2>1. Current(r) \in Feature
    BY <1>2, CurrentIsLast DEF TypeOK
  <2>2. session' = UpdateFeaturePass(session, Current(r), TRUE)
    BY <1>2 DEF Written
  <2>3. session'.checkpoints = session.checkpoints /\ session'.progress = session.progress
    BY <1>1, <2>2 DEF UpdateFeaturePass, SessionType
  <2>4. QED BY <1>2, <2>3
<1>3. CASE pc[r] = "initialize"
  BY <1>1, <1>3 DEF Written, InitializeIfMissing, SessionType
<1>4. CASE pc[r] \notin {"mark", "initialize"}
  BY <1>1, <1>4 DEF Written, RecordCheckpoint, AppendProgress, SessionType
<1>5. QED
  BY <1>2, <1>3, <1>4

LEMMA LogEntryType ==
  ASSUME NEW r \in Run
  PROVE  /\ Started(r) \in [run : RunId, status : RunStatus]
         /\ Terminal(r) \in [run : RunId, status : RunStatus]
BY DEF Started, Terminal, RunId, RunStatus

LEMMA WorkStep ==
  TypeOK /\ TypeOK' /\ ListInv /\ WorkInv /\ [Next]_vars => WorkInv'
<1> SUFFICES ASSUME TypeOK, TypeOK', ListInv, WorkInv, [Next]_vars PROVE WorkInv'
  OBVIOUS
<1> HIDE DEF Passing
<1>p. \A f \in Feature : Passing(f) => Passing(f)'
  BY PassingStays
<1>1. CASE UNCHANGED vars
  BY <1>1 DEF vars, WorkInv, WorkOf, Settled, Passing, Current
<1>2. CASE Next
  <2>1. PICK r \in Run : Moves(r)
    BY <1>2 DEF Next, Moves
  <2>2. ASSUME NEW q \in Run PROVE WorkOf(q)'
    <3>1. WorkOf(q)
      BY DEF WorkInv
    <3>2. CASE q = r
      BY <1>p, <2>1, <3>1, <3>2, WorkMoved
    <3>3. CASE q # r
      BY <1>p, <2>1, <3>1, <3>3, OthersStay, WorkKept
    <3>4. QED BY <3>2, <3>3
  <2>3. ASSUME NEW q \in Run, pc[q] \in Ended, Settled(q)
        PROVE  pc'[q] \in Ended /\ Settled(q)'
    <3>1. CASE q = r
      <4>1. ~SelectFeature(r) /\ ~MarkPassed(r)
        BY <2>3, <3>1 DEF Ended, SelectFeature, MarkPassed
      <4>2. pc'[r] \in Ended /\ processed'[r] = processed[r] /\ validated'[r] = validated[r]
        BY <2>1, <2>3, <3>1, <4>1, MovesElsewhere
      <4>3. QED BY <1>p, <2>3, <3>1, <4>2, SettledStays
    <3>2. CASE q # r
      <4>1. Stays(q)
        BY <2>1, <3>2, OthersStay
      <4>2. QED BY <1>p, <2>3, <4>1, SettledStays DEF Stays
    <3>3. QED BY <3>1, <3>2
  <2>4. ASSUME NEW k \in DOMAIN session'.checkpoints,
               session'.checkpoints[k].status = "Succeeded",
               NEW q, q = session'.checkpoints[k].run
        PROVE  q \in Run /\ pc'[q] \in Ended /\ Settled(q)'
    <3> DEFINE log == session.checkpoints
    <3>1. ASSUME k \in DOMAIN log, session'.checkpoints[k] = log[k]
          PROVE  q \in Run /\ pc'[q] \in Ended /\ Settled(q)'
      <4>1. q \in Run /\ pc[q] \in Ended /\ Settled(q)
        BY <2>4, <3>1 DEF WorkInv
      <4>2. QED
        BY <2>3, <4>1
    <3>2. CASE session' = session
      BY <3>1, <3>2
    <3>3. CASE pc[r] \in MemoryCall /\ session' = Written(r)
      <4>1. log \in Seq([run : RunId, status : RunStatus])
        BY DEF TypeOK, SessionType
      <4> HIDE DEF log
      <4>2. \/ session'.checkpoints = log
            \/ session'.checkpoints = Append(log, Started(r))
            \/ session'.checkpoints = Append(log, Terminal(r)) /\ pc[r] = "handoff"
        BY <3>3, WrittenLog DEF log
      <4>3. \/ k \in DOMAIN log /\ session'.checkpoints[k] = log[k]
            \/ session'.checkpoints[k] = Started(r)
            \/ session'.checkpoints[k] = Terminal(r) /\ pc[r] = "handoff"
        BY <4>1, <4>2, LogEntryType, AppendFacts
      <4>4. CASE k \in DOMAIN log /\ session'.checkpoints[k] = log[k]
        BY <3>1, <4>4
      <4>5. CASE session'.checkpoints[k] = Started(r)
        BY <2>4, <4>5 DEF Started
      <4>6. CASE session'.checkpoints[k] = Terminal(r) /\ pc[r] = "handoff"
        <5>1. outcome[r] \in {"complete", "partial"} /\ q = r
          BY <2>4, <4>6 DEF Terminal
        <5>2. pc[r] \in Ended /\ Settled(r)
          BY <5>1 DEF WorkInv, WorkOf
        <5>3. QED BY <2>3, <5>1, <5>2
      <4>7. QED BY <4>3, <4>4, <4>5, <4>6
    <3>4. QED BY <2>1, <3>2, <3>3, MoverWrites
  <2>5. QED
    BY <2>2, <2>4 DEF WorkInv, Settled, Passing
<1>3. QED
  BY <1>1, <1>2

LEMMA WorkHolds == Spec => [](TypeOK /\ ListInv /\ WorkInv)
<1>1. Init => WorkInv
  <2> SUFFICES ASSUME Init PROVE WorkInv
    OBVIOUS
  <2>1. \A k \in DOMAIN session.checkpoints : session.checkpoints[k].status # "Succeeded"
    BY SessionAssumption DEF Init
  <2>2. \A r \in Run : WorkOf(r)
    BY DEF Init, WorkOf, Early, OnFeature
  <2>3. QED BY <2>1, <2>2 DEF WorkInv
<1>2. QED
  BY <1>1, WorkStep, ListHolds, PTL DEF Spec

(* A Succeeded checkpoint in the log of the session is true, now and ever  *)
(* after: whatever other runs and failed writes did, the run it names      *)
(* validated all it took up, and all of that passes in the session         *)
(* (harness.rs:440-500).                                                   *)
THEOREM SucceededIsTrueHolds == Spec => []SucceededIsTrue
<1>1. WorkInv => SucceededIsTrue
  BY DEF WorkInv, SucceededIsTrue, Settled, Passing
<1>2. QED
  BY <1>1, WorkHolds, PTL

(* With the default selector no run takes up a feature twice: at the head  *)
(* of its loop all it took up passes, and what the selector returns does   *)
(* not.                                                                    *)
THEOREM NoFeatureTwiceHolds == Spec => []NoFeatureTwice
<1>1. Init => NoFeatureTwice
  BY DEF Init, NoFeatureTwice
<1>2. TypeOK /\ ListInv /\ WorkInv /\ NoFeatureTwice /\ [Next]_vars => NoFeatureTwice'
  <2> SUFFICES ASSUME TypeOK, ListInv, WorkInv, NoFeatureTwice, [Next]_vars,
                      NEW q \in Run, Selector[q] = "first_pending",
                      NEW m \in DOMAIN processed'[q], NEW n \in DOMAIN processed'[q],
                      processed'[q][m] = processed'[q][n]
               PROVE  m = n
    BY DEF NoFeatureTwice
  <2>1. CASE processed'[q] = processed[q]
    BY <2>1 DEF NoFeatureTwice
  <2>2. CASE SelectFeature(q)
    <3>1. PICK f \in Selectable(q, session.features) :
            processed' = [processed EXCEPT ![q] = Append(@, f)]
      BY <2>2 DEF SelectFeature
    <3>2. f \in Feature
      BY SelectableIsFeature
    <3>3. processed[q] \in Seq(Feature) /\ processed'[q] = Append(processed[q], f)
      BY <3>1 DEF TypeOK
    <3>4. \A k \in DOMAIN processed[q] : Passing(processed[q][k])
      BY <2>2 DEF SelectFeature, WorkInv, WorkOf, Settled
    <3>5. ~Passing(f)
      <4>1. PICK i \in DOMAIN session.features :
              session.features[i].id = f /\ ~session.features[i].passes
        BY <3>1 DEF Selectable
      <4>2. QED
        BY <4>1 DEF Passing, ListInv, UniqueIds
    <3> HIDE DEF Passing
    <3>6. \A k \in DOMAIN processed[q] : processed[q][k] # f
      BY <3>4, <3>5
    <3>7. /\ DOMAIN processed'[q] = DOMAIN processed[q] \cup {Len(processed[q]) + 1}
          /\ \A k \in DOMAIN processed[q] : processed'[q][k] = processed[q][k]
          /\ processed'[q][Len(processed[q]) + 1] = f
      BY <3>2, <3>3, AppendFacts
    <3>8. QED
      BY <3>6, <3>7 DEF NoFeatureTwice
  <2>3. CASE ~SelectFeature(q) /\ processed'[q] # processed[q]
    <3>1. Start(q) \/ Advance(q) \/ Cancel(q)
      BY <2>3, OneRunMoves
    <3>2. processed' = processed
      BY <2>3, <3>1 DEF Start, Advance, Cancel, progressVars,
              RunSession, RunInitializer, RunTaskIteration, SelectPhase, InitializeSession,
              VerifyManifest, RecordStarted, LoadBootstrap, CheckHealth, FindNoFeature,
              FinishBatch, ExecuteTurn, Approve, Reject, ValidatorError, MarkPassed,
              RecordTerminal, RecordProgress, MemoryError
    <3>3. QED BY <2>3, <3>2
  <2>4. QED
    BY <2>1, <2>2, <2>3
<1>3. QED
  BY <1>1, <1>2, WorkHolds, PTL DEF Spec

----------------------------------------------------------------------------
(* What the session tells of a run.                                        *)
(*                                                                         *)
(* A run has no checkpoint (Fresh), its InProgress one (Opened), or that   *)
(* one and a terminal one (Closed); HandoffInv says which of them at each  *)
(* call, so that an error of the loop finds the log open and an error of   *)
(* the handoff leaves at most a terminal status without a progress entry.  *)

Results == {"complete", "partial", "unvalidated"}

Fresh(r) == CheckpointsOf(r) = {}

Opened(r) ==
  \E j \in DOMAIN session.checkpoints :
    CheckpointsOf(r) = {j} /\ session.checkpoints[j].status = "InProgress"

Closed(r, status) ==
  \E j, k \in DOMAIN session.checkpoints :
    /\ CheckpointsOf(r) = {j, k}
    /\ j < k
    /\ session.checkpoints[j].status = "InProgress"
    /\ session.checkpoints[k].status = status

Reported(r) == \E e \in DOMAIN session.progress : ProgressOf(r) = {e}

LoggedOf(r) ==
  /\ Fresh(r) \/ Opened(r) \/ Closed(r, "Failed") \/ Closed(r, "Succeeded")
  /\ pc[r] \in {"idle", "select_phase", "initialize", "checkpoint"} => Fresh(r)
  /\ pc[r] = "verify" => Fresh(r) \/ Opened(r)
  /\ pc[r] \in PastLoad \cup {"bootstrap", "handoff"} => Opened(r)
  /\ pc[r] = "progress" => Closed(r, Terminal(r).status)
  /\ pc[r] \notin {"verify", "returned", "cancelled"} => ProgressOf(r) = {}
  /\ outcome[r] \in Results => pc[r] \in Ended
  /\ pc[r] = "returned" /\ outcome[r] \in Results =>
       Closed(r, Terminal(r).status) /\ Reported(r)

HandoffInv == \A r \in Run : LoggedOf(r)

(* A new checkpoint adds its index to what the log tells of its run. *)
LEMMA CheckpointsAfter ==
  ASSUME TypeOK, NEW r \in Run, NEW c \in [run : RunId, status : RunStatus], c.run = r,
         session'.checkpoints = Append(session.checkpoints, c)
  PROVE  LET n == Len(session.checkpoints) + 1 IN
         /\ CheckpointsOf(r)' = CheckpointsOf(r) \cup {n}
         /\ \A q \in Run : q # r => CheckpointsOf(q)' = CheckpointsOf(q)
         /\ n \in DOMAIN session'.checkpoints /\ session'.checkpoints[n] = c
         /\ \A k \in DOMAIN session.checkpoints :
              /\ k < n
              /\ k \in DOMAIN session'.checkpoints
              /\ session'.checkpoints[k] = session.checkpoints[k]
<1> DEFINE log == session.checkpoints
           n == Len(log) + 1
<1>1. log \in Seq([run : RunId, status : RunStatus])
  BY DEF TypeOK, SessionType
<1> HIDE DEF log
<1>2. /\ DOMAIN session'.checkpoints = DOMAIN log \cup {n}
      /\ \A k \in DOMAIN log : session'.checkpoints[k] = log[k]
      /\ session'.checkpoints[n] = c
  BY <1>1, AppendFacts DEF log
<1>3. \A k \in DOMAIN log : k < n
  BY <1>1
<1>4. ASSUME NEW q \in Run
      PROVE  CheckpointsOf(q)' = CheckpointsOf(q) \cup (IF q = r THEN {n} ELSE {})
  BY <1>2 DEF CheckpointsOf, log
<1> HIDE DEF n
<1>5. QED
  BY <1>2, <1>3, <1>4 DEF log, n

LEMMA ProgressAfter ==
  ASSUME TypeOK, NEW r \in Run, session'.progress = Append(session.progress, r)
  PROVE  LET n == Len(session.progress) + 1 IN
         /\ n \in DOMAIN session'.progress
         /\ ProgressOf(r)' = ProgressOf(r) \cup {n}
         /\ \A q \in Run : q # r => ProgressOf(q)' = ProgressOf(q)
         /\ \A k \in DOMAIN session.progress : k \in DOMAIN session'.progress
<1> DEFINE list == session.progress
           n == Len(list) + 1
<1>1. list \in Seq(RunId) /\ r \in RunId
  BY DEF TypeOK, SessionType, RunId
<1> HIDE DEF list
<1>2. /\ DOMAIN session'.progress = DOMAIN list \cup {n}
      /\ \A k \in DOMAIN list : session'.progress[k] = list[k]
      /\ session'.progress[n] = r
  BY <1>1, AppendFacts DEF list
<1>4. ASSUME NEW q \in Run
      PROVE  ProgressOf(q)' = ProgressOf(q) \cup (IF q = r THEN {n} ELSE {})
  BY <1>2 DEF ProgressOf, list
<1> HIDE DEF n
<1>5. QED
  BY <1>2, <1>4 DEF list, n

(* The log and the progress list tell of a run what they told. *)
LogKept(q) ==
  /\ CheckpointsOf(q)' = CheckpointsOf(q)
  /\ \A k \in DOMAIN session.checkpoints :
       k \in DOMAIN session'.checkpoints /\ session'.checkpoints[k] = session.checkpoints[k]

ProgressKept(q) ==
  /\ ProgressOf(q)' = ProgressOf(q)
  /\ \A k \in DOMAIN session.progress : k \in DOMAIN session'.progress

LEMMA LogKeeps ==
  ASSUME NEW q \in Run, LogKept(q)
  PROVE  /\ Fresh(q) => Fresh(q)'
         /\ Opened(q) => Opened(q)'
         /\ \A status : Closed(q, status) => Closed(q, status)'
<1>1. Fresh(q) => Fresh(q)'
  BY DEF LogKept, Fresh
<1>2. Opened(q) => Opened(q)'
  BY DEF LogKept, Opened
<1>3. ASSUME NEW status, Closed(q, status) PROVE Closed(q, status)'
  BY <1>3 DEF LogKept, Closed
<1>4. QED
  BY <1>1, <1>2, <1>3

LEMMA WriteElsewhere ==
  ASSUME TypeOK, NEW r \in Run, session' = session \/ session' = Written(r), NEW q \in Run, q # r
  PROVE  LogKept(q) /\ ProgressKept(q)
<1>1. CASE session' = session
  BY <1>1 DEF LogKept, ProgressKept, CheckpointsOf, ProgressOf
<1>2. CASE session' = Written(r)
  <2>1. LogKept(q)
    <3>1. CASE session'.checkpoints = session.checkpoints
      BY <3>1 DEF LogKept, CheckpointsOf
    <3>2. ASSUME NEW c \in [run : RunId, status : RunStatus], c.run = r,
                 session'.checkpoints = Append(session.checkpoints, c)
          PROVE  LogKept(q)
      BY <3>2, CheckpointsAfter DEF LogKept
    <3>3. Started(r).run = r /\ Terminal(r).run = r
      BY DEF Started, Terminal
    <3>4. PICK s \in [run : RunId, status : RunStatus],
               t \in [run : RunId, status : RunStatus] : s = Started(r) /\ t = Terminal(r)
      BY LogEntryType
    <3>5. QED BY <1>2, <3>1, <3>2, <3>3, <3>4, WrittenLog
  <2>2. ProgressKept(q)
    <3>1. CASE session'.progress = session.progress
      BY <3>1 DEF ProgressKept, ProgressOf
    <3>2. CASE session'.progress = Append(session.progress, r)
      BY <3>2, ProgressAfter DEF ProgressKept
    <3>3. QED BY <1>2, <3>1, <3>2, WrittenLog
  <2>3. QED BY <2>1, <2>2
<1>3. QED
  BY <1>1, <1>2

(* What the writes of a run do to what is told of it. *)
LEMMA WriteTells ==
  ASSUME TypeOK, NEW r \in Run, LoggedOf(r), session' = Written(r)
  PROVE  /\ pc[r] = "initialize" => Fresh(r)' \/ Opened(r)'
         /\ pc[r] = "checkpoint" => Opened(r)'
         /\ pc[r] = "handoff" =>
              \A status : status = Terminal(r).status => Closed(r, status)'
         /\ pc[r] \notin {"initialize", "checkpoint", "handoff"} => LogKept(r)
         /\ pc[r] \notin {"initialize", "progress"} => ProgressKept(r)
         /\ pc[r] = "progress" => Reported(r)'
<1>1. pc[r] \notin {"initialize", "checkpoint", "handoff"} => LogKept(r)
  <2>1. session'.checkpoints = session.checkpoints => LogKept(r)
    BY DEF LogKept, CheckpointsOf
  <2>2. QED BY <2>1, WrittenLog
<1>2. pc[r] \notin {"initialize", "progress"} => ProgressKept(r)
  <2>1. session'.progress = session.progress => ProgressKept(r)
    BY DEF ProgressKept, ProgressOf
  <2>2. QED BY <2>1, WrittenLog
<1>3. ASSUME pc[r] = "progress" PROVE Reported(r)'
  <2>1. session'.progress = Append(session.progress, r) /\ ProgressOf(r) = {}
    BY <1>3, WrittenLog DEF LoggedOf
  <2>2. QED BY <2>1, ProgressAfter DEF Reported
<1>4. ASSUME Fresh(r), session'.checkpoints = Append(session.checkpoints, Started(r))
      PROVE  Opened(r)'
  <2>1. PICK c \in [run : RunId, status : RunStatus] : c = Started(r)
    BY LogEntryType
  <2>2. c.run = r /\ c.status = "InProgress"
    BY <2>1 DEF Started
  <2>3. session'.checkpoints = Append(session.checkpoints, c)
    BY <1>4, <2>1
  <2>4. QED BY <1>4, <2>2, <2>3, CheckpointsAfter DEF Fresh, Opened
<1>5. pc[r] = "initialize" => Fresh(r)' \/ Opened(r)'
  <2>1. session'.checkpoints = session.checkpoints => LogKept(r)
    BY DEF LogKept, CheckpointsOf
  <2>2. QED BY <1>4, <2>1, WrittenLog, LogKeeps DEF LoggedOf
<1>6. pc[r] = "checkpoint" => Opened(r)'
  BY <1>4, WrittenLog DEF LoggedOf
<1>7. ASSUME pc[r] = "handoff", NEW status, status = Terminal(r).status
      PROVE  Closed(r, status)'
  <2>1. PICK c \in [run : RunId, status : RunStatus] : c = Terminal(r)
    BY LogEntryType
  <2>2. c.run = r /\ c.status = status
    BY <1>7, <2>1 DEF Terminal
  <2>3. session'.checkpoints = Append(session.checkpoints, c)
    BY <1>7, <2>1, WrittenLog
  <2>4. PICK j \in DOMAIN session.checkpoints :
          CheckpointsOf(r) = {j} /\ session.checkpoints[j].status = "InProgress"
    BY <1>7 DEF LoggedOf, Opened
  <2> DEFINE n == Len(session.checkpoints) + 1
  <2>5. /\ CheckpointsOf(r)' = {j, n}
        /\ n \in DOMAIN session'.checkpoints /\ session'.checkpoints[n] = c
        /\ j < n /\ j \in DOMAIN session'.checkpoints
        /\ session'.checkpoints[j] = session.checkpoints[j]
    BY <2>2, <2>3, <2>4, CheckpointsAfter
  <2> HIDE DEF n
  <2>6. QED BY <2>2, <2>4, <2>5 DEF Closed
<1>8. QED
  BY <1>1, <1>2, <1>3, <1>5, <1>6, <1>7

(* A run whose log, progress entries and result are what they were. *)
LEMMA LoggedKept ==
  ASSUME TypeOK, NEW q \in Run, LoggedOf(q), Stays(q), LogKept(q), ProgressKept(q)
  PROVE  LoggedOf(q)'
<1>1. /\ Fresh(q) => Fresh(q)'
      /\ Opened(q) => Opened(q)'
      /\ \A status : Closed(q, status) => Closed(q, status)'
  BY LogKeeps
<1>2. Reported(q) => Reported(q)'
  BY DEF Reported, ProgressKept
<1>3. ProgressOf(q)' = ProgressOf(q)
  BY DEF ProgressKept
<1>4. Terminal(q)' = Terminal(q) /\ pc'[q] = pc[q] /\ outcome'[q] = outcome[q]
  BY DEF Terminal, Stays
<1>5. Closed(q, Terminal(q).status) => Closed(q, Terminal(q).status)'
  BY <1>1, <1>4 DEF Closed
<1> HIDE DEF Fresh, Opened, Closed, Reported, Terminal
<1>6. QED
  BY <1>1, <1>2, <1>3, <1>4, <1>5 DEF LoggedOf

(* The steps of a run that write nothing. *)
LEMMA QuietMoves ==
  ASSUME TypeOK, NEW r \in Run, Moves(r), LoggedOf(r),
         ~InitializeSession(r), ~RecordStarted(r), ~MarkPassed(r), ~RecordTerminal(r),
         ~RecordProgress(r), ~MemoryError(r)
  PROVE  /\ session' = session
         /\ pc'[r] \in {"idle", "select_phase", "initialize", "checkpoint"} =>
              pc[r] \in {"idle", "select_phase", "initialize", "checkpoint"}
         /\ pc'[r] \in PastLoad \cup {"bootstrap", "handoff"} =>
              pc[r] \in PastLoad \cup {"bootstrap", "handoff"}
         /\ pc'[r] \notin {"verify", "progress"}
         /\ pc'[r] \notin {"returned", "cancelled"} => pc[r] \notin {"verify", "returned", "cancelled"}
         /\ outcome'[r] \in Results => pc'[r] \in {"handoff", "cancelled"}
<1> USE DEF PastLoad, Results, Ended
<1>t. /\ pc \in [Run -> Waiting \cup {"idle", "returned", "cancelled"}]
      /\ outcome \in [Run -> Outcome]
  BY DEF TypeOK
<1>o. outcome[r] \in Results => pc[r] \in Ended
  BY DEF LoggedOf
<1>1. CASE Start(r) \/ Cancel(r)
  BY <1>1, <1>t, <1>o DEF Start, Cancel, Goto, Return, progressVars, RunSession,
         RunInitializer, RunTaskIteration, EnterInitializer, EnterTaskIteration, Waiting,
         MemoryCall
<1>2. CASE Advance(r)
  BY <1>2, <1>t, <1>o DEF Advance, Goto, Return, Conclude, progressVars, EnterInitializer,
              EnterTaskIteration, SelectPhase, VerifyManifest,
              LoadBootstrap, CheckHealth, SelectFeature, FindNoFeature,
              FinishBatch, ExecuteTurn, Approve, Reject, ValidatorError
<1>3. QED
  BY <1>1, <1>2 DEF Moves

LEMMA LoggedMoved ==
  ASSUME TypeOK, NEW r \in Run, LoggedOf(r), Moves(r)
  PROVE  LoggedOf(r)'
<1> HIDE DEF Fresh, Opened, Closed, Reported, Terminal
<1>t. /\ pc \in [Run -> Waiting \cup {"idle", "returned", "cancelled"}]
      /\ outcome \in [Run -> Outcome]
  BY DEF TypeOK
<1>k. LogKept(r) => /\ Fresh(r) => Fresh(r)'
                    /\ Opened(r) => Opened(r)'
                    /\ \A status : Closed(r, status) => Closed(r, status)'
  BY LogKeeps
<1>s. session' = session => LogKept(r) /\ ProgressKept(r)
  BY DEF LogKept, ProgressKept, CheckpointsOf, ProgressOf
<1>1. CASE InitializeSession(r)
  <2>1. /\ pc[r] = "initialize" /\ session' = Written(r)
        /\ pc'[r] = "verify" /\ outcome'[r] \in {"exists", "created"}
    BY <1>1, <1>t DEF InitializeSession
  <2>2. Fresh(r)' \/ Opened(r)'
    BY <2>1, WriteTells
  <2>3. QED BY <2>1, <2>2 DEF LoggedOf, PastLoad, Results
<1>2. CASE RecordStarted(r)
  <2>1. /\ pc[r] = "checkpoint" /\ session' = Written(r)
        /\ pc'[r] = "bootstrap" /\ outcome'[r] = outcome[r]
    BY <1>2, <1>t DEF RecordStarted, Goto
  <2>2. Opened(r)' /\ ProgressKept(r)
    BY <2>1, WriteTells
  <2>3. outcome'[r] \notin Results /\ ProgressOf(r)' = {}
    BY <2>1, <2>2 DEF LoggedOf, Ended, ProgressKept
  <2>4. QED BY <2>1, <2>2, <2>3 DEF LoggedOf
<1>3. CASE MarkPassed(r)
  <2>1. /\ pc[r] = "mark" /\ session' = Written(r)
        /\ \/ pc'[r] = "select" /\ outcome'[r] = outcome[r]
           \/ pc'[r] = "handoff" /\ outcome'[r] = "error"
    BY <1>3, <1>t DEF MarkPassed, Goto, Conclude
  <2>2. LogKept(r) /\ ProgressKept(r) /\ Opened(r)
    BY <2>1, WriteTells DEF LoggedOf, PastLoad
  <2>3. outcome'[r] \notin Results /\ ProgressOf(r)' = {}
    BY <2>1, <2>2 DEF LoggedOf, Ended, ProgressKept, Results
  <2>4. QED BY <1>k, <2>1, <2>2, <2>3 DEF LoggedOf
<1>4. CASE RecordTerminal(r)
  <2>1. /\ pc[r] = "handoff" /\ session' = Written(r)
        /\ pc'[r] = "progress" /\ outcome'[r] = outcome[r]
    BY <1>4, <1>t DEF RecordTerminal, Goto
  <2>2. ProgressKept(r) /\ \A status : status = Terminal(r).status => Closed(r, status)'
    BY <2>1, WriteTells
  <2>3. Terminal(r)' = Terminal(r) /\ Terminal(r).status \in {"Succeeded", "Failed"}
    BY <2>1 DEF Terminal
  <2>4. PICK status \in {"Succeeded", "Failed"} : status = Terminal(r).status
    BY <2>3
  <2>5. Closed(r, status)' /\ Closed(r, Terminal(r).status)'
    BY <2>2, <2>3, <2>4 DEF Closed
  <2>6. Closed(r, "Failed")' \/ Closed(r, "Succeeded")'
    BY <2>4, <2>5
  <2>7. ProgressOf(r)' = {}
    BY <2>1, <2>2 DEF LoggedOf, ProgressKept
  <2>8. QED BY <2>1, <2>5, <2>6, <2>7 DEF LoggedOf, PastLoad, Ended
<1>5. CASE RecordProgress(r)
  <2>1. /\ pc[r] = "progress" /\ session' = Written(r)
        /\ pc'[r] = "returned" /\ outcome'[r] = outcome[r]
    BY <1>5, <1>t DEF RecordProgress, Return
  <2>2. LogKept(r) /\ Reported(r)' /\ Closed(r, Terminal(r).status)
    BY <2>1, WriteTells DEF LoggedOf
  <2>3. Terminal(r)' = Terminal(r)
    BY <2>1 DEF Terminal
  <2>4. Closed(r, Terminal(r).status)'
    BY <1>k, <2>2, <2>3 DEF Closed
  <2>5. Fresh(r)' \/ Opened(r)' \/ Closed(r, "Failed")' \/ Closed(r, "Succeeded")'
    BY <1>k, <2>2 DEF LoggedOf
  <2>6. QED BY <2>1, <2>2, <2>4, <2>5 DEF LoggedOf, PastLoad, Ended
<1>6. CASE MemoryError(r)
  <2>1. /\ pc[r] \in MemoryCall
        /\ session' = session \/ session' = Written(r)
        /\ outcome'[r] = "error"
        /\ pc'[r] = IF pc[r] \in {"bootstrap", "select", "mark"} THEN "handoff" ELSE "returned"
    BY <1>6, <1>t DEF MemoryError, Return, Conclude
  <2>2. Fresh(r)' \/ Opened(r)' \/ Closed(r, "Failed")' \/ Closed(r, "Succeeded")'
    <3>1. CASE LogKept(r)
      BY <1>k, <3>1 DEF LoggedOf
    <3>2. CASE session' = Written(r) /\ pc[r] = "handoff"
      <4>1. PICK status \in {"Succeeded", "Failed"} : status = Terminal(r).status
        BY DEF Terminal
      <4>2. Closed(r, status)'
        BY <3>2, <4>1, WriteTells
      <4>3. QED BY <4>1, <4>2
    <3>3. QED BY <1>s, <2>1, <3>1, <3>2, WriteTells
  <2>3. pc'[r] = "handoff" => Opened(r)' /\ ProgressOf(r)' = {}
    <3>1. ASSUME pc'[r] = "handoff" PROVE LogKept(r) /\ ProgressKept(r) /\ Opened(r) /\ ProgressOf(r) = {}
      BY <1>s, <2>1, <3>1, WriteTells DEF LoggedOf, PastLoad
    <3>2. QED BY <1>k, <3>1 DEF ProgressKept
  <2>4. QED BY <2>1, <2>2, <2>3 DEF LoggedOf, Results, PastLoad
<1>7. CASE /\ ~InitializeSession(r) /\ ~RecordStarted(r) /\ ~MarkPassed(r)
           /\ ~RecordTerminal(r) /\ ~RecordProgress(r) /\ ~MemoryError(r)
  <2>1. LogKept(r) /\ ProgressKept(r)
    BY <1>7, <1>s, QuietMoves
  <2>2. Fresh(r)' \/ Opened(r)' \/ Closed(r, "Failed")' \/ Closed(r, "Succeeded")'
    BY <1>k, <2>1 DEF LoggedOf
  <2>3. pc'[r] \in {"idle", "select_phase", "initialize", "checkpoint"} => Fresh(r)'
    BY <1>7, <1>k, <2>1, QuietMoves DEF LoggedOf
  <2>4. pc'[r] \in PastLoad \cup {"bootstrap", "handoff"} => Opened(r)'
    BY <1>7, <1>k, <2>1, QuietMoves DEF LoggedOf
  <2>5. pc'[r] \notin {"returned", "cancelled"} => ProgressOf(r)' = {}
    BY <1>7, <2>1, QuietMoves DEF LoggedOf, ProgressKept
  <2>6. /\ pc'[r] \notin {"verify", "progress"}
        /\ outcome'[r] \in Results => pc'[r] \in {"handoff", "cancelled"}
    BY <1>7, QuietMoves
  <2>7. QED BY <2>2, <2>3, <2>4, <2>5, <2>6 DEF LoggedOf, Ended
<1>8. QED
  BY <1>1, <1>2, <1>3, <1>4, <1>5, <1>6, <1>7

LEMMA HandoffStep == TypeOK /\ HandoffInv /\ [Next]_vars => HandoffInv'
<1> SUFFICES ASSUME TypeOK, HandoffInv, [Next]_vars, NEW q \in Run PROVE LoggedOf(q)'
  BY DEF HandoffInv
<1>0. LoggedOf(q)
  BY DEF HandoffInv
<1>1. CASE UNCHANGED vars
  <2>1. Stays(q) /\ LogKept(q) /\ ProgressKept(q)
    BY <1>1 DEF vars, Stays, LogKept, ProgressKept, CheckpointsOf, ProgressOf
  <2>2. QED BY <1>0, <2>1, LoggedKept
<1>2. CASE Next
  <2>1. PICK r \in Run : Moves(r)
    BY <1>2 DEF Next, Moves
  <2>2. CASE q = r
    BY <1>0, <2>1, <2>2, LoggedMoved
  <2>3. CASE q # r
    BY <1>0, <2>1, <2>3, MoverWrites, OthersStay, WriteElsewhere, LoggedKept
  <2>4. QED BY <2>2, <2>3
<1>3. QED
  BY <1>1, <1>2

(* The log of a run starts with InProgress and has at most one terminal    *)
(* status after it, and a run that returned a result left that status and  *)
(* one progress entry, for any number of runs and whatever calls of the    *)
(* backend fail.                                                           *)
THEOREM CleanHandoffHolds == Spec => []CleanHandoff
<1>1. Init => HandoffInv
  <2> SUFFICES ASSUME Init, NEW r \in Run PROVE LoggedOf(r)
    BY DEF HandoffInv
  <2>1. /\ \A k \in DOMAIN session.checkpoints : session.checkpoints[k].run # r
        /\ \A k \in DOMAIN session.progress : session.progress[k] # r
    BY SessionAssumption, RunAssumption DEF Init
  <2>2. Fresh(r) /\ ProgressOf(r) = {}
    BY <2>1 DEF Fresh, CheckpointsOf, ProgressOf
  <2>3. pc[r] = "idle" /\ outcome[r] = "none"
    BY DEF Init
  <2>4. QED BY <2>2, <2>3 DEF LoggedOf, PastLoad, Results
<1>2. TypeOK /\ HandoffInv => CleanHandoff
  <2> SUFFICES ASSUME TypeOK, HandoffInv, NEW r \in Run
               PROVE  LET log == CheckpointsOf(r) IN
                      /\ Cardinality(log) <= 2
                      /\ \A k \in log :
                           session.checkpoints[k].status = "InProgress" <=> \A j \in log : k <= j
                      /\ pc[r] = "returned" /\ outcome[r] \in Results =>
                           /\ Cardinality(log) = 2
                           /\ outcome[r] = "unvalidated" <=>
                                \E k \in log : session.checkpoints[k].status = "Failed"
                           /\ Cardinality(ProgressOf(r)) = 1
    BY DEF CleanHandoff, Results
  <2> DEFINE log == CheckpointsOf(r)
  <2>t. DOMAIN session.checkpoints \subseteq Int
    <3>1. session.checkpoints \in Seq([run : RunId, status : RunStatus])
      BY DEF TypeOK, SessionType
    <3>2. QED BY <3>1
  <2>l. LoggedOf(r)
    BY DEF HandoffInv
  <2>1. ASSUME NEW status \in {"Succeeded", "Failed"}, Closed(r, status)
        PROVE  /\ Cardinality(log) = 2
               /\ \A k \in log :
                    session.checkpoints[k].status = "InProgress" <=> \A j \in log : k <= j
               /\ (\E k \in log : session.checkpoints[k].status = "Failed") <=> status = "Failed"
    <3>1. PICK j \in DOMAIN session.checkpoints, k \in DOMAIN session.checkpoints :
            /\ log = {j, k} /\ j < k
            /\ session.checkpoints[j].status = "InProgress"
            /\ session.checkpoints[k].status = status
      BY <2>1 DEF Closed
    <3>2. j \in Int /\ k \in Int
      BY <2>t
    <3> HIDE DEF log
    <3>3. Cardinality(log) = 2
      <4>1. IsFiniteSet({j}) /\ Cardinality({j}) = 1
        BY FS_Singleton
      <4>2. k \notin {j} /\ log = {j} \cup {k}
        BY <3>1, <3>2
      <4>3. Cardinality({j} \cup {k}) = Cardinality({j}) + 1
        BY <4>1, <4>2, FS_AddElement
      <4>4. QED BY <4>1, <4>2, <4>3
    <3>4. QED BY <3>1, <3>2, <3>3
  <2>2. /\ Cardinality(log) <= 2
        /\ \A k \in log :
             session.checkpoints[k].status = "InProgress" <=> \A j \in log : k <= j
    <3>1. CASE Fresh(r)
      BY <3>1, FS_EmptySet DEF Fresh
    <3>2. CASE Opened(r)
      <4>1. PICK j \in DOMAIN session.checkpoints :
              log = {j} /\ session.checkpoints[j].status = "InProgress"
        BY <3>2 DEF Opened
      <4>2. j \in Int
        BY <2>t
      <4> HIDE DEF log
      <4>3. Cardinality(log) = 1
        BY <4>1, FS_Singleton
      <4>4. QED BY <4>1, <4>2, <4>3
    <3>3. CASE Closed(r, "Failed") \/ Closed(r, "Succeeded")
      BY <2>1, <3>3
    <3>4. QED BY <2>l, <3>1, <3>2, <3>3 DEF LoggedOf
  <2>3. ASSUME pc[r] = "returned", outcome[r] \in Results
        PROVE  /\ Cardinality(log) = 2
               /\ outcome[r] = "unvalidated" <=>
                    \E k \in log : session.checkpoints[k].status = "Failed"
               /\ Cardinality(ProgressOf(r)) = 1
    <3>1. PICK status \in {"Succeeded", "Failed"} : status = Terminal(r).status
      BY DEF Terminal
    <3>2. Closed(r, status) /\ Reported(r)
      BY <2>l, <2>3, <3>1 DEF LoggedOf
    <3>3. outcome[r] = "unvalidated" <=> status = "Failed"
      BY <2>3, <3>1 DEF Terminal, Results
    <3>4. PICK e \in DOMAIN session.progress : ProgressOf(r) = {e}
      BY <3>2 DEF Reported
    <3>5. Cardinality(ProgressOf(r)) = 1
      BY <3>4, FS_Singleton
    <3>6. Cardinality(log) = 2
          /\ ((\E k \in log : session.checkpoints[k].status = "Failed") <=> status = "Failed")
      BY <2>1, <3>2
    <3> HIDE DEF log
    <3>7. QED BY <3>3, <3>5, <3>6
  <2>4. QED
    BY <2>2, <2>3
<1>3. QED
  BY <1>1, <1>2, HandoffStep, TypeCorrect, PTL DEF Spec

=============================================================================
