------------------------------- MODULE Harness ------------------------------
(***************************************************************************)
(* The harness of fharness: runs of `run`, `run_initializer` and           *)
(* `run_task_iteration` on one session, any number of them at once.        *)
(*                                                                         *)
(* A run is a future.  It gives up the thread at every call of the memory  *)
(* backend, the chat service, the health checker and the validator, so a   *)
(* run has one pc per such call, and what it does between two calls is one *)
(* step.  Here the backend performs each call atomically, which is what    *)
(* InMemoryMemoryBackend does under its mutex; it may also fail a call,    *)
(* before or after a write took effect.  A run may be dropped at any call. *)
(*                                                                         *)
(* The phase hooks, prompts, notes and the messages of chat turns neither  *)
(* guard nor change anything below and are abstracted.                     *)
(***************************************************************************)
EXTENDS SessionState, FiniteSets

CONSTANTS
  Run,           \* run ids; each is used by one call
  EarlierRun,    \* ids used by earlier processes
  InitialSessions,  \* what those processes may have left in the backend
  ChatRun,       \* the runs whose harness was built with a chat service
  Feature,       \* feature ids
  Requests,      \* the requests callers make: [objective, features]
  StarterList,   \* what starter_feature_list returns
  Selector,      \* Selector[r]: "first_pending" (the default) or "custom"
  Policy         \* Policy[r]: the RunPolicy of the harness r is run by

UniqueIds(list) ==
  \A i, j \in DOMAIN list : list[i].id = list[j].id => i = j

ValidateFeatureList(list) ==
  /\ list # << >>
  /\ UniqueIds(list)
  /\ \A i \in DOMAIN list : ~list[i].passes

(* Two runs may be made by two harnesses, of one process or of several, and  *)
(* so under two policies.  fail_fast is the set of switches that are on.     *)
RunPolicy ==
  [mode         : {"strict_incremental", "bounded_batch", "unlimited_batch"},
   max_features : Nat,
   max_turns    : Nat,
   retry_budget : Nat,
   fail_fast    : SUBSET {"health_check", "chat", "validation"}]

ValidatePolicy(policy) ==
  /\ policy.max_turns >= 1
  /\ policy.mode = "strict_incremental" => policy.max_features = 1
  /\ policy.mode = "bounded_batch" => policy.max_features >= 1

RunId == Run \cup EarlierRun

SessionType ==
  [manifest    : RunId \cup {NoManifest},
   features    : Seq(FeatureRecord(Feature)),
   progress    : Seq(RunId),
   checkpoints : Seq([run : RunId, status : RunStatus]),
   transcript  : {<< >>}]

ASSUME RunAssumption ==
  /\ NoManifest \notin RunId
  /\ Run \cap EarlierRun = {}
  /\ ChatRun \subseteq Run
(* A session starts empty, or initialized by an earlier run and not worked on. *)
ASSUME SessionAssumption ==
  \A s \in InitialSessions :
    /\ s \in SessionType
    /\ \A k \in DOMAIN s.checkpoints :
         s.checkpoints[k].run \in EarlierRun /\ s.checkpoints[k].status # "Succeeded"
    /\ \A k \in DOMAIN s.progress : s.progress[k] \in EarlierRun
    /\ UniqueIds(s.features)
    /\ \A i \in DOMAIN s.features : ~s.features[i].passes
ASSUME RequestAssumption ==
  /\ Requests \subseteq [objective : BOOLEAN, features : Seq(FeatureRecord(Feature))]
  /\ StarterList \in Seq(FeatureRecord(Feature))
  /\ ValidateFeatureList(StarterList)
ASSUME PolicyAssumption ==
  /\ Selector \in [Run -> {"first_pending", "custom"}]
  /\ Policy \in [Run -> RunPolicy]
  /\ \A r \in Run : ValidatePolicy(Policy[r])

MaxTurns(r)    == Policy[r].max_turns
RetryBudget(r) == Policy[r].retry_budget
FailsFast(r, on) == on \in Policy[r].fail_fast

VARIABLES
  session,     \* what the memory backend holds
  pc,          \* pc[r]: the call run r is waiting for
  request,     \* request[r]: what the caller of r asked for
  loaded,      \* loaded[r]: the feature list of r's bootstrap load
  processed,   \* processed[r]: processed_feature_ids, the last one is current
  validated,   \* validated[r]: validated_feature_ids
  turns,       \* turns[r]: turns_used on the current feature
  retries,     \* retries[r]: retries_remaining on the current feature
  outcome,     \* outcome[r]: what r returns, once it is known
  approved     \* history: the <<run, feature>> a validator accepted

vars == <<session, pc, request, loaded, processed, validated, turns, retries,
          outcome, approved>>

progressVars == <<loaded, processed, validated, turns, retries, approved>>

(* The calls a run waits for; the first row are calls of the backend. *)
MemoryCall == {"select_phase", "initialize", "verify", "checkpoint", "bootstrap",
               "select", "mark", "handoff", "progress"}
Waiting == MemoryCall \cup {"health", "turn", "validate"}

Outcome == {"none", "error", "created", "exists", "complete", "partial", "unvalidated"}

Init ==
  /\ session   \in InitialSessions
  /\ pc        = [r \in Run |-> "idle"]
  /\ request   \in [Run -> Requests]
  /\ loaded    = [r \in Run |-> << >>]
  /\ processed = [r \in Run |-> << >>]
  /\ validated = [r \in Run |-> << >>]
  /\ turns     = [r \in Run |-> 0]
  /\ retries   = [r \in Run |-> 0]
  /\ outcome   = [r \in Run |-> "none"]
  /\ approved  = {}

----------------------------------------------------------------------------
(* Control: where a run goes next. *)

Goto(r, p) == pc' = [pc EXCEPT ![r] = p] /\ UNCHANGED outcome

Return(r, o) ==
  /\ pc' = [pc EXCEPT ![r] = "returned"]
  /\ outcome' = [outcome EXCEPT ![r] = o]

(* A task iteration has its result and turns to record_final_handoff. *)
Conclude(r, o) ==
  /\ pc' = [pc EXCEPT ![r] = "handoff"]
  /\ outcome' = [outcome EXCEPT ![r] = o]

(***************************************************************************)
(* The feature list run r initializes with, and whether its request is     *)
(* accepted before anything is written.                                    *)
(***************************************************************************)
InitialFeatures(r) ==
  IF request[r].features = << >> THEN StarterList ELSE request[r].features

Acceptable(r) == request[r].objective /\ ValidateFeatureList(InitialFeatures(r))

EnterInitializer(r) ==
  IF Acceptable(r) THEN Goto(r, "initialize") ELSE Return(r, "error")

EnterTaskIteration(r) ==
  IF r \in ChatRun THEN Goto(r, "checkpoint") ELSE Return(r, "error")

----------------------------------------------------------------------------
(* Data: what a run writes, and what it decides from. *)

Started(r) == [run |-> r, status |-> "InProgress"]

(* Faulty variant: every run that ends without an error succeeded. *)
TerminalUnlessError(r) ==
  [run |-> r, status |-> IF outcome[r] # "error" THEN "Succeeded" ELSE "Failed"]

Terminal(r) ==
  [run    |-> r,
   status |-> IF outcome[r] \in {"complete", "partial"} THEN "Succeeded" ELSE "Failed"]

Current(r) == processed[r][Len(processed[r])]

(* The session after the write run r is waiting for. *)
Written(r) ==
  CASE pc[r] = "initialize" -> InitializeIfMissing(session, r, InitialFeatures(r), r, Started(r))
    [] pc[r] = "checkpoint" -> RecordCheckpoint(session, Started(r))
    [] pc[r] = "mark"       -> UpdateFeaturePass(session, Current(r), TRUE)
    [] pc[r] = "handoff"    -> RecordCheckpoint(session, Terminal(r))
    [] pc[r] = "progress"   -> AppendProgress(session, r)
    [] OTHER                -> session

(* Faulty variant: one feature too many. *)
UnderLimitOffByOne(r) ==
  Policy[r].mode = "unlimited_batch" \/ Len(processed[r]) <= Policy[r].max_features

(* The limit of strict_incremental mode is 1, as max_features is there. *)
UnderLimit(r) ==
  Policy[r].mode = "unlimited_batch" \/ Len(processed[r]) < Policy[r].max_features

(* Faulty variant: the last turn is retried. *)
MayRetryLastTurn(r, n, on) == ~FailsFast(r, on) /\ retries[r] > 0

(* Run r may spend a retry once it has used n turns on its feature. *)
MayRetry(r, n, on) ==
  ~FailsFast(r, on) /\ retries[r] > 0 /\ n < MaxTurns(r)

(* Faulty variant: a run that validated all it took up declares completion. *)
BatchResultOfRun(r) == IF validated[r] = processed[r] THEN "complete" ELSE "partial"

(* The result of a batch that ended with no feature left unvalidated. *)
BatchResult(r) ==
  IF AllRequiredPassed(session.features) THEN "complete" ELSE "partial"

(* Faulty variant: the default selector forgets to look at `passes`. *)
SelectableFirst(r, features) ==
  IF Selector[r] = "custom" THEN Feature
  ELSE IF features = << >> THEN {} ELSE {features[1].id}

(***************************************************************************)
(* The features a selector may return: the first one that does not pass,   *)
(* or any feature at all if the application supplies the selector.         *)
(***************************************************************************)
Selectable(r, features) ==
  IF Selector[r] = "custom" THEN Feature
  ELSE {features[i].id : i \in {k \in DOMAIN features :
          ~features[k].passes /\ \A j \in 1 .. (k - 1) : features[j].passes}}

SelectsNothing(r, features) == Selector[r] = "custom" \/ Selectable(r, features) = {}

----------------------------------------------------------------------------
(* Entry points. *)

RunSession(r) ==
  /\ pc[r] = "idle"
  /\ Goto(r, "select_phase")
  /\ UNCHANGED <<session, request, progressVars>>

RunInitializer(r) ==
  /\ pc[r] = "idle"
  /\ EnterInitializer(r)
  /\ UNCHANGED <<session, request, progressVars>>

RunTaskIteration(r) ==
  /\ pc[r] = "idle"
  /\ EnterTaskIteration(r)
  /\ UNCHANGED <<session, request, progressVars>>

SelectPhase(r) ==
  /\ pc[r] = "select_phase"
  /\ IF IsInitialized(session) THEN EnterTaskIteration(r) ELSE EnterInitializer(r)
  /\ UNCHANGED <<session, request, progressVars>>

----------------------------------------------------------------------------
(* Initializer phase. *)

(* Until `verify` the outcome records the answer of the backend. *)
InitializeSession(r) ==
  /\ pc[r] = "initialize"
  /\ session' = Written(r)
  /\ pc' = [pc EXCEPT ![r] = "verify"]
  /\ outcome' = [outcome EXCEPT ![r] = IF IsInitialized(session) THEN "exists" ELSE "created"]
  /\ UNCHANGED <<request, progressVars>>

VerifyManifest(r) ==
  /\ pc[r] = "verify"
  /\ Return(r, IF IsInitialized(session) THEN outcome[r] ELSE "error")
  /\ UNCHANGED <<session, request, progressVars>>

----------------------------------------------------------------------------
(* Task iteration. *)

RecordStarted(r) ==
  /\ pc[r] = "checkpoint"
  /\ session' = Written(r)
  /\ Goto(r, "bootstrap")
  /\ UNCHANGED <<request, progressVars>>

LoadBootstrap(r) ==
  /\ pc[r] = "bootstrap"
  /\ IF IsInitialized(session)
     THEN /\ loaded' = [loaded EXCEPT ![r] = session.features]
          /\ Goto(r, "health")
     ELSE /\ Conclude(r, "error")
          /\ UNCHANGED loaded
  /\ UNCHANGED <<session, request, processed, validated, turns, retries, approved>>

(* The gate after the health check reads the list loaded before it. *)
CheckHealth(r) ==
  /\ pc[r] = "health"
  /\ \E healthy \in BOOLEAN :
       IF ~healthy /\ FailsFast(r, "health_check") THEN Conclude(r, "error")
       ELSE IF AllRequiredPassed(loaded[r]) THEN Conclude(r, "complete")
       ELSE Goto(r, "select")
  /\ UNCHANGED <<session, request, progressVars>>

(* The head of the outer loop, on a fresh load of the feature list. *)
SelectFeature(r) ==
  /\ pc[r] = "select"
  /\ UnderLimit(r)
  /\ ~AllRequiredPassed(session.features)
  /\ \E f \in Selectable(r, session.features) :
       processed' = [processed EXCEPT ![r] = Append(@, f)]
  /\ turns' = [turns EXCEPT ![r] = 0]
  /\ retries' = [retries EXCEPT ![r] = RetryBudget(r)]
  /\ Goto(r, "turn")
  /\ UNCHANGED <<session, request, loaded, validated, approved>>

FindNoFeature(r) ==
  /\ pc[r] = "select"
  /\ UnderLimit(r)
  /\ ~AllRequiredPassed(session.features)
  /\ SelectsNothing(r, session.features)
  /\ Conclude(r, "error")
  /\ UNCHANGED <<session, request, progressVars>>

(* The completion gate, at the head of the loop and after the last feature. *)
FinishBatch(r) ==
  /\ pc[r] = "select"
  /\ UnderLimit(r) => AllRequiredPassed(session.features)
  /\ Conclude(r, BatchResult(r))
  /\ UNCHANGED <<session, request, progressVars>>

ExecuteTurn(r) ==
  /\ pc[r] = "turn"
  /\ turns[r] < MaxTurns(r)
  /\ turns' = [turns EXCEPT ![r] = @ + 1]
  /\ \/ /\ Goto(r, "validate")
        /\ UNCHANGED retries
     \/ /\ MayRetry(r, turns'[r], "chat")
        /\ retries' = [retries EXCEPT ![r] = @ - 1]
        /\ Goto(r, "turn")
     \/ /\ ~MayRetry(r, turns'[r], "chat")
        /\ Conclude(r, "error")
        /\ UNCHANGED retries
  /\ UNCHANGED <<session, request, loaded, processed, validated, approved>>

Approve(r) ==
  /\ pc[r] = "validate"
  /\ approved' = approved \cup {<<r, Current(r)>>}
  /\ Goto(r, "mark")
  /\ UNCHANGED <<session, request, loaded, processed, validated, turns, retries>>

Reject(r) ==
  /\ pc[r] = "validate"
  /\ IF MayRetry(r, turns[r], "validation")
     THEN retries' = [retries EXCEPT ![r] = @ - 1] /\ Goto(r, "turn")
     ELSE Conclude(r, "unvalidated") /\ UNCHANGED retries
  /\ UNCHANGED <<session, request, loaded, processed, validated, turns, approved>>

ValidatorError(r) ==
  /\ pc[r] = "validate"
  /\ Conclude(r, "error")
  /\ UNCHANGED <<session, request, progressVars>>

MarkPassed(r) ==
  /\ pc[r] = "mark"
  /\ session' = Written(r)
  /\ IF HasFeature(session, Current(r))
     THEN /\ validated' = [validated EXCEPT ![r] = Append(@, Current(r))]
          /\ Goto(r, "select")
     ELSE /\ Conclude(r, "error")
          /\ UNCHANGED validated
  /\ UNCHANGED <<request, loaded, processed, turns, retries, approved>>

RecordTerminal(r) ==
  /\ pc[r] = "handoff"
  /\ session' = Written(r)
  /\ Goto(r, "progress")
  /\ UNCHANGED <<request, progressVars>>

RecordProgress(r) ==
  /\ pc[r] = "progress"
  /\ session' = Written(r)
  /\ Return(r, outcome[r])
  /\ UNCHANGED <<request, progressVars>>

----------------------------------------------------------------------------
(* Failures. *)

(* Errors of the loop still reach the handoff; those of the handoff do not. *)
MemoryError(r) ==
  /\ pc[r] \in MemoryCall
  /\ session' \in {session, Written(r)}
  /\ IF pc[r] \in {"bootstrap", "select", "mark"} THEN Conclude(r, "error")
     ELSE Return(r, "error")
  /\ UNCHANGED <<request, progressVars>>

(* The caller drops the future, or its process dies. *)
Cancel(r) ==
  /\ pc[r] \in Waiting
  /\ Goto(r, "cancelled")
  /\ UNCHANGED <<session, request, progressVars>>

----------------------------------------------------------------------------

Start(r) == RunSession(r) \/ RunInitializer(r) \/ RunTaskIteration(r)

Advance(r) ==
  \/ SelectPhase(r) \/ InitializeSession(r) \/ VerifyManifest(r)
  \/ RecordStarted(r) \/ LoadBootstrap(r) \/ CheckHealth(r)
  \/ SelectFeature(r) \/ FindNoFeature(r) \/ FinishBatch(r)
  \/ ExecuteTurn(r) \/ Approve(r) \/ Reject(r) \/ ValidatorError(r) \/ MarkPassed(r)
  \/ RecordTerminal(r) \/ RecordProgress(r)
  \/ MemoryError(r)

Next == \E r \in Run : Start(r) \/ Advance(r) \/ Cancel(r)

(* Every call a run waits for is answered, with a result or an error. *)
Fairness == \A r \in Run : WF_vars(Advance(r))

Spec == Init /\ [][Next]_vars
FairSpec == Spec /\ Fairness

----------------------------------------------------------------------------
(* Properties. *)

(* What the variables may hold; in "turn", "validate" and "mark" a feature  *)
(* is current.                                                              *)
TypeOK ==
  /\ session \in SessionType
  /\ pc \in [Run -> Waiting \cup {"idle", "returned", "cancelled"}]
  /\ request \in [Run -> Requests]
  /\ loaded \in [Run -> Seq(FeatureRecord(Feature))]
  /\ processed \in [Run -> Seq(Feature)]
  /\ validated \in [Run -> Seq(Feature)]
  /\ turns \in [Run -> Nat]
  /\ retries \in [Run -> Nat]
  /\ \A r \in Run : turns[r] <= MaxTurns(r) /\ retries[r] <= RetryBudget(r)
  /\ outcome \in [Run -> Outcome]
  /\ approved \subseteq Run \X Feature
  /\ \A r \in Run : pc[r] \in {"turn", "validate", "mark"} => processed[r] # << >>

(* "Harness does not declare done early": a run that decided that no feature *)
(* is pending is right about the session as it is now, although it decided   *)
(* from a list loaded before other runs, and before its own health check.    *)
NoEarlyCompletion ==
  \A r \in Run : outcome[r] = "complete" => AllRequiredPassed(session.features)

(* A feature passes only if a validator accepted a turn on that very feature, *)
(* in whatever run, and whether or not the write that marked it was reported  *)
(* as failed.                                                                 *)
PassesOnlyWhenApproved ==
  \A i \in DOMAIN session.features :
    session.features[i].passes => \E r \in Run : <<r, session.features[i].id>> \in approved

(* A Succeeded checkpoint tells the truth about the feature list: whatever    *)
(* the run took up, it validated, and all of it passes in the session.        *)
SucceededIsTrue ==
  \A k \in DOMAIN session.checkpoints :
    LET r == session.checkpoints[k].run IN
    session.checkpoints[k].status = "Succeeded" =>
      /\ validated[r] = processed[r]
      /\ \A n \in DOMAIN processed[r] : \E i \in DOMAIN session.features :
           session.features[i] = [id |-> processed[r][n], passes |-> TRUE]

(* A feature gets at most max_turns_per_run turns and one more than the retry *)
(* budget, chat errors and rejections counted together, and the turn loop     *)
(* never runs out of turns: if it did, the run would go on to the next        *)
(* feature and report the unvalidated one as validated.                       *)
TurnsWithinBudget ==
  \A r \in Run :
    /\ turns[r] <= RetryBudget(r) + 1
    /\ pc[r] = "turn" => turns[r] < MaxTurns(r)

(* A run never gets validator approval for more features than its mode        *)
(* allows: one in strict_incremental mode, max_features_per_run in a batch.   *)
IncrementalScope ==
  \A r \in Run :
    Policy[r].mode # "unlimited_batch" =>
      Cardinality({a \in approved : a[1] = r}) <= Policy[r].max_features

(* With the default selector a run takes up no feature twice, whatever other  *)
(* runs do to the list meanwhile; without it unlimited_batch need not end.    *)
NoFeatureTwice ==
  \A r \in Run : Selector[r] = "first_pending" =>
    \A m, n \in DOMAIN processed[r] :
      processed[r][m] = processed[r][n] => m = n

(* Where the log and the progress list of the session tell of run r. *)
CheckpointsOf(r) == {k \in DOMAIN session.checkpoints : session.checkpoints[k].run = r}
ProgressOf(r)    == {k \in DOMAIN session.progress : session.progress[k] = r}

(* The log of a run starts with InProgress and has at most one terminal       *)
(* status after it, and a task iteration that returns a result (not an error) *)
(* has left both that status and one progress entry.                          *)
CleanHandoff ==
  \A r \in Run :
    LET log == CheckpointsOf(r) IN
    /\ Cardinality(log) <= 2
    /\ \A k \in log :
         session.checkpoints[k].status = "InProgress" <=> \A j \in log : k <= j
    /\ pc[r] = "returned" /\ outcome[r] \in {"complete", "partial", "unvalidated"} =>
         /\ Cardinality(log) = 2
         /\ outcome[r] = "unvalidated" <=>
              \E k \in log : session.checkpoints[k].status = "Failed"
         /\ Cardinality(ProgressOf(r)) = 1

(* No step, of any run, overwrites an initialized session: its manifest and    *)
(* feature ids stay, a feature that passes keeps passing, the checkpoint log   *)
(* only grows.                                                                 *)
KeepSession ==
  IsInitialized(session) =>
    /\ session'.manifest = session.manifest
    /\ DOMAIN session'.features = DOMAIN session.features
    /\ \A i \in DOMAIN session.features :
         /\ session'.features[i].id = session.features[i].id
         /\ session.features[i].passes => session'.features[i].passes
    /\ \A k \in DOMAIN session.checkpoints :
         k \in DOMAIN session'.checkpoints /\ session'.checkpoints[k] = session.checkpoints[k]

SessionKept == [][KeepSession]_session

(* Every run ends: its loops are bounded by the policy, or by the feature list *)
(* in unlimited_batch mode, whatever fails and whatever other runs do.         *)
RunEnds == \A r \in Run : pc[r] \in Waiting ~> pc[r] \in {"returned", "cancelled"}

=============================================================================
