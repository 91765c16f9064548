--------------------------- MODULE Observability ----------------------------
(***************************************************************************)
(* What fobserve sees of a running program: an observer is told by hooks   *)
(* of tool executions (ToolRuntime), of requests to a provider             *)
(* (ProviderCall) and of the phases of a harness.                          *)
(* MetricsObservabilityHooks counts them, TracingObservabilityHooks logs   *)
(* them, and an application's own observer may panic in any hook; each     *)
(* hook of a Safe*Hooks wrapper around it catches that, and without one    *)
(* the operation unwinds from the hook that panicked.                      *)
(*                                                                         *)
(* Hooks of one kind tell nothing of the other kinds, so a behaviour has   *)
(* operations of one kind.                                                 *)
(***************************************************************************)
EXTENDS ToolRuntime, ProviderCall, SequencesExt, FiniteSets

CONSTANTS
  Phase,        \* phases of harness runs
  MaxObserved   \* bound: turns of a session that somebody observes

ASSUME ObservedAssumption ==
  /\ MaxObserved \in Nat
  /\ IsFiniteSet(Execution) /\ IsFiniteSet(Phase)

VARIABLES
  kind,       \* the operations that are observed
  observer,   \* who is told
  seen,       \* how often each counter was incremented, or each level logged
  phase       \* phase[p]: where a phase stands

vars == <<kind, observer, seen, toolVars, providerVars, phase>>

(* The Noop*Hooks are the default; "unwrapped" and "wrapped" observers may  *)
(* panic in any hook.                                                       *)
Observer == {"noop", "metrics", "tracing", "wrapped", "unwrapped"}

Sink == {"start", "retry", "success", "failure", "info", "warn", "error"}

Init ==
  /\ kind \in {"tools", "provider", "harness"}
  /\ observer \in Observer
  /\ seen = [s \in Sink |-> 0]
  /\ ToolInit
  /\ ProviderInit
  /\ phase = [p \in Phase |-> "idle"]

----------------------------------------------------------------------------
(* Observers. *)

ProviderMetrics == [on_attempt_start |-> "start", on_retry_scheduled |-> "retry",
                    on_success |-> "success", on_failure |-> "failure"]
ProviderTracing == [on_attempt_start |-> "info", on_retry_scheduled |-> "warn",
                    on_success |-> "info", on_failure |-> "error"]
ToolMetrics     == [start |-> "start", success |-> "success", failure |-> "failure"]
ToolTracing     == [start |-> "info", success |-> "info", failure |-> "error"]
PhaseMetrics    == [running |-> "start", succeeded |-> "success", failed |-> "failure"]
PhaseTracing    == [running |-> "info", succeeded |-> "info", failed |-> "error"]

(* The hooks that a wrapper calls within a catch_unwind. *)
Caught == DOMAIN ProviderMetrics \cup DOMAIN ToolMetrics \cup DOMAIN PhaseMetrics

(* The hook may panic, and nothing catches that. *)
Unwinds(hook) == observer = "unwrapped" \/ (observer = "wrapped" /\ hook \notin Caught)

(* A hook that returns, and counts in counter, or logs at level. *)
Hook(counter, level) ==
  seen' = CASE observer = "metrics" -> [seen EXCEPT ![counter] = @ + 1]
            [] observer = "tracing" -> [seen EXCEPT ![level] = @ + 1]
            [] OTHER                -> seen

----------------------------------------------------------------------------
(* The observed operations. *)

ToolHook(e) ==
  IF hooks'[e] = hooks[e] THEN UNCHANGED seen
  ELSE LET hook == Last(hooks'[e]) IN Hook(ToolMetrics[hook], ToolTracing[hook])

(* A step of a tool execution, with the hook it calls. *)
OnTools(step, e) ==
  /\ kind = "tools" /\ step /\ ToolHook(e)
  /\ UNCHANGED <<kind, observer, providerVars, phase>>

(* The hooks that a call of execute may come to next. *)
NextToolHook(e) ==
  CASE pc[e] = "idle" -> {"start"}
    [] pc[e] = "invoking" /\ e \notin Registered -> {"failure"}
    [] pc[e] = "waiting" /\ tool[e] = "ok" -> {"success"}
    [] pc[e] = "waiting" /\ (tool[e] = "error" \/ elapsed[e]) -> {"failure"}
    [] OTHER -> {}

ToolUnwinds(e) ==
  /\ kind = "tools"
  /\ \E hook \in NextToolHook(e) :
       Unwinds(hook) /\ hooks' = [hooks EXCEPT ![e] = Append(@, hook)]
  /\ pc' = [pc EXCEPT ![e] = "abandoned"]
  /\ UNCHANGED <<kind, observer, seen, tool, elapsed, outcome, providerVars, phase>>

RequestHook ==
  IF requestHooks' \in {requestHooks, << >>} THEN UNCHANGED seen
  ELSE LET hook == Last(requestHooks') IN Hook(ProviderMetrics[hook], ProviderTracing[hook])

OnProvider ==
  /\ kind = "provider" /\ ProviderNext /\ RequestHook
  /\ observer # "noop" => turns' <= MaxObserved
  /\ UNCHANGED <<kind, observer, toolVars, phase>>

(* The hooks that a request may come to next. *)
NextRequestHook ==
  CASE call.at = "calling" -> {"on_attempt_start"}
    [] call.at = "resolving" ->
         {h \in {"on_failure"} :
            Resolve = {} \/ ~CanSend(Payload(call.messages, call.results))}
    [] call.at = "waiting" ->
         {"on_success", "on_failure"}
           \cup {h \in {"on_retry_scheduled"} : call.attempt < MaxAttempts}
    [] OTHER -> {}

ProviderUnwinds ==
  /\ kind = "provider"
  /\ \E hook \in NextRequestHook :
       Unwinds(hook) /\ requestHooks' = Append(requestHooks, hook)
  /\ call' = [call EXCEPT !.at = "idle", !.outcome = "panicked"]
  /\ UNCHANGED <<kind, observer, seen, toolVars, phase,
                 adapter, system, history, version, turns, ended>>

(* run_initializer and run_task_iteration call a hook, do the work, and     *)
(* call the hook of how it ended.                                           *)
PhaseStep(p, from, to) ==
  /\ phase[p] = from
  /\ phase' = [phase EXCEPT ![p] = to]
  /\ IF to = "dropped" THEN UNCHANGED seen ELSE Hook(PhaseMetrics[to], PhaseTracing[to])

OnHarness ==
  /\ kind = "harness"
  /\ \E p \in Phase :
       \/ PhaseStep(p, "idle", "running")
       \/ \E to \in {"succeeded", "failed", "dropped"} : PhaseStep(p, "running", to)
  /\ UNCHANGED <<kind, observer, toolVars, providerVars>>

PhaseUnwinds ==
  /\ kind = "harness"
  /\ \E p \in Phase :
       /\ \/ phase[p] = "idle" /\ Unwinds("running")
          \/ phase[p] = "running" /\ \E hook \in {"succeeded", "failed"} : Unwinds(hook)
       /\ phase' = [phase EXCEPT ![p] = "panicked"]
  /\ UNCHANGED <<kind, observer, seen, toolVars, providerVars>>

Next ==
  \/ \E e \in Execution : OnTools(Step(e), e) \/ ToolUnwinds(e)
  \/ OnProvider \/ ProviderUnwinds
  \/ OnHarness \/ PhaseUnwinds

Spec == Init /\ [][Next]_vars

(* As in ToolRuntime: the executor and the timer go on, no tool need answer. *)
FairSpec == Spec /\ \A e \in Execution : WF_vars(OnTools(Runs(e), e))

----------------------------------------------------------------------------
(* What an observer could be asked: how many operations began, were begun   *)
(* again, and ended well or badly.                                          *)
Failures  == IF observer = "metrics" THEN seen["failure"] ELSE seen["error"]
Retries   == IF observer = "metrics" THEN seen["retry"] ELSE seen["warn"]
Successes == IF observer = "metrics" THEN {seen["success"]} ELSE 0 .. seen["info"]
Starts(n) == IF observer = "metrics" THEN seen["start"] ELSE seen["info"] - n

(* With so many done, failed and open, the numbers of the observer agree.   *)
Agree(done, failed, open) ==
  /\ Failures = failed
  /\ done \in Successes
  /\ Starts(done) = Retries + done + failed + open

(* What the metrics and the log say is what happened: every operation that  *)
(* ended was counted as what it was, and one that was begun and not counted *)
(* as ended is under way or was dropped (the hooks of runtime.rs, of        *)
(* resilience.rs, of stream_turn and of harness.rs).                        *)
Balanced ==
  observer \in {"metrics", "tracing"} =>
    LET count(S) == Cardinality(S)
    IN  CASE kind = "tools" ->
               Agree(count({e \in Execution : outcome[e] = "ok"}),
                     count({e \in Execution : pc[e] = "returned" /\ outcome[e] # "ok"}),
                     count({e \in Execution : pc[e] \in {"invoking", "waiting", "abandoned"}}))
          [] kind = "provider" ->
               Agree(ended.ok, ended.failed,
                     ended.dropped +
                       (IF call.at \in {"resolving", "sending", "waiting"} THEN 1 ELSE 0))
          [] OTHER ->
               Agree(count({p \in Phase : phase[p] = "succeeded"}),
                     count({p \in Phase : phase[p] = "failed"}),
                     count({p \in Phase : phase[p] \in {"running", "dropped"}}))

=============================================================================
