---------------------------- MODULE ToolRuntime -----------------------------
(***************************************************************************)
(* DefaultToolRuntime::execute, for calls that run at the same time: look  *)
(* the tool up, start it, wait for its answer or for the timeout, and tell *)
(* the hooks.  An asynchronous tool runs as a future the runtime polls; a  *)
(* tool registered with register_sync_fn runs to its end inside invoke,    *)
(* before the timeout is armed.                                            *)
(***************************************************************************)
EXTENDS Naturals, Sequences

CONSTANTS
  Execution,   \* calls of execute
  Registered,  \* those whose tool is in the registry
  SyncTool,    \* those whose tool was registered with register_sync_fn
  HasTimeout   \* with_timeout was configured

ASSUME ToolAssumption ==
  /\ Registered \subseteq Execution
  /\ SyncTool \subseteq Registered
  /\ HasTimeout \in BOOLEAN

VARIABLES
  pc,       \* pc[e]: where the call stands
  tool,     \* tool[e]: what the tool is doing, or its answer
  elapsed,  \* elapsed[e]: the timeout has passed since it was armed
  outcome,  \* outcome[e]: what execute returned
  hooks     \* hooks[e]: the hooks called for e, in order

toolVars == <<pc, tool, elapsed, outcome, hooks>>

ToolAnswer == {"ok", "error"}

ToolTypeOK ==
  /\ pc \in [Execution -> {"idle", "invoking", "waiting", "returned", "abandoned"}]
  /\ tool \in [Execution -> {"none", "running"} \cup ToolAnswer]
  /\ elapsed \in [Execution -> BOOLEAN]
  /\ outcome \in [Execution -> {"none", "not_found", "timeout"} \cup ToolAnswer]
  /\ hooks \in [Execution -> Seq({"start", "success", "failure"})]

ToolInit ==
  /\ pc = [e \in Execution |-> "idle"]
  /\ tool = [e \in Execution |-> "none"]
  /\ elapsed = [e \in Execution |-> FALSE]
  /\ outcome = [e \in Execution |-> "none"]
  /\ hooks = [e \in Execution |-> << >>]

-----------------------------------------------------------------------------
(* Faulty variant: a timeout returns without telling the hooks. *)
ReturnQuietly(e, result) ==
  /\ pc' = [pc EXCEPT ![e] = "returned"]
  /\ outcome' = [outcome EXCEPT ![e] = result]
  /\ hooks' = [hooks EXCEPT ![e] =
       CASE result = "ok"      -> Append(@, "success")
         [] result = "timeout" -> @
         [] OTHER              -> Append(@, "failure")]

Return(e, result) ==
  /\ pc' = [pc EXCEPT ![e] = "returned"]
  /\ outcome' = [outcome EXCEPT ![e] = result]
  /\ hooks' = [hooks EXCEPT ![e] = Append(@, IF result = "ok" THEN "success" ELSE "failure")]

Start(e) ==
  /\ pc[e] = "idle"
  /\ hooks' = [hooks EXCEPT ![e] = <<"start">>]
  /\ pc' = [pc EXCEPT ![e] = "invoking"]
  /\ UNCHANGED <<tool, elapsed, outcome>>

NotFound(e) ==
  /\ pc[e] = "invoking" /\ e \notin Registered
  /\ Return(e, "not_found")
  /\ UNCHANGED <<tool, elapsed>>

(* invoke returns the future of an asynchronous tool, which has not run    *)
(* yet, or the answer of a synchronous one, however long that took.        *)
Invoke(e) ==
  /\ pc[e] = "invoking" /\ e \in Registered
  /\ \E t \in IF e \in SyncTool THEN ToolAnswer ELSE {"running"} :
       tool' = [tool EXCEPT ![e] = t]
  /\ pc' = [pc EXCEPT ![e] = "waiting"]
  /\ UNCHANGED <<elapsed, outcome, hooks>>

ToolAnswers(e) ==
  /\ pc[e] = "waiting" /\ tool[e] = "running"
  /\ \E t \in ToolAnswer : tool' = [tool EXCEPT ![e] = t]
  /\ UNCHANGED <<pc, elapsed, outcome, hooks>>

TimerElapses(e) ==
  /\ pc[e] = "waiting" /\ HasTimeout /\ ~elapsed[e]
  /\ elapsed' = [elapsed EXCEPT ![e] = TRUE]
  /\ UNCHANGED <<pc, tool, outcome, hooks>>

(* Faulty variant: the timer is polled first. *)
PollTimerFirst(e) ==
  /\ pc[e] = "waiting"
  /\ \/ ~elapsed[e] /\ tool[e] \in ToolAnswer /\ Return(e, tool[e])
     \/ elapsed[e] /\ Return(e, "timeout")
  /\ UNCHANGED <<tool, elapsed>>

(* Faulty variant: waits for the tool alone. *)
PollTool(e) ==
  /\ pc[e] = "waiting"
  /\ tool[e] \in ToolAnswer /\ Return(e, tool[e])
  /\ UNCHANGED <<tool, elapsed>>

(* select polls the tool first, and the timer if the tool has not answered. *)
Poll(e) ==
  /\ pc[e] = "waiting"
  /\ \/ tool[e] \in ToolAnswer /\ Return(e, tool[e])
     \/ tool[e] \notin ToolAnswer /\ elapsed[e] /\ Return(e, "timeout")
  /\ UNCHANGED <<tool, elapsed>>

(* The caller drops the future, or the tool panics through it.  A caller   *)
(* cannot drop a call that is not at an await.                             *)
Abandon(e) ==
  /\ \/ pc[e] = "waiting"
     \/ pc[e] = "invoking" /\ e \in SyncTool
  /\ pc' = [pc EXCEPT ![e] = "abandoned"]
  /\ UNCHANGED <<tool, elapsed, outcome, hooks>>

-----------------------------------------------------------------------------
(* Steps the executor and the timer take without waiting for a tool.  A    *)
(* synchronous tool has the executor's thread until it returns.            *)
Runs(e) == NotFound(e) \/ (e \notin SyncTool /\ Invoke(e)) \/ TimerElapses(e) \/ Poll(e)

Step(e) ==
  \/ Start(e) \/ NotFound(e) \/ Invoke(e)
  \/ ToolAnswers(e) \/ TimerElapses(e) \/ Poll(e)
  \/ Abandon(e)

ToolNext == \E e \in Execution : Step(e)

ToolSpec == ToolInit /\ [][ToolNext]_toolVars

(* Futures that can go on are polled and timers fire; no tool need answer. *)
ToolFairSpec == ToolSpec /\ \A e \in Execution : WF_toolVars(Runs(e))

-----------------------------------------------------------------------------
EndHooks(e) == {i \in DOMAIN hooks[e] : hooks[e][i] \in {"success", "failure"}}

(* The hook order contract of a call that returned: on_execution_start,    *)
(* then exactly one of on_execution_success and on_execution_failure, the  *)
(* one that agrees with the result, on every path through runtime.rs:83-150. *)
(* (A call that is dropped while its tool runs has a start hook alone.)    *)
HookOrder ==
  \A e \in Execution : pc[e] = "returned" =>
    /\ Len(hooks[e]) = 2
    /\ EndHooks(e) = {2}
    /\ hooks[e][2] = "success" <=> outcome[e] = "ok"

(* An answer that is there when the call looks is never thrown away for    *)
(* the timeout, even if both came since it last looked (the order of the   *)
(* futures in the select of runtime.rs:104).                               *)
TimeoutMeansUnanswered ==
  \A e \in Execution : outcome[e] = "timeout" => tool[e] = "running"

(* With a timeout configured, a call that started returns or is abandoned, *)
(* whatever its tool does, if the tool is asynchronous: one registered with *)
(* register_sync_fn runs to its end before the timeout is armed.           *)
TimeoutEnforced ==
  \A e \in Execution \ SyncTool :
    HasTimeout => pc[e] = "invoking" ~> pc[e] \in {"returned", "abandoned"}

=============================================================================
