------------------------- MODULE ObservabilityProofs -------------------------
(***************************************************************************)
(* Proofs about Observability and the operations it watches, for any       *)
(* calls, registry, providers, limits, lengths of a session and observers, *)
(* also those that panic: hooks are paired, no answer is                   *)
(* thrown away for the timeout, nothing that is stored keeps a session     *)
(* from being sent, no attempt carries a key that was replaced before it   *)
(* began, and the numbers of an observer balance.                          *)
(***************************************************************************)
EXTENDS Observability, FiniteSetTheorems, TLAPS

----------------------------------------------------------------------------
(* Appending makes a sequence longer by one and keeps what it has. *)
LEMMA AppendFacts ==
  ASSUME NEW S, NEW q \in Seq(S), NEW x \in S
  PROVE  /\ Append(q, x) \in Seq(S)
         /\ Len(Append(q, x)) = Len(q) + 1
         /\ \A i \in 1 .. Len(q) : Append(q, x)[i] = q[i]
         /\ Append(q, x)[Len(q) + 1] = x
OBVIOUS

----------------------------------------------------------------------------
(* What is known of a call at each point: which hooks it has called, and    *)
(* that it has no result before it returns.                                 *)
CallInv(e) ==
  /\ pc[e] = "idle" => hooks[e] = << >>
  /\ pc[e] \in {"invoking", "waiting"} => hooks[e] = <<"start">>
  /\ pc[e] = "waiting" => tool[e] # "none"
  /\ pc[e] # "returned" => outcome[e] = "none"
  /\ pc[e] = "returned" =>
       /\ outcome[e] # "none"
       /\ Len(hooks[e]) = 2
       /\ hooks[e][1] = "start"
       /\ hooks[e][2] = IF outcome[e] = "ok" THEN "success" ELSE "failure"
  /\ outcome[e] = "timeout" => tool[e] = "running"

ToolInv == ToolTypeOK /\ \A e \in Execution : CallInv(e)

LEMMA ToolInitInv == ToolInit => ToolInv
<1> SUFFICES ASSUME ToolInit PROVE ToolInv
  OBVIOUS
<1>1. << >> \in Seq({"start", "success", "failure"})
  OBVIOUS
<1>2. ToolTypeOK
  BY <1>1 DEF ToolInit, ToolTypeOK, ToolAnswer
<1>3. ASSUME NEW e \in Execution PROVE CallInv(e)
  BY DEF ToolInit, CallInv
<1>4. QED
  BY <1>2, <1>3 DEF ToolInv

(* A call that was waiting or being looked up, and returns. *)
LEMMA ReturnStep ==
  ASSUME ToolInv, NEW e \in Execution, pc[e] \in {"invoking", "waiting"},
         NEW result \in {"not_found", "timeout"} \cup ToolAnswer,
         result = "timeout" => tool[e] = "running",
         Return(e, result), UNCHANGED <<tool, elapsed>>
  PROVE  ToolInv'
<1> DEFINE h == IF result = "ok" THEN "success" ELSE "failure"
<1>1. hooks[e] = <<"start">> /\ ToolTypeOK
  BY DEF ToolInv, CallInv
<1>2. hooks' = [hooks EXCEPT ![e] = Append(@, h)]
  BY DEF Return
<1>3. h \in {"start", "success", "failure"}
  OBVIOUS
<1>4. /\ Append(hooks[e], h) \in Seq({"start", "success", "failure"})
      /\ Len(Append(hooks[e], h)) = 2
      /\ Append(hooks[e], h)[1] = "start"
      /\ Append(hooks[e], h)[2] = h
  <2>1. hooks[e] \in Seq({"start", "success", "failure"}) /\ Len(hooks[e]) = 1 /\ hooks[e][1] = "start"
    BY <1>1 DEF ToolTypeOK
  <2> HIDE DEF h
  <2>2. QED
    BY <1>3, <2>1, AppendFacts
<1> HIDE DEF h
<1>5. ToolTypeOK'
  BY <1>1, <1>2, <1>4 DEF ToolTypeOK, Return, ToolAnswer
<1>6. ASSUME NEW d \in Execution PROVE CallInv(d)'
  <2>1. CASE d = e
    <3>1. pc'[e] = "returned" /\ outcome'[e] = result /\ hooks'[e] = Append(hooks[e], h)
      BY <1>1, <1>2 DEF Return, ToolTypeOK
    <3>2. QED
      BY <2>1, <3>1, <1>4 DEF CallInv, ToolAnswer, h
  <2>2. CASE d # e
    <3>1. pc'[d] = pc[d] /\ outcome'[d] = outcome[d] /\ hooks'[d] = hooks[d]
      BY <2>2, <1>1 DEF Return, ToolTypeOK
    <3>2. QED
      BY <3>1 DEF CallInv, ToolInv
  <2>3. QED
    BY <2>1, <2>2
<1>7. QED
  BY <1>5, <1>6 DEF ToolInv

LEMMA ToolStepInv ==
  ASSUME ToolInv, NEW e \in Execution, Step(e)
  PROVE  ToolInv'
<1>0. ToolTypeOK /\ CallInv(e) /\ \A d \in Execution : CallInv(d)
  BY DEF ToolInv
<1>1. CASE Start(e)
  <2>1. <<"start">> \in Seq({"start", "success", "failure"})
    OBVIOUS
  <2>2. ToolTypeOK'
    BY <1>0, <1>1, <2>1 DEF ToolTypeOK, Start
  <2>3. \A d \in Execution : CallInv(d)'
    BY <1>0, <1>1 DEF ToolTypeOK, Start, CallInv
  <2>4. QED
    BY <2>2, <2>3 DEF ToolInv
<1>2. CASE NotFound(e)
  BY <1>2, ReturnStep DEF NotFound
<1>3. CASE Invoke(e)
  <2>1. PICK t \in {"running"} \cup ToolAnswer : tool' = [tool EXCEPT ![e] = t]
    BY <1>3 DEF Invoke
  <2>2. ToolTypeOK'
    BY <1>0, <1>3, <2>1 DEF ToolTypeOK, Invoke
  <2>3. \A d \in Execution : CallInv(d)'
    BY <1>0, <1>3, <2>1 DEF ToolTypeOK, Invoke, CallInv, ToolAnswer
  <2>4. QED
    BY <2>2, <2>3 DEF ToolInv
<1>4. CASE ToolAnswers(e)
  <2>1. PICK t \in ToolAnswer : tool' = [tool EXCEPT ![e] = t]
    BY <1>4 DEF ToolAnswers
  <2>2. ToolTypeOK'
    BY <1>0, <1>4, <2>1 DEF ToolTypeOK, ToolAnswers
  <2>3. \A d \in Execution : CallInv(d)'
    BY <1>0, <1>4, <2>1 DEF ToolTypeOK, ToolAnswers, CallInv, ToolAnswer
  <2>4. QED
    BY <2>2, <2>3 DEF ToolInv
<1>5. CASE TimerElapses(e)
  <2>1. ToolTypeOK'
    BY <1>0, <1>5 DEF ToolTypeOK, TimerElapses
  <2>2. \A d \in Execution : CallInv(d)'
    BY <1>0, <1>5 DEF ToolTypeOK, TimerElapses, CallInv
  <2>3. QED
    BY <2>1, <2>2 DEF ToolInv
<1>6. CASE Poll(e)
  <2>1. CASE tool[e] \in ToolAnswer /\ Return(e, tool[e])
    BY <1>6, <2>1, ReturnStep DEF Poll, ToolAnswer
  <2>2. CASE tool[e] \notin ToolAnswer /\ Return(e, "timeout")
    <3>1. tool[e] = "running"
      BY <1>0, <1>6, <2>2 DEF Poll, ToolTypeOK, CallInv
    <3>2. QED
      BY <1>6, <2>2, <3>1, ReturnStep DEF Poll
  <2>3. QED
    BY <1>6, <2>1, <2>2 DEF Poll
<1>7. CASE Abandon(e)
  <2>1. ToolTypeOK'
    BY <1>0, <1>7 DEF ToolTypeOK, Abandon
  <2>2. \A d \in Execution : CallInv(d)'
    BY <1>0, <1>7 DEF ToolTypeOK, Abandon, CallInv
  <2>3. QED
    BY <2>1, <2>2 DEF ToolInv
<1>8. QED
  BY <1>1, <1>2, <1>3, <1>4, <1>5, <1>6, <1>7 DEF Step

LEMMA ToolNextInv == ToolInv /\ [ToolNext]_toolVars => ToolInv'
<1> SUFFICES ASSUME ToolInv, [ToolNext]_toolVars PROVE ToolInv'
  OBVIOUS
<1>1. CASE ToolNext
  BY <1>1, ToolStepInv DEF ToolNext
<1>2. CASE UNCHANGED toolVars
  BY <1>2 DEF toolVars, ToolInv, ToolTypeOK, CallInv
<1>3. QED
  BY <1>1, <1>2

LEMMA HooksOfReturned ==
  ASSUME ToolInv, NEW e \in Execution, pc[e] = "returned"
  PROVE  /\ Len(hooks[e]) = 2
         /\ EndHooks(e) = {2}
         /\ hooks[e][2] = "success" <=> outcome[e] = "ok"
<1> DEFINE h == IF outcome[e] = "ok" THEN "success" ELSE "failure"
<1>1. Len(hooks[e]) = 2 /\ hooks[e][1] = "start" /\ hooks[e][2] = h
  BY DEF ToolInv, CallInv
<1>2. DOMAIN hooks[e] = {1, 2}
  BY <1>1 DEF ToolInv, ToolTypeOK
<1>3. EndHooks(e) = {2}
  BY <1>1, <1>2 DEF EndHooks
<1>4. QED
  BY <1>1, <1>3

----------------------------------------------------------------------------
Messages == [role : {"System", "User", "Assistant", "Tool"}, blank : BOOLEAN]

At == {"idle", "calling", "resolving", "sending", "waiting", "reading", "tools",
       "backoff", "appending"}

Error == {"authentication", "rate_limited", "timeout", "invalid_request", "unavailable",
          "transport", "unsendable"}

Outcome == {"none", "complete", "dropped", "broken", "tool_failed", "panicked"} \cup Refusal \cup Error

CallType ==
  [at : At, streams : BOOLEAN, messages : Seq(Messages), fresh : Seq(Messages),
   results : Seq(BOOLEAN), rounds : Nat, attempt : Nat, since : Nat, key : Seq(Nat),
   fallback : BOOLEAN, outcome : Outcome]

RequestTyped ==
  /\ system \in Seq(Messages) /\ history \in Seq(Messages)
  /\ version \in Nat
  /\ call \in CallType

AllSendable(messages) == \A i \in DOMAIN messages : Sendable(messages[i])

BlankSystem == \E i \in DOMAIN system : system[i].blank

(* Only the system prompt of the session can bring a message that cannot be *)
(* sent: what turns store, and are about to store, can be.                  *)
StoredSendable ==
  /\ AllSendable(history)
  /\ AllSendable(call.fresh)
  /\ ~BlankSystem => AllSendable(call.messages)

(* The attempt under way began no later than now. *)
SinceInv == call.at \in {"resolving", "sending", "waiting"} => call.since <= version

(* A turn under way has no outcome yet. *)
OpenInv == call.at # "idle" => call.outcome = "none"

RequestInv == RequestTyped /\ StoredSendable /\ SinceInv /\ OpenInv /\ NeverStuck /\ AuthFresh

----------------------------------------------------------------------------
LEMMA ConcatFacts ==
  ASSUME NEW S, NEW q \in Seq(S), NEW r \in Seq(S)
  PROVE  /\ q \o r \in Seq(S)
         /\ DOMAIN (q \o r) = 1 .. Len(q) + Len(r)
         /\ \A i \in 1 .. Len(q) + Len(r) :
              (q \o r)[i] = IF i <= Len(q) THEN q[i] ELSE r[i - Len(q)]
OBVIOUS

LEMMA FunctionIsSeq ==
  ASSUME NEW S, NEW n \in Nat, NEW f \in [1 .. n -> S]
  PROVE  f \in Seq(S)
OBVIOUS

(* A message that can be sent joins others that can. *)
LEMMA AppendSendable ==
  ASSUME NEW q \in Seq(Messages), NEW m \in Messages, Sendable(m)
  PROVE  /\ Append(q, m) \in Seq(Messages)
         /\ AllSendable(q) => AllSendable(Append(q, m))
BY AppendFacts DEF AllSendable

LEMMA ConcatSendable ==
  ASSUME NEW q \in Seq(Messages), NEW r \in Seq(Messages), AllSendable(r)
  PROVE  /\ q \o r \in Seq(Messages)
         /\ AllSendable(q) => AllSendable(q \o r)
<1>1. \A i \in DOMAIN r : Sendable(r[i])
  BY DEF AllSendable
<1>2. ASSUME AllSendable(q), NEW i \in 1 .. Len(q) + Len(r)
      PROVE  Sendable((q \o r)[i])
  <2>1. CASE i <= Len(q)
    BY <1>2, <2>1, ConcatFacts DEF AllSendable
  <2>2. CASE i > Len(q)
    <3>1. i - Len(q) \in DOMAIN r /\ (q \o r)[i] = r[i - Len(q)]
      BY <2>2, ConcatFacts
    <3>2. QED
      BY <3>1, <1>1
  <2>3. QED
    BY <2>1, <2>2
<1>3. QED
  BY <1>2, ConcatFacts DEF AllSendable

LEMMA PrefixSendable ==
  ASSUME NEW q \in Seq(Messages), AllSendable(q), NEW n \in 0 .. Len(q)
  PROVE  SubSeq(q, 1, n) \in Seq(Messages) /\ AllSendable(SubSeq(q, 1, n))
<1>1. /\ SubSeq(q, 1, n) \in Seq(Messages)
      /\ DOMAIN SubSeq(q, 1, n) = 1 .. n
      /\ \A i \in 1 .. n : SubSeq(q, 1, n)[i] = q[i]
  OBVIOUS
<1>2. QED
  BY <1>1 DEF AllSendable

(* A request that is kept back has a message or a tool output to blame. *)
LEMMA UnsendableHasCause ==
  ASSUME NEW messages \in Seq(Messages), NEW results \in Seq(BOOLEAN),
         ~CanSend(Payload(messages, results))
  PROVE  ~AllSendable(messages) \/ \E i \in DOMAIN results : results[i]
<1> DEFINE tools == [i \in DOMAIN results |-> Message("Tool", results[i])]
<1>1. tools \in Seq(Messages)
  <2>1. Len(results) \in Nat /\ DOMAIN results = 1 .. Len(results)
    OBVIOUS
  <2>2. \A i \in DOMAIN results : results[i] \in BOOLEAN
    OBVIOUS
  <2>3. tools \in [1 .. Len(results) -> Messages]
    BY <2>1, <2>2 DEF Message, Messages
  <2> HIDE DEF tools
  <2>4. QED
    BY <2>1, <2>3, FunctionIsSeq
<1>2. SUFFICES ASSUME AllSendable(messages), \A i \in DOMAIN results : ~results[i]
               PROVE  FALSE
  OBVIOUS
<1>3. AllSendable(tools)
  BY <1>2 DEF AllSendable, Sendable, Message
<1> HIDE DEF tools
<1>4. AllSendable(messages \o tools)
  BY <1>1, <1>2, <1>3, ConcatSendable
<1>5. QED
  BY <1>4 DEF CanSend, Payload, AllSendable, tools

----------------------------------------------------------------------------
LEMMA UserSendable == User \in Messages /\ Sendable(User)
BY DEF User, Message, Messages, Sendable

LEMMA ReplySendable ==
  ASSUME NEW blank \in BOOLEAN
  PROVE  Reply(blank) \in Messages /\ Sendable(Reply(blank))
BY DEF Reply, Message, Messages, Sendable

LEMMA EmptySendable == << >> \in Seq(Messages) /\ AllSendable(<< >>)
BY DEF AllSendable

LEMMA IdleType ==
  ASSUME NEW m \in Seq(Messages), NEW r \in Seq(BOOLEAN), NEW k \in Seq(Nat)
  PROVE  [at |-> "idle", streams |-> FALSE, messages |-> m, fresh |-> m,
          results |-> r, rounds |-> 0, attempt |-> 0, since |-> 0, key |-> k,
          fallback |-> FALSE, outcome |-> "none"] \in CallType
BY DEF CallType, At, Outcome

LEMMA IdleInType == Idle \in CallType
<1>1. << >> \in Seq(BOOLEAN) /\ << >> \in Seq(Nat)
  OBVIOUS
<1>2. QED
  BY <1>1, EmptySendable, IdleType DEF Idle

LEMMA RequestInitInv == ProviderInit => RequestInv
<1> SUFFICES ASSUME ProviderInit PROVE RequestInv
  OBVIOUS
<1>1. system \in Seq(Messages)
  <2>1. CASE system = << >>
    BY <2>1
  <2>2. ASSUME NEW blank \in BOOLEAN, system = <<Message("System", blank)>>
        PROVE  system \in Seq(Messages)
    BY <2>2 DEF Message, Messages
  <2>3. QED
    BY <2>1, <2>2 DEF ProviderInit
<1>3. call \in CallType
  BY IdleInType DEF ProviderInit
<1>4. QED
  BY <1>1, <1>3, EmptySendable
  DEF ProviderInit, Idle, RequestInv, RequestTyped, StoredSendable, SinceInv, OpenInv, NeverStuck, AuthFresh

(* Steps that touch neither what is stored nor what is about to be, and do  *)
(* not begin to send.                                                       *)
LEMMA QuietStep ==
  ASSUME RequestInv, call' \in CallType, UNCHANGED <<adapter, system, version, history>>,
         call'.messages = call.messages, call'.fresh = call.fresh,
         call'.results = call.results, call'.outcome = call.outcome,
         call'.key = call.key, call'.since = call.since,
         call'.at # "resolving",
         call.at # "idle",
         call'.at \in {"sending", "waiting"} => call.at \in {"sending", "waiting"}
  PROVE  RequestInv'
BY DEF RequestInv, RequestTyped, StoredSendable, SinceInv, OpenInv, NeverStuck, AuthFresh, BlankSystem, NeedsKey

LEMMA EndStep ==
  ASSUME RequestInv, NEW result \in Outcome \ {"unsendable"}, End(result), UNCHANGED history
  PROVE  RequestInv'
<1>1. call' = [call EXCEPT !.at = "idle", !.outcome = result]
      /\ UNCHANGED <<adapter, system, version>>
  BY DEF End, Go
<1>2. /\ call' \in CallType /\ call'.at = "idle" /\ call'.outcome = result
      /\ call'.messages = call.messages /\ call'.fresh = call.fresh
  BY <1>1 DEF RequestInv, RequestTyped, CallType, At
<1>3. QED
  BY <1>1, <1>2
  DEF RequestInv, RequestTyped, StoredSendable, SinceInv, OpenInv, NeverStuck, AuthFresh, BlankSystem

(* Every error of an attempt, retried or not. *)
LEMMA FailsStep ==
  ASSUME RequestInv, NEW error \in Error \ {"unsendable"}, Fails(error), call.at # "idle"
  PROVE  RequestInv'
<1>1. call \in CallType /\ UNCHANGED history
  BY DEF RequestInv, RequestTyped, Fails
<1>2. CASE ShouldRetry(error)
  <2>1. Go([call EXCEPT !.at = "backoff"])
    BY <1>2 DEF Fails
  <2>2. call'.at = "backoff" /\ call' = [call EXCEPT !.at = "backoff"]
        /\ UNCHANGED <<adapter, system, version>>
    BY <2>1, <1>1 DEF Go, CallType
  <2>3. QED
    BY <1>1, <2>2 DEF At, CallType, RequestInv, RequestTyped, StoredSendable, SinceInv, OpenInv, NeverStuck,
                      AuthFresh, BlankSystem, NeedsKey
<1>3. CASE ~ShouldRetry(error)
  <2>1. End(error)
    BY <1>3 DEF Fails
  <2>2. QED
    BY <1>1, <2>1, EndStep DEF Outcome
<1>4. QED
  BY <1>2, <1>3

(* An attempt that carries a key, or needs none. *)
LEMMA PrepareStep ==
  ASSUME RequestInv, Prepare
  PROVE  RequestInv'
<1>1. call \in CallType /\ call.at = "resolving" /\ version \in Nat
  BY DEF RequestInv, RequestTyped, Prepare
<1>2. CASE Fails("authentication")
  BY <1>1, <1>2, FailsStep DEF Error
<1>3. CASE /\ ~CanSend(Payload(call.messages, call.results)) /\ Fails("unsendable")
  <2>1. ~ShouldRetry("unsendable")
    BY DEF ShouldRetry, Retryable
  <2>2. End("unsendable") /\ UNCHANGED history
    BY <1>3, <2>1 DEF Fails
  <2>3. call' = [call EXCEPT !.at = "idle", !.outcome = "unsendable"]
        /\ UNCHANGED <<adapter, system, version>>
    BY <2>2 DEF End, Go
  <2>4. /\ call' \in CallType /\ call'.at = "idle" /\ call'.results = call.results
        /\ call'.messages = call.messages /\ call'.fresh = call.fresh
    BY <1>1, <2>3 DEF CallType, At, Outcome, Error
  <2>5. ~AllSendable(call.messages) \/ \E i \in DOMAIN call.results : call.results[i]
    BY <1>1, <1>3, UnsendableHasCause DEF CallType
  <2>6. BlankSystem \/ \E i \in DOMAIN call.results : call.results[i]
    BY <2>5 DEF RequestInv, StoredSendable
  <2>7. QED
    BY <2>2, <2>3, <2>4, <2>6 DEF RequestInv, RequestTyped, StoredSendable, SinceInv, OpenInv, NeverStuck,
                                  AuthFresh, BlankSystem, NeedsKey
<1>4. ASSUME NEW key \in Resolve, UNCHANGED history,
             Go([call EXCEPT !.at = "sending", !.key = key, !.fallback = FALSE])
      PROVE  RequestInv'
  <2>1. /\ key \in Seq(Nat)
        /\ NeedsKey => key = <<version>> /\ version % 2 = 1
    <3>1. <<version>> \in Seq(Nat) /\ << >> \in Seq(Nat)
      BY <1>1
    <3>2. QED
      BY <1>4, <3>1 DEF Resolve
  <2>2. call' = [call EXCEPT !.at = "sending", !.key = key, !.fallback = FALSE]
        /\ UNCHANGED <<adapter, system, version>>
    BY <1>4 DEF Go
  <2>3. /\ call' \in CallType /\ call'.at = "sending" /\ call'.key = key
        /\ call'.messages = call.messages /\ call'.fresh = call.fresh
        /\ call'.outcome = call.outcome /\ call'.results = call.results
        /\ call'.since = call.since
    BY <1>1, <2>1, <2>2 DEF CallType, At
  <2>4. NeedsKey => Len(key) = 1 /\ key[1] = version
    BY <2>1
  <2>5. AuthFresh'
    BY <1>1, <2>1, <2>2, <2>3, <2>4 DEF RequestInv, SinceInv, AuthFresh, NeedsKey, CallType
  <2>6. QED
    BY <1>4, <2>2, <2>3, <2>5, <1>1 DEF RequestInv, RequestTyped, StoredSendable, SinceInv, OpenInv, NeverStuck,
                                        BlankSystem
<1>5. QED
  BY <1>2, <1>3, <1>4 DEF Prepare

(* A new turn: what it is going to say can be said, if the system prompt can. *)
LEMMA BeginStep ==
  ASSUME RequestInv, Begin
  PROVE  RequestInv'
<1>1. call \in CallType /\ UNCHANGED history
  BY DEF RequestInv, RequestTyped, Begin
<1>2. CASE \E result \in Refusal : End(result)
  BY <1>1, <1>2, EndStep DEF Refusal, Outcome
<1>3. ASSUME NEW streams \in BOOLEAN,
             Go([Idle EXCEPT !.at = "calling", !.streams = streams, !.attempt = 1,
                             !.messages = system \o history \o <<User>>, !.fresh = <<User>>])
      PROVE  RequestInv'
  <2> DEFINE messages == system \o history \o <<User>>
  <2>1. system \in Seq(Messages) /\ history \in Seq(Messages) /\ AllSendable(history)
    BY DEF RequestInv, RequestTyped, StoredSendable
  <2>2. <<User>> \in Seq(Messages) /\ AllSendable(<<User>>)
    BY UserSendable DEF AllSendable
  <2>3. /\ system \o history \in Seq(Messages)
        /\ AllSendable(system) => AllSendable(system \o history)
    BY <2>1, ConcatSendable
  <2>4. messages \in Seq(Messages) /\ (AllSendable(system) => AllSendable(messages))
    BY <2>2, <2>3, ConcatSendable
  <2>5. ~BlankSystem => AllSendable(system)
    BY DEF BlankSystem, AllSendable, Sendable
  <2> HIDE DEF messages
  <2>6. call' = [Idle EXCEPT !.at = "calling", !.streams = streams, !.attempt = 1,
                             !.messages = messages, !.fresh = <<User>>]
        /\ UNCHANGED <<adapter, system, version>>
    BY <1>3 DEF Go, messages
  <2>7. /\ call'.at = "calling" /\ call'.outcome = "none"
        /\ call'.messages = messages /\ call'.fresh = <<User>>
    BY <2>6 DEF Idle
  <2>8. call' \in CallType
    BY <2>2, <2>4, <2>6, IdleInType DEF CallType, At
  <2>9. QED
    BY <1>1, <2>2, <2>4, <2>5, <2>6, <2>7, <2>8
    DEF RequestInv, RequestTyped, StoredSendable, SinceInv, OpenInv, NeverStuck, AuthFresh, BlankSystem
<1>4. QED
  BY <1>2, <1>3 DEF Begin

(* Responses join the conversation. *)
LEMMA CollectStep ==
  ASSUME RequestInv, Collect
  PROVE  RequestInv'
<1>1. PICK blank \in BOOLEAN, asks \in BOOLEAN :
        Go([call EXCEPT
          !.at = IF asks /\ call.rounds < MaxRounds THEN "tools" ELSE "appending",
          !.messages = Append(@, Reply(blank)), !.fresh = Append(@, Reply(blank))])
  BY DEF Collect
<1>2. call \in CallType /\ UNCHANGED history /\ call.at = "reading"
  BY DEF RequestInv, RequestTyped, Collect
<1>3. Reply(blank) \in Messages /\ Sendable(Reply(blank))
  BY ReplySendable
<1>4. call.messages \in Seq(Messages) /\ call.fresh \in Seq(Messages)
  BY <1>2 DEF CallType
<1>5. /\ Append(call.messages, Reply(blank)) \in Seq(Messages)
      /\ Append(call.fresh, Reply(blank)) \in Seq(Messages)
      /\ AllSendable(Append(call.fresh, Reply(blank)))
      /\ AllSendable(call.messages) => AllSendable(Append(call.messages, Reply(blank)))
  BY <1>3, <1>4, AppendSendable DEF RequestInv, StoredSendable
<1>6. /\ call'.at \in {"tools", "appending"}
      /\ call'.messages = Append(call.messages, Reply(blank))
      /\ call'.fresh = Append(call.fresh, Reply(blank))
      /\ call'.outcome = call.outcome /\ call'.results = call.results
      /\ UNCHANGED <<adapter, system, version>>
  BY <1>1, <1>2 DEF Go, CallType
<1>7. call' \in CallType
  BY <1>1, <1>2, <1>5 DEF Go, CallType, At
<1>8. QED
  BY <1>2, <1>5, <1>6, <1>7
  DEF RequestInv, RequestTyped, StoredSendable, SinceInv, OpenInv, NeverStuck, AuthFresh, BlankSystem

LEMMA RunToolsStep ==
  ASSUME RequestInv, RunTools
  PROVE  RequestInv'
<1>1. call \in CallType /\ UNCHANGED history /\ call.at = "tools"
  BY DEF RequestInv, RequestTyped, RunTools
<1>2. CASE End("tool_failed")
  BY <1>1, <1>2, EndStep DEF Outcome, Error, Refusal
<1>3. ASSUME NEW blank \in BOOLEAN,
             Go([call EXCEPT !.at = "calling", !.results = <<blank>>, !.rounds = @ + 1,
                             !.attempt = 1, !.key = << >>])
      PROVE  RequestInv'
  <2> DEFINE r == <<blank>>
             k == << >>
  <2>1. r \in Seq(BOOLEAN) /\ k \in Seq(Nat)
    OBVIOUS
  <2>2. /\ call'.at = "calling"
        /\ call'.messages = call.messages /\ call'.fresh = call.fresh
        /\ call'.outcome = call.outcome /\ call'.results = <<blank>>
        /\ UNCHANGED <<adapter, system, version>>
    BY <1>1, <1>3 DEF Go, CallType
  <2> HIDE DEF r, k
  <2>3. call' \in CallType
    <3> DEFINE n == call.rounds + 1
    <3>1. n \in Nat
      BY <1>1 DEF CallType
    <3>2. call' = [call EXCEPT !.at = "calling", !.results = r, !.rounds = n,
                               !.attempt = 1, !.key = k]
      BY <1>3 DEF Go, r, k
    <3> HIDE DEF n
    <3>3. QED
      BY <1>1, <2>1, <3>1, <3>2 DEF CallType, At
  <2>4. call.outcome # "unsendable"
    BY <1>1 DEF RequestInv, OpenInv
  <2>5. QED
    BY <1>1, <2>2, <2>3, <2>4
    DEF RequestInv, RequestTyped, StoredSendable, SinceInv, OpenInv, NeverStuck, AuthFresh, BlankSystem
<1>4. QED
  BY <1>2, <1>3 DEF RunTools

(* What is stored is a part of what could be sent. *)
LEMMA AppendStep ==
  ASSUME RequestInv, AppendMessages
  PROVE  RequestInv'
<1>1. /\ call \in CallType /\ call.at = "appending"
      /\ history \in Seq(Messages) /\ AllSendable(history)
      /\ call.fresh \in Seq(Messages) /\ AllSendable(call.fresh)
  BY DEF RequestInv, RequestTyped, StoredSendable, AppendMessages, CallType
<1>2. PICK result \in {"complete", "storage", "dropped"} : End(result)
  BY DEF AppendMessages
<1>3. history' \in Seq(Messages) /\ AllSendable(history')
  <2>1. CASE history' = history \o call.fresh
    BY <1>1, <2>1, ConcatSendable
  <2>2. CASE history' = history
    BY <1>1, <2>2
  <2>3. ASSUME NEW n \in 0 .. Len(call.fresh),
               history' = history \o SubSeq(call.fresh, 1, n)
        PROVE  history' \in Seq(Messages) /\ AllSendable(history')
    <3>1. SubSeq(call.fresh, 1, n) \in Seq(Messages) /\ AllSendable(SubSeq(call.fresh, 1, n))
      BY <1>1, PrefixSendable
    <3>2. QED
      BY <1>1, <2>3, <3>1, ConcatSendable
  <2>4. QED
    BY <2>1, <2>2, <2>3 DEF AppendMessages
<1>4. call' = [call EXCEPT !.at = "idle", !.outcome = result]
      /\ UNCHANGED <<adapter, system, version>>
  BY <1>2 DEF End, Go
<1>5. /\ call' \in CallType /\ call'.at = "idle" /\ call'.outcome = result
      /\ call'.messages = call.messages /\ call'.fresh = call.fresh
  BY <1>1, <1>4 DEF CallType, At, Outcome, Refusal
<1>6. QED
  BY <1>3, <1>4, <1>5
  DEF RequestInv, RequestTyped, StoredSendable, SinceInv, OpenInv, NeverStuck, AuthFresh, BlankSystem

LEMMA RequestNextInv == RequestInv /\ [ProviderNext]_providerVars => RequestInv'
<1> SUFFICES ASSUME RequestInv, [ProviderNext]_providerVars PROVE RequestInv'
  OBVIOUS
<1>0. call \in CallType /\ version \in Nat
  BY DEF RequestInv, RequestTyped
<1>1. CASE Begin
  BY <1>1, BeginStep
<1>2. CASE StartAttempt
  <2>1. call' = [call EXCEPT !.at = "resolving", !.since = version]
        /\ UNCHANGED <<adapter, system, version, history>> /\ call.at = "calling"
    BY <1>2 DEF StartAttempt, Go
  <2>2. /\ call' \in CallType /\ call'.at = "resolving" /\ call'.since = version
        /\ call'.messages = call.messages /\ call'.fresh = call.fresh
        /\ call'.outcome = call.outcome /\ call'.results = call.results
    BY <1>0, <2>1 DEF CallType, At
  <2>3. QED
    BY <1>0, <2>1, <2>2
    DEF RequestInv, RequestTyped, StoredSendable, SinceInv, OpenInv, NeverStuck, AuthFresh, BlankSystem
<1>3. CASE Prepare
  BY <1>3, PrepareStep
<1>4. CASE Send
  BY <1>0, <1>4, QuietStep DEF Send, Go, CallType, At
<1>5. CASE ServerFails
  <2>1. ASSUME NEW status \in Status PROVE ErrorOf(status) \in Error \ {"unsendable"}
    BY DEF ErrorOf, Error
  <2>2. QED
    BY <1>5, <2>1, FailsStep DEF ServerFails, Error
<1>6. CASE Fallback
  BY <1>0, <1>6, QuietStep DEF Fallback, Go, CallType, At
<1>7. CASE ServerAnswers
  <2>1. CASE Fails("transport")
    BY <1>7, <2>1, FailsStep DEF ServerAnswers, Error
  <2>2. CASE Go([call EXCEPT !.at = "reading"]) /\ UNCHANGED history
    BY <1>0, <1>7, <2>2, QuietStep DEF ServerAnswers, Go, CallType, At
  <2>3. QED
    BY <1>7, <2>1, <2>2 DEF ServerAnswers
<1>8. CASE Collect
  BY <1>8, CollectStep
<1>9. CASE StreamBreaks
  BY <1>9, EndStep DEF StreamBreaks, Outcome
<1>10. CASE RunTools
  BY <1>10, RunToolsStep
<1>11. CASE Wake
  <2> DEFINE n == call.attempt + 1
  <2>1. n \in Nat
    BY <1>0 DEF CallType
  <2>2. /\ call.at = "backoff" /\ call' = [call EXCEPT !.at = "calling", !.attempt = n]
        /\ UNCHANGED <<adapter, system, version, history>>
    BY <1>11 DEF Wake, Go
  <2> HIDE DEF n
  <2>3. QED
    BY <1>0, <2>1, <2>2, QuietStep DEF CallType, At
<1>12. CASE AppendMessages
  BY <1>12, AppendStep
<1>13. CASE Drop
  BY <1>13, EndStep DEF Drop, Outcome
<1>14. CASE ChangeCredential
  <2>1. PICK n \in {version + 1, version + 2} : version' = n
    BY <1>14 DEF ChangeCredential
  <2>2. version' \in Nat /\ version < version'
    BY <1>0, <2>1
  <2>3. UNCHANGED <<adapter, system, history, call>>
    BY <1>14 DEF ChangeCredential
  <2>4. AuthFresh'
    <3>1. SUFFICES ASSUME call.at \in {"sending", "waiting"}, NeedsKey
                   PROVE  AuthFresh'
      BY <2>3 DEF AuthFresh, NeedsKey
    <3>2. /\ Len(call.key) = 1 /\ call.key[1] % 2 = 1
          /\ call.since <= call.key[1] /\ call.key[1] <= version
      BY <3>1 DEF RequestInv, AuthFresh
    <3>3. call.key[1] \in Nat
      BY <1>0, <3>2 DEF CallType
    <3>4. QED
      BY <1>0, <2>2, <2>3, <3>2, <3>3 DEF AuthFresh, NeedsKey
  <2>5. call.since \in Nat
    BY <1>0 DEF CallType
  <2>6. SinceInv'
    BY <1>0, <2>2, <2>3, <2>5 DEF RequestInv, SinceInv
  <2>7. QED
    BY <2>2, <2>3, <2>4, <2>6 DEF RequestInv, RequestTyped, StoredSendable, OpenInv, NeverStuck, BlankSystem
<1>15. CASE UNCHANGED providerVars
  BY <1>15 DEF providerVars, RequestInv, RequestTyped, StoredSendable, SinceInv, OpenInv, NeverStuck, AuthFresh,
               BlankSystem, NeedsKey
<1>16. QED
  BY <1>1, <1>2, <1>3, <1>4, <1>5, <1>6, <1>7, <1>8, <1>9, <1>10, <1>11, <1>12, <1>13,
     <1>14, <1>15 DEF ProviderNext

----------------------------------------------------------------------------
(* The observed program.  An operation that unwinds from a hook leaves a    *)
(* call that is abandoned, and a turn that is over.                         *)
OperationsInv == ToolInv /\ RequestInv

LEMMA ToolUnwindsInv ==
  ASSUME ToolInv, NEW e \in Execution, ToolUnwinds(e)
  PROVE  ToolInv'
<1>0. ToolTypeOK /\ \A d \in Execution : CallInv(d)
  BY DEF ToolInv
<1>1. PICK hook \in {"start", "success", "failure"} : hooks' = [hooks EXCEPT ![e] = Append(@, hook)]
  BY DEF ToolUnwinds, NextToolHook
<1>2. /\ pc[e] \in {"idle", "invoking", "waiting"}
      /\ pc' = [pc EXCEPT ![e] = "abandoned"] /\ UNCHANGED <<tool, elapsed, outcome>>
  BY DEF ToolUnwinds, NextToolHook
<1>3. Append(hooks[e], hook) \in Seq({"start", "success", "failure"})
  BY <1>0, AppendFacts DEF ToolTypeOK
<1>4. ToolTypeOK'
  BY <1>0, <1>1, <1>2, <1>3 DEF ToolTypeOK
<1>5. ASSUME NEW d \in Execution PROVE CallInv(d)'
  <2>1. CASE d = e
    BY <1>0, <1>2, <2>1 DEF ToolTypeOK, CallInv
  <2>2. CASE d # e
    BY <1>0, <1>1, <1>2, <2>2 DEF ToolTypeOK, CallInv
  <2>3. QED
    BY <2>1, <2>2
<1>6. QED
  BY <1>4, <1>5 DEF ToolInv

LEMMA ProviderUnwindsInv ==
  ASSUME RequestInv, ProviderUnwinds
  PROVE  RequestInv'
<1>1. /\ call' = [call EXCEPT !.at = "idle", !.outcome = "panicked"]
      /\ UNCHANGED <<adapter, system, history, version>>
  BY DEF ProviderUnwinds
<1>2. /\ call' \in CallType /\ call'.at = "idle" /\ call'.outcome = "panicked"
      /\ call'.messages = call.messages /\ call'.fresh = call.fresh
  BY <1>1 DEF RequestInv, RequestTyped, CallType, At, Outcome
<1>3. QED
  BY <1>1, <1>2
  DEF RequestInv, RequestTyped, StoredSendable, SinceInv, OpenInv, NeverStuck, AuthFresh,
      BlankSystem

LEMMA OperationsInit == Init => OperationsInv
BY ToolInitInv, RequestInitInv DEF Init, OperationsInv

LEMMA OperationsNext == OperationsInv /\ [Next]_vars => OperationsInv'
<1> SUFFICES ASSUME OperationsInv, [Next]_vars PROVE OperationsInv'
  OBVIOUS
<1>0. ToolInv /\ RequestInv
  BY DEF OperationsInv
<1>1. ASSUME UNCHANGED providerVars PROVE RequestInv'
  BY <1>0, <1>1, RequestNextInv
<1>2. ASSUME UNCHANGED toolVars PROVE ToolInv'
  BY <1>0, <1>2, ToolNextInv
<1>3. ASSUME NEW e \in Execution, OnTools(Step(e), e) PROVE OperationsInv'
  BY <1>0, <1>1, <1>3, ToolStepInv DEF OnTools, OperationsInv
<1>4. ASSUME NEW e \in Execution, ToolUnwinds(e) PROVE OperationsInv'
  <2>1. UNCHANGED providerVars
    BY <1>4 DEF ToolUnwinds
  <2>2. QED
    BY <1>0, <1>1, <1>4, <2>1, ToolUnwindsInv DEF OperationsInv
<1>5. CASE OnProvider
  BY <1>0, <1>2, <1>5, RequestNextInv DEF OnProvider, OperationsInv
<1>6. CASE ProviderUnwinds
  <2>1. UNCHANGED toolVars
    BY <1>6 DEF ProviderUnwinds
  <2>2. QED
    BY <1>0, <1>2, <1>6, <2>1, ProviderUnwindsInv DEF OperationsInv
<1>7. CASE OnHarness \/ PhaseUnwinds \/ UNCHANGED vars
  <2>1. UNCHANGED <<toolVars, providerVars>>
    BY <1>7 DEF OnHarness, PhaseUnwinds, vars
  <2>2. QED
    BY <1>1, <1>2, <2>1 DEF OperationsInv
<1>8. QED
  BY <1>3, <1>4, <1>5, <1>6, <1>7 DEF Next

(* The variables of the tool runtime keep their types. *)
THEOREM ToolTypeCorrect == Spec => []ToolTypeOK
<1>1. OperationsInv => ToolTypeOK
  BY DEF OperationsInv, ToolInv
<1>2. QED
  BY OperationsInit, OperationsNext, <1>1, PTL DEF Spec

(* A call that returned has called on_execution_start and then exactly the   *)
(* closing hook that agrees with its result (runtime.rs:83-150).             *)
THEOREM HookOrderHolds == Spec => []HookOrder
<1>1. OperationsInv => HookOrder
  BY HooksOfReturned DEF HookOrder, OperationsInv
<1>2. QED
  BY OperationsInit, OperationsNext, <1>1, PTL DEF Spec

(* A call that timed out has a tool that had not answered when it looked     *)
(* (the order of the futures in the select of runtime.rs:104).               *)
THEOREM TimeoutMeansUnansweredHolds == Spec => []TimeoutMeansUnanswered
<1>1. OperationsInv => TimeoutMeansUnanswered
  BY DEF OperationsInv, ToolInv, CallInv, TimeoutMeansUnanswered
<1>2. QED
  BY OperationsInit, OperationsNext, <1>1, PTL DEF Spec

(* A request is kept back only for the blank system prompt of the session or *)
(* a blank tool output of the very turn, however long the session is and     *)
(* whatever part of earlier turns was stored (serde_api.rs:114).             *)
THEOREM NeverStuckHolds == Spec => []NeverStuck
<1>1. OperationsInv => NeverStuck
  BY DEF OperationsInv, RequestInv
<1>2. QED
  BY OperationsInit, OperationsNext, <1>1, PTL DEF Spec

(* No attempt carries a key that was replaced or revoked before it began,    *)
(* whatever the retries, rounds and changes before it (provider.rs:90, 103). *)
THEOREM AuthFreshHolds == Spec => []AuthFresh
<1>1. OperationsInv => AuthFresh
  BY DEF OperationsInv, RequestInv
<1>2. QED
  BY OperationsInit, OperationsNext, <1>1, PTL DEF Spec

----------------------------------------------------------------------------
(* The numbers of an observer.  Told is what a hook does to them.            *)
Counting == {"metrics", "tracing"}

Told(who, numbers, counter, level) ==
  IF who = "metrics" THEN [numbers EXCEPT ![counter] = @ + 1]
                     ELSE [numbers EXCEPT ![level] = @ + 1]

(* Agree of the numbers of an observer, with no variable in it.              *)
Sums(who, numbers, done, failed, open) ==
  IF who = "metrics"
  THEN /\ numbers["failure"] = failed
       /\ numbers["success"] = done
       /\ numbers["start"] = numbers["retry"] + done + failed + open
  ELSE /\ numbers["error"] = failed
       /\ numbers["info"] = numbers["warn"] + done + failed + open + done

LEMMA SumsAgree ==
  ASSUME observer \in Counting, seen \in [Sink -> Nat],
         NEW done \in Nat, NEW failed \in Nat, NEW open \in Nat
  PROVE  Agree(done, failed, open) <=> Sums(observer, seen, done, failed, open)
<1>1. CASE observer = "metrics"
  BY <1>1 DEF Agree, Sums, Failures, Retries, Successes, Starts
<1>2. CASE observer = "tracing"
  <2>1. /\ seen["info"] \in Nat /\ seen["warn"] \in Nat /\ seen["error"] \in Nat
    BY DEF Sink
  <2>2. Agree(done, failed, open) <=>
          /\ seen["error"] = failed
          /\ done \in 0 .. seen["info"]
          /\ seen["info"] - done = seen["warn"] + done + failed + open
    BY <1>2 DEF Agree, Failures, Retries, Successes, Starts
  <2>3. QED
    BY <1>2, <2>1, <2>2 DEF Sums
<1>3. QED
  BY <1>1, <1>2 DEF Counting

LEMMA SumsAgreeNext ==
  ASSUME observer' \in Counting, seen' \in [Sink -> Nat],
         NEW done \in Nat, NEW failed \in Nat, NEW open \in Nat
  PROVE  Agree(done, failed, open)' <=> Sums(observer', seen', done, failed, open)
<1>1. CASE observer' = "metrics"
  BY <1>1 DEF Agree, Sums, Failures, Retries, Successes, Starts
<1>2. CASE observer' = "tracing"
  <2>1. /\ seen'["info"] \in Nat /\ seen'["warn"] \in Nat /\ seen'["error"] \in Nat
    BY DEF Sink
  <2>2. Agree(done, failed, open)' <=>
          /\ seen'["error"] = failed
          /\ done \in 0 .. seen'["info"]
          /\ seen'["info"] - done = seen'["warn"] + done + failed + open
    BY <1>2 DEF Agree, Failures, Retries, Successes, Starts
  <2>3. QED
    BY <1>2, <2>1, <2>2 DEF Sums
<1>3. QED
  BY <1>1, <1>2 DEF Counting

(* An operation that begins is open; one that ends well, ends badly or is    *)
(* going to be begun again was open.                                         *)
LEMMA SumsMove ==
  ASSUME NEW who \in Counting, NEW numbers \in [Sink -> Nat],
         NEW done \in Nat, NEW failed \in Nat, NEW open \in Nat,
         Sums(who, numbers, done, failed, open)
  PROVE  /\ Sums(who, Told(who, numbers, "start", "info"), done, failed, open + 1)
         /\ Sums(who, Told(who, numbers, "success", "info"), done + 1, failed, open - 1)
         /\ Sums(who, Told(who, numbers, "failure", "error"), done, failed + 1, open - 1)
         /\ Sums(who, Told(who, numbers, "retry", "warn"), done, failed, open - 1)
<1>1. CASE who = "metrics"
  <2>1. numbers["start"] \in Nat /\ numbers["success"] \in Nat
        /\ numbers["failure"] \in Nat /\ numbers["retry"] \in Nat
    BY DEF Sink
  <2>2. QED
    BY <1>1, <2>1 DEF Sums, Told, Sink
<1>2. CASE who = "tracing"
  <2>1. numbers["info"] \in Nat /\ numbers["warn"] \in Nat /\ numbers["error"] \in Nat
    BY DEF Sink
  <2>2. QED
    BY <1>2, <2>1 DEF Sums, Told, Sink
<1>3. QED
  BY <1>1, <1>2 DEF Counting

LEMMA ToldTyped ==
  ASSUME NEW who \in Counting, NEW numbers \in [Sink -> Nat], NEW c \in Sink, NEW l \in Sink
  PROVE  Told(who, numbers, c, l) \in [Sink -> Nat]
BY DEF Told

LEMMA HookTells ==
  ASSUME observer \in Counting, NEW c, NEW l, Hook(c, l)
  PROVE  seen' = Told(observer, seen, c, l)
BY DEF Hook, Told, Counting

(* What a step may do to operations that ended well, ended badly, and are    *)
(* open, and which hook tells of it.                                         *)
Effect(d, f, o, d2, f2, o2) ==
  \/ UNCHANGED seen /\ d2 = d /\ f2 = f /\ o2 = o
  \/ Hook("start", "info") /\ d2 = d /\ f2 = f /\ o2 = o + 1
  \/ Hook("success", "info") /\ d2 = d + 1 /\ f2 = f /\ o2 = o - 1
  \/ Hook("failure", "error") /\ d2 = d /\ f2 = f + 1 /\ o2 = o - 1
  \/ Hook("retry", "warn") /\ d2 = d /\ f2 = f /\ o2 = o - 1

LEMMA EffectBalances ==
  ASSUME seen \in [Sink -> Nat], UNCHANGED observer,
         NEW d \in Nat, NEW f \in Nat, NEW o \in Nat,
         NEW d2 \in Nat, NEW f2 \in Nat, NEW o2 \in Nat,
         observer \in Counting => Agree(d, f, o),
         Effect(d, f, o, d2, f2, o2)
  PROVE  seen' \in [Sink -> Nat] /\ (observer' \in Counting => Agree(d2, f2, o2)')
<1>1. CASE observer \notin Counting
  <2>1. UNCHANGED seen
    BY <1>1 DEF Effect, Hook, Counting
  <2>2. QED
    BY <1>1, <2>1
<1>2. CASE observer \in Counting
  <2>0. Sums(observer, seen, d, f, o)
    BY <1>2, SumsAgree
  <2>1. seen' \in [Sink -> Nat] /\ Sums(observer, seen', d2, f2, o2)
    <3>1. CASE UNCHANGED seen /\ d2 = d /\ f2 = f /\ o2 = o
      BY <2>0, <3>1
    <3>2. CASE Hook("start", "info") /\ d2 = d /\ f2 = f /\ o2 = o + 1
      <4>1. seen' = Told(observer, seen, "start", "info")
        BY <1>2, <3>2, HookTells
      <4>2. QED
        BY <1>2, <2>0, <3>2, <4>1, SumsMove, ToldTyped DEF Sink
    <3>3. CASE Hook("success", "info") /\ d2 = d + 1 /\ f2 = f /\ o2 = o - 1
      <4>1. seen' = Told(observer, seen, "success", "info")
        BY <1>2, <3>3, HookTells
      <4>2. QED
        BY <1>2, <2>0, <3>3, <4>1, SumsMove, ToldTyped DEF Sink
    <3>4. CASE Hook("failure", "error") /\ d2 = d /\ f2 = f + 1 /\ o2 = o - 1
      <4>1. seen' = Told(observer, seen, "failure", "error")
        BY <1>2, <3>4, HookTells
      <4>2. QED
        BY <1>2, <2>0, <3>4, <4>1, SumsMove, ToldTyped DEF Sink
    <3>5. CASE Hook("retry", "warn") /\ d2 = d /\ f2 = f /\ o2 = o - 1
      <4>1. seen' = Told(observer, seen, "retry", "warn")
        BY <1>2, <3>5, HookTells
      <4>2. QED
        BY <1>2, <2>0, <3>5, <4>1, SumsMove, ToldTyped DEF Sink
    <3>6. QED
      BY <3>1, <3>2, <3>3, <3>4, <3>5 DEF Effect
  <2>2. QED
    BY <1>2, <2>1, SumsAgreeNext
<1>3. QED
  BY <1>1, <1>2

----------------------------------------------------------------------------
(* Operations that ended well, ended badly and are open, as Balanced counts  *)
(* them.                                                                     *)
OkCalls == {e \in Execution : outcome[e] = "ok"}
FailedCalls == {e \in Execution : pc[e] = "returned" /\ outcome[e] # "ok"}
OpenCalls == {e \in Execution : pc[e] \in {"invoking", "waiting", "abandoned"}}

Sent == call.at \in {"resolving", "sending", "waiting"}
OpenRequests == ended.dropped + (IF Sent THEN 1 ELSE 0)

OkPhases == {p \in Phase : phase[p] = "succeeded"}
FailedPhases == {p \in Phase : phase[p] = "failed"}
OpenPhases == {p \in Phase : phase[p] \in {"running", "dropped"}}

LEMMA BalancedKinds ==
  Balanced <=>
    (observer \in Counting =>
       CASE kind = "tools" ->
              Agree(Cardinality(OkCalls), Cardinality(FailedCalls), Cardinality(OpenCalls))
         [] kind = "provider" -> Agree(ended.ok, ended.failed, OpenRequests)
         [] OTHER ->
              Agree(Cardinality(OkPhases), Cardinality(FailedPhases), Cardinality(OpenPhases)))
BY DEF Balanced, Counting, OkCalls, FailedCalls, OpenCalls, OpenRequests, Sent,
       OkPhases, FailedPhases, OpenPhases

LEMMA BalancedKindsNext ==
  Balanced' <=>
    (observer' \in Counting =>
       CASE kind' = "tools" ->
              Agree(Cardinality(OkCalls), Cardinality(FailedCalls), Cardinality(OpenCalls))'
         [] kind' = "provider" -> Agree(ended.ok, ended.failed, OpenRequests)'
         [] OTHER ->
              Agree(Cardinality(OkPhases), Cardinality(FailedPhases), Cardinality(OpenPhases))')
BY DEF Balanced, Counting, OkCalls, FailedCalls, OpenCalls, OpenRequests, Sent,
       OkPhases, FailedPhases, OpenPhases

(* Sets of operations that a step moves one operation between.               *)
SetEffect(x, D, F, O, D2, F2, O2) ==
  \/ UNCHANGED seen /\ D2 = D /\ F2 = F /\ O2 = O
  \/ Hook("start", "info") /\ D2 = D /\ F2 = F /\ O2 = O \cup {x} /\ x \notin O
  \/ Hook("success", "info") /\ D2 = D \cup {x} /\ x \notin D /\ F2 = F /\ O2 = O \ {x} /\ x \in O
  \/ Hook("failure", "error") /\ D2 = D /\ F2 = F \cup {x} /\ x \notin F /\ O2 = O \ {x} /\ x \in O

LEMMA SetEffectCounts ==
  ASSUME NEW x, NEW D, NEW F, NEW O, NEW D2, NEW F2, NEW O2,
         IsFiniteSet(D), IsFiniteSet(F), IsFiniteSet(O),
         SetEffect(x, D, F, O, D2, F2, O2)
  PROVE  Effect(Cardinality(D), Cardinality(F), Cardinality(O),
                Cardinality(D2), Cardinality(F2), Cardinality(O2))
<1>1. /\ x \notin D => Cardinality(D \cup {x}) = Cardinality(D) + 1
      /\ x \notin F => Cardinality(F \cup {x}) = Cardinality(F) + 1
      /\ x \notin O => Cardinality(O \cup {x}) = Cardinality(O) + 1
  BY FS_AddElement
<1>2. x \in O => Cardinality(O \ {x}) = Cardinality(O) - 1
  BY FS_RemoveElement
<1>3. QED
  BY <1>1, <1>2 DEF SetEffect, Effect

LEMMA SetEffectBalances ==
  ASSUME seen \in [Sink -> Nat], UNCHANGED observer,
         NEW S, IsFiniteSet(S), NEW x,
         NEW D \in SUBSET S, NEW F \in SUBSET S, NEW O \in SUBSET S,
         NEW D2 \in SUBSET S, NEW F2 \in SUBSET S, NEW O2 \in SUBSET S,
         observer \in Counting => Agree(Cardinality(D), Cardinality(F), Cardinality(O)),
         SetEffect(x, D, F, O, D2, F2, O2)
  PROVE  /\ seen' \in [Sink -> Nat]
         /\ observer' \in Counting =>
              Agree(Cardinality(D2), Cardinality(F2), Cardinality(O2))'
<1>1. \A T \in SUBSET S : IsFiniteSet(T) /\ Cardinality(T) \in Nat
  BY FS_Subset, FS_CardinalityType
<1>2. Effect(Cardinality(D), Cardinality(F), Cardinality(O),
             Cardinality(D2), Cardinality(F2), Cardinality(O2))
  BY <1>1, SetEffectCounts
<1>3. QED
  BY <1>1, <1>2, EffectBalances

RequestHookName == {"on_attempt_start", "on_retry_scheduled", "on_success", "on_failure"}

PhaseState == {"idle", "running", "succeeded", "failed", "dropped", "panicked"}

ObservedTyped ==
  /\ kind \in {"tools", "provider", "harness"}
  /\ observer \in Observer
  /\ seen \in [Sink -> Nat]
  /\ phase \in [Phase -> PhaseState]
  /\ requestHooks \in Seq(RequestHookName)
  /\ ended \in [ok : Nat, failed : Nat, dropped : Nat]

ObservedInv == OperationsInv /\ ObservedTyped /\ Balanced

LEMMA ObservedInit == Init => ObservedInv
<1> SUFFICES ASSUME Init PROVE ObservedInv
  OBVIOUS
<1>1. << >> \in Seq(RequestHookName)
  OBVIOUS
<1>2. ObservedTyped
  BY <1>1 DEF Init, ProviderInit, ObservedTyped, PhaseState
<1>3. Balanced
  <2>1. /\ OkCalls = {} /\ FailedCalls = {} /\ OpenCalls = {}
        /\ OkPhases = {} /\ FailedPhases = {} /\ OpenPhases = {}
    BY DEF Init, ToolInit, OkCalls, FailedCalls, OpenCalls, OkPhases, FailedPhases, OpenPhases
  <2>2. ended.ok = 0 /\ ended.failed = 0 /\ OpenRequests = 0
    BY DEF Init, ProviderInit, Idle, OpenRequests, Sent
  <2>3. Cardinality({}) = 0
    BY FS_EmptySet
  <2>4. ASSUME observer \in Counting PROVE Agree(0, 0, 0)
    <3>1. seen = [s \in Sink |-> 0]
      BY DEF Init
    <3>2. Sums(observer, seen, 0, 0, 0)
      BY <3>1 DEF Sums, Sink
    <3>3. QED
      BY <1>2, <2>4, <3>2, SumsAgree DEF ObservedTyped
  <2>5. QED
    BY <2>1, <2>2, <2>3, <2>4, BalancedKinds
<1>4. QED
  BY <1>2, <1>3, OperationsInit DEF ObservedInv

(* A step of a call moves it, and its hook tells of it.                      *)
LEMMA CallMoves ==
  ASSUME ObservedInv, NEW e \in Execution, Step(e), ToolHook(e)
  PROVE  SetEffect(e, OkCalls, FailedCalls, OpenCalls, OkCalls', FailedCalls', OpenCalls')
<1>0. /\ ToolTypeOK /\ CallInv(e)
  BY DEF ObservedInv, OperationsInv, ToolInv
<1>1. ASSUME UNCHANGED <<hooks, outcome>>, pc' = pc \/ (pc[e] \in {"invoking", "waiting"} /\
               \E to \in {"waiting", "abandoned"} : pc' = [pc EXCEPT ![e] = to])
      PROVE  UNCHANGED <<seen, OkCalls, FailedCalls, OpenCalls>>
  BY <1>0, <1>1 DEF ToolHook, ToolTypeOK, OkCalls, FailedCalls, OpenCalls
<1>2. ASSUME NEW result \in {"not_found", "timeout"} \cup ToolAnswer,
             pc[e] \in {"invoking", "waiting"}, Return(e, result)
      PROVE  \/ /\ Hook("success", "info")
                /\ OkCalls' = OkCalls \cup {e} /\ e \notin OkCalls
                /\ FailedCalls' = FailedCalls
                /\ OpenCalls' = OpenCalls \ {e} /\ e \in OpenCalls
             \/ /\ Hook("failure", "error")
                /\ OkCalls' = OkCalls
                /\ FailedCalls' = FailedCalls \cup {e} /\ e \notin FailedCalls
                /\ OpenCalls' = OpenCalls \ {e} /\ e \in OpenCalls
  <2> DEFINE h == IF result = "ok" THEN "success" ELSE "failure"
  <2>1. hooks[e] = <<"start">> /\ outcome[e] = "none"
    BY <1>0, <1>2 DEF CallInv
  <2>2. hooks'[e] = Append(hooks[e], h)
    BY <1>0, <1>2 DEF Return, ToolTypeOK
  <2>3. h \in {"success", "failure"}
    OBVIOUS
  <2>4. hooks'[e] # hooks[e] /\ Last(hooks'[e]) = h
    <3> HIDE DEF h
    <3>1. <<"start">> \in Seq({"start", "success", "failure"}) /\ Len(<<"start">>) = 1
      OBVIOUS
    <3>2. Len(Append(<<"start">>, h)) = 2 /\ Append(<<"start">>, h)[2] = h
      BY <2>3, <3>1, AppendFacts
    <3>3. QED
      BY <2>1, <2>2, <3>1, <3>2 DEF Last
  <2>5. Hook(ToolMetrics[h], ToolTracing[h])
    <3> HIDE DEF h
    <3>1. QED
      BY <2>4 DEF ToolHook
  <2>6. pc' = [pc EXCEPT ![e] = "returned"] /\ outcome' = [outcome EXCEPT ![e] = result]
    BY <1>2 DEF Return
  <2>7. e \in OpenCalls /\ e \notin OkCalls /\ e \notin FailedCalls
    BY <1>2, <2>1 DEF OkCalls, FailedCalls, OpenCalls
  <2>8. OpenCalls' = OpenCalls \ {e}
    BY <1>0, <2>6 DEF OpenCalls, ToolTypeOK
  <2>9. CASE result = "ok"
    <3>1. Hook("success", "info")
      BY <2>5, <2>9 DEF ToolMetrics, ToolTracing
    <3>2. OkCalls' = OkCalls \cup {e} /\ FailedCalls' = FailedCalls
      BY <1>0, <2>1, <2>6, <2>7, <2>9 DEF OkCalls, FailedCalls, ToolTypeOK
    <3>3. QED
      BY <2>7, <2>8, <3>1, <3>2
  <2>10. CASE result # "ok"
    <3>1. Hook("failure", "error")
      BY <2>5, <2>10 DEF ToolMetrics, ToolTracing
    <3>2. OkCalls' = OkCalls /\ FailedCalls' = FailedCalls \cup {e}
      BY <1>0, <2>1, <2>6, <2>7, <2>10 DEF OkCalls, FailedCalls, ToolTypeOK
    <3>3. QED
      BY <2>7, <2>8, <3>1, <3>2
  <2>11. QED
    BY <2>9, <2>10
<1>3. CASE Start(e)
  <2>1. hooks[e] = << >> /\ hooks'[e] = <<"start">> /\ pc[e] = "idle" /\ outcome' = outcome
        /\ pc' = [pc EXCEPT ![e] = "invoking"]
    BY <1>0, <1>3 DEF Start, CallInv, ToolTypeOK
  <2>2. hooks'[e] # hooks[e] /\ Last(hooks'[e]) = "start"
    BY <2>1 DEF Last
  <2>3. Hook("start", "info")
    BY <2>2 DEF ToolHook, ToolMetrics, ToolTracing
  <2>4. OkCalls' = OkCalls /\ FailedCalls' = FailedCalls
        /\ OpenCalls' = OpenCalls \cup {e} /\ e \notin OpenCalls
    BY <1>0, <2>1 DEF OkCalls, FailedCalls, OpenCalls, ToolTypeOK
  <2>5. QED
    BY <2>3, <2>4 DEF SetEffect
<1>4. CASE NotFound(e)
  BY <1>2, <1>4 DEF NotFound, SetEffect
<1>5. CASE Poll(e)
  <2>1. PICK result \in {"timeout"} \cup ToolAnswer : Return(e, result)
    BY <1>5 DEF Poll
  <2>2. pc[e] = "waiting"
    BY <1>5 DEF Poll
  <2>3. QED
    BY <1>2, <2>1, <2>2 DEF SetEffect
<1>6. CASE Invoke(e) \/ Abandon(e) \/ ToolAnswers(e) \/ TimerElapses(e)
  <2>1. UNCHANGED <<hooks, outcome>>
    BY <1>6 DEF Invoke, Abandon, ToolAnswers, TimerElapses
  <2>2. pc' = pc \/ (pc[e] \in {"invoking", "waiting"} /\
               \E to \in {"waiting", "abandoned"} : pc' = [pc EXCEPT ![e] = to])
    BY <1>6 DEF Invoke, Abandon, ToolAnswers, TimerElapses
  <2>3. QED
    BY <1>1, <2>1, <2>2 DEF SetEffect
<1>7. QED
  BY <1>3, <1>4, <1>5, <1>6 DEF Step

(* A step of a turn moves its request, and its hook tells of it.             *)
LEMMA HookAppended ==
  ASSUME ObservedTyped, RequestHook, NEW h \in RequestHookName,
         requestHooks' = Append(requestHooks, h)
  PROVE  /\ Hook(ProviderMetrics[h], ProviderTracing[h])
         /\ requestHooks' \in Seq(RequestHookName)
<1>1. requestHooks \in Seq(RequestHookName) /\ Len(requestHooks) \in Nat
  BY DEF ObservedTyped
<1>2. /\ requestHooks' \in Seq(RequestHookName)
      /\ Len(requestHooks') = Len(requestHooks) + 1
      /\ requestHooks'[Len(requestHooks) + 1] = h
  BY <1>1, AppendFacts
<1>3. requestHooks' # requestHooks /\ requestHooks' # << >> /\ Last(requestHooks') = h
  <2>1. Len(requestHooks') # Len(requestHooks) /\ Len(requestHooks') # 0
    BY <1>1, <1>2
  <2>2. QED
    BY <1>2, <2>1 DEF Last
<1>4. QED
  BY <1>2, <1>3 DEF RequestHook

LEMMA FailsMoves ==
  ASSUME ObservedTyped, call \in CallType, RequestHook, NEW error, Fails(error), Sent
  PROVE  /\ requestHooks' \in Seq(RequestHookName)
         /\ ended' \in [ok : Nat, failed : Nat, dropped : Nat]
         /\ Effect(ended.ok, ended.failed, OpenRequests, ended'.ok, ended'.failed, OpenRequests')
<1>1. ended \in [ok : Nat, failed : Nat, dropped : Nat]
  BY DEF ObservedTyped
<1>2. OpenRequests = ended.dropped + 1
  BY DEF OpenRequests
<1>3. CASE ShouldRetry(error)
  <2>1. /\ requestHooks' = Append(requestHooks, "on_retry_scheduled") /\ ended' = ended
        /\ call' = [call EXCEPT !.at = "backoff"]
    BY <1>3 DEF Fails, Go
  <2>2. Hook("retry", "warn") /\ requestHooks' \in Seq(RequestHookName)
    BY <2>1, HookAppended DEF RequestHookName, ProviderMetrics, ProviderTracing
  <2>3. ~Sent'
    BY <2>1 DEF Sent, CallType
  <2>4. OpenRequests' = OpenRequests - 1
    BY <1>1, <1>2, <2>1, <2>3 DEF OpenRequests
  <2>5. QED
    BY <1>1, <2>1, <2>2, <2>4 DEF Effect
<1>4. CASE ~ShouldRetry(error)
  <2>1. /\ requestHooks' = Append(requestHooks, "on_failure")
        /\ ended' = [ended EXCEPT !.failed = @ + 1]
        /\ End(error)
    BY <1>4 DEF Fails
  <2>2. Hook("failure", "error") /\ requestHooks' \in Seq(RequestHookName)
    BY <2>1, HookAppended DEF RequestHookName, ProviderMetrics, ProviderTracing
  <2>3. ~Sent'
    BY <2>1 DEF Sent, CallType, End, Go
  <2>4. /\ ended'.ok = ended.ok /\ ended'.failed = ended.failed + 1
        /\ ended'.dropped = ended.dropped
        /\ ended' \in [ok : Nat, failed : Nat, dropped : Nat]
    BY <1>1, <2>1
  <2>5. OpenRequests' = OpenRequests - 1
    BY <1>1, <1>2, <2>3, <2>4 DEF OpenRequests
  <2>6. QED
    BY <2>2, <2>4, <2>5 DEF Effect
<1>5. QED
  BY <1>3, <1>4

(* Steps without a hook that leave a request as open as it was. *)
LEMMA QuietRequest ==
  ASSUME ObservedTyped, RequestHook, requestHooks' \in {requestHooks, << >>},
         UNCHANGED ended, Sent' <=> Sent
  PROVE  /\ requestHooks' \in Seq(RequestHookName)
         /\ ended' \in [ok : Nat, failed : Nat, dropped : Nat]
         /\ Effect(ended.ok, ended.failed, OpenRequests, ended'.ok, ended'.failed, OpenRequests')
<1>1. << >> \in Seq(RequestHookName)
  OBVIOUS
<1>2. UNCHANGED <<seen, OpenRequests>>
  BY DEF RequestHook, OpenRequests
<1>3. QED
  BY <1>1, <1>2 DEF ObservedTyped, Effect

LEMMA RequestMoves ==
  ASSUME ObservedTyped, call \in CallType, ProviderNext, RequestHook
  PROVE  /\ requestHooks' \in Seq(RequestHookName)
         /\ ended' \in [ok : Nat, failed : Nat, dropped : Nat]
         /\ Effect(ended.ok, ended.failed, OpenRequests, ended'.ok, ended'.failed, OpenRequests')
<1>0. ended \in [ok : Nat, failed : Nat, dropped : Nat]
  BY DEF ObservedTyped
<1>1. CASE Begin
  <2>1. ~Sent /\ ~Sent' /\ requestHooks' = << >> /\ ended' = ended
    BY <1>1 DEF Begin, End, Go, Idle, Sent, CallType
  <2>2. QED
    BY <2>1, QuietRequest
<1>2. CASE StartAttempt
  <2>1. /\ requestHooks' = Append(requestHooks, "on_attempt_start") /\ ended' = ended
        /\ ~Sent /\ Sent'
    BY <1>2 DEF StartAttempt, Go, Sent, CallType
  <2>2. Hook("start", "info") /\ requestHooks' \in Seq(RequestHookName)
    BY <2>1, HookAppended DEF RequestHookName, ProviderMetrics, ProviderTracing
  <2>3. OpenRequests' = OpenRequests + 1
    BY <1>0, <2>1 DEF OpenRequests
  <2>4. QED
    BY <1>0, <2>1, <2>2, <2>3 DEF Effect
<1>3. CASE Prepare
  <2>1. Sent
    BY <1>3 DEF Prepare, Sent
  <2>2. CASE \E error \in {"authentication", "unsendable"} : Fails(error)
    BY <2>1, <2>2, FailsMoves
  <2>3. ASSUME NEW key \in Resolve,
               Go([call EXCEPT !.at = "sending", !.key = key, !.fallback = FALSE]),
               UNCHANGED <<history, turns, requestHooks, ended>>
        PROVE  Sent'
    BY <2>3 DEF Go, Sent, CallType
  <2>4. QED
    BY <1>3, <2>1, <2>2, <2>3, QuietRequest DEF Prepare
<1>4. CASE Send \/ Fallback
  <2>1. Sent /\ Sent' /\ UNCHANGED <<requestHooks, ended>>
    BY <1>4 DEF Send, Fallback, Go, Sent, CallType
  <2>2. QED
    BY <2>1, QuietRequest
<1>5. CASE ServerFails
  BY <1>5, FailsMoves DEF ServerFails, Sent
<1>6. CASE ServerAnswers
  <2>1. Sent
    BY <1>6 DEF ServerAnswers, Sent
  <2>2. CASE Fails("transport")
    BY <2>1, <2>2, FailsMoves
  <2>3. CASE /\ requestHooks' = Append(requestHooks, "on_success")
             /\ ended' = [ended EXCEPT !.ok = @ + 1]
             /\ Go([call EXCEPT !.at = "reading"])
    <3>1. Hook("success", "info") /\ requestHooks' \in Seq(RequestHookName)
      BY <2>3, HookAppended DEF RequestHookName, ProviderMetrics, ProviderTracing
    <3>2. ~Sent'
      BY <2>3 DEF Go, Sent, CallType
    <3>3. /\ ended'.ok = ended.ok + 1 /\ ended'.failed = ended.failed
          /\ ended'.dropped = ended.dropped
          /\ ended' \in [ok : Nat, failed : Nat, dropped : Nat]
      BY <1>0, <2>3
    <3>4. OpenRequests' = OpenRequests - 1
      BY <1>0, <2>1, <3>2, <3>3 DEF OpenRequests
    <3>5. QED
      BY <3>1, <3>3, <3>4 DEF Effect
  <2>4. QED
    BY <1>6, <2>2, <2>3 DEF ServerAnswers
<1>7. CASE Collect \/ StreamBreaks \/ RunTools \/ Wake \/ AppendMessages
  <2>1. ~Sent /\ ~Sent'
    BY <1>7 DEF Collect, StreamBreaks, RunTools, Wake, AppendMessages, End, Go, Sent, CallType
  <2>2. requestHooks' \in {requestHooks, << >>} /\ ended' = ended
    BY <1>7 DEF Collect, StreamBreaks, RunTools, Wake, AppendMessages
  <2>3. QED
    BY <2>1, <2>2, QuietRequest
<1>8. CASE Drop
  <2>1. ~Sent' /\ requestHooks' = requestHooks
    BY <1>8 DEF Drop, End, Go, Sent, CallType
  <2>2. UNCHANGED seen
    BY <2>1 DEF RequestHook
  <2>3. CASE call.at = "waiting"
    <3>1. ended' = [ended EXCEPT !.dropped = @ + 1] /\ Sent
      BY <1>8, <2>3 DEF Drop, Sent
    <3>2. /\ ended'.ok = ended.ok /\ ended'.failed = ended.failed
          /\ ended'.dropped = ended.dropped + 1
          /\ ended' \in [ok : Nat, failed : Nat, dropped : Nat]
      BY <1>0, <3>1
    <3>3. OpenRequests' = OpenRequests
      BY <1>0, <2>1, <3>1, <3>2 DEF OpenRequests
    <3>4. QED
      BY <2>1, <2>2, <3>2, <3>3 DEF Effect, ObservedTyped
  <2>4. CASE call.at # "waiting"
    <3>1. ended' = ended /\ ~Sent
      BY <1>8, <2>4 DEF Drop, Sent
    <3>2. QED
      BY <2>1, <3>1, QuietRequest
  <2>5. QED
    BY <2>3, <2>4
<1>9. CASE ChangeCredential
  <2>1. UNCHANGED <<call, requestHooks, ended>>
    BY <1>9 DEF ChangeCredential
  <2>2. QED
    BY <2>1, QuietRequest DEF Sent
<1>10. QED
  BY <1>1, <1>2, <1>3, <1>4, <1>5, <1>6, <1>7, <1>8, <1>9 DEF ProviderNext

(* A step of a phase moves it, and its hook tells of it.                     *)
LEMMA PhaseMoves ==
  ASSUME ObservedTyped, OnHarness
  PROVE  /\ phase' \in [Phase -> PhaseState]
         /\ \E p \in Phase : SetEffect(p, OkPhases, FailedPhases, OpenPhases,
                                          OkPhases', FailedPhases', OpenPhases')
<1>1. phase \in [Phase -> PhaseState]
  BY DEF ObservedTyped
<1>2. ASSUME NEW p \in Phase, PhaseStep(p, "idle", "running")
      PROVE  /\ phase' \in [Phase -> PhaseState]
             /\ SetEffect(p, OkPhases, FailedPhases, OpenPhases,
                             OkPhases', FailedPhases', OpenPhases')
  <2>1. phase[p] = "idle" /\ phase' = [phase EXCEPT ![p] = "running"] /\ Hook("start", "info")
    BY <1>2 DEF PhaseStep, PhaseMetrics, PhaseTracing
  <2>2. /\ OkPhases' = OkPhases /\ FailedPhases' = FailedPhases
        /\ OpenPhases' = OpenPhases \cup {p} /\ p \notin OpenPhases
    BY <1>1, <2>1 DEF OkPhases, FailedPhases, OpenPhases
  <2>3. QED
    BY <1>1, <2>1, <2>2 DEF SetEffect, PhaseState
<1>3. ASSUME NEW p \in Phase, NEW to \in {"succeeded", "failed", "dropped"},
             PhaseStep(p, "running", to)
      PROVE  /\ phase' \in [Phase -> PhaseState]
             /\ SetEffect(p, OkPhases, FailedPhases, OpenPhases,
                             OkPhases', FailedPhases', OpenPhases')
  <2>1. phase[p] = "running" /\ phase' = [phase EXCEPT ![p] = to]
    BY <1>3 DEF PhaseStep
  <2>2. CASE to = "succeeded"
    <3>1. Hook("success", "info")
      BY <1>3, <2>2 DEF PhaseStep, PhaseMetrics, PhaseTracing
    <3>2. /\ OkPhases' = OkPhases \cup {p} /\ p \notin OkPhases /\ FailedPhases' = FailedPhases
          /\ OpenPhases' = OpenPhases \ {p} /\ p \in OpenPhases
      BY <1>1, <2>1, <2>2 DEF OkPhases, FailedPhases, OpenPhases
    <3>3. QED
      BY <1>1, <2>1, <3>1, <3>2 DEF SetEffect, PhaseState
  <2>3. CASE to = "failed"
    <3>1. Hook("failure", "error")
      BY <1>3, <2>3 DEF PhaseStep, PhaseMetrics, PhaseTracing
    <3>2. /\ FailedPhases' = FailedPhases \cup {p} /\ p \notin FailedPhases
          /\ OkPhases' = OkPhases
          /\ OpenPhases' = OpenPhases \ {p} /\ p \in OpenPhases
      BY <1>1, <2>1, <2>3 DEF OkPhases, FailedPhases, OpenPhases
    <3>3. QED
      BY <1>1, <2>1, <3>1, <3>2 DEF SetEffect, PhaseState
  <2>4. CASE to = "dropped"
    <3>1. UNCHANGED seen
      BY <1>3, <2>4 DEF PhaseStep
    <3>2. UNCHANGED <<OkPhases, FailedPhases, OpenPhases>>
      BY <1>1, <2>1, <2>4 DEF OkPhases, FailedPhases, OpenPhases
    <3>3. QED
      BY <1>1, <2>1, <3>1, <3>2 DEF SetEffect, PhaseState
  <2>5. QED
    BY <2>2, <2>3, <2>4
<1>4. QED
  BY <1>2, <1>3 DEF OnHarness

LEMMA ObservedNext == ObservedInv /\ [Next]_vars => ObservedInv'
<1> SUFFICES ASSUME ObservedInv, [Next]_vars PROVE ObservedInv'
  OBVIOUS
<1>0. /\ OperationsInv' /\ OperationsInv /\ ObservedTyped /\ Balanced
      /\ call \in CallType
  BY OperationsNext DEF ObservedInv, OperationsInv, RequestInv, RequestTyped
<1> USE DEF ObservedInv
<1>1. ASSUME observer \notin Counting, observer' = observer PROVE Balanced'
  BY <1>1 DEF Balanced, Counting
<1>2. ASSUME NEW e \in Execution, OnTools(Step(e), e) PROVE ObservedInv'
  <2>1. /\ UNCHANGED <<kind, observer, phase, requestHooks, ended>> /\ kind = "tools"
        /\ Step(e) /\ ToolHook(e)
    BY <1>2 DEF OnTools, providerVars
  <2>2. SetEffect(e, OkCalls, FailedCalls, OpenCalls, OkCalls', FailedCalls', OpenCalls')
    BY <1>0, <2>1, CallMoves
  <2>3. /\ OkCalls \in SUBSET Execution /\ FailedCalls \in SUBSET Execution
        /\ OpenCalls \in SUBSET Execution
        /\ OkCalls' \in SUBSET Execution /\ FailedCalls' \in SUBSET Execution
        /\ OpenCalls' \in SUBSET Execution
    BY DEF OkCalls, FailedCalls, OpenCalls
  <2>4. observer \in Counting =>
          Agree(Cardinality(OkCalls), Cardinality(FailedCalls), Cardinality(OpenCalls))
    BY <1>0, <2>1, BalancedKinds
  <2>5. /\ seen' \in [Sink -> Nat]
        /\ observer' \in Counting =>
             Agree(Cardinality(OkCalls), Cardinality(FailedCalls), Cardinality(OpenCalls))'
    BY <1>0, <2>1, <2>2, <2>3, <2>4, SetEffectBalances, ObservedAssumption DEF ObservedTyped
  <2>6. ObservedTyped'
    BY <1>0, <2>1, <2>5 DEF ObservedTyped
  <2>7. Balanced'
    BY <2>1, <2>5, BalancedKindsNext
  <2>8. QED
    BY <1>0, <2>6, <2>7
<1>3. ASSUME NEW e \in Execution, ToolUnwinds(e) PROVE ObservedInv'
  <2>1. observer \notin Counting /\ UNCHANGED <<kind, observer, seen, phase, requestHooks, ended>>
    BY <1>3 DEF ToolUnwinds, Unwinds, Counting, providerVars
  <2>2. QED
    BY <1>0, <1>1, <2>1 DEF ObservedTyped
<1>4. CASE OnProvider
  <2>1. /\ UNCHANGED <<kind, observer, phase>> /\ kind = "provider"
        /\ ProviderNext /\ RequestHook
    BY <1>4 DEF OnProvider
  <2>2. /\ requestHooks' \in Seq(RequestHookName)
        /\ ended' \in [ok : Nat, failed : Nat, dropped : Nat]
        /\ Effect(ended.ok, ended.failed, OpenRequests, ended'.ok, ended'.failed, OpenRequests')
    BY <1>0, <2>1, RequestMoves
  <2>3. /\ ended.ok \in Nat /\ ended.failed \in Nat /\ OpenRequests \in Nat
        /\ ended'.ok \in Nat /\ ended'.failed \in Nat /\ OpenRequests' \in Nat
    BY <1>0, <2>2 DEF ObservedTyped, OpenRequests
  <2>4. observer \in Counting => Agree(ended.ok, ended.failed, OpenRequests)
    BY <1>0, <2>1, BalancedKinds
  <2>5. /\ seen' \in [Sink -> Nat]
        /\ observer' \in Counting => Agree(ended.ok, ended.failed, OpenRequests)'
    BY <1>0, <2>1, <2>2, <2>3, <2>4, EffectBalances DEF ObservedTyped
  <2>6. ObservedTyped'
    BY <1>0, <2>1, <2>2, <2>5 DEF ObservedTyped
  <2>7. Balanced'
    BY <2>1, <2>5, BalancedKindsNext
  <2>8. QED
    BY <1>0, <2>6, <2>7
<1>5. CASE ProviderUnwinds
  <2>1. /\ observer \notin Counting /\ UNCHANGED <<kind, observer, seen, phase, ended>>
        /\ \E hook \in NextRequestHook : requestHooks' = Append(requestHooks, hook)
    BY <1>5 DEF ProviderUnwinds, Unwinds, Counting
  <2>2. PICK hook \in RequestHookName : requestHooks' = Append(requestHooks, hook)
    BY <2>1 DEF NextRequestHook, RequestHookName
  <2>3. requestHooks' \in Seq(RequestHookName)
    BY <1>0, <2>2, AppendFacts DEF ObservedTyped
  <2>4. QED
    BY <1>0, <1>1, <2>1, <2>3 DEF ObservedTyped
<1>6. CASE OnHarness
  <2>1. UNCHANGED <<kind, observer, requestHooks, ended>> /\ kind = "harness"
    BY <1>6 DEF OnHarness, providerVars
  <2>2. phase' \in [Phase -> PhaseState]
    BY <1>0, <1>6, PhaseMoves
  <2>3. PICK p \in Phase : SetEffect(p, OkPhases, FailedPhases, OpenPhases,
                                        OkPhases', FailedPhases', OpenPhases')
    BY <1>0, <1>6, PhaseMoves
  <2>4. /\ OkPhases \in SUBSET Phase /\ FailedPhases \in SUBSET Phase
        /\ OpenPhases \in SUBSET Phase
        /\ OkPhases' \in SUBSET Phase /\ FailedPhases' \in SUBSET Phase
        /\ OpenPhases' \in SUBSET Phase
    BY DEF OkPhases, FailedPhases, OpenPhases
  <2>5. observer \in Counting =>
          Agree(Cardinality(OkPhases), Cardinality(FailedPhases), Cardinality(OpenPhases))
    BY <1>0, <2>1, BalancedKinds
  <2>6. /\ seen' \in [Sink -> Nat]
        /\ observer' \in Counting =>
             Agree(Cardinality(OkPhases), Cardinality(FailedPhases), Cardinality(OpenPhases))'
    BY <1>0, <2>1, <2>3, <2>4, <2>5, SetEffectBalances, ObservedAssumption DEF ObservedTyped
  <2>7. ObservedTyped'
    BY <1>0, <2>1, <2>2, <2>6 DEF ObservedTyped
  <2>8. Balanced'
    BY <2>1, <2>6, BalancedKindsNext
  <2>9. QED
    BY <1>0, <2>7, <2>8
<1>7. CASE PhaseUnwinds
  <2>1. observer \notin Counting /\ UNCHANGED <<kind, observer, seen, requestHooks, ended>>
    BY <1>7 DEF PhaseUnwinds, Unwinds, Counting, providerVars
  <2>2. phase' \in [Phase -> PhaseState]
    BY <1>0, <1>7 DEF PhaseUnwinds, ObservedTyped, PhaseState
  <2>3. QED
    BY <1>0, <1>1, <2>1, <2>2 DEF ObservedTyped
<1>8. CASE UNCHANGED vars
  <2>1. UNCHANGED <<kind, observer, seen, phase, requestHooks, ended, call, pc, outcome>>
    BY <1>8 DEF vars, toolVars, providerVars
  <2>2. Balanced'
    BY <1>0, <2>1 DEF Balanced, Agree, Failures, Retries, Successes, Starts
  <2>3. QED
    BY <1>0, <2>1, <2>2 DEF ObservedTyped
<1>9. QED
  BY <1>2, <1>3, <1>4, <1>5, <1>6, <1>7, <1>8 DEF Next

(* The metrics and the log balance: every operation that ended was counted   *)
(* as what it was, and one that was begun and not counted as ended is under  *)
(* way or was dropped, whatever overlaps, is retried, fails, is dropped.     *)
THEOREM BalancedHolds == Spec => []Balanced
<1>1. ObservedInv => Balanced
  BY DEF ObservedInv
<1>2. QED
  BY ObservedInit, ObservedNext, <1>1, PTL DEF Spec

=============================================================================
