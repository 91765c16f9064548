------------------------------ MODULE ChatTurn ------------------------------
(***************************************************************************)
(* Turns of a ChatService on one session.  A turn loads the transcript,    *)
(* asks the provider, runs the tools the answer calls and asks again, for  *)
(* at most MaxRoundTrips rounds, and appends its messages in one call of   *)
(* the ConversationStore.  Turns of one session may overlap: nothing in    *)
(* the service orders them.  run_turn answers once; stream_turn yields     *)
(* events, and its consumer may drop it at any of them.                    *)
(*                                                                         *)
(* A message is [turn, part]: part 0 is what the user said and part k the  *)
(* text of the k-th response.  The provider, the tools and the store are   *)
(* an environment that answers in every way they can.                      *)
(***************************************************************************)
EXTENDS Naturals, Sequences, FiniteSets, SequencesExt

CONSTANTS
  Turn,           \* the turns callers start on the session
  Streamed,       \* those started with stream_turn; the others with run_turn
  HasTools,       \* a tool runtime is configured
  MaxRoundTrips,  \* ChatPolicy::max_tool_round_trips
  MaxAttempts,    \* RetryPolicy::max_attempts
  ToolCall        \* bound: the ids of tool calls, ordered as the code orders them

ASSUME ChatAssumption ==
  /\ Streamed \subseteq Turn
  /\ HasTools \in BOOLEAN
  /\ MaxRoundTrips \in Nat
  /\ MaxAttempts \in Nat \ {0}
  /\ ToolCall \subseteq Nat

VARIABLES
  transcript,  \* the messages of the session in the store
  turn,        \* turn[t]: the locals of t's future
  finished     \* history, finished[t]: the turns that had returned when t began

vars == <<transcript, turn, finished>>

Message == [turn : Turn, part : Nat]

Ended == {"complete", "failed", "dropped"}

(* requests counts t's calls of the provider; it stops one above the bound *)
(* BoundedRequests states.                                                 *)
MaxRequests == MaxAttempts * (MaxRoundTrips + 1)

TypeOK ==
  /\ transcript \in Seq(Message)
  /\ finished \in [Turn -> SUBSET Turn]
  /\ turn \in [Turn ->
       [pc : {"idle", "loading", "requesting", "backoff", "receiving", "tools",
              "storing", "stored"} \cup Ended,
        history : Seq(Message),
        said : 0 .. MaxRoundTrips + 1,
        attempt : 1 .. MaxAttempts,
        rounds : 0 .. MaxRoundTrips,
        calls : Seq(ToolCall),
        results : Seq(ToolCall),
        seen : SUBSET ToolCall,
        requests : 0 .. MaxRequests + 1]]

Init ==
  /\ transcript = << >>
  /\ finished = [t \in Turn |-> {}]
  /\ turn = [t \in Turn |->
       [pc |-> "idle", history |-> << >>, said |-> 0, attempt |-> 1, rounds |-> 0,
        calls |-> << >>, results |-> << >>, seen |-> {}, requests |-> 0]]

Is(t, pc) == turn[t].pc = pc

Become(t, pc) == turn' = [turn EXCEPT ![t].pc = pc]

(* The turn is over, and what it kept for its next step is gone. *)
Over(locals, how) ==
  [locals EXCEPT !.pc = how, !.attempt = 1, !.rounds = 0,
                 !.calls = << >>, !.results = << >>, !.seen = {}]

End(t, how) == turn' = [turn EXCEPT ![t] = Over(@, how)]

(* The messages the turn persists: the user's and every response's. *)
Persisted(t) == [i \in 1 .. turn[t].said + 1 |-> [turn |-> t, part |-> i - 1]]

-----------------------------------------------------------------------------
(* prepare_turn; a blank input, or run_turn asked to stream, ends here. *)
Begin(t) ==
  /\ Is(t, "idle")
  /\ \/ Become(t, "loading")
     \/ End(t, "failed")
  /\ finished' = [finished EXCEPT ![t] = {u \in Turn : Is(u, "complete")}]
  /\ UNCHANGED transcript

(* The load may fail, and then build_request may refuse the options of the *)
(* request; only the first time, as every request has the same options.    *)
LoadMessages(t) ==
  /\ Is(t, "loading")
  /\ \/ turn' = [turn EXCEPT ![t].pc = "requesting", ![t].history = transcript]
     \/ End(t, "failed")
  /\ UNCHANGED <<transcript, finished>>

-----------------------------------------------------------------------------
(* One provider call, and what is done with its answer. *)

Counted(t) == IF turn[t].requests > MaxRequests THEN turn[t].requests
              ELSE turn[t].requests + 1

(* Faulty variant: counts the attempts that failed, not the one to come. *)
RetryOnceMore(attempt) == attempt <= MaxAttempts

ShouldRetry(attempt) == attempt < MaxAttempts

AttemptFails(t, retryable) ==
  /\ Is(t, "requesting")
  /\ turn' = [turn EXCEPT ![t] =
       LET counted == [@ EXCEPT !.requests = Counted(t)]
       IN  IF retryable /\ ShouldRetry(@.attempt)
           THEN [counted EXCEPT !.pc = "backoff"] ELSE Over(counted, "failed")]
  /\ UNCHANGED <<transcript, finished>>

(* Faulty variant: the loop forgets to count the attempt. *)
BackoffForever(t) ==
  /\ Is(t, "backoff")
  /\ Become(t, "requesting")
  /\ UNCHANGED <<transcript, finished>>

Backoff(t) ==
  /\ Is(t, "backoff")
  /\ turn' = [turn EXCEPT ![t].pc = "requesting", ![t].attempt = @ + 1]
  /\ UNCHANGED <<transcript, finished>>

(* Faulty variant: the round at the limit still runs its tools. *)
OneRoundMore(t, calls) == HasTools /\ calls # << >> /\ turn[t].rounds <= MaxRoundTrips

ShouldRunTools(t, calls) == HasTools /\ calls # << >> /\ turn[t].rounds < MaxRoundTrips

(* Faulty variant: the results of the rounds before are kept. *)
RespondedKeeping(t, calls, requests) ==
  turn' = [turn EXCEPT
    ![t].pc = IF ShouldRunTools(t, calls) THEN "tools" ELSE "storing",
    ![t].said = @ + 1,
    ![t].calls = IF ShouldRunTools(t, calls) THEN calls ELSE << >>,
    ![t].seen = {},
    ![t].requests = requests]

(* A whole response is there: its text joins the conversation, and its     *)
(* calls are run, or left to the caller with the result of the turn.       *)
Responded(t, calls, requests) ==
  turn' = [turn EXCEPT
    ![t].pc = IF ShouldRunTools(t, calls) THEN "tools" ELSE "storing",
    ![t].said = @ + 1,
    ![t].calls = IF ShouldRunTools(t, calls) THEN calls ELSE << >>,
    ![t].results = << >>,
    ![t].seen = {},
    ![t].requests = requests]

(* run_turn takes the calls as the response lists them; a provider gives   *)
(* the calls of one response different ids.                                *)
Complete(t) ==
  /\ Is(t, "requesting") /\ t \notin Streamed
  /\ \E ids \in {s \in SUBSET ToolCall : IsFiniteSet(s)} : \E calls \in SetToSeqs(ids) :
       Responded(t, calls, Counted(t))
  /\ UNCHANGED <<transcript, finished>>

StreamOpens(t) ==
  /\ Is(t, "requesting") /\ t \in Streamed
  /\ turn' = [turn EXCEPT ![t].pc = "receiving", ![t].requests = Counted(t)]
  /\ UNCHANGED <<transcript, finished>>

(* A delta, or the final response, names a call.  Text and the calls       *)
(* already named change nothing that matters here.                         *)
ToolCallDelta(t) ==
  /\ Is(t, "receiving")
  /\ \E call \in ToolCall \ turn[t].seen : turn' = [turn EXCEPT ![t].seen = @ \cup {call}]
  /\ UNCHANGED <<transcript, finished>>

(* The stream yields None, after a ResponseComplete or without one; calls  *)
(* are run in the order of their ids, each once.                           *)
StreamEnds(t) ==
  /\ Is(t, "receiving")
  /\ \E calls \in SetToSeqs(turn[t].seen) :
       /\ \A i, j \in DOMAIN calls : i < j => calls[i] < calls[j]
       /\ Responded(t, calls, turn[t].requests)
  /\ UNCHANGED <<transcript, finished>>

StreamFails(t) ==
  /\ Is(t, "receiving")
  /\ End(t, "failed")
  /\ UNCHANGED <<transcript, finished>>

-----------------------------------------------------------------------------
(* Tools run one after the other; the first error ends the turn. *)
RunTool(t) ==
  /\ Is(t, "tools") /\ Len(turn[t].results) < Len(turn[t].calls)
  /\ \/ turn' = [turn EXCEPT ![t].results = Append(@, turn[t].calls[Len(@) + 1])]
     \/ End(t, "failed")
  /\ UNCHANGED <<transcript, finished>>

NextRound(t) ==
  /\ Is(t, "tools") /\ Len(turn[t].results) >= Len(turn[t].calls)
  /\ turn' = [turn EXCEPT ![t].pc = "requesting", ![t].rounds = @ + 1, ![t].attempt = 1]
  /\ UNCHANGED <<transcript, finished>>

-----------------------------------------------------------------------------
(* The end of the turn.  The store may report an error after it took the   *)
(* messages: a durable backend may fail while it answers.                  *)

(* Faulty variant: writes what was loaded and what was said over what is   *)
(* there.                                                                  *)
AppendOver(t) ==
  /\ Is(t, "storing")
  /\ transcript' = turn[t].history \o Persisted(t)
  /\ Become(t, "stored")
  /\ UNCHANGED finished

(* Faulty variant: only the last response is kept. *)
AppendLast(t) ==
  /\ Is(t, "storing")
  /\ transcript' = transcript \o <<Head(Persisted(t)), Last(Persisted(t))>>
  /\ Become(t, "stored")
  /\ UNCHANGED finished

AppendMessages(t) ==
  /\ Is(t, "storing")
  /\ transcript' = transcript \o Persisted(t)
  /\ Become(t, "stored")
  /\ UNCHANGED finished

(* MemoryConversationStore on SQLite inserts message by message, so a      *)
(* failed append may leave the first ones.                                 *)
StoreFails(t) ==
  /\ \/ Is(t, "stored") /\ UNCHANGED transcript
     \/ /\ Is(t, "storing")
        /\ \E n \in 0 .. turn[t].said : transcript' = transcript \o SubSeq(Persisted(t), 1, n)
  /\ End(t, "failed")
  /\ UNCHANGED finished

(* Faulty variant: the caller is told before the store is. *)
TurnCompleteEarly(t) ==
  /\ turn[t].pc \in {"storing", "stored"}
  /\ End(t, "complete")
  /\ UNCHANGED <<transcript, finished>>

TurnComplete(t) ==
  /\ Is(t, "stored")
  /\ End(t, "complete")
  /\ UNCHANGED <<transcript, finished>>

(* The caller drops the future or the event stream at an await or a yield. *)
Dropped(t) ==
  /\ turn[t].pc \notin {"idle"} \cup Ended
  /\ End(t, "dropped")
  /\ UNCHANGED <<transcript, finished>>

-----------------------------------------------------------------------------
(* The service's own steps, once the provider, a tool or the store answers. *)
Progress(t) ==
  \/ LoadMessages(t)
  \/ \E retryable \in BOOLEAN : AttemptFails(t, retryable)
  \/ Backoff(t)
  \/ Complete(t)
  \/ StreamOpens(t)
  \/ ToolCallDelta(t) \/ StreamEnds(t) \/ StreamFails(t)
  \/ RunTool(t) \/ NextRound(t)
  \/ AppendMessages(t) \/ StoreFails(t) \/ TurnComplete(t)

Next == \E t \in Turn : Begin(t) \/ Progress(t) \/ Dropped(t)

Spec == Init /\ [][Next]_vars

(* Callers poll their turns, and the provider, the tools and the store     *)
(* answer in the end.                                                      *)
FairSpec == Spec /\ \A t \in Turn : WF_vars(Progress(t))

-----------------------------------------------------------------------------
IndicesOf(m) == {i \in DOMAIN transcript : transcript[i] = m}

(* The transcript is a sequence of turns, however they overlap and wherever *)
(* they are dropped: a turn's messages stand together, in order from the   *)
(* user's, and complete unless the turn failed while they were stored (one *)
(* append_messages call, service.rs:221 and 421; sqlite.rs:977).           *)
WholeTurns ==
  \A i \in DOMAIN transcript :
    LET m == transcript[i]
    IN  /\ m.part > 0 =>
             i > 1 /\ transcript[i - 1] = [m EXCEPT !.part = @ - 1]
        /\ m.part < turn[m.turn].said /\ ~Is(m.turn, "failed") =>
             i < Len(transcript) /\ transcript[i + 1] = [m EXCEPT !.part = @ + 1]

(* A turn that returned, or yielded TurnComplete, is in the transcript     *)
(* exactly once; and no turn is in it twice.                               *)
PersistedOnce ==
  \A t \in Turn :
    LET asked == IndicesOf([turn |-> t, part |-> 0])
    IN  /\ Cardinality(asked) <= 1
        /\ Is(t, "complete") => asked # {}

(* A conversation does not forget: a turn begun after another returned is  *)
(* answered with that one's messages in its history.                       *)
HistorySeesFinished ==
  \A t \in Turn : \A u \in finished[t] :
    turn[t].said > 0 =>
      \A m \in 0 .. turn[u].said : [turn |-> u, part |-> m] \in Range(turn[t].history)

(* Each request after a round of tools carries one result for each call of *)
(* the response before it, in order, and nothing of earlier rounds         *)
(* (tool_results at service.rs:237 and 393).                               *)
ResultsAnswerCalls ==
  \A t \in Turn :
    turn[t].pc \in {"requesting", "backoff"} => turn[t].results = turn[t].calls

(* However answers alternate between errors and tool calls, one turn calls *)
(* the provider at most MaxAttempts times for each of MaxRoundTrips + 1    *)
(* responses.                                                              *)
BoundedRequests ==
  \A t \in Turn : turn[t].requests <= MaxRequests

(* A turn that is polled ends: neither retries nor tools keep it going. *)
TurnEnds == \A t \in Turn : Is(t, "loading") ~> turn[t].pc \in Ended

=============================================================================
