---------------------------- MODULE ProviderCall ----------------------------
(***************************************************************************)
(* How the turns of one session reach a model: ChatService builds the      *)
(* request, retries it under its policy, and the adapter of the provider   *)
(* takes the credential, writes the request for an OpenAI-compatible       *)
(* server and reads its answer.  Meanwhile other threads rotate and revoke *)
(* the credential.                                                         *)
(*                                                                         *)
(* Turns follow one another: ChatTurn is about turns that overlap, and     *)
(* Credentials about how a credential is kept.  A message is its role and  *)
(* whether its content is blank, which is what decides if it can be sent.  *)
(* The credential is a number that grows with every change: a key while it *)
(* is odd, none while it is even.                                          *)
(***************************************************************************)
EXTENDS Naturals, Sequences

CONSTANTS
  Adapter,      \* providers in use: "openai", "anthropic", "zen", "ollama"
  MaxAttempts,  \* RetryPolicy::max_attempts
  MaxRounds,    \* ChatPolicy::max_tool_round_trips
  MaxTurns,     \* bound: turns of the session
  MaxChanges    \* bound: changes of the credential

ASSUME CallAssumption ==
  /\ Adapter \subseteq {"openai", "anthropic", "zen", "ollama"}
  /\ MaxAttempts \in Nat \ {0}
  /\ {MaxRounds, MaxTurns, MaxChanges} \subseteq Nat

VARIABLES
  adapter,   \* the provider of the session
  system,    \* its system prompt, if it has one, as a sequence of messages
  history,   \* the messages that are stored
  version,   \* the credential
  turns,     \* turns begun so far
  call,      \* the turn under way, and how the last one ended
  requestHooks,  \* the operation hooks called for the request under way
  ended      \* history: how many requests ended in which way

providerVars == <<adapter, system, history, version, turns, call, requestHooks, ended>>

Message(role, blank) == [role |-> role, blank |-> blank]
User == Message("User", FALSE)

Idle == [at |-> "idle", streams |-> FALSE, messages |-> << >>, fresh |-> << >>,
         results |-> << >>, rounds |-> 0, attempt |-> 0, since |-> 0, key |-> << >>,
         fallback |-> FALSE, outcome |-> "none"]

ProviderInit ==
  /\ adapter \in Adapter
  /\ system \in {<< >>} \cup {<<Message("System", blank)>> : blank \in BOOLEAN}
  /\ history = << >>
  /\ version \in {0, 1}
  /\ turns = 0
  /\ call = Idle
  /\ requestHooks = << >>
  /\ ended = [ok |-> 0, failed |-> 0, dropped |-> 0]

----------------------------------------------------------------------------
(* Requests and errors. *)

(* Faulty variant: nobody may say nothing. *)
SendableIfAny(m) == ~m.blank

(* Only an assistant may say nothing. *)
Sendable(m) == m.blank => m.role = "Assistant"

(* The messages of the session, then the results of the tools. *)
Payload(messages, results) ==
  messages \o [i \in DOMAIN results |-> Message("Tool", results[i])]

(* One message that cannot be sent keeps the whole request back. *)
CanSend(messages) == \A i \in DOMAIN messages : Sendable(messages[i])

(* What ends a turn before there is a request: the prompt, the history that *)
(* cannot be loaded, or options and model names that validate refuses.      *)
Refusal == {"blank_prompt", "storage", "invalid_options"}

(* What a response says becomes a message, a blank one if it says nothing. *)
Reply(blank) == Message("Assistant", blank)

(* OllamaProvider sends a placeholder. *)
NeedsKey == adapter # "ollama"

ErrorOf(status) ==
  CASE status \in {401, 403} -> "authentication"
    [] status = 429          -> "rate_limited"
    [] status \in {408, 504} -> "timeout"
    [] status \in {400, 422} -> "invalid_request"
    [] status \in {502, 503} -> "unavailable"
    [] OTHER                 -> "transport"

Status == {400, 401, 403, 404, 408, 422, 429, 500, 502, 503, 504}

Retryable(error) == error \in {"rate_limited", "timeout", "unavailable", "transport"}

ShouldRetry(error) == Retryable(error) /\ call.attempt < MaxAttempts

----------------------------------------------------------------------------
(* Steps of a turn. *)

Go(changed) == call' = changed /\ UNCHANGED <<adapter, system, version>>

End(outcome) == Go([call EXCEPT !.at = "idle", !.outcome = outcome])

(* Faulty variant: an error that is not retried is returned without a hook. *)
FailsQuietly(error) ==
  /\ IF ShouldRetry(error)
     THEN /\ requestHooks' = Append(requestHooks, "on_retry_scheduled")
          /\ Go([call EXCEPT !.at = "backoff"])
          /\ UNCHANGED ended
     ELSE /\ End(error)
          /\ ended' = [ended EXCEPT !.failed = @ + 1]
          /\ UNCHANGED requestHooks
  /\ UNCHANGED <<history, turns>>

(* The attempt fails, in execute_with_retry or in the loop of stream_turn. *)
Fails(error) ==
  /\ IF ShouldRetry(error)
     THEN /\ requestHooks' = Append(requestHooks, "on_retry_scheduled")
          /\ Go([call EXCEPT !.at = "backoff"])
          /\ UNCHANGED ended
     ELSE /\ requestHooks' = Append(requestHooks, "on_failure")
          /\ End(error)
          /\ ended' = [ended EXCEPT !.failed = @ + 1]
  /\ UNCHANGED <<history, turns>>

(* prepare_turn and build_request. *)
Begin ==
  /\ call.at = "idle" /\ turns < MaxTurns
  /\ turns' = turns + 1
  /\ requestHooks' = << >>
  /\ \/ \E outcome \in Refusal : End(outcome)
     \/ \E streams \in BOOLEAN :
          Go([Idle EXCEPT !.at = "calling", !.streams = streams, !.attempt = 1,
                          !.messages = system \o history \o <<User>>, !.fresh = <<User>>])
  /\ UNCHANGED <<history, ended>>

StartAttempt ==
  /\ call.at = "calling"
  /\ requestHooks' = Append(requestHooks, "on_attempt_start")
  /\ Go([call EXCEPT !.at = "resolving", !.since = version])
  /\ UNCHANGED <<history, turns, ended>>

(* Faulty variant: the key of an earlier attempt is kept. *)
ResolveOnce ==
  IF ~NeedsKey THEN {<< >>}
  ELSE IF call.key # << >> THEN {call.key} ELSE IF version % 2 = 1 THEN {<<version>>} ELSE {}

(* The key there is now, if one is needed: none to take if there is none. *)
Resolve ==
  IF ~NeedsKey THEN {<< >>} ELSE IF version % 2 = 1 THEN {<<version>>} ELSE {}

(* The adapter takes the credential, then writes the request. *)
Prepare ==
  /\ call.at = "resolving"
  /\ LET sendable == CanSend(Payload(call.messages, call.results))
     IN  \/ Resolve = {} /\ Fails("authentication")
         \/ Resolve # {} /\ ~sendable /\ Fails("unsendable")
         \/ /\ sendable
            /\ \E key \in Resolve :
                 Go([call EXCEPT !.at = "sending", !.key = key, !.fallback = FALSE])
            /\ UNCHANGED <<history, turns, requestHooks, ended>>

Send ==
  /\ call.at = "sending"
  /\ Go([call EXCEPT !.at = "waiting"])
  /\ UNCHANGED <<history, turns, requestHooks, ended>>

(* The server, or the way there, fails the request.                        *)
ServerFails ==
  /\ call.at = "waiting"
  /\ \/ \E status \in Status : Fails(ErrorOf(status))
     \/ \E error \in {"timeout", "transport"} : Fails(error)

(* An error that names max_completion_tokens: the request is sent again    *)
(* with that parameter, once.                                              *)
Fallback ==
  /\ call.at = "waiting" /\ ~call.fallback
  /\ Go([call EXCEPT !.at = "sending", !.fallback = TRUE])
  /\ UNCHANGED <<history, turns, requestHooks, ended>>

(* A success, which is an error again if the body has no response in it.   *)
ServerAnswers ==
  /\ call.at = "waiting"
  /\ \/ ~call.streams /\ Fails("transport")
     \/ /\ requestHooks' = Append(requestHooks, "on_success")
        /\ ended' = [ended EXCEPT !.ok = @ + 1]
        /\ Go([call EXCEPT !.at = "reading"])
        /\ UNCHANGED <<history, turns>>

(* Tool calls are run unless their rounds are used up. *)
Collect ==
  /\ call.at = "reading"
  /\ \E blank \in BOOLEAN, asks \in BOOLEAN :
       Go([call EXCEPT
         !.at = IF asks /\ call.rounds < MaxRounds THEN "tools" ELSE "appending",
         !.messages = Append(@, Reply(blank)), !.fresh = Append(@, Reply(blank))])
  /\ UNCHANGED <<history, turns, requestHooks, ended>>

(* A stream that opened may break, and is not retried. *)
StreamBreaks ==
  /\ call.at = "reading" /\ call.streams
  /\ End("broken")
  /\ UNCHANGED <<history, turns, requestHooks, ended>>

RunTools ==
  /\ call.at = "tools"
  /\ \/ /\ \E blank \in BOOLEAN :
             Go([call EXCEPT !.at = "calling", !.results = <<blank>>, !.rounds = @ + 1,
                             !.attempt = 1, !.key = << >>])
        /\ requestHooks' = << >>
     \/ End("tool_failed") /\ UNCHANGED requestHooks
  /\ UNCHANGED <<history, turns, ended>>

Wake ==
  /\ call.at = "backoff"
  /\ Go([call EXCEPT !.at = "calling", !.attempt = @ + 1])
  /\ UNCHANGED <<history, turns, requestHooks, ended>>

(* A turn is stored; if the caller gives up meanwhile it may have been, and *)
(* if the store fails a first part of it (SQLite writes message by message). *)
AppendMessages ==
  /\ call.at = "appending"
  /\ \/ history' = history \o call.fresh /\ End("complete")
     \/ /\ \E n \in 0 .. Len(call.fresh) : history' = history \o SubSeq(call.fresh, 1, n)
        /\ End("storage")
     \/ history' \in {history, history \o call.fresh} /\ End("dropped")
  /\ UNCHANGED <<turns, requestHooks, ended>>

Drop ==
  /\ \/ call.at \in {"waiting", "backoff", "tools"}
     \/ call.at = "reading" /\ call.streams
  /\ End("dropped")
  /\ ended' = IF call.at = "waiting" THEN [ended EXCEPT !.dropped = @ + 1] ELSE ended
  /\ UNCHANGED <<history, turns, requestHooks>>

(* Another thread sets, rotates or revokes the credential, or it expires:  *)
(* 1 to 2 leaves none, 1 to 3 is a rotation.                               *)
ChangeCredential ==
  /\ \E n \in {version + 1, version + 2} :
       /\ n % 2 = 1 \/ version % 2 = 1
       /\ n <= MaxChanges
       /\ version' = n
  /\ UNCHANGED <<adapter, system, history, turns, call, requestHooks, ended>>

ProviderNext ==
  \/ Begin \/ StartAttempt \/ Prepare \/ Send \/ ServerFails \/ Fallback \/ ServerAnswers
  \/ Collect \/ StreamBreaks \/ RunTools \/ Wake \/ AppendMessages \/ Drop
  \/ ChangeCredential

ProviderSpec == ProviderInit /\ [][ProviderNext]_providerVars

----------------------------------------------------------------------------
(* Nothing that earlier turns left in a session can keep a later turn from   *)
(* being sent: a request is refused before it leaves only for the blank      *)
(* system prompt of the session or a blank tool output of that very turn     *)
(* (prepare_turn refuses blank prompts, serde_api.rs:114 lets the assistant  *)
(* say nothing).                                                             *)
NeverStuck ==
  call.outcome = "unsendable" =>
    \/ \E i \in DOMAIN system : system[i].blank
    \/ \E i \in DOMAIN call.results : call.results[i]

(* A request never carries a credential that was replaced or revoked before  *)
(* its attempt began, however long the retries before it took.               *)
AuthFresh ==
  call.at \in {"sending", "waiting"} /\ NeedsKey =>
    /\ Len(call.key) = 1 /\ call.key[1] % 2 = 1
    /\ call.since <= call.key[1] /\ call.key[1] <= version

=============================================================================
