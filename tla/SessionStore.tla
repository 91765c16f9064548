---------------------------- MODULE SessionStore ----------------------------
(***************************************************************************)
(* What a MemoryBackend promises its callers: a call takes effect at one   *)
(* moment between its invocation and its answer, and a call that is not    *)
(* answered (an error, a dropped future, a dead process) takes effect at   *)
(* most once, or not at all.                                               *)
(*                                                                         *)
(* InMemoryMemoryBackend does this with one mutex around a map; FileStore, *)
(* SqliteStore and PostgresStore model the durable backends and are        *)
(* checked against this module.                                            *)
(***************************************************************************)
EXTENDS SessionCalls

VARIABLES
  session,   \* what the backend holds
  phase,     \* phase[c]: "idle", "called", "done"
  op,        \* op[c]: the operation of c's last call
  answer,    \* answer[c]: the answer to it
  calls,     \* calls[c]: the operations c called, in order
  acked      \* history: the <<client, operation>> answered with success

vars == <<session, phase, op, answer, calls, acked>>

Init ==
  /\ session = InitialSession
  /\ phase   = [c \in Client |-> "idle"]
  /\ op      = [c \in Client |-> "load"]
  /\ answer  = [c \in Client |-> NoAnswer]
  /\ calls   = [c \in Client |-> << >>]
  /\ acked   = {}

Call(c) ==
  /\ phase[c] = "idle"
  /\ Len(calls[c]) < MaxCalls
  /\ \E kind \in Ops[c] :
       /\ op' = [op EXCEPT ![c] = kind]
       /\ calls' = [calls EXCEPT ![c] = Append(@, kind)]
  /\ phase' = [phase EXCEPT ![c] = "called"]
  /\ answer' = [answer EXCEPT ![c] = NoAnswer]
  /\ UNCHANGED <<session, acked>>

TakeEffect(c) ==
  /\ phase[c] = "called"
  /\ session' = Apply(c, op[c], session)
  /\ answer' = [answer EXCEPT ![c] = Answer(c, op[c], session)]
  /\ phase' = [phase EXCEPT ![c] = "done"]
  /\ UNCHANGED <<op, calls, acked>>

Respond(c) ==
  /\ phase[c] = "done"
  /\ phase' = [phase EXCEPT ![c] = "idle"]
  /\ acked' = IF answer[c].status \in {"ok", "created"}
              THEN acked \cup {<<c, op[c]>>} ELSE acked
  /\ UNCHANGED <<session, op, answer, calls>>

(* The caller never learns whether the call took effect. *)
Fail(c) ==
  /\ phase[c] \in {"called", "done"}
  /\ \/ UNCHANGED session
     \/ phase[c] = "called" /\ session' = Apply(c, op[c], session)
  /\ phase' = [phase EXCEPT ![c] = "idle"]
  /\ answer' = [answer EXCEPT ![c] = Failed]
  /\ UNCHANGED <<op, calls, acked>>

Next == \E c \in Client : Call(c) \/ TakeEffect(c) \/ Respond(c) \/ Fail(c)

Spec == Init /\ [][Next]_vars

----------------------------------------------------------------------------
(* Properties. *)

(* What the variables may hold; a call has an answer exactly when it is done. *)
TypeOK ==
  /\ session \in SessionType
  /\ phase \in [Client -> {"idle", "called", "done"}]
  /\ op \in [Client -> Kind]
  /\ calls \in [Client -> Seq(Kind)]
  /\ acked \subseteq Client \X Kind
  /\ \A c \in Client :
       /\ Len(calls[c]) <= MaxCalls
       /\ phase[c] = "called" => answer[c].status = "none"
       /\ phase[c] = "done"   => answer[c].status \in {"ok", "created", "exists", "missing", "not_found"}

Called(kind) == \E c \in Client : \E k \in DOMAIN calls[c] : calls[c][k] = kind

(* "Returns true when it creates state for the first time, returns false     *)
(* when state already exists (no overwrite)": at most one caller is told     *)
(* that it created the session, and until somebody saves a manifest or       *)
(* replaces the list, manifest and feature ids remain that caller's.         *)
CreatedOnce ==
  \A c \in Client : <<c, "initialize">> \in acked =>
    /\ \A d \in Client : <<d, "initialize">> \in acked => d = c
    /\ ~Called("save_manifest") => session.manifest = c
    /\ ~Called("replace_features") =>
         /\ DOMAIN session.features = DOMAIN List[c]
         /\ \A i \in DOMAIN List[c] : session.features[i].id = List[c][i].id

(* The backends are durable: what a caller was told is stored stays stored,  *)
(* whatever other callers do, and whoever fails.                             *)
AcknowledgedKept ==
  \A c \in Client :
    /\ {<<c, "initialize">>, <<c, "save_manifest">>} \cap acked # {} => IsInitialized(session)
    /\ <<c, "append_progress">> \in acked => \E k \in DOMAIN session.progress : session.progress[k] = c
    /\ <<c, "checkpoint">> \in acked =>
         \E k \in DOMAIN session.checkpoints :
           session.checkpoints[k] = [run |-> c, status |-> "Succeeded"]
    /\ <<c, "append_transcript">> \in acked =>
         \E k \in DOMAIN session.transcript :
           k + 1 \in DOMAIN session.transcript /\ SubSeq(session.transcript, k, k + 1) = Turn(c)
    /\ /\ <<c, "update_pass">> \in acked
       /\ ~Called("replace_features")
       /\ IsInitialized(InitialSession) \/ InitialSession.features = << >>
       => \E i \in DOMAIN session.features :
            session.features[i] = [id |-> Target[c], passes |-> TRUE]

=============================================================================
