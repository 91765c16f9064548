---------------------------- MODULE SessionCalls ----------------------------
(***************************************************************************)
(* The calls of the MemoryBackend trait: what each does to the state of a  *)
(* session and what it answers, whatever the backend.                      *)
(*                                                                         *)
(* The arguments of a call are a function of the client that makes it: its *)
(* manifest, progress entry and checkpoint carry its own name, its feature *)
(* list is List[c] and the feature it marks is Target[c].                  *)
(***************************************************************************)
EXTENDS SessionState, FiniteSets

CONSTANTS
  Client,        \* callers, each with its own run id
  Feature,       \* feature ids
  List,          \* List[c]: the feature list client c writes
  Target,        \* Target[c]: the feature client c marks
  Ops,           \* Ops[c]: the operations client c may call
  InitialSession,\* what the backend holds at first
  MaxCalls       \* bound: calls of one client

Kind == {"is_initialized", "initialize", "load", "save_manifest", "append_progress",
         "replace_features", "update_pass", "checkpoint", "load_transcript",
         "append_transcript"}

Message == [from : Client, role : {"user", "assistant"}]

SessionType ==
  [manifest    : Client \cup {NoManifest},
   features    : Seq(FeatureRecord(Feature)),
   progress    : Seq(Client),
   checkpoints : Seq([run : Client, status : RunStatus]),
   transcript  : Seq(Message)]

ASSUME ClientAssumption ==
  /\ NoManifest \notin Client
  /\ List \in [Client -> Seq(FeatureRecord(Feature))]
  /\ Target \in [Client -> Feature]
  /\ Ops \in [Client -> SUBSET Kind]
  /\ InitialSession \in SessionType
  /\ MaxCalls \in Nat

----------------------------------------------------------------------------
(* What a call does. *)

Turn(c) == <<[from |-> c, role |-> "user"], [from |-> c, role |-> "assistant"]>>

Apply(c, kind, s) ==
  CASE kind = "initialize"        -> InitializeIfMissing(s, c, List[c], c,
                                       [run |-> c, status |-> "InProgress"])
    [] kind = "save_manifest"     -> SaveManifest(s, c)
    [] kind = "append_progress"   -> AppendProgress(s, c)
    [] kind = "replace_features"  -> ReplaceFeatures(s, List[c])
    [] kind = "update_pass"       -> UpdateFeaturePass(s, Target[c], TRUE)
    [] kind = "checkpoint"        -> RecordCheckpoint(s, [run |-> c, status |-> "Succeeded"])
    [] kind = "append_transcript" -> AppendTranscript(s, Turn(c))
    [] OTHER                      -> s

Refused(c, kind, s) == kind = "update_pass" /\ ~HasFeature(s, Target[c])

(* What a call answers; a load also returns part of the state. *)
Status(c, kind, s) ==
  CASE kind = "initialize"  -> IF IsInitialized(s) THEN "exists" ELSE "created"
    [] Refused(c, kind, s)  -> "not_found"
    [] kind = "is_initialized" /\ ~IsInitialized(s) -> "missing"
    [] OTHER                -> "ok"

Loaded(kind, s) ==
  CASE kind = "load"            -> [s EXCEPT !.transcript = << >>]
    [] kind = "load_transcript" -> [EmptySession EXCEPT !.transcript = s.transcript]
    [] OTHER                    -> EmptySession

Answer(c, kind, s) == [status |-> Status(c, kind, s), state |-> Loaded(kind, s)]

NoAnswer == [status |-> "none", state |-> EmptySession]
Failed   == [status |-> "error", state |-> EmptySession]

=============================================================================
