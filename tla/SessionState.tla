---------------------------- MODULE SessionState ----------------------------
(***************************************************************************)
(* The state fmemory keeps for one session, and the operations of the      *)
(* MemoryBackend trait as functions from a state to a state.  Every        *)
(* backend (in-memory, SQLite, PostgreSQL, filesystem) stores this state;  *)
(* the modules that EXTEND this one say how atomically.                    *)
(*                                                                         *)
(* Sessions are independent: every operation takes a session id and        *)
(* touches that session alone, so one session is enough.                   *)
(***************************************************************************)
EXTENDS Integers, Sequences

CONSTANT
  NoManifest    \* the value of the manifest of a session not yet initialized

(***************************************************************************)
(* A manifest is identified with the run that wrote it, a feature is       *)
(* reduced to its id and its `passes` flag, a checkpoint to its run and    *)
(* its status; texts and timestamps are abstracted.                        *)
(***************************************************************************)
FeatureRecord(Id) == [id : Id, passes : BOOLEAN]

RunStatus == {"InProgress", "Succeeded", "Failed"}

EmptySession ==
  [manifest    |-> NoManifest,
   features    |-> << >>,
   progress    |-> << >>,
   checkpoints |-> << >>,
   transcript  |-> << >>]

----------------------------------------------------------------------------

IsInitialized(s) == s.manifest # NoManifest

(* Faulty variant: initialization does not look for an existing manifest. *)
InitializeAlways(s, manifest, features, entry, checkpoint) ==
  [s EXCEPT !.manifest    = manifest,
            !.features    = features,
            !.progress    = Append(@, entry),
            !.checkpoints = Append(@, checkpoint)]

(* The first initialization writes everything; a later one changes nothing. *)
InitializeIfMissing(s, manifest, features, entry, checkpoint) ==
  IF IsInitialized(s) THEN s
  ELSE [s EXCEPT !.manifest    = manifest,
                 !.features    = features,
                 !.progress    = Append(@, entry),
                 !.checkpoints = Append(@, checkpoint)]

SaveManifest(s, manifest) == [s EXCEPT !.manifest = manifest]

AppendProgress(s, entry) == [s EXCEPT !.progress = Append(@, entry)]

RecordCheckpoint(s, checkpoint) ==
  [s EXCEPT !.checkpoints = Append(@, checkpoint)]

AppendTranscript(s, messages) == [s EXCEPT !.transcript = @ \o messages]

ReplaceFeatures(s, features) == [s EXCEPT !.features = features]

HasFeature(s, id) == \E i \in DOMAIN s.features : s.features[i].id = id

(* Faulty variant: the update does not look at the id. *)
UpdateEveryFeaturePass(s, id, passes) ==
  [s EXCEPT !.features = [i \in DOMAIN @ |-> [@[i] EXCEPT !.passes = passes]]]

(* Only the first record with this id is updated. *)
UpdateFeaturePass(s, id, passes) ==
  [s EXCEPT !.features =
     [i \in DOMAIN @ |->
        IF @[i].id = id /\ \A j \in 1 .. (i - 1) : @[j].id # id
        THEN [@[i] EXCEPT !.passes = passes]
        ELSE @[i]]]

(* The completion gate of the harness: an empty list is never complete. *)
AllRequiredPassed(features) ==
  /\ features # << >>
  /\ \A i \in DOMAIN features : features[i].passes

=============================================================================
