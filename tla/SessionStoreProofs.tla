-------------------------- MODULE SessionStoreProofs -------------------------
(***************************************************************************)
(* Proofs about the contract of MemoryBackend, for any number of clients,  *)
(* whatever they may call and however often, and any session at first.     *)
(*                                                                         *)
(* The properties speak of calls that were answered; the invariant speaks  *)
(* of calls that took effect and whose caller was, or is about to be, told *)
(* (Told).  What a call writes is kept by every later call (ApplyKeeps),   *)
(* except for the two things a caller may replace: the manifest and the    *)
(* feature list.                                                           *)
(***************************************************************************)
EXTENDS SessionStore, SequenceTheorems, WellFoundedInduction, TLAPS

Success == {"ok", "created"}

(* Client c was told, or is about to be, that its call of this kind succeeded. *)
Told(c, kind) ==
  \/ <<c, kind>> \in acked
  \/ phase[c] = "done" /\ op[c] = kind /\ answer[c].status \in Success

(* A call under way is among the calls of its client; everybody has an answer. *)
CallInv ==
  /\ DOMAIN answer = Client
  /\ \A c \in Client : phase[c] # "idle" =>
       Len(calls[c]) > 0 /\ calls[c][Len(calls[c])] = op[c]

(* The feature list is only replaced by calls that say so. *)
StartsWhole == IsInitialized(InitialSession) \/ InitialSession.features = << >>

ListInv ==
  /\ IsInitialized(InitialSession) => IsInitialized(session)
  /\ ~Called("replace_features") /\ StartsWhole =>
       IsInitialized(session) \/ session.features = << >>

-----------------------------------------------------------------------------
(* What one client wrote, as a property of a session. *)

HasIds(s, c) ==
  /\ DOMAIN s.features = DOMAIN List[c]
  /\ \A i \in DOMAIN List[c] : s.features[i].id = List[c][i].id

HasEntry(s, c) == \E k \in DOMAIN s.progress : s.progress[k] = c

HasCheckpoint(s, c) ==
  \E k \in DOMAIN s.checkpoints : s.checkpoints[k] = [run |-> c, status |-> "Succeeded"]

HasTurn(s, c) ==
  \E k \in DOMAIN s.transcript :
    k + 1 \in DOMAIN s.transcript /\ SubSeq(s.transcript, k, k + 1) = Turn(c)

HasMark(s, c) ==
  \E i \in DOMAIN s.features : s.features[i] = [id |-> Target[c], passes |-> TRUE]

CreatedInv ==
  \A c \in Client : Told(c, "initialize") =>
    /\ \A d \in Client : Told(d, "initialize") => d = c
    /\ ~Called("save_manifest") => session.manifest = c
    /\ ~Called("replace_features") => HasIds(session, c)

KeptInv ==
  \A c \in Client :
    /\ Told(c, "initialize") => IsInitialized(session)
    /\ Told(c, "save_manifest") => IsInitialized(session)
    /\ Told(c, "append_progress") => HasEntry(session, c)
    /\ Told(c, "checkpoint") => HasCheckpoint(session, c)
    /\ Told(c, "append_transcript") => HasTurn(session, c)
    /\ Told(c, "update_pass") /\ ~Called("replace_features") /\ StartsWhole =>
         HasMark(session, c)

StoreInv == TypeOK /\ CallInv /\ ListInv /\ CreatedInv /\ KeptInv

-----------------------------------------------------------------------------
(* Lemmas about the calls. *)

LEMMA AppendTyped ==
  ASSUME NEW S, NEW s \in Seq(S), NEW x \in S
  PROVE  /\ Append(s, x) \in Seq(S)
         /\ Len(Append(s, x)) = Len(s) + 1
         /\ DOMAIN Append(s, x) = 1 .. Len(s) + 1
         /\ Append(s, x)[Len(s) + 1] = x
         /\ \A k \in DOMAIN s : k \in DOMAIN Append(s, x) /\ Append(s, x)[k] = s[k]
OBVIOUS

(* A session has each of its parts. *)
LEMMA SessionParts ==
  ASSUME NEW s \in SessionType
  PROVE  /\ s.manifest \in Client \cup {NoManifest}
         /\ s.features \in Seq(FeatureRecord(Feature))
         /\ s.progress \in Seq(Client)
         /\ s.checkpoints \in Seq([run : Client, status : RunStatus])
         /\ s.transcript \in Seq(Message)
BY DEF SessionType

(* The two messages of a turn. *)
LEMMA TurnTyped ==
  ASSUME NEW c \in Client
  PROVE  /\ Turn(c) \in Seq(Message)
         /\ Len(Turn(c)) = 2
         /\ Turn(c)[1] = [from |-> c, role |-> "user"]
         /\ Turn(c)[2] = [from |-> c, role |-> "assistant"]
<1>1. [from |-> c, role |-> "user"] \in Message /\ [from |-> c, role |-> "assistant"] \in Message
  BY DEF Message
<1> QED  BY <1>1 DEF Turn

(* What each call does to a session. *)
LEMMA Applied ==
  ASSUME NEW c \in Client, NEW s \in SessionType
  PROVE  /\ Apply(c, "initialize", s) =
              InitializeIfMissing(s, c, List[c], c, [run |-> c, status |-> "InProgress"])
         /\ Apply(c, "save_manifest", s) = [s EXCEPT !.manifest = c]
         /\ Apply(c, "append_progress", s) = [s EXCEPT !.progress = Append(@, c)]
         /\ Apply(c, "replace_features", s) = [s EXCEPT !.features = List[c]]
         /\ Apply(c, "update_pass", s) = UpdateFeaturePass(s, Target[c], TRUE)
         /\ Apply(c, "checkpoint", s) =
              [s EXCEPT !.checkpoints = Append(@, [run |-> c, status |-> "Succeeded"])]
         /\ Apply(c, "append_transcript", s) = [s EXCEPT !.transcript = @ \o Turn(c)]
         /\ \A kind \in {"is_initialized", "load", "load_transcript"} : Apply(c, kind, s) = s
BY DEF Apply, SaveManifest, AppendProgress, ReplaceFeatures, RecordCheckpoint, AppendTranscript

(* Marking a feature changes no id, and keeps the marks there are. *)
LEMMA MarkFacts ==
  ASSUME NEW s \in SessionType, NEW f \in Feature
  PROVE  /\ UpdateFeaturePass(s, f, TRUE).features \in Seq(FeatureRecord(Feature))
         /\ UpdateFeaturePass(s, f, TRUE) =
              [s EXCEPT !.features = UpdateFeaturePass(s, f, TRUE).features]
         /\ DOMAIN UpdateFeaturePass(s, f, TRUE).features = DOMAIN s.features
         /\ \A i \in DOMAIN s.features :
              /\ UpdateFeaturePass(s, f, TRUE).features[i].id = s.features[i].id
              /\ s.features[i].passes => UpdateFeaturePass(s, f, TRUE).features[i].passes
              /\ s.features[i].id = f /\ (\A j \in 1 .. i - 1 : s.features[j].id # f) =>
                   UpdateFeaturePass(s, f, TRUE).features[i].passes
<1> DEFINE fs == s.features
           New(i) == IF fs[i].id = f /\ \A j \in 1 .. (i - 1) : fs[j].id # f
                     THEN [fs[i] EXCEPT !.passes = TRUE] ELSE fs[i]
           gs == [i \in DOMAIN fs |-> New(i)]
<1>1. fs \in Seq(FeatureRecord(Feature))  BY SessionParts
<1>2. \A i \in DOMAIN fs : fs[i] \in FeatureRecord(Feature)  BY <1>1
<1>3. \A i \in DOMAIN fs : New(i) \in FeatureRecord(Feature)
  BY <1>2 DEF FeatureRecord
<1>4. UpdateFeaturePass(s, f, TRUE) = [s EXCEPT !.features = gs]
  BY DEF UpdateFeaturePass
<1>5. UpdateFeaturePass(s, f, TRUE).features = gs
  BY <1>4 DEF SessionType
<1>6. DOMAIN fs = 1 .. Len(fs) /\ Len(fs) \in Nat  BY <1>1
<1>7. gs \in Seq(FeatureRecord(Feature))
  <2>1. gs \in [1 .. Len(fs) -> FeatureRecord(Feature)]  BY <1>3, <1>6
  <2> QED  BY <2>1, <1>6, SeqDef
<1>8. \A i \in DOMAIN fs :
        /\ gs[i].id = fs[i].id
        /\ fs[i].passes => gs[i].passes
        /\ fs[i].id = f /\ (\A j \in 1 .. i - 1 : fs[j].id # f) => gs[i].passes
  BY <1>2 DEF FeatureRecord
<1> QED  BY <1>4, <1>5, <1>7, <1>8

(* A part of a session may be replaced. *)
LEMMA PartReplaced ==
  ASSUME NEW s \in SessionType
  PROVE  /\ \A v \in Client \cup {NoManifest} : [s EXCEPT !.manifest = v] \in SessionType
         /\ \A v \in Seq(FeatureRecord(Feature)) : [s EXCEPT !.features = v] \in SessionType
         /\ \A v \in Seq(Client) : [s EXCEPT !.progress = v] \in SessionType
         /\ \A v \in Seq([run : Client, status : RunStatus]) :
              [s EXCEPT !.checkpoints = v] \in SessionType
         /\ \A v \in Seq(Message) : [s EXCEPT !.transcript = v] \in SessionType
BY DEF SessionType

(* A session stays a session, whatever is called. *)
LEMMA ApplyTyped ==
  ASSUME NEW c \in Client, NEW kind \in Kind, NEW s \in SessionType
  PROVE  Apply(c, kind, s) \in SessionType
<1> USE ClientAssumption
<1>1. List[c] \in Seq(FeatureRecord(Feature)) /\ Target[c] \in Feature  OBVIOUS
<1>2. /\ [run |-> c, status |-> "InProgress"] \in [run : Client, status : RunStatus]
      /\ [run |-> c, status |-> "Succeeded"] \in [run : Client, status : RunStatus]
  BY DEF RunStatus
<1>3. /\ Append(s.progress, c) \in Seq(Client)
      /\ Append(s.checkpoints, [run |-> c, status |-> "InProgress"])
           \in Seq([run : Client, status : RunStatus])
      /\ Append(s.checkpoints, [run |-> c, status |-> "Succeeded"])
           \in Seq([run : Client, status : RunStatus])
  BY <1>2, SessionParts, AppendTyped
<1>4. s.transcript \o Turn(c) \in Seq(Message)
  <2>1. s.transcript \in Seq(Message) /\ Turn(c) \in Seq(Message)  BY SessionParts, TurnTyped
  <2> QED  BY <2>1
<1>5. CASE kind = "initialize"
  <2> DEFINE u == [run |-> c, status |-> "InProgress"]
             s1 == [s EXCEPT !.manifest = c]
             s2 == [s1 EXCEPT !.features = List[c]]
             s3 == [s2 EXCEPT !.progress = Append(s.progress, c)]
             s4 == [s3 EXCEPT !.checkpoints = Append(s.checkpoints, u)]
  <2>1. s1 \in SessionType  BY PartReplaced
  <2>2. s2 \in SessionType  BY <2>1, <1>1, PartReplaced
  <2>3. s3 \in SessionType  BY <2>2, <1>3, PartReplaced
  <2>4. s4 \in SessionType  BY <2>3, <1>3, PartReplaced
  <2>5. InitializeIfMissing(s, c, List[c], c, u) = IF IsInitialized(s) THEN s ELSE s4
    BY DEF InitializeIfMissing, SessionType
  <2>6. InitializeIfMissing(s, c, List[c], c, u) \in SessionType  BY <2>4, <2>5
  <2> QED  BY <1>5, <2>6, Applied
<1>6. CASE kind = "save_manifest"
  <2>1. [s EXCEPT !.manifest = c] \in SessionType  BY PartReplaced
  <2> QED  BY <1>6, <2>1, Applied
<1>7. CASE kind = "append_progress"
  <2>1. [s EXCEPT !.progress = Append(s.progress, c)] \in SessionType  BY <1>3, PartReplaced
  <2> QED  BY <1>7, <2>1, Applied
<1>8. CASE kind = "replace_features"
  <2>1. [s EXCEPT !.features = List[c]] \in SessionType  BY <1>1, PartReplaced
  <2> QED  BY <1>8, <2>1, Applied
<1>9. CASE kind = "update_pass"
  <2>1. PICK f \in Feature : f = Target[c]  BY <1>1
  <2>2. UpdateFeaturePass(s, f, TRUE) \in SessionType
    <3>1. UpdateFeaturePass(s, f, TRUE).features \in Seq(FeatureRecord(Feature))  BY MarkFacts
    <3>2. UpdateFeaturePass(s, f, TRUE) = [s EXCEPT !.features = UpdateFeaturePass(s, f, TRUE).features]
      BY MarkFacts
    <3> QED  BY <3>1, <3>2, PartReplaced
  <2> QED  BY <1>9, <2>1, <2>2, Applied
<1>10. CASE kind = "checkpoint"
  <2>1. [s EXCEPT !.checkpoints = Append(s.checkpoints, [run |-> c, status |-> "Succeeded"])]
          \in SessionType
    BY <1>3, PartReplaced
  <2> QED  BY <1>10, <2>1, Applied
<1>11. CASE kind = "append_transcript"
  <2>1. [s EXCEPT !.transcript = s.transcript \o Turn(c)] \in SessionType  BY <1>4, PartReplaced
  <2> QED  BY <1>11, <2>1, Applied
<1>12. CASE kind \in {"is_initialized", "load", "load_transcript"}
  <2>1. Apply(c, kind, s) = s  BY <1>12 DEF Apply
  <2> QED  BY <2>1
<1> QED  BY <1>5, <1>6, <1>7, <1>8, <1>9, <1>10, <1>11, <1>12 DEF Kind

(* Two elements that follow one another, as a part of a sequence. *)
LEMMA Pair ==
  ASSUME NEW S, NEW s \in Seq(S), NEW k \in DOMAIN s, k + 1 \in DOMAIN s
  PROVE  /\ SubSeq(s, k, k + 1) \in Seq(S)
         /\ Len(SubSeq(s, k, k + 1)) = 2
         /\ SubSeq(s, k, k + 1)[1] = s[k]
         /\ SubSeq(s, k, k + 1)[2] = s[k + 1]
OBVIOUS

LEMMA SamePair ==
  ASSUME NEW S, NEW s \in Seq(S), NEW t \in Seq(S), Len(s) = 2, Len(t) = 2,
         s[1] = t[1], s[2] = t[2]
  PROVE  s = t
<1>1. DOMAIN s = 1 .. 2 /\ DOMAIN t = 1 .. 2  OBVIOUS
<1>2. \A i \in 1 .. 2 : s[i] = t[i]  OBVIOUS
<1> QED  BY <1>1, <1>2, SeqEqual

(* A turn is in a transcript if its two messages follow one another there. *)
LEMMA TurnIn ==
  ASSUME NEW s \in SessionType, NEW c \in Client
  PROVE  HasTurn(s, c) <=>
           \E k \in DOMAIN s.transcript :
             /\ k + 1 \in DOMAIN s.transcript
             /\ s.transcript[k] = [from |-> c, role |-> "user"]
             /\ s.transcript[k + 1] = [from |-> c, role |-> "assistant"]
<1>1. s.transcript \in Seq(Message)  BY SessionParts
<1>2. ASSUME NEW k \in DOMAIN s.transcript, k + 1 \in DOMAIN s.transcript
      PROVE  SubSeq(s.transcript, k, k + 1) = Turn(c) <=>
                /\ s.transcript[k] = [from |-> c, role |-> "user"]
                /\ s.transcript[k + 1] = [from |-> c, role |-> "assistant"]
  <2> DEFINE p == SubSeq(s.transcript, k, k + 1)
  <2>1. p \in Seq(Message) /\ Len(p) = 2 /\ p[1] = s.transcript[k] /\ p[2] = s.transcript[k + 1]
    BY <1>1, <1>2, Pair
  <2>2. Turn(c) \in Seq(Message) /\ Len(Turn(c)) = 2  BY TurnTyped
  <2>3. /\ Turn(c)[1] = [from |-> c, role |-> "user"]
        /\ Turn(c)[2] = [from |-> c, role |-> "assistant"]
    BY TurnTyped
  <2> HIDE DEF p
  <2>4. p = Turn(c) => p[1] = Turn(c)[1] /\ p[2] = Turn(c)[2]  OBVIOUS
  <2>5. p[1] = Turn(c)[1] /\ p[2] = Turn(c)[2] => p = Turn(c)  BY <2>1, <2>2, SamePair
  <2>6. p = Turn(c) <=> s.transcript[k] = Turn(c)[1] /\ s.transcript[k + 1] = Turn(c)[2]
    BY <2>1, <2>4, <2>5
  <2> QED  BY <2>3, <2>6 DEF p
<1> QED  BY <1>2 DEF HasTurn

-----------------------------------------------------------------------------
(* What a call writes is kept. *)

(* The logs only grow, and a manifest may be replaced but not removed. *)
LEMMA ApplyGrows ==
  ASSUME NEW c \in Client, NEW kind \in Kind, NEW s \in SessionType
  PROVE  LET t == Apply(c, kind, s) IN
         /\ IsInitialized(s) => IsInitialized(t)
         /\ \A k \in DOMAIN s.progress :
              k \in DOMAIN t.progress /\ t.progress[k] = s.progress[k]
         /\ \A k \in DOMAIN s.checkpoints :
              k \in DOMAIN t.checkpoints /\ t.checkpoints[k] = s.checkpoints[k]
         /\ \A k \in DOMAIN s.transcript :
              k \in DOMAIN t.transcript /\ t.transcript[k] = s.transcript[k]
<1> USE ClientAssumption
<1> DEFINE t == Apply(c, kind, s)
<1>1. /\ s.progress \in Seq(Client)
      /\ s.checkpoints \in Seq([run : Client, status : RunStatus])
      /\ s.transcript \in Seq(Message)
  BY SessionParts
<1>2. /\ [run |-> c, status |-> "InProgress"] \in [run : Client, status : RunStatus]
      /\ [run |-> c, status |-> "Succeeded"] \in [run : Client, status : RunStatus]
  BY DEF RunStatus
<1>3. /\ \A k \in DOMAIN s.progress :
           /\ k \in DOMAIN Append(s.progress, c)
           /\ Append(s.progress, c)[k] = s.progress[k]
      /\ \A u \in [run : Client, status : RunStatus] : \A k \in DOMAIN s.checkpoints :
           /\ k \in DOMAIN Append(s.checkpoints, u)
           /\ Append(s.checkpoints, u)[k] = s.checkpoints[k]
      /\ \A k \in DOMAIN s.transcript :
           /\ k \in DOMAIN (s.transcript \o Turn(c))
           /\ (s.transcript \o Turn(c))[k] = s.transcript[k]
  <2>1. Turn(c) \in Seq(Message)  BY TurnTyped
  <2>2. \A k \in DOMAIN s.transcript :
           /\ k \in DOMAIN (s.transcript \o Turn(c))
           /\ (s.transcript \o Turn(c))[k] = s.transcript[k]
    BY <1>1, <2>1
  <2>3. \A k \in DOMAIN s.progress :
           /\ k \in DOMAIN Append(s.progress, c)
           /\ Append(s.progress, c)[k] = s.progress[k]
    BY <1>1, AppendTyped
  <2>4. \A u \in [run : Client, status : RunStatus] : \A k \in DOMAIN s.checkpoints :
           /\ k \in DOMAIN Append(s.checkpoints, u)
           /\ Append(s.checkpoints, u)[k] = s.checkpoints[k]
    BY <1>1, AppendTyped
  <2> QED  BY <2>2, <2>3, <2>4
<1> HIDE DEF t
<1>4. \/ t = s
      \/ /\ ~IsInitialized(s) /\ IsInitialized(t)
         /\ t.progress = Append(s.progress, c)
         /\ t.checkpoints = Append(s.checkpoints, [run |-> c, status |-> "InProgress"])
         /\ t.transcript = s.transcript
      \/ /\ IsInitialized(t)
         /\ t.progress = s.progress
         /\ t.checkpoints = s.checkpoints /\ t.transcript = s.transcript
      \/ /\ t.manifest = s.manifest
         /\ t.progress = Append(s.progress, c)
         /\ t.checkpoints = s.checkpoints /\ t.transcript = s.transcript
      \/ /\ t.manifest = s.manifest
         /\ t.progress = s.progress
         /\ t.checkpoints = s.checkpoints /\ t.transcript = s.transcript
      \/ /\ t.manifest = s.manifest
         /\ t.progress = s.progress
         /\ t.checkpoints = Append(s.checkpoints, [run |-> c, status |-> "Succeeded"])
         /\ t.transcript = s.transcript
      \/ /\ t.manifest = s.manifest
         /\ t.progress = s.progress
         /\ t.checkpoints = s.checkpoints
         /\ t.transcript = s.transcript \o Turn(c)
  <2>1. CASE kind = "initialize"
    <3>1. t = InitializeIfMissing(s, c, List[c], c, [run |-> c, status |-> "InProgress"])
      BY <2>1, Applied DEF t
    <3> QED  BY <3>1 DEF InitializeIfMissing, IsInitialized, SessionType
  <2>2. CASE kind = "save_manifest"
    <3>1. t = [s EXCEPT !.manifest = c]
      BY <2>2, Applied DEF t
    <3> QED  BY <3>1 DEF IsInitialized, SessionType
  <2>3. CASE kind = "append_progress"
    <3>1. t = [s EXCEPT !.progress = Append(s.progress, c)]
      BY <2>3, Applied DEF t
    <3> QED  BY <3>1 DEF SessionType
  <2>4. CASE kind = "replace_features"
    <3>1. t = [s EXCEPT !.features = List[c]]
      BY <2>4, Applied DEF t
    <3> QED  BY <3>1 DEF SessionType
  <2>5. CASE kind = "update_pass"
    <3>1. PICK f \in Feature : f = Target[c]  OBVIOUS
    <3>2. t = UpdateFeaturePass(s, f, TRUE)  BY <2>5, <3>1, Applied DEF t
    <3>3. UpdateFeaturePass(s, f, TRUE) = [s EXCEPT !.features = UpdateFeaturePass(s, f, TRUE).features]
      BY MarkFacts
    <3> QED  BY <3>2, <3>3 DEF SessionType
  <2>6. CASE kind = "checkpoint"
    <3>1. t = [s EXCEPT !.checkpoints = Append(s.checkpoints, [run |-> c, status |-> "Succeeded"])]
      BY <2>6, Applied DEF t
    <3> QED  BY <3>1 DEF SessionType
  <2>7. CASE kind = "append_transcript"
    <3>1. t = [s EXCEPT !.transcript = s.transcript \o Turn(c)]
      BY <2>7, Applied DEF t
    <3> QED  BY <3>1 DEF SessionType
  <2>8. CASE kind \in {"is_initialized", "load", "load_transcript"}  BY <2>8 DEF Apply, t
  <2> QED  BY <2>1, <2>2, <2>3, <2>4, <2>5, <2>6, <2>7, <2>8 DEF Kind
<1>5. IsInitialized(s) => IsInitialized(t)  BY <1>4 DEF IsInitialized
<1>6. \A k \in DOMAIN s.progress : k \in DOMAIN t.progress /\ t.progress[k] = s.progress[k]
  <2>1. t.progress = s.progress \/ t.progress = Append(s.progress, c)  BY <1>4
  <2>2. CASE t.progress = s.progress  BY <2>2
  <2>3. CASE t.progress = Append(s.progress, c)  BY <2>3, <1>3
  <2> QED  BY <2>1, <2>2, <2>3
<1>7. \A k \in DOMAIN s.checkpoints :
        k \in DOMAIN t.checkpoints /\ t.checkpoints[k] = s.checkpoints[k]
  <2>1. \/ t.checkpoints = s.checkpoints
        \/ \E u \in [run : Client, status : RunStatus] : t.checkpoints = Append(s.checkpoints, u)
    BY <1>2, <1>4
  <2>2. CASE t.checkpoints = s.checkpoints  BY <2>2
  <2>3. ASSUME NEW u \in [run : Client, status : RunStatus], t.checkpoints = Append(s.checkpoints, u)
        PROVE  \A k \in DOMAIN s.checkpoints :
                 k \in DOMAIN t.checkpoints /\ t.checkpoints[k] = s.checkpoints[k]
    <3>1. \A k \in DOMAIN s.checkpoints :
            /\ k \in DOMAIN Append(s.checkpoints, u)
            /\ Append(s.checkpoints, u)[k] = s.checkpoints[k]
      BY <1>3
    <3> QED  BY <2>3, <3>1
  <2> QED  BY <2>1, <2>2, <2>3
<1>8. \A k \in DOMAIN s.transcript :
        k \in DOMAIN t.transcript /\ t.transcript[k] = s.transcript[k]
  BY <1>3, <1>4
<1> QED  BY <1>5, <1>6, <1>7, <1>8 DEF t

(* What a client wrote is not lost to a later call, unless that call says so. *)
LEMMA ApplyKeeps ==
  ASSUME NEW c \in Client, NEW kind \in Kind, NEW s \in SessionType, NEW d \in Client
  PROVE  LET t == Apply(c, kind, s) IN
         /\ HasEntry(s, d) => HasEntry(t, d)
         /\ HasCheckpoint(s, d) => HasCheckpoint(t, d)
         /\ HasTurn(s, d) => HasTurn(t, d)
         /\ IsInitialized(s) /\ kind # "save_manifest" => t.manifest = s.manifest
         /\ IsInitialized(s) /\ kind # "replace_features" =>
              /\ HasIds(s, d) => HasIds(t, d)
              /\ HasMark(s, d) => HasMark(t, d)
         /\ s.features = << >> /\ kind # "replace_features" =>
              IsInitialized(t) \/ t.features = << >>
<1> USE ClientAssumption
<1> DEFINE t == Apply(c, kind, s)
<1>t. t \in SessionType  BY ApplyTyped
<1>1. /\ \A k \in DOMAIN s.progress : k \in DOMAIN t.progress /\ t.progress[k] = s.progress[k]
      /\ \A k \in DOMAIN s.checkpoints :
           k \in DOMAIN t.checkpoints /\ t.checkpoints[k] = s.checkpoints[k]
      /\ \A k \in DOMAIN s.transcript :
           k \in DOMAIN t.transcript /\ t.transcript[k] = s.transcript[k]
  BY ApplyGrows
<1>2. \/ IsInitialized(s) /\ kind = "initialize" /\ t = s
      \/ kind = "initialize" /\ ~IsInitialized(s) /\ IsInitialized(t)
      \/ kind = "save_manifest" /\ t.features = s.features
      \/ kind = "replace_features" /\ t.manifest = s.manifest
      \/ kind = "update_pass" /\ t = UpdateFeaturePass(s, Target[c], TRUE)
      \/ t.manifest = s.manifest /\ t.features = s.features
  <2>1. CASE kind = "initialize"
    <3>1. t = InitializeIfMissing(s, c, List[c], c, [run |-> c, status |-> "InProgress"])
      BY <2>1, Applied
    <3> QED  BY <2>1, <3>1 DEF InitializeIfMissing, IsInitialized, SessionType
  <2>2. CASE kind = "save_manifest"
    <3>1. t = [s EXCEPT !.manifest = c]  BY <2>2, Applied
    <3> QED  BY <2>2, <3>1 DEF SessionType
  <2>3. CASE kind = "append_progress"
    <3>1. t = [s EXCEPT !.progress = Append(s.progress, c)]  BY <2>3, Applied
    <3> QED  BY <3>1 DEF SessionType
  <2>4. CASE kind = "replace_features"
    <3>1. t = [s EXCEPT !.features = List[c]]  BY <2>4, Applied
    <3> QED  BY <2>4, <3>1 DEF SessionType
  <2>5. CASE kind = "update_pass"  BY <2>5, Applied
  <2>6. CASE kind = "checkpoint"
    <3>1. t = [s EXCEPT !.checkpoints = Append(s.checkpoints, [run |-> c, status |-> "Succeeded"])]
      BY <2>6, Applied
    <3> QED  BY <3>1 DEF SessionType
  <2>7. CASE kind = "append_transcript"
    <3>1. t = [s EXCEPT !.transcript = s.transcript \o Turn(c)]  BY <2>7, Applied
    <3> QED  BY <3>1 DEF SessionType
  <2>8. CASE kind \in {"is_initialized", "load", "load_transcript"}
    <3>1. t = s  BY <2>8 DEF Apply
    <3> QED  BY <3>1
  <2> QED  BY <2>1, <2>2, <2>3, <2>4, <2>5, <2>6, <2>7, <2>8 DEF Kind
<1>3. kind = "update_pass" =>
        /\ t.manifest = s.manifest
        /\ t.features \in Seq(FeatureRecord(Feature))
        /\ DOMAIN t.features = DOMAIN s.features
        /\ \A i \in DOMAIN s.features :
             t.features[i].id = s.features[i].id /\ (s.features[i].passes => t.features[i].passes)
  <2> SUFFICES ASSUME kind = "update_pass"
      PROVE  /\ t.manifest = s.manifest
             /\ t.features \in Seq(FeatureRecord(Feature))
             /\ DOMAIN t.features = DOMAIN s.features
             /\ \A i \in DOMAIN s.features :
                  t.features[i].id = s.features[i].id /\ (s.features[i].passes => t.features[i].passes)
    OBVIOUS
  <2>1. PICK f \in Feature : f = Target[c]  OBVIOUS
  <2>2. t = UpdateFeaturePass(s, f, TRUE)  BY <2>1, Applied
  <2> DEFINE u == UpdateFeaturePass(s, f, TRUE)
  <2>3. /\ u.features \in Seq(FeatureRecord(Feature))
        /\ u = [s EXCEPT !.features = u.features]
        /\ DOMAIN u.features = DOMAIN s.features
        /\ \A i \in DOMAIN s.features :
             /\ u.features[i].id = s.features[i].id
             /\ s.features[i].passes => u.features[i].passes
             /\ s.features[i].id = f /\ (\A j \in 1 .. i - 1 : s.features[j].id # f) =>
                  u.features[i].passes
    BY MarkFacts
  <2> HIDE DEF u
  <2>4. u.manifest = s.manifest  BY <2>3 DEF SessionType
  <2>5. t = u  BY <2>2 DEF u
  <2> QED  BY <2>3, <2>4, <2>5
<1> HIDE DEF t
<1>4. HasEntry(s, d) => HasEntry(t, d)  BY <1>1 DEF HasEntry
<1>5. HasCheckpoint(s, d) => HasCheckpoint(t, d)  BY <1>1 DEF HasCheckpoint
<1>6. HasTurn(s, d) => HasTurn(t, d)
  <2>1. HasTurn(s, d) =>
          \E k \in DOMAIN t.transcript :
            /\ k + 1 \in DOMAIN t.transcript
            /\ t.transcript[k] = [from |-> d, role |-> "user"]
            /\ t.transcript[k + 1] = [from |-> d, role |-> "assistant"]
    BY <1>1, TurnIn
  <2> QED  BY <2>1, <1>t, TurnIn
<1>7. IsInitialized(s) /\ kind # "save_manifest" => t.manifest = s.manifest
  BY <1>2, <1>3
<1>8. IsInitialized(s) /\ kind # "replace_features" =>
        \/ t.features = s.features
        \/ /\ DOMAIN t.features = DOMAIN s.features /\ t.features \in Seq(FeatureRecord(Feature))
           /\ \A i \in DOMAIN s.features :
                t.features[i].id = s.features[i].id /\ (s.features[i].passes => t.features[i].passes)
  BY <1>2, <1>3
<1>9. IsInitialized(s) /\ kind # "replace_features" /\ HasIds(s, d) => HasIds(t, d)
  BY <1>8 DEF HasIds
<1>10. IsInitialized(s) /\ kind # "replace_features" /\ HasMark(s, d) => HasMark(t, d)
  <2> SUFFICES ASSUME IsInitialized(s) /\ kind # "replace_features", HasMark(s, d)
               PROVE  HasMark(t, d)
    OBVIOUS
  <2>1. PICK i \in DOMAIN s.features : s.features[i] = [id |-> Target[d], passes |-> TRUE]
    BY DEF HasMark
  <2>2. CASE t.features = s.features  BY <2>1, <2>2 DEF HasMark
  <2>3. CASE t.features # s.features
    <3>1. i \in DOMAIN t.features /\ t.features[i].id = Target[d] /\ t.features[i].passes
      BY <1>8, <2>1, <2>3
    <3>2. t.features[i] \in FeatureRecord(Feature)
      BY <1>8, <2>3, <3>1
    <3>3. t.features[i] = [id |-> Target[d], passes |-> TRUE]
      BY <3>1, <3>2 DEF FeatureRecord
    <3> QED  BY <3>1, <3>3 DEF HasMark
  <2> QED  BY <2>2, <2>3
<1>11. s.features = << >> /\ kind # "replace_features" => IsInitialized(t) \/ t.features = << >>
  <2>1. CASE kind = "update_pass" /\ s.features = << >>
    <3>1. DOMAIN t.features = {} /\ t.features \in Seq(FeatureRecord(Feature))
      BY <2>1, <1>3
    <3>2. \A q \in Seq(FeatureRecord(Feature)) : DOMAIN q = {} => q = << >>
      <4>1. \A q \in Seq(FeatureRecord(Feature)) : DOMAIN q = {} => Len(q) = 0  OBVIOUS
      <4> QED  BY <4>1, EmptySeq
    <3> QED  BY <3>1, <3>2
  <2>2. CASE kind # "update_pass"  BY <2>2, <1>2
  <2> QED  BY <2>1, <2>2
<1> QED  BY <1>4, <1>5, <1>6, <1>7, <1>9, <1>10, <1>11 DEF t

(* Where the two messages of a turn are in a transcript they are added to. *)
LEMMA TwoAdded ==
  ASSUME NEW S, NEW q \in Seq(S), NEW m \in Seq(S), Len(m) = 2
  PROVE  /\ Len(q) + 1 \in DOMAIN (q \o m) /\ Len(q) + 2 \in DOMAIN (q \o m)
         /\ (q \o m)[Len(q) + 1] = m[1] /\ (q \o m)[Len(q) + 2] = m[2]
         /\ Len(q) + 1 + 1 = Len(q) + 2
<1>1. /\ q \o m \in Seq(S)
      /\ Len(q \o m) = Len(q) + Len(m)
      /\ \A i \in 1 .. Len(q) + Len(m) :
           (q \o m)[i] = IF i <= Len(q) THEN q[i] ELSE m[i - Len(q)]
  BY ConcatProperties
<1>2. Len(q) \in Nat  OBVIOUS
<1>3. DOMAIN (q \o m) = 1 .. Len(q) + 2  BY <1>1, <1>2
<1>4. Len(q) + 1 \in 1 .. Len(q) + 2 /\ Len(q) + 2 \in 1 .. Len(q) + 2  BY <1>2
<1>5. (q \o m)[Len(q) + 1] = m[Len(q) + 1 - Len(q)]  BY <1>1, <1>2, <1>4
<1>6. (q \o m)[Len(q) + 2] = m[Len(q) + 2 - Len(q)]  BY <1>1, <1>2, <1>4
<1>7. Len(q) + 1 - Len(q) = 1 /\ Len(q) + 2 - Len(q) = 2 /\ Len(q) + 1 + 1 = Len(q) + 2
  BY <1>2
<1> QED  BY <1>3, <1>4, <1>5, <1>6, <1>7

(* A call that takes effect leaves what it writes. *)
LEMMA ApplyWrites ==
  ASSUME NEW c \in Client, NEW s \in SessionType
  PROVE  /\ IsInitialized(Apply(c, "initialize", s))
         /\ ~IsInitialized(s) =>
              /\ Apply(c, "initialize", s).manifest = c
              /\ HasIds(Apply(c, "initialize", s), c)
         /\ IsInitialized(Apply(c, "save_manifest", s))
         /\ HasEntry(Apply(c, "append_progress", s), c)
         /\ HasCheckpoint(Apply(c, "checkpoint", s), c)
         /\ HasTurn(Apply(c, "append_transcript", s), c)
         /\ HasFeature(s, Target[c]) => HasMark(Apply(c, "update_pass", s), c)
<1> USE ClientAssumption
<1>1. c # NoManifest  OBVIOUS
<1>2. /\ IsInitialized(Apply(c, "initialize", s))
      /\ ~IsInitialized(s) =>
           /\ Apply(c, "initialize", s).manifest = c
           /\ HasIds(Apply(c, "initialize", s), c)
  <2> DEFINE t == Apply(c, "initialize", s)
  <2>1. t = InitializeIfMissing(s, c, List[c], c, [run |-> c, status |-> "InProgress"])
    BY Applied
  <2> HIDE DEF t
  <2>2. IsInitialized(s) => t = s  BY <2>1 DEF InitializeIfMissing
  <2>3. ~IsInitialized(s) => t.manifest = c /\ t.features = List[c]
    BY <2>1 DEF InitializeIfMissing, SessionType
  <2>4. IsInitialized(t) /\ (~IsInitialized(s) => t.manifest = c /\ HasIds(t, c))
    BY <1>1, <2>2, <2>3 DEF IsInitialized, HasIds
  <2> QED  BY <2>4 DEF t
<1>3. IsInitialized(Apply(c, "save_manifest", s))
  <2>1. Apply(c, "save_manifest", s) = [s EXCEPT !.manifest = c]  BY Applied
  <2>2. Apply(c, "save_manifest", s).manifest = c  BY <2>1 DEF SessionType
  <2> QED  BY <1>1, <2>2 DEF IsInitialized
<1>4. HasEntry(Apply(c, "append_progress", s), c)
  <2> DEFINE t == Apply(c, "append_progress", s)
             p == Append(s.progress, c)
  <2>1. t = [s EXCEPT !.progress = Append(s.progress, c)]  BY Applied
  <2>2. t.progress = p  BY <2>1 DEF SessionType
  <2>3. Len(s.progress) + 1 \in DOMAIN p /\ p[Len(s.progress) + 1] = c
    BY SessionParts
  <2> HIDE DEF t, p
  <2>4. HasEntry(t, c)  BY <2>2, <2>3 DEF HasEntry
  <2> QED  BY <2>4 DEF t
<1>5. HasCheckpoint(Apply(c, "checkpoint", s), c)
  <2> DEFINE t == Apply(c, "checkpoint", s)
             u == [run |-> c, status |-> "Succeeded"]
             p == Append(s.checkpoints, u)
  <2>1. t = [s EXCEPT !.checkpoints = Append(s.checkpoints, u)]  BY Applied
  <2>2. t.checkpoints = p  BY <2>1 DEF SessionType
  <2>3. Len(s.checkpoints) + 1 \in DOMAIN p /\ p[Len(s.checkpoints) + 1] = u
    <3>1. u \in [run : Client, status : RunStatus]  BY DEF RunStatus
    <3> HIDE DEF u
    <3> QED  BY <3>1, SessionParts
  <2> HIDE DEF t, p
  <2>4. HasCheckpoint(t, c)  BY <2>2, <2>3 DEF HasCheckpoint
  <2> QED  BY <2>4 DEF t
<1>6. HasTurn(Apply(c, "append_transcript", s), c)
  <2> DEFINE t == Apply(c, "append_transcript", s)
             q == s.transcript
             m == Turn(c)
             p == q \o m
  <2>1. t = [s EXCEPT !.transcript = s.transcript \o Turn(c)]  BY Applied
  <2>2. t.transcript = p  BY <2>1 DEF SessionType
  <2>3. q \in Seq(Message) /\ m \in Seq(Message) /\ Len(m) = 2  BY SessionParts, TurnTyped
  <2>4. m[1] = [from |-> c, role |-> "user"] /\ m[2] = [from |-> c, role |-> "assistant"]
    BY TurnTyped
  <2> HIDE DEF t, q, m
  <2>5. /\ Len(q) + 1 \in DOMAIN p /\ Len(q) + 2 \in DOMAIN p
        /\ p[Len(q) + 1] = m[1] /\ p[Len(q) + 2] = m[2]
        /\ Len(q) + 1 + 1 = Len(q) + 2
    BY <2>3, TwoAdded
  <2> HIDE DEF p
  <2>6. \E k \in DOMAIN t.transcript :
          /\ k + 1 \in DOMAIN t.transcript
          /\ t.transcript[k] = [from |-> c, role |-> "user"]
          /\ t.transcript[k + 1] = [from |-> c, role |-> "assistant"]
    BY <2>2, <2>4, <2>5
  <2>7. t \in SessionType  BY ApplyTyped DEF t, Kind
  <2>8. HasTurn(t, c)  BY <2>6, <2>7, TurnIn
  <2> QED  BY <2>8 DEF t
<1>7. HasFeature(s, Target[c]) => HasMark(Apply(c, "update_pass", s), c)
  <2> SUFFICES ASSUME HasFeature(s, Target[c])
               PROVE  HasMark(Apply(c, "update_pass", s), c)
    OBVIOUS
  <2>1. PICK f \in Feature : f = Target[c]  OBVIOUS
  <2> DEFINE fs == s.features
             N == {i \in DOMAIN fs : fs[i].id = f}
             u == UpdateFeaturePass(s, f, TRUE)
  <2>2. fs \in Seq(FeatureRecord(Feature))  BY SessionParts
  <2>3. N \subseteq Nat /\ N # {}  BY <2>1, <2>2 DEF HasFeature
  <2>4. PICK i \in N : \A j \in N : ~(j < i)
    <3> DEFINE Less == {ss \in Nat \X Nat : ss[1] < ss[2]}
    <3>1. IsWellFoundedOn(Less, Nat)  BY NatLessThanWellFounded DEF OpToRel
    <3> HIDE DEF N, Less
    <3>2. \E x \in N : \A y \in N : ~(<<y, x>> \in Less)  BY <2>3, <3>1, WFMin
    <3> QED  BY <2>3, <3>2 DEF Less
  <2>5. \A j \in 1 .. i - 1 : fs[j].id # f
    <3>1. DOMAIN fs = 1 .. Len(fs) /\ Len(fs) \in Nat /\ i \in DOMAIN fs  BY <2>2
    <3>2. \A j \in 1 .. i - 1 : j \in DOMAIN fs /\ j < i  BY <3>1
    <3>3. \A j \in DOMAIN fs : j < i => fs[j].id # f  BY <2>4
    <3> QED  BY <3>2, <3>3
  <2>6. /\ u.features \in Seq(FeatureRecord(Feature))
        /\ u = [s EXCEPT !.features = u.features]
        /\ DOMAIN u.features = DOMAIN s.features
        /\ \A k \in DOMAIN s.features :
             /\ u.features[k].id = s.features[k].id
             /\ s.features[k].passes => u.features[k].passes
             /\ s.features[k].id = f /\ (\A j \in 1 .. k - 1 : s.features[j].id # f) =>
                  u.features[k].passes
    BY MarkFacts
  <2> HIDE DEF u
  <2>7. i \in DOMAIN u.features /\ u.features[i].id = f /\ u.features[i].passes
    BY <2>4, <2>5, <2>6
  <2>8. u.features[i] \in FeatureRecord(Feature)  BY <2>6, <2>7
  <2>9. u.features[i] = [id |-> Target[c], passes |-> TRUE]
    BY <2>1, <2>7, <2>8 DEF FeatureRecord
  <2>10. HasMark(u, c)  BY <2>7, <2>9 DEF HasMark
  <2>11. Apply(c, "update_pass", s) = u  BY <2>1, Applied DEF u
  <2> QED  BY <2>10, <2>11
<1> QED  BY <1>2, <1>3, <1>4, <1>5, <1>6, <1>7

-----------------------------------------------------------------------------
(* What a call answers. *)

Statuses == {"ok", "created", "exists", "missing", "not_found"}

LEMMA StatusFacts ==
  ASSUME NEW c \in Client, NEW kind \in Kind, NEW s \in SessionType
  PROVE  /\ Status(c, kind, s) \in Statuses
         /\ kind = "initialize" /\ Status(c, kind, s) \in Success => ~IsInitialized(s)
         /\ kind = "update_pass" /\ Status(c, kind, s) \in Success => HasFeature(s, Target[c])
<1>1. CASE kind = "initialize"  BY <1>1 DEF Status, Statuses, Success
<1>2. CASE kind # "initialize" /\ Refused(c, kind, s)
  BY <1>2 DEF Status, Statuses, Success
<1>3. CASE kind # "initialize" /\ ~Refused(c, kind, s)
  BY <1>3 DEF Status, Statuses, Success, Refused
<1> QED  BY <1>1, <1>2, <1>3

(* The type invariant and what is known of calls under way, action by action. *)
LEMMA TypeInit == Init => TypeOK /\ CallInv
<1> SUFFICES ASSUME Init PROVE TypeOK /\ CallInv  OBVIOUS
<1> USE ClientAssumption
<1>1. \A c \in Client : calls[c] = << >> /\ phase[c] = "idle"  BY DEF Init
<1>2. << >> \in Seq(Kind) /\ Len(<< >>) = 0  OBVIOUS
<1>3. calls \in [Client -> Seq(Kind)]  BY <1>2 DEF Init
<1> QED  BY <1>1, <1>2, <1>3 DEF Init, TypeOK, CallInv, Kind

LEMMA TypeStep ==
  TypeOK /\ CallInv /\ [Next]_vars => TypeOK' /\ CallInv'
<1> SUFFICES ASSUME TypeOK, CallInv, [Next]_vars PROVE TypeOK' /\ CallInv'  OBVIOUS
<1> USE ClientAssumption
<1>1. ASSUME NEW c \in Client, Call(c) PROVE TypeOK' /\ CallInv'
  <2>1. PICK kind \in Ops[c] :
          /\ op' = [op EXCEPT ![c] = kind]
          /\ calls' = [calls EXCEPT ![c] = Append(@, kind)]
    BY <1>1 DEF Call
  <2>2. kind \in Kind  OBVIOUS
  <2>3. PICK q \in Seq(Kind) : q = calls[c]  BY DEF TypeOK
  <2>4. Len(q) < MaxCalls  BY <1>1, <2>3 DEF Call
  <2>5. /\ Append(q, kind) \in Seq(Kind)
        /\ Len(Append(q, kind)) = Len(q) + 1
        /\ Append(q, kind)[Len(q) + 1] = kind
    BY <2>2, AppendTyped
  <2>6. Len(q) \in Nat  OBVIOUS
  <2>7. calls' \in [Client -> Seq(Kind)] /\ calls'[c] = Append(q, kind)
    BY <2>1, <2>3, <2>5 DEF TypeOK
  <2>8. \A d \in Client : d # c => calls'[d] = calls[d] /\ op'[d] = op[d] /\ phase'[d] = phase[d]
    BY <1>1, <2>1 DEF Call, TypeOK
  <2>9. /\ op' \in [Client -> Kind] /\ op'[c] = kind
        /\ phase' \in [Client -> {"idle", "called", "done"}] /\ phase'[c] = "called"
        /\ session' \in SessionType /\ acked' \subseteq Client \X Kind
    BY <1>1, <2>1, <2>2 DEF Call, TypeOK
  <2>10. /\ DOMAIN answer' = Client /\ answer'[c] = NoAnswer
         /\ \A d \in Client : d # c => answer'[d] = answer[d]
    BY <1>1 DEF Call, CallInv
  <2>11. \A d \in Client :
           /\ Len(calls'[d]) <= MaxCalls
           /\ phase'[d] = "called" => answer'[d].status = "none"
           /\ phase'[d] = "done"   => answer'[d].status \in Statuses
    <3> TAKE d \in Client
    <3>1. CASE d = c
      BY <3>1, <2>4, <2>5, <2>6, <2>7, <2>9, <2>10 DEF NoAnswer
    <3>2. CASE d # c  BY <3>2, <2>8, <2>10 DEF TypeOK, Statuses
    <3> QED  BY <3>1, <3>2
  <2>12. \A d \in Client : phase'[d] # "idle" =>
           Len(calls'[d]) > 0 /\ calls'[d][Len(calls'[d])] = op'[d]
    <3> TAKE d \in Client
    <3>1. CASE d = c  BY <3>1, <2>5, <2>6, <2>7, <2>9
    <3>2. CASE d # c  BY <3>2, <2>8 DEF CallInv
    <3> QED  BY <3>1, <3>2
  <2> QED  BY <2>7, <2>9, <2>10, <2>11, <2>12 DEF TypeOK, CallInv, Statuses
<1>2. ASSUME NEW c \in Client, TakeEffect(c) PROVE TypeOK' /\ CallInv'
  <2>1. PICK s \in SessionType : s = session  BY DEF TypeOK
  <2>2. PICK kind \in Kind : kind = op[c]  BY DEF TypeOK
  <2>3. session' \in SessionType  BY <1>2, <2>1, <2>2, ApplyTyped DEF TakeEffect
  <2>4. Status(c, kind, s) \in Statuses  BY StatusFacts
  <2>5. /\ DOMAIN answer' = Client /\ answer'[c].status \in Statuses
        /\ \A d \in Client : d # c => answer'[d] = answer[d]
    BY <1>2, <2>1, <2>2, <2>4 DEF TakeEffect, CallInv, Answer
  <2>6. /\ phase' \in [Client -> {"idle", "called", "done"}] /\ phase'[c] = "done"
        /\ phase[c] = "called"
        /\ \A d \in Client : d # c => phase'[d] = phase[d]
        /\ op' = op /\ calls' = calls /\ acked' = acked
    BY <1>2 DEF TakeEffect, TypeOK
  <2> QED  BY <2>3, <2>5, <2>6 DEF TypeOK, CallInv, Statuses
<1>3. ASSUME NEW c \in Client, Respond(c) PROVE TypeOK' /\ CallInv'
  <2>1. <<c, op[c]>> \in Client \X Kind  BY DEF TypeOK
  <2>2. acked' \subseteq Client \X Kind  BY <1>3, <2>1 DEF Respond, TypeOK
  <2>3. /\ phase' \in [Client -> {"idle", "called", "done"}] /\ phase'[c] = "idle"
        /\ \A d \in Client : d # c => phase'[d] = phase[d]
        /\ op' = op /\ calls' = calls /\ session' = session /\ answer' = answer
    BY <1>3 DEF Respond, TypeOK
  <2> QED  BY <2>2, <2>3 DEF TypeOK, CallInv
<1>4. ASSUME NEW c \in Client, Fail(c) PROVE TypeOK' /\ CallInv'
  <2>1. PICK s \in SessionType : s = session  BY DEF TypeOK
  <2>2. PICK kind \in Kind : kind = op[c]  BY DEF TypeOK
  <2>3. session' \in SessionType  BY <1>4, <2>1, <2>2, ApplyTyped DEF Fail
  <2>4. /\ phase' \in [Client -> {"idle", "called", "done"}] /\ phase'[c] = "idle"
        /\ \A d \in Client : d # c => phase'[d] = phase[d] /\ answer'[d] = answer[d]
        /\ op' = op /\ calls' = calls /\ acked' = acked /\ DOMAIN answer' = Client
    BY <1>4 DEF Fail, TypeOK, CallInv
  <2> QED  BY <2>3, <2>4 DEF TypeOK, CallInv
<1>5. CASE UNCHANGED vars  BY <1>5 DEF vars, TypeOK, CallInv
<1> QED  BY <1>1, <1>2, <1>3, <1>4, <1>5 DEF Next

-----------------------------------------------------------------------------
(* A step does not undo a call, and changes the session by a call under way, *)
(* of which alone somebody may newly be told.                                *)
LEMMA CalledStays ==
  ASSUME TypeOK, [Next]_vars, NEW kind
  PROVE  Called(kind) => Called(kind)'
<1>1. ASSUME NEW c \in Client, Call(c) PROVE Called(kind) => Called(kind)'
  <2>1. PICK new \in Ops[c] : calls' = [calls EXCEPT ![c] = Append(@, new)]
    BY <1>1 DEF Call
  <2>2. new \in Kind  BY ClientAssumption
  <2>3. PICK q \in Seq(Kind) : q = calls[c]  BY DEF TypeOK
  <2>4. \A k \in DOMAIN q : k \in DOMAIN Append(q, new) /\ Append(q, new)[k] = q[k]
    BY <2>2, AppendTyped
  <2>5. \A d \in Client : \A k \in DOMAIN calls[d] :
          k \in DOMAIN calls'[d] /\ calls'[d][k] = calls[d][k]
    BY <2>1, <2>3, <2>4 DEF TypeOK
  <2> QED  BY <2>5 DEF Called
<1>2. CASE UNCHANGED calls  BY <1>2 DEF Called
<1> QED  BY <1>1, <1>2 DEF Next, vars, TakeEffect, Respond, Fail

StillTold == \A d \in Client, kind \in Kind : Told(d, kind)' => Told(d, kind)

EffectOf(c) ==
  /\ phase[c] = "called"
  /\ session' = Apply(c, op[c], session)
  /\ \A d \in Client, kind \in Kind :
       Told(d, kind)' =>
         \/ Told(d, kind)
         \/ d = c /\ kind = op[c] /\ Status(c, kind, session) \in Success

LEMMA StepEffect ==
  ASSUME TypeOK, CallInv, [Next]_vars
  PROVE  \/ session' = session /\ StillTold
         \/ \E c \in Client : EffectOf(c)
<1>1. ASSUME NEW c \in Client, Call(c) PROVE session' = session /\ StillTold
  <2>1. /\ phase' = [phase EXCEPT ![c] = "called"] /\ acked' = acked /\ session' = session
        /\ \A d \in Client : d # c => op'[d] = op[d] /\ answer'[d] = answer[d]
    BY <1>1 DEF Call, TypeOK, CallInv
  <2> QED  BY <2>1 DEF Told, StillTold, TypeOK
<1>2. ASSUME NEW c \in Client, TakeEffect(c) PROVE EffectOf(c)
  <2>1. /\ phase[c] = "called" /\ session' = Apply(c, op[c], session)
        /\ acked' = acked /\ op' = op
        /\ answer'[c].status = Status(c, op[c], session)
        /\ \A d \in Client : d # c => phase'[d] = phase[d] /\ answer'[d] = answer[d]
    BY <1>2 DEF TakeEffect, TypeOK, CallInv, Answer
  <2> QED  BY <2>1 DEF Told, EffectOf
<1>3. ASSUME NEW c \in Client, Respond(c) PROVE session' = session /\ StillTold
  <2>1. /\ phase[c] = "done" /\ session' = session /\ op' = op /\ answer' = answer
        /\ \A d \in Client : d # c => phase'[d] = phase[d]
        /\ phase'[c] = "idle"
        /\ \/ acked' = acked
           \/ answer[c].status \in Success /\ acked' = acked \cup {<<c, op[c]>>}
    BY <1>3 DEF Respond, TypeOK, Success
  <2> QED  BY <2>1 DEF Told, StillTold
<1>4. ASSUME NEW c \in Client, Fail(c)
      PROVE  (session' = session /\ StillTold) \/ EffectOf(c)
  <2>1. /\ op' = op /\ acked' = acked /\ phase'[c] = "idle"
        /\ \A d \in Client : d # c => phase'[d] = phase[d] /\ answer'[d] = answer[d]
        /\ \/ session' = session
           \/ phase[c] = "called" /\ session' = Apply(c, op[c], session)
    BY <1>4 DEF Fail, TypeOK, CallInv
  <2>2. StillTold  BY <2>1 DEF Told, StillTold
  <2> QED  BY <2>1, <2>2 DEF StillTold, EffectOf
<1>5. CASE UNCHANGED vars  BY <1>5 DEF vars, Told, StillTold
<1> QED  BY <1>1, <1>2, <1>3, <1>4, <1>5 DEF Next

-----------------------------------------------------------------------------
(* The invariant. *)

LEMMA InvInit == Init => StoreInv
<1> SUFFICES ASSUME Init PROVE StoreInv  OBVIOUS
<1>1. TypeOK /\ CallInv  BY TypeInit
<1>2. \A c \in Client, kind \in Kind : ~Told(c, kind)  BY DEF Init, Told
<1>3. ListInv  BY DEF Init, ListInv, StartsWhole
<1>4. CreatedInv /\ KeptInv  BY <1>2 DEF CreatedInv, KeptInv, Kind
<1> QED  BY <1>1, <1>3, <1>4 DEF StoreInv

LEMMA InvStep == StoreInv /\ [Next]_vars => StoreInv'
<1> SUFFICES ASSUME StoreInv, [Next]_vars PROVE StoreInv'  OBVIOUS
<1> USE DEF StoreInv
<1>1. TypeOK' /\ CallInv'  BY TypeStep
<1>2. /\ Called("save_manifest") => Called("save_manifest")'
      /\ Called("replace_features") => Called("replace_features")'
  BY CalledStays
<1>3. \/ session' = session /\ StillTold
      \/ \E c \in Client : EffectOf(c)
  BY StepEffect
<1>4. CASE session' = session /\ StillTold
  <2>1. \A d \in Client, kind \in Kind : Told(d, kind)' => Told(d, kind)
    BY <1>4 DEF StillTold
  <2>2. ListInv'  BY <1>2, <1>4 DEF ListInv
  <2>3. CreatedInv'
    <3> SUFFICES ASSUME NEW d \in Client, Told(d, "initialize")'
                 PROVE  /\ \A e \in Client : Told(e, "initialize")' => e = d
                        /\ ~Called("save_manifest")' => session'.manifest = d
                        /\ ~Called("replace_features")' => HasIds(session', d)
      BY DEF CreatedInv
    <3>1. Told(d, "initialize")  BY <2>1 DEF Kind
    <3>2. \A e \in Client : Told(e, "initialize")' => Told(e, "initialize")  BY <2>1 DEF Kind
    <3>3. HasIds(session, d) => HasIds(session', d)  BY <1>4
    <3> QED  BY <1>2, <1>4, <3>1, <3>2, <3>3 DEF CreatedInv
  <2>4. KeptInv'
    <3> SUFFICES ASSUME NEW d \in Client
                 PROVE  /\ Told(d, "initialize")' => IsInitialized(session')
                        /\ Told(d, "save_manifest")' => IsInitialized(session')
                        /\ Told(d, "append_progress")' => HasEntry(session', d)
                        /\ Told(d, "checkpoint")' => HasCheckpoint(session', d)
                        /\ Told(d, "append_transcript")' => HasTurn(session', d)
                        /\ Told(d, "update_pass")' /\ ~Called("replace_features")' /\ StartsWhole =>
                             HasMark(session', d)
      BY DEF KeptInv, StartsWhole
    <3>1. \A kind \in Kind : Told(d, kind)' => Told(d, kind)  BY <2>1
    <3>2. session' = session  BY <1>4
    <3> QED  BY <1>2, <3>1, <3>2 DEF KeptInv, Kind
  <2> QED  BY <1>1, <2>2, <2>3, <2>4
<1>5. ASSUME NEW c \in Client, EffectOf(c) PROVE ListInv' /\ CreatedInv' /\ KeptInv'
  <2>1. PICK s \in SessionType : s = session  BY DEF TypeOK
  <2>2. PICK kind \in Kind : kind = op[c]  BY DEF TypeOK
  <2>3. PICK t \in SessionType : t = session'  BY <1>1 DEF TypeOK
  <2>4. t = Apply(c, kind, s)  BY <1>5, <2>1, <2>2, <2>3 DEF EffectOf
  <2>5. Called(kind)'
    <3>1. Called(kind)
      <4>1. PICK q \in Seq(Kind) : q = calls[c]  BY DEF TypeOK
      <4>2. Len(q) > 0 /\ q[Len(q)] = kind  BY <1>5, <2>2, <4>1 DEF EffectOf, CallInv
      <4>3. Len(q) \in DOMAIN q  BY <4>2
      <4> QED  BY <4>1, <4>2, <4>3 DEF Called
    <3> QED  BY <3>1, CalledStays
  <2>6. \A d \in Client, k \in Kind :
          Told(d, k)' => Told(d, k) \/ (d = c /\ k = kind /\ Status(c, k, s) \in Success)
    BY <1>5, <2>1, <2>2 DEF EffectOf
  <2>7. IsInitialized(s) => IsInitialized(t)  BY <2>4, ApplyGrows
  <2>8. ListInv'
    <3>1. s.features = << >> /\ kind # "replace_features" => IsInitialized(t) \/ t.features = << >>
      BY <2>4, ApplyKeeps
    <3>2. IsInitialized(InitialSession) => IsInitialized(t)  BY <2>1, <2>7 DEF ListInv
    <3>3. ~Called("replace_features")' /\ StartsWhole => IsInitialized(t) \/ t.features = << >>
      BY <1>2, <2>1, <2>5, <2>7, <3>1 DEF ListInv
    <3> QED  BY <2>3, <3>2, <3>3 DEF ListInv, StartsWhole
  <2>9. CreatedInv'
    <3> SUFFICES ASSUME NEW d \in Client, Told(d, "initialize")'
                 PROVE  /\ \A e \in Client : Told(e, "initialize")' => e = d
                        /\ ~Called("save_manifest")' => t.manifest = d
                        /\ ~Called("replace_features")' => HasIds(t, d)
      BY <2>3 DEF CreatedInv
    <3>1. CASE Told(d, "initialize")
      <4>1. IsInitialized(s)  BY <2>1, <3>1 DEF KeptInv
      <4>2. \A e \in Client : Told(e, "initialize")' => Told(e, "initialize")
        BY <2>6, <4>1, StatusFacts DEF Kind
      <4>3. kind # "save_manifest" => t.manifest = s.manifest  BY <2>4, <4>1, ApplyKeeps
      <4>4. kind # "replace_features" => (HasIds(s, d) => HasIds(t, d))
        BY <2>4, <4>1, ApplyKeeps
      <4> QED  BY <1>2, <2>1, <2>5, <3>1, <4>2, <4>3, <4>4 DEF CreatedInv
    <3>2. CASE ~Told(d, "initialize")
      <4>1. d = c /\ kind = "initialize" /\ Status(c, "initialize", s) \in Success
        BY <2>6, <3>2 DEF Kind
      <4>2. ~IsInitialized(s)  BY <4>1, StatusFacts
      <4>3. \A e \in Client : ~Told(e, "initialize")  BY <2>1, <4>2 DEF KeptInv
      <4>4. \A e \in Client : Told(e, "initialize")' => e = d  BY <2>6, <4>1, <4>3 DEF Kind
      <4>5. t.manifest = c /\ HasIds(t, c)  BY <2>4, <4>1, <4>2, ApplyWrites
      <4> QED  BY <4>1, <4>4, <4>5
    <3> QED  BY <3>1, <3>2
  <2>10. KeptInv'
    <3> SUFFICES ASSUME NEW d \in Client
                 PROVE  /\ Told(d, "initialize")' => IsInitialized(t)
                        /\ Told(d, "save_manifest")' => IsInitialized(t)
                        /\ Told(d, "append_progress")' => HasEntry(t, d)
                        /\ Told(d, "checkpoint")' => HasCheckpoint(t, d)
                        /\ Told(d, "append_transcript")' => HasTurn(t, d)
                        /\ Told(d, "update_pass")' /\ ~Called("replace_features")' /\ StartsWhole =>
                             HasMark(t, d)
      BY <2>3 DEF KeptInv, StartsWhole
    <3>1. Told(d, "initialize")' => IsInitialized(t)
      BY <2>1, <2>4, <2>6, <2>7, ApplyWrites DEF KeptInv, Kind
    <3>2. Told(d, "save_manifest")' => IsInitialized(t)
      BY <2>1, <2>4, <2>6, <2>7, ApplyWrites DEF KeptInv, Kind
    <3>3. Told(d, "append_progress")' => HasEntry(t, d)
      <4>1. HasEntry(s, d) => HasEntry(t, d)  BY <2>4, ApplyKeeps
      <4>2. Told(d, "append_progress") => HasEntry(s, d)  BY <2>1 DEF KeptInv
      <4>3. HasEntry(Apply(c, "append_progress", s), c)  BY ApplyWrites
      <4> QED  BY <2>4, <2>6, <4>1, <4>2, <4>3 DEF Kind
    <3>4. Told(d, "checkpoint")' => HasCheckpoint(t, d)
      <4>1. HasCheckpoint(s, d) => HasCheckpoint(t, d)  BY <2>4, ApplyKeeps
      <4>2. Told(d, "checkpoint") => HasCheckpoint(s, d)  BY <2>1 DEF KeptInv
      <4>3. HasCheckpoint(Apply(c, "checkpoint", s), c)  BY ApplyWrites
      <4> QED  BY <2>4, <2>6, <4>1, <4>2, <4>3 DEF Kind
    <3>5. Told(d, "append_transcript")' => HasTurn(t, d)
      <4>1. HasTurn(s, d) => HasTurn(t, d)  BY <2>4, ApplyKeeps
      <4>2. Told(d, "append_transcript") => HasTurn(s, d)  BY <2>1 DEF KeptInv
      <4>3. HasTurn(Apply(c, "append_transcript", s), c)  BY ApplyWrites
      <4> QED  BY <2>4, <2>6, <4>1, <4>2, <4>3 DEF Kind
    <3>6. Told(d, "update_pass")' /\ ~Called("replace_features")' /\ StartsWhole => HasMark(t, d)
      <4> SUFFICES ASSUME Told(d, "update_pass")', ~Called("replace_features")', StartsWhole
                   PROVE  HasMark(t, d)
        OBVIOUS
      <4>1. CASE Told(d, "update_pass")
        <5>1. HasMark(s, d)  BY <1>2, <2>1, <4>1 DEF KeptInv
        <5>2. s.features # << >>  BY <5>1 DEF HasMark
        <5>3. IsInitialized(s)  BY <1>2, <2>1, <5>2 DEF ListInv
        <5>4. kind # "replace_features"  BY <2>5
        <5> QED  BY <2>4, <5>1, <5>3, <5>4, ApplyKeeps
      <4>2. CASE ~Told(d, "update_pass")
        <5>1. d = c /\ kind = "update_pass" /\ Status(c, "update_pass", s) \in Success
          BY <2>6, <4>2 DEF Kind
        <5>2. HasFeature(s, Target[c])  BY <5>1, StatusFacts
        <5> QED  BY <2>4, <5>1, <5>2, ApplyWrites
      <4> QED  BY <4>1, <4>2
    <3> QED  BY <3>1, <3>2, <3>3, <3>4, <3>5, <3>6
  <2> QED  BY <2>8, <2>9, <2>10
<1> QED  BY <1>1, <1>3, <1>4, <1>5

LEMMA InvHolds == Spec => []StoreInv
BY InvInit, InvStep, PTL DEF Spec

(* The data of the contract has its type, and a call has an answer exactly when *)
(* it took effect: a statement of the backends' callers relies on neither less. *)
THEOREM StoreTyped == Spec => []TypeOK
<1>1. StoreInv => TypeOK  BY DEF StoreInv
<1> QED  BY <1>1, InvHolds, PTL

(* "Returns true when it creates state for the first time": at most one caller *)
(* is told that it created the session, whose manifest and features stay.      *)
THEOREM CreatedOnceHolds == Spec => []CreatedOnce
<1>1. StoreInv => CreatedOnce
  BY DEF StoreInv, CreatedInv, CreatedOnce, Told, HasIds
<1> QED  BY <1>1, InvHolds, PTL

(* What a caller was told is stored stays stored, whoever calls what, and  *)
(* whoever fails.                                                          *)
THEOREM AcknowledgedKeptHolds == Spec => []AcknowledgedKept
<1>1. StoreInv => AcknowledgedKept
  <2> SUFFICES ASSUME KeptInv PROVE AcknowledgedKept  BY DEF StoreInv
  <2>1. \A c \in Client, kind \in Kind : <<c, kind>> \in acked => Told(c, kind)  BY DEF Told
  <2>2. \A c \in Client :
          {<<c, "initialize">>, <<c, "save_manifest">>} \cap acked # {} =>
            Told(c, "initialize") \/ Told(c, "save_manifest")
    BY <2>1 DEF Kind
  <2> QED
    BY <2>1, <2>2 DEF KeptInv, AcknowledgedKept, HasEntry, HasCheckpoint, HasTurn, HasMark,
       StartsWhole, Kind
<1> QED  BY <1>1, InvHolds, PTL

=============================================================================
