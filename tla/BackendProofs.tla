---------------------------- MODULE BackendProofs ----------------------------
(***************************************************************************)
(* Proofs about the deployments of fmemory, for any clients and arguments: *)
(* records load back as they were given, and every deployment that is      *)
(* promised the contract of MemoryBackend implements it, of which          *)
(* SessionStoreProofs says what clients may rely on.                       *)
(***************************************************************************)
EXTENDS MemoryBackends, SequenceTheorems, FiniteSetTheorems, TLAPS

-----------------------------------------------------------------------------
(* Records: a storage holds codes of what was told.                        *)

AcceptedTime == {t \in Int : t >= 0}
AcceptedCheckpoint == {c \in Checkpoint : Records!AcceptsCheckpoint(c)}

TimeCode       == [t \in AcceptedTime |-> Records!EncodeTime(t)]
CheckpointCode == [c \in AcceptedCheckpoint |-> Records!EncodeCheckpoint(c)]
PlanCode       == [p \in Plan |-> Records!EncodePlan(p)]
RoleCode       == Records!RoleToString

Coded(f) == {f[x] : x \in DOMAIN f}

(* s holds the codes of q. *)
Codes(f, q, s) ==
  /\ q \in Seq(DOMAIN f)
  /\ s \in Seq(Coded(f))
  /\ Len(s) = Len(q)
  /\ \A i \in DOMAIN q : s[i] = f[q[i]]

StoredType == [manifest    : Seq(Coded(PlanCode)),
               progress    : Seq(Coded(TimeCode)),
               checkpoints : Seq(Coded(CheckpointCode)),
               transcript  : Seq(Coded(RoleCode))]

ToldType == [manifest    : Seq(Plan),
             progress    : Seq(AcceptedTime),
             checkpoints : Seq(AcceptedCheckpoint),
             transcript  : Seq(DOMAIN RoleCode)]

RecordsMatch ==
  /\ Codes(PlanCode, told.manifest, stored.manifest)
  /\ Codes(TimeCode, told.progress, stored.progress)
  /\ Codes(CheckpointCode, told.checkpoints, stored.checkpoints)
  /\ Codes(RoleCode, told.transcript, stored.transcript)

RecordInv ==
  /\ stored \in StoredType
  /\ told \in ToldType
  /\ half => deployment = "row_records"
  /\ ~half => RecordsMatch

(* Codes of a longer sequence. *)
LEMMA CodesEmpty ==
  ASSUME NEW f
  PROVE  Codes(f, << >>, << >>)
<1>1. << >> \in Seq(DOMAIN f) /\ << >> \in Seq(Coded(f)) /\ Len(<< >>) = 0 /\ DOMAIN << >> = {}
  OBVIOUS
<1> QED  BY <1>1 DEF Codes

LEMMA CodesConcat ==
  ASSUME NEW f, NEW q, NEW s, NEW q2, NEW s2, Codes(f, q, s), Codes(f, q2, s2)
  PROVE  Codes(f, q \o q2, s \o s2)
<1>1. /\ q \in Seq(DOMAIN f) /\ q2 \in Seq(DOMAIN f)
      /\ s \in Seq(Coded(f)) /\ s2 \in Seq(Coded(f))
      /\ Len(s) = Len(q) /\ Len(s2) = Len(q2)
      /\ \A i \in DOMAIN q : s[i] = f[q[i]]
      /\ \A i \in DOMAIN q2 : s2[i] = f[q2[i]]
  BY DEF Codes
<1> DEFINE S == Coded(f)
           D == DOMAIN f
<1> HIDE DEF S, D
<1>2. /\ q \in Seq(D) /\ q2 \in Seq(D) /\ s \in Seq(S) /\ s2 \in Seq(S)
  BY <1>1 DEF S, D
<1>3. /\ q \o q2 \in Seq(D) /\ Len(q \o q2) = Len(q) + Len(q2)
      /\ \A i \in 1 .. Len(q) + Len(q2) :
           (q \o q2)[i] = IF i <= Len(q) THEN q[i] ELSE q2[i - Len(q)]
  BY <1>2, ConcatProperties
<1>4. /\ s \o s2 \in Seq(S) /\ Len(s \o s2) = Len(s) + Len(s2)
      /\ \A i \in 1 .. Len(s) + Len(s2) :
           (s \o s2)[i] = IF i <= Len(s) THEN s[i] ELSE s2[i - Len(s)]
  BY <1>2, ConcatProperties
<1>5. Len(q) \in Nat /\ Len(q2) \in Nat /\ DOMAIN q = 1 .. Len(q) /\ DOMAIN q2 = 1 .. Len(q2)
  BY <1>2
<1>6. DOMAIN (q \o q2) = 1 .. Len(q) + Len(q2)  BY <1>3, <1>5
<1>7. ASSUME NEW i \in 1 .. Len(q) + Len(q2)
      PROVE  (s \o s2)[i] = f[(q \o q2)[i]]
  <2>1. CASE i <= Len(q)
    <3>1. i \in DOMAIN q  BY <1>5, <2>1
    <3>2. (s \o s2)[i] = s[i]  BY <1>1, <1>4, <2>1
    <3>3. (q \o q2)[i] = q[i]  BY <1>3, <2>1
    <3> QED  BY <1>1, <3>1, <3>2, <3>3
  <2>2. CASE ~(i <= Len(q))
    <3>1. i - Len(q) \in DOMAIN q2  BY <1>5, <2>2
    <3>2. (s \o s2)[i] = s2[i - Len(q)]  BY <1>1, <1>4, <2>2
    <3>3. (q \o q2)[i] = q2[i - Len(q)]  BY <1>3, <2>2
    <3> QED  BY <1>1, <3>1, <3>2, <3>3
  <2> QED  BY <2>1, <2>2
<1>8. \A i \in DOMAIN (q \o q2) : (s \o s2)[i] = f[(q \o q2)[i]]  BY <1>6, <1>7
<1>9. Len(s \o s2) = Len(q \o q2)  BY <1>1, <1>3, <1>4
<1> QED  BY <1>3, <1>4, <1>8, <1>9 DEF Codes, S, D

LEMMA CodesOne ==
  ASSUME NEW f, NEW x \in DOMAIN f
  PROVE  Codes(f, <<x>>, <<f[x]>>)
<1>1. f[x] \in Coded(f)  BY DEF Coded
<1>2. <<x>> \in Seq(DOMAIN f) /\ <<f[x]>> \in Seq(Coded(f))  BY <1>1
<1>3. DOMAIN <<x>> = {1} /\ <<x>>[1] = x /\ <<f[x]>>[1] = f[x] /\ Len(<<x>>) = 1 /\ Len(<<f[x]>>) = 1
  OBVIOUS
<1> QED  BY <1>2, <1>3 DEF Codes

LEMMA CodesAppend ==
  ASSUME NEW f, NEW q, NEW s, NEW x \in DOMAIN f, Codes(f, q, s)
  PROVE  Codes(f, Append(q, x), Append(s, f[x]))
<1>1. Codes(f, q \o <<x>>, s \o <<f[x]>>)  BY CodesOne, CodesConcat
<1>2. q \in Seq(DOMAIN f) /\ s \in Seq(Coded(f)) /\ f[x] \in Coded(f)  BY DEF Codes, Coded
<1>3. Append(q, x) = q \o <<x>> /\ Append(s, f[x]) = s \o <<f[x]>>  BY <1>2, AppendIsConcat
<1> QED  BY <1>1, <1>3

-----------------------------------------------------------------------------
(* What is stored can be read, and is read as it was told. *)

LEMMA RecordParameters ==
  /\ MaxWrites \in Nat
  /\ \A p \in Plan : p \in Seq(Seq(Records!Step)) /\ Len(p) <= 1
  /\ Instant \subseteq Int
  /\ \A c \in Checkpoint :
       /\ c \in [started : Int, completed : Seq(Int), status : DOMAIN Records!StatusToString]
       /\ Len(c.completed) <= 1
  /\ Roles \in Seq(DOMAIN RoleCode)
BY DeploymentAssumption DEF Records!RecordAssumption, RoleCode

(* Seconds and nanoseconds give the time back. *)
LEMMA TimeBack ==
  ASSUME NEW t \in AcceptedTime
  PROVE  /\ Records!ReadableTime(Records!EncodeTime(t))
         /\ Records!DecodeTime(Records!EncodeTime(t)) = t
<1> DEFINE B == 1000000000
           r == Records!EncodeTime(t)
<1>1. t \in Int /\ t >= 0  BY DEF AcceptedTime
<1>2. r.secs = t \div B /\ r.nanos = t % B
  BY DEF Records!EncodeTime, Records!NanosPerSecond
<1>3. /\ t \div B \in Int /\ t % B \in Int
      /\ t \div B >= 0 /\ t % B >= 0 /\ t % B < B
      /\ (t \div B) * B + (t % B) = t
  BY <1>1, SMT
<1> HIDE DEF r
<1>4. Records!ReadableTime(r) /\ Records!DecodeTime(r) = t
  BY <1>2, <1>3 DEF Records!ReadableTime, Records!DecodeTime, Records!NanosPerSecond
<1> QED  BY <1>4 DEF r

LEMMA StatusBack ==
  \A x \in DOMAIN Records!StatusToString :
    /\ Records!StatusToString[x] \in DOMAIN Records!StatusFromString
    /\ Records!StatusFromString[Records!StatusToString[x]] = x
BY DEF Records!StatusToString, Records!StatusFromString

LEMMA RoleBack ==
  \A x \in DOMAIN RoleCode :
    /\ RoleCode[x] \in DOMAIN Records!RoleFromString
    /\ Records!RoleFromString[RoleCode[x]] = x
BY DEF RoleCode, Records!RoleToString, Records!RoleFromString

LEMMA ShellBack ==
  \A x \in DOMAIN Records!ShellToString :
    /\ Records!ShellToString[x] \in DOMAIN Records!ShellFromString
    /\ Records!ShellFromString[Records!ShellToString[x]] = x
BY DEF Records!ShellToString, Records!ShellFromString

LEMMA CheckpointBack ==
  ASSUME NEW c \in AcceptedCheckpoint
  PROVE  /\ Records!ReadableCheckpoint(Records!EncodeCheckpoint(c))
         /\ Records!DecodeCheckpoint(Records!EncodeCheckpoint(c)) = c
<1> DEFINE r == Records!EncodeCheckpoint(c)
<1>1. /\ c \in [started : Int, completed : Seq(Int), status : DOMAIN Records!StatusToString]
      /\ Records!AcceptsCheckpoint(c)
  BY RecordParameters DEF AcceptedCheckpoint
<1>2. /\ c.started \in AcceptedTime
      /\ \A i \in DOMAIN c.completed : c.completed[i] \in AcceptedTime
  BY <1>1 DEF Records!AcceptsCheckpoint, Records!AcceptsTime, AcceptedTime
<1>3. /\ r.started = Records!EncodeTime(c.started)
      /\ r.completed_secs = [i \in DOMAIN c.completed |-> Records!EncodeTime(c.completed[i]).secs]
      /\ r.completed_nanos = [i \in DOMAIN c.completed |-> Records!EncodeTime(c.completed[i]).nanos]
      /\ r.status = Records!StatusToString[c.status]
  BY DEF Records!EncodeCheckpoint
<1> HIDE DEF r
<1>4. \A i \in DOMAIN c.completed : Records!CompletedAt(r)[i] = Records!EncodeTime(c.completed[i])
  BY <1>3 DEF Records!CompletedAt, Records!EncodeTime
<1>5. /\ DOMAIN r.completed_secs = DOMAIN c.completed
      /\ DOMAIN r.completed_nanos = DOMAIN c.completed
  BY <1>3
<1>6. Records!ReadableCheckpoint(r)
  <2>1. Records!ReadableTime(r.started)  BY <1>2, <1>3, TimeBack
  <2>2. \A i \in DOMAIN r.completed_secs : Records!ReadableTime(Records!CompletedAt(r)[i])
    BY <1>2, <1>4, <1>5, TimeBack
  <2>3. r.status \in DOMAIN Records!StatusFromString  BY <1>1, <1>3, StatusBack
  <2> QED  BY <1>5, <2>1, <2>2, <2>3 DEF Records!ReadableCheckpoint
<1>7. Records!DecodeCheckpoint(r) = c
  <2>1. Records!DecodeTime(r.started) = c.started  BY <1>2, <1>3, TimeBack
  <2>2. Records!StatusFromString[r.status] = c.status  BY <1>1, <1>3, StatusBack
  <2> DEFINE done == [i \in DOMAIN r.completed_secs |-> Records!DecodeTime(Records!CompletedAt(r)[i])]
  <2>3. \A i \in DOMAIN c.completed : Records!DecodeTime(Records!CompletedAt(r)[i]) = c.completed[i]
    BY <1>2, <1>4, TimeBack
  <2>4. done = [i \in DOMAIN c.completed |-> c.completed[i]]  BY <1>5, <2>3
  <2>5. done = c.completed
    <3>1. c.completed \in Seq(Int)  BY <1>1
    <3>2. c.completed = [i \in DOMAIN c.completed |-> c.completed[i]]  BY <3>1
    <3> QED  BY <2>4, <3>2
  <2> HIDE DEF done
  <2>6. c = [started |-> c.started, completed |-> c.completed, status |-> c.status]  BY <1>1
  <2>7. Records!DecodeCheckpoint(r) =
          [started |-> Records!DecodeTime(r.started), completed |-> done,
           status |-> Records!StatusFromString[r.status]]
    BY DEF Records!DecodeCheckpoint, done
  <2> QED  BY <2>1, <2>2, <2>5, <2>6, <2>7
<1> QED  BY <1>6, <1>7 DEF r

LEMMA StepBack ==
  ASSUME NEW x \in Records!Step
  PROVE  /\ Records!ReadableStep(Records!EncodeStep(x))
         /\ Records!DecodeStep(Records!EncodeStep(x)) = x
<1>1. CASE x = "Command"
  BY <1>1 DEF Records!ReadableStep, Records!EncodeStep, Records!DecodeStep
<1>2. CASE x # "Command"
  <2>1. x \in DOMAIN Records!ShellToString  BY <1>2 DEF Records!Step
  <2>2. Records!EncodeStep(x) = [kind |-> "shell", shell |-> <<Records!ShellToString[x]>>]
    BY <1>2 DEF Records!EncodeStep
  <2>3. /\ Records!ShellToString[x] \in DOMAIN Records!ShellFromString
        /\ Records!ShellFromString[Records!ShellToString[x]] = x
    BY <2>1, ShellBack
  <2> DEFINE r == Records!EncodeStep(x)
             y == Records!ShellToString[x]
  <2>4. r.kind = "shell" /\ r.shell = <<y>>  BY <2>2
  <2> HIDE DEF r, y
  <2>5. <<y>> # << >> /\ <<y>>[1] = y  OBVIOUS
  <2>6. Records!ReadableStep(r) /\ Records!DecodeStep(r) = x
    BY <2>3, <2>4, <2>5 DEF Records!ReadableStep, Records!DecodeStep, y
  <2> QED  BY <2>6 DEF r
<1> QED  BY <1>1, <1>2

(* Steps of a plan, as a document and as rows. *)
LEMMA StepsBack ==
  ASSUME NEW steps \in Seq(Records!Step)
  PROVE  /\ DOMAIN Records!EncodeSteps(steps) = DOMAIN steps
         /\ \A i \in DOMAIN steps : Records!ReadableStep(Records!EncodeSteps(steps)[i])
         /\ Records!DecodeSteps(Records!EncodeSteps(steps)) = steps
<1> DEFINE es == Records!EncodeSteps(steps)
<1>1. es = [i \in DOMAIN steps |-> Records!EncodeStep(steps[i])]  BY DEF Records!EncodeSteps
<1> HIDE DEF es
<1>2. DOMAIN es = DOMAIN steps /\ \A i \in DOMAIN steps : es[i] = Records!EncodeStep(steps[i])
  BY <1>1
<1>3. \A i \in DOMAIN steps : steps[i] \in Records!Step  OBVIOUS
<1>4. \A i \in DOMAIN steps :
        Records!ReadableStep(es[i]) /\ Records!DecodeStep(es[i]) = steps[i]
  BY <1>2, <1>3, StepBack
<1>5. Records!DecodeSteps(es) = [i \in DOMAIN steps |-> steps[i]]
  BY <1>2, <1>4 DEF Records!DecodeSteps
<1>6. steps = [i \in DOMAIN steps |-> steps[i]]  OBVIOUS
<1> QED  BY <1>2, <1>4, <1>5, <1>6 DEF es

(* A sequence of at most one element is an option. *)
LEMMA AtMostOne ==
  ASSUME NEW S, NEW p \in Seq(S), Len(p) <= 1
  PROVE  p = << >> \/ (p = <<p[1]>> /\ p[1] \in S)
<1>0. Len(p) = 0 \/ Len(p) = 1
  <2>1. \A n \in Nat : n <= 1 => n = 0 \/ n = 1  OBVIOUS
  <2>2. Len(p) \in Nat  OBVIOUS
  <2> QED  BY <2>1, <2>2
<1>1. CASE Len(p) = 0  BY <1>1
<1>2. CASE Len(p) = 1
  <2>1. p[1] \in S /\ DOMAIN p = {1}  BY <1>2
  <2>2. <<p[1]>> \in Seq(S) /\ Len(<<p[1]>>) = 1 /\ <<p[1]>>[1] = p[1]  BY <2>1
  <2> DEFINE q == <<p[1]>>
  <2> HIDE DEF q
  <2>3. q \in Seq(S) /\ Len(q) = 1 /\ q[1] = p[1]  BY <2>2 DEF q
  <2>4. q = p  BY <1>2, <2>3, SeqEqual
  <2> QED  BY <2>1, <2>4 DEF q
<1> QED  BY <1>0, <1>1, <1>2

LEMMA PlanBack ==
  ASSUME NEW p \in Plan
  PROVE  /\ Records!ReadablePlan(Records!EncodePlan(p))
         /\ Records!DecodePlan(Records!EncodePlan(p)) = Records!Kept(p)
<1> DEFINE code == Records!EncodePlan(p)
           inRows == deployment = "row_records"
<1>1. p \in Seq(Seq(Records!Step)) /\ Len(p) <= 1  BY RecordParameters
<1>2. CASE p = << >>
  <2>1. DOMAIN p = {}  BY <1>2
  <2>2. [i \in DOMAIN p |-> Records!EncodeSteps(p[i])] = << >>  BY <2>1
  <2>3. code = << >>  BY <1>2, <2>2 DEF Records!EncodePlan
  <2> HIDE DEF code
  <2>4. Records!StepsOf(code) = << >> /\ DOMAIN << >> = {}  BY <2>3 DEF Records!StepsOf
  <2>5. Records!ReadablePlan(code)  BY <2>4 DEF Records!ReadablePlan
  <2>6. Records!DecodePlan(code) = << >>  BY <2>3 DEF Records!DecodePlan
  <2>7. Records!Kept(p) = << >>  BY <1>2 DEF Records!Kept
  <2> QED  BY <2>5, <2>6, <2>7 DEF code
<1>3. CASE p # << >>
  <2>1. PICK steps \in Seq(Records!Step) : p = <<steps>>  BY <1>1, <1>3, AtMostOne
  <2> DEFINE es == Records!EncodeSteps(steps)
  <2>2. /\ DOMAIN es = DOMAIN steps
        /\ \A i \in DOMAIN steps : Records!ReadableStep(es[i])
        /\ Records!DecodeSteps(es) = steps
    BY StepsBack
  <2>3. DOMAIN p = {1} /\ p[1] = steps /\ p # << >>  BY <2>1, <1>3
  <2>4. CASE ~inRows
    <3>1. code = [i \in DOMAIN p |-> Records!EncodeSteps(p[i])]
      BY <2>4 DEF Records!EncodePlan
    <3>2. DOMAIN code = {1} /\ code[1] = es  BY <2>3, <3>1
    <3> HIDE DEF code, es
    <3>3. code # << >>
      <4>1. DOMAIN << >> = {}  OBVIOUS
      <4> QED  BY <3>2, <4>1
    <3>4. Records!StepsOf(code) = es  BY <2>4, <3>2, <3>3 DEF Records!StepsOf
    <3>5. Records!ReadablePlan(code)  BY <2>2, <3>4 DEF Records!ReadablePlan
    <3>6. Records!DecodePlan(code) = <<steps>>  BY <2>2, <3>3, <3>4 DEF Records!DecodePlan
    <3>7. Records!Kept(p) = p  BY <2>4 DEF Records!Kept
    <3> QED  BY <2>1, <3>5, <3>6, <3>7 DEF code
  <2>5. CASE inRows
    <3>1. code = es  BY <1>3, <2>3, <2>5 DEF Records!EncodePlan
    <3>2. es = [i \in DOMAIN steps |-> Records!EncodeStep(steps[i])]  BY DEF Records!EncodeSteps
    <3> HIDE DEF code, es
    <3>3. Records!StepsOf(code) = es  BY <2>5, <3>1 DEF Records!StepsOf
    <3>4. Records!ReadablePlan(code)  BY <2>2, <3>3 DEF Records!ReadablePlan
    <3>5. CASE steps = << >>
      <4>1. DOMAIN steps = {}  BY <3>5
      <4>2. code = << >>  BY <3>1, <3>2, <4>1
      <4>3. Records!DecodePlan(code) = << >>  BY <4>2 DEF Records!DecodePlan
      <4>4. Records!Kept(p) = << >>  BY <2>1, <2>5, <3>5 DEF Records!Kept
      <4> QED  BY <3>4, <4>3, <4>4 DEF code
    <3>6. CASE steps # << >>
      <4>1. DOMAIN steps # {}
        <5>1. \A q \in Seq(Records!Step) : DOMAIN q = {} => q = << >>  OBVIOUS
        <5> QED  BY <3>6, <5>1
      <4>2. code # << >>
        <5>1. DOMAIN << >> = {}  OBVIOUS
        <5> QED  BY <2>2, <3>1, <4>1, <5>1
      <4>3. Records!DecodePlan(code) = <<steps>>  BY <2>2, <3>3, <4>2 DEF Records!DecodePlan
      <4>4. p # <<<< >>>>
        <5>1. <<<< >>>>[1] = << >>  OBVIOUS
        <5> QED  BY <2>3, <3>6, <5>1
      <4>5. Records!Kept(p) = p  BY <4>4 DEF Records!Kept
      <4> QED  BY <2>1, <3>4, <4>3, <4>5 DEF code
    <3> QED  BY <3>5, <3>6
  <2> QED  BY <2>4, <2>5
<1> QED  BY <1>2, <1>3

(* A storage that holds the codes of what was told loads back. *)
LEMMA ReadsBack ==
  ASSUME RecordInv
  PROVE  Records!LoadsBack
<1>1. Records!Readable(stored)
  <2>1. \A i \in DOMAIN stored.manifest : Records!ReadablePlan(stored.manifest[i])
    <3>1. stored.manifest \in Seq(Coded(PlanCode))  BY DEF RecordInv, StoredType
    <3>2. \A x \in Coded(PlanCode) : Records!ReadablePlan(x)
      BY PlanBack DEF Coded, PlanCode
    <3> QED  BY <3>1, <3>2
  <2>2. \A i \in DOMAIN stored.progress : Records!ReadableTime(stored.progress[i])
    <3>1. stored.progress \in Seq(Coded(TimeCode))  BY DEF RecordInv, StoredType
    <3>2. \A x \in Coded(TimeCode) : Records!ReadableTime(x)
      BY TimeBack DEF Coded, TimeCode
    <3> QED  BY <3>1, <3>2
  <2>3. \A i \in DOMAIN stored.checkpoints : Records!ReadableCheckpoint(stored.checkpoints[i])
    <3>1. stored.checkpoints \in Seq(Coded(CheckpointCode))  BY DEF RecordInv, StoredType
    <3>2. \A x \in Coded(CheckpointCode) : Records!ReadableCheckpoint(x)
      BY CheckpointBack DEF Coded, CheckpointCode
    <3> QED  BY <3>1, <3>2
  <2>4. \A i \in DOMAIN stored.transcript : stored.transcript[i] \in DOMAIN Records!RoleFromString
    <3>1. stored.transcript \in Seq(Coded(RoleCode))  BY DEF RecordInv, StoredType
    <3>2. \A x \in Coded(RoleCode) : x \in DOMAIN Records!RoleFromString
      BY RoleBack DEF Coded
    <3> QED  BY <3>1, <3>2
  <2> QED  BY <2>1, <2>2, <2>3, <2>4 DEF Records!Readable
<1>2. ASSUME ~half
      PROVE  Records!Load(stored) = [told EXCEPT !.manifest = [i \in DOMAIN @ |-> Records!Kept(@[i])]]
  <2>1. RecordsMatch /\ told \in ToldType  BY <1>2 DEF RecordInv
  <2>2. /\ DOMAIN stored.manifest = DOMAIN told.manifest
        /\ \A i \in DOMAIN told.manifest :
             Records!DecodePlan(stored.manifest[i]) = Records!Kept(told.manifest[i])
    <3>1. Codes(PlanCode, told.manifest, stored.manifest)  BY <2>1 DEF RecordsMatch
    <3>2. \A i \in DOMAIN told.manifest :
            /\ told.manifest[i] \in Plan
            /\ stored.manifest[i] = Records!EncodePlan(told.manifest[i])
      <4>1. DOMAIN PlanCode = Plan /\ \A x \in Plan : PlanCode[x] = Records!EncodePlan(x)
        BY DEF PlanCode
      <4>2. told.manifest \in Seq(Plan)  BY <3>1, <4>1 DEF Codes
      <4>3. \A i \in DOMAIN told.manifest : stored.manifest[i] = PlanCode[told.manifest[i]]
        BY <3>1 DEF Codes
      <4> QED  BY <4>1, <4>2, <4>3
    <3>3. DOMAIN stored.manifest = DOMAIN told.manifest  BY <3>1 DEF Codes
    <3> QED  BY <3>2, <3>3, PlanBack
  <2>3. /\ DOMAIN stored.progress = DOMAIN told.progress
        /\ \A i \in DOMAIN told.progress :
             Records!DecodeTime(stored.progress[i]) = told.progress[i]
    <3>1. Codes(TimeCode, told.progress, stored.progress)  BY <2>1 DEF RecordsMatch
    <3>2. \A i \in DOMAIN told.progress :
            /\ told.progress[i] \in AcceptedTime
            /\ stored.progress[i] = Records!EncodeTime(told.progress[i])
      <4>1. DOMAIN TimeCode = AcceptedTime /\ \A x \in AcceptedTime : TimeCode[x] = Records!EncodeTime(x)
        BY DEF TimeCode
      <4>2. told.progress \in Seq(AcceptedTime)  BY <3>1, <4>1 DEF Codes
      <4>3. \A i \in DOMAIN told.progress : stored.progress[i] = TimeCode[told.progress[i]]
        BY <3>1 DEF Codes
      <4> QED  BY <4>1, <4>2, <4>3
    <3>3. DOMAIN stored.progress = DOMAIN told.progress  BY <3>1 DEF Codes
    <3> QED  BY <3>2, <3>3, TimeBack
  <2>4. /\ DOMAIN stored.checkpoints = DOMAIN told.checkpoints
        /\ \A i \in DOMAIN told.checkpoints :
             Records!DecodeCheckpoint(stored.checkpoints[i]) = told.checkpoints[i]
    <3>1. Codes(CheckpointCode, told.checkpoints, stored.checkpoints)  BY <2>1 DEF RecordsMatch
    <3>2. \A i \in DOMAIN told.checkpoints :
            /\ told.checkpoints[i] \in AcceptedCheckpoint
            /\ stored.checkpoints[i] = Records!EncodeCheckpoint(told.checkpoints[i])
      <4>1. DOMAIN CheckpointCode = AcceptedCheckpoint /\ \A x \in AcceptedCheckpoint : CheckpointCode[x] = Records!EncodeCheckpoint(x)
        BY DEF CheckpointCode
      <4>2. told.checkpoints \in Seq(AcceptedCheckpoint)  BY <3>1, <4>1 DEF Codes
      <4>3. \A i \in DOMAIN told.checkpoints : stored.checkpoints[i] = CheckpointCode[told.checkpoints[i]]
        BY <3>1 DEF Codes
      <4> QED  BY <4>1, <4>2, <4>3
    <3>3. DOMAIN stored.checkpoints = DOMAIN told.checkpoints  BY <3>1 DEF Codes
    <3> QED  BY <3>2, <3>3, CheckpointBack
  <2>5. /\ DOMAIN stored.transcript = DOMAIN told.transcript
        /\ \A i \in DOMAIN told.transcript :
             Records!RoleFromString[stored.transcript[i]] = told.transcript[i]
    <3>1. Codes(RoleCode, told.transcript, stored.transcript)  BY <2>1 DEF RecordsMatch
    <3>2. \A i \in DOMAIN told.transcript :
            /\ told.transcript[i] \in DOMAIN RoleCode
            /\ stored.transcript[i] = RoleCode[told.transcript[i]]
      BY <3>1 DEF Codes
    <3>3. DOMAIN stored.transcript = DOMAIN told.transcript  BY <3>1 DEF Codes
    <3> QED  BY <3>2, <3>3, RoleBack
  <2>6. /\ told.progress = [i \in DOMAIN told.progress |-> told.progress[i]]
        /\ told.checkpoints = [i \in DOMAIN told.checkpoints |-> told.checkpoints[i]]
        /\ told.transcript = [i \in DOMAIN told.transcript |-> told.transcript[i]]
    BY <2>1 DEF ToldType
  <2>7. /\ [i \in DOMAIN stored.progress |-> Records!DecodeTime(stored.progress[i])] = told.progress
        /\ [i \in DOMAIN stored.checkpoints |-> Records!DecodeCheckpoint(stored.checkpoints[i])]
             = told.checkpoints
        /\ [i \in DOMAIN stored.transcript |-> Records!RoleFromString[stored.transcript[i]]]
             = told.transcript
    BY <2>3, <2>4, <2>5, <2>6
  <2>8. [i \in DOMAIN stored.manifest |-> Records!DecodePlan(stored.manifest[i])] =
          [i \in DOMAIN told.manifest |-> Records!Kept(told.manifest[i])]
    BY <2>2
  <2>9. Records!Load(stored) =
          [manifest    |-> [i \in DOMAIN told.manifest |-> Records!Kept(told.manifest[i])],
           progress    |-> told.progress,
           checkpoints |-> told.checkpoints,
           transcript  |-> told.transcript]
    BY <2>7, <2>8 DEF Records!Load
  <2> QED  BY <2>1, <2>9 DEF ToldType
<1> QED  BY <1>1, <1>2 DEF Records!LoadsBack

-----------------------------------------------------------------------------
(* Every call keeps the codes. *)

LEMMA RecordInit == Init => RecordInv
<1> SUFFICES ASSUME Init PROVE RecordInv  OBVIOUS
<1>1. stored = Records!Nothing /\ told = Records!Nothing /\ half = FALSE
  BY DEF Init, Records!Init
<1>2. \A S : << >> \in Seq(S)  OBVIOUS
<1>3. stored \in StoredType /\ told \in ToldType
  BY <1>1, <1>2 DEF Records!Nothing, StoredType, ToldType
<1>4. RecordsMatch  BY <1>1, CodesEmpty DEF RecordsMatch, Records!Nothing
<1> QED  BY <1>1, <1>3, <1>4 DEF RecordInv

(* A part of the storage, and what was told of it, may be replaced. *)
LEMMA StoredPart ==
  ASSUME NEW s \in StoredType
  PROVE  /\ \A v \in Seq(Coded(PlanCode)) : [s EXCEPT !.manifest = v] \in StoredType
         /\ \A v \in Seq(Coded(TimeCode)) : [s EXCEPT !.progress = v] \in StoredType
         /\ \A v \in Seq(Coded(CheckpointCode)) : [s EXCEPT !.checkpoints = v] \in StoredType
         /\ \A v \in Seq(Coded(RoleCode)) : [s EXCEPT !.transcript = v] \in StoredType
BY DEF StoredType

LEMMA ToldPart ==
  ASSUME NEW s \in ToldType
  PROVE  /\ \A v \in Seq(Plan) : [s EXCEPT !.manifest = v] \in ToldType
         /\ \A v \in Seq(AcceptedTime) : [s EXCEPT !.progress = v] \in ToldType
         /\ \A v \in Seq(AcceptedCheckpoint) : [s EXCEPT !.checkpoints = v] \in ToldType
         /\ \A v \in Seq(DOMAIN RoleCode) : [s EXCEPT !.transcript = v] \in ToldType
BY DEF ToldType

(* What a call gives to be stored, element by element. *)
LEMMA CodeOf ==
  /\ DOMAIN PlanCode = Plan /\ \A x \in Plan : PlanCode[x] = Records!EncodePlan(x)
  /\ DOMAIN TimeCode = AcceptedTime
  /\ \A x \in AcceptedTime : TimeCode[x] = Records!EncodeTime(x)
  /\ DOMAIN CheckpointCode = AcceptedCheckpoint
  /\ \A x \in AcceptedCheckpoint : CheckpointCode[x] = Records!EncodeCheckpoint(x)
BY DEF PlanCode, TimeCode, CheckpointCode

LEMMA MappedCodes ==
  ASSUME NEW f, NEW q \in Seq(DOMAIN f), NEW s, s = [i \in DOMAIN q |-> f[q[i]]]
  PROVE  Codes(f, q, s)
<1>1. DOMAIN s = DOMAIN q /\ \A i \in DOMAIN q : s[i] = f[q[i]] /\ q[i] \in DOMAIN f
  OBVIOUS
<1>2. \A i \in DOMAIN q : s[i] \in Coded(f)  BY <1>1 DEF Coded
<1>3. DOMAIN q = 1 .. Len(q) /\ Len(q) \in Nat  OBVIOUS
<1>4. s \in [1 .. Len(q) -> Coded(f)]  BY <1>1, <1>2, <1>3
<1>5. s \in Seq(Coded(f)) /\ Len(s) = Len(q)  BY <1>3, <1>4, SeqDef
<1> QED  BY <1>1, <1>5 DEF Codes

LEMMA OptionTyped ==
  ASSUME NEW S, NEW o \in Records!Option(S)
  PROVE  o \in Seq(S)
<1>1. << >> \in Seq(S)  OBVIOUS
<1>2. \A x \in S : <<x>> \in Seq(S)  OBVIOUS
<1>3. o = << >> \/ \E x \in S : o = <<x>>  BY DEF Records!Option
<1> QED  BY <1>1, <1>2, <1>3

LEMMA EntryCodes ==
  ASSUME NEW entry \in Records!Option(Instant),
         \A i \in DOMAIN entry : Records!AcceptsTime(entry[i])
  PROVE  Codes(TimeCode, entry, [i \in DOMAIN entry |-> Records!EncodeTime(entry[i])])
<1>1. entry \in Seq(Instant)  BY OptionTyped
<1>2. \A i \in DOMAIN entry : entry[i] \in AcceptedTime
  <2>1. \A i \in DOMAIN entry : entry[i] \in Instant  BY <1>1
  <2>2. \A i \in DOMAIN entry : entry[i] \in Int  BY <2>1, RecordParameters
  <2> QED  BY <2>2 DEF Records!AcceptsTime, AcceptedTime
<1>3. entry \in Seq(AcceptedTime)
  <2>1. DOMAIN entry = 1 .. Len(entry) /\ Len(entry) \in Nat  BY <1>1
  <2>2. entry = [i \in DOMAIN entry |-> entry[i]]  BY <1>1
  <2>3. entry \in [1 .. Len(entry) -> AcceptedTime]  BY <1>2, <2>1, <2>2
  <2> QED  BY <2>1, <2>3, SeqDef
<1>4. [i \in DOMAIN entry |-> Records!EncodeTime(entry[i])] = [i \in DOMAIN entry |-> TimeCode[entry[i]]]
  BY <1>2, CodeOf
<1> QED  BY <1>3, <1>4, CodeOf, MappedCodes

LEMMA CheckpointCodes ==
  ASSUME NEW cs \in Records!Option(Checkpoint),
         \A i \in DOMAIN cs : Records!AcceptsCheckpoint(cs[i])
  PROVE  Codes(CheckpointCode, cs, [i \in DOMAIN cs |-> Records!EncodeCheckpoint(cs[i])])
<1>1. cs \in Seq(Checkpoint)  BY OptionTyped
<1>2. \A i \in DOMAIN cs : cs[i] \in AcceptedCheckpoint
  BY <1>1 DEF AcceptedCheckpoint
<1>3. cs \in Seq(AcceptedCheckpoint)
  <2>1. DOMAIN cs = 1 .. Len(cs) /\ Len(cs) \in Nat  BY <1>1
  <2>2. cs = [i \in DOMAIN cs |-> cs[i]]  BY <1>1
  <2>3. cs \in [1 .. Len(cs) -> AcceptedCheckpoint]  BY <1>2, <2>1, <2>2
  <2> QED  BY <2>1, <2>3, SeqDef
<1>4. [i \in DOMAIN cs |-> Records!EncodeCheckpoint(cs[i])] = [i \in DOMAIN cs |-> CheckpointCode[cs[i]]]
  BY <1>2, CodeOf
<1> QED  BY <1>3, <1>4, CodeOf, MappedCodes

LEMMA RoleCodes == Codes(RoleCode, Roles, Records!EncodeMessages(Roles))
<1>1. Roles \in Seq(DOMAIN RoleCode)  BY RecordParameters
<1>2. Records!EncodeMessages(Roles) = [i \in DOMAIN Roles |-> RoleCode[Roles[i]]]
  BY DEF Records!EncodeMessages, RoleCode
<1> QED  BY <1>1, <1>2, MappedCodes

(* Codes are of their type. *)
LEMMA CodesTyped ==
  ASSUME NEW f, NEW q, NEW s, Codes(f, q, s)
  PROVE  q \in Seq(DOMAIN f) /\ s \in Seq(Coded(f))
BY DEF Codes

LEMMA RecordStep == RecordInv /\ [Next]_vars => RecordInv'
<1> SUFFICES ASSUME RecordInv, [Next]_vars PROVE RecordInv'  OBVIOUS
<1>1. deployment' = deployment
  BY DEF Next, vars, OnMemory, OnFiles, OnSqlite, OnPostgres, OnRecords
<1>2. PlanCode' = PlanCode  BY <1>1 DEF PlanCode, Records!EncodePlan
<1>3. PICK s \in StoredType : s = stored  BY DEF RecordInv
<1>4. PICK t \in ToldType : t = told  BY DEF RecordInv
<1> DEFINE Matched(q, r) ==
             /\ Codes(PlanCode, q.manifest, r.manifest)
             /\ Codes(TimeCode, q.progress, r.progress)
             /\ Codes(CheckpointCode, q.checkpoints, r.checkpoints)
             /\ Codes(RoleCode, q.transcript, r.transcript)
           Good(q, r) == r \in StoredType /\ q \in ToldType /\ (~half => Matched(q, r))
<1>5. RecordsMatch' <=> Matched(told', stored')  BY <1>2 DEF RecordsMatch
<1>6. StoredType' = StoredType  BY <1>2 DEF StoredType
<1>7. Good(told', stored') /\ half' = half => RecordInv'
  BY <1>1, <1>5, <1>6 DEF RecordInv
<1>8. Good(t, s)  BY <1>3, <1>4 DEF RecordInv, RecordsMatch
<1>9. ASSUME NEW q, NEW r, Good(q, r)
      PROVE  /\ \A u, v : Codes(PlanCode, u, v) =>
                  Good([q EXCEPT !.manifest = u], [r EXCEPT !.manifest = v])
             /\ \A u \in Seq(AcceptedTime), v \in Seq(Coded(TimeCode)) :
                  (~half => Codes(TimeCode, u, v)) =>
                    Good([q EXCEPT !.progress = u], [r EXCEPT !.progress = v])
             /\ \A u \in Seq(AcceptedCheckpoint), v \in Seq(Coded(CheckpointCode)) :
                  (~half => Codes(CheckpointCode, u, v)) =>
                    Good([q EXCEPT !.checkpoints = u], [r EXCEPT !.checkpoints = v])
             /\ \A u \in Seq(DOMAIN RoleCode), v \in Seq(Coded(RoleCode)) :
                  (~half => Codes(RoleCode, u, v)) =>
                    Good([q EXCEPT !.transcript = u], [r EXCEPT !.transcript = v])
  <2>1. r \in StoredType /\ q \in ToldType /\ (~half => Matched(q, r))  BY <1>9
  <2>2. ASSUME NEW u, NEW v, Codes(PlanCode, u, v)
        PROVE  Good([q EXCEPT !.manifest = u], [r EXCEPT !.manifest = v])
    <3>1. u \in Seq(Plan) /\ v \in Seq(Coded(PlanCode))  BY <2>2, CodesTyped, CodeOf
    <3>2. [r EXCEPT !.manifest = v] \in StoredType /\ [q EXCEPT !.manifest = u] \in ToldType
      BY <2>1, <3>1, StoredPart, ToldPart
    <3>3. ~half => Matched([q EXCEPT !.manifest = u], [r EXCEPT !.manifest = v])
      BY <2>1, <2>2 DEF StoredType, ToldType
    <3> QED  BY <3>2, <3>3
  <2>3. ASSUME NEW u \in Seq(AcceptedTime), NEW v \in Seq(Coded(TimeCode)),
               ~half => Codes(TimeCode, u, v)
        PROVE  Good([q EXCEPT !.progress = u], [r EXCEPT !.progress = v])
    <3>1. [r EXCEPT !.progress = v] \in StoredType /\ [q EXCEPT !.progress = u] \in ToldType
      BY <2>1, StoredPart, ToldPart
    <3>2. ~half => Matched([q EXCEPT !.progress = u], [r EXCEPT !.progress = v])
      BY <2>1, <2>3 DEF StoredType, ToldType
    <3> QED  BY <3>1, <3>2
  <2>4. ASSUME NEW u \in Seq(AcceptedCheckpoint), NEW v \in Seq(Coded(CheckpointCode)),
               ~half => Codes(CheckpointCode, u, v)
        PROVE  Good([q EXCEPT !.checkpoints = u], [r EXCEPT !.checkpoints = v])
    <3>1. [r EXCEPT !.checkpoints = v] \in StoredType /\ [q EXCEPT !.checkpoints = u] \in ToldType
      BY <2>1, StoredPart, ToldPart
    <3>2. ~half => Matched([q EXCEPT !.checkpoints = u], [r EXCEPT !.checkpoints = v])
      BY <2>1, <2>4 DEF StoredType, ToldType
    <3> QED  BY <3>1, <3>2
  <2>5. ASSUME NEW u \in Seq(DOMAIN RoleCode), NEW v \in Seq(Coded(RoleCode)),
               ~half => Codes(RoleCode, u, v)
        PROVE  Good([q EXCEPT !.transcript = u], [r EXCEPT !.transcript = v])
    <3>1. [r EXCEPT !.transcript = v] \in StoredType /\ [q EXCEPT !.transcript = u] \in ToldType
      BY <2>1, StoredPart, ToldPart
    <3>2. ~half => Matched([q EXCEPT !.transcript = u], [r EXCEPT !.transcript = v])
      BY <2>1, <2>5 DEF StoredType, ToldType
    <3> QED  BY <3>1, <3>2
  <2> HIDE DEF Good
  <2> QED  BY <2>2, <2>3, <2>4, <2>5
<1>10. /\ s.progress \in Seq(Coded(TimeCode)) /\ t.progress \in Seq(AcceptedTime)
       /\ s.checkpoints \in Seq(Coded(CheckpointCode))
       /\ t.checkpoints \in Seq(AcceptedCheckpoint)
       /\ s.transcript \in Seq(Coded(RoleCode)) /\ t.transcript \in Seq(DOMAIN RoleCode)
       /\ ~half => /\ Codes(TimeCode, t.progress, s.progress)
                   /\ Codes(CheckpointCode, t.checkpoints, s.checkpoints)
                   /\ Codes(RoleCode, t.transcript, s.transcript)
  BY <1>8 DEF StoredType, ToldType
<1>11. CASE UNCHANGED recordVars
  <2>1. stored' = s /\ told' = t /\ half' = half  BY <1>3, <1>4, <1>11 DEF recordVars
  <2> QED  BY <1>7, <1>8, <2>1
<1> HIDE DEF Good
<1>12. ASSUME NEW plan \in Plan, Records!SaveManifest(plan) PROVE RecordInv'
  <2>1. Codes(PlanCode, <<plan>>, <<PlanCode[plan]>>)  BY CodeOf, CodesOne
  <2>2. Good([t EXCEPT !.manifest = <<plan>>], [s EXCEPT !.manifest = <<PlanCode[plan]>>])
    BY <1>8, <1>9, <2>1
  <2>3. /\ told' = [t EXCEPT !.manifest = <<plan>>]
        /\ stored' = [s EXCEPT !.manifest = <<PlanCode[plan]>>]
        /\ half' = half
    BY <1>3, <1>4, <1>12, CodeOf DEF Records!SaveManifest, Records!Store
  <2> QED  BY <1>7, <2>2, <2>3
<1>13. ASSUME NEW x \in Instant, Records!AppendProgress(x) PROVE RecordInv'
  <2>1. CASE Records!AcceptsTime(x)
    <3>1. x \in AcceptedTime  BY <2>1, RecordParameters DEF Records!AcceptsTime, AcceptedTime
    <3>2. TimeCode[x] \in Coded(TimeCode)  BY <3>1, CodeOf DEF Coded
    <3> DEFINE u == Append(t.progress, x)
               v == Append(s.progress, TimeCode[x])
    <3>3. u \in Seq(AcceptedTime) /\ v \in Seq(Coded(TimeCode))  BY <1>10, <3>1, <3>2
    <3>4. ~half => Codes(TimeCode, u, v)  BY <1>10, <3>1, CodeOf, CodesAppend
    <3>5. told' = [t EXCEPT !.progress = u] /\ stored' = [s EXCEPT !.progress = v] /\ half' = half
      BY <1>3, <1>4, <1>13, <2>1, <3>1, CodeOf DEF Records!AppendProgress, Records!Store
    <3> HIDE DEF u, v
    <3>6. Good(told', stored')  BY <1>8, <1>9, <3>3, <3>4, <3>5
    <3> QED  BY <1>7, <3>5, <3>6
  <2>2. CASE ~Records!AcceptsTime(x)
    <3>1. UNCHANGED <<stored, told, half>>  BY <1>13, <2>2 DEF Records!AppendProgress
    <3> QED  BY <1>3, <1>4, <1>7, <1>8, <3>1
  <2> QED  BY <2>1, <2>2
<1>14. ASSUME NEW c \in Checkpoint, Records!RecordCheckpoint(c) PROVE RecordInv'
  <2>1. CASE Records!AcceptsCheckpoint(c)
    <3>1. c \in AcceptedCheckpoint  BY <2>1 DEF AcceptedCheckpoint
    <3>2. CheckpointCode[c] \in Coded(CheckpointCode)  BY <3>1, CodeOf DEF Coded
    <3> DEFINE u == Append(t.checkpoints, c)
               v == Append(s.checkpoints, CheckpointCode[c])
    <3>3. u \in Seq(AcceptedCheckpoint) /\ v \in Seq(Coded(CheckpointCode))
      BY <1>10, <3>1, <3>2
    <3>4. ~half => Codes(CheckpointCode, u, v)  BY <1>10, <3>1, CodeOf, CodesAppend
    <3>5. /\ told' = [t EXCEPT !.checkpoints = u] /\ stored' = [s EXCEPT !.checkpoints = v]
          /\ half' = half
      BY <1>3, <1>4, <1>14, <2>1, <3>1, CodeOf DEF Records!RecordCheckpoint, Records!Store
    <3> HIDE DEF u, v
    <3>6. Good(told', stored')  BY <1>8, <1>9, <3>3, <3>4, <3>5
    <3> QED  BY <1>7, <3>5, <3>6
  <2>2. CASE ~Records!AcceptsCheckpoint(c)
    <3>1. UNCHANGED <<stored, told, half>>  BY <1>14, <2>2 DEF Records!RecordCheckpoint
    <3> QED  BY <1>3, <1>4, <1>7, <1>8, <3>1
  <2> QED  BY <2>1, <2>2
<1>15. ASSUME Records!AppendTranscript PROVE RecordInv'
  <2> DEFINE m == Records!EncodeMessages(Roles)
             u == t.transcript \o Roles
             v == s.transcript \o m
  <2>1. Codes(RoleCode, Roles, m)  BY RoleCodes
  <2>2. Roles \in Seq(DOMAIN RoleCode) /\ m \in Seq(Coded(RoleCode))  BY <2>1, CodesTyped
  <2>3. u \in Seq(DOMAIN RoleCode) /\ v \in Seq(Coded(RoleCode))
    BY <1>10, <2>2, ConcatProperties
  <2>4. ~half => Codes(RoleCode, u, v)  BY <1>10, <2>1, CodesConcat
  <2>5. told' = [t EXCEPT !.transcript = u] /\ stored' = [s EXCEPT !.transcript = v] /\ half' = half
    BY <1>3, <1>4, <1>15 DEF Records!AppendTranscript, Records!Store
  <2> HIDE DEF u, v
  <2>6. Good(told', stored')  BY <1>8, <1>9, <2>3, <2>4, <2>5
  <2> QED  BY <1>7, <2>5, <2>6
<1>16. ASSUME NEW plan \in Plan, NEW entry \in Records!Option(Instant),
              NEW cs \in Records!Option(Checkpoint), Records!Initialize(plan, entry, cs)
       PROVE  RecordInv'
  <2> DEFINE logs == \A i \in DOMAIN entry : Records!AcceptsTime(entry[i])
             records == \A i \in DOMAIN cs : Records!AcceptsCheckpoint(cs[i])
             es == [i \in DOMAIN entry |-> Records!EncodeTime(entry[i])]
             ks == [i \in DOMAIN cs |-> Records!EncodeCheckpoint(cs[i])]
             begun == [s EXCEPT !.manifest = <<PlanCode[plan]>>]
             logged == [begun EXCEPT !.progress = s.progress \o es]
             done == [logged EXCEPT !.checkpoints = s.checkpoints \o ks]
             told1 == [t EXCEPT !.manifest = <<plan>>]
             told2 == [told1 EXCEPT !.progress = t.progress \o entry]
             told3 == [told2 EXCEPT !.checkpoints = t.checkpoints \o cs]
  <2>1. \/ UNCHANGED <<stored, told, half>>
        \/ logs /\ records /\ stored' = done /\ told' = told3 /\ half' = half
        \/ /\ ~(logs /\ records)
           /\ stored' = IF deployment # "row_records" THEN s ELSE IF logs THEN logged ELSE begun
           /\ half' = (deployment = "row_records")
           /\ told' = t
    BY <1>3, <1>4, <1>16, CodeOf DEF Records!Initialize, Records!Store, StoredType, ToldType
  <2>2. Good(told1, begun)
    <3>1. Codes(PlanCode, <<plan>>, <<PlanCode[plan]>>)  BY CodeOf, CodesOne
    <3> QED  BY <1>8, <1>9, <3>1
  <2> HIDE DEF begun, told1
  <2>3. logs => Good(told2, logged)
    <3> SUFFICES ASSUME logs PROVE Good(told2, logged)  OBVIOUS
    <3> DEFINE u == t.progress \o entry
               v == s.progress \o es
    <3>1. Codes(TimeCode, entry, es)  BY EntryCodes
    <3>2. entry \in Seq(AcceptedTime) /\ es \in Seq(Coded(TimeCode))  BY <3>1, CodesTyped, CodeOf
    <3>3. u \in Seq(AcceptedTime) /\ v \in Seq(Coded(TimeCode))
      BY <1>10, <3>2, ConcatProperties
    <3>4. ~half => Codes(TimeCode, u, v)  BY <1>10, <3>1, CodesConcat
    <3> HIDE DEF u, v
    <3>5. Good([told1 EXCEPT !.progress = u], [begun EXCEPT !.progress = v])
      BY <1>9, <2>2, <3>3, <3>4
    <3> QED  BY <3>5 DEF u, v
  <2> HIDE DEF logged, told2
  <2>4. logs /\ records => Good(told3, done)
    <3> SUFFICES ASSUME logs, records PROVE Good(told3, done)  OBVIOUS
    <3> DEFINE u == t.checkpoints \o cs
               v == s.checkpoints \o ks
    <3>1. Codes(CheckpointCode, cs, ks)  BY CheckpointCodes
    <3>2. cs \in Seq(AcceptedCheckpoint) /\ ks \in Seq(Coded(CheckpointCode))
      BY <3>1, CodesTyped, CodeOf
    <3>3. u \in Seq(AcceptedCheckpoint) /\ v \in Seq(Coded(CheckpointCode))
      BY <1>10, <3>2, ConcatProperties
    <3>4. ~half => Codes(CheckpointCode, u, v)  BY <1>10, <3>1, CodesConcat
    <3> HIDE DEF u, v
    <3>5. Good([told2 EXCEPT !.checkpoints = u], [logged EXCEPT !.checkpoints = v])
      BY <1>9, <2>3, <3>3, <3>4
    <3> QED  BY <3>5 DEF u, v
  <2> HIDE DEF done, told3
  <2>5. CASE UNCHANGED <<stored, told, half>>  BY <1>3, <1>4, <1>7, <1>8, <2>5
  <2>6. CASE logs /\ records /\ stored' = done /\ told' = told3 /\ half' = half
    BY <1>7, <2>4, <2>6
  <2>7. CASE /\ ~(logs /\ records)
             /\ stored' = IF deployment # "row_records" THEN s ELSE IF logs THEN logged ELSE begun
             /\ half' = (deployment = "row_records")
             /\ told' = t
    <3>1. /\ begun \in StoredType /\ s \in StoredType /\ (logs => logged \in StoredType)
          /\ t \in ToldType /\ (~half => Matched(t, s))
      BY <1>8, <2>2, <2>3 DEF Good
    <3>2. CASE deployment = "row_records"
      <4>1. stored' \in StoredType /\ told' \in ToldType /\ half'  BY <2>7, <3>1, <3>2
      <4> QED  BY <1>1, <1>6, <3>2, <4>1 DEF RecordInv
    <3>3. CASE deployment # "row_records"
      <4>1. ~half /\ ~half' /\ stored' = s /\ told' = t  BY <2>7, <3>3 DEF RecordInv
      <4>2. Matched(told', stored')  BY <3>1, <4>1
      <4> QED  BY <1>5, <1>6, <3>1, <4>1, <4>2 DEF RecordInv
    <3> QED  BY <3>2, <3>3
  <2> QED  BY <2>1, <2>5, <2>6, <2>7
<1>17. CASE Records!Next
  BY <1>12, <1>13, <1>14, <1>15, <1>16, <1>17 DEF Records!Next
<1> QED
  BY <1>11, <1>17 DEF Next, vars, OnMemory, OnFiles, OnSqlite, OnPostgres, OnRecords, recordVars

(* Whatever was written, a session can be loaded, and has every record that *)
(* was acknowledged as it was given, as a document and as rows.             *)
THEOREM LoadsBackHolds == Spec => []LoadsBack
<1>1. RecordInv => LoadsBack  BY ReadsBack DEF LoadsBack
<1> QED  BY <1>1, RecordInit, RecordStep, PTL DEF Spec

-----------------------------------------------------------------------------
(* What the contract promises, and the backends' part in it.              *)

(* The contract's copies of the session's operators are the operators. *)
LEMMA SameContract ==
  /\ Contract!NoAnswer = NoAnswer /\ Contract!Failed = Failed
  /\ \A c, kind, s : /\ Contract!Apply(c, kind, s) = Apply(c, kind, s)
                     /\ Contract!Answer(c, kind, s) = Answer(c, kind, s)
BY DEF Contract!NoAnswer, NoAnswer, Contract!Failed, Failed, Contract!Apply, Apply,
       Contract!Answer, Answer, Contract!Status, Status, Contract!Loaded, Loaded, Contract!Refused, Refused,
       Contract!HasFeature, HasFeature, Contract!IsInitialized, IsInitialized,
       Contract!EmptySession, EmptySession, Contract!InitializeIfMissing, InitializeIfMissing,
       Contract!SaveManifest, SaveManifest, Contract!AppendProgress, AppendProgress, Contract!ReplaceFeatures, ReplaceFeatures,
       Contract!UpdateFeaturePass, UpdateFeaturePass, Contract!RecordCheckpoint, RecordCheckpoint,
       Contract!AppendTranscript, AppendTranscript, Contract!Turn, Turn

(* So are the file backend's. *)
LEMMA SameFile ==
  /\ File!NoAnswer = NoAnswer /\ File!Failed = Failed /\ File!EmptySession = EmptySession
  /\ \A c, kind, s : /\ File!Apply(c, kind, s) = Apply(c, kind, s)
                     /\ File!Answer(c, kind, s) = Answer(c, kind, s)
                     /\ File!Refused(c, kind, s) = Refused(c, kind, s)
BY DEF File!NoAnswer, NoAnswer, File!Failed, Failed, File!Apply, Apply,
       File!Answer, Answer, File!Status, Status, File!Loaded, Loaded, File!Refused, Refused,
       File!HasFeature, HasFeature, File!IsInitialized, IsInitialized,
       File!EmptySession, EmptySession, File!InitializeIfMissing, InitializeIfMissing,
       File!SaveManifest, SaveManifest, File!AppendProgress, AppendProgress, File!ReplaceFeatures, ReplaceFeatures,
       File!UpdateFeaturePass, UpdateFeaturePass, File!RecordCheckpoint, RecordCheckpoint,
       File!AppendTranscript, AppendTranscript, File!Turn, Turn

-----------------------------------------------------------------------------
(* What a step of a backend is to its clients. *)

Promised == {"memory", "files", "sqlite", "postgres_writer", "postgres_initializers"}

(* Only the call of c goes on, to this phase and with this answer. *)
Reaches(c, phase, a) ==
  /\ Phase' = [Phase EXCEPT ![c] = phase]
  /\ Answered' = [Answered EXCEPT ![c] = a]

Calling(c) ==
  /\ Phase[c] = "idle"
  /\ Len(calls[c]) < MaxCalls
  /\ \E kind \in Kind : /\ op' = [op EXCEPT ![c] = kind]
                        /\ calls' = [calls EXCEPT ![c] = Append(@, kind)]
  /\ Reaches(c, "called", NoAnswer)
  /\ UNCHANGED <<View, acked>>

TakingEffect(c) ==
  /\ Phase[c] = "called"
  /\ View' = Apply(c, op[c], View)
  /\ Reaches(c, "done", Answer(c, op[c], View))
  /\ UNCHANGED <<op, calls, acked>>

Responding(c) ==
  /\ Phase[c] = "done"
  /\ acked' = IF Answered[c].status \in {"ok", "created"}
              THEN acked \cup {<<c, op[c]>>} ELSE acked
  /\ Phase' = [Phase EXCEPT ![c] = "idle"]
  /\ UNCHANGED <<View, op, Answered, calls>>

Failing(c) ==
  /\ Phase[c] \in {"called", "done"}
  /\ \/ UNCHANGED View
     \/ Phase[c] = "called" /\ View' = Apply(c, op[c], View)
  /\ Reaches(c, "idle", Failed)
  /\ UNCHANGED <<op, calls, acked>>

Unseen == UNCHANGED <<View, Phase, op, Answered, calls, acked>>

(* Such a step is a step of the contract, or none. *)
LEMMA ContractStep ==
  ASSUME deployment \in Promised, deployment' = deployment,
         Unseen \/ \E c \in Client :
           Calling(c) \/ TakingEffect(c) \/ Responding(c) \/ Failing(c)
  PROVE  [Contract!Next]_(Contract!vars)
<1>1. /\ Shown(View, InitialSession) = View /\ Shown(View, InitialSession)' = View'
      /\ Shown(Phase, [c \in Client |-> "idle"]) = Phase
      /\ Shown(Phase, [c \in Client |-> "idle"])' = Phase'
      /\ Shown(op, [c \in Client |-> "load"]) = op /\ Shown(op, [c \in Client |-> "load"])' = op'
      /\ Shown(Answered, [c \in Client |-> NoAnswer]) = Answered
      /\ Shown(Answered, [c \in Client |-> NoAnswer])' = Answered'
      /\ Shown(calls, [c \in Client |-> << >>]) = calls
      /\ Shown(calls, [c \in Client |-> << >>])' = calls'
      /\ Shown(acked, {}) = acked /\ Shown(acked, {})' = acked'
  BY DEF Shown, Promised
<1>a. Contract!Kind = Kind  BY DEF Contract!Kind, Kind
<1>2. ASSUME NEW c \in Client, Calling(c) PROVE Contract!Call(c)
  BY <1>1, <1>2, <1>a, SameContract DEF Contract!Call, Calling, Reaches
<1>3. ASSUME NEW c \in Client, TakingEffect(c) PROVE Contract!TakeEffect(c)
  BY <1>1, <1>3, SameContract DEF Contract!TakeEffect, TakingEffect, Reaches
<1>4. ASSUME NEW c \in Client, Responding(c) PROVE Contract!Respond(c)
  BY <1>1, <1>4, SameContract DEF Contract!Respond, Responding, Reaches
<1>5. ASSUME NEW c \in Client, Failing(c) PROVE Contract!Fail(c)
  BY <1>1, <1>5, SameContract DEF Contract!Fail, Failing, Reaches
<1>6. CASE Unseen
  BY <1>1, <1>6 DEF Contract!vars, Unseen
<1> QED  BY <1>2, <1>3, <1>4, <1>5, <1>6 DEF Contract!Next

Kept == INSTANCE SessionStoreProofs WITH
  session <- Shown(View, InitialSession),
  phase   <- Shown(Phase, [c \in Client |-> "idle"]),
  op      <- Shown(op, [c \in Client |-> "load"]),
  answer  <- Shown(Answered, [c \in Client |-> NoAnswer]),
  calls   <- Shown(calls, [c \in Client |-> << >>]),
  acked   <- Shown(acked, {}),
  Ops     <- [c \in Client |-> Kind]

(* The clients meet what SessionStoreProofs assumes. *)
LEMMA KeptParameters == Kept!ClientAssumption
<1>1. Kept!Kind = Kind /\ Kept!SessionType = SessionType /\ Kept!FeatureRecord(Feature) = FeatureRecord(Feature)
  BY DEF Kept!Kind, Kind, Kept!SessionType, SessionType, Kept!FeatureRecord, FeatureRecord,
         Kept!Message, Message, Kept!RunStatus, RunStatus
<1> QED  BY <1>1, ClientAssumption DEF Kept!ClientAssumption

(* The proved contract's operators are the operators. *)
LEMMA SameKept ==
  /\ Kept!SessionType = SessionType /\ Kept!Kind = Kind
  /\ \A c, kind, s : Kept!Apply(c, kind, s) = Apply(c, kind, s)
<1>1. Kept!SessionType = SessionType /\ Kept!Kind = Kind
  BY DEF Kept!Kind, Kind, Kept!SessionType, SessionType, Kept!FeatureRecord, FeatureRecord,
         Kept!Message, Message, Kept!RunStatus, RunStatus
<1> QED BY <1>1 DEF  Kept!Apply, Apply,
       Kept!HasFeature, HasFeature, Kept!IsInitialized, IsInitialized,
       Kept!EmptySession, EmptySession, Kept!InitializeIfMissing, InitializeIfMissing,
       Kept!SaveManifest, SaveManifest, Kept!AppendProgress, AppendProgress, Kept!ReplaceFeatures, ReplaceFeatures,
       Kept!UpdateFeaturePass, UpdateFeaturePass, Kept!RecordCheckpoint, RecordCheckpoint,
       Kept!AppendTranscript, AppendTranscript, Kept!Turn, Turn

(* An operation of a session gives a session. *)
LEMMA AppliedTyped ==
  ASSUME NEW c \in Client, NEW kind \in Kind, NEW s \in SessionType
  PROVE  Apply(c, kind, s) \in SessionType
<1>1. \A x \in Client, k \in Kept!Kind, t \in Kept!SessionType :
        Kept!Apply(x, k, t) \in Kept!SessionType
  BY KeptParameters, Kept!ApplyTyped
<1> QED  BY <1>1, SameKept

(* What clients see of each backend that is promised the contract. *)
Seen ==
  /\ deployment = "memory" => Phase = pc /\ View = session
  /\ deployment = "files" =>
       /\ Phase = [c \in Client |-> IF pc[c] = "idle" THEN "idle"
                                   ELSE IF pc[c] \in {"rename", "done"} THEN "done" ELSE "called"]
       /\ View = File!View
  /\ deployment \in {"postgres_writer", "postgres_initializers"} =>
       /\ Phase = [c \in Client |-> IF pc[c] \in {"idle", "done"} THEN pc[c] ELSE "called"]
       /\ View = IF row = NoRow THEN EmptySession ELSE row

(* Phase and View are, per deployment, what Seen says. *)
LEMMA Views == Seen
BY DEF Seen, Phase, View, File!Phase, PostgresWriter!Phase, PostgresWriter!Stored,
       PostgresWriter!EmptySession, EmptySession

(* And so after a step. *)
LEMMA ViewsNext == Seen'
BY Views, PTL

(* While one client's call goes on, the others are where they were. *)
LEMMA OthersWait ==
  ASSUME deployment \in Promised \ {"sqlite"}, deployment' = deployment, NEW c \in Client,
         pc = [d \in Client |-> pc[d]], pc' = [d \in Client |-> pc'[d]],
         \A d \in Client \ {c} : pc'[d] = pc[d] /\ answer'[d] = answer[d]
  PROVE  /\ Phase' = [Phase EXCEPT ![c] = Phase'[c]]
         /\ Answered' = [Answered EXCEPT ![c] = Answered'[c]]
         /\ Answered[c] = IF Phase[c] = "called" THEN NoAnswer ELSE answer[c]
         /\ Answered'[c] = IF Phase'[c] = "called" THEN NoAnswer ELSE answer'[c]
<1>1. Phase = [d \in Client |-> Phase[d]] /\ Phase' = [d \in Client |-> Phase'[d]]
  <2>1. CASE deployment = "memory"  BY <2>1, Views, ViewsNext DEF Seen
  <2>2. CASE deployment = "files"  BY <2>2, Views, ViewsNext DEF Seen
  <2>3. CASE deployment \in {"postgres_writer", "postgres_initializers"}
    BY <2>3, Views, ViewsNext DEF Seen
  <2> QED  BY <2>1, <2>2, <2>3 DEF Promised
<1>2. \A d \in Client \ {c} : Phase'[d] = Phase[d]
  BY Views, ViewsNext DEF Promised, Seen
<1>3. \A d \in Client : Answered[d] = IF Phase[d] = "called" THEN NoAnswer ELSE answer[d]
  BY DEF Answered
<1>4. \A d \in Client : Answered'[d] = IF Phase'[d] = "called" THEN NoAnswer ELSE answer'[d]
  BY DEF Answered
<1>5. Phase' = [Phase EXCEPT ![c] = Phase'[c]]  BY <1>1, <1>2
<1>6. Answered' = [Answered EXCEPT ![c] = Answered'[c]]
  <2>1. \A d \in Client \ {c} : Answered'[d] = Answered[d]  BY <1>2, <1>3, <1>4
  <2>2. Answered = [d \in Client |-> Answered[d]] /\ Answered' = [d \in Client |-> Answered'[d]]
    BY DEF Answered
  <2> QED  BY <2>1, <2>2
<1> QED  BY <1>3, <1>4, <1>5, <1>6

-----------------------------------------------------------------------------
(* Files. *)

Held == IF file = NoFile THEN EmptySession ELSE file

FileInv ==
  /\ file \in SessionType \cup {NoFile}
  /\ draft \in [Client -> SessionType]
  /\ op \in [Client -> Kind]
  /\ pc \in [Client -> File!Writing \cup {"idle", "lock", "done"}]
  /\ DOMAIN answer = Client
  /\ \A c, d \in Client : pc[c] \in File!Writing /\ pc[d] \in File!Writing => c = d
  /\ \A c \in Client :
       /\ pc[c] \in {"write", "create", "remove"} =>
            draft[c] = Apply(c, op[c], Held) /\ answer[c] = Answer(c, op[c], Held)
       /\ pc[c] \in {"create", "remove", "rename"} => tmp = draft[c]
       /\ pc[c] \in {"create", "rename"} => file = NoFile

(* A call that does not write changes nothing. *)
LEMMA NoWrite ==
  ASSUME NEW c \in Client, NEW kind \in Kind, NEW s \in SessionType,
         kind \in Reads \/ Refused(c, kind, s) \/ (kind = "initialize" /\ IsInitialized(s))
  PROVE  Apply(c, kind, s) = s
<1>1. CASE kind \in Reads  BY <1>1 DEF Reads, Apply
<1>2. CASE kind = "initialize" /\ IsInitialized(s)
  BY <1>2 DEF Apply, InitializeIfMissing
<1>3. CASE Refused(c, kind, s)
  <2> DEFINE fs == s.features
  <2>1. Apply(c, kind, s) = UpdateFeaturePass(s, Target[c], TRUE)
    BY <1>3 DEF Refused, Apply
  <2>2. fs \in Seq(FeatureRecord(Feature))  BY DEF SessionType
  <2>3. \A i \in DOMAIN fs : fs[i].id # Target[c]
    BY <1>3 DEF Refused, HasFeature
  <2>4. UpdateFeaturePass(s, Target[c], TRUE) = [s EXCEPT !.features = [i \in DOMAIN fs |-> fs[i]]]
    BY <2>3 DEF UpdateFeaturePass
  <2>5. [i \in DOMAIN fs |-> fs[i]] = fs  BY <2>2
  <2>6. s = [s EXCEPT !.features = s.features]  BY DEF SessionType
  <2> QED  BY <2>1, <2>4, <2>5, <2>6
<1> QED  BY <1>1, <1>2, <1>3

(* A session that was never written is a session. *)
LEMMA EmptyTyped == EmptySession \in SessionType
BY DEF EmptySession, SessionType

(* The files start as FileInv says. *)
LEMMA FileInit == File!Init => FileInv
<1>1. NoAnswer = File!NoAnswer  BY SameFile
<1> QED  BY EmptyTyped, SameFile, ClientAssumption DEF File!Init, FileInv, File!Writing, Kind

(* What is seen of the file. *)
FileSeen ==
  deployment = "files" /\ FileInv =>
    /\ Held \in SessionType
    /\ \A c \in Client : pc[c] = "rename" => View = draft[c]
    /\ (\A c \in Client : pc[c] # "rename") => View = Held

(* FileInv tells what a reader of the file is shown. *)
LEMMA FileView == FileSeen
<1> SUFFICES ASSUME deployment = "files", FileInv PROVE FileSeen!2  BY DEF FileSeen
<1>1. View = File!View  BY Views DEF Seen
<1>2. File!Stored = Held  BY SameFile DEF File!Stored, Held
<1>3. Held \in SessionType  BY EmptyTyped DEF FileInv, Held
<1>4. ASSUME NEW c \in Client, pc[c] = "rename" PROVE View = draft[c]
  <2>1. \A d \in Client : pc[d] = "rename" => d = c  BY <1>4 DEF FileInv, File!Writing
  <2>2. (CHOOSE d \in Client : pc[d] = "rename") = c  BY <1>4, <2>1
  <2> QED  BY <1>1, <1>4, <2>2 DEF File!View
<1>5. (\A c \in Client : pc[c] # "rename") => View = Held
  BY <1>1, <1>2 DEF File!View
<1> QED  BY <1>3, <1>4, <1>5

(* And so after a step. *)
LEMMA FileViewNext == FileSeen'
BY FileView, PTL

(* Clients call the operations of the interface. *)
LEMMA OpsTyped == \A c \in Client : Ops[c] \subseteq Kind /\ WriterOps[c] \subseteq Kind /\ InitializerOps[c] \subseteq Kind
BY ClientAssumption, DeploymentAssumption

(* What a step of c leaves to the others. *)
LEMMA FileOthers ==
  ASSUME deployment = "files", deployment' = deployment, FileInv, NEW c \in Client,
         pc' \in [Client -> File!Writing \cup {"idle", "lock", "done"}],
         \A d \in Client \ {c} : pc'[d] = pc[d] /\ answer'[d] = answer[d]
  PROVE  /\ Phase' = [Phase EXCEPT ![c] = Phase'[c]]
         /\ Answered' = [Answered EXCEPT ![c] = Answered'[c]]
         /\ Answered[c] = IF Phase[c] = "called" THEN NoAnswer ELSE answer[c]
         /\ Answered'[c] = IF Phase'[c] = "called" THEN NoAnswer ELSE answer'[c]
         /\ Phase[c] = IF pc[c] = "idle" THEN "idle"
                       ELSE IF pc[c] \in {"rename", "done"} THEN "done" ELSE "called"
         /\ Phase'[c] = IF pc'[c] = "idle" THEN "idle"
                        ELSE IF pc'[c] \in {"rename", "done"} THEN "done" ELSE "called"
<1>1. pc = [d \in Client |-> pc[d]] /\ pc' = [d \in Client |-> pc'[d]]  BY DEF FileInv
<1>2. \A d \in Client :
        /\ Phase[d] = IF pc[d] = "idle" THEN "idle"
                       ELSE IF pc[d] \in {"rename", "done"} THEN "done" ELSE "called"
        /\ Phase'[d] = IF pc'[d] = "idle" THEN "idle"
                        ELSE IF pc'[d] \in {"rename", "done"} THEN "done" ELSE "called"
  BY Views, ViewsNext DEF Seen
<1> QED  BY <1>1, <1>2, OthersWait DEF Promised

(* filesystem.rs: a call waits for the backend's lock. *)
LEMMA FileCall ==
  ASSUME deployment = "files", deployment' = deployment, FileInv, NEW c \in Client, File!Call(c)
  PROVE  FileInv' /\ Calling(c)
<1>1. PICK kind \in Ops[c] : op' = [op EXCEPT ![c] = kind] /\ calls' = [calls EXCEPT ![c] = Append(@, kind)]
  BY DEF File!Call
<1>2. kind \in Kind  BY OpsTyped
<1>3. /\ pc[c] = "idle" /\ Len(calls[c]) < MaxCalls
      /\ pc' = [pc EXCEPT ![c] = "lock"]
      /\ answer' = [answer EXCEPT ![c] = NoAnswer]
      /\ UNCHANGED <<file, tmp, draft, acked>>
  BY SameFile DEF File!Call
<1>4. pc' \in [Client -> File!Writing \cup {"idle", "lock", "done"}]
  BY <1>3 DEF FileInv
<1>5. /\ pc'[c] = "lock" /\ answer'[c] = NoAnswer /\ DOMAIN answer' = Client /\ op'[c] = kind
      /\ \A d \in Client \ {c} : pc'[d] = pc[d] /\ answer'[d] = answer[d] /\ op'[d] = op[d]
  BY <1>1, <1>3 DEF FileInv
<1>6. FileInv'
  BY <1>1, <1>2, <1>3, <1>4, <1>5 DEF FileInv, Held, File!Writing
<1>7. View' = View
  <2>1. CASE \E d \in Client : pc[d] = "rename"
    BY <1>3, <1>5, <1>6, <2>1, FileView, FileViewNext DEF FileSeen
  <2>2. CASE \A d \in Client : pc[d] # "rename"
    BY <1>3, <1>5, <1>6, <2>2, FileView, FileViewNext DEF FileSeen, Held
  <2> QED  BY <2>1, <2>2
<1>8. Reaches(c, "called", NoAnswer) /\ Phase[c] = "idle"
  BY <1>3, <1>4, <1>5, FileOthers DEF Reaches
<1> QED
  BY <1>1, <1>2, <1>3, <1>6, <1>7, <1>8 DEF Calling

(* It loads the session, and has its answer or what it is to write. *)
LEMMA FileLoad ==
  ASSUME deployment = "files", deployment' = deployment, FileInv, NEW c \in Client, File!LoadState(c)
  PROVE  FileInv' /\ (Unseen \/ TakingEffect(c))
<1> DEFINE doesWrite == File!Writes(c)
<1>1. /\ pc[c] = "lock" /\ \A d \in Client : pc[d] \notin File!Writing
      /\ answer' = [answer EXCEPT ![c] = Answer(c, op[c], Held)]
      /\ UNCHANGED <<file, tmp, op, calls, acked>>
      /\ doesWrite => /\ draft' = [draft EXCEPT ![c] = Apply(c, op[c], Held)]
                   /\ pc' = [pc EXCEPT ![c] = "write"]
      /\ ~doesWrite => /\ draft' = draft
                    /\ pc' = [pc EXCEPT ![c] = "done"]
  BY SameFile DEF File!LoadState, File!Locked, File!Stored, Held
<1>2. ~doesWrite => op[c] \in Reads \/ Refused(c, op[c], Held) \/ (op[c] = "initialize" /\ IsInitialized(Held))
  BY SameFile DEF File!Writes, File!Stored, Held, Reads, File!IsInitialized, IsInitialized
<1> HIDE DEF doesWrite
<1>3. op[c] \in Kind /\ Held \in SessionType /\ Held' = Held
  BY <1>1, FileView DEF FileInv, FileSeen, Held
<1>4. Apply(c, op[c], Held) \in SessionType
  <2>1. PICK kind \in Kind : kind = op[c]  BY <1>3
  <2>2. PICK s \in SessionType : s = Held  BY <1>3
  <2> QED  BY <2>1, <2>2, AppliedTyped
<1>5. ~doesWrite => Apply(c, op[c], Held) = Held
  <2>1. PICK kind \in Kind : kind = op[c]  BY <1>3
  <2>2. PICK s \in SessionType : s = Held  BY <1>3
  <2> QED  BY <1>2, <2>1, <2>2, NoWrite
<1>6. /\ answer'[c] = Answer(c, op[c], Held) /\ DOMAIN answer' = Client
      /\ pc'[c] = IF doesWrite THEN "write" ELSE "done"
      /\ draft' \in [Client -> SessionType]
      /\ doesWrite => draft'[c] = Apply(c, op[c], Held)
      /\ pc' \in [Client -> File!Writing \cup {"idle", "lock", "done"}]
      /\ \A d \in Client \ {c} : pc'[d] = pc[d] /\ answer'[d] = answer[d] /\ draft'[d] = draft[d]
  BY <1>1, <1>4 DEF FileInv, File!Writing
<1>7. FileInv'
  BY <1>1, <1>3, <1>6 DEF FileInv, File!Writing
<1>8. View = Held /\ View' = Held
  BY <1>1, <1>3, <1>6, <1>7, FileView, FileViewNext DEF FileSeen, File!Writing
<1>9. CASE doesWrite
  <2>1. Phase'[c] = "called" /\ Phase[c] = "called"
    BY <1>1, <1>6, <1>9, FileOthers
  <2>2. Phase' = [Phase EXCEPT ![c] = Phase[c]] /\ Answered' = [Answered EXCEPT ![c] = Answered[c]]
    BY <1>1, <1>6, <2>1, FileOthers
  <2>3. Phase' = Phase /\ Answered' = Answered
    BY <2>2, Views DEF Answered, Seen
  <2> QED  BY <1>1, <1>7, <1>8, <2>3 DEF Unseen
<1>10. CASE ~doesWrite
  <2>1. Reaches(c, "done", Answer(c, op[c], View)) /\ Phase[c] = "called"
    BY <1>1, <1>6, <1>8, <1>10, FileOthers DEF Reaches
  <2> QED  BY <1>1, <1>5, <1>7, <1>8, <1>10, <2>1 DEF TakingEffect
<1> QED  BY <1>9, <1>10

(* The step of c is not seen. *)
LEMMA FileUnseen ==
  ASSUME deployment = "files", deployment' = deployment, FileInv, NEW c \in Client,
         pc' \in [Client -> File!Writing \cup {"idle", "lock", "done"}],
         \A d \in Client \ {c} : pc'[d] = pc[d] /\ answer'[d] = answer[d],
         Phase'[c] = Phase[c], answer'[c] = answer[c]
  PROVE  Phase' = Phase /\ Answered' = Answered
<1>1. Phase' = [Phase EXCEPT ![c] = Phase[c]] /\ Answered' = [Answered EXCEPT ![c] = Answered[c]]
  BY FileOthers
<1> QED  BY <1>1, Views DEF Answered, Seen

(* The write of the temporary file shows nothing. *)
LEMMA FileWriteTmp ==
  ASSUME deployment = "files", deployment' = deployment, FileInv, NEW c \in Client, File!WriteTmp(c)
  PROVE  FileInv' /\ Unseen
<1> DEFINE p == IF file = NoFile THEN "create" ELSE "remove"
<1>1. /\ pc[c] = "write" /\ tmp' = draft[c]
      /\ pc' = [pc EXCEPT ![c] = p]
      /\ UNCHANGED <<file, draft, op, answer, calls, acked>>
  BY DEF File!WriteTmp
<1>2. /\ pc'[c] = p /\ p \in {"create", "remove"} /\ (p = "create" => file = NoFile)
      /\ pc' \in [Client -> File!Writing \cup {"idle", "lock", "done"}]
      /\ \A d \in Client \ {c} : pc'[d] = pc[d] /\ pc[d] \notin File!Writing
  BY <1>1 DEF FileInv, File!Writing
<1> HIDE DEF p
<1>3. FileInv'
  BY <1>1, <1>2 DEF FileInv, File!Writing, Held
<1>4. View = Held /\ View' = Held'
  BY <1>1, <1>2, <1>3, FileView, FileViewNext DEF FileSeen, File!Writing
<1>5. Phase'[c] = Phase[c]
  BY <1>1, <1>2, FileOthers
<1>6. Phase' = Phase /\ Answered' = Answered
  BY <1>1, <1>2, <1>5, FileUnseen
<1> QED  BY <1>1, <1>3, <1>4, <1>6 DEF Unseen, Held

(* The removal of the old file is where a write of it takes effect: nothing but the rename can follow. *)
LEMMA FileRemove ==
  ASSUME deployment = "files", deployment' = deployment, FileInv, NEW c \in Client, File!RemoveFile(c)
  PROVE  FileInv' /\ TakingEffect(c)
<1>1. /\ pc[c] = "remove" /\ file' = NoFile
      /\ pc' = [pc EXCEPT ![c] = "rename"]
      /\ UNCHANGED <<tmp, draft, op, answer, calls, acked>>
  BY DEF File!RemoveFile
<1>2. /\ pc'[c] = "rename"
      /\ pc' \in [Client -> File!Writing \cup {"idle", "lock", "done"}]
      /\ \A d \in Client \ {c} : pc'[d] = pc[d] /\ pc[d] \notin File!Writing
  BY <1>1 DEF FileInv, File!Writing
<1>3. FileInv'
  BY <1>1, <1>2 DEF FileInv, File!Writing
<1>4. View = Held /\ View' = draft[c]
  BY <1>1, <1>2, <1>3, FileView, FileViewNext DEF FileSeen, File!Writing
<1>5. draft[c] = Apply(c, op[c], Held) /\ answer[c] = Answer(c, op[c], Held)
  BY <1>1 DEF FileInv
<1>6. Reaches(c, "done", Answer(c, op[c], View)) /\ Phase[c] = "called"
  BY <1>1, <1>2, <1>4, <1>5, FileOthers DEF Reaches
<1> QED  BY <1>1, <1>3, <1>4, <1>5, <1>6 DEF TakingEffect

(* A missing file is no session. *)
LEMMA NoFileTyped == NoFile \notin SessionType
<1>1. File!SessionType = SessionType
  BY DEF File!SessionType, SessionType, File!FeatureRecord, FeatureRecord,
         File!Message, Message, File!RunStatus, RunStatus
<1> QED  BY <1>1, DeploymentAssumption DEF File!FileAssumption

(* The rename is where the first write takes effect, and shows nothing of the others. *)
LEMMA FileRename ==
  ASSUME deployment = "files", deployment' = deployment, FileInv, NEW c \in Client, File!RenameTmp(c)
  PROVE  FileInv' /\ (Unseen \/ TakingEffect(c))
<1>1. /\ pc[c] \in {"create", "rename"} /\ file' = tmp
      /\ pc' = [pc EXCEPT ![c] = "done"]
      /\ draft' = [draft EXCEPT ![c] = EmptySession]
      /\ UNCHANGED <<op, answer, calls, acked>>
  BY SameFile DEF File!RenameTmp
<1>2. /\ pc'[c] = "done" /\ tmp = draft[c] /\ file = NoFile /\ draft[c] \in SessionType
      /\ pc' \in [Client -> File!Writing \cup {"idle", "lock", "done"}]
      /\ draft' \in [Client -> SessionType]
      /\ \A d \in Client \ {c} : pc'[d] = pc[d] /\ pc[d] \notin File!Writing
  BY <1>1, EmptyTyped DEF FileInv, File!Writing
<1>3. FileInv'
  BY <1>1, <1>2 DEF FileInv, File!Writing
<1>5. View' = draft[c]
  <2>1. View' = Held'
    BY <1>1, <1>2, <1>3, FileViewNext DEF FileSeen, File!Writing
  <2> QED  BY <1>1, <1>2, <2>1, NoFileTyped DEF Held
<1>6. CASE pc[c] = "rename"
  <2>1. View = draft[c]  BY <1>6, FileView DEF FileSeen
  <2>2. Phase'[c] = Phase[c]  BY <1>1, <1>2, <1>6, FileOthers
  <2>3. Phase' = Phase /\ Answered' = Answered  BY <1>1, <1>2, <2>2, FileUnseen
  <2> QED  BY <1>1, <1>3, <1>5, <2>1, <2>3 DEF Unseen
<1>7. CASE pc[c] = "create"
  <2>1. View = Held
    BY <1>2, <1>7, FileView DEF FileSeen, File!Writing
  <2>2. draft[c] = Apply(c, op[c], Held) /\ answer[c] = Answer(c, op[c], Held)
    BY <1>7 DEF FileInv
  <2>3. Reaches(c, "done", Answer(c, op[c], View)) /\ Phase[c] = "called"
    BY <1>1, <1>2, <1>7, <2>1, <2>2, FileOthers DEF Reaches
  <2> QED  BY <1>1, <1>3, <1>5, <2>1, <2>2, <2>3 DEF TakingEffect
<1> QED  BY <1>1, <1>6, <1>7

(* A caller gets the answer. *)
LEMMA FileRespond ==
  ASSUME deployment = "files", deployment' = deployment, FileInv, NEW c \in Client, File!Respond(c)
  PROVE  FileInv' /\ Responding(c)
<1>1. /\ pc[c] = "done"
      /\ pc' = [pc EXCEPT ![c] = "idle"]
      /\ acked' = IF answer[c].status \in {"ok", "created"} THEN acked \cup {<<c, op[c]>>} ELSE acked
      /\ UNCHANGED <<file, tmp, draft, op, answer, calls>>
  BY DEF File!Respond
<1>2. /\ pc'[c] = "idle"
      /\ pc' \in [Client -> File!Writing \cup {"idle", "lock", "done"}]
      /\ \A d \in Client \ {c} : pc'[d] = pc[d]
  BY <1>1 DEF FileInv, File!Writing
<1>3. FileInv'
  BY <1>1, <1>2 DEF FileInv, File!Writing, Held
<1>4. View' = View
  <2>1. CASE \E d \in Client : pc[d] = "rename"
    BY <1>1, <1>2, <1>3, <2>1, FileView, FileViewNext DEF FileSeen
  <2>2. CASE \A d \in Client : pc[d] # "rename"
    BY <1>1, <1>2, <1>3, <2>2, FileView, FileViewNext DEF FileSeen, Held
  <2> QED  BY <2>1, <2>2
<1>5. /\ Phase[c] = "done" /\ Phase' = [Phase EXCEPT ![c] = "idle"]
      /\ Answered[c] = answer[c] /\ Answered' = [Answered EXCEPT ![c] = Answered[c]]
  BY <1>1, <1>2, FileOthers
<1>6. Answered' = Answered  BY <1>5 DEF Answered
<1> QED  BY <1>1, <1>3, <1>4, <1>5, <1>6 DEF Responding

(* An error leaves the file, and so the session. *)
LEMMA FileFail ==
  ASSUME deployment = "files", deployment' = deployment, FileInv, NEW c \in Client, File!Fail(c)
  PROVE  FileInv' /\ Failing(c)
<1>1. /\ pc[c] \notin {"idle", "rename"}
      /\ tmp' # tmp => pc[c] = "write"
      /\ pc' = [pc EXCEPT ![c] = "idle"]
      /\ draft' = [draft EXCEPT ![c] = EmptySession]
      /\ answer' = [answer EXCEPT ![c] = Failed]
      /\ UNCHANGED <<file, op, calls, acked>>
  BY SameFile DEF File!Fail
<1>2. /\ pc'[c] = "idle" /\ answer'[c] = Failed /\ DOMAIN answer' = Client
      /\ pc' \in [Client -> File!Writing \cup {"idle", "lock", "done"}]
      /\ draft' \in [Client -> SessionType]
      /\ \A d \in Client \ {c} : pc'[d] = pc[d] /\ answer'[d] = answer[d] /\ draft'[d] = draft[d]
      /\ \A d \in Client \ {c} : pc[d] \in File!Writing => tmp' = tmp
  BY <1>1, EmptyTyped DEF FileInv, File!Writing
<1>3. FileInv'
  BY <1>1, <1>2 DEF FileInv, File!Writing, Held
<1>4. View' = View
  <2>1. CASE \E d \in Client : pc[d] = "rename"
    BY <1>1, <1>2, <1>3, <2>1, FileView, FileViewNext DEF FileSeen
  <2>2. CASE \A d \in Client : pc[d] # "rename"
    BY <1>1, <1>2, <1>3, <2>2, FileView, FileViewNext DEF FileSeen, Held
  <2> QED  BY <2>1, <2>2
<1>5. Phase[c] \in {"called", "done"} /\ Reaches(c, "idle", Failed)
  BY <1>1, <1>2, FileOthers DEF Reaches
<1> QED  BY <1>1, <1>3, <1>4, <1>5 DEF Failing

(* Every step of the files is one of the contract's, or is not seen. *)
LEMMA FileStep ==
  ASSUME deployment = "files", deployment' = deployment, FileInv, File!Next
  PROVE  /\ FileInv'
         /\ Unseen \/ \E c \in Client :
              Calling(c) \/ TakingEffect(c) \/ Responding(c) \/ Failing(c)
BY FileCall, FileLoad, FileWriteTmp, FileRemove, FileRename, FileRespond, FileFail DEF File!Next

-----------------------------------------------------------------------------
(* PostgreSQL. *)

LEMMA SamePostgres ==
  /\ PostgresWriter!NoAnswer = NoAnswer /\ PostgresWriter!Failed = Failed
  /\ PostgresWriter!EmptySession = EmptySession
  /\ \A s : PostgresWriter!IsInitialized(s) = IsInitialized(s)
  /\ \A c, kind, s : /\ PostgresWriter!Apply(c, kind, s) = Apply(c, kind, s)
                     /\ PostgresWriter!Answer(c, kind, s) = Answer(c, kind, s)
                     /\ PostgresWriter!Refused(c, kind, s) = Refused(c, kind, s)
BY DEF PostgresWriter!NoAnswer, NoAnswer, PostgresWriter!Failed, Failed, PostgresWriter!Apply, Apply,
       PostgresWriter!Answer, Answer, PostgresWriter!Status, Status, PostgresWriter!Loaded, Loaded,
       PostgresWriter!Refused, Refused, PostgresWriter!HasFeature, HasFeature,
       PostgresWriter!IsInitialized, IsInitialized, PostgresWriter!EmptySession, EmptySession,
       PostgresWriter!InitializeIfMissing, InitializeIfMissing, PostgresWriter!SaveManifest, SaveManifest,
       PostgresWriter!AppendProgress, AppendProgress, PostgresWriter!ReplaceFeatures, ReplaceFeatures,
       PostgresWriter!UpdateFeaturePass, UpdateFeaturePass, PostgresWriter!RecordCheckpoint, RecordCheckpoint,
       PostgresWriter!AppendTranscript, AppendTranscript, PostgresWriter!Turn, Turn

(* And so with the other parameters. *)
LEMMA SameInitializers ==
  /\ PostgresInitializers!NoAnswer = NoAnswer /\ PostgresInitializers!Failed = Failed
  /\ PostgresInitializers!EmptySession = EmptySession
  /\ \A s : PostgresInitializers!IsInitialized(s) = IsInitialized(s)
  /\ \A c, kind, s : /\ PostgresInitializers!Apply(c, kind, s) = Apply(c, kind, s)
                     /\ PostgresInitializers!Answer(c, kind, s) = Answer(c, kind, s)
                     /\ PostgresInitializers!Refused(c, kind, s) = Refused(c, kind, s)
BY DEF PostgresInitializers!NoAnswer, NoAnswer, PostgresInitializers!Failed, Failed, PostgresInitializers!Apply, Apply,
       PostgresInitializers!Answer, Answer, PostgresInitializers!Status, Status, PostgresInitializers!Loaded, Loaded,
       PostgresInitializers!Refused, Refused, PostgresInitializers!HasFeature, HasFeature,
       PostgresInitializers!IsInitialized, IsInitialized, PostgresInitializers!EmptySession, EmptySession,
       PostgresInitializers!InitializeIfMissing, InitializeIfMissing, PostgresInitializers!SaveManifest, SaveManifest,
       PostgresInitializers!AppendProgress, AppendProgress, PostgresInitializers!ReplaceFeatures, ReplaceFeatures,
       PostgresInitializers!UpdateFeaturePass, UpdateFeaturePass, PostgresInitializers!RecordCheckpoint, RecordCheckpoint,
       PostgresInitializers!AppendTranscript, AppendTranscript, PostgresInitializers!Turn, Turn

OnRow == {"postgres_writer", "postgres_initializers"}
RowOps == IF deployment = "postgres_writer" THEN WriterOps ELSE InitializerOps

(* Both uses of PostgreSQL take the same statements, of other operations. *)
CallRow(c) ==
  /\ pc[c] = "idle"
  /\ Len(calls[c]) < MaxCalls
  /\ \E kind \in RowOps[c] : /\ op' = [op EXCEPT ![c] = kind]
                             /\ calls' = [calls EXCEPT ![c] = Append(@, kind)]
  /\ pc' = [pc EXCEPT ![c] = "select"]
  /\ answer' = [answer EXCEPT ![c] = NoAnswer]
  /\ UNCHANGED <<row, lock, draft, acked>>

StatementOf(c) ==
  \/ PostgresWriter!SelectForUpdate(c) \/ PostgresWriter!Insert(c) \/ PostgresWriter!Commit(c)
  \/ PostgresWriter!LoadState(c) \/ PostgresWriter!SaveState(c)
  \/ PostgresWriter!Respond(c) \/ PostgresWriter!Fail(c)

(* A step of either use is a call or a statement. *)
LEMMA RowSteps ==
  ASSUME \/ deployment = "postgres_writer" /\ PostgresWriter!Next
         \/ deployment = "postgres_initializers" /\ PostgresInitializers!Next
  PROVE  \E c \in Client : CallRow(c) \/ StatementOf(c)
<1>1. CASE deployment = "postgres_writer" /\ PostgresWriter!Next
  BY <1>1, SamePostgres DEF PostgresWriter!Next, PostgresWriter!Call, CallRow, RowOps, StatementOf
<1>2. CASE deployment = "postgres_initializers" /\ PostgresInitializers!Next
  <2>1. PICK c \in Client :
          \/ PostgresInitializers!Call(c)
          \/ PostgresInitializers!SelectForUpdate(c) \/ PostgresInitializers!Insert(c)
          \/ PostgresInitializers!Commit(c)
          \/ PostgresInitializers!LoadState(c) \/ PostgresInitializers!SaveState(c)
          \/ PostgresInitializers!Respond(c) \/ PostgresInitializers!Fail(c)
    BY <1>2 DEF PostgresInitializers!Next
  <2>2. \A x, a : PostgresInitializers!Finish(x, a) <=> PostgresWriter!Finish(x, a)
    BY SamePostgres, SameInitializers DEF PostgresWriter!Finish, PostgresInitializers!Finish
  <2>3. PostgresInitializers!Stored = PostgresWriter!Stored
    BY SamePostgres, SameInitializers DEF PostgresWriter!Stored, PostgresInitializers!Stored
  <2>4. PostgresInitializers!Call(c) => CallRow(c)
    BY <1>2, SameInitializers DEF PostgresInitializers!Call, CallRow, RowOps
  <2>5. PostgresInitializers!SelectForUpdate(c) => PostgresWriter!SelectForUpdate(c)
    BY <2>2, <2>3, SamePostgres, SameInitializers
    DEF PostgresInitializers!SelectForUpdate, PostgresWriter!SelectForUpdate
  <2>6. PostgresInitializers!LoadState(c) => PostgresWriter!LoadState(c)
    BY <2>2, <2>3, SamePostgres, SameInitializers
    DEF PostgresInitializers!LoadState, PostgresWriter!LoadState, PostgresInitializers!IsRead, PostgresWriter!IsRead
  <2>7. PostgresInitializers!Insert(c) => PostgresWriter!Insert(c)
    BY DEF PostgresInitializers!Insert, PostgresWriter!Insert
  <2>8. PostgresInitializers!Commit(c) => PostgresWriter!Commit(c)
    BY <2>2, SamePostgres, SameInitializers DEF PostgresInitializers!Commit, PostgresWriter!Commit
  <2>9. PostgresInitializers!SaveState(c) => PostgresWriter!SaveState(c)
    BY <2>2, SamePostgres, SameInitializers DEF PostgresInitializers!SaveState, PostgresWriter!SaveState
  <2>10. PostgresInitializers!Respond(c) => PostgresWriter!Respond(c)
    BY DEF PostgresInitializers!Respond, PostgresWriter!Respond
  <2>11. PostgresInitializers!Fail(c) => PostgresWriter!Fail(c)
    BY SamePostgres, SameInitializers DEF PostgresInitializers!Fail, PostgresWriter!Fail
  <2> QED
    BY <2>1, <2>4, <2>5, <2>6, <2>7, <2>8, <2>9, <2>10, <2>11 DEF StatementOf
<1> QED  BY <1>1, <1>2

RowHeld == IF row = NoRow THEN EmptySession ELSE row

RowPoints == {"idle", "select", "insert", "commit", "save", "done"}
RowWriting == {"insert", "commit", "save"}

RowInv ==
  /\ row \in SessionType \cup {NoRow}
  /\ draft \in [Client -> SessionType]
  /\ op \in [Client -> Kind]
  /\ pc \in [Client -> RowPoints]
  /\ DOMAIN answer = Client
  /\ lock # NoClient => lock \in Client /\ pc[lock] \in {"insert", "commit"}
  /\ \A c, d \in Client : pc[c] \in RowWriting /\ pc[d] \in RowWriting => c = d
  /\ \A c \in Client :
       /\ pc[c] # "idle" => op[c] \in RowOps[c]
       /\ pc[c] \in RowWriting => op[c] \notin Reads /\ draft[c] = Apply(c, op[c], RowHeld)
       /\ pc[c] \in {"insert", "commit"} => op[c] = "initialize" /\ ~IsInitialized(RowHeld)
       /\ pc[c] = "save" => op[c] # "initialize" /\ ~Refused(c, op[c], RowHeld)
       /\ pc[c] = "commit" => lock = c
       /\ deployment = "postgres_initializers" /\ pc[c] = "insert" => lock = c
  /\ deployment = "postgres_initializers" => row # NoRow

(* What is assumed of the callers of a row. *)
LEMMA RowParameters ==
  /\ NoRow \notin SessionType /\ NoClient \notin Client
  /\ \A c \in Client : RowOps[c] \subseteq Kind
  /\ deployment = "postgres_writer" =>
       \A c, d \in Client : c # d => RowOps[c] \subseteq Reads \/ RowOps[d] \subseteq Reads
  /\ deployment = "postgres_initializers" =>
       \A c \in Client : RowOps[c] \subseteq {"initialize"} \cup Reads
<1>1. PostgresWriter!SessionType = SessionType
  BY DEF PostgresWriter!SessionType, SessionType, PostgresWriter!FeatureRecord, FeatureRecord,
         PostgresWriter!Message, Message, PostgresWriter!RunStatus, RunStatus
<1>2. \A c \in Client : WriterOps[c] \subseteq Kind /\ InitializerOps[c] \subseteq Kind
  BY DeploymentAssumption
<1> QED  BY <1>1, <1>2, DeploymentAssumption DEF PostgresWriter!RowAssumption, RowOps

(* The row starts as RowInv says. *)
LEMMA RowInit ==
  ASSUME \/ deployment = "postgres_writer" /\ PostgresWriter!Init
         \/ deployment = "postgres_initializers" /\ PostgresInitializers!Init
  PROVE  RowInv
<1>1. /\ row = NoRow \/ row = InitialSession
      /\ lock = NoClient
      /\ draft = [c \in Client |-> EmptySession]
      /\ pc = [c \in Client |-> "idle"] /\ op = [c \in Client |-> "load"]
      /\ DOMAIN answer = Client
      /\ deployment = "postgres_initializers" => row = InitialSession
  BY SamePostgres, SameInitializers DEF PostgresWriter!Init, PostgresInitializers!Init
<1> QED  BY <1>1, EmptyTyped, ClientAssumption, RowParameters DEF RowInv, RowPoints, RowWriting, Kind

(* A reader of the row is shown the session in it, or an empty one. *)
LEMMA RowView == deployment \in OnRow /\ RowInv => View = RowHeld /\ RowHeld \in SessionType
BY Views, EmptyTyped DEF Seen, OnRow, RowHeld, RowInv

RowSeen == deployment \in OnRow => View = RowHeld

(* What is seen of the row. *)
LEMMA RowSees == RowSeen
BY Views DEF Seen, OnRow, RowSeen, RowHeld

(* And so after a step. *)
LEMMA RowSeesNext == RowSeen'
BY RowSees, PTL

(* Of two calls that are going to write, neither can have begun.  *)
LEMMA OneWriter ==
  ASSUME deployment \in OnRow, RowInv, NEW c \in Client, pc[c] = "select", op[c] \notin Reads,
         deployment = "postgres_writer" \/ lock = NoClient
  PROVE  \A d \in Client : pc[d] \notin RowWriting
<1> SUFFICES ASSUME NEW d \in Client, pc[d] \in RowWriting PROVE FALSE  OBVIOUS
<1>1. d # c /\ op[d] \in RowOps[d] /\ op[d] \notin Reads /\ op[c] \in RowOps[c]
  BY DEF RowInv, RowWriting
<1>2. CASE deployment = "postgres_writer"  BY <1>1, <1>2, RowParameters
<1>3. CASE deployment = "postgres_initializers" /\ lock = NoClient
  <2>1. op[d] = "initialize"  BY <1>1, <1>3, RowParameters
  <2>2. lock = d  BY <1>3, <2>1 DEF RowInv, RowWriting
  <2> QED  BY <1>3, <2>2, RowParameters
<1> QED  BY <1>2, <1>3 DEF OnRow

(* What a step of c on the row leaves to the others. *)
LEMMA RowOthers ==
  ASSUME deployment \in OnRow, deployment' = deployment, RowInv, NEW c \in Client,
         pc' \in [Client -> RowPoints],
         \A d \in Client \ {c} : pc'[d] = pc[d] /\ answer'[d] = answer[d]
  PROVE  /\ Phase' = [Phase EXCEPT ![c] = Phase'[c]]
         /\ Answered' = [Answered EXCEPT ![c] = Answered'[c]]
         /\ Answered[c] = IF Phase[c] = "called" THEN NoAnswer ELSE answer[c]
         /\ Answered'[c] = IF Phase'[c] = "called" THEN NoAnswer ELSE answer'[c]
         /\ Phase[c] = IF pc[c] \in {"idle", "done"} THEN pc[c] ELSE "called"
         /\ Phase'[c] = IF pc'[c] \in {"idle", "done"} THEN pc'[c] ELSE "called"
<1>1. pc = [d \in Client |-> pc[d]] /\ pc' = [d \in Client |-> pc'[d]]  BY DEF RowInv
<1>2. \A d \in Client :
        /\ Phase[d] = IF pc[d] \in {"idle", "done"} THEN pc[d] ELSE "called"
        /\ Phase'[d] = IF pc'[d] \in {"idle", "done"} THEN pc'[d] ELSE "called"
  BY Views, ViewsNext DEF Seen, OnRow
<1> QED  BY <1>1, <1>2, OthersWait DEF Promised, OnRow

(* A step of c that leaves the row, and c where it was, is not seen. *)
LEMMA RowUnseen ==
  ASSUME deployment \in OnRow, deployment' = deployment, RowInv, NEW c \in Client,
         pc' \in [Client -> RowPoints],
         \A d \in Client \ {c} : pc'[d] = pc[d] /\ answer'[d] = answer[d],
         Phase'[c] = Phase[c], answer'[c] = answer[c], row' = row,
         UNCHANGED <<op, calls, acked>>
  PROVE  Unseen
<1>1. Phase' = [Phase EXCEPT ![c] = Phase[c]] /\ Answered' = [Answered EXCEPT ![c] = Answered[c]]
  BY RowOthers
<1>2. Phase' = Phase /\ Answered' = Answered  BY <1>1, Views DEF Answered, Seen, OnRow
<1>3. View' = View
  <2>1. View = RowHeld /\ View' = RowHeld' BY RowSees, RowSeesNext DEF RowSeen
  <2> QED  BY <2>1 DEF RowHeld
<1> QED  BY <1>2, <1>3 DEF Unseen

(* postgres.rs: a call begins. *)
LEMMA RowCall ==
  ASSUME deployment \in OnRow, deployment' = deployment, RowInv, NEW c \in Client, CallRow(c)
  PROVE  RowInv' /\ Calling(c)
<1>1. PICK kind \in RowOps[c] : op' = [op EXCEPT ![c] = kind] /\ calls' = [calls EXCEPT ![c] = Append(@, kind)]
  BY DEF CallRow
<1>2. kind \in Kind  BY RowParameters
<1>3. /\ pc[c] = "idle" /\ Len(calls[c]) < MaxCalls
      /\ pc' = [pc EXCEPT ![c] = "select"]
      /\ answer' = [answer EXCEPT ![c] = NoAnswer]
      /\ UNCHANGED <<row, lock, draft, acked>>
  BY DEF CallRow
<1>4. pc' \in [Client -> RowPoints]
  BY <1>3 DEF RowInv, RowPoints
<1>5. /\ pc'[c] = "select" /\ answer'[c] = NoAnswer /\ DOMAIN answer' = Client /\ op'[c] = kind
      /\ op' \in [Client -> Kind]
      /\ \A d \in Client \ {c} : pc'[d] = pc[d] /\ answer'[d] = answer[d] /\ op'[d] = op[d]
  BY <1>1, <1>2, <1>3 DEF RowInv
<1>6. RowOps' = RowOps /\ RowHeld' = RowHeld  BY <1>3 DEF RowOps, RowHeld
<1>7. RowInv'
  BY <1>2, <1>3, <1>4, <1>5, <1>6 DEF RowInv, RowWriting
<1>8. View' = View
  BY <1>6, RowSees, RowSeesNext DEF RowSeen
<1>9. Reaches(c, "called", NoAnswer) /\ Phase[c] = "idle"
  BY <1>3, <1>4, <1>5, RowOthers DEF Reaches
<1> QED
  BY <1>1, <1>2, <1>3, <1>7, <1>8, <1>9 DEF Calling

(* A call that ends has its answer, and nothing to write. *)
Ends(c, a) ==
  /\ pc' = [pc EXCEPT ![c] = "done"]
  /\ answer' = [answer EXCEPT ![c] = a]
  /\ draft' = [draft EXCEPT ![c] = EmptySession]

(* A call that ends, in the words of the backend. *)
LEMMA RowEnds == \A c, a : PostgresWriter!Finish(c, a) <=> Ends(c, a)
BY SamePostgres DEF PostgresWriter!Finish, Ends

(* The session that a statement reads. *)
LEMMA RowStored == PostgresWriter!Stored = RowHeld
BY SamePostgres DEF PostgresWriter!Stored, RowHeld

(* What a call that ends changes. *)
LEMMA AtEnd ==
  ASSUME RowInv, NEW c \in Client, NEW a, Ends(c, a)
  PROVE  /\ pc'[c] = "done" /\ answer'[c] = a /\ draft' \in [Client -> SessionType]
         /\ pc' \in [Client -> RowPoints] /\ DOMAIN answer' = Client
         /\ \A d \in Client \ {c} : pc'[d] = pc[d] /\ answer'[d] = answer[d] /\ draft'[d] = draft[d]
BY EmptyTyped DEF RowInv, Ends, RowPoints

(* The call of c ends at its first statement, without a write. *)
LEMMA RowReads ==
  ASSUME deployment \in OnRow, deployment' = deployment, RowInv, NEW c \in Client,
         pc[c] = "select", Ends(c, Answer(c, op[c], RowHeld)),
         op[c] \in Reads \/ Refused(c, op[c], RowHeld) \/ (op[c] = "initialize" /\ IsInitialized(RowHeld)),
         UNCHANGED <<row, lock, op, calls, acked>>
  PROVE  RowInv' /\ TakingEffect(c)
<1>1. PICK a : a = Answer(c, op[c], RowHeld)  OBVIOUS
<1>2. /\ pc'[c] = "done" /\ answer'[c] = a /\ draft' \in [Client -> SessionType]
      /\ pc' \in [Client -> RowPoints] /\ DOMAIN answer' = Client
      /\ \A d \in Client \ {c} : pc'[d] = pc[d] /\ answer'[d] = answer[d] /\ draft'[d] = draft[d]
  <2>1. Ends(c, a)  BY <1>1
  <2> QED  BY <2>1, AtEnd
<1>3. RowOps' = RowOps /\ RowHeld' = RowHeld  BY DEF RowOps, RowHeld
<1>4. RowInv'
  BY <1>2, <1>3 DEF RowInv, RowWriting
<1>5. View = RowHeld /\ View' = RowHeld /\ RowHeld \in SessionType
  BY <1>3, RowSees, RowSeesNext, RowView DEF RowSeen
<1>6. Apply(c, op[c], RowHeld) = RowHeld
  <2>1. PICK kind \in Kind : kind = op[c]  BY DEF RowInv
  <2>2. PICK s \in SessionType : s = RowHeld  BY <1>5
  <2> QED  BY <2>1, <2>2, NoWrite
<1>7. Reaches(c, "done", a) /\ Phase[c] = "called"
  BY <1>2, RowOthers DEF Reaches
<1> QED  BY <1>1, <1>4, <1>5, <1>6, <1>7 DEF TakingEffect

(* The call of c goes on to write. *)
LEMMA RowComputes ==
  ASSUME deployment \in OnRow, deployment' = deployment, RowInv, NEW c \in Client,
         pc[c] = "select", op[c] \notin Reads,
         draft' = [draft EXCEPT ![c] = Apply(c, op[c], RowHeld)],
         \/ /\ op[c] = "initialize" /\ ~IsInitialized(RowHeld)
            /\ row # NoRow => lock = NoClient
            /\ lock' = IF row # NoRow THEN c ELSE lock
            /\ pc' = [pc EXCEPT ![c] = "insert"]
         \/ /\ op[c] # "initialize" /\ ~Refused(c, op[c], RowHeld)
            /\ lock' = lock
            /\ pc' = [pc EXCEPT ![c] = "save"],
         UNCHANGED <<row, op, answer, calls, acked>>
  PROVE  RowInv' /\ Unseen
<1>1. Apply(c, op[c], RowHeld) \in SessionType
  <2>1. PICK kind \in Kind : kind = op[c]  BY DEF RowInv
  <2>2. PICK s \in SessionType : s = RowHeld  BY RowView
  <2> QED  BY <2>1, <2>2, AppliedTyped
<1>2. /\ pc'[c] \in {"insert", "save"}
      /\ pc' \in [Client -> RowPoints]
      /\ draft' \in [Client -> SessionType] /\ draft'[c] = Apply(c, op[c], RowHeld)
      /\ \A d \in Client \ {c} : pc'[d] = pc[d] /\ draft'[d] = draft[d]
  BY <1>1 DEF RowInv, RowPoints
<1>3. RowOps' = RowOps /\ RowHeld' = RowHeld  BY DEF RowOps, RowHeld
<1>4. \A d \in Client : pc[d] \notin RowWriting
  <2>1. CASE deployment = "postgres_writer"  BY <2>1, OneWriter
  <2>2. CASE deployment = "postgres_initializers"
    <3>1. op[c] = "initialize"  BY <2>2, RowParameters DEF RowInv
    <3>2. lock = NoClient  BY <2>2, <3>1 DEF RowInv
    <3> QED  BY <3>2, OneWriter
  <2> QED  BY <2>1, <2>2 DEF OnRow
<1>5. deployment = "postgres_initializers" => op[c] = "initialize" /\ row # NoRow
  BY RowParameters DEF RowInv
<1>6. lock = NoClient  BY <1>4 DEF RowInv, RowWriting
<1>7. RowInv'
  <2>1. CASE pc'[c] = "insert"
    <3>1. op[c] = "initialize" /\ ~IsInitialized(RowHeld) /\ lock' = IF row # NoRow THEN c ELSE lock
      BY <2>1 DEF RowInv
    <3> QED  BY <1>2, <1>3, <1>4, <1>5, <1>6, <2>1, <3>1 DEF RowInv, RowWriting
  <2>2. CASE pc'[c] = "save"
    <3>1. op[c] # "initialize" /\ ~Refused(c, op[c], RowHeld) /\ lock' = lock
      BY <2>2 DEF RowInv
    <3> QED  BY <1>2, <1>3, <1>4, <1>5, <1>6, <2>2, <3>1 DEF RowInv, RowWriting
  <2> QED  BY <1>2, <2>1, <2>2
<1>8. Phase'[c] = Phase[c]  BY <1>2, RowOthers
<1>9. Unseen  BY <1>2, <1>8, RowUnseen
<1> QED  BY <1>7, <1>9

(* postgres.rs: initialize_session_if_missing reads under FOR UPDATE. *)
LEMMA RowSelect ==
  ASSUME deployment \in OnRow, deployment' = deployment, RowInv, NEW c \in Client,
         PostgresWriter!SelectForUpdate(c)
  PROVE  RowInv' /\ (Unseen \/ TakingEffect(c))
<1>1. /\ pc[c] = "select" /\ op[c] = "initialize" /\ (row # NoRow => lock = NoClient)
      /\ UNCHANGED <<row, op, calls, acked>>
  BY DEF PostgresWriter!SelectForUpdate
<1>2. op[c] \notin Reads  BY <1>1 DEF Reads
<1>3. CASE IsInitialized(RowHeld)
  <2>1. Ends(c, Answer(c, op[c], RowHeld)) /\ UNCHANGED lock
    BY <1>3, RowEnds, RowStored, SamePostgres DEF PostgresWriter!SelectForUpdate
  <2> QED  BY <1>1, <1>3, <2>1, RowReads
<1>4. CASE ~IsInitialized(RowHeld)
  <2>1. /\ draft' = [draft EXCEPT ![c] = Apply(c, op[c], RowHeld)]
        /\ lock' = IF row # NoRow THEN c ELSE lock
        /\ pc' = [pc EXCEPT ![c] = "insert"]
        /\ UNCHANGED answer
    BY <1>4, RowStored, SamePostgres DEF PostgresWriter!SelectForUpdate
  <2> QED  BY <1>1, <1>2, <1>4, <2>1, RowComputes
<1> QED  BY <1>3, <1>4

(* load_state, and what the operation makes of it. *)
LEMMA RowLoad ==
  ASSUME deployment \in OnRow, deployment' = deployment, RowInv, NEW c \in Client,
         PostgresWriter!LoadState(c)
  PROVE  RowInv' /\ (Unseen \/ TakingEffect(c))
<1> DEFINE ends == op[c] \in Reads \/ Refused(c, op[c], RowHeld)
<1>1. /\ pc[c] = "select" /\ op[c] # "initialize"
      /\ UNCHANGED <<row, lock, op, calls, acked>>
      /\ ends => Ends(c, Answer(c, op[c], RowHeld))
      /\ ~ends => /\ draft' = [draft EXCEPT ![c] = Apply(c, op[c], RowHeld)]
                 /\ pc' = [pc EXCEPT ![c] = "save"]
                 /\ UNCHANGED answer
  BY RowEnds, RowStored, SamePostgres DEF PostgresWriter!LoadState, PostgresWriter!IsRead, Reads
<1>2. CASE ends  BY <1>1, <1>2, RowReads
<1>3. CASE ~ends  BY <1>1, <1>3, RowComputes
<1> QED  BY <1>2, <1>3

(* The insert in the transaction takes the row's lock and shows nothing. *)
LEMMA RowInsert ==
  ASSUME deployment \in OnRow, deployment' = deployment, RowInv, NEW c \in Client,
         PostgresWriter!Insert(c)
  PROVE  RowInv' /\ Unseen
<1>1. /\ pc[c] = "insert" /\ lock' = c
      /\ pc' = [pc EXCEPT ![c] = "commit"]
      /\ UNCHANGED <<row, draft, op, answer, calls, acked>>
  BY DEF PostgresWriter!Insert
<1>2. /\ pc'[c] = "commit"
      /\ pc' \in [Client -> RowPoints]
      /\ \A d \in Client \ {c} : pc'[d] = pc[d] /\ pc[d] \notin RowWriting
  BY <1>1 DEF RowInv, RowPoints, RowWriting
<1>3. RowOps' = RowOps /\ RowHeld' = RowHeld  BY <1>1 DEF RowOps, RowHeld
<1>4. RowInv'
  BY <1>1, <1>2, <1>3, RowParameters DEF RowInv, RowWriting
<1>5. Phase'[c] = Phase[c]  BY <1>1, <1>2, RowOthers
<1>6. Unseen  BY <1>1, <1>2, <1>5, RowUnseen
<1> QED  BY <1>4, <1>6

(* The answer to a write is known before it is done. *)
LEMMA WriteAnswers ==
  ASSUME NEW c, NEW kind, NEW s, kind \notin Reads, ~Refused(c, kind, s)
  PROVE  /\ kind = "initialize" /\ ~IsInitialized(s) =>
              Answer(c, kind, s) = [NoAnswer EXCEPT !.status = "created"]
         /\ kind # "initialize" => Answer(c, kind, s) = [NoAnswer EXCEPT !.status = "ok"]
BY DEF Answer, Status, Loaded, NoAnswer, Reads

(* The commit, or save_state outside a transaction, is where a write takes effect. *)
LEMMA RowWrites ==
  ASSUME deployment \in OnRow, deployment' = deployment, RowInv, NEW c \in Client,
         PostgresWriter!Commit(c) \/ PostgresWriter!SaveState(c)
  PROVE  RowInv' /\ TakingEffect(c)
<1>1. /\ pc[c] \in {"commit", "save"} /\ (pc[c] = "save" => lock = NoClient)
      /\ row' = draft[c] /\ lock' = NoClient
      /\ Ends(c, [NoAnswer EXCEPT !.status = IF pc[c] = "commit" THEN "created" ELSE "ok"])
      /\ UNCHANGED <<op, calls, acked>>
  BY RowEnds, SamePostgres DEF PostgresWriter!Commit, PostgresWriter!SaveState
<1>2. Answer(c, op[c], RowHeld) = [NoAnswer EXCEPT !.status = IF pc[c] = "commit" THEN "created" ELSE "ok"]
  <2>1. ~Refused(c, op[c], RowHeld)
    BY <1>1 DEF RowInv, Refused
  <2>2. op[c] \notin Reads  BY <1>1 DEF RowInv, RowWriting
  <2>3. CASE pc[c] = "commit"
    BY <2>1, <2>2, <2>3, WriteAnswers DEF RowInv
  <2>4. CASE pc[c] = "save"
    BY <2>1, <2>2, <2>4, WriteAnswers DEF RowInv
  <2> QED  BY <1>1, <2>3, <2>4
<1>3. PICK a : a = Answer(c, op[c], RowHeld)  OBVIOUS
<1>4. /\ pc'[c] = "done" /\ answer'[c] = a /\ draft' \in [Client -> SessionType]
      /\ pc' \in [Client -> RowPoints] /\ DOMAIN answer' = Client
      /\ \A d \in Client \ {c} : pc'[d] = pc[d] /\ answer'[d] = answer[d] /\ draft'[d] = draft[d]
  <2>1. Ends(c, a)  BY <1>1, <1>2, <1>3
  <2> QED  BY <2>1, AtEnd
<1>5. \A d \in Client \ {c} : pc[d] \notin RowWriting
  BY <1>1 DEF RowInv, RowWriting
<1>6. draft[c] = Apply(c, op[c], RowHeld) /\ draft[c] \in SessionType /\ row' # NoRow
  BY <1>1, RowParameters DEF RowInv, RowWriting
<1>7. RowHeld' = draft[c] /\ RowOps' = RowOps  BY <1>1, <1>6 DEF RowHeld, RowOps
<1>8. RowInv'
  BY <1>1, <1>4, <1>5, <1>6, <1>7 DEF RowInv, RowWriting
<1>9. View = RowHeld /\ View' = draft[c]
  BY <1>7, RowSees, RowSeesNext DEF RowSeen
<1>10. Reaches(c, "done", a) /\ Phase[c] = "called"
  BY <1>1, <1>4, RowOthers DEF Reaches
<1> QED  BY <1>1, <1>3, <1>6, <1>8, <1>9, <1>10 DEF TakingEffect

(* A caller gets the answer. *)
LEMMA RowRespond ==
  ASSUME deployment \in OnRow, deployment' = deployment, RowInv, NEW c \in Client,
         PostgresWriter!Respond(c)
  PROVE  RowInv' /\ Responding(c)
<1>1. /\ pc[c] = "done"
      /\ pc' = [pc EXCEPT ![c] = "idle"]
      /\ acked' = IF answer[c].status \in {"ok", "created"} THEN acked \cup {<<c, op[c]>>} ELSE acked
      /\ UNCHANGED <<row, lock, draft, op, answer, calls>>
  BY DEF PostgresWriter!Respond
<1>2. /\ pc'[c] = "idle"
      /\ pc' \in [Client -> RowPoints]
      /\ \A d \in Client \ {c} : pc'[d] = pc[d]
  BY <1>1 DEF RowInv, RowPoints
<1>3. RowOps' = RowOps /\ RowHeld' = RowHeld  BY <1>1 DEF RowOps, RowHeld
<1>4. RowInv'
  BY <1>1, <1>2, <1>3, RowParameters DEF RowInv, RowWriting
<1>5. View' = View  BY <1>3, RowSees, RowSeesNext DEF RowSeen
<1>6. /\ Phase[c] = "done" /\ Phase' = [Phase EXCEPT ![c] = "idle"]
      /\ Answered[c] = answer[c] /\ Answered' = [Answered EXCEPT ![c] = Answered[c]]
  BY <1>1, <1>2, RowOthers
<1>7. Answered' = Answered  BY <1>6 DEF Answered
<1> QED  BY <1>1, <1>4, <1>5, <1>6, <1>7 DEF Responding

(* An error of a write comes before it or after it: the session is the old or the new one. *)
LEMMA RowFail ==
  ASSUME deployment \in OnRow, deployment' = deployment, RowInv, NEW c \in Client,
         PostgresWriter!Fail(c)
  PROVE  RowInv' /\ Failing(c)
<1> DEFINE through == pc[c] \in {"commit", "save"} /\ row' = draft[c]
<1>1. /\ pc[c] # "idle"
      /\ row' = row \/ through
      /\ lock' = IF lock = c THEN NoClient ELSE lock
      /\ pc' = [pc EXCEPT ![c] = "idle"]
      /\ answer' = [answer EXCEPT ![c] = Failed]
      /\ draft' = [draft EXCEPT ![c] = EmptySession]
      /\ UNCHANGED <<op, calls, acked>>
  BY SamePostgres DEF PostgresWriter!Fail
<1>2. /\ pc'[c] = "idle" /\ answer'[c] = Failed /\ DOMAIN answer' = Client
      /\ pc' \in [Client -> RowPoints]
      /\ draft' \in [Client -> SessionType]
      /\ \A d \in Client \ {c} : pc'[d] = pc[d] /\ answer'[d] = answer[d] /\ draft'[d] = draft[d]
  BY <1>1, EmptyTyped DEF RowInv, RowPoints
<1>3. through => /\ draft[c] = Apply(c, op[c], RowHeld) /\ draft[c] \in SessionType /\ row' # NoRow
                 /\ row' = draft[c]
                 /\ \A d \in Client \ {c} : pc[d] \notin RowWriting
                 /\ RowHeld' = draft[c]
  BY RowParameters DEF RowInv, RowWriting, RowHeld
<1>4. RowOps' = RowOps  BY DEF RowOps
<1>5. View = RowHeld /\ View' = RowHeld'  BY RowSees, RowSeesNext DEF RowSeen
<1>6. Phase[c] \in {"called", "done"} /\ Reaches(c, "idle", Failed) /\ (through => Phase[c] = "called")
  BY <1>1, <1>2, RowOthers DEF Reaches
<1>7. CASE through
  <2> HIDE DEF through
  <2>1. lock' = NoClient  BY <1>1, <1>3, <1>7 DEF RowInv, RowWriting
  <2>2. row' \in SessionType  BY <1>3, <1>7, <1>1
  <2>3. RowInv'
    BY <1>1, <1>2, <1>3, <1>4, <1>7, <2>1, <2>2 DEF RowInv, RowWriting
  <2> QED  BY <1>1, <1>3, <1>5, <1>6, <1>7, <2>3 DEF Failing
<1>8. CASE row' = row
  <2>1. RowHeld' = RowHeld  BY <1>8 DEF RowHeld
  <2>2. RowInv'
    BY <1>1, <1>2, <1>4, <1>8, <2>1 DEF RowInv, RowWriting
  <2> QED  BY <1>1, <1>5, <1>6, <2>1, <2>2 DEF Failing
<1> QED  BY <1>1, <1>7, <1>8

(* Every step on the row is one of the contract's, or is not seen. *)
LEMMA RowStep ==
  ASSUME deployment' = deployment, RowInv,
         \/ deployment = "postgres_writer" /\ PostgresWriter!Next
         \/ deployment = "postgres_initializers" /\ PostgresInitializers!Next
  PROVE  /\ RowInv'
         /\ Unseen \/ \E c \in Client :
              Calling(c) \/ TakingEffect(c) \/ Responding(c) \/ Failing(c)
<1>1. deployment \in OnRow  BY DEF OnRow
<1>2. PICK c \in Client : CallRow(c) \/ StatementOf(c)  BY RowSteps
<1> QED
  BY <1>1, <1>2, RowCall, RowSelect, RowLoad, RowInsert, RowWrites, RowRespond, RowFail DEF StatementOf

-----------------------------------------------------------------------------
(* In memory. *)

LEMMA SameMemory ==
  /\ Memory!NoAnswer = NoAnswer /\ Memory!Failed = Failed
  /\ \A c, kind, s : /\ Memory!Apply(c, kind, s) = Apply(c, kind, s)
                     /\ Memory!Answer(c, kind, s) = Answer(c, kind, s)
BY DEF Memory!NoAnswer, NoAnswer, Memory!Failed, Failed, Memory!Apply, Apply,
       Memory!Answer, Answer, Memory!Status, Status, Memory!Loaded, Loaded, Memory!Refused, Refused,
       Memory!HasFeature, HasFeature, Memory!IsInitialized, IsInitialized,
       Memory!EmptySession, EmptySession, Memory!InitializeIfMissing, InitializeIfMissing,
       Memory!SaveManifest, SaveManifest, Memory!AppendProgress, AppendProgress,
       Memory!ReplaceFeatures, ReplaceFeatures, Memory!UpdateFeaturePass, UpdateFeaturePass,
       Memory!RecordCheckpoint, RecordCheckpoint, Memory!AppendTranscript, AppendTranscript,
       Memory!Turn, Turn

MemoryInv == pc = [c \in Client |-> pc[c]] /\ DOMAIN answer = Client

(* In memory every step is one of the contract's. *)
LEMMA MemoryStep ==
  ASSUME deployment = "memory", deployment' = deployment, MemoryInv, Memory!Next
  PROVE  /\ MemoryInv'
         /\ \E c \in Client : Calling(c) \/ TakingEffect(c) \/ Responding(c) \/ Failing(c)
<1>1. PICK c \in Client :
        Memory!Call(c) \/ Memory!TakeEffect(c) \/ Memory!Respond(c) \/ Memory!Fail(c)
  BY DEF Memory!Next
<1>2. /\ pc' = [d \in Client |-> pc'[d]] /\ DOMAIN answer' = Client
      /\ \A d \in Client \ {c} : pc'[d] = pc[d] /\ answer'[d] = answer[d]
  BY <1>1 DEF Memory!Call, Memory!TakeEffect, Memory!Respond, Memory!Fail, MemoryInv
<1>3. MemoryInv'  BY <1>2 DEF MemoryInv
<1>4. /\ Phase' = [Phase EXCEPT ![c] = pc'[c]] /\ Phase[c] = pc[c]
      /\ Answered' = [Answered EXCEPT ![c] = IF pc'[c] = "called" THEN NoAnswer ELSE answer'[c]]
      /\ Answered[c] = IF pc[c] = "called" THEN NoAnswer ELSE answer[c]
      /\ View = session /\ View' = session'
  <2>1. Phase = pc /\ Phase' = pc' /\ View = session /\ View' = session'
    BY Views, ViewsNext DEF Seen
  <2> QED  BY <1>2, <2>1, OthersWait DEF MemoryInv, Promised
<1>5. CASE Memory!Call(c)
  <2>1. pc'[c] = "called"  BY <1>5 DEF Memory!Call, MemoryInv
  <2>2. /\ pc[c] = "idle" /\ Len(calls[c]) < MaxCalls
        /\ \E kind \in Kind : op' = [op EXCEPT ![c] = kind] /\ calls' = [calls EXCEPT ![c] = Append(@, kind)]
        /\ UNCHANGED <<session, acked>>
    BY <1>5, ClientAssumption DEF Memory!Call
  <2> QED  BY <1>3, <1>4, <2>1, <2>2 DEF Calling, Reaches
<1>6. CASE Memory!TakeEffect(c)
  <2>1. pc'[c] = "done" /\ answer'[c] = Answer(c, op[c], session)
    BY <1>6, SameMemory DEF Memory!TakeEffect, MemoryInv
  <2>2. /\ pc[c] = "called" /\ session' = Apply(c, op[c], session)
        /\ UNCHANGED <<op, calls, acked>>
    BY <1>6, SameMemory DEF Memory!TakeEffect
  <2> QED  BY <1>3, <1>4, <2>1, <2>2 DEF TakingEffect, Reaches
<1>7. CASE Memory!Respond(c)
  <2>1. pc'[c] = "idle" /\ pc[c] = "done" /\ answer' = answer
    BY <1>7 DEF Memory!Respond, MemoryInv
  <2>2. /\ acked' = IF answer[c].status \in {"ok", "created"} THEN acked \cup {<<c, op[c]>>} ELSE acked
        /\ UNCHANGED <<session, op, calls>>
    BY <1>7 DEF Memory!Respond
  <2>3. Answered' = [Answered EXCEPT ![c] = Answered[c]] /\ Answered[c] = answer[c]
    BY <1>4, <2>1
  <2>4. Answered' = Answered  BY <2>3 DEF Answered
  <2> QED  BY <1>3, <1>4, <2>1, <2>2, <2>3, <2>4 DEF Responding
<1>8. CASE Memory!Fail(c)
  <2>1. pc'[c] = "idle" /\ answer'[c] = Failed
    BY <1>8, SameMemory DEF Memory!Fail, MemoryInv
  <2>2. /\ pc[c] \in {"called", "done"}
        /\ session' = session \/ (pc[c] = "called" /\ session' = Apply(c, op[c], session))
        /\ UNCHANGED <<op, calls, acked>>
    BY <1>8, SameMemory DEF Memory!Fail
  <2> QED  BY <1>3, <1>4, <2>1, <2>2 DEF Failing, Reaches
<1> QED  BY <1>1, <1>5, <1>6, <1>7, <1>8

-----------------------------------------------------------------------------
(* SQLite, in one process.                                                 *)

OneSqlite == INSTANCE SqliteProofs WITH OneProcess <- TRUE, Interrupted <- FALSE

SqliteInv == OneSqlite!TablesInv /\ OneSqlite!RunInv

(* Its clients meet what SqliteProofs assumes. *)
LEMMA SqliteParameters == OneSqlite!ClientAssumption
<1>1. OneSqlite!Kind = Kind /\ OneSqlite!SessionType = SessionType /\ OneSqlite!FeatureRecord(Feature) = FeatureRecord(Feature)
  BY DEF OneSqlite!Kind, Kind, OneSqlite!SessionType, SessionType, OneSqlite!FeatureRecord, FeatureRecord,
         OneSqlite!Message, Message, OneSqlite!RunStatus, RunStatus
<1> QED  BY <1>1, ClientAssumption DEF OneSqlite!ClientAssumption

(* SQLite's operators, as in both, are the operators. *)
LEMMA SameOnSqlite ==
  /\ OneSqlite!NoAnswer = NoAnswer /\ OneSqlite!Failed = Failed /\ OneSqlite!EmptySession = EmptySession
  /\ \A c, kind, s : /\ OneSqlite!Apply(c, kind, s) = Apply(c, kind, s)
                     /\ OneSqlite!Answer(c, kind, s) = Answer(c, kind, s)
BY DEF OneSqlite!NoAnswer, NoAnswer, OneSqlite!Failed, Failed, OneSqlite!Apply, Apply,
       OneSqlite!Answer, Answer, OneSqlite!Status, Status, OneSqlite!Loaded, Loaded, OneSqlite!Refused, Refused,
       OneSqlite!HasFeature, HasFeature, OneSqlite!IsInitialized, IsInitialized,
       OneSqlite!EmptySession, EmptySession, OneSqlite!InitializeIfMissing, InitializeIfMissing,
       OneSqlite!SaveManifest, SaveManifest, OneSqlite!AppendProgress, AppendProgress, OneSqlite!ReplaceFeatures, ReplaceFeatures,
       OneSqlite!UpdateFeaturePass, UpdateFeaturePass, OneSqlite!RecordCheckpoint, RecordCheckpoint,
       OneSqlite!AppendTranscript, AppendTranscript, OneSqlite!Turn, Turn

(* The statements and what they do are the backend's. *)
LEMMA SameSqlite ==
  /\ Sqlite!Init <=> OneSqlite!Init
  /\ Sqlite!Next <=> OneSqlite!Next
  /\ Sqlite!View = OneSqlite!View
  /\ Sqlite!Phase = OneSqlite!Phase
<1>1. /\ Sqlite!NoAnswer = OneSqlite!NoAnswer /\ Sqlite!Failed = OneSqlite!Failed
      /\ \A s : Sqlite!IsInitialized(s) = OneSqlite!IsInitialized(s)
      /\ \A s, f : Sqlite!HasFeature(s, f) = OneSqlite!HasFeature(s, f)
      /\ \A c : Sqlite!Turn(c) = OneSqlite!Turn(c)
      /\ \A n, f : Sqlite!Row(n, f) = OneSqlite!Row(n, f)
      /\ \A d : Sqlite!SessionOf(d) = OneSqlite!SessionOf(d)
      /\ \A kinds : Sqlite!Sql(kinds) = OneSqlite!Sql(kinds)
      /\ \A kind : Sqlite!IsRead(kind) = OneSqlite!IsRead(kind)
      /\ Sqlite!ReadStatements = OneSqlite!ReadStatements
      /\ Sqlite!WriteStatements = OneSqlite!WriteStatements
  BY DEF Sqlite!NoAnswer, OneSqlite!NoAnswer, Sqlite!Failed, OneSqlite!Failed,
         Sqlite!EmptySession, OneSqlite!EmptySession, Sqlite!IsInitialized, OneSqlite!IsInitialized,
         Sqlite!HasFeature, OneSqlite!HasFeature, Sqlite!Turn, OneSqlite!Turn, Sqlite!Row, OneSqlite!Row,
         Sqlite!SessionOf, OneSqlite!SessionOf, Sqlite!Sql, OneSqlite!Sql, Sqlite!IsRead, OneSqlite!IsRead,
         Sqlite!ReadStatements, OneSqlite!ReadStatements, Sqlite!WriteStatements, OneSqlite!WriteStatements
<1>2. \A c, kind : Sqlite!Program(c, kind) = OneSqlite!Program(c, kind)
  <2>1. \A c : Sqlite!ReplaceRows(c) = OneSqlite!ReplaceRows(c)
    BY <1>1 DEF Sqlite!ReplaceRows, OneSqlite!ReplaceRows
  <2> QED  BY <1>1, <2>1 DEF Sqlite!Program, OneSqlite!Program
<1>3. \A c, stmt, d : Sqlite!Execute(c, stmt, d) = OneSqlite!Execute(c, stmt, d)
  BY <1>1 DEF Sqlite!Execute, OneSqlite!Execute
<1>4. \A stmt, state, s : Sqlite!Read(stmt, state, s) = OneSqlite!Read(stmt, state, s)
  BY DEF Sqlite!Read, OneSqlite!Read
<1>5. \A c, kind, s : Sqlite!Apply(c, kind, s) = OneSqlite!Apply(c, kind, s)
  BY DEF Sqlite!Apply, OneSqlite!Apply, Sqlite!InitializeIfMissing, OneSqlite!InitializeIfMissing,
     Sqlite!IsInitialized, OneSqlite!IsInitialized,
     Sqlite!SaveManifest, OneSqlite!SaveManifest, Sqlite!AppendProgress, OneSqlite!AppendProgress,
     Sqlite!ReplaceFeatures, OneSqlite!ReplaceFeatures, Sqlite!UpdateFeaturePass, OneSqlite!UpdateFeaturePass,
     Sqlite!RecordCheckpoint, OneSqlite!RecordCheckpoint, Sqlite!AppendTranscript, OneSqlite!AppendTranscript,
     Sqlite!Turn, OneSqlite!Turn
<1>6. \A c, kind, s : Sqlite!Status(c, kind, s) = OneSqlite!Status(c, kind, s)
  BY <1>1 DEF Sqlite!Status, OneSqlite!Status, Sqlite!Refused, OneSqlite!Refused
<1>7. Sqlite!Init <=> OneSqlite!Init
  BY <1>1 DEF Sqlite!Init, OneSqlite!Init
<1>8. ASSUME NEW c \in Client
      PROVE  /\ \A kinds : Sqlite!Scheduled(c, kinds) <=> OneSqlite!Scheduled(c, kinds)
             /\ \A rest : Sqlite!Proceed(c, rest) <=> OneSqlite!Proceed(c, rest)
             /\ \A status : Sqlite!SetStatus(c, status) <=> OneSqlite!SetStatus(c, status)
             /\ \A kind : Sqlite!Left(c, kind) <=> OneSqlite!Left(c, kind)
  BY DEF Sqlite!Scheduled, OneSqlite!Scheduled, Sqlite!Proceed, OneSqlite!Proceed,
         Sqlite!SetStatus, OneSqlite!SetStatus, Sqlite!Left, OneSqlite!Left
<1>9. ASSUME NEW c \in Client PROVE Sqlite!Call(c) <=> OneSqlite!Call(c)
  BY <1>1, <1>2 DEF Sqlite!Call, OneSqlite!Call
<1>10. ASSUME NEW c \in Client PROVE Sqlite!ClaimSession(c) <=> OneSqlite!ClaimSession(c)
  BY <1>1, <1>3, <1>8 DEF Sqlite!ClaimSession, OneSqlite!ClaimSession
<1>11. ASSUME NEW c \in Client PROVE Sqlite!FindFeature(c) <=> OneSqlite!FindFeature(c)
  BY <1>1, <1>8 DEF Sqlite!FindFeature, OneSqlite!FindFeature
<1>12. ASSUME NEW c \in Client PROVE Sqlite!WriteRows(c) <=> OneSqlite!WriteRows(c)
  BY <1>1, <1>3, <1>8 DEF Sqlite!WriteRows, OneSqlite!WriteRows
<1>13. ASSUME NEW c \in Client PROVE Sqlite!ReadRows(c) <=> OneSqlite!ReadRows(c)
  BY <1>1, <1>4, <1>6, <1>8 DEF Sqlite!ReadRows, OneSqlite!ReadRows
<1>14. ASSUME NEW c \in Client PROVE Sqlite!Respond(c) <=> OneSqlite!Respond(c)
  BY DEF Sqlite!Respond, OneSqlite!Respond
<1>15. ASSUME NEW c \in Client PROVE Sqlite!Fail(c) <=> OneSqlite!Fail(c)
  BY <1>1 DEF Sqlite!Fail, OneSqlite!Fail
<1>16. Sqlite!Next <=> OneSqlite!Next
  BY <1>9, <1>10, <1>11, <1>12, <1>13, <1>14, <1>15 DEF Sqlite!Next, OneSqlite!Next
<1>17. Sqlite!WritingNow = OneSqlite!WritingNow
  BY <1>1 DEF Sqlite!WritingNow, OneSqlite!WritingNow
<1>18. Sqlite!Phase = OneSqlite!Phase
  BY <1>17 DEF Sqlite!Phase, OneSqlite!Phase
<1>19. ASSUME NEW c \in Client PROVE Sqlite!Completed(c) = OneSqlite!Completed(c)
  BY <1>1, <1>5, <1>8 DEF Sqlite!Completed, OneSqlite!Completed
<1>20. Sqlite!View = OneSqlite!View
  <2>1. Sqlite!WritingNow # {} => (CHOOSE c \in Sqlite!WritingNow : TRUE) \in Client
    BY DEF Sqlite!WritingNow
  <2> QED  BY <1>1, <1>17, <1>19, <2>1 DEF Sqlite!View, OneSqlite!View
<1> QED  BY <1>7, <1>16, <1>18, <1>20

(* Clients of SQLite in one process see what SqliteProofs says they see. *)
SqliteSeen ==
  deployment = "sqlite" =>
    View = OneSqlite!View /\ Phase = OneSqlite!Phase /\ Answered = OneSqlite!Answered

(* They do. *)
LEMMA SqliteSees == SqliteSeen
<1>1. deployment = "sqlite" => View = OneSqlite!View /\ Phase = OneSqlite!Phase
  BY SameSqlite DEF View, Phase
<1> QED  BY <1>1, SameOnSqlite DEF SqliteSeen, Answered, OneSqlite!Answered

(* And so after a step. *)
LEMMA SqliteSeesNext == SqliteSeen'
BY SqliteSees, PTL

(* SQLite in one process starts as the contract does. *)
LEMMA SqliteInit ==
  ASSUME deployment = "sqlite", Sqlite!Init
  PROVE  /\ SqliteInv
         /\ View = InitialSession /\ Phase = [c \in Client |-> "idle"]
         /\ Answered = [c \in Client |-> NoAnswer]
BY SqliteParameters, SameSqlite, SameOnSqlite, SqliteSees, OneSqlite!SeenFirst DEF SqliteInv, SqliteSeen

(* A statement is a step of the contract, or none. *)
LEMMA SqliteStep ==
  ASSUME deployment = "sqlite", deployment' = deployment, SqliteInv,
         Sqlite!Next \/ UNCHANGED OneSqlite!vars
  PROVE  /\ SqliteInv'
         /\ Unseen \/ \E c \in Client :
              Calling(c) \/ TakingEffect(c) \/ Responding(c) \/ Failing(c)
<1>1. /\ OneSqlite!TablesInv' /\ OneSqlite!RunInv'
      /\ \/ OneSqlite!Unseen
         \/ \E c \in Client : \/ OneSqlite!Calling(c) \/ OneSqlite!TakingEffect(c)
                              \/ OneSqlite!Responding(c) \/ OneSqlite!Failing(c)
  BY SqliteParameters, SameSqlite, OneSqlite!SeenStep DEF SqliteInv
<1>2. /\ View = OneSqlite!View /\ View' = OneSqlite!View'
      /\ Phase = OneSqlite!Phase /\ Phase' = OneSqlite!Phase'
      /\ Answered = OneSqlite!Answered /\ Answered' = OneSqlite!Answered'
  BY SqliteSees, SqliteSeesNext DEF SqliteSeen
<1>3. ASSUME NEW c \in Client, OneSqlite!Calling(c) PROVE Calling(c)
  BY <1>2, <1>3, SameOnSqlite, OpsTyped DEF OneSqlite!Calling, Calling, OneSqlite!Reaches, Reaches
<1>4. ASSUME NEW c \in Client, OneSqlite!TakingEffect(c) PROVE TakingEffect(c)
  BY <1>2, <1>4, SameOnSqlite DEF OneSqlite!TakingEffect, TakingEffect, OneSqlite!Reaches, Reaches
<1>5. ASSUME NEW c \in Client, OneSqlite!Responding(c) PROVE Responding(c)
  BY <1>2, <1>5 DEF OneSqlite!Responding, Responding
<1>6. ASSUME NEW c \in Client, OneSqlite!Failing(c) PROVE Failing(c)
  BY <1>2, <1>6, SameOnSqlite DEF OneSqlite!Failing, Failing, OneSqlite!Reaches, Reaches
<1>7. OneSqlite!Unseen => Unseen
  BY <1>2 DEF OneSqlite!Unseen, Unseen
<1> QED  BY <1>1, <1>3, <1>4, <1>5, <1>6, <1>7 DEF SqliteInv

-----------------------------------------------------------------------------
(* SQLite, from several processes that are interrupted anywhere.           *)

ManySqlite == INSTANCE SqliteProofs WITH OneProcess <- FALSE, Interrupted <- TRUE,
                                         Ops <- ProcessOps

(* Their clients meet what SqliteProofs assumes. *)
LEMMA ProcessParameters ==
  ManySqlite!ClientAssumption /\ ManySqlite!ProcessAssumption
<1>1. ManySqlite!Kind = Kind /\ ManySqlite!SessionType = SessionType /\ ManySqlite!FeatureRecord(Feature) = FeatureRecord(Feature)
  BY DEF ManySqlite!Kind, Kind, ManySqlite!SessionType, SessionType, ManySqlite!FeatureRecord, FeatureRecord,
         ManySqlite!Message, Message, ManySqlite!RunStatus, RunStatus
<1>2. ProcessOps \in [Client -> SUBSET Kind]  BY DeploymentAssumption
<1>3. ManySqlite!ClientAssumption  BY <1>1, <1>2, ClientAssumption DEF ManySqlite!ClientAssumption
<1>4. ManySqlite!ProcessAssumption
  BY DeploymentAssumption DEF SqliteProcesses!ProcessAssumption, ManySqlite!ProcessAssumption
<1> QED  BY <1>3, <1>4

(* The statements and what they do are those of the processes. *)
LEMMA SameProcesses ==
  /\ Sqlite!Init <=> ManySqlite!Init
  /\ SqliteProcesses!Next <=> ManySqlite!Next
<1>1. /\ SqliteProcesses!NoAnswer = ManySqlite!NoAnswer /\ SqliteProcesses!Failed = ManySqlite!Failed
      /\ \A s : SqliteProcesses!IsInitialized(s) = ManySqlite!IsInitialized(s)
      /\ \A s, f : SqliteProcesses!HasFeature(s, f) = ManySqlite!HasFeature(s, f)
      /\ \A c : SqliteProcesses!Turn(c) = ManySqlite!Turn(c)
      /\ \A n, f : SqliteProcesses!Row(n, f) = ManySqlite!Row(n, f)
      /\ \A d : SqliteProcesses!SessionOf(d) = ManySqlite!SessionOf(d)
      /\ \A kinds : SqliteProcesses!Sql(kinds) = ManySqlite!Sql(kinds)
      /\ \A kind : SqliteProcesses!IsRead(kind) = ManySqlite!IsRead(kind)
      /\ SqliteProcesses!ReadStatements = ManySqlite!ReadStatements
      /\ SqliteProcesses!WriteStatements = ManySqlite!WriteStatements
  BY DEF SqliteProcesses!NoAnswer, ManySqlite!NoAnswer, SqliteProcesses!Failed, ManySqlite!Failed,
         SqliteProcesses!EmptySession, ManySqlite!EmptySession, SqliteProcesses!IsInitialized, ManySqlite!IsInitialized,
         SqliteProcesses!HasFeature, ManySqlite!HasFeature, SqliteProcesses!Turn, ManySqlite!Turn, SqliteProcesses!Row, ManySqlite!Row,
         SqliteProcesses!SessionOf, ManySqlite!SessionOf, SqliteProcesses!Sql, ManySqlite!Sql, SqliteProcesses!IsRead, ManySqlite!IsRead,
         SqliteProcesses!ReadStatements, ManySqlite!ReadStatements, SqliteProcesses!WriteStatements, ManySqlite!WriteStatements
<1>2. \A c, kind : SqliteProcesses!Program(c, kind) = ManySqlite!Program(c, kind)
  <2>1. \A c : SqliteProcesses!ReplaceRows(c) = ManySqlite!ReplaceRows(c)
    BY <1>1 DEF SqliteProcesses!ReplaceRows, ManySqlite!ReplaceRows
  <2> QED  BY <1>1, <2>1 DEF SqliteProcesses!Program, ManySqlite!Program
<1>3. \A c, stmt, d : SqliteProcesses!Execute(c, stmt, d) = ManySqlite!Execute(c, stmt, d)
  BY <1>1 DEF SqliteProcesses!Execute, ManySqlite!Execute
<1>4. \A stmt, state, s : SqliteProcesses!Read(stmt, state, s) = ManySqlite!Read(stmt, state, s)
  BY DEF SqliteProcesses!Read, ManySqlite!Read
<1>5. \A c, kind, s : SqliteProcesses!Status(c, kind, s) = ManySqlite!Status(c, kind, s)
  BY <1>1 DEF SqliteProcesses!Status, ManySqlite!Status, SqliteProcesses!Refused, ManySqlite!Refused
<1>6. Sqlite!Init <=> ManySqlite!Init
  BY DEF Sqlite!Init, ManySqlite!Init, Sqlite!Row, ManySqlite!Row, Sqlite!NoAnswer, ManySqlite!NoAnswer,
         Sqlite!EmptySession, ManySqlite!EmptySession
<1>7. ASSUME NEW c \in Client
      PROVE  /\ \A kinds : SqliteProcesses!Scheduled(c, kinds) <=> ManySqlite!Scheduled(c, kinds)
             /\ \A rest : SqliteProcesses!Proceed(c, rest) <=> ManySqlite!Proceed(c, rest)
             /\ \A status : SqliteProcesses!SetStatus(c, status) <=> ManySqlite!SetStatus(c, status)
  BY DEF SqliteProcesses!Scheduled, ManySqlite!Scheduled, SqliteProcesses!Proceed, ManySqlite!Proceed,
         SqliteProcesses!SetStatus, ManySqlite!SetStatus
<1>8. ASSUME NEW c \in Client PROVE SqliteProcesses!Call(c) <=> ManySqlite!Call(c)
  BY <1>1, <1>2 DEF SqliteProcesses!Call, ManySqlite!Call
<1>9. ASSUME NEW c \in Client PROVE SqliteProcesses!ClaimSession(c) <=> ManySqlite!ClaimSession(c)
  BY <1>1, <1>3, <1>7 DEF SqliteProcesses!ClaimSession, ManySqlite!ClaimSession
<1>10. ASSUME NEW c \in Client PROVE SqliteProcesses!FindFeature(c) <=> ManySqlite!FindFeature(c)
  BY <1>1, <1>7 DEF SqliteProcesses!FindFeature, ManySqlite!FindFeature
<1>11. ASSUME NEW c \in Client PROVE SqliteProcesses!WriteRows(c) <=> ManySqlite!WriteRows(c)
  BY <1>1, <1>3, <1>7 DEF SqliteProcesses!WriteRows, ManySqlite!WriteRows
<1>12. ASSUME NEW c \in Client PROVE SqliteProcesses!ReadRows(c) <=> ManySqlite!ReadRows(c)
  BY <1>1, <1>4, <1>5, <1>7 DEF SqliteProcesses!ReadRows, ManySqlite!ReadRows
<1>13. ASSUME NEW c \in Client PROVE SqliteProcesses!Respond(c) <=> ManySqlite!Respond(c)
  BY DEF SqliteProcesses!Respond, ManySqlite!Respond
<1>14. ASSUME NEW c \in Client PROVE SqliteProcesses!Fail(c) <=> ManySqlite!Fail(c)
  BY <1>1 DEF SqliteProcesses!Fail, ManySqlite!Fail
<1>15. SqliteProcesses!Next <=> ManySqlite!Next
  BY <1>8, <1>9, <1>10, <1>11, <1>12, <1>13, <1>14 DEF SqliteProcesses!Next, ManySqlite!Next
<1> QED  BY <1>6, <1>15

(* What the processes promise is what SqliteProofs proves they keep. *)
LEMMA ProcessPromises ==
  /\ ManySqlite!CreatedOnce => SqliteProcesses!CreatedOnce
  /\ ManySqlite!AcknowledgedKept => SqliteProcesses!AcknowledgedKept
<1>1. ManySqlite!View = SqliteProcesses!View
  <2>1. \A d : ManySqlite!SessionOf(d) = SqliteProcesses!SessionOf(d)
    BY DEF ManySqlite!SessionOf, SqliteProcesses!SessionOf
  <2> QED  BY <2>1 DEF ManySqlite!View, SqliteProcesses!View
<1>2. ManySqlite!CreatedOnce => SqliteProcesses!CreatedOnce
  BY <1>1 DEF ManySqlite!CreatedOnce, SqliteProcesses!CreatedOnce,
              ManySqlite!Contract!CreatedOnce, SqliteProcesses!Contract!CreatedOnce,
              ManySqlite!Contract!Called, SqliteProcesses!Contract!Called
<1>3. ManySqlite!AcknowledgedKept => SqliteProcesses!AcknowledgedKept
  BY <1>1, Zenon
     DEF ManySqlite!AcknowledgedKept, SqliteProcesses!AcknowledgedKept,
         ManySqlite!Contract!AcknowledgedKept, SqliteProcesses!Contract!AcknowledgedKept,
         ManySqlite!Contract!Called, SqliteProcesses!Contract!Called,
         ManySqlite!Contract!IsInitialized, SqliteProcesses!Contract!IsInitialized,
         ManySqlite!Contract!Turn, SqliteProcesses!Contract!Turn
<1> QED  BY <1>2, <1>3

ProcessesInv == deployment = "sqlite_processes" => ManySqlite!ProcessInv

(* The processes' invariant holds at first, and is kept. *)
LEMMA ProcessesFirst == Init => ProcessesInv
BY ProcessParameters, SameProcesses, ManySqlite!ProcessFirst DEF Init, ProcessesInv

LEMMA ProcessesStep == ProcessesInv /\ [Next]_vars => ProcessesInv'
<1> SUFFICES ASSUME ProcessesInv, [Next]_vars, deployment' = "sqlite_processes"
             PROVE  ManySqlite!ProcessInv'
  BY DEF ProcessesInv
<1>1. deployment = "sqlite_processes"
  BY DEF Next, OnMemory, OnFiles, OnSqlite, OnPostgres, OnRecords, vars
<1>2. ManySqlite!ProcessInv  BY <1>1 DEF ProcessesInv
<1>3. SqliteProcesses!Next \/ UNCHANGED ManySqlite!vars
  BY <1>1 DEF Next, OnMemory, OnFiles, OnSqlite, OnPostgres, OnRecords, vars, sqliteVars, callVars,
     ManySqlite!vars
<1>4. [ManySqlite!Next]_(ManySqlite!vars)  BY <1>3, SameProcesses
<1> QED  BY <1>2, <1>4, ProcessParameters, ManySqlite!ProcessStep

(* So they keep their promises. *)
LEMMA ProcessesHold ==
  Spec => [](deployment = "sqlite_processes" => CreatedOnce /\ AcknowledgedKept)
<1>1. ProcessesInv /\ deployment = "sqlite_processes" => CreatedOnce /\ AcknowledgedKept
  BY ProcessParameters, ProcessPromises, ManySqlite!ProcessCreates, ManySqlite!ProcessKeeps
     DEF ProcessesInv, CreatedOnce, AcknowledgedKept
<1> QED  BY <1>1, ProcessesFirst, ProcessesStep, PTL DEF Spec

-----------------------------------------------------------------------------
(* Every deployment keeps the contract it is promised. *)

PromiseInv ==
  /\ deployment \in Deployment
  /\ deployment = "memory" => MemoryInv
  /\ deployment = "files" => FileInv
  /\ deployment = "sqlite" => SqliteInv
  /\ deployment \in OnRow => RowInv

(* The deployments start as the contract does. *)
LEMMA PromiseInit ==
  ASSUME Init
  PROVE  PromiseInv /\ Contract!Init
<1>1. /\ deployment \in Deployment
      /\ session = InitialSession
      /\ pc = [c \in Client |-> "idle"] /\ op = [c \in Client |-> "load"]
      /\ answer = [c \in Client |-> NoAnswer] /\ calls = [c \in Client |-> << >>] /\ acked = {}
      /\ File!Init /\ Sqlite!Init
  BY SameMemory DEF Init, Memory!Init
<1>2. \/ deployment = "postgres_initializers" /\ PostgresInitializers!Init
      \/ deployment # "postgres_initializers" /\ PostgresWriter!Init
  BY DEF Init
<1>3. deployment \in OnRow => RowInv  BY <1>2, RowInit DEF OnRow
<1>4. PromiseInv  BY <1>1, <1>3, FileInit, SqliteInit DEF PromiseInv, MemoryInv
<1>5. Contract!Init
  <2>1. Contract!NoAnswer = NoAnswer  BY SameContract
  <2>2. CASE deployment \in {"sqlite_processes", "json_records", "row_records"}
    BY <2>1, <2>2 DEF Contract!Init, Shown
  <2>3. CASE deployment \in Promised
    <3>1. View = InitialSession
      <4>1. CASE deployment = "memory"  BY <1>1, <4>1, Views DEF Seen
      <4>2. CASE deployment = "files"
        <5>1. FileInv /\ View = Held  BY <1>1, <1>4, <4>2, FileView DEF FileSeen, PromiseInv
        <5>2. file = IF InitialSession = EmptySession THEN NoFile ELSE InitialSession
          BY <1>1, SameFile DEF File!Init
        <5>3. InitialSession # NoFile  BY ClientAssumption, NoFileTyped
        <5> QED  BY <5>1, <5>2, <5>3 DEF Held
      <4>3. CASE deployment = "postgres_writer"
        <5>1. row = NoRow  BY <1>2, <4>3 DEF PostgresWriter!Init
        <5>2. InitialSession = EmptySession
          BY DeploymentAssumption, SamePostgres DEF PostgresWriter!RowAssumption
        <5> QED  BY <4>3, <5>1, <5>2, Views DEF Seen
      <4>4. CASE deployment = "postgres_initializers"
        <5>1. row = InitialSession  BY <1>2, <4>4 DEF PostgresInitializers!Init
        <5>2. InitialSession # NoRow  BY ClientAssumption, RowParameters
        <5> QED  BY <4>4, <5>1, <5>2, Views DEF Seen
      <4>5. CASE deployment = "sqlite"  BY <1>1, <4>5, SqliteInit
      <4> QED  BY <2>3, <4>1, <4>2, <4>3, <4>4, <4>5 DEF Promised
    <3>2. Phase = [c \in Client |-> "idle"]
      <4>1. \A c \in Client : pc[c] = "idle"  BY <1>1
      <4>2. CASE deployment = "sqlite"  BY <1>1, <4>2, SqliteInit
      <4>3. CASE deployment # "sqlite"  BY <1>1, <2>3, <4>1, <4>3, Views DEF Seen, Promised
      <4> QED  BY <4>2, <4>3
    <3>3. Answered = [c \in Client |-> NoAnswer]
      BY <1>1, <3>2 DEF Answered
    <3> QED  BY <1>1, <2>1, <2>3, <3>1, <3>2, <3>3 DEF Contract!Init, Shown, Promised
  <2> QED  BY <1>1, <2>2, <2>3 DEF Deployment, Promised
<1> QED  BY <1>4, <1>5

(* Every step keeps the invariant of its deployment, and is a step of the contract or none. *)
LEMMA PromiseStep ==
  ASSUME PromiseInv, [Next]_vars
  PROVE  PromiseInv' /\ deployment' = deployment /\ [Contract!Next]_(Contract!vars)
<1>1. deployment' = deployment
  BY DEF Next, OnMemory, OnFiles, OnSqlite, OnPostgres, OnRecords, vars
<1>2. CASE OnMemory
  <2>1. deployment = "memory" /\ Memory!Next  BY <1>2 DEF OnMemory
  <2>2. MemoryInv  BY <2>1 DEF PromiseInv
  <2>3. [Contract!Next]_(Contract!vars)
    BY <1>1, <2>1, <2>2, MemoryStep, ContractStep DEF Promised
  <2>4. PromiseInv'
    BY <1>1, <2>1, <2>2, MemoryStep DEF PromiseInv, OnRow, Deployment
  <2> QED  BY <1>1, <2>3, <2>4
<1>3. CASE OnFiles
  <2>1. deployment = "files" /\ File!Next  BY <1>3 DEF OnFiles
  <2>2. FileInv  BY <2>1 DEF PromiseInv
  <2>3. [Contract!Next]_(Contract!vars)
    BY <1>1, <2>1, <2>2, FileStep, ContractStep DEF Promised
  <2>4. PromiseInv'
    BY <1>1, <2>1, <2>2, FileStep DEF PromiseInv, OnRow, Deployment
  <2> QED  BY <1>1, <2>3, <2>4
<1>4. CASE OnPostgres
  <2>1. \/ deployment = "postgres_writer" /\ PostgresWriter!Next
        \/ deployment = "postgres_initializers" /\ PostgresInitializers!Next
    BY <1>4 DEF OnPostgres
  <2>2. RowInv  BY <2>1 DEF PromiseInv, OnRow
  <2>3. [Contract!Next]_(Contract!vars)
    BY <1>1, <2>1, <2>2, RowStep, ContractStep DEF Promised
  <2>4. PromiseInv'
    BY <1>1, <2>1, <2>2, RowStep DEF PromiseInv, OnRow, Deployment
  <2> QED  BY <1>1, <2>3, <2>4
<1>5. CASE OnSqlite
  <2>1. CASE deployment = "sqlite" /\ Sqlite!Next
    <3>1. SqliteInv  BY <2>1 DEF PromiseInv
    <3>2. /\ SqliteInv'
          /\ Unseen \/ \E c \in Client :
               Calling(c) \/ TakingEffect(c) \/ Responding(c) \/ Failing(c)
      BY <1>1, <2>1, <3>1, SqliteStep
    <3>3. [Contract!Next]_(Contract!vars)  BY <1>1, <2>1, <3>2, ContractStep DEF Promised
    <3>4. PromiseInv'  BY <1>1, <2>1, <3>2 DEF PromiseInv, OnRow
    <3> QED  BY <1>1, <3>3, <3>4
  <2>2. CASE deployment = "sqlite_processes"
    <3>1. PromiseInv'  BY <1>1, <2>2 DEF PromiseInv, OnRow
    <3>2. UNCHANGED Contract!vars  BY <1>1, <2>2 DEF Contract!vars, Shown
    <3> QED  BY <1>1, <3>1, <3>2
  <2> QED  BY <1>5, <2>1, <2>2 DEF OnSqlite
<1>6. CASE OnRecords
  <2>1. deployment \in {"json_records", "row_records"}  BY <1>6 DEF OnRecords
  <2>2. PromiseInv'  BY <1>1, <2>1 DEF PromiseInv, OnRow
  <2>3. UNCHANGED Contract!vars
    BY <1>1, <2>1 DEF Contract!vars, Shown
  <2> QED  BY <1>1, <2>2, <2>3
<1>7. CASE UNCHANGED vars
  <2>1. /\ UNCHANGED <<session, file, tmp, row, lock, draft, pc, op, answer, calls, acked>>
    BY <1>7 DEF vars, memoryVars, fileVars, postgresVars, callVars
  <2>2. MemoryInv' = MemoryInv  BY <2>1 DEF MemoryInv
  <2>3. FileInv' = FileInv  BY <2>1 DEF FileInv, Held
  <2>4. RowInv' = RowInv  BY <1>1, <2>1 DEF RowInv, RowHeld, RowOps
  <2>5. CASE deployment = "sqlite"
    <3>1. SqliteInv  BY <2>5 DEF PromiseInv
    <3>2. UNCHANGED OneSqlite!vars  BY <1>7 DEF vars, sqliteVars, callVars, OneSqlite!vars
    <3>3. /\ SqliteInv'
          /\ Unseen \/ \E c \in Client :
               Calling(c) \/ TakingEffect(c) \/ Responding(c) \/ Failing(c)
      BY <1>1, <2>5, <3>1, <3>2, SqliteStep
    <3>4. [Contract!Next]_(Contract!vars)  BY <1>1, <2>5, <3>3, ContractStep DEF Promised
    <3>5. PromiseInv'  BY <1>1, <2>5, <3>3 DEF PromiseInv, OnRow
    <3> QED  BY <1>1, <3>4, <3>5
  <2>6. CASE deployment # "sqlite"
    <3>1. PromiseInv'  BY <1>1, <2>2, <2>3, <2>4, <2>6 DEF PromiseInv
    <3>2. CASE deployment \in Promised
      <4>1. View' = View /\ Phase' = Phase
        <5>1. CASE deployment = "files"
          BY <1>1, <2>1, <5>1, Views, ViewsNext DEF Seen, File!View, File!Stored
        <5>2. CASE deployment # "files"
          BY <1>1, <2>1, <2>6, <3>2, <5>2, Views, ViewsNext DEF Seen, Promised
        <5> QED  BY <5>1, <5>2
      <4>2. Unseen
        <5>1. Answered' = Answered  BY <2>1, <4>1 DEF Answered
        <5> QED  BY <1>7, <4>1, <5>1 DEF Unseen, vars, callVars
      <4> QED  BY <1>1, <3>1, <3>2, <4>2, ContractStep
    <3>3. CASE deployment \in {"sqlite_processes", "json_records", "row_records"}
      <4>1. UNCHANGED Contract!vars  BY <1>1, <3>3 DEF Contract!vars, Shown
      <4> QED  BY <1>1, <3>1, <4>1
    <3> QED  BY <3>2, <3>3 DEF PromiseInv, Promised, Deployment
  <2> QED  BY <2>5, <2>6
<1> QED  BY <1>2, <1>3, <1>4, <1>5, <1>6, <1>7 DEF Next

(* ContractKept: the in-memory backend, the file backend under its lock, SQLite under the mutex of
   one process, the row with one writer and the row with several initializers each implement the
   contract of fmemory/src/backend.rs: a call takes effect at once, somewhere between its start and
   its answer, however many statements it has.  Calls may fail, but for two cases: the rename of a
   file (SafeRename), and the write of several statements that SQLite has begun (OneSqlite; Fail of
   SqliteStore). *)
THEOREM ContractHolds == Spec => ContractKept
<1>1. Init => PromiseInv /\ Contract!Init
  BY PromiseInit
<1>2. PromiseInv /\ [Next]_vars => PromiseInv' /\ [Contract!Next]_(Contract!vars)
  BY PromiseStep
<1> QED  BY <1>1, <1>2, PTL DEF Spec, ContractKept, Contract!Spec

(* The contract and the proved contract are one. *)
LEMMA KeptContract == Contract!Spec <=> Kept!Spec
<1>0. Kept!NoAnswer = NoAnswer /\ Kept!Failed = Failed
      /\ \A c, kind, s : Kept!Answer(c, kind, s) = Answer(c, kind, s)
  BY DEF Kept!NoAnswer, NoAnswer, Kept!Failed, Failed,
       Kept!Answer, Answer, Kept!Status, Status, Kept!Loaded, Loaded, Kept!Refused, Refused,
       Kept!HasFeature, HasFeature, Kept!IsInitialized, IsInitialized,
       Kept!EmptySession, EmptySession
<1>1. Contract!Init <=> Kept!Init
  BY <1>0, SameContract DEF Contract!Init, Kept!Init
<1>2. Contract!vars = Kept!vars /\ Contract!vars' = Kept!vars'
  BY DEF Contract!vars, Kept!vars
<1>3. Contract!Next <=> Kept!Next
  <2>1. Contract!Kind = Kept!Kind  BY DEF Contract!Kind, Kept!Kind
  <2>2. ASSUME NEW c \in Client PROVE Contract!Call(c) <=> Kept!Call(c)
    BY <1>0, <2>1, SameContract DEF Contract!Call, Kept!Call
  <2>3. ASSUME NEW c \in Client PROVE Contract!TakeEffect(c) <=> Kept!TakeEffect(c)
    BY <1>0, SameContract, SameKept DEF Contract!TakeEffect, Kept!TakeEffect
  <2>4. ASSUME NEW c \in Client PROVE Contract!Respond(c) <=> Kept!Respond(c)
    BY DEF Contract!Respond, Kept!Respond
  <2>5. ASSUME NEW c \in Client PROVE Contract!Fail(c) <=> Kept!Fail(c)
    BY <1>0, SameContract, SameKept DEF Contract!Fail, Kept!Fail
  <2> QED BY <2>2, <2>3, <2>4, <2>5 DEF Contract!Next, Kept!Next
<1>4. [Contract!Next]_(Contract!vars) <=> [Kept!Next]_(Kept!vars)
  BY <1>2, <1>3
<1> QED BY <1>1, <1>4, PTL DEF Contract!Spec, Kept!Spec

(* And so are their properties. *)
LEMMA KeptProperties ==
  /\ Kept!CreatedOnce => Contract!CreatedOnce
  /\ Kept!AcknowledgedKept => Contract!AcknowledgedKept
<1>1. Kept!CreatedOnce => Contract!CreatedOnce
  BY DEF Kept!CreatedOnce, Contract!CreatedOnce, Kept!Called, Contract!Called
<1>2. Kept!AcknowledgedKept => Contract!AcknowledgedKept
  BY DEF Kept!AcknowledgedKept, Contract!AcknowledgedKept, Kept!Called, Contract!Called,
    Kept!IsInitialized, Contract!IsInitialized, Kept!Turn, Contract!Turn
<1> QED BY <1>1, <1>2

(* CreatedOnce: on every deployment initialize_session_if_missing (fmemory/src/traits.rs) creates a
   session for one caller at most, whose list and manifest stay; also on SQLite when the callers
   are processes that die between two statements (fmemory/src/backends/sqlite.rs). *)
THEOREM CreatedOnceHolds == Spec => []CreatedOnce
<1>1. Contract!Spec => []Contract!CreatedOnce
  BY KeptParameters, KeptContract, KeptProperties, Kept!CreatedOnceHolds, PTL
<1>2. Spec => []Contract!CreatedOnce  BY <1>1, ContractHolds, PTL DEF ContractKept
<1>3. Contract!CreatedOnce /\ (deployment = "sqlite_processes" => CreatedOnce /\ AcknowledgedKept) => CreatedOnce
  BY DEF CreatedOnce
<1> QED  BY <1>2, <1>3, ProcessesHold, PTL

(* AcknowledgedKept: on every deployment what a caller was told is written is not lost by another
   caller's write, also when the callers are processes that die between two statements. *)
THEOREM AcknowledgedKeptHolds == Spec => []AcknowledgedKept
<1>1. Contract!Spec => []Contract!AcknowledgedKept
  BY KeptParameters, KeptContract, KeptProperties, Kept!AcknowledgedKeptHolds, PTL
<1>2. Spec => []Contract!AcknowledgedKept  BY <1>1, ContractHolds, PTL DEF ContractKept
<1>3. Contract!AcknowledgedKept /\ (deployment = "sqlite_processes" => CreatedOnce /\ AcknowledgedKept) => AcknowledgedKept
  BY DEF AcknowledgedKept
<1> QED  BY <1>2, <1>3, ProcessesHold, PTL

-----------------------------------------------------------------------------
(* The data of the backend in use has the shape its statements rely on.    *)

(* What the invariants of the deployments leave to be said of their types. *)
TypedInv ==
  /\ deployment = "memory" => \A c \in Client : pc[c] = "called" => answer[c] = NoAnswer
  /\ deployment = "files" => tmp \in SessionType \cup {NoFile, Torn}
  /\ deployment \in {"json_records", "row_records"} => PostgresWriter!TypeOK

(* It holds at first. *)
LEMMA TypedInit == Init => TypedInv
<1> SUFFICES ASSUME Init PROVE TypedInv  OBVIOUS
<1>1. deployment = "memory" => \A c \in Client : pc[c] # "called"  BY DEF Init, Memory!Init
<1>2. tmp = NoFile  BY DEF Init, File!Init
<1>3. ASSUME deployment \in {"json_records", "row_records"} PROVE PostgresWriter!TypeOK
  <2>1. row = NoRow /\ lock = NoClient /\ pc = [c \in Client |-> "idle"]
    BY <1>3 DEF Init, PostgresWriter!Init
  <2> QED  BY <2>1 DEF PostgresWriter!TypeOK
<1> QED  BY <1>1, <1>2, <1>3 DEF TypedInv

(* And is kept. *)
LEMMA TypedStep ==
  ASSUME PromiseInv, TypedInv, [Next]_vars
  PROVE  TypedInv'
<1>1. deployment' = deployment
  BY DEF Next, OnMemory, OnFiles, OnSqlite, OnPostgres, OnRecords, vars
<1>2. ASSUME deployment = "memory", NEW c \in Client, pc'[c] = "called"
      PROVE  answer'[c] = NoAnswer
  <2>1. MemoryInv  BY <1>2 DEF PromiseInv
  <2>2. CASE Memory!Next
    <3>1. PICK d \in Client :
            Memory!Call(d) \/ Memory!TakeEffect(d) \/ Memory!Respond(d) \/ Memory!Fail(d)
      BY <2>2 DEF Memory!Next
    <3>2. \/ pc[c] = "called" /\ answer'[c] = answer[c]
          \/ answer'[c] = NoAnswer
      BY <1>2, <2>1, <3>1, SameMemory
         DEF Memory!Call, Memory!TakeEffect, Memory!Respond, Memory!Fail, MemoryInv
    <3> QED  BY <1>2, <3>2 DEF TypedInv
  <2>3. CASE UNCHANGED vars
    BY <1>2, <2>3 DEF TypedInv, vars, callVars
  <2> QED
    BY <1>2, <2>2, <2>3 DEF Next, OnMemory, OnFiles, OnSqlite, OnPostgres, OnRecords
<1>3. ASSUME deployment = "files" PROVE tmp' \in SessionType \cup {NoFile, Torn}
  <2>1. FileInv /\ tmp \in SessionType \cup {NoFile, Torn}  BY <1>3 DEF PromiseInv, TypedInv
  <2>2. CASE File!Next
    <3>1. PICK c \in Client :
            \/ File!Call(c) \/ File!LoadState(c) \/ File!WriteTmp(c) \/ File!RemoveFile(c)
            \/ File!RenameTmp(c) \/ File!Respond(c) \/ File!Fail(c)
      BY <2>2 DEF File!Next
    <3>2. draft[c] \in SessionType  BY <2>1 DEF FileInv
    <3>3. tmp' = tmp \/ tmp' = draft[c] \/ tmp' = NoFile \/ tmp' \in {draft[c], Torn}
      BY <3>1 DEF File!Call, File!LoadState, File!WriteTmp, File!RemoveFile, File!RenameTmp,
                  File!Respond, File!Fail
    <3> QED  BY <2>1, <3>2, <3>3
  <2>3. CASE UNCHANGED vars
    BY <2>1, <2>3 DEF vars, fileVars
  <2> QED
    BY <1>3, <2>2, <2>3 DEF Next, OnMemory, OnFiles, OnSqlite, OnPostgres, OnRecords
<1>4. ASSUME deployment \in {"json_records", "row_records"} PROVE PostgresWriter!TypeOK'
  <2>1. UNCHANGED <<row, lock, pc>>
    BY <1>4 DEF Next, OnMemory, OnFiles, OnSqlite, OnPostgres, OnRecords, vars, postgresVars, callVars
  <2> QED  BY <1>4, <2>1 DEF TypedInv, PostgresWriter!TypeOK
<1> QED  BY <1>1, <1>2, <1>3, <1>4 DEF TypedInv

(* Of a set whose members are the same there is one member at most. *)
LEMMA AtMostOneMember ==
  ASSUME NEW S, \A a, b \in S : a = b
  PROVE  Cardinality(S) <= 1
<1>1. CASE S = {}  BY <1>1, FS_EmptySet
<1>2. ASSUME NEW a \in S PROVE Cardinality(S) <= 1
  <2>1. S = {a}  BY <1>2
  <2> QED  BY <2>1, FS_Singleton
<1> QED  BY <1>1, <1>2

(* The types follow from what is known of each deployment. *)
LEMMA Typed ==
  ASSUME PromiseInv, TypedInv, ProcessesInv, Contract!TypeOK
  PROVE  TypeOK
<1>1. ASSUME deployment = "memory" PROVE Memory!TypeOK
  <2>1. Phase = pc /\ View = session  BY <1>1, Views DEF Seen
  <2>2. \A c \in Client : Answered[c] = answer[c]  BY <1>1, <2>1 DEF Answered, TypedInv
  <2>3. Contract!SessionType = Memory!SessionType /\ Contract!Kind = Memory!Kind
    BY DEF Contract!SessionType, Memory!SessionType, Contract!Kind, Memory!Kind,
           Contract!FeatureRecord, Memory!FeatureRecord, Contract!Message, Memory!Message,
           Contract!RunStatus, Memory!RunStatus
  <2> QED  BY <1>1, <2>1, <2>2, <2>3 DEF Contract!TypeOK, Memory!TypeOK, Shown
<1>2. ASSUME deployment = "files" PROVE File!TypeOK
  <2>1. FileInv /\ tmp \in SessionType \cup {NoFile, Torn}  BY <1>2 DEF PromiseInv, TypedInv
  <2>2. File!SessionType = SessionType
    BY DEF File!SessionType, SessionType, File!FeatureRecord, FeatureRecord,
           File!Message, Message, File!RunStatus, RunStatus
  <2> DEFINE S == {c \in Client : pc[c] \in File!Writing}
  <2>3. \A c, d \in S : c = d  BY <2>1 DEF FileInv
  <2> HIDE DEF S
  <2>4. Cardinality(S) <= 1  BY <2>3, AtMostOneMember
  <2>5. Cardinality({c \in Client : pc[c] \in File!Writing}) <= 1  BY <2>4 DEF S
  <2>6. File!Cardinality({c \in Client : pc[c] \in File!Writing}) <= 1
    BY <2>5 DEF Cardinality, File!Cardinality
  <2> QED  BY <2>1, <2>2, <2>6 DEF FileInv, File!TypeOK
<1>3. ASSUME deployment = "sqlite" PROVE Sqlite!TypeOK
  <2>1. OneSqlite!TypeOK
    BY <1>3, SqliteParameters, OneSqlite!TablesTyped DEF PromiseInv, SqliteInv
  <2>2. OneSqlite!SessionType = Sqlite!SessionType
    BY DEF OneSqlite!SessionType, Sqlite!SessionType, OneSqlite!FeatureRecord, Sqlite!FeatureRecord,
           OneSqlite!Message, Sqlite!Message, OneSqlite!RunStatus, Sqlite!RunStatus
  <2>3. OneSqlite!SessionOf(db) = Sqlite!SessionOf(db)
    BY DEF OneSqlite!SessionOf, Sqlite!SessionOf
  <2> DEFINE S == {c \in Client : pc[c] = "running"}
  <2>4. OneSqlite!Cardinality(S) = Sqlite!Cardinality(S)
    BY DEF OneSqlite!Cardinality, Sqlite!Cardinality
  <2> QED  BY <2>1, <2>2, <2>3, <2>4 DEF OneSqlite!TypeOK, Sqlite!TypeOK
<1>4. ASSUME deployment = "sqlite_processes" PROVE SqliteProcesses!TypeOK
  <2>1. ManySqlite!TypeOK
    BY <1>4, ProcessParameters, ManySqlite!TablesTyped DEF ProcessesInv, ManySqlite!ProcessInv
  <2>2. ManySqlite!SessionType = SqliteProcesses!SessionType
    BY DEF ManySqlite!SessionType, SqliteProcesses!SessionType,
           ManySqlite!FeatureRecord, SqliteProcesses!FeatureRecord,
           ManySqlite!Message, SqliteProcesses!Message, ManySqlite!RunStatus, SqliteProcesses!RunStatus
  <2>3. ManySqlite!SessionOf(db) = SqliteProcesses!SessionOf(db)
    BY DEF ManySqlite!SessionOf, SqliteProcesses!SessionOf
  <2> QED  BY <2>1, <2>2, <2>3 DEF ManySqlite!TypeOK, SqliteProcesses!TypeOK
<1>5. ASSUME deployment \in OnRow PROVE PostgresWriter!TypeOK
  <2>1. RowInv  BY <1>5 DEF PromiseInv
  <2>2. PostgresWriter!SessionType = SessionType
    BY DEF PostgresWriter!SessionType, SessionType, PostgresWriter!FeatureRecord, FeatureRecord,
           PostgresWriter!Message, Message, PostgresWriter!RunStatus, RunStatus
  <2> QED  BY <2>1, <2>2 DEF RowInv, RowPoints, PostgresWriter!TypeOK
<1>6. deployment \in {"json_records", "row_records"} => PostgresWriter!TypeOK  BY DEF TypedInv
<1> QED  BY <1>1, <1>2, <1>3, <1>4, <1>5, <1>6 DEF TypeOK, OnRow, PromiseInv, Deployment

(* TypeOK: whatever backend is used, and whatever is interrupted where it may be, what the next
   statement or file operation relies on is there: a session file that is not torn, row ids that
   are unique, one writer inside the mutex, a lock that is held by who is about to commit. *)
THEOREM TypesHold == Spec => []TypeOK
<1>1. Init => PromiseInv /\ TypedInv /\ ProcessesInv
  BY PromiseInit, TypedInit, ProcessesFirst
<1>2. PromiseInv /\ TypedInv /\ ProcessesInv /\ [Next]_vars =>
        (PromiseInv /\ TypedInv /\ ProcessesInv)'
  BY PromiseStep, TypedStep, ProcessesStep
<1>3. Contract!Spec => []Contract!TypeOK
  <2>1. Kept!TypeOK => Contract!TypeOK
    <3>1. Contract!SessionType = Kept!SessionType /\ Contract!Kind = Kept!Kind
      BY DEF Contract!SessionType, Kept!SessionType, Contract!Kind, Kept!Kind,
             Contract!FeatureRecord, Kept!FeatureRecord, Contract!Message, Kept!Message,
             Contract!RunStatus, Kept!RunStatus
    <3> QED  BY <3>1 DEF Kept!TypeOK, Contract!TypeOK
  <2> QED  BY <2>1, KeptParameters, KeptContract, Kept!StoreTyped, PTL
<1>4. Spec => []Contract!TypeOK  BY <1>3, ContractHolds, PTL DEF ContractKept
<1>5. PromiseInv /\ TypedInv /\ ProcessesInv /\ Contract!TypeOK => TypeOK  BY Typed
<1> QED  BY <1>1, <1>2, <1>4, <1>5, PTL DEF Spec

=============================================================================
