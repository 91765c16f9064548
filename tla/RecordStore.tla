----------------------------- MODULE RecordStore ----------------------------
(***************************************************************************)
(* The records of a session on their way into durable storage and back:    *)
(* FilesystemMemoryBackend and PostgresMemoryBackend keep them as one JSON *)
(* document, SqliteMemoryBackend as rows.  Times become seconds and        *)
(* nanoseconds; statuses, shells and roles become names.  A load fails if  *)
(* one record cannot be read, so a record that is stored unreadable costs  *)
(* the whole session.                                                      *)
(*                                                                         *)
(* Here calls follow one another: how they interleave and fail is what     *)
(* FileStore, SqliteStore and PostgresStore are about, which abstract the  *)
(* records.  A manifest is reduced to its optional init plan; texts,       *)
(* metadata and features are copied, and left out.  An Option is a         *)
(* sequence of at most one element.                                        *)
(***************************************************************************)
EXTENDS Integers, Sequences

CONSTANTS
  Plan,         \* optional init plans of the manifests that are saved
  Instant,      \* times of progress entries, in nanoseconds since the epoch
  Checkpoint,   \* checkpoints that are recorded
  Roles,        \* roles of the messages of a turn that is appended
  MaxWrites     \* bound: calls that write

VARIABLES
  rows,     \* the storage keeps rows (SQLite), not a document
  stored,   \* what the storage holds
  told,     \* history: what the acknowledged calls asked to store
  half,     \* history: an initialization was refused after it had written
  writes    \* the number of calls that write so far

vars == <<rows, stored, told, half, writes>>

NanosPerSecond == 1000000000

Option(S) == {<< >>} \cup {<<x>> : x \in S}

Nothing == [manifest |-> << >>, progress |-> << >>, checkpoints |-> << >>, transcript |-> << >>]

Init ==
  /\ rows \in BOOLEAN
  /\ stored = Nothing
  /\ told = Nothing
  /\ half = FALSE
  /\ writes = 0

----------------------------------------------------------------------------
(* Into storage. *)

StatusToString == [InProgress |-> "in_progress", Succeeded |-> "succeeded", Failed |-> "failed"]
ShellToString  == [Bash |-> "bash", Sh |-> "sh", Pwsh |-> "pwsh", Cmd |-> "cmd"]
RoleToString   == [System |-> "system", User |-> "user", Assistant |-> "assistant", Tool |-> "tool"]

(* A step is "Command", or the shell of a script. *)
Step == {"Command"} \cup DOMAIN ShellToString

RecordAssumption ==
  /\ MaxWrites \in Nat
  /\ \A plan \in Plan : plan \in Seq(Seq(Step)) /\ Len(plan) <= 1
  /\ Instant \subseteq Int
  /\ \A c \in Checkpoint :
       /\ c \in [started : Int, completed : Seq(Int), status : DOMAIN StatusToString]
       /\ Len(c.completed) <= 1
  /\ Roles \in Seq(DOMAIN RoleToString)

(* Faulty variant: a time before the epoch is stored as negative seconds. *)
AcceptsAnyTime(t) == TRUE

(* duration_since refuses a time before the epoch. *)
AcceptsTime(t) == t >= 0

EncodeTime(t) == [secs |-> t \div NanosPerSecond, nanos |-> t % NanosPerSecond]

AcceptsCheckpoint(c) ==
  AcceptsTime(c.started) /\ \A i \in DOMAIN c.completed : AcceptsTime(c.completed[i])

EncodeCheckpoint(c) ==
  [started         |-> EncodeTime(c.started),
   completed_secs  |-> [i \in DOMAIN c.completed |-> EncodeTime(c.completed[i]).secs],
   completed_nanos |-> [i \in DOMAIN c.completed |-> EncodeTime(c.completed[i]).nanos],
   status          |-> StatusToString[c.status]]

EncodeStep(step) ==
  IF step = "Command" THEN [kind |-> "command", shell |-> << >>]
  ELSE [kind |-> "shell", shell |-> <<ShellToString[step]>>]

EncodeSteps(steps) == [i \in DOMAIN steps |-> EncodeStep(steps[i])]

(* A document has a plan or none; the table of plan steps has rows or none. *)
EncodePlan(plan) ==
  CASE ~rows                -> [i \in DOMAIN plan |-> EncodeSteps(plan[i])]
    [] rows /\ plan = << >> -> << >>
    [] OTHER                -> EncodeSteps(plan[1])

EncodeMessages(roles) == [i \in DOMAIN roles |-> RoleToString[roles[i]]]

----------------------------------------------------------------------------
(* Out of storage. *)

StatusFromString == [in_progress |-> "InProgress", succeeded |-> "Succeeded", failed |-> "Failed"]
ShellFromString  == [bash |-> "Bash", sh |-> "Sh", pwsh |-> "Pwsh", cmd |-> "Cmd"]
RoleFromString   == [system |-> "System", user |-> "User", assistant |-> "Assistant", tool |-> "Tool"]

ReadableTime(r) == r.secs >= 0 /\ r.nanos >= 0 /\ r.nanos < NanosPerSecond
DecodeTime(r)   == r.secs * NanosPerSecond + r.nanos

CompletedAt(r) == [i \in DOMAIN r.completed_secs |->
                     [secs |-> r.completed_secs[i], nanos |-> r.completed_nanos[i]]]

(* Both parts of the completion time are there, or neither is. *)
ReadableCheckpoint(r) ==
  /\ DOMAIN r.completed_secs = DOMAIN r.completed_nanos
  /\ \A i \in DOMAIN r.completed_secs : ReadableTime(CompletedAt(r)[i])
  /\ ReadableTime(r.started)
  /\ r.status \in DOMAIN StatusFromString

DecodeCheckpoint(r) ==
  [started   |-> DecodeTime(r.started),
   completed |-> [i \in DOMAIN r.completed_secs |-> DecodeTime(CompletedAt(r)[i])],
   status    |-> StatusFromString[r.status]]

ReadableStep(r) == r.kind = "shell" => r.shell # << >> /\ r.shell[1] \in DOMAIN ShellFromString
DecodeStep(r)   == IF r.kind = "command" THEN "Command" ELSE ShellFromString[r.shell[1]]
DecodeSteps(rs) == [i \in DOMAIN rs |-> DecodeStep(rs[i])]

StepsOf(plan) == IF rows THEN plan ELSE IF plan = << >> THEN << >> ELSE plan[1]

ReadablePlan(plan) == \A i \in DOMAIN StepsOf(plan) : ReadableStep(StepsOf(plan)[i])

DecodePlan(plan) ==
  IF plan = << >> THEN << >> ELSE <<DecodeSteps(StepsOf(plan))>>

(* load_bootstrap_state and load_transcript_messages find no error in s. *)
Readable(s) ==
  /\ \A i \in DOMAIN s.manifest    : ReadablePlan(s.manifest[i])
  /\ \A i \in DOMAIN s.progress    : ReadableTime(s.progress[i])
  /\ \A i \in DOMAIN s.checkpoints : ReadableCheckpoint(s.checkpoints[i])
  /\ \A i \in DOMAIN s.transcript  : s.transcript[i] \in DOMAIN RoleFromString

Load(s) ==
  [manifest    |-> [i \in DOMAIN s.manifest |-> DecodePlan(s.manifest[i])],
   progress    |-> [i \in DOMAIN s.progress |-> DecodeTime(s.progress[i])],
   checkpoints |-> [i \in DOMAIN s.checkpoints |-> DecodeCheckpoint(s.checkpoints[i])],
   transcript  |-> [i \in DOMAIN s.transcript |-> RoleFromString[s.transcript[i]]]]

----------------------------------------------------------------------------

Write ==
  /\ writes < MaxWrites
  /\ writes' = writes + 1
  /\ UNCHANGED rows

Store(s, t) == stored' = s /\ told' = t /\ UNCHANGED half

(* initialize_session_if_missing with its optional first entry and          *)
(* checkpoint.  A document is written when all of them are encoded; rows    *)
(* are written up to the record that is refused.                            *)
Initialize(plan, entry, checkpoint) ==
  LET logs    == \A i \in DOMAIN entry : AcceptsTime(entry[i])
      records == \A i \in DOMAIN checkpoint : AcceptsCheckpoint(checkpoint[i])
      begun   == [stored EXCEPT !.manifest = <<EncodePlan(plan)>>]
      logged  == [begun EXCEPT !.progress = @ \o [i \in DOMAIN entry |-> EncodeTime(entry[i])]]
      done    == [logged EXCEPT !.checkpoints =
                    @ \o [i \in DOMAIN checkpoint |-> EncodeCheckpoint(checkpoint[i])]]
  IN  /\ Write
      /\ \/ stored.manifest # << >> /\ UNCHANGED <<stored, told, half>>
         \/ /\ stored.manifest = << >> /\ logs /\ records
            /\ Store(done, [told EXCEPT !.manifest = <<plan>>, !.progress = @ \o entry,
                                        !.checkpoints = @ \o checkpoint])
         \/ /\ stored.manifest = << >> /\ ~(logs /\ records)
            /\ stored' = IF ~rows THEN stored ELSE IF logs THEN logged ELSE begun
            /\ half' = rows
            /\ UNCHANGED told

SaveManifest(plan) ==
  /\ Write
  /\ Store([stored EXCEPT !.manifest = <<EncodePlan(plan)>>], [told EXCEPT !.manifest = <<plan>>])

AppendProgress(t) ==
  /\ Write
  /\ IF AcceptsTime(t)
     THEN Store([stored EXCEPT !.progress = Append(@, EncodeTime(t))],
                [told EXCEPT !.progress = Append(@, t)])
     ELSE UNCHANGED <<stored, told, half>>

RecordCheckpoint(c) ==
  /\ Write
  /\ IF AcceptsCheckpoint(c)
     THEN Store([stored EXCEPT !.checkpoints = Append(@, EncodeCheckpoint(c))],
                [told EXCEPT !.checkpoints = Append(@, c)])
     ELSE UNCHANGED <<stored, told, half>>

AppendTranscript ==
  /\ Write
  /\ Store([stored EXCEPT !.transcript = @ \o EncodeMessages(Roles)],
           [told EXCEPT !.transcript = @ \o Roles])

Next ==
  \/ \E plan \in Plan, entry \in Option(Instant), checkpoint \in Option(Checkpoint) :
       Initialize(plan, entry, checkpoint)
  \/ \E plan \in Plan : SaveManifest(plan)
  \/ \E t \in Instant : AppendProgress(t)
  \/ \E c \in Checkpoint : RecordCheckpoint(c)
  \/ AppendTranscript

Spec == Init /\ [][Next]_vars

----------------------------------------------------------------------------
(* What SQLite gives back for a plan: one without steps is read as none. *)
Kept(plan) == IF rows /\ plan = <<<< >>>> THEN << >> ELSE plan

(* Whatever was written, a session can be loaded, and has every record that  *)
(* was acknowledged as it was given and nothing that was refused (the        *)
(* conversions of filesystem.rs, postgres.rs and sqlite.rs).  SQLite reads   *)
(* a plan without steps as no plan, and an initialization it refused for a   *)
(* time before the epoch leaves what it had written.                         *)
LoadsBack ==
  /\ Readable(stored)
  /\ ~half => Load(stored) =
       [told EXCEPT !.manifest = [i \in DOMAIN @ |-> Kept(@[i])]]

=============================================================================
