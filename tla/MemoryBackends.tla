--------------------------- MODULE MemoryBackends ---------------------------
(***************************************************************************)
(* A deployment of fmemory: the application chooses a MemoryBackendConfig, *)
(* create_memory_backend makes the backend, and clients call it.  What     *)
(* each backend promises depends on how it is deployed:                    *)
(*   - in memory, or on files: the contract of MemoryBackend               *)
(*     (SessionStore) for any calls;                                       *)
(*   - on SQLite within one process: the contract, as long as no write of  *)
(*     several statements fails once it has begun (sqlite_interrupt.cfg    *)
(*     has what becomes of it otherwise);                                  *)
(*   - on PostgreSQL: the contract if one client writes, or if all write   *)
(*     by initializing a session that has a row;                           *)
(*   - on SQLite from several processes, interrupted anywhere: one creator *)
(*     and acknowledged writes, for calls that do not replace the list.    *)
(* The modules of the backends say what each does; this one lets each of   *)
(* them run alone, on variables they share where they mean the same.  Two  *)
(* more deployments look at the records inside, call after call            *)
(* (RecordStore): as a document (files, PostgreSQL) and as rows (SQLite).  *)
(***************************************************************************)
EXTENDS SessionCalls

CONSTANTS
  NoRow, NoClient,     \* see PostgresStore
  NoFile, Torn,        \* see FileStore
  WriterOps,           \* the operations of a deployment with one writer
  InitializerOps,      \* ... of one where all writers initialize
  ProcessOps,          \* ... of processes that share a database file
  Plan, Instant, Checkpoint, Roles, MaxWrites   \* see RecordStore

VARIABLES
  deployment,                   \* the backend and the way it is used
  session,                      \* of InMemoryMemoryBackend
  file, tmp,                    \* of FilesystemMemoryBackend
  db, nextRow, found, todo,     \* of SqliteMemoryBackend
  row, lock,                    \* of PostgresMemoryBackend
  stored, told, half, writes,   \* of the records, whatever the backend
  draft, pc, op, answer, calls, acked

memoryVars   == <<session>>
fileVars     == <<file, tmp>>
sqliteVars   == <<db, nextRow, found, todo>>
postgresVars == <<row, lock>>
recordVars   == <<stored, told, half, writes>>
callVars     == <<draft, pc, op, answer, calls, acked>>

vars == <<deployment, memoryVars, fileVars, sqliteVars, postgresVars, recordVars, callVars>>

Memory          == INSTANCE SessionStore WITH phase <- pc
File            == INSTANCE FileStore WITH SafeRename <- TRUE
Sqlite          == INSTANCE SqliteStore WITH OneProcess <- TRUE, Interrupted <- FALSE
SqliteProcesses == INSTANCE SqliteStore WITH OneProcess <- FALSE, Interrupted <- TRUE,
                                             Ops <- ProcessOps
PostgresWriter  == INSTANCE PostgresStore WITH RowAtStart <- FALSE, Ops <- WriterOps
PostgresInitializers ==
  INSTANCE PostgresStore WITH RowAtStart <- TRUE, Ops <- InitializerOps
Records == INSTANCE RecordStore WITH rows <- deployment = "row_records"

Reads == {"is_initialized", "load", "load_transcript"}

ASSUME DeploymentAssumption ==
  /\ \A ops \in {WriterOps, InitializerOps, ProcessOps} : ops \in [Client -> SUBSET Kind]
  /\ \A c, d \in Client : c # d => WriterOps[c] \subseteq Reads \/ WriterOps[d] \subseteq Reads
  /\ \A c \in Client : InitializerOps[c] \subseteq {"initialize"} \cup Reads
  /\ File!FileAssumption
  /\ Sqlite!ProcessAssumption /\ SqliteProcesses!ProcessAssumption
  /\ PostgresWriter!RowAssumption /\ PostgresInitializers!RowAssumption
  /\ Records!RecordAssumption

Deployment == {"memory", "files", "sqlite", "sqlite_processes", "postgres_writer",
               "postgres_initializers", "json_records", "row_records"}

(* create_memory_backend, and the calls of the backend it made. *)
Init ==
  /\ deployment \in Deployment
  /\ Memory!Init /\ File!Init /\ Sqlite!Init /\ Records!Init
  /\ IF deployment = "postgres_initializers" THEN PostgresInitializers!Init
     ELSE PostgresWriter!Init

OnMemory ==
  /\ deployment = "memory"
  /\ Memory!Next
  /\ UNCHANGED <<deployment, fileVars, sqliteVars, postgresVars, recordVars, draft>>

OnFiles ==
  /\ deployment = "files"
  /\ File!Next
  /\ UNCHANGED <<deployment, memoryVars, sqliteVars, postgresVars, recordVars>>

OnSqlite ==
  /\ \/ deployment = "sqlite" /\ Sqlite!Next
     \/ deployment = "sqlite_processes" /\ SqliteProcesses!Next
  /\ UNCHANGED <<deployment, memoryVars, fileVars, postgresVars, recordVars, draft>>

OnPostgres ==
  /\ \/ deployment = "postgres_writer" /\ PostgresWriter!Next
     \/ deployment = "postgres_initializers" /\ PostgresInitializers!Next
  /\ UNCHANGED <<deployment, memoryVars, fileVars, sqliteVars, recordVars>>

OnRecords ==
  /\ deployment \in {"json_records", "row_records"}
  /\ UNCHANGED <<deployment, memoryVars, fileVars, sqliteVars, postgresVars, callVars>>
  /\ Records!Next

Next == OnMemory \/ OnFiles \/ OnSqlite \/ OnPostgres \/ OnRecords

Spec == Init /\ [][Next]_vars

----------------------------------------------------------------------------
(* What the clients see of the session they work on. *)

View ==
  CASE deployment = "memory" -> session
    [] deployment = "files"  -> File!View
    [] deployment \in {"sqlite", "sqlite_processes"} -> Sqlite!View
    [] OTHER                 -> PostgresWriter!Stored

Phase ==
  CASE deployment = "memory" -> pc
    [] deployment = "files"  -> File!Phase
    [] deployment = "sqlite" -> Sqlite!Phase
    [] OTHER                 -> PostgresWriter!Phase

Answered == [c \in Client |-> IF Phase[c] = "called" THEN NoAnswer ELSE answer[c]]

(* Several processes on SQLite are promised less than the contract, which   *)
(* then is shown a store that nobody calls, as it is where records are      *)
(* looked at.                                                               *)
Shown(value, initially) ==
  IF deployment \in {"sqlite_processes", "json_records", "row_records"}
  THEN initially ELSE value

Contract == INSTANCE SessionStore WITH
  session <- Shown(View, InitialSession),
  phase   <- Shown(Phase, [c \in Client |-> "idle"]),
  op      <- Shown(op, [c \in Client |-> "load"]),
  answer  <- Shown(Answered, [c \in Client |-> NoAnswer]),
  calls   <- Shown(calls, [c \in Client |-> << >>]),
  acked   <- Shown(acked, {}),
  Ops     <- [c \in Client |-> Kind]

----------------------------------------------------------------------------
(* Properties. *)

(* The data of the backend in use has the shape its next statement or file   *)
(* operation relies on.                                                      *)
TypeOK ==
  CASE deployment = "memory" -> Memory!TypeOK
    [] deployment = "files"  -> File!TypeOK
    [] deployment = "sqlite" -> Sqlite!TypeOK
    [] deployment = "sqlite_processes" -> SqliteProcesses!TypeOK
    [] OTHER -> PostgresWriter!TypeOK

(* Each backend implements the contract of MemoryBackend in the deployments  *)
(* that are promised it.  Calls may fail in all of them: on files at any     *)
(* step but the rename (file_crash.cfg), on PostgreSQL at any statement, on  *)
(* SQLite before their first statement, at any statement of a read, and on   *)
(* the way to the caller.  A write of SQLite that has several statements     *)
(* (sqlite.rs:295-325, 393-458, 976-992) and fails between two of them is    *)
(* left out: it may keep part of what it was to write, and break the         *)
(* contract (sqlite_interrupt.cfg).                                          *)
ContractKept == Contract!Spec

(* "Returns true when it creates state for the first time": however many     *)
(* clients initialize, in every deployment and also from several processes   *)
(* that die between two statements, one is told so and the session stays its *)
(* own.                                                                      *)
CreatedOnce ==
  CASE deployment = "sqlite_processes" -> SqliteProcesses!CreatedOnce
    [] OTHER -> Contract!CreatedOnce

(* Whatever was written, a session can be loaded, and has every record that  *)
(* was acknowledged as it was given (the conversions of the three backends). *)
LoadsBack ==
  deployment \in {"json_records", "row_records"} => Records!LoadsBack

(* What a client was told is stored stays stored, in every deployment, also  *)
(* when several processes die between two statements.                        *)
AcknowledgedKept ==
  CASE deployment = "sqlite_processes" -> SqliteProcesses!AcknowledgedKept
    [] OTHER -> Contract!AcknowledgedKept

=============================================================================
