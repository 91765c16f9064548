----------------------------- MODULE SqliteStore ----------------------------
(***************************************************************************)
(* SqliteMemoryBackend: a session is spread over tables, and a call is a   *)
(* program of statements that each commit on their own.  A mutex around    *)
(* the connection makes the calls of one process exclude each other; the   *)
(* calls of two processes on one database file interleave.                 *)
(*                                                                         *)
(* Between two statements the process may die, or the next statement fail. *)
(* The metadata and init-plan tables hold details of a manifest that are   *)
(* abstracted, so the statements on them are left out.  Rows of the        *)
(* features table are in the order of their positions, which two processes *)
(* that both replace the list would not respect, as the messages of two    *)
(* turns would mix that two processes append: see ProcessAssumption.       *)
(***************************************************************************)
EXTENDS SessionCalls

CONSTANTS
  OneProcess,    \* all clients share one backend, hence its mutex
  Interrupted    \* calls may be interrupted between two statements

ProcessAssumption ==
  /\ OneProcess \in BOOLEAN /\ Interrupted \in BOOLEAN
  /\ OneProcess \/ \A c, d \in Client :
       /\ "replace_features" \notin Ops[c]
       /\ "append_transcript" \in Ops[c] \cap Ops[d] => c = d

VARIABLES
  db,        \* the tables; a row of db.features also has its row id
  nextRow,   \* the next row id of the features table
  found,     \* found[c]: the row id client c selected for its update
  todo,      \* todo[c]: the statements client c still has to execute
  pc,        \* pc[c]: "idle", "called" (nothing executed yet), "running", "done"
  op, answer, calls, acked     \* as in SessionStore

vars == <<db, nextRow, found, todo, pc, op, answer, calls, acked>>

Row(n, f) == [row |-> n, id |-> f.id, passes |-> f.passes]

(* The session in the tables d. *)
SessionOf(d) ==
  [d EXCEPT !.features = [i \in DOMAIN @ |-> [id |-> @[i].id, passes |-> @[i].passes]]]

Init ==
  /\ db = [InitialSession EXCEPT !.features = [i \in DOMAIN @ |-> Row(i, @[i])]]
  /\ nextRow = Len(InitialSession.features) + 1
  /\ found  = [c \in Client |-> 0]
  /\ todo   = [c \in Client |-> << >>]
  /\ pc     = [c \in Client |-> "idle"]
  /\ op     = [c \in Client |-> "load"]
  /\ answer = [c \in Client |-> NoAnswer]
  /\ calls  = [c \in Client |-> << >>]
  /\ acked  = {}

----------------------------------------------------------------------------
(* The statements of each call: what they do, and the index of a list item. *)

Sql(kinds) == [i \in DOMAIN kinds |-> <<kinds[i], 0>>]

ReplaceRows(c) == Sql(<<"clear_features">>) \o [i \in DOMAIN List[c] |-> <<"insert_feature", i>>]

Program(c, kind) ==
  CASE kind = "initialize"        -> Sql(<<"claim", "save_manifest">>) \o ReplaceRows(c)
                                     \o Sql(<<"append_progress", "checkpoint">>)
    [] kind = "replace_features"  -> ReplaceRows(c)
    [] kind = "load"              -> Sql(<<"read_manifest", "read_features", "read_progress",
                                           "read_checkpoints">>)
    [] kind = "load_transcript"   -> Sql(<<"read_transcript">>)
    [] kind = "append_transcript" -> <<<<"message", 1>>, <<"message", 2>>>>
    [] kind = "update_pass"       -> Sql(<<"find", "update">>)
    [] OTHER                      -> Sql(<<kind>>)

(* The tables after client c executed a statement that writes. *)
Execute(c, stmt, d) ==
  CASE stmt[1] \in {"claim", "save_manifest"} -> [d EXCEPT !.manifest = c]
    [] stmt[1] = "clear_features"  -> [d EXCEPT !.features = << >>]
    [] stmt[1] = "insert_feature"  ->
         [d EXCEPT !.features = Append(@, Row(nextRow, List[c][stmt[2]]))]
    [] stmt[1] = "update"          ->
         [d EXCEPT !.features = [i \in DOMAIN @ |->
            IF @[i].row = found[c] THEN [@[i] EXCEPT !.passes = TRUE] ELSE @[i]]]
    [] stmt[1] = "append_progress" -> [d EXCEPT !.progress = Append(@, c)]
    [] stmt[1] = "checkpoint"      ->
         [d EXCEPT !.checkpoints = Append(@,
            [run |-> c, status |-> IF op[c] = "initialize" THEN "InProgress" ELSE "Succeeded"])]
    [] stmt[1] = "message"         -> [d EXCEPT !.transcript = Append(@, Turn(c)[stmt[2]])]
    [] OTHER                       -> d

(* The state that was read, with what a statement reads of the session s. *)
Read(stmt, state, s) ==
  CASE stmt[1] = "read_manifest"    -> [state EXCEPT !.manifest = s.manifest]
    [] stmt[1] = "read_features"    -> [state EXCEPT !.features = s.features]
    [] stmt[1] = "read_progress"    -> [state EXCEPT !.progress = s.progress]
    [] stmt[1] = "read_checkpoints" -> [state EXCEPT !.checkpoints = s.checkpoints]
    [] stmt[1] = "read_transcript"  -> [state EXCEPT !.transcript = s.transcript]
    [] OTHER                        -> state

----------------------------------------------------------------------------

Call(c) ==
  /\ pc[c] = "idle"
  /\ Len(calls[c]) < MaxCalls
  /\ \E kind \in Ops[c] :
       /\ op' = [op EXCEPT ![c] = kind]
       /\ calls' = [calls EXCEPT ![c] = Append(@, kind)]
       /\ todo' = [todo EXCEPT ![c] = Program(c, kind)]
  /\ pc' = [pc EXCEPT ![c] = "called"]
  /\ answer' = [answer EXCEPT ![c] = NoAnswer]
  /\ UNCHANGED <<db, nextRow, found, acked>>

(* Client c executes a statement next, and nobody else is inside the mutex. *)
Scheduled(c, kinds) ==
  /\ pc[c] \in {"called", "running"}
  /\ Head(todo[c])[1] \in kinds
  /\ OneProcess => \A d \in Client \ {c} : pc[d] # "running"

Proceed(c, rest) ==
  /\ todo' = [todo EXCEPT ![c] = rest]
  /\ pc' = [pc EXCEPT ![c] = IF rest = << >> THEN "done" ELSE "running"]

SetStatus(c, status) == answer' = [answer EXCEPT ![c].status = status]

ReadStatements == {"is_initialized", "read_manifest", "read_features", "read_progress",
                   "read_checkpoints", "read_transcript"}
WriteStatements == {"save_manifest", "clear_features", "insert_feature", "update",
                    "append_progress", "checkpoint", "message"}

(* Faulty variant: an insert that replaces what is there. *)
ClaimAlways(c) ==
  /\ Scheduled(c, {"claim"})
  /\ db' = Execute(c, Head(todo[c]), db)
  /\ SetStatus(c, "created")
  /\ Proceed(c, Tail(todo[c]))
  /\ UNCHANGED <<nextRow, found, op, calls, acked>>

(* INSERT OR IGNORE of the session row: only the first one goes on. *)
ClaimSession(c) ==
  /\ Scheduled(c, {"claim"})
  /\ IF IsInitialized(db)
     THEN /\ SetStatus(c, "exists")
          /\ Proceed(c, << >>)
          /\ UNCHANGED db
     ELSE /\ db' = Execute(c, Head(todo[c]), db)
          /\ SetStatus(c, "created")
          /\ Proceed(c, Tail(todo[c]))
  /\ UNCHANGED <<nextRow, found, op, calls, acked>>

FindFeature(c) ==
  /\ Scheduled(c, {"find"})
  /\ IF HasFeature(db, Target[c])
     THEN /\ \E i \in DOMAIN db.features :
               /\ db.features[i].id = Target[c]
               /\ \A j \in 1 .. (i - 1) : db.features[j].id # Target[c]
               /\ found' = [found EXCEPT ![c] = db.features[i].row]
          /\ SetStatus(c, "ok")
          /\ Proceed(c, Tail(todo[c]))
     ELSE /\ SetStatus(c, "not_found")
          /\ Proceed(c, << >>)
          /\ UNCHANGED found
  /\ UNCHANGED <<db, nextRow, op, calls, acked>>

WriteRows(c) ==
  /\ Scheduled(c, WriteStatements)
  /\ db' = Execute(c, Head(todo[c]), db)
  /\ nextRow' = IF Head(todo[c])[1] = "insert_feature" THEN nextRow + 1 ELSE nextRow
  /\ IF pc[c] = "called" THEN SetStatus(c, "ok") ELSE UNCHANGED answer
  /\ Proceed(c, Tail(todo[c]))
  /\ UNCHANGED <<found, op, calls, acked>>

ReadRows(c) ==
  /\ Scheduled(c, ReadStatements)
  /\ answer' = [answer EXCEPT ![c] =
       [status |-> Status(c, op[c], db),
        state  |-> Read(Head(todo[c]), @.state, SessionOf(db))]]
  /\ Proceed(c, Tail(todo[c]))
  /\ UNCHANGED <<db, nextRow, found, op, calls, acked>>

Respond(c) ==
  /\ pc[c] = "done"
  /\ pc' = [pc EXCEPT ![c] = "idle"]
  /\ acked' = IF answer[c].status \in {"ok", "created"}
              THEN acked \cup {<<c, op[c]>>} ELSE acked
  /\ UNCHANGED <<db, nextRow, found, todo, op, answer, calls>>

IsRead(kind) == kind \in {"is_initialized", "load", "load_transcript"}

(* A statement fails, or the process of c dies: what is written stays. *)
Fail(c) ==
  /\ pc[c] # "idle"
  /\ Interrupted \/ pc[c] # "running" \/ IsRead(op[c])
  /\ pc' = [pc EXCEPT ![c] = "idle"]
  /\ todo' = [todo EXCEPT ![c] = << >>]
  /\ answer' = [answer EXCEPT ![c] = Failed]
  /\ UNCHANGED <<db, nextRow, found, op, calls, acked>>

Next == \E c \in Client :
  Call(c) \/ ClaimSession(c) \/ FindFeature(c) \/ WriteRows(c) \/ ReadRows(c)
  \/ Respond(c) \/ Fail(c)

Spec == Init /\ [][Next]_vars

----------------------------------------------------------------------------
(* Properties. *)

(* Clients inside a call that writes. *)
WritingNow == {c \in Client : pc[c] = "running" /\ ~IsRead(op[c])}

Left(c, kind) == \E i \in DOMAIN todo[c] : todo[c][i][1] = kind

(* The session when client c has executed what it has left to do. *)
Completed(c) ==
  LET s == SessionOf(db) IN
  CASE op[c] = "initialize" ->
         [s EXCEPT !.features    = List[c],
                   !.progress    = IF Left(c, "append_progress") THEN Append(@, c) ELSE @,
                   !.checkpoints = Append(@, [run |-> c, status |-> "InProgress"])]
    [] op[c] = "append_transcript" -> [s EXCEPT !.transcript = Append(@, Turn(c)[2])]
    [] OTHER -> Apply(c, op[c], s)

(* In one process a write takes effect with its first statement: nobody sees *)
(* the tables before its last one.  A read takes effect with its last.  To   *)
(* another process the tables are what they are.                             *)
View ==
  IF OneProcess /\ WritingNow # {} THEN Completed(CHOOSE c \in WritingNow : TRUE)
  ELSE SessionOf(db)

Phase == [c \in Client |->
  CASE pc[c] \in {"idle", "done"} -> pc[c]
    [] c \in WritingNow           -> "done"
    [] OTHER                      -> "called"]

Answered == [c \in Client |-> IF Phase[c] = "called" THEN NoAnswer ELSE answer[c]]

Contract == INSTANCE SessionStore WITH session <- View, phase <- Phase, answer <- Answered

(* The tables hold a session, row ids are unique, and a call under way has   *)
(* statements left, whose mutex no other call of the process has.            *)
TypeOK ==
  /\ SessionOf(db) \in SessionType
  /\ \A i, j \in DOMAIN db.features : db.features[i].row = db.features[j].row => i = j
  /\ \A i \in DOMAIN db.features : db.features[i].row < nextRow
  /\ \A c \in Client : pc[c] \in {"called", "running"} <=> todo[c] # << >>
  /\ OneProcess => Cardinality({c \in Client : pc[c] = "running"}) <= 1

(* Within one process, and if no write is interrupted between its            *)
(* statements, the backend implements the contract of MemoryBackend.         *)
ContractKept == Contract!Spec

(* Across processes, and whatever is interrupted: only one initializer is    *)
(* told that it created the session, and that is the one it was.             *)
CreatedOnce == Contract!CreatedOnce

(* Across processes, and whatever is interrupted: acknowledged log entries   *)
(* and feature marks are kept.                                               *)
AcknowledgedKept == Contract!AcknowledgedKept

(* "Returns false when state already exists": a caller that is told so, with *)
(* nobody writing, finds the list the session was created with.              *)
ExistsMeansWritten ==
  \A c \in Client :
    answer[c].status = "exists" /\ WritingNow = {} =>
      \E d \in Client : Len(db.features) = Len(List[d])

=============================================================================
