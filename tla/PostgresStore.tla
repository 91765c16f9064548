---------------------------- MODULE PostgresStore ---------------------------
(***************************************************************************)
(* PostgresMemoryBackend: one row holds the whole state of a session.      *)
(* initialize_session_if_missing is a transaction (read committed) that    *)
(* locks the row; every other write loads the state and saves it with two  *)
(* statements on a connection of its own.                                  *)
(*                                                                         *)
(* Statements are atomic.  A lock is on the row, also on one that is being *)
(* inserted; SELECT ... FOR UPDATE finds nothing to lock, and nothing to   *)
(* wait for, when no row is committed.                                     *)
(***************************************************************************)
EXTENDS SessionCalls

CONSTANTS
  NoRow,         \* the session has no committed row
  NoClient,      \* nobody holds the lock
  RowAtStart     \* whether the session has a row at first

RowAssumption ==
  /\ NoClient \notin Client /\ NoRow \notin SessionType
  /\ RowAtStart \in BOOLEAN
  /\ ~RowAtStart => InitialSession = EmptySession

VARIABLES
  row,       \* the committed row
  lock,      \* the client whose transaction holds the row lock
  draft,     \* draft[c]: the state client c computed and is going to write
  pc,        \* pc[c]: the statement client c executes next
  op, answer, calls, acked     \* as in SessionStore

vars == <<row, lock, draft, pc, op, answer, calls, acked>>

Init ==
  /\ row    = IF RowAtStart THEN InitialSession ELSE NoRow
  /\ lock   = NoClient
  /\ draft  = [c \in Client |-> EmptySession]
  /\ pc     = [c \in Client |-> "idle"]
  /\ op     = [c \in Client |-> "load"]
  /\ answer = [c \in Client |-> NoAnswer]
  /\ calls  = [c \in Client |-> << >>]
  /\ acked  = {}

(* A missing row is read as the default state. *)
Stored == IF row = NoRow THEN EmptySession ELSE row

IsRead(kind) == kind \in {"is_initialized", "load", "load_transcript"}

Finish(c, a) ==
  /\ pc' = [pc EXCEPT ![c] = "done"]
  /\ answer' = [answer EXCEPT ![c] = a]
  /\ draft' = [draft EXCEPT ![c] = EmptySession]

----------------------------------------------------------------------------

Call(c) ==
  /\ pc[c] = "idle"
  /\ Len(calls[c]) < MaxCalls
  /\ \E kind \in Ops[c] :
       /\ op' = [op EXCEPT ![c] = kind]
       /\ calls' = [calls EXCEPT ![c] = Append(@, kind)]
  /\ pc' = [pc EXCEPT ![c] = "select"]
  /\ answer' = [answer EXCEPT ![c] = NoAnswer]
  /\ UNCHANGED <<row, lock, draft, acked>>

(* Faulty variant: a plain SELECT in the transaction. *)
SelectUnlocked(c) ==
  /\ pc[c] = "select"
  /\ op[c] = "initialize"
  /\ IF IsInitialized(Stored)
     THEN Finish(c, Answer(c, op[c], Stored))
     ELSE /\ draft' = [draft EXCEPT ![c] = Apply(c, op[c], Stored)]
          /\ pc' = [pc EXCEPT ![c] = "insert"]
          /\ UNCHANGED answer
  /\ UNCHANGED <<row, lock, op, calls, acked>>

(* SELECT ... FOR UPDATE, and the rollback if the session exists. *)
SelectForUpdate(c) ==
  /\ pc[c] = "select"
  /\ op[c] = "initialize"
  /\ row # NoRow => lock = NoClient
  /\ IF IsInitialized(Stored)
     THEN Finish(c, Answer(c, op[c], Stored)) /\ UNCHANGED lock
     ELSE /\ draft' = [draft EXCEPT ![c] = Apply(c, op[c], Stored)]
          /\ lock' = IF row # NoRow THEN c ELSE lock
          /\ pc' = [pc EXCEPT ![c] = "insert"]
          /\ UNCHANGED answer
  /\ UNCHANGED <<row, op, calls, acked>>

(* INSERT ... ON CONFLICT DO UPDATE waits for the transaction it conflicts with. *)
Insert(c) ==
  /\ pc[c] = "insert"
  /\ lock \in {NoClient, c}
  /\ lock' = c
  /\ pc' = [pc EXCEPT ![c] = "commit"]
  /\ UNCHANGED <<row, draft, op, answer, calls, acked>>

Commit(c) ==
  /\ pc[c] = "commit"
  /\ row' = draft[c]
  /\ lock' = NoClient
  /\ Finish(c, [NoAnswer EXCEPT !.status = "created"])
  /\ UNCHANGED <<op, calls, acked>>

(* load_state of every other call; the reads end here. *)
LoadState(c) ==
  /\ pc[c] = "select"
  /\ op[c] # "initialize"
  /\ IF IsRead(op[c]) \/ Refused(c, op[c], Stored)
     THEN Finish(c, Answer(c, op[c], Stored))
     ELSE /\ draft' = [draft EXCEPT ![c] = Apply(c, op[c], Stored)]
          /\ pc' = [pc EXCEPT ![c] = "save"]
          /\ UNCHANGED answer
  /\ UNCHANGED <<row, lock, op, calls, acked>>

SaveState(c) ==
  /\ pc[c] = "save"
  /\ lock = NoClient
  /\ row' = draft[c]
  /\ Finish(c, [NoAnswer EXCEPT !.status = "ok"])
  /\ UNCHANGED <<lock, op, calls, acked>>

Respond(c) ==
  /\ pc[c] = "done"
  /\ pc' = [pc EXCEPT ![c] = "idle"]
  /\ acked' = IF answer[c].status \in {"ok", "created"}
              THEN acked \cup {<<c, op[c]>>} ELSE acked
  /\ UNCHANGED <<row, lock, draft, op, answer, calls>>

(* Faulty variant: the transaction is not rolled back. *)
FailLocked(c) ==
  /\ pc[c] # "idle"
  /\ \/ UNCHANGED row
     \/ /\ pc[c] = "commit" \/ (pc[c] = "save" /\ lock = NoClient)
        /\ row' = draft[c]
  /\ UNCHANGED lock
  /\ pc' = [pc EXCEPT ![c] = "idle"]
  /\ answer' = [answer EXCEPT ![c] = Failed]
  /\ draft' = [draft EXCEPT ![c] = EmptySession]
  /\ UNCHANGED <<op, calls, acked>>

(* A statement fails, the future is dropped or the process dies: the       *)
(* transaction is rolled back unless its commit got through, and a save    *)
(* may have got through.                                                   *)
Fail(c) ==
  /\ pc[c] # "idle"
  /\ \/ UNCHANGED row
     \/ /\ pc[c] = "commit" \/ (pc[c] = "save" /\ lock = NoClient)
        /\ row' = draft[c]
  /\ lock' = IF lock = c THEN NoClient ELSE lock
  /\ pc' = [pc EXCEPT ![c] = "idle"]
  /\ answer' = [answer EXCEPT ![c] = Failed]
  /\ draft' = [draft EXCEPT ![c] = EmptySession]
  /\ UNCHANGED <<op, calls, acked>>

Next == \E c \in Client :
  Call(c) \/ SelectForUpdate(c) \/ Insert(c) \/ Commit(c) \/ LoadState(c) \/ SaveState(c)
  \/ Respond(c) \/ Fail(c)

Spec == Init /\ [][Next]_vars

----------------------------------------------------------------------------
(* Properties. *)

Phase == [c \in Client |-> IF pc[c] \in {"idle", "done"} THEN pc[c] ELSE "called"]

Contract == INSTANCE SessionStore WITH session <- Stored, phase <- Phase

(* The row and the lock have the shape the statements rely on: only a        *)
(* transaction under way holds the lock, and one about to commit has it.     *)
TypeOK ==
  /\ row \in SessionType \cup {NoRow}
  /\ pc \in [Client -> {"idle", "select", "insert", "commit", "save", "done"}]
  /\ lock # NoClient => pc[lock] \in {"insert", "commit"}
  /\ \A c \in Client : pc[c] = "commit" => lock = c

(* The backend implements the contract of MemoryBackend. *)
ContractKept == Contract!Spec

(* Of two initializers one is told that it created the session, and the      *)
(* session stays as that one wrote it.                                       *)
CreatedOnce == Contract!CreatedOnce

(* An acknowledged write is not undone by another client's write.            *)
AcknowledgedKept == Contract!AcknowledgedKept

=============================================================================
