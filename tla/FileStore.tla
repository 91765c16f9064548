------------------------------ MODULE FileStore -----------------------------
(***************************************************************************)
(* FilesystemMemoryBackend: one JSON file per session, written under a     *)
(* mutex by one process.  write_atomic writes a temporary file, removes    *)
(* the session file and renames the temporary file to it.                  *)
(*                                                                         *)
(* A file operation is atomic, except that a failed write may leave the    *)
(* temporary file torn.  The process may die between any two of them and   *)
(* be started again: its clients then fail, and the mutex is new.          *)
(***************************************************************************)
EXTENDS SessionCalls

CONSTANTS
  NoFile,        \* the file does not exist
  Torn,          \* a file written in part
  SafeRename     \* assume no failure between the removal and the rename

FileAssumption ==
  /\ NoFile # Torn /\ NoFile \notin SessionType
  /\ SafeRename \in BOOLEAN

VARIABLES
  file,      \* the session file
  tmp,       \* the temporary file
  draft,     \* draft[c]: the state client c is going to write
  pc,        \* pc[c]: the file operation client c executes next
  op, answer, calls, acked     \* as in SessionStore

vars == <<file, tmp, draft, pc, op, answer, calls, acked>>

Init ==
  /\ file   = IF InitialSession = EmptySession THEN NoFile ELSE InitialSession
  /\ tmp    = NoFile
  /\ draft  = [c \in Client |-> EmptySession]
  /\ pc     = [c \in Client |-> "idle"]
  /\ op     = [c \in Client |-> "load"]
  /\ answer = [c \in Client |-> NoAnswer]
  /\ calls  = [c \in Client |-> << >>]
  /\ acked  = {}

(* A client in the middle of write_atomic holds the mutex. *)
Writing == {"write", "create", "remove", "rename"}
Locked == \E c \in Client : pc[c] \in Writing

Stored == IF file = NoFile THEN EmptySession ELSE file

Writes(c) ==
  /\ op[c] \notin {"is_initialized", "load", "load_transcript"}
  /\ ~Refused(c, op[c], Stored)
  /\ op[c] = "initialize" => ~IsInitialized(Stored)

----------------------------------------------------------------------------

Call(c) ==
  /\ pc[c] = "idle"
  /\ Len(calls[c]) < MaxCalls
  /\ \E kind \in Ops[c] :
       /\ op' = [op EXCEPT ![c] = kind]
       /\ calls' = [calls EXCEPT ![c] = Append(@, kind)]
  /\ pc' = [pc EXCEPT ![c] = "lock"]
  /\ answer' = [answer EXCEPT ![c] = NoAnswer]
  /\ UNCHANGED <<file, tmp, draft, acked>>

(* Faulty variant: the state is loaded before the mutex is taken. *)
LoadUnlocked(c) ==
  /\ pc[c] = "lock"
  /\ answer' = [answer EXCEPT ![c] = Answer(c, op[c], Stored)]
  /\ IF Writes(c)
     THEN /\ draft' = [draft EXCEPT ![c] = Apply(c, op[c], Stored)]
          /\ pc' = [pc EXCEPT ![c] = "write"]
     ELSE /\ pc' = [pc EXCEPT ![c] = "done"]
          /\ UNCHANGED draft
  /\ UNCHANGED <<file, tmp, op, calls, acked>>

(* Under the mutex: load_state, and the state the call makes of it. *)
LoadState(c) ==
  /\ pc[c] = "lock"
  /\ ~Locked
  /\ answer' = [answer EXCEPT ![c] = Answer(c, op[c], Stored)]
  /\ IF Writes(c)
     THEN /\ draft' = [draft EXCEPT ![c] = Apply(c, op[c], Stored)]
          /\ pc' = [pc EXCEPT ![c] = "write"]
     ELSE /\ pc' = [pc EXCEPT ![c] = "done"]
          /\ UNCHANGED draft
  /\ UNCHANGED <<file, tmp, op, calls, acked>>

WriteTmp(c) ==
  /\ pc[c] = "write"
  /\ tmp' = draft[c]
  /\ pc' = [pc EXCEPT ![c] = IF file = NoFile THEN "create" ELSE "remove"]
  /\ UNCHANGED <<file, draft, op, answer, calls, acked>>

RemoveFile(c) ==
  /\ pc[c] = "remove"
  /\ file' = NoFile
  /\ pc' = [pc EXCEPT ![c] = "rename"]
  /\ UNCHANGED <<tmp, draft, op, answer, calls, acked>>

(* Ends write_atomic, whether or not there was a file to remove. *)
RenameTmp(c) ==
  /\ pc[c] \in {"create", "rename"}
  /\ file' = tmp
  /\ tmp' = NoFile
  /\ draft' = [draft EXCEPT ![c] = EmptySession]
  /\ pc' = [pc EXCEPT ![c] = "done"]
  /\ UNCHANGED <<op, answer, calls, acked>>

Respond(c) ==
  /\ pc[c] = "done"
  /\ pc' = [pc EXCEPT ![c] = "idle"]
  /\ acked' = IF answer[c].status \in {"ok", "created"}
              THEN acked \cup {<<c, op[c]>>} ELSE acked
  /\ UNCHANGED <<file, tmp, draft, op, answer, calls>>

(* A file operation fails, or the process dies. *)
Fail(c) ==
  /\ pc[c] # "idle"
  /\ SafeRename => pc[c] # "rename"
  /\ \/ UNCHANGED tmp
     \/ pc[c] = "write" /\ tmp' \in {draft[c], Torn}
  /\ pc' = [pc EXCEPT ![c] = "idle"]
  /\ draft' = [draft EXCEPT ![c] = EmptySession]
  /\ answer' = [answer EXCEPT ![c] = Failed]
  /\ UNCHANGED <<file, op, calls, acked>>

Next == \E c \in Client :
  Call(c) \/ LoadState(c) \/ WriteTmp(c) \/ RemoveFile(c) \/ RenameTmp(c)
  \/ Respond(c) \/ Fail(c)

Spec == Init /\ [][Next]_vars

----------------------------------------------------------------------------
(* Properties. *)

(* A call takes effect when the old file is removed or, if there was none,   *)
(* with the rename; until then the caller has no answer.                     *)
View == IF \E c \in Client : pc[c] = "rename"
        THEN draft[CHOOSE c \in Client : pc[c] = "rename"]
        ELSE Stored

Phase == [c \in Client |->
  CASE pc[c] = "idle"              -> "idle"
    [] pc[c] \in {"rename", "done"} -> "done"
    [] OTHER                       -> "called"]

Answered == [c \in Client |-> IF Phase[c] = "called" THEN NoAnswer ELSE answer[c]]

Contract == INSTANCE SessionStore WITH session <- View, phase <- Phase, answer <- Answered

(* The session file is never torn, what a writer is about to rename is what  *)
(* it wrote, and there is one writer at a time.                              *)
TypeOK ==
  /\ file \in SessionType \cup {NoFile}
  /\ tmp \in SessionType \cup {NoFile, Torn}
  /\ pc \in [Client -> Writing \cup {"idle", "lock", "done"}]
  /\ \A c \in Client : pc[c] \in {"create", "remove", "rename"} => tmp = draft[c]
  /\ Cardinality({c \in Client : pc[c] \in Writing}) <= 1

(* The backend implements the contract of MemoryBackend, unless it is        *)
(* interrupted between the removal of the old file and the rename.           *)
ContractKept == Contract!Spec

(* A durable backend keeps what it acknowledged.                             *)
AcknowledgedKept == Contract!AcknowledgedKept

=============================================================================
