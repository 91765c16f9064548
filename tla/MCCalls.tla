------------------------------ MODULE MCCalls -------------------------------
(* Arguments of the calls, and sets of callers, that backends are checked with. *)
EXTENDS SessionCalls

CONSTANTS a, b, w

Pending(f) == [id |-> f, passes |-> FALSE]

MCList == [c \in Client |-> <<Pending(a), Pending(b)>>]
MCTarget == [c \in Client |-> b]

ReadKind == {"is_initialized", "load", "load_transcript"}

(* One client writes and the others read. *)
OneWriter == [c \in Client |-> IF c = w THEN Kind ELSE ReadKind]
(* Everybody initializes the session. *)
Initializers == [c \in Client |-> {"initialize"}]
(* Everybody initializes or reads. *)
InitializersAndReaders == [c \in Client |-> {"initialize"} \cup ReadKind]
(* Everybody logs. *)
Loggers == [c \in Client |-> {"append_progress", "checkpoint"}]
(* What several processes may call, each of which writes without reading. *)
Appenders == [c \in Client |->
  {"initialize", "update_pass", "append_progress", "checkpoint"}
  \cup IF c = w THEN {"append_transcript"} ELSE {}]
(* One client may call anything while the other works. *)
Mixed == [c \in Client |->
  IF c = w THEN Kind ELSE {"initialize", "update_pass", "append_transcript"}]
(* A session with a log but no manifest. *)
Logged == [EmptySession EXCEPT !.progress = <<w>>]

=============================================================================
