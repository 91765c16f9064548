----------------------------- MODULE MCBackends -----------------------------
(* MemoryBackends on small sets of clients, and the records of its sessions. *)
EXTENDS MemoryBackends, MCCalls

(* No plan, a plan without steps, and one with a step of every kind. *)
MCPlan == {<< >>, <<<< >>>>, <<<<"Command", "Bash", "Sh", "Pwsh", "Cmd">>>>}

(* A nanosecond before the epoch, and one before the end of the second second. *)
MCInstant == {-1, 1999999999}

MCCheckpoint ==
  {[started |-> 0, completed |-> << >>, status |-> "InProgress"],
   [started |-> 0, completed |-> <<1000000000>>, status |-> "Succeeded"],
   [started |-> 999999999, completed |-> <<-1>>, status |-> "Failed"],
   [started |-> -1, completed |-> << >>, status |-> "Failed"],
   [started |-> 1, completed |-> <<1>>, status |-> "Failed"]}

MCRoles == <<"System", "User", "Assistant", "Tool">>

=============================================================================
