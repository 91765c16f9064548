----------------------------- MODULE MCPostgres -----------------------------
(* PostgresStore on small sets of clients. *)
EXTENDS PostgresStore, MCCalls
=============================================================================
