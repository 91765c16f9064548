------------------------------ MODULE MCSqlite ------------------------------
(* SqliteStore on small sets of clients. *)
EXTENDS SqliteStore, MCCalls
=============================================================================
