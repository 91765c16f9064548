------------------------------- MODULE MCFile -------------------------------
(* FileStore on small sets of clients. *)
EXTENDS FileStore, MCCalls
=============================================================================
