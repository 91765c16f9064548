--------------------------- MODULE MCCredentials ----------------------------
(* Threads that share a credential manager. *)
EXTENDS Credentials, TLC

ThreadSymmetry == Permutations(Thread)

=============================================================================
