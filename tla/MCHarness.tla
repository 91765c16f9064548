----------------------------- MODULE MCHarness ------------------------------
(* Harness on two features: who runs it, under which policy, on what requests. *)
EXTENDS Harness

CONSTANTS a, b, r0, r1

Pending(f) == [id |-> f, passes |-> FALSE]

MCStarterList == <<Pending(a)>>

Request(list) == [objective |-> TRUE, features |-> list]

(* One well-formed request for two features. *)
OneRequest == {Request(<<Pending(a), Pending(b)>>)}

(* Callers that disagree on the list, and one whose request is refused. *)
MixedRequests ==
  {Request(<<Pending(a), Pending(b)>>),
   Request(<< >>),
   Request(<<Pending(b), Pending(b)>>)}

(* The session as run r0 left it, after its initializer phase. *)
Bootstrapped ==
  InitializeIfMissing(EmptySession, r0, <<Pending(a), Pending(b)>>, r0,
                      [run |-> r0, status |-> "InProgress"])

EarlierSession == {Bootstrapped}
AnySession == {EmptySession, Bootstrapped}

(* The default policy, but for a turn that no retry can use. *)
Strict ==
  [mode |-> "strict_incremental", max_features |-> 1, max_turns |-> 2,
   retry_budget |-> 0, fail_fast |-> {"health_check", "validation"}]

Batch ==
  [mode |-> "bounded_batch", max_features |-> 2, max_turns |-> 2,
   retry_budget |-> 2, fail_fast |-> {"validation"}]

Unlimited ==
  [mode |-> "unlimited_batch", max_features |-> 1, max_turns |-> 2,
   retry_budget |-> 2, fail_fast |-> {"health_check"}]

(* r1 works through a batch with a selector of the application's, the other *)
(* runs take one feature at a time.                                         *)
BatchAndStrict == [r \in Run |-> IF r = r1 THEN Batch ELSE Strict]
CustomAndDefault == [r \in Run |-> IF r = r1 THEN "custom" ELSE "first_pending"]

AllUnlimited == [r \in Run |-> Unlimited]
AllDefault == [r \in Run |-> "first_pending"]

=============================================================================
