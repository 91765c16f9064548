---------------------------- MODULE Credentials -----------------------------
(***************************************************************************)
(* SecureCredentialManager for one provider: threads set, rotate, use and  *)
(* revoke its credential.  A call reads the clock, takes the mutex and     *)
(* does its work, and tells the observer once the mutex is free again.     *)
(* Time passes, and other threads run, between the three.                  *)
(*                                                                         *)
(* The entries of different providers are independent, but for the mutex:  *)
(* a closure that panics with any of them poisons it for all, and from     *)
(* then on every call that needs it is refused.                            *)
(***************************************************************************)
EXTENDS Naturals

CONSTANTS
  Thread,
  Ttl,       \* how long a credential with an expiry lasts
  MaxCalls,  \* bound: calls per thread
  MaxTime    \* bound: where the clock stops

ASSUME CredentialAssumption == {Ttl, MaxCalls, MaxTime} \subseteq Nat \ {0}

VARIABLES
  clock,
  entry,    \* the credential, or NoEntry
  call,     \* call[th]: the call th is in: what it read before the mutex, or
            \* the event it has still to emit
  calls,    \* calls[th]: how many calls th began
  audit,    \* audit[a]: how many events with action a the observer got
  aged,     \* history: how many credentials were removed for their age
  shown,    \* history: how often the present secret was shown to a caller
  grants,   \* history: how often any secret was
  refused,  \* history: the present secret, or the last one, was refused for
            \* its age
  poisoned  \* a closure panicked under the mutex

credentialVars ==
  <<clock, entry, call, calls, audit, aged, shown, grants, refused, poisoned>>
history == <<aged, shown, grants, refused>>

CredentialKind == {"ApiKey", "BrowserSession"}
Action == {"Set", "Rotated", "AccessGranted", "AccessDenied", "Cleared"}

Never == 0                  \* the expiry of a credential without one
NoEntry == [kind |-> "none"]
Idle == [at |-> "idle"]
Emitting(action) == [at |-> "emit", action |-> action]

CredentialTypeOK ==
  /\ clock \in 1 .. MaxTime
  /\ entry \in {NoEntry} \cup [kind : CredentialKind, expires : Nat, uses : Nat]
  /\ call \in [Thread -> {Idle} \cup {Emitting(action) : action \in Action}
       \cup [at : {"insert"}, kind : CredentialKind, expires : Nat]
       \cup [at : {"access"}, kind : CredentialKind, now : 1 .. MaxTime]]
  /\ calls \in [Thread -> 0 .. MaxCalls]
  /\ audit \in [Action -> Nat]
  /\ {aged, shown, grants} \subseteq Nat
  /\ refused \in BOOLEAN /\ poisoned \in BOOLEAN

CredentialInit ==
  /\ clock = 1
  /\ entry = NoEntry
  /\ call = [th \in Thread |-> Idle]
  /\ calls = [th \in Thread |-> 0]
  /\ audit = [action \in Action |-> 0]
  /\ aged = 0 /\ shown = 0 /\ grants = 0 /\ refused = FALSE
  /\ poisoned = FALSE

-----------------------------------------------------------------------------
Tick ==
  /\ clock < MaxTime
  /\ clock' = clock + 1
  /\ UNCHANGED <<entry, call, calls, audit, history, poisoned>>

Begin(th) ==
  /\ call[th] = Idle /\ calls[th] < MaxCalls
  /\ calls' = [calls EXCEPT ![th] = @ + 1]

IsExpired(expires, now) == expires # Never /\ expires <= now

Expired(now) == entry # NoEntry /\ IsExpired(entry.expires, now)

(* Faulty variant: leaves it to the next insert to replace it. *)
LeaveExpired ==
  /\ refused' = TRUE
  /\ UNCHANGED <<entry, aged>>

RemoveExpired ==
  /\ entry' = NoEntry
  /\ aged' = aged + 1
  /\ refused' = TRUE

(* set_api_key, set_api_key_with_ttl, rotate_api_key, set_browser_session. *)
(* An empty secret or a zero time-to-live is refused and changes nothing.  *)
AskInsert(th) ==
  /\ Begin(th)
  /\ \E kind \in CredentialKind, expires \in {Never, clock + Ttl} :
       call' = [call EXCEPT ![th] = [at |-> "insert", kind |-> kind, expires |-> expires]]
  /\ UNCHANGED <<clock, entry, audit, history, poisoned>>

(* Faulty variant: an expired credential counts as absent, and goes        *)
(* without a trace.                                                        *)
InsertOverExpired(th) ==
  /\ call[th].at = "insert" /\ ~poisoned
  /\ entry' = [kind |-> call[th].kind, expires |-> call[th].expires, uses |-> 0]
  /\ call' = [call EXCEPT ![th] =
       Emitting(IF entry = NoEntry \/ Expired(clock) THEN "Set" ELSE "Rotated")]
  /\ shown' = 0 /\ refused' = FALSE
  /\ UNCHANGED <<clock, calls, audit, aged, grants, poisoned>>

Insert(th) ==
  /\ call[th].at = "insert" /\ ~poisoned
  /\ entry' = [kind |-> call[th].kind, expires |-> call[th].expires, uses |-> 0]
  /\ call' = [call EXCEPT ![th] = Emitting(IF entry = NoEntry THEN "Set" ELSE "Rotated")]
  /\ shown' = 0 /\ refused' = FALSE
  /\ UNCHANGED <<clock, calls, audit, aged, grants, poisoned>>

(* has_credentials, credential_kind and credential_metadata read the clock *)
(* under the mutex, and have nothing to tell the observer.  (Of a poisoned *)
(* mutex they get an error, and nothing changes.)                          *)
Look(th) ==
  /\ Begin(th) /\ ~poisoned
  /\ IF Expired(clock) THEN RemoveExpired ELSE UNCHANGED <<entry, aged, refused>>
  /\ UNCHANGED <<clock, call, audit, shown, grants, poisoned>>

(* with_api_key, api_key, with_browser_session, browser_session. *)
AskAccess(th) ==
  /\ Begin(th)
  /\ \E kind \in CredentialKind :
       call' = [call EXCEPT ![th] = [at |-> "access", kind |-> kind, now |-> clock]]
  /\ UNCHANGED <<clock, entry, audit, history, poisoned>>

DenyExpired(th) ==
  /\ call[th].at = "access" /\ ~poisoned
  /\ Expired(call[th].now)
  /\ RemoveExpired
  /\ call' = [call EXCEPT ![th] = Emitting("AccessDenied")]
  /\ UNCHANGED <<clock, calls, audit, shown, grants, poisoned>>

(* Faulty variant: the use is counted before the kind is looked at. *)
DenyCounting(th) ==
  /\ call[th].at = "access" /\ ~poisoned
  /\ ~Expired(call[th].now)
  /\ entry = NoEntry \/ entry.kind # call[th].kind
  /\ entry' = IF entry = NoEntry THEN entry ELSE [entry EXCEPT !.uses = @ + 1]
  /\ call' = [call EXCEPT ![th] = Emitting("AccessDenied")]
  /\ UNCHANGED <<clock, calls, audit, history, poisoned>>

Deny(th) ==
  /\ call[th].at = "access" /\ ~poisoned
  /\ ~Expired(call[th].now)
  /\ entry = NoEntry \/ entry.kind # call[th].kind
  /\ call' = [call EXCEPT ![th] = Emitting("AccessDenied")]
  /\ UNCHANGED <<clock, entry, calls, audit, history, poisoned>>

(* The caller's closure sees the secret while the mutex is held. *)
Show(th) ==
  /\ call[th].at = "access" /\ ~poisoned
  /\ ~Expired(call[th].now)
  /\ entry # NoEntry /\ entry.kind = call[th].kind
  /\ entry' = [entry EXCEPT !.uses = @ + 1]
  /\ shown' = shown + 1
  /\ grants' = grants + 1
  /\ UNCHANGED <<clock, calls, audit, aged, refused>>

Grant(th) ==
  /\ Show(th)
  /\ call' = [call EXCEPT ![th] = Emitting("AccessGranted")]
  /\ UNCHANGED poisoned

(* The closure panics: the secret was shown, and no event tells of it. *)
Panics(th) ==
  /\ Show(th)
  /\ call' = [call EXCEPT ![th] = Idle]
  /\ poisoned' = TRUE

(* A closure panics with the credential of another provider. *)
PanicsElsewhere(th) ==
  /\ Begin(th) /\ ~poisoned
  /\ poisoned' = TRUE
  /\ UNCHANGED <<clock, entry, call, audit, history>>

(* credentials_mut finds the mutex poisoned: the call returns an error. *)
FindsPoisoned(th) ==
  /\ call[th].at \in {"insert", "access"} /\ poisoned
  /\ call' = [call EXCEPT ![th] = Idle]
  /\ UNCHANGED <<clock, entry, calls, audit, history, poisoned>>

(* Faulty variant: tells the observer whether or not something was there, *)
(* of the kind that was there.                                             *)
RevokeAlways(th) ==
  /\ Begin(th) /\ ~poisoned
  /\ entry' = NoEntry
  /\ call' = [call EXCEPT ![th] =
       [at |-> "emit", action |-> IF entry = NoEntry THEN entry.kind ELSE "Cleared"]]
  /\ UNCHANGED <<clock, audit, history, poisoned>>

(* revoke and clear; an expired credential is still there to be cleared.   *)
(* (Of a poisoned mutex they get an error, and nothing changes.)           *)
Revoke(th) ==
  /\ Begin(th) /\ ~poisoned
  /\ entry' = NoEntry
  /\ call' = [call EXCEPT ![th] = IF entry = NoEntry THEN Idle ELSE Emitting("Cleared")]
  /\ UNCHANGED <<clock, audit, history, poisoned>>

Emit(th) ==
  /\ call[th].at = "emit"
  /\ audit' = [audit EXCEPT ![call[th].action] = @ + 1]
  /\ call' = [call EXCEPT ![th] = Idle]
  /\ UNCHANGED <<clock, entry, calls, history, poisoned>>

-----------------------------------------------------------------------------
CredentialNext ==
  \/ Tick
  \/ \E th \in Thread :
       \/ AskInsert(th) \/ Insert(th)
       \/ Look(th)
       \/ AskAccess(th) \/ DenyExpired(th) \/ Deny(th) \/ Grant(th)
       \/ Panics(th) \/ PanicsElsewhere(th) \/ FindsPoisoned(th)
       \/ Revoke(th)
       \/ Emit(th)

CredentialSpec == CredentialInit /\ [][CredentialNext]_credentialVars

-----------------------------------------------------------------------------
(* The audit accounts for everything, though events are emitted without    *)
(* the mutex and may arrive in another order than the steps they tell of:  *)
(* whenever no call is under way, every credential that came was set, and  *)
(* is cleared, aged or still there, and every secret shown was a granted   *)
(* access (the action is decided under the mutex, credentials.rs:484).     *)
(* The one exception is the closure that panics: since it poisons the      *)
(* mutex (credentials.rs:359, 473), there is no second one.                *)
AuditBalanced ==
  (\A th \in Thread : call[th] = Idle) =>
    /\ audit["Set"] = audit["Cleared"] + aged + (IF entry = NoEntry THEN 0 ELSE 1)
    /\ grants \in audit["AccessGranted"] ..
                    audit["AccessGranted"] + (IF poisoned THEN 1 ELSE 0)

(* access_count of the metadata is the number of times this very secret,   *)
(* and not the one it replaced or the one of the other kind, was shown,    *)
(* also where the closure it was shown to panicked.                        *)
UsesCounted == entry # NoEntry => entry.uses = shown

(* A secret that one call was refused for its age is never shown by        *)
(* another, though that call read its clock before the secret expired and  *)
(* comes to the mutex only now (remove_if_expired takes the entry out).    *)
(* A call that comes to the mutex first still shows it, after its expiry   *)
(* too: the clock is read before the mutex is taken (credentials.rs:339).  *)
ExpiryIsFinal == [][refused /\ refused' => shown' = shown]_credentialVars

=============================================================================
