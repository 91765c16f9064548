--------------------------- MODULE ProviderProofs ---------------------------
(***************************************************************************)
(* Proofs about two parts of the providers that share nothing: Credentials *)
(* (whose Init, Next and TypeOK are CredentialInit and so on) and          *)
(* WsConnection.                                                           *)
(*                                                                         *)
(* Credentials, for any set of threads, any time-to-live and any bounds:   *)
(* the type invariant, that uses are counted, that a refusal for age is    *)
(* final, and that the audit balances.                                     *)
(*                                                                         *)
(* WsConnection, for any set of requests and credentials and responses of  *)
(* any length: the type invariant, whose frames a request is given, and    *)
(* what complete leaves in the cache.                                      *)
(***************************************************************************)
EXTENDS Credentials, WsConnection, FiniteSetTheorems, TLAPS

----------------------------------------------------------------------------
(* The credential manager. *)

(* The record a call is in, at each of its points. *)
Call ==
  {Idle} \cup {Emitting(action) : action \in Action}
    \cup [at : {"insert"}, kind : CredentialKind, expires : Nat]
    \cup [at : {"access"}, kind : CredentialKind, now : 1 .. MaxTime]

(* The calls that have left the mutex with an event of this action. *)
Pending(action) == {th \in Thread : call[th] = Emitting(action)}

(* The events decided under the mutex: told, or on their way. *)
Decided(action) == audit[action] + Cardinality(Pending(action))

Present == IF entry = NoEntry THEN 0 ELSE 1

(* The accesses whose closure panicked are at most as many. *)
Panicked == IF poisoned THEN 1 ELSE 0

(* What was decided balances in every state, which the property says of    *)
(* what was told, and of the states where nothing is on its way.           *)
AuditInv ==
  /\ \A action \in Action : IsFiniteSet(Pending(action))
  /\ Decided("Set") = Decided("Cleared") + (aged + Present)
  /\ grants \in Decided("AccessGranted") .. Decided("AccessGranted") + Panicked

(* A secret that was refused for its age is gone. *)
RefusedInv == refused => entry = NoEntry

CredentialInv == CredentialTypeOK /\ UsesCounted /\ RefusedInv

----------------------------------------------------------------------------
(* The type invariant, the counted uses and what is refused are inductive   *)
(* as they stand.                                                           *)
LEMMA InitCredential == CredentialInit => CredentialInv
<1> SUFFICES ASSUME CredentialInit PROVE CredentialInv
  OBVIOUS
<1>1. CredentialTypeOK
  <2>1. clock \in 1 .. MaxTime /\ calls \in [Thread -> 0 .. MaxCalls]
    BY CredentialAssumption DEF CredentialInit
  <2>2. audit \in [Action -> Nat] /\ {aged, shown, grants} \subseteq Nat
    BY DEF CredentialInit, Action
  <2>3. /\ refused \in BOOLEAN /\ poisoned \in BOOLEAN /\ entry = NoEntry
        /\ call = [th \in Thread |-> Idle]
    BY DEF CredentialInit
  <2>4. QED
    BY <2>1, <2>2, <2>3 DEF CredentialTypeOK
<1>2. QED
  BY <1>1 DEF CredentialInit, CredentialInv, UsesCounted, RefusedInv

(* What a call holds when it is at each point. *)
LEMMA CallShape ==
  ASSUME CredentialTypeOK, NEW th \in Thread
  PROVE  /\ call[th] \in Call
         /\ call[th].at = "insert" =>
              call[th].kind \in CredentialKind /\ call[th].expires \in Nat
         /\ call[th].at = "access" =>
              call[th].kind \in CredentialKind /\ call[th].now \in 1 .. MaxTime
         /\ call[th].at = "emit" =>
              call[th].action \in Action /\ call[th] = Emitting(call[th].action)
         /\ call[th].at # "emit" => \A action \in Action : call[th] # Emitting(action)
<1>1. call[th] \in Call
  BY DEF CredentialTypeOK, Call
<1>2. CASE call[th] = Idle
  BY <1>1, <1>2 DEF Idle, Emitting
<1>3. ASSUME NEW action \in Action, call[th] = Emitting(action)
      PROVE  call[th].at = "emit" /\ call[th].action = action
  BY <1>3 DEF Emitting
<1>4. CASE call[th] \in {Emitting(action) : action \in Action}
  <2>1. PICK action \in Action : call[th] = Emitting(action)
    BY <1>4
  <2>2. QED
    BY <1>1, <1>3, <2>1
<1>5. CASE call[th] \in [at : {"insert"}, kind : CredentialKind, expires : Nat]
  <2>1. call[th].at = "insert" /\ call[th].kind \in CredentialKind /\ call[th].expires \in Nat
    BY <1>5
  <2>2. QED
    BY <1>1, <1>3, <2>1
<1>6. CASE call[th] \in [at : {"access"}, kind : CredentialKind, now : 1 .. MaxTime]
  <2>1. call[th].at = "access" /\ call[th].kind \in CredentialKind /\ call[th].now \in 1 .. MaxTime
    BY <1>6
  <2>2. QED
    BY <1>1, <1>3, <2>1
<1>7. QED
  BY <1>1, <1>2, <1>4, <1>5, <1>6 DEF Call

(* A call that changes its own record only. *)
LEMMA CallMoves ==
  ASSUME CredentialTypeOK, NEW th \in Thread, NEW c \in Call,
         call' = [call EXCEPT ![th] = c]
  PROVE  /\ call' \in [Thread -> Call]
         /\ call'[th] = c
         /\ \A d \in Thread : d # th => call'[d] = call[d]
<1>1. call \in [Thread -> Call]
  BY DEF CredentialTypeOK, Call
<1>2. QED
  BY <1>1

(* The type invariant is preserved, one step per action. *)
LEMMA CredentialTypeStep == CredentialTypeOK /\ [CredentialNext]_credentialVars => CredentialTypeOK'
<1> SUFFICES ASSUME CredentialTypeOK, [CredentialNext]_credentialVars PROVE CredentialTypeOK'
  OBVIOUS
<1> USE CredentialAssumption
<1> DEFINE Entry == {NoEntry} \cup [kind : CredentialKind, expires : Nat, uses : Nat]
<1>1. CASE UNCHANGED credentialVars
  BY <1>1 DEF CredentialTypeOK, credentialVars
<1>2. CASE Tick
  BY <1>2 DEF CredentialTypeOK, Tick, history
<1>3. ASSUME NEW th \in Thread, Begin(th)
      PROVE  calls' \in [Thread -> 0 .. MaxCalls]
  BY <1>3 DEF CredentialTypeOK, Begin
<1>4. ASSUME NEW th \in Thread, NEW c \in Call, call' = [call EXCEPT ![th] = c]
      PROVE  call' \in [Thread -> Call]
  BY <1>4, CallMoves
<1>5. \A action \in Action : Emitting(action) \in Call
  BY DEF Call
<1>6. Idle \in Call
  BY DEF Call
<1>7. ASSUME NEW th \in Thread, AskInsert(th) PROVE CredentialTypeOK'
  <2>1. PICK kind \in CredentialKind, expires \in {Never, clock + Ttl} :
          call' = [call EXCEPT ![th] = [at |-> "insert", kind |-> kind, expires |-> expires]]
    BY <1>7 DEF AskInsert
  <2>2. expires \in Nat
    BY DEF CredentialTypeOK, Never
  <2>3. [at |-> "insert", kind |-> kind, expires |-> expires] \in Call
    BY <2>2 DEF Call
  <2>4. call' \in [Thread -> Call]
    BY <2>1, <2>3, <1>4
  <2>5. QED
    BY <2>4, <1>3, <1>7 DEF AskInsert, CredentialTypeOK, history, Call
<1>8. ASSUME NEW th \in Thread, Insert(th) PROVE CredentialTypeOK'
  <2>1. call' \in [Thread -> Call]
    BY <1>4, <1>5, <1>8 DEF Insert, Action
  <2>2. entry' \in Entry
    BY <1>8, CallShape DEF Insert
  <2>3. refused' \in BOOLEAN
    BY <1>8, Zenon DEF Insert
  <2>4. QED
    BY <2>1, <2>2, <2>3, <1>8 DEF Insert, CredentialTypeOK, Call
<1>9. ASSUME NEW th \in Thread, Look(th) PROVE CredentialTypeOK'
  <2>1. refused' \in BOOLEAN
    BY <1>9, Zenon DEF Look, RemoveExpired, CredentialTypeOK
  <2>2. entry' \in Entry /\ aged' \in Nat
    BY <1>9 DEF Look, RemoveExpired, CredentialTypeOK
  <2>3. QED
    BY <1>3, <1>9, <2>1, <2>2 DEF Look, CredentialTypeOK
<1>10. ASSUME NEW th \in Thread, AskAccess(th) PROVE CredentialTypeOK'
  <2>1. PICK kind \in CredentialKind :
          call' = [call EXCEPT ![th] = [at |-> "access", kind |-> kind, now |-> clock]]
    BY <1>10 DEF AskAccess
  <2>2. [at |-> "access", kind |-> kind, now |-> clock] \in Call
    BY DEF Call, CredentialTypeOK
  <2>3. call' \in [Thread -> Call]
    BY <2>1, <2>2, <1>4
  <2>4. QED
    BY <2>3, <1>3, <1>10 DEF AskAccess, CredentialTypeOK, history, Call
<1>11. ASSUME NEW th \in Thread, DenyExpired(th) \/ Deny(th) PROVE CredentialTypeOK'
  <2>1. call' \in [Thread -> Call]
    BY <1>4, <1>5, <1>11 DEF DenyExpired, Deny, Action
  <2>2. refused' \in BOOLEAN
    BY <1>11, Zenon DEF DenyExpired, Deny, RemoveExpired, CredentialTypeOK, history
  <2>3. QED
    BY <2>1, <2>2, <1>11 DEF DenyExpired, Deny, RemoveExpired, CredentialTypeOK, Call, history
<1>12. ASSUME NEW th \in Thread, Grant(th) \/ Panics(th) PROVE CredentialTypeOK'
  <2>1. call' \in [Thread -> Call] /\ poisoned' \in BOOLEAN
    BY <1>4, <1>5, <1>6, <1>12 DEF Grant, Panics, Action, CredentialTypeOK
  <2>2. entry' \in Entry
    BY <1>12 DEF Grant, Panics, Show, CredentialTypeOK
  <2>3. shown' \in Nat /\ grants' \in Nat
    BY <1>12 DEF Grant, Panics, Show, CredentialTypeOK
  <2>4. QED
    BY <2>1, <2>2, <2>3, <1>12 DEF Grant, Panics, Show, CredentialTypeOK, Call
<1>13. ASSUME NEW th \in Thread, Revoke(th) PROVE CredentialTypeOK'
  <2>1. call' \in [Thread -> Call]
    BY <1>4, <1>5, <1>6, <1>13 DEF Revoke, Action
  <2>2. QED
    BY <2>1, <1>3, <1>13 DEF Revoke, CredentialTypeOK, Call, history
<1>14. ASSUME NEW th \in Thread, Emit(th) PROVE CredentialTypeOK'
  <2>1. call' \in [Thread -> Call]
    BY <1>4, <1>6, <1>14 DEF Emit
  <2>2. audit' \in [Action -> Nat]
    BY <1>14, CallShape DEF Emit, CredentialTypeOK
  <2>3. QED
    BY <2>1, <2>2, <1>14 DEF Emit, CredentialTypeOK, Call, history
<1>15. ASSUME NEW th \in Thread, PanicsElsewhere(th) PROVE CredentialTypeOK'
  BY <1>3, <1>15 DEF PanicsElsewhere, CredentialTypeOK, history
<1>16. ASSUME NEW th \in Thread, FindsPoisoned(th) PROVE CredentialTypeOK'
  <2>1. call' \in [Thread -> Call]
    BY <1>4, <1>6, <1>16 DEF FindsPoisoned
  <2>2. QED
    BY <2>1, <1>16 DEF FindsPoisoned, CredentialTypeOK, Call, history
<1>17. QED
  BY <1>1, <1>2, <1>7, <1>8, <1>9, <1>10, <1>11, <1>12, <1>13, <1>14, <1>15, <1>16
     DEF CredentialNext

LEMMA CredentialStep == CredentialInv /\ [CredentialNext]_credentialVars => CredentialInv'
<1> SUFFICES ASSUME CredentialInv, [CredentialNext]_credentialVars PROVE CredentialInv'
  OBVIOUS
<1>1. CredentialTypeOK /\ UsesCounted /\ RefusedInv
  BY DEF CredentialInv
<1>2. CredentialTypeOK'
  BY <1>1, CredentialTypeStep
<1>3. CASE UNCHANGED <<entry, shown, refused>>
  BY <1>1, <1>2, <1>3 DEF CredentialInv, UsesCounted, RefusedInv
<1>4. CASE entry' = NoEntry
  BY <1>2, <1>4 DEF CredentialInv, UsesCounted, RefusedInv
<1>5. ASSUME NEW th \in Thread, Insert(th) PROVE CredentialInv'
  BY <1>1, <1>2, <1>5 DEF CredentialInv, UsesCounted, RefusedInv, Insert
<1>6. ASSUME NEW th \in Thread, Grant(th) \/ Panics(th) PROVE CredentialInv'
  <2>1. Show(th)
    BY <1>6 DEF Grant, Panics
  <2>2. entry \in [kind : CredentialKind, expires : Nat, uses : Nat]
    BY <1>1, <2>1 DEF Show, CredentialTypeOK
  <2>3. UsesCounted'
    BY <1>1, <2>1, <2>2 DEF Show, UsesCounted
  <2>4. RefusedInv'
    BY <1>1, <2>1 DEF Show, RefusedInv
  <2>5. QED
    BY <1>2, <2>3, <2>4 DEF CredentialInv
<1>7. ASSUME NEW th \in Thread, Look(th) PROVE CredentialInv'
  BY <1>3, <1>4, <1>7 DEF Look, RemoveExpired
<1>8. ASSUME NEW th \in Thread,
             \/ AskInsert(th) \/ AskAccess(th) \/ Deny(th) \/ Emit(th)
             \/ PanicsElsewhere(th) \/ FindsPoisoned(th)
      PROVE  CredentialInv'
  BY <1>3, <1>8 DEF AskInsert, AskAccess, Deny, Emit, PanicsElsewhere, FindsPoisoned, history
<1>9. ASSUME NEW th \in Thread, DenyExpired(th) \/ Revoke(th) PROVE CredentialInv'
  BY <1>4, <1>9 DEF DenyExpired, RemoveExpired, Revoke
<1>10. CASE Tick \/ UNCHANGED credentialVars
  BY <1>3, <1>10 DEF Tick, credentialVars, history
<1>11. QED
  BY <1>5, <1>6, <1>7, <1>8, <1>9, <1>10 DEF CredentialNext

(* Every variable keeps its type (credentials.rs:46-58, :118-140). *)
THEOREM CredentialsTyped == CredentialSpec => []CredentialTypeOK
<1>1. CredentialTypeOK /\ [CredentialNext]_credentialVars => CredentialTypeOK'
  BY CredentialTypeStep
<1>2. CredentialInit => CredentialTypeOK
  BY InitCredential DEF CredentialInv
<1>3. QED
  BY <1>1, <1>2, PTL DEF CredentialSpec

(* The access count is the number of times the present secret was shown,   *)
(* for any interleaving of any threads (credentials.rs:478-486).           *)
THEOREM UsesAreCounted == CredentialSpec => []UsesCounted
<1>1. CredentialInv => UsesCounted
  BY DEF CredentialInv
<1>2. QED
  BY <1>1, InitCredential, CredentialStep, PTL DEF CredentialSpec

(* A secret that one call was refused for its age is shown to no call that *)
(* comes to the mutex later, whenever either of them read its clock        *)
(* (credentials.rs:339, 506-518).                                          *)
THEOREM ExpiryStaysFinal == CredentialSpec => ExpiryIsFinal
<1>1. CredentialInv /\ [CredentialNext]_credentialVars
        => [refused /\ refused' => shown' = shown]_credentialVars
  <2> SUFFICES ASSUME CredentialInv, CredentialNext, refused, refused'
               PROVE  shown' = shown
    BY DEF credentialVars
  <2>1. entry = NoEntry
    BY DEF CredentialInv, RefusedInv
  <2>2. ASSUME NEW th \in Thread, Insert(th) \/ Grant(th) \/ Panics(th) PROVE FALSE
    BY <2>1, <2>2 DEF Insert, Grant, Panics, Show
  <2>3. ASSUME NEW th \in Thread,
               \/ AskInsert(th) \/ Look(th) \/ AskAccess(th) \/ DenyExpired(th) \/ Deny(th)
               \/ PanicsElsewhere(th) \/ FindsPoisoned(th) \/ Revoke(th) \/ Emit(th)
        PROVE  shown' = shown
    BY <2>3 DEF AskInsert, Look, AskAccess, DenyExpired, Deny, PanicsElsewhere, FindsPoisoned,
                Revoke, Emit, history
  <2>4. QED
    BY <2>2, <2>3 DEF CredentialNext, Tick, history
<1>2. QED
  BY <1>1, InitCredential, CredentialStep, PTL DEF CredentialSpec, ExpiryIsFinal

----------------------------------------------------------------------------
LEMMA DecidedIsNat ==
  ASSUME CredentialTypeOK, \A action \in Action : IsFiniteSet(Pending(action))
  PROVE  \A action \in Action :
           /\ Cardinality(Pending(action)) \in Nat
           /\ audit[action] \in Nat
           /\ Decided(action) \in Nat
<1>1. \A action \in Action : Cardinality(Pending(action)) \in Nat
  BY FS_CardinalityType
<1>2. QED
  BY <1>1 DEF Decided, CredentialTypeOK

(* A call without an event on its way that leaves the mutex with one, or   *)
(* that moves elsewhere: that event counts once more, the others as before. *)
LEMMA Decides ==
  ASSUME CredentialTypeOK, AuditInv, NEW th \in Thread, NEW c \in Call,
         call[th].at # "emit", call' = [call EXCEPT ![th] = c], audit' = audit
  PROVE  \A action \in Action :
           /\ IsFiniteSet(Pending(action)')
           /\ Decided(action)' = Decided(action) + (IF c = Emitting(action) THEN 1 ELSE 0)
<1> SUFFICES ASSUME NEW action \in Action
             PROVE  /\ IsFiniteSet(Pending(action)')
                    /\ Decided(action)' = Decided(action)
                                            + (IF c = Emitting(action) THEN 1 ELSE 0)
  OBVIOUS
<1>1. /\ IsFiniteSet(Pending(action)) /\ Cardinality(Pending(action)) \in Nat
      /\ audit[action] \in Nat
  BY DecidedIsNat DEF AuditInv
<1>2. call'[th] = c /\ \A d \in Thread : d # th => call'[d] = call[d]
  BY CallMoves
<1>3. th \notin Pending(action)
  BY CallShape DEF Pending
<1>4. CASE c = Emitting(action)
  <2>1. Pending(action)' = Pending(action) \cup {th}
    BY <1>2, <1>4 DEF Pending
  <2>2. /\ IsFiniteSet(Pending(action) \cup {th})
        /\ Cardinality(Pending(action) \cup {th}) = Cardinality(Pending(action)) + 1
    BY <1>1, <1>3, FS_AddElement
  <2>3. Decided(action)' = audit[action] + (Cardinality(Pending(action)) + 1)
    BY <2>1, <2>2 DEF Decided
  <2>4. QED
    BY <1>1, <1>4, <2>1, <2>2, <2>3 DEF Decided
<1>5. CASE c # Emitting(action)
  <2>1. Pending(action)' = Pending(action)
    BY <1>2, <1>3, <1>5 DEF Pending
  <2>2. Decided(action)' = Decided(action) /\ Decided(action) \in Nat
    BY <1>1, <2>1 DEF Decided
  <2>3. QED
    BY <1>1, <1>5, <2>1, <2>2
<1>6. QED
  BY <1>4, <1>5

(* Telling the observer moves an event from those on their way to those    *)
(* told: what was decided is what it was.                                  *)
LEMMA Tells ==
  ASSUME CredentialTypeOK, AuditInv, NEW th \in Thread, Emit(th)
  PROVE  \A action \in Action :
           IsFiniteSet(Pending(action)') /\ Decided(action)' = Decided(action)
<1>1. PICK told \in Action : call[th] = Emitting(told)
  BY CallShape DEF Emit
<1>2. call' = [call EXCEPT ![th] = Idle] /\ audit' = [audit EXCEPT ![told] = @ + 1]
  BY <1>1 DEF Emit, Emitting
<1>3. /\ \A d \in Thread : d # th => call'[d] = call[d]
      /\ \A a : call'[th] # Emitting(a)
  BY <1>2, CallMoves DEF Call, Idle, Emitting
<1>4. ASSUME NEW action \in Action
      PROVE  IsFiniteSet(Pending(action)') /\ Decided(action)' = Decided(action)
  <2>1. /\ IsFiniteSet(Pending(action)) /\ Cardinality(Pending(action)) \in Nat
        /\ audit[action] \in Nat
    BY DecidedIsNat DEF AuditInv
  <2>2. CASE action = told
    <3>1. Pending(action)' = Pending(action) \ {th} /\ th \in Pending(action)
      BY <1>1, <1>3, <2>2 DEF Pending
    <3>2. /\ IsFiniteSet(Pending(action) \ {th})
          /\ Cardinality(Pending(action) \ {th}) = Cardinality(Pending(action)) - 1
      BY <2>1, <3>1, FS_RemoveElement
    <3>3. audit'[action] = audit[action] + 1
      BY <1>2, <2>2 DEF CredentialTypeOK
    <3>4. Decided(action)' = (audit[action] + 1) + (Cardinality(Pending(action)) - 1)
      BY <3>1, <3>2, <3>3 DEF Decided
    <3>5. QED
      BY <2>1, <3>1, <3>2, <3>4 DEF Decided
  <2>3. CASE action # told
    <3>1. th \notin Pending(action)
      BY <1>1, <2>3 DEF Pending, Emitting
    <3>2. Pending(action)' = Pending(action)
      BY <1>3, <3>1 DEF Pending
    <3>3. audit'[action] = audit[action]
      BY <1>2, <2>3 DEF CredentialTypeOK
    <3>4. QED
      BY <2>1, <3>2, <3>3 DEF Decided
  <2>4. QED
    BY <2>2, <2>3
<1>5. QED
  BY <1>4

LEMMA InitAudit == CredentialInit => AuditInv
<1> SUFFICES ASSUME CredentialInit PROVE AuditInv
  OBVIOUS
<1>1. \A action \in Action : Pending(action) = {}
  BY DEF CredentialInit, Pending, Idle, Emitting
<1>2. {"Set", "Cleared", "AccessGranted"} \subseteq Action
  BY DEF Action
<1>3. \A action \in Action :
        IsFiniteSet(Pending(action)) /\ Cardinality(Pending(action)) = 0
  BY <1>1, FS_EmptySet
<1>4. entry = NoEntry /\ aged = 0 /\ grants = 0 /\ Panicked \in {0, 1} /\ \A action \in Action : audit[action] = 0
  BY DEF CredentialInit, Panicked
<1>5. QED
  BY <1>2, <1>3, <1>4 DEF AuditInv, Decided, Present

LEMMA AuditStep == CredentialTypeOK /\ AuditInv /\ [CredentialNext]_credentialVars => AuditInv'
<1> SUFFICES ASSUME CredentialTypeOK, AuditInv, [CredentialNext]_credentialVars PROVE AuditInv'
  OBVIOUS
<1>1. {"Set", "Rotated", "Cleared", "AccessGranted", "AccessDenied"} \subseteq Action
  BY DEF Action
<1>2. /\ aged \in Nat /\ grants \in Nat /\ Present \in Nat /\ Panicked \in {0, 1}
      /\ \A action \in Action : Decided(action) \in Nat
  BY DecidedIsNat DEF CredentialTypeOK, Present, Panicked, AuditInv
<1>3. /\ Decided("Set") = Decided("Cleared") + (aged + Present)
      /\ grants \in Decided("AccessGranted") .. Decided("AccessGranted") + Panicked
  BY DEF AuditInv
<1>4. \A action \in Action : Emitting(action) \in Call
  BY DEF Call
<1>5. \A a, b : Emitting(a) = Emitting(b) <=> a = b
  BY DEF Emitting
<1>6. CASE UNCHANGED <<call, audit>> /\ aged' + Present' = aged + Present /\ grants' = grants
          /\ Present' \in Nat /\ aged' \in Nat /\ Panicked' \in {Panicked, 1}
  <2>1. \A action : Pending(action)' = Pending(action)
    BY <1>6 DEF Pending
  <2>2. \A action : Decided(action)' = Decided(action)
    BY <1>6, <2>1 DEF Decided
  <2>3. Decided("Set")' = Decided("Cleared")' + (aged' + Present')
    <3>1. Decided("Set")' = Decided("Set") /\ Decided("Cleared")' = Decided("Cleared")
      BY <1>1, <2>2
    <3>2. QED
      BY <1>3, <1>6, <3>1
  <2>4. grants' \in Decided("AccessGranted")' .. Decided("AccessGranted")' + Panicked'
    <3>1. Decided("AccessGranted")' = Decided("AccessGranted")
      BY <1>1, <2>2
    <3>2. Decided("AccessGranted") \in Nat
      BY <1>1, <1>2
    <3>3. QED
      BY <1>2, <1>3, <1>6, <3>1, <3>2
  <2>5. QED
    BY <1>3, <1>6, <2>1, <2>2, <2>3, <2>4 DEF AuditInv
<1>7. ASSUME NEW th \in Thread, NEW c \in Call, call[th].at # "emit",
             \A action \in {"Set", "Cleared", "AccessGranted"} : c # Emitting(action),
             call' = [call EXCEPT ![th] = c], audit' = audit,
             aged' + Present' = aged + Present, grants' = grants,
             Present' \in Nat, aged' \in Nat, Panicked' \in {Panicked, 1}
      PROVE  AuditInv'
  <2>1. \A action \in Action : IsFiniteSet(Pending(action)')
    BY <1>7, Decides
  <2>2. \A action \in {"Set", "Cleared", "AccessGranted"} :
          Decided(action)' = Decided(action)
    <3>1. \A action \in Action :
            Decided(action)' = Decided(action) + (IF c = Emitting(action) THEN 1 ELSE 0)
      BY <1>7, Decides
    <3>2. QED
      BY <1>1, <1>2, <1>7, <3>1
  <2>3. Decided("Set")' = Decided("Cleared")' + (aged' + Present')
    <3>1. Decided("Set")' = Decided("Set") /\ Decided("Cleared")' = Decided("Cleared")
      BY <1>1, <2>2
    <3>2. QED
      BY <1>3, <1>7, <3>1
  <2>4. grants' \in Decided("AccessGranted")' .. Decided("AccessGranted")' + Panicked'
    <3>1. Decided("AccessGranted")' = Decided("AccessGranted")
      BY <1>1, <2>2
    <3>2. Decided("AccessGranted") \in Nat
      BY <1>1, <1>2
    <3>3. QED
      BY <1>2, <1>3, <1>7, <3>1, <3>2
  <2>5. QED
    BY <1>3, <1>7, <2>1, <2>2, <2>3, <2>4 DEF AuditInv
<1>8. ASSUME NEW th \in Thread, AskInsert(th) PROVE AuditInv'
  <2>1. PICK kind \in CredentialKind, expires \in {Never, clock + Ttl} :
          call' = [call EXCEPT ![th] = [at |-> "insert", kind |-> kind, expires |-> expires]]
    BY <1>8 DEF AskInsert
  <2>2. [at |-> "insert", kind |-> kind, expires |-> expires] \in Call
    BY CredentialAssumption DEF Call, CredentialTypeOK, Never
  <2>3. call[th].at # "emit" /\ UNCHANGED <<audit, aged, grants, Present, Panicked>>
    BY <1>8 DEF AskInsert, Begin, Idle, history, Present, Panicked
  <2>4. QED
    BY <1>2, <1>7, <2>1, <2>2, <2>3 DEF Emitting
<1>9. ASSUME NEW th \in Thread, AskAccess(th) PROVE AuditInv'
  <2>1. PICK kind \in CredentialKind :
          call' = [call EXCEPT ![th] = [at |-> "access", kind |-> kind, now |-> clock]]
    BY <1>9 DEF AskAccess
  <2>2. [at |-> "access", kind |-> kind, now |-> clock] \in Call
    BY DEF Call, CredentialTypeOK
  <2>3. call[th].at # "emit" /\ UNCHANGED <<audit, aged, grants, Present, Panicked>>
    BY <1>9 DEF AskAccess, Begin, Idle, history, Present, Panicked
  <2>4. QED
    BY <1>2, <1>7, <2>1, <2>2, <2>3 DEF Emitting
<1>10. ASSUME NEW th \in Thread, Insert(th) PROVE AuditInv'
  <2>1. call[th].at # "emit" /\ UNCHANGED <<audit, aged, grants, Panicked>> /\ Present' = 1
    BY <1>10 DEF Insert, Present, NoEntry, Panicked
  <2>2. CASE entry = NoEntry
    <3>1. call' = [call EXCEPT ![th] = Emitting("Set")] /\ Present = 0
      BY <1>10, <2>2 DEF Insert, Present
    <3>2. \A action \in Action :
            /\ IsFiniteSet(Pending(action)')
            /\ Decided(action)' = Decided(action)
                                    + (IF Emitting("Set") = Emitting(action) THEN 1 ELSE 0)
      BY <1>1, <1>4, <2>1, <3>1, Decides
    <3>3. /\ Decided("Set")' = Decided("Set") + 1
          /\ Decided("Cleared")' = Decided("Cleared")
          /\ Decided("AccessGranted")' = Decided("AccessGranted")
      BY <1>1, <1>2, <1>5, <3>2
    <3>4. Decided("Set")' = Decided("Cleared")' + (aged' + Present')
      BY <1>1, <1>2, <1>3, <2>1, <3>1, <3>3
    <3>5. grants' \in Decided("AccessGranted")' .. Decided("AccessGranted")' + Panicked'
      BY <1>3, <2>1, <3>3
    <3>6. QED
      BY <3>2, <3>4, <3>5 DEF AuditInv
  <2>3. CASE entry # NoEntry
    <3>1. call' = [call EXCEPT ![th] = Emitting("Rotated")] /\ Present = 1
      BY <1>10, <2>3 DEF Insert, Present
    <3>2. QED
      BY <1>1, <1>2, <1>4, <1>5, <1>7, <2>1, <3>1
  <2>4. QED
    BY <2>2, <2>3
<1>11. ASSUME NEW th \in Thread, Look(th) PROVE AuditInv'
  <2>1. CASE Expired(clock)
    <3>1. Present = 1 /\ Present' = 0 /\ aged' = aged + 1
      BY <1>11, <2>1 DEF Look, RemoveExpired, Expired, Present
    <3>2. UNCHANGED <<call, audit, grants, Panicked>>
      BY <1>11 DEF Look, Panicked
    <3>3. QED
      BY <1>2, <1>6, <3>1, <3>2
  <2>2. CASE ~Expired(clock)
    <3>1. UNCHANGED <<call, audit, grants, aged, Present, Panicked>>
      BY <1>11, <2>2 DEF Look, Present, Panicked
    <3>2. QED
      BY <1>2, <1>6, <3>1
  <2>3. QED
    BY <2>1, <2>2
<1>12. ASSUME NEW th \in Thread, DenyExpired(th) PROVE AuditInv'
  <2>1. /\ call[th].at # "emit"
        /\ call' = [call EXCEPT ![th] = Emitting("AccessDenied")]
        /\ UNCHANGED <<audit, grants, Panicked>>
    BY <1>12 DEF DenyExpired, RemoveExpired, Panicked
  <2>2. Present = 1 /\ Present' = 0 /\ aged' = aged + 1
    BY <1>12 DEF DenyExpired, RemoveExpired, Expired, Present
  <2>3. /\ Emitting("AccessDenied") \in Call
        /\ \A action \in {"Set", "Cleared", "AccessGranted"} :
             Emitting("AccessDenied") # Emitting(action)
        /\ aged' + Present' = aged + Present /\ Present' \in Nat /\ aged' \in Nat
    BY <1>1, <1>2, <1>4, <1>5, <2>2
  <2>4. QED
    BY <1>7, <2>1, <2>3
<1>13. ASSUME NEW th \in Thread, Deny(th) PROVE AuditInv'
  <2>1. /\ call[th].at # "emit"
        /\ call' = [call EXCEPT ![th] = Emitting("AccessDenied")]
        /\ UNCHANGED <<audit, grants, aged, Present, Panicked>>
    BY <1>13 DEF Deny, history, Present, Panicked
  <2>2. QED
    BY <1>1, <1>2, <1>4, <1>5, <1>7, <2>1
<1>14. ASSUME NEW th \in Thread, Show(th)
       PROVE  /\ call[th].at # "emit" /\ grants' = grants + 1 /\ UNCHANGED <<audit, aged>>
              /\ Present' = Present /\ poisoned = FALSE
  <2>1. entry \in [kind : CredentialKind, expires : Nat, uses : Nat] /\ entry # NoEntry
    BY <1>14 DEF CredentialTypeOK, Show
  <2>2. entry' \in [kind : CredentialKind, expires : Nat, uses : Nat]
    BY <1>14, <2>1 DEF Show
  <2>3. Present' = Present
    BY <2>1, <2>2 DEF NoEntry, Present
  <2>4. poisoned = FALSE
    BY <1>14, Zenon DEF CredentialTypeOK, Show
  <2>5. QED
    BY <1>14, <2>3, <2>4 DEF Show
<1>15. ASSUME NEW th \in Thread, Grant(th) PROVE AuditInv'
  <2>1. /\ call[th].at # "emit"
        /\ call' = [call EXCEPT ![th] = Emitting("AccessGranted")]
        /\ grants' = grants + 1 /\ UNCHANGED <<audit, aged, Present, Panicked>>
    BY <1>14, <1>15 DEF Grant, Panicked
  <2>2. \A action \in Action :
          /\ IsFiniteSet(Pending(action)')
          /\ Decided(action)' = Decided(action)
                + (IF Emitting("AccessGranted") = Emitting(action) THEN 1 ELSE 0)
    BY <1>1, <1>4, <2>1, Decides
  <2>3. /\ Decided("Set")' = Decided("Set")
        /\ Decided("Cleared")' = Decided("Cleared")
        /\ Decided("AccessGranted")' = Decided("AccessGranted") + 1
    BY <1>1, <1>2, <1>5, <2>2
  <2>4. Decided("Set")' = Decided("Cleared")' + (aged' + Present')
    BY <1>3, <2>1, <2>3
  <2>5. grants' \in Decided("AccessGranted")' .. Decided("AccessGranted")' + Panicked'
    <3>1. Decided("AccessGranted") \in Nat
      BY <1>1, <1>2
    <3>2. QED
      BY <1>2, <1>3, <2>1, <2>3, <3>1
  <2>6. QED
    BY <2>2, <2>4, <2>5 DEF AuditInv
<1>16. ASSUME NEW th \in Thread, Panics(th) PROVE AuditInv'
  <2>1. /\ call[th].at # "emit"
        /\ call' = [call EXCEPT ![th] = Idle]
        /\ grants' = grants + 1 /\ UNCHANGED <<audit, aged, Present>>
        /\ Panicked = 0 /\ Panicked' = 1
    BY <1>14, <1>16 DEF Panics, Panicked
  <2>2. Idle \in Call /\ \A action : Idle # Emitting(action)
    BY DEF Call, Idle, Emitting
  <2>3. \A action \in Action :
          IsFiniteSet(Pending(action)') /\ Decided(action)' = Decided(action)
    <3>1. \A action \in Action :
            /\ IsFiniteSet(Pending(action)')
            /\ Decided(action)' = Decided(action) + (IF Idle = Emitting(action) THEN 1 ELSE 0)
      BY <2>1, <2>2, Decides
    <3>2. QED
      BY <1>2, <2>2, <3>1
  <2>4. Decided("Set")' = Decided("Cleared")' + (aged' + Present')
    <3>1. Decided("Set")' = Decided("Set") /\ Decided("Cleared")' = Decided("Cleared")
      BY <1>1, <2>3
    <3>2. QED
      BY <1>3, <2>1, <3>1
  <2>5. grants' \in Decided("AccessGranted")' .. Decided("AccessGranted")' + Panicked'
    <3>1. /\ Decided("AccessGranted") \in Nat
          /\ Decided("AccessGranted")' = Decided("AccessGranted")
      BY <1>1, <1>2, <2>3
    <3>2. QED
      BY <1>2, <1>3, <2>1, <3>1
  <2>6. QED
    BY <2>3, <2>4, <2>5 DEF AuditInv
<1>17. ASSUME NEW th \in Thread, PanicsElsewhere(th) PROVE AuditInv'
  <2>1. UNCHANGED <<call, audit, Present, aged, grants>> /\ Panicked' = 1
    BY <1>17 DEF PanicsElsewhere, history, Present, Panicked
  <2>2. QED
    BY <1>2, <1>6, <2>1
<1>18. ASSUME NEW th \in Thread, FindsPoisoned(th) PROVE AuditInv'
  <2>1. /\ call[th].at # "emit"
        /\ call' = [call EXCEPT ![th] = Idle]
        /\ UNCHANGED <<audit, grants, aged, Present, Panicked>>
    BY <1>18 DEF FindsPoisoned, history, Present, Panicked
  <2>2. Idle \in Call /\ \A action : Idle # Emitting(action)
    BY DEF Call, Idle, Emitting
  <2>3. QED
    BY <1>2, <1>7, <2>1, <2>2
<1>19. ASSUME NEW th \in Thread, Revoke(th) PROVE AuditInv'
  <2>1. /\ call[th].at # "emit" /\ UNCHANGED <<audit, grants, aged, Panicked>>
        /\ Present' = 0
    BY <1>19 DEF Revoke, Begin, Idle, history, Present, Panicked
  <2>2. CASE entry = NoEntry
    <3>1. call' = [call EXCEPT ![th] = Idle] /\ Present = 0
      BY <1>19, <2>2 DEF Revoke, Present
    <3>2. Idle \in Call /\ \A action : Idle # Emitting(action)
      BY DEF Call, Idle, Emitting
    <3>3. QED
      BY <1>2, <1>7, <2>1, <3>1, <3>2
  <2>3. CASE entry # NoEntry
    <3>1. call' = [call EXCEPT ![th] = Emitting("Cleared")] /\ Present = 1
      BY <1>19, <2>3 DEF Revoke, Present
    <3>2. \A action \in Action :
            /\ IsFiniteSet(Pending(action)')
            /\ Decided(action)' = Decided(action)
                  + (IF Emitting("Cleared") = Emitting(action) THEN 1 ELSE 0)
      BY <1>1, <1>4, <2>1, <3>1, Decides
    <3>3. /\ Decided("Set")' = Decided("Set")
          /\ Decided("Cleared")' = Decided("Cleared") + 1
          /\ Decided("AccessGranted")' = Decided("AccessGranted")
      BY <1>1, <1>2, <1>5, <3>2
    <3>4. Decided("Set")' = Decided("Cleared")' + (aged' + Present')
      BY <1>1, <1>2, <1>3, <2>1, <3>1, <3>3
    <3>5. grants' \in Decided("AccessGranted")' .. Decided("AccessGranted")' + Panicked'
      BY <1>3, <2>1, <3>3
    <3>6. QED
      BY <3>2, <3>4, <3>5 DEF AuditInv
  <2>4. QED
    BY <2>2, <2>3
<1>20. ASSUME NEW th \in Thread, Emit(th) PROVE AuditInv'
  <2>1. UNCHANGED <<Present, aged, grants, Panicked>>
    BY <1>20 DEF Emit, history, Present, Panicked
  <2>2. QED
    BY <1>1, <1>3, <1>20, <2>1, Tells DEF AuditInv
<1>21. CASE Tick \/ UNCHANGED credentialVars
  <2>1. UNCHANGED <<call, audit, Present, aged, grants, Panicked>>
    BY <1>21 DEF Tick, credentialVars, history, Present, Panicked
  <2>2. QED
    BY <1>2, <1>6, <2>1
<1>22. QED
  BY <1>8, <1>9, <1>10, <1>11, <1>12, <1>13, <1>15, <1>16, <1>17, <1>18, <1>19, <1>20, <1>21
     DEF CredentialNext

(* Whenever no call is under way the audit accounts for every credential   *)
(* that came and every secret that was shown, however many threads there   *)
(* are and however late their events arrive (credentials.rs:484, :518).    *)
THEOREM AuditBalances == CredentialSpec => []AuditBalanced
<1>1. CredentialInit => CredentialTypeOK
  BY InitCredential DEF CredentialInv
<1>2. CredentialTypeOK /\ AuditInv /\ [CredentialNext]_credentialVars => CredentialTypeOK' /\ AuditInv'
  BY CredentialTypeStep, AuditStep
<1>3. CredentialTypeOK /\ AuditInv => AuditBalanced
  <2> SUFFICES ASSUME CredentialTypeOK, AuditInv, \A th \in Thread : call[th] = Idle
               PROVE  /\ audit["Set"] = audit["Cleared"] + aged
                                          + (IF entry = NoEntry THEN 0 ELSE 1)
                      /\ grants \in audit["AccessGranted"] ..
                                      audit["AccessGranted"] + Panicked
    BY DEF AuditBalanced, Panicked
  <2>1. \A action : Pending(action) = {}
    BY DEF Pending, Idle, Emitting
  <2>2. \A action : Cardinality(Pending(action)) = 0
    BY <2>1, FS_EmptySet
  <2>3. /\ audit["Set"] \in Nat /\ audit["Cleared"] \in Nat /\ aged \in Nat
        /\ audit["AccessGranted"] \in Nat /\ grants \in Nat
    BY DEF CredentialTypeOK, Action
  <2>4. QED
    BY <2>2, <2>3 DEF AuditInv, Decided, Present
<1>4. QED
  BY <1>1, <1>2, <1>3, InitAudit, PTL DEF CredentialSpec

----------------------------------------------------------------------------
(* The websocket. *)

(* The points at which a request has the mutex. *)
Holding == {"locked", "connecting", "sending", "reading", "yielded", "erred"}

MutexInv == \A r \in Request : pc[r] \in Holding => holder = r

(* The cached socket is the one its holder connected, and was whole when   *)
(* its holder sent; only a stream hands out an error before it ends.       *)
SocketInv ==
  /\ auth = NoAuth => work = << >> /\ wire = << >>
  /\ \A r \in Request :
       /\ pc[r] = "connecting" => auth = NoAuth
       /\ pc[r] \in {"sending", "reading", "yielded"} => auth = AuthOf[r]
       /\ pc[r] \in {"connecting", "reading", "yielded"} => ~dead
       /\ pc[r] = "erred" => r \in Streamed

(* The server answers a request once: after the last frame of a response   *)
(* comes no other of it.                                                   *)
ServerInv ==
  /\ \A i, j \in DOMAIN work : work[i] = work[j] => i = j
  /\ \A i \in DOMAIN wire : wire[i].kind \in {"last", "error"} =>
       /\ \A j \in DOMAIN wire : j > i => wire[j].of # wire[i].of
       /\ \A j \in DOMAIN work : work[j] # wire[i].of

(* A request that was sent on this socket and is not answered in full. *)
OnSocket(q) ==
  \/ \E i \in DOMAIN work : work[i] = q
  \/ \E i \in DOMAIN wire : wire[i].of = q

(* Some request with these credentials was dropped or failed. *)
Blamed(key) == \E d \in Request : pc[d] \in {"dropped", "failed"} /\ AuthOf[d] = key

OnceSent == {"reading", "yielded", "erred"} \cup Ended

(* What is on the socket was sent with its credentials, by the request     *)
(* that reads it, or is left by one that ended where one of them failed.   *)
LeftInv ==
  \A q \in Request : OnSocket(q) =>
    /\ AuthOf[q] = auth
    /\ pc[q] \in OnceSent
    /\ pc[q] \notin {"reading", "erred"} => Blamed(AuthOf[q])

WsInv == TypeOK /\ MutexInv /\ SocketInv /\ ServerInv /\ LeftInv /\ OwnFrames

----------------------------------------------------------------------------
LEMMA AppendFacts ==
  ASSUME NEW S, NEW s \in Seq(S), NEW x \in S
  PROVE  /\ Append(s, x) \in Seq(S)
         /\ Len(s) \in Nat
         /\ DOMAIN s = 1 .. Len(s)
         /\ DOMAIN Append(s, x) = 1 .. Len(s) + 1
         /\ \A i \in DOMAIN s : Append(s, x)[i] = s[i]
         /\ Append(s, x)[Len(s) + 1] = x
OBVIOUS

LEMMA TailFacts ==
  ASSUME NEW S, NEW s \in Seq(S), s # << >>
  PROVE  /\ Head(s) \in S /\ Head(s) = s[1] /\ 1 \in DOMAIN s
         /\ Len(s) \in Nat
         /\ DOMAIN s = 1 .. Len(s)
         /\ Tail(s) \in Seq(S)
         /\ DOMAIN Tail(s) = 1 .. Len(s) - 1
         /\ \A i \in 1 .. Len(s) - 1 : Tail(s)[i] = s[i + 1] /\ i + 1 \in DOMAIN s
OBVIOUS

LEMMA FrameFacts ==
  /\ \A q \in Request, k \in {"event", "last", "error", "unreadable"} :
       [of |-> q, kind |-> k] \in Frame
  /\ [of |-> NoRequest, kind |-> "close"] \in Frame
  /\ \A f \in Frame : f.kind # "close" => f.of \in Request
  /\ \A f \in Frame : f.kind = "close" => f.of = NoRequest
BY DEF Frame

(* A request that ended stays as it ended, and only its own steps move a   *)
(* request.                                                                *)
LEMMA EndedStays ==
  ASSUME TypeOK, Next
  PROVE  \A d \in Request : pc[d] \in Ended => pc'[d] = pc[d]
<1> SUFFICES ASSUME NEW d \in Request, pc[d] \in Ended PROVE pc'[d] = pc[d]
  OBVIOUS
<1> USE DEF TypeOK, Is, Become, Ended
<1>1. ASSUME NEW r \in Request, Ask(r) \/ Drop(r) PROVE pc'[d] = pc[d]
  BY <1>1 DEF Ask, Drop
<1>2. ASSUME NEW r \in Request,
             Lock(r) \/ Reuse(r) \/ LetGo(r) \/ Connect(r) \/ ConnectFails(r) \/ Send(r)
      PROVE  pc'[d] = pc[d]
  BY <1>2 DEF Lock, Reuse, LetGo, Connect, ConnectFails, Fails, Send
<1>3. ASSUME NEW r \in Request,
             SendFails(r) \/ Refused(r) \/ ReadClose(r) \/ ReadBreaks(r) \/ PongFails(r)
      PROVE  pc'[d] = pc[d]
  BY <1>3 DEF SendFails, Refused, ReadClose, ReadBreaks, PongFails, Broken, Fails, Incoming
<1>4. ASSUME NEW r \in Request,
             ReadEvent(r) \/ ReadLast(r) \/ StreamEnds(r) \/ StreamFails(r) \/ ReadError(r)
      PROVE  pc'[d] = pc[d]
  BY <1>4 DEF ReadEvent, ReadLast, StreamEnds, StreamFails, ReadError, Fails, Incoming
<1>5. CASE Ages \/ ServerSends \/ ServerFinishes \/ ServerCloses
  BY <1>5 DEF Ages, ServerSends, ServerFinishes, ServerCloses
<1>6. QED
  BY <1>1, <1>2, <1>3, <1>4, <1>5 DEF Next, Goes

LEMMA InitWs == Init => WsInv
<1> SUFFICES ASSUME Init PROVE WsInv
  OBVIOUS
<1>1. work \in Seq(Request) /\ wire \in Seq(Frame) /\ DOMAIN work = {} /\ DOMAIN wire = {}
  BY DEF Init
<1>2. TypeOK
  <2>1. got \in [Request -> SUBSET Request] /\ sent \in 0 .. MaxEvents
    BY WsAssumption DEF Init
  <2>2. {old, dead} \subseteq BOOLEAN
    BY DEF Init
  <2>3. pc = [r \in Request |-> "idle"] /\ auth = NoAuth /\ holder = NoRequest
    BY DEF Init
  <2>4. QED
    BY <1>1, <2>1, <2>2, <2>3 DEF TypeOK
<1>3. MutexInv /\ SocketInv /\ OwnFrames
  BY DEF Init, MutexInv, SocketInv, OwnFrames, Holding
<1>4. ServerInv /\ LeftInv
  BY <1>1 DEF ServerInv, LeftInv, OnSocket
<1>5. QED
  BY <1>2, <1>3, <1>4 DEF WsInv

(* The type invariant, one step per kind of action. *)
SocketTyped ==
  /\ auth \in {AuthOf[r] : r \in Request} \cup {NoAuth}
  /\ {old, dead} \subseteq BOOLEAN
  /\ work \in Seq(Request) /\ wire \in Seq(Frame)
  /\ sent \in 0 .. MaxEvents

Point ==
  {"idle", "waiting", "locked", "connecting", "sending", "reading", "yielded", "erred"}
    \cup Ended

LEMMA TypeOf ==
  TypeOK <=> /\ SocketTyped
             /\ holder \in Request \cup {NoRequest}
             /\ pc \in [Request -> Point]
             /\ got \in [Request -> SUBSET Request]
BY DEF TypeOK, SocketTyped, Point

(* A request that fails, with or without the mutex. *)
LEMMA FailsTo ==
  ASSUME NEW r \in Request, Fails(r)
  PROVE  \/ Become(r, "erred") /\ holder' = holder /\ r \in Streamed
         \/ Become(r, "failed") /\ holder' = NoRequest
BY DEF Fails

LEMMA TypeStep == TypeOK /\ [Next]_vars => TypeOK'
<1> SUFFICES ASSUME TypeOK, [Next]_vars PROVE TypeOK'
  OBVIOUS
<1>0. /\ SocketTyped
      /\ holder \in Request \cup {NoRequest}
      /\ pc \in [Request -> Point]
      /\ got \in [Request -> SUBSET Request]
  BY TypeOf
<1>1. ASSUME NEW r \in Request, NEW at \in Point, Become(r, at)
      PROVE  pc' \in [Request -> Point]
  BY <1>0, <1>1 DEF Become
<1>f. ASSUME NEW r \in Request, Fails(r)
      PROVE  pc' \in [Request -> Point] /\ holder' \in Request \cup {NoRequest}
  BY <1>0, <1>1, <1>f, FailsTo DEF Point, Ended
<1>2. Disconnect => SocketTyped'
  <2> SUFFICES ASSUME Disconnect PROVE SocketTyped'
    OBVIOUS
  <2>1. << >> \in Seq(Request) /\ << >> \in Seq(Frame) /\ 0 \in 0 .. MaxEvents
    BY WsAssumption
  <2>2. {old', dead'} \subseteq BOOLEAN
    BY DEF Disconnect
  <2>3. QED
    BY <2>1, <2>2 DEF Disconnect, SocketTyped
<1>3. ASSUME SocketTyped', holder' \in Request \cup {NoRequest},
             pc' \in [Request -> Point], got' \in [Request -> SUBSET Request]
      PROVE  TypeOK'
  BY <1>3 DEF TypeOK, SocketTyped, Point
<1>4. UNCHANGED <<auth, old, dead, work, wire, sent>> => SocketTyped'
  BY <1>0 DEF SocketTyped
<1>5. ASSUME NEW r \in Request, Take(r), wire # << >>, UNCHANGED <<auth, old, dead>>
      PROVE  SocketTyped'
  <2>1. wire' \in Seq(Frame)
    BY <1>0, <1>5, TailFacts DEF SocketTyped, Take
  <2>2. QED
    BY <1>0, <1>5, <2>1 DEF SocketTyped, Take
<1>6. ASSUME NEW r \in Request, Given(r), wire # << >>, Head(wire).kind # "close"
      PROVE  got' \in [Request -> SUBSET Request]
  <2>1. Head(wire).of \in Request
    BY <1>0, <1>6, TailFacts, FrameFacts DEF SocketTyped
  <2>2. QED
    BY <1>0, <1>6, <2>1 DEF Given
<1>7. ASSUME NEW r \in Request, Broken(r), got' = got PROVE TypeOK'
  <2>1. SocketTyped'
    <3>1. CASE r \in Streamed
      <4>1. dead' = TRUE /\ UNCHANGED <<auth, old, work, wire, sent>>
        BY <1>7, <3>1 DEF Broken, server
      <4>2. {old', dead'} \subseteq BOOLEAN
        BY <1>0, <4>1 DEF SocketTyped
      <4>3. QED
        BY <1>0, <4>1, <4>2 DEF SocketTyped
    <3>2. CASE r \notin Streamed
      BY <1>2, <1>7, <3>2 DEF Broken
    <3>3. QED
      BY <3>1, <3>2
  <2>2. QED
    BY <1>0, <1>f, <1>3, <1>7, <2>1 DEF Broken
<1>8. ASSUME NEW r \in Request, Ask(r) \/ Lock(r) \/ Reuse(r) \/ ConnectFails(r)
      PROVE  TypeOK'
  <2>1. UNCHANGED <<auth, old, dead, work, wire, sent, got>>
    BY <1>8 DEF Ask, Lock, Reuse, ConnectFails, server
  <2>2. holder' \in Request \cup {NoRequest}
    BY <1>0, <1>f, <1>8 DEF Ask, Lock, Reuse, ConnectFails
  <2>3. pc' \in [Request -> Point]
    BY <1>1, <1>f, <1>8 DEF Ask, Lock, Reuse, ConnectFails, Point
  <2>4. QED
    BY <1>0, <1>3, <1>4, <2>1, <2>2, <2>3
<1>9. ASSUME NEW r \in Request, StreamEnds(r) \/ StreamFails(r) \/ Drop(r) PROVE TypeOK'
  <2>1. UNCHANGED <<auth, old, dead, work, wire, sent, got>>
    BY <1>9 DEF StreamEnds, StreamFails, Drop, server
  <2>2. holder' \in Request \cup {NoRequest}
    BY <1>0, <1>9 DEF StreamEnds, StreamFails, Drop
  <2>3. pc' \in [Request -> Point]
    BY <1>1, <1>9 DEF StreamEnds, StreamFails, Drop, Point, Ended
  <2>4. QED
    BY <1>0, <1>3, <1>4, <2>1, <2>2, <2>3
<1>10. ASSUME NEW r \in Request, LetGo(r) PROVE TypeOK'
  BY <1>0, <1>1, <1>2, <1>3, <1>10 DEF LetGo, Point
<1>11. ASSUME NEW r \in Request, Connect(r) PROVE TypeOK'
  <2>1. SocketTyped'
    BY <1>0, <1>11 DEF Connect, SocketTyped, server
  <2>2. QED
    BY <1>0, <1>1, <1>3, <1>11, <2>1 DEF Connect, Point
<1>12. ASSUME NEW r \in Request, Send(r) PROVE TypeOK'
  <2>1. work' \in Seq(Request)
    BY <1>0, <1>12, AppendFacts DEF Send, SocketTyped
  <2>2. SocketTyped'
    BY <1>0, <1>12, <2>1 DEF Send, SocketTyped
  <2>3. QED
    BY <1>0, <1>1, <1>3, <1>12, <2>2 DEF Send, Point
<1>13. ASSUME NEW r \in Request, SendFails(r) \/ ReadClose(r) \/ ReadBreaks(r) PROVE TypeOK'
  BY <1>7, <1>13 DEF SendFails, ReadClose, ReadBreaks
<1>14. ASSUME NEW r \in Request, Refused(r) PROVE TypeOK'
  <2>1. SocketTyped'
    <3>1. CASE r \in Streamed
      BY <1>4, <1>14, <3>1 DEF Refused, server
    <3>2. CASE r \notin Streamed
      BY <1>2, <1>14, <3>2 DEF Refused
    <3>3. QED
      BY <3>1, <3>2
  <2>2. QED
    BY <1>0, <1>f, <1>3, <1>14, <2>1 DEF Refused
<1>15. ASSUME NEW r \in Request, ReadEvent(r) PROVE TypeOK'
  <2>1. wire # << >> /\ Head(wire).kind = "event"
    BY <1>15 DEF ReadEvent, Incoming
  <2>2. SocketTyped' /\ got' \in [Request -> SUBSET Request]
    BY <1>5, <1>6, <1>15, <2>1 DEF ReadEvent
  <2>3. QED
    BY <1>0, <1>3, <1>15, <2>2 DEF ReadEvent
<1>16. ASSUME NEW r \in Request, ReadLast(r) PROVE TypeOK'
  <2>1. wire # << >> /\ Head(wire).kind = "last"
    BY <1>16 DEF ReadLast, Incoming
  <2>2. SocketTyped' /\ got' \in [Request -> SUBSET Request]
    BY <1>5, <1>6, <1>16, <2>1 DEF ReadLast
  <2>3. holder' \in Request \cup {NoRequest} /\ pc' \in [Request -> Point]
    BY <1>0, <1>1, <1>16 DEF ReadLast, Point, Ended
  <2>4. QED
    BY <1>3, <2>2, <2>3
<1>17. ASSUME NEW r \in Request, ReadError(r) PROVE TypeOK'
  <2>1. wire # << >>
    BY <1>17 DEF ReadError, Incoming
  <2>2. SocketTyped'
    BY <1>5, <1>17, <2>1 DEF ReadError
  <2>3. QED
    BY <1>0, <1>f, <1>3, <1>17, <2>2 DEF ReadError
<1>18. ASSUME NEW r \in Request, PongFails(r) PROVE TypeOK'
  <2>1. {old', dead'} \subseteq BOOLEAN
    BY <1>0, <1>18 DEF PongFails, SocketTyped
  <2>2. SocketTyped'
    BY <1>0, <1>18, <2>1 DEF PongFails, SocketTyped, server
  <2>3. QED
    BY <1>0, <1>f, <1>3, <1>18, <2>2 DEF PongFails
<1>19. CASE Ages
  <2>1. {old', dead'} \subseteq BOOLEAN
    BY <1>0, <1>19 DEF Ages, SocketTyped
  <2>2. SocketTyped'
    BY <1>0, <1>19, <2>1 DEF Ages, SocketTyped, server
  <2>3. QED
    BY <1>0, <1>3, <1>19, <2>2 DEF Ages
<1>20. ASSUME NEW frame \in Frame, Put(frame) PROVE wire' \in Seq(Frame)
  BY <1>0, <1>20, AppendFacts DEF Put, SocketTyped
<1>21. CASE ServerSends
  <2>1. Head(work) \in Request
    BY <1>0, <1>21, TailFacts DEF ServerSends, SocketTyped
  <2>2. wire' \in Seq(Frame)
    BY <1>20, <1>21, <2>1, FrameFacts DEF ServerSends
  <2>3. sent' \in 0 .. MaxEvents
    BY <1>0, <1>21, WsAssumption DEF ServerSends, SocketTyped
  <2>4. SocketTyped'
    BY <1>0, <1>21, <2>2, <2>3 DEF ServerSends, SocketTyped
  <2>5. QED
    BY <1>0, <1>3, <1>21, <2>4 DEF ServerSends
<1>22. CASE ServerFinishes
  <2>1. Head(work) \in Request /\ work' \in Seq(Request)
    BY <1>0, <1>22, TailFacts DEF ServerFinishes, SocketTyped
  <2>2. wire' \in Seq(Frame)
    BY <1>20, <1>22, <2>1, FrameFacts DEF ServerFinishes
  <2>3. SocketTyped'
    BY <1>0, <1>22, <2>1, <2>2, WsAssumption DEF ServerFinishes, SocketTyped
  <2>4. QED
    BY <1>0, <1>3, <1>22, <2>3 DEF ServerFinishes
<1>23. CASE ServerCloses
  <2>1. wire' \in Seq(Frame)
    BY <1>20, <1>23, FrameFacts DEF ServerCloses
  <2>2. SocketTyped'
    BY <1>0, <1>23, <2>1 DEF ServerCloses, SocketTyped
  <2>3. QED
    BY <1>0, <1>3, <1>23, <2>2 DEF ServerCloses
<1>24. CASE UNCHANGED vars
  BY <1>0, <1>3, <1>4, <1>24 DEF vars, server
<1>25. QED
  BY <1>8, <1>9, <1>10, <1>11, <1>12, <1>13, <1>14, <1>15, <1>16, <1>17, <1>18, <1>19,
     <1>21, <1>22, <1>23, <1>24 DEF Next, Goes

(* No two requests are past the mutex. *)
LEMMA MutexStep == TypeOK /\ MutexInv /\ [Next]_vars => MutexInv'
<1> SUFFICES ASSUME TypeOK, MutexInv, [Next]_vars PROVE MutexInv'
  OBVIOUS
<1>0. pc \in [Request -> Point] /\ NoRequest \notin Request
  BY TypeOf, WsAssumption
<1>1. CASE UNCHANGED <<pc, holder>>
  BY <1>1 DEF MutexInv
<1>2. ASSUME NEW r \in Request, NEW at \in Point, Become(r, at), holder = r,
             holder' = r \/ at \notin Holding
      PROVE  MutexInv'
  BY <1>0, <1>2 DEF MutexInv, Become
<1>3. ASSUME NEW r \in Request, NEW at \in Point \ Holding, Become(r, at),
             pc[r] \notin Holding \/ holder = r, holder = r \/ holder' = holder
      PROVE  MutexInv'
  BY <1>0, <1>3 DEF MutexInv, Become
<1>4. \A r \in Request : pc[r] \in Holding => holder = r
  BY DEF MutexInv
<1>5. ASSUME NEW r \in Request, Ask(r) \/ Drop(r) PROVE MutexInv'
  <2>1. {"waiting", "dropped"} \subseteq Point \ Holding
    BY DEF Point, Holding, Ended
  <2>2. CASE Ask(r)
    BY <1>3, <1>4, <2>1, <2>2 DEF Ask
  <2>3. CASE Drop(r)
    BY <1>3, <1>4, <2>1, <2>3 DEF Drop
  <2>4. QED
    BY <1>5, <2>2, <2>3
<1>6. ASSUME NEW r \in Request, Lock(r) PROVE MutexInv'
  BY <1>0, <1>6 DEF Lock, MutexInv, Is, Become
<1>7. ASSUME NEW r \in Request, Reuse(r) \/ LetGo(r) \/ Connect(r) \/ Send(r) PROVE MutexInv'
  <2>1. holder = r /\ holder' = r
    BY <1>4, <1>7 DEF Reuse, LetGo, Connect, Send, Is, Holding
  <2>2. PICK at \in Point : Become(r, at)
    BY <1>7 DEF Reuse, LetGo, Connect, Send, Point
  <2>3. QED
    BY <1>2, <2>1, <2>2
<1>8. ASSUME NEW r \in Request,
             \/ ConnectFails(r) \/ SendFails(r) \/ Refused(r) \/ StreamEnds(r) \/ StreamFails(r)
             \/ ReadError(r) \/ ReadClose(r) \/ ReadBreaks(r) \/ PongFails(r)
      PROVE  MutexInv'
  <2>1. holder = r
    BY <1>4, <1>8 DEF ConnectFails, SendFails, Refused, StreamEnds, StreamFails, ReadError,
                      ReadClose, ReadBreaks, PongFails, Incoming, Is, Holding
  <2>2. \/ Fails(r)
        \/ Become(r, "failed")
        \/ Become(r, "returned")
    BY <1>8 DEF ConnectFails, SendFails, Refused, StreamEnds, StreamFails, ReadError,
                ReadClose, ReadBreaks, PongFails, Broken
  <2>3. {"failed", "returned"} \subseteq Point \ Holding /\ "erred" \in Point
    BY DEF Point, Holding, Ended
  <2>4. CASE Fails(r)
    BY <1>2, <2>1, <2>3, <2>4, FailsTo
  <2>5. QED
    BY <1>2, <2>1, <2>2, <2>3, <2>4
<1>9. ASSUME NEW r \in Request, ReadLast(r) PROVE MutexInv'
  <2>1. holder = r
    BY <1>4, <1>9 DEF ReadLast, Incoming, Is, Holding
  <2>2. \/ Become(r, "yielded") /\ holder' = r
        \/ Become(r, "returned")
    BY <1>9, <2>1 DEF ReadLast
  <2>3. "yielded" \in Point /\ "returned" \in Point /\ "returned" \notin Holding
    BY DEF Point, Holding, Ended
  <2>4. QED
    BY <1>2, <2>1, <2>2, <2>3
<1>10. ASSUME NEW r \in Request, ReadEvent(r) PROVE MutexInv'
  BY <1>1, <1>10 DEF ReadEvent
<1>11. CASE Ages \/ ServerSends \/ ServerFinishes \/ ServerCloses \/ UNCHANGED vars
  BY <1>1, <1>11 DEF Ages, ServerSends, ServerFinishes, ServerCloses, vars
<1>12. QED
  BY <1>5, <1>6, <1>7, <1>8, <1>9, <1>10, <1>11 DEF Next, Goes

(* One request moves, having the mutex, to a point where the socket is as  *)
(* it has to be there.                                                     *)
LEMMA SocketMoves ==
  ASSUME TypeOK, MutexInv, SocketInv, NEW r \in Request, NEW at \in Point, Become(r, at),
         holder = r,
         auth' = NoAuth => work' = << >> /\ wire' = << >>,
         at = "connecting" => auth' = NoAuth,
         at \in {"sending", "reading", "yielded"} => auth' = AuthOf[r],
         at \in {"connecting", "reading", "yielded"} => ~dead',
         at = "erred" => r \in Streamed
  PROVE  SocketInv'
<1>1. \A d \in Request : d # r => pc'[d] = pc[d] /\ pc[d] \notin Holding
  BY TypeOf DEF MutexInv, Become
<1>2. pc'[r] = at
  BY TypeOf DEF Become
<1>3. QED
  BY <1>1, <1>2 DEF SocketInv, Holding

LEMMA SocketStep == TypeOK /\ MutexInv /\ SocketInv /\ [Next]_vars => SocketInv'
<1> SUFFICES ASSUME TypeOK, MutexInv, SocketInv, [Next]_vars PROVE SocketInv'
  OBVIOUS
<1>0. pc \in [Request -> Point] /\ \A r \in Request : AuthOf[r] # NoAuth
  BY TypeOf, WsAssumption
<1>1. \A r \in Request : pc[r] \in Holding => holder = r
  BY DEF MutexInv
<1>2. auth = NoAuth => work = << >> /\ wire = << >>
  BY DEF SocketInv
<1>3. ASSUME NEW r \in Request, NEW at \in Point \ Holding, Become(r, at),
             UNCHANGED <<auth, dead, work, wire>>
      PROVE  SocketInv'
  BY <1>0, <1>3 DEF SocketInv, Become, Holding
<1>4. {"waiting", "dropped", "failed", "returned"} \subseteq Point \ Holding
  BY DEF Point, Holding, Ended
<1>5. ASSUME NEW r \in Request, Ask(r) \/ Drop(r) \/ StreamEnds(r) \/ StreamFails(r)
      PROVE  SocketInv'
  BY <1>3, <1>4, <1>5 DEF Ask, Drop, StreamEnds, StreamFails, server
<1>6. ASSUME NEW r \in Request, Lock(r) PROVE SocketInv'
  BY <1>0, <1>6 DEF Lock, SocketInv, Is, Become, server
<1>7. ASSUME NEW r \in Request, Reuse(r) PROVE SocketInv'
  <2>1. holder = r /\ auth' = AuthOf[r] /\ Become(r, "sending") /\ UNCHANGED <<work, wire>>
    BY <1>1, <1>7 DEF Reuse, ShouldReconnect, Is, Holding, server
  <2>2. QED
    BY <1>0, <2>1, SocketMoves DEF Point
<1>8. ASSUME NEW r \in Request, LetGo(r) PROVE SocketInv'
  <2>1. holder = r /\ Disconnect /\ Become(r, "connecting")
    BY <1>1, <1>8 DEF LetGo, Is, Holding
  <2>2. QED
    BY <2>1, SocketMoves DEF Point, Disconnect
<1>9. ASSUME NEW r \in Request, Connect(r) PROVE SocketInv'
  <2>1. holder = r /\ auth' = AuthOf[r] /\ Become(r, "sending")
    BY <1>1, <1>9 DEF Connect, Is, Holding
  <2>2. QED
    BY <1>0, <2>1, SocketMoves DEF Point
<1>10. ASSUME NEW r \in Request, Send(r) PROVE SocketInv'
  <2>1. holder = r /\ auth = AuthOf[r] /\ ~dead /\ Become(r, "reading") /\ UNCHANGED <<auth, dead>>
    BY <1>1, <1>10 DEF Send, Is, Holding, SocketInv
  <2>2. QED
    BY <1>0, <2>1, SocketMoves DEF Point
<1>11. ASSUME NEW r \in Request, holder = r, Fails(r),
              Disconnect \/ UNCHANGED <<auth, work, wire>>
       PROVE  SocketInv'
  <2>1. PICK at \in {"erred", "failed"} : Become(r, at) /\ (at = "erred" => r \in Streamed)
    BY <1>11, FailsTo
  <2>2. at \in Point
    BY DEF Point, Ended
  <2>3. QED
    BY <1>2, <1>11, <2>1, <2>2, SocketMoves DEF Disconnect
<1>12. ASSUME NEW r \in Request,
              \/ ConnectFails(r) \/ SendFails(r) \/ Refused(r)
              \/ ReadClose(r) \/ ReadBreaks(r) \/ PongFails(r)
       PROVE  SocketInv'
  <2>1. holder = r
    BY <1>1, <1>12 DEF ConnectFails, SendFails, Refused, ReadClose, ReadBreaks, PongFails,
                       Incoming, Is, Holding
  <2>2. Fails(r) /\ (Disconnect \/ UNCHANGED <<auth, work, wire>>)
    BY <1>12 DEF ConnectFails, SendFails, Refused, ReadClose, ReadBreaks, PongFails, Broken,
                 server
  <2>3. QED
    BY <1>11, <2>1, <2>2
<1>13. ASSUME NEW r \in Request, Is(r, "reading"), wire # << >>,
              UNCHANGED <<auth, dead>>
       PROVE  holder = r /\ auth' = AuthOf[r] /\ ~dead' /\ auth' # NoAuth
  BY <1>0, <1>1, <1>13 DEF SocketInv, Is, Holding
<1>14. ASSUME NEW r \in Request, ReadEvent(r) PROVE SocketInv'
  <2>1. auth' # NoAuth /\ UNCHANGED <<auth, dead, pc>>
    BY <1>13, <1>14 DEF ReadEvent, Incoming
  <2>2. QED
    BY <2>1 DEF SocketInv
<1>15. ASSUME NEW r \in Request, ReadLast(r) PROVE SocketInv'
  <2>1. holder = r /\ auth' = AuthOf[r] /\ ~dead' /\ auth' # NoAuth
    BY <1>13, <1>15 DEF ReadLast, Incoming
  <2>2. Become(r, "yielded") \/ Become(r, "returned")
    BY <1>15 DEF ReadLast
  <2>3. {"yielded", "returned"} \subseteq Point
    BY DEF Point, Ended
  <2>4. QED
    BY <2>1, <2>2, <2>3, SocketMoves
<1>16. ASSUME NEW r \in Request, ReadError(r) PROVE SocketInv'
  <2>1. holder = r /\ auth' # NoAuth /\ Fails(r)
    BY <1>13, <1>16 DEF ReadError, Incoming
  <2>2. PICK at \in {"erred", "failed"} : Become(r, at) /\ (at = "erred" => r \in Streamed)
    BY <2>1, FailsTo
  <2>3. at \in Point
    BY DEF Point, Ended
  <2>4. QED
    BY <2>1, <2>2, <2>3, SocketMoves
<1>17. CASE ServerSends \/ ServerFinishes \/ ServerCloses
  <2>1. auth # NoAuth /\ UNCHANGED <<auth, dead, pc>>
    BY <1>2, <1>17 DEF ServerSends, ServerFinishes, ServerCloses
  <2>2. QED
    BY <2>1 DEF SocketInv
<1>18. CASE Ages \/ UNCHANGED vars
  <2>1. UNCHANGED <<auth, dead, pc, work, wire>>
    BY <1>18 DEF Ages, vars, server
  <2>2. QED
    BY <2>1 DEF SocketInv
<1>19. QED
  BY <1>5, <1>6, <1>7, <1>8, <1>9, <1>10, <1>12, <1>14, <1>15, <1>16, <1>17, <1>18
     DEF Next, Goes

----------------------------------------------------------------------------
(* What each kind of step does to the requests on the socket. *)
LEMMA SentOnSocket ==
  ASSUME TypeOK, NEW r \in Request, work' = Append(work, r), wire' = wire
  PROVE  \A q : OnSocket(q)' => OnSocket(q) \/ q = r
<1>1. /\ DOMAIN work = 1 .. Len(work) /\ Len(work) \in Nat
      /\ DOMAIN work' = 1 .. Len(work) + 1
      /\ \A i \in DOMAIN work : work'[i] = work[i]
      /\ work'[Len(work) + 1] = r
  BY AppendFacts DEF TypeOK
<1>2. \A i \in DOMAIN work' : i \in DOMAIN work \/ i = Len(work) + 1
  BY <1>1
<1>3. QED
  BY <1>1, <1>2 DEF OnSocket

LEMMA TakenOffSocket ==
  ASSUME TypeOK, wire # << >>, wire' = Tail(wire), work' = work
  PROVE  \A q : OnSocket(q)' => OnSocket(q)
<1>1. /\ DOMAIN wire' = 1 .. Len(wire) - 1
      /\ \A i \in 1 .. Len(wire) - 1 : wire'[i] = wire[i + 1] /\ i + 1 \in DOMAIN wire
  BY TailFacts DEF TypeOK
<1>2. QED
  BY <1>1 DEF OnSocket

LEMMA AnsweredOnSocket ==
  ASSUME TypeOK, NEW frame \in Frame, Put(frame),
         frame.of = NoRequest \/ (work # << >> /\ frame.of = Head(work)),
         work' = work \/ (work # << >> /\ work' = Tail(work))
  PROVE  \A q \in Request : OnSocket(q)' => OnSocket(q)
<1>1. /\ DOMAIN wire = 1 .. Len(wire) /\ Len(wire) \in Nat
      /\ DOMAIN wire' = 1 .. Len(wire) + 1
      /\ \A i \in DOMAIN wire : wire'[i] = wire[i]
      /\ wire'[Len(wire) + 1] = frame
  BY AppendFacts DEF TypeOK, Put
<1>2. work # << >> => Head(work) = work[1] /\ 1 \in DOMAIN work
  BY TailFacts DEF TypeOK
<1>3. \A i \in DOMAIN work' : \E j \in DOMAIN work : work'[i] = work[j]
  <2>1. CASE work' = work
    BY <2>1
  <2>2. CASE work # << >> /\ work' = Tail(work)
    <3>1. /\ DOMAIN work' = 1 .. Len(work) - 1
          /\ \A i \in 1 .. Len(work) - 1 : work'[i] = work[i + 1] /\ i + 1 \in DOMAIN work
      BY <2>2, TailFacts DEF TypeOK
    <3>2. QED
      BY <3>1
  <2>3. QED
    BY <2>1, <2>2
<1>4. SUFFICES ASSUME NEW q \in Request, OnSocket(q)' PROVE OnSocket(q)
  OBVIOUS
<1>5. CASE \E i \in DOMAIN work' : work'[i] = q
  BY <1>3, <1>5 DEF OnSocket
<1>6. CASE \E i \in DOMAIN wire' : wire'[i].of = q
  <2>1. PICK i \in DOMAIN wire' : wire'[i].of = q
    BY <1>6
  <2>2. CASE i \in DOMAIN wire
    BY <1>1, <2>1, <2>2 DEF OnSocket
  <2>3. CASE i = Len(wire) + 1
    <3>1. frame.of = q /\ q # NoRequest
      BY <1>1, <2>1, <2>3, WsAssumption
    <3>2. QED
      BY <1>2, <3>1 DEF OnSocket
  <2>4. QED
    BY <1>1, <2>1, <2>2, <2>3
<1>7. QED
  BY <1>4, <1>5, <1>6 DEF OnSocket

(* The order of the frames, one step per change of the socket. *)
LEMMA ServerStep == TypeOK /\ ServerInv /\ LeftInv /\ [Next]_vars => ServerInv'
<1> SUFFICES ASSUME TypeOK, ServerInv, LeftInv, [Next]_vars PROVE ServerInv'
  OBVIOUS
<1>0. /\ \A i, j \in DOMAIN work : work[i] = work[j] => i = j
      /\ \A i \in DOMAIN wire : wire[i].kind \in {"last", "error"} =>
           /\ \A j \in DOMAIN wire : j > i => wire[j].of # wire[i].of
           /\ \A j \in DOMAIN work : work[j] # wire[i].of
  BY DEF ServerInv
<1>1. CASE UNCHANGED <<work, wire>>
  BY <1>1 DEF ServerInv
<1>2. CASE Disconnect
  BY <1>2 DEF ServerInv, Disconnect
<1>3. ASSUME NEW r \in Request, Send(r) PROVE ServerInv'
  <2>1. /\ DOMAIN work = 1 .. Len(work) /\ Len(work) \in Nat
        /\ DOMAIN work' = 1 .. Len(work) + 1
        /\ \A i \in DOMAIN work : work'[i] = work[i]
        /\ work'[Len(work) + 1] = r
    BY <1>3, AppendFacts DEF TypeOK, Send
  <2>2. ~OnSocket(r)
    BY <1>3 DEF Send, Is, LeftInv, OnceSent, Ended
  <2>3. \A i \in DOMAIN work : work[i] # r
    BY <2>2 DEF OnSocket
  <2>4. \A i \in DOMAIN wire : wire[i].of # r
    BY <2>2 DEF OnSocket
  <2>5. \A i \in DOMAIN work' : i \in DOMAIN work \/ i = Len(work) + 1
    BY <2>1
  <2>6. \A i, j \in DOMAIN work' : work'[i] = work'[j] => i = j
    BY <1>0, <2>1, <2>3, <2>5
  <2>7. wire' = wire
    BY <1>3 DEF Send
  <2>8. \A i \in DOMAIN wire : wire[i].kind \in {"last", "error"} =>
          \A j \in DOMAIN work' : work'[j] # wire[i].of
    BY <1>0, <2>1, <2>4, <2>5
  <2>9. QED
    BY <1>0, <2>6, <2>7, <2>8 DEF ServerInv
<1>4. ASSUME NEW r \in Request, Take(r), wire # << >> PROVE ServerInv'
  <2>1. /\ DOMAIN wire' = 1 .. Len(wire) - 1 /\ Len(wire) \in Nat
        /\ \A i \in 1 .. Len(wire) - 1 : wire'[i] = wire[i + 1] /\ i + 1 \in DOMAIN wire
    BY <1>4, TailFacts DEF TypeOK, Take
  <2>2. work' = work
    BY <1>4 DEF Take
  <2>3. ASSUME NEW i \in DOMAIN wire', wire'[i].kind \in {"last", "error"}
        PROVE  /\ \A j \in DOMAIN wire' : j > i => wire'[j].of # wire'[i].of
               /\ \A j \in DOMAIN work : work[j] # wire'[i].of
    <3>1. wire'[i] = wire[i + 1] /\ i + 1 \in DOMAIN wire
      BY <2>1
    <3>2. \A j \in DOMAIN wire' :
            j > i => j + 1 > i + 1 /\ j + 1 \in DOMAIN wire /\ wire'[j] = wire[j + 1]
      BY <2>1
    <3>3. QED
      BY <1>0, <2>3, <3>1, <3>2
  <2>4. QED
    BY <1>0, <2>2, <2>3 DEF ServerInv
<1>5. ASSUME NEW frame \in Frame, Put(frame), frame.of = NoRequest, frame.kind = "close",
             work' = work
      PROVE  ServerInv'
  <2>1. /\ DOMAIN wire = 1 .. Len(wire) /\ Len(wire) \in Nat
        /\ DOMAIN wire' = 1 .. Len(wire) + 1
        /\ \A i \in DOMAIN wire : wire'[i] = wire[i]
        /\ wire'[Len(wire) + 1] = frame
    BY <1>5, AppendFacts DEF TypeOK, Put
  <2>2. \A i \in DOMAIN wire' : i \in DOMAIN wire \/ i = Len(wire) + 1
    BY <2>1
  <2>3. \A i \in DOMAIN wire : wire[i] \in Frame
    BY <2>1 DEF TypeOK
  <2>4. \A i \in DOMAIN wire : wire[i].kind \in {"last", "error"} => wire[i].of # NoRequest
    BY <2>3, FrameFacts, WsAssumption
  <2>5. QED
    BY <1>0, <1>5, <2>1, <2>2, <2>4 DEF ServerInv
<1>6. ASSUME NEW frame \in Frame, Put(frame), work # << >>, frame.of = Head(work),
             frame.kind \notin {"last", "error"}, work' = work
      PROVE  ServerInv'
  <2>1. /\ DOMAIN wire = 1 .. Len(wire) /\ Len(wire) \in Nat
        /\ DOMAIN wire' = 1 .. Len(wire) + 1
        /\ \A i \in DOMAIN wire : wire'[i] = wire[i]
        /\ wire'[Len(wire) + 1] = frame
    BY <1>6, AppendFacts DEF TypeOK, Put
  <2>2. \A i \in DOMAIN wire' : i \in DOMAIN wire \/ i = Len(wire) + 1
    BY <2>1
  <2>3. frame.of = work[1] /\ 1 \in DOMAIN work
    BY <1>6, TailFacts DEF TypeOK
  <2>4. QED
    BY <1>0, <1>6, <2>1, <2>2, <2>3 DEF ServerInv
<1>7. ASSUME NEW frame \in Frame, Put(frame), work # << >>, frame.of = Head(work),
             work' = Tail(work)
      PROVE  ServerInv'
  <2>1. /\ DOMAIN wire = 1 .. Len(wire) /\ Len(wire) \in Nat
        /\ DOMAIN wire' = 1 .. Len(wire) + 1
        /\ \A i \in DOMAIN wire : wire'[i] = wire[i]
        /\ wire'[Len(wire) + 1] = frame
    BY <1>7, AppendFacts DEF TypeOK, Put
  <2>2. /\ frame.of = work[1] /\ 1 \in DOMAIN work /\ Len(work) \in Nat
        /\ DOMAIN work' = 1 .. Len(work) - 1
        /\ \A i \in 1 .. Len(work) - 1 : work'[i] = work[i + 1] /\ i + 1 \in DOMAIN work
    BY <1>7, TailFacts DEF TypeOK
  <2>3. \A i, j \in DOMAIN work' : work'[i] = work'[j] => i = j
    <3>1. SUFFICES ASSUME NEW i \in DOMAIN work', NEW j \in DOMAIN work', work'[i] = work'[j]
                   PROVE  i = j
      OBVIOUS
    <3>2. work[i + 1] = work[j + 1] /\ i + 1 \in DOMAIN work /\ j + 1 \in DOMAIN work
      BY <2>2, <3>1
    <3>3. i + 1 = j + 1
      BY <1>0, <3>2
    <3>4. i \in 1 .. Len(work) - 1 /\ j \in 1 .. Len(work) - 1
      BY <2>2
    <3>5. QED
      BY <2>2, <3>3, <3>4
  <2>4. \A j \in DOMAIN work' : \E k \in DOMAIN work : k # 1 /\ work'[j] = work[k]
    <3>1. SUFFICES ASSUME NEW j \in DOMAIN work'
                   PROVE  \E k \in DOMAIN work : k # 1 /\ work'[j] = work[k]
      OBVIOUS
    <3>2. j + 1 \in DOMAIN work /\ j + 1 # 1 /\ work'[j] = work[j + 1]
      BY <2>2
    <3>3. QED
      BY <3>2
  <2>5. \A j \in DOMAIN work' : work'[j] # frame.of
    BY <1>0, <2>2, <2>4
  <2>6. ASSUME NEW i \in DOMAIN wire', wire'[i].kind \in {"last", "error"}
        PROVE  /\ \A j \in DOMAIN wire' : j > i => wire'[j].of # wire'[i].of
               /\ \A j \in DOMAIN work' : work'[j] # wire'[i].of
    <3>1. CASE i = Len(wire) + 1
      BY <2>1, <2>5, <3>1
    <3>2. CASE i \in DOMAIN wire
      <4>1. wire[i].kind \in {"last", "error"} /\ wire'[i] = wire[i]
        BY <2>1, <2>6, <3>2
      <4>2. \A j \in DOMAIN work : work[j] # wire[i].of
        BY <1>0, <3>2, <4>1
      <4>3. \A j \in DOMAIN wire' : j \in DOMAIN wire \/ j = Len(wire) + 1
        BY <2>1
      <4>4. frame.of # wire[i].of
        BY <2>2, <4>2
      <4>5. \A j \in DOMAIN wire' : j > i => wire'[j].of # wire[i].of
        BY <1>0, <2>1, <3>2, <4>1, <4>3, <4>4
      <4>6. QED
        BY <2>4, <4>1, <4>2, <4>5
    <3>3. QED
      BY <2>1, <3>1, <3>2
  <2>7. QED
    BY <2>3, <2>6 DEF ServerInv
<1>8. ASSUME NEW r \in Request,
             \/ Ask(r) \/ Drop(r) \/ Lock(r) \/ Reuse(r) \/ Connect(r) \/ ConnectFails(r)
             \/ StreamEnds(r) \/ StreamFails(r) \/ PongFails(r)
      PROVE  ServerInv'
  <2>1. UNCHANGED <<work, wire>>
    BY <1>8 DEF Ask, Drop, Lock, Reuse, Connect, ConnectFails, StreamEnds, StreamFails,
                PongFails, server
  <2>2. QED
    BY <1>1, <2>1
<1>9. ASSUME NEW r \in Request,
             LetGo(r) \/ SendFails(r) \/ Refused(r) \/ ReadClose(r) \/ ReadBreaks(r)
      PROVE  ServerInv'
  <2>1. Disconnect \/ UNCHANGED <<work, wire>>
    BY <1>9 DEF LetGo, SendFails, Refused, ReadClose, ReadBreaks, Broken, server
  <2>2. QED
    BY <1>1, <1>2, <2>1
<1>10. ASSUME NEW r \in Request, ReadEvent(r) \/ ReadLast(r) \/ ReadError(r) PROVE ServerInv'
  BY <1>4, <1>10 DEF ReadEvent, ReadLast, ReadError, Incoming
<1>11. CASE ServerSends
  <2>1. PICK kind \in {"event", "unreadable"} : Put([of |-> Head(work), kind |-> kind])
    BY <1>11 DEF ServerSends
  <2>2. Head(work) \in Request /\ work # << >> /\ work' = work
    BY <1>11, TailFacts DEF ServerSends, TypeOK
  <2>3. QED
    BY <1>6, <2>1, <2>2, FrameFacts
<1>12. CASE ServerFinishes
  <2>1. PICK kind \in {"last", "error"} : Put([of |-> Head(work), kind |-> kind])
    BY <1>12 DEF ServerFinishes
  <2>2. Head(work) \in Request /\ work # << >> /\ work' = Tail(work)
    BY <1>12, TailFacts DEF ServerFinishes, TypeOK
  <2>3. QED
    BY <1>7, <2>1, <2>2, FrameFacts
<1>13. CASE ServerCloses
  BY <1>5, <1>13, FrameFacts DEF ServerCloses
<1>14. CASE Ages \/ UNCHANGED vars
  <2>1. UNCHANGED <<work, wire>>
    BY <1>14 DEF Ages, vars, server
  <2>2. QED
    BY <1>1, <2>1
<1>15. QED
  BY <1>3, <1>8, <1>9, <1>10, <1>11, <1>12, <1>13, <1>14 DEF Next, Goes

----------------------------------------------------------------------------
LEMMA BlamedStays == ASSUME TypeOK, Next PROVE \A key : Blamed(key) => Blamed(key)'
BY EndedStays DEF Blamed, Ended

(* The head of the wire, when the reader is given it: it is the reader's   *)
(* own, or left by one that ended where one of these credentials failed.   *)
LEMMA HeadIsOwned ==
  ASSUME WsInv, NEW r \in Request, Is(r, "reading"), wire # << >>, Head(wire).kind # "close"
  PROVE  /\ Head(wire).of \in Request
         /\ Head(wire).of # r =>
              /\ pc[Head(wire).of] \in Ended
              /\ AuthOf[Head(wire).of] = AuthOf[r]
              /\ Blamed(AuthOf[r])
<1> DEFINE q == Head(wire).of
<1>1. Head(wire) \in Frame /\ Head(wire) = wire[1] /\ 1 \in DOMAIN wire
  BY TailFacts DEF WsInv, TypeOK
<1>2. q \in Request /\ OnSocket(q)
  BY <1>1, FrameFacts DEF OnSocket
<1>3. /\ AuthOf[q] = auth /\ auth = AuthOf[r]
      /\ pc[q] \in OnceSent
      /\ pc[q] \notin {"reading", "erred"} => Blamed(AuthOf[q])
  BY <1>2 DEF WsInv, LeftInv, SocketInv, Is
<1>4. q # r => pc[q] \notin Holding
  BY <1>2 DEF WsInv, MutexInv, Is, Holding
<1>5. q # r => pc[q] \in Ended /\ pc[q] \notin {"reading", "erred"}
  BY <1>3, <1>4 DEF Holding, Ended, OnceSent
<1>6. QED
  BY <1>2, <1>3, <1>5

(* One request moves, while nothing is added to the socket. *)
LEMMA LeftMoves ==
  ASSUME TypeOK, LeftInv, Next, NEW r \in Request, NEW at \in Point, Become(r, at),
         auth' = auth, \A q \in Request : OnSocket(q)' => OnSocket(q),
         OnSocket(r)' =>
           at \in OnceSent /\ (at \in {"reading", "erred"} \/ Blamed(AuthOf[r])')
  PROVE  LeftInv'
<1>1. pc'[r] = at /\ \A d \in Request : d # r => pc'[d] = pc[d]
  BY TypeOf DEF Become
<1>2. SUFFICES ASSUME NEW q \in Request, OnSocket(q)'
               PROVE  /\ AuthOf[q] = auth'
                      /\ pc'[q] \in OnceSent
                      /\ pc'[q] \notin {"reading", "erred"} => Blamed(AuthOf[q])'
  BY DEF LeftInv
<1>3. /\ AuthOf[q] = auth
      /\ pc[q] \in OnceSent
      /\ pc[q] \notin {"reading", "erred"} => Blamed(AuthOf[q])
  BY <1>2 DEF LeftInv
<1>4. QED
  BY <1>1, <1>2, <1>3, BlamedStays

LEMMA LeftStep == WsInv /\ [Next]_vars => LeftInv'
<1> SUFFICES ASSUME WsInv, [Next]_vars PROVE LeftInv'
  OBVIOUS
<1>0. TypeOK /\ MutexInv /\ SocketInv /\ ServerInv /\ LeftInv
  BY DEF WsInv
<1>1. CASE UNCHANGED <<auth, work, wire, pc>>
  BY <1>0, <1>1 DEF LeftInv, OnSocket, Blamed
<1>2. CASE UNCHANGED vars
  BY <1>1, <1>2 DEF vars, server
<1>3. SUFFICES ASSUME Next PROVE LeftInv'
  BY <1>2
<1>4. CASE work' = << >> /\ wire' = << >>
  BY <1>4 DEF LeftInv, OnSocket
<1>5. ASSUME NEW r \in Request, NEW at \in Point, Become(r, at),
             UNCHANGED <<auth, work, wire>>,
             pc[r] \notin OnceSent \/ at \in {"dropped", "failed", "erred"}
      PROVE  LeftInv'
  <2>1. \A q \in Request : OnSocket(q)' => OnSocket(q)
    BY <1>5 DEF OnSocket
  <2>2. pc'[r] = at
    BY <1>0, <1>5, TypeOf DEF Become
  <2>3. at \in {"dropped", "failed"} => Blamed(AuthOf[r])'
    BY <2>2 DEF Blamed
  <2>4. OnSocket(r) => pc[r] \in OnceSent
    BY <1>0 DEF LeftInv
  <2>5. QED
    BY <1>0, <1>3, <1>5, <2>1, <2>3, <2>4, LeftMoves DEF OnceSent, Ended
<1>6. {"waiting", "locked", "sending", "connecting", "dropped", "failed", "erred"} \subseteq Point
  BY DEF Point, Ended
<1>f. ASSUME NEW r \in Request, Fails(r), UNCHANGED <<auth, work, wire>> PROVE LeftInv'
  BY <1>5, <1>6, <1>f, FailsTo
<1>7. ASSUME NEW r \in Request,
             \/ Ask(r) \/ Lock(r) \/ Reuse(r) \/ ConnectFails(r) \/ Drop(r) \/ PongFails(r)
             \/ StreamFails(r)
      PROVE  LeftInv'
  <2>1. UNCHANGED <<auth, work, wire>>
    BY <1>7 DEF Ask, Lock, Reuse, ConnectFails, Drop, PongFails, StreamFails, server
  <2>2. CASE Ask(r)
    BY <1>5, <1>6, <2>1, <2>2 DEF Ask, Is, OnceSent, Ended
  <2>3. CASE Lock(r)
    BY <1>5, <1>6, <2>1, <2>3 DEF Lock, Is, OnceSent, Ended
  <2>4. CASE Reuse(r)
    BY <1>5, <1>6, <2>1, <2>4 DEF Reuse, Is, OnceSent, Ended
  <2>5. CASE ConnectFails(r) \/ PongFails(r)
    BY <1>f, <2>1, <2>5 DEF ConnectFails, PongFails
  <2>6. CASE Drop(r) \/ StreamFails(r)
    BY <1>5, <1>6, <2>1, <2>6 DEF Drop, StreamFails
  <2>7. QED
    BY <1>7, <2>2, <2>3, <2>4, <2>5, <2>6
<1>8. ASSUME NEW r \in Request, LetGo(r) PROVE LeftInv'
  BY <1>4, <1>8 DEF LetGo, Disconnect
<1>9. ASSUME NEW r \in Request, Connect(r) PROVE LeftInv'
  <2>1. work' = << >> /\ wire' = << >>
    BY <1>0, <1>9 DEF Connect, Is, SocketInv, server
  <2>2. QED
    BY <1>4, <2>1
<1>10. ASSUME NEW r \in Request, Send(r) PROVE LeftInv'
  <2>1. pc'[r] = "reading" /\ \A d \in Request : d # r => pc'[d] = pc[d]
    BY <1>0, <1>10, TypeOf DEF Send, Become
  <2>2. AuthOf[r] = auth /\ auth' = auth
    BY <1>0, <1>10 DEF Send, SocketInv, Is
  <2>3. \A q : OnSocket(q)' => OnSocket(q) \/ q = r
    BY <1>0, <1>10, SentOnSocket DEF Send
  <2>4. QED
    BY <1>0, <1>3, <2>1, <2>2, <2>3, BlamedStays DEF LeftInv, OnceSent
<1>11. ASSUME NEW r \in Request, SendFails(r) \/ Refused(r) \/ ReadClose(r) \/ ReadBreaks(r)
       PROVE  LeftInv'
  <2>1. Fails(r) /\ (Disconnect \/ UNCHANGED <<auth, work, wire>>)
    BY <1>11 DEF SendFails, Refused, ReadClose, ReadBreaks, Broken, server
  <2>2. QED
    BY <1>4, <1>f, <2>1 DEF Disconnect
<1>12. ASSUME NEW r \in Request, ReadEvent(r) PROVE LeftInv'
  <2>1. \A q : OnSocket(q)' => OnSocket(q)
    BY <1>0, <1>12, TakenOffSocket DEF ReadEvent, Incoming, Take
  <2>2. UNCHANGED <<auth, pc>>
    BY <1>12 DEF ReadEvent
  <2>3. QED
    BY <1>0, <2>1, <2>2 DEF LeftInv, Blamed
<1>13. ASSUME NEW r \in Request, ReadLast(r) PROVE LeftInv'
  <2>1. /\ Is(r, "reading") /\ wire # << >> /\ Head(wire).kind = "last"
        /\ wire' = Tail(wire) /\ work' = work /\ auth' = auth
    BY <1>13 DEF ReadLast, Incoming, Take
  <2>2. \A q : OnSocket(q)' => OnSocket(q)
    BY <1>0, <2>1, TakenOffSocket
  <2>3. CASE Head(wire).of = r
    <3>1. /\ Head(wire) = wire[1] /\ 1 \in DOMAIN wire /\ Len(wire) \in Nat
          /\ DOMAIN wire' = 1 .. Len(wire) - 1
          /\ \A i \in 1 .. Len(wire) - 1 : wire'[i] = wire[i + 1] /\ i + 1 \in DOMAIN wire
      BY <1>0, <2>1, TailFacts DEF TypeOK
    <3>2. /\ \A j \in DOMAIN wire : j > 1 => wire[j].of # r
          /\ \A j \in DOMAIN work : work[j] # r
      BY <1>0, <2>1, <2>3, <3>1 DEF ServerInv
    <3>3. \A i \in DOMAIN wire' : wire'[i].of # r
      <4>1. \A i \in DOMAIN wire' : i + 1 > 1 /\ i + 1 \in DOMAIN wire /\ wire'[i] = wire[i + 1]
        BY <3>1
      <4>2. QED
        BY <3>2, <4>1
    <3>4. ~OnSocket(r)'
      BY <2>1, <3>2, <3>3 DEF OnSocket
    <3>5. PICK at \in {"yielded", "returned"} : Become(r, at)
      BY <1>13 DEF ReadLast
    <3>6. QED
      BY <1>0, <1>3, <2>1, <2>2, <3>4, <3>5, LeftMoves DEF Point, OnceSent, Ended
  <2>4. CASE Head(wire).of # r
    <3>1. Blamed(AuthOf[r])'
      BY <1>0, <1>3, <2>1, <2>4, HeadIsOwned, BlamedStays
    <3>2. PICK at \in {"yielded", "returned"} : Become(r, at)
      BY <1>13 DEF ReadLast
    <3>3. QED
      BY <1>0, <1>3, <2>1, <2>2, <3>1, <3>2, LeftMoves DEF Point, OnceSent, Ended
  <2>5. QED
    BY <2>3, <2>4
<1>14. ASSUME NEW r \in Request, StreamEnds(r) PROVE LeftInv'
  <2>1. Become(r, "returned") /\ pc[r] = "yielded" /\ UNCHANGED <<auth, work, wire>>
    BY <1>14 DEF StreamEnds, Is, server
  <2>2. \A q \in Request : OnSocket(q)' => OnSocket(q)
    BY <2>1 DEF OnSocket
  <2>3. OnSocket(r)' => Blamed(AuthOf[r])'
    BY <1>0, <1>3, <2>1, <2>2, BlamedStays DEF LeftInv
  <2>4. QED
    BY <1>0, <1>3, <2>1, <2>2, <2>3, LeftMoves DEF Point, OnceSent, Ended
<1>15. ASSUME NEW r \in Request, ReadError(r) PROVE LeftInv'
  <2>1. /\ wire # << >> /\ wire' = Tail(wire) /\ work' = work
        /\ auth' = auth /\ Fails(r)
    BY <1>15 DEF ReadError, Incoming, Take
  <2>2. \A q : OnSocket(q)' => OnSocket(q)
    BY <1>0, <2>1, TakenOffSocket
  <2>3. PICK at \in {"erred", "failed"} : Become(r, at)
    BY <2>1, FailsTo
  <2>4. at = "failed" => Blamed(AuthOf[r])'
    BY <1>0, <2>3, TypeOf DEF Become, Blamed
  <2>5. QED
    BY <1>0, <1>3, <2>1, <2>2, <2>3, <2>4, LeftMoves DEF Point, OnceSent, Ended
<1>16. CASE ServerSends \/ ServerFinishes \/ ServerCloses
  <2>1. \A q \in Request : OnSocket(q)' => OnSocket(q)
    <3>1. CASE ServerSends
      <4>1. PICK kind \in {"event", "unreadable"} : Put([of |-> Head(work), kind |-> kind])
        BY <3>1 DEF ServerSends
      <4>2. Head(work) \in Request /\ work # << >> /\ work' = work
        BY <1>0, <3>1, TailFacts DEF ServerSends, TypeOK
      <4>3. QED
        BY <1>0, <4>1, <4>2, FrameFacts, AnsweredOnSocket
    <3>2. CASE ServerFinishes
      <4>1. PICK kind \in {"last", "error"} : Put([of |-> Head(work), kind |-> kind])
        BY <3>2 DEF ServerFinishes
      <4>2. Head(work) \in Request /\ work # << >> /\ work' = Tail(work)
        BY <1>0, <3>2, TailFacts DEF ServerFinishes, TypeOK
      <4>3. QED
        BY <1>0, <4>1, <4>2, FrameFacts, AnsweredOnSocket
    <3>3. CASE ServerCloses
      BY <1>0, <3>3, FrameFacts, AnsweredOnSocket DEF ServerCloses
    <3>4. QED
      BY <1>16, <3>1, <3>2, <3>3
  <2>2. UNCHANGED <<auth, pc>>
    BY <1>16 DEF ServerSends, ServerFinishes, ServerCloses
  <2>3. QED
    BY <1>0, <2>1, <2>2 DEF LeftInv, Blamed
<1>17. CASE Ages
  BY <1>1, <1>17 DEF Ages, server
<1>18. QED
  BY <1>3, <1>7, <1>8, <1>9, <1>10, <1>11, <1>12, <1>13, <1>14, <1>15, <1>16, <1>17
     DEF Next, Goes

(* The frames a request is given, one step per action that gives one. *)
LEMMA FramesStep == WsInv /\ [Next]_vars => OwnFrames'
<1> SUFFICES ASSUME WsInv, [Next]_vars PROVE OwnFrames'
  OBVIOUS
<1>0. TypeOK /\ OwnFrames
  BY DEF WsInv
<1>1. CASE UNCHANGED vars
  BY <1>0, <1>1 DEF vars, OwnFrames
<1>2. SUFFICES ASSUME Next PROVE OwnFrames'
  BY <1>1
<1>3. \A r \in Request : \A q \in got[r] \ {r} :
        q \in Request /\ pc[q] \in Ended /\ AuthOf[q] = AuthOf[r] /\ Blamed(AuthOf[r])
  BY <1>0 DEF OwnFrames, Blamed, TypeOK
<1>4. ASSUME NEW r \in Request, NEW q \in got[r] \ {r}
      PROVE  pc'[q] \in Ended /\ AuthOf[q] = AuthOf[r] /\ Blamed(AuthOf[r])'
  BY <1>0, <1>2, <1>3, EndedStays, BlamedStays
<1>5. CASE got' = got
  BY <1>4, <1>5 DEF OwnFrames, Blamed
<1>6. ASSUME NEW r \in Request, Is(r, "reading"), wire # << >>, Head(wire).kind # "close", Given(r)
      PROVE  OwnFrames'
  <2>1. /\ got'[r] = got[r] \cup {Head(wire).of}
        /\ \A d \in Request : d # r => got'[d] = got[d]
    BY <1>0, <1>6 DEF Given, TypeOK
  <2>2. Head(wire).of # r =>
          /\ pc'[Head(wire).of] \in Ended
          /\ AuthOf[Head(wire).of] = AuthOf[r]
          /\ Blamed(AuthOf[r])'
    BY <1>0, <1>2, <1>6, HeadIsOwned, EndedStays, BlamedStays
  <2>3. QED
    BY <1>4, <2>1, <2>2 DEF OwnFrames, Blamed
<1>7. ASSUME NEW r \in Request, ReadEvent(r) \/ ReadLast(r) PROVE OwnFrames'
  BY <1>6, <1>7 DEF ReadEvent, ReadLast, Incoming
<1>8. ASSUME NEW r \in Request,
             \/ Ask(r) \/ Drop(r) \/ Lock(r) \/ Reuse(r) \/ LetGo(r) \/ Connect(r)
             \/ ConnectFails(r) \/ Send(r) \/ SendFails(r) \/ Refused(r) \/ StreamEnds(r)
             \/ StreamFails(r) \/ ReadError(r) \/ ReadClose(r) \/ ReadBreaks(r) \/ PongFails(r)
      PROVE  OwnFrames'
  BY <1>5, <1>8 DEF Ask, Drop, Lock, Reuse, LetGo, Connect, ConnectFails, Send, SendFails,
                    Refused, StreamEnds, StreamFails, ReadError, ReadClose, ReadBreaks, PongFails
<1>9. CASE Ages \/ ServerSends \/ ServerFinishes \/ ServerCloses
  BY <1>5, <1>9 DEF Ages, ServerSends, ServerFinishes, ServerCloses
<1>10. QED
  BY <1>2, <1>7, <1>8, <1>9 DEF Next, Goes

LEMMA WsStep == WsInv /\ [Next]_vars => WsInv'
BY TypeStep, MutexStep, SocketStep, ServerStep, LeftStep, FramesStep DEF WsInv

(* Every variable keeps its type (responses_ws.rs:47-66). *)
THEOREM WsTyped == Spec => []TypeOK
<1>1. WsInv => TypeOK
  BY DEF WsInv
<1>2. QED
  BY <1>1, InitWs, WsStep, PTL DEF Spec

(* For any requests with any credentials, and responses of any length, a   *)
(* request is given its own frames, or those that a request with the same  *)
(* credentials left behind; never those of one that is under way           *)
(* (responses_ws.rs:100-118, :207-230).                                    *)
THEOREM FramesAreOwn == Spec => []OwnFrames
<1>1. WsInv => OwnFrames
  BY DEF WsInv
<1>2. QED
  BY <1>1, InitWs, WsStep, PTL DEF Spec

(* complete leaves no socket in the cache that it saw closed or broken,    *)
(* but for the pong that cannot be sent (responses_ws.rs:142-181).         *)
THEOREM CompleteHealsAlways == Spec => CompleteHeals
<1> DEFINE Healed == \A r \in Request \ Streamed :
       (pc[r] \notin Ended /\ pc'[r] \in {"returned", "failed"} /\ ~PongFails(r)) => (~dead)'
<1>1. WsInv /\ [Next]_vars => [Healed]_vars
  <2> SUFFICES ASSUME WsInv, Next, NEW r \in Request \ Streamed,
                      pc[r] \notin Ended, pc'[r] \in {"returned", "failed"}, ~PongFails(r)
               PROVE  (~dead)'
    OBVIOUS
  <2>0. pc \in [Request -> Point] /\ SocketInv /\ pc'[r] # pc[r]
    BY TypeOf DEF WsInv, Ended
  <2>1. ASSUME NEW q \in Request, Ask(q) \/ Lock(q) \/ Reuse(q) \/ LetGo(q) \/ Connect(q)
                                  \/ Send(q) \/ Drop(q) \/ ReadEvent(q)
        PROVE  FALSE
    BY <2>0, <2>1 DEF Ask, Lock, Reuse, LetGo, Connect, Send, Drop, ReadEvent, Become
  <2>2. ASSUME NEW q \in Request,
               ConnectFails(q) \/ ReadLast(q) \/ StreamEnds(q) \/ ReadError(q)
        PROVE  (~dead)'
    <3>1. q = r
      BY <2>0, <2>2 DEF ConnectFails, ReadLast, StreamEnds, ReadError, Fails, Become
    <3>2. pc[r] \in {"connecting", "reading", "yielded"} /\ dead' = dead
      BY <2>2, <3>1 DEF ConnectFails, ReadLast, StreamEnds, ReadError, Incoming, Is
    <3>3. QED
      BY <2>0, <3>2 DEF SocketInv
  <2>3. ASSUME NEW q \in Request,
               SendFails(q) \/ Refused(q) \/ ReadClose(q) \/ ReadBreaks(q) \/ PongFails(q)
        PROVE  (~dead)'
    <3>1. q = r
      BY <2>0, <2>3 DEF SendFails, Refused, ReadClose, ReadBreaks, PongFails, Broken, Fails, Become
    <3>2. Disconnect
      BY <2>3, <3>1 DEF SendFails, Refused, ReadClose, ReadBreaks, Broken
    <3>3. QED
      BY <3>2 DEF Disconnect
  <2>4. ASSUME NEW q \in Request, StreamFails(q) PROVE FALSE
    BY <2>0, <2>4 DEF StreamFails, Is, Become, SocketInv
  <2>5. CASE Ages \/ ServerSends \/ ServerFinishes \/ ServerCloses
    BY <2>0, <2>5 DEF Ages, ServerSends, ServerFinishes, ServerCloses
  <2>6. QED
    BY <2>1, <2>2, <2>3, <2>4, <2>5 DEF Next, Goes
<1>2. QED
  BY <1>1, InitWs, WsStep, PTL DEF Spec, CompleteHeals

=============================================================================
