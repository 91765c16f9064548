------------------------ MODULE ProviderStreamProofs ------------------------
(***************************************************************************)
(* Proofs about ProviderStream, for any calls and responses of any length: *)
(* its type invariant, that milestones come last, that a complete response *)
(* was finished, and that the turn keeps what the server said.             *)
(***************************************************************************)
EXTENDS ProviderStream, FiniteSetTheorems, SequenceTheorems, TLAPS

Key == Call \cup {0, FirstKey}

Entry == [id : Int, arguments : Seq(Pieces)]

(* The types that the type invariant leaves out: a call is a record, and   *)
(* what was said of it so far is a sequence of pieces.                     *)
ShapeInv ==
  /\ calls \in [DOMAIN calls -> Entry]
  /\ DOMAIN calls \subseteq Key
  /\ kept = [text |-> kept.text, calls |-> kept.calls]
  /\ \A c \in Call : SaidArguments(c, parsed) \in Seq(Pieces)

(* The transport has the text that was said, and the turn has some of it   *)
(* only if there is some.                                                  *)
TextInv ==
  /\ text = SaidText(parsed)
  /\ kept.text # << >> => text # << >>

(* Both have the calls that were said, each under its own id. *)
CallsInv ==
  ToldApart(parsed) =>
    /\ calls = [c \in SaidIds(parsed) |-> [id |-> c, arguments |-> SaidArguments(c, parsed)]]
    /\ kept.calls = SaidCalls(parsed)

Completed == {"message", "response", "ended"}

(* A complete response is what was said, and at the end so is its text in  *)
(* the turn.                                                               *)
FinalInv ==
  /\ pc \in Completed =>
       /\ final.text = SaidText(parsed)
       /\ ToldApart(parsed) => final.calls = SaidCalls(parsed)
  /\ pc = "ended" => kept.text = final.text

(* The milestones that were yielded, by where the stream stands. *)
AllDeltas(n) == \A i \in 1 .. n : yielded[i] = "delta"

YieldInv ==
  /\ yielded \in Seq({"delta", "message", "response"})
  /\ pc \in {"opening", "reading", "message", "failed"} => AllDeltas(Len(yielded))
  /\ pc = "response" =>
       /\ Len(yielded) > 0 /\ yielded[Len(yielded)] = "message"
       /\ AllDeltas(Len(yielded) - 1)
  /\ pc = "ended" =>
       /\ Len(yielded) > 1 /\ yielded[Len(yielded)] = "response"
       /\ yielded[Len(yielded) - 1] = "message"
       /\ AllDeltas(Len(yielded) - 2)

StreamInv ==
  /\ TypeOK /\ ShapeInv
  /\ TextInv /\ CallsInv /\ FinalInv
  /\ YieldInv /\ MilestonesLast /\ CompleteMeansFinished

----------------------------------------------------------------------------
(* Listings: a set of numbers in order, when the next number joins it. *)

LEMMA NumbersFinite ==
  ASSUME NEW n \in Nat, NEW S \in SUBSET (1 .. n)
  PROVE  IsFiniteSet(S) /\ Cardinality(S) \in Nat
<1>1. IsFiniteSet(1 .. n)
  BY FS_Interval
<1>2. IsFiniteSet(S)
  BY <1>1, FS_Subset
<1>3. QED
  BY <1>2, FS_CardinalityType

LEMMA ListingEmpty == Listing({}) = << >>
<1>1. Cardinality({}) = 0
  BY FS_EmptySet
<1>2. QED
  BY <1>1 DEF Listing

LEMMA ListingGrows ==
  ASSUME NEW n \in Nat, NEW S \in SUBSET (1 .. n)
  PROVE  Listing(S \cup {n + 1}) = Append(Listing(S), n + 1)
<1> DEFINE T == S \cup {n + 1}
           size == Cardinality(S)
           pick(i, U) == CHOOSE k \in Ranked(i, U) : TRUE
<1>0. \A k \in S : k \in 1 .. n /\ k < n + 1 /\ k <= n + 1 /\ ~(n + 1 <= k)
  OBVIOUS
<1>1. IsFiniteSet(S) /\ size \in Nat
  BY NumbersFinite
<1>2. Cardinality(T) = size + 1
  BY <1>0, <1>1, FS_AddElement
<1>3. \A k \in S : {j \in T : j <= k} = {j \in S : j <= k}
  BY <1>0
<1>4. {j \in T : j <= n + 1} = T
  <2>1. \A j \in T : j <= n + 1
    BY <1>0
  <2>2. QED
    BY <2>1, Zenon
<1>5. \A k \in S : Cardinality({j \in S : j <= k}) \in 0 .. size
  <2> TAKE k \in S
  <2> DEFINE below == {j \in S : j <= k}
  <2>1. below \subseteq S
    OBVIOUS
  <2>2. Cardinality(below) \in Nat /\ Cardinality(below) <= size
    BY <1>1, <2>1, FS_Subset, FS_CardinalityType
  <2> QED
    BY <1>1, <2>2
<1> DEFINE rank(k, U) == Cardinality({j \in U : j <= k})
<1>20. \A k \in S : rank(k, T) = rank(k, S) /\ rank(k, S) \in 0 .. size
  BY <1>3, <1>5
<1>21. rank(n + 1, T) = size + 1
  BY <1>2, <1>4
<1>22. \A i, U : Ranked(i, U) = {k \in U : rank(k, U) = i}
  BY DEF Ranked
<1> HIDE DEF rank, size
<1>6. ASSUME NEW i \in 1 .. size PROVE Ranked(i, T) = Ranked(i, S)
  <2>1. i # size + 1
    BY <1>1
  <2>2. \A k : k \in T /\ rank(k, T) = i <=> k \in S /\ rank(k, S) = i
    BY <2>1, <1>20, <1>21
  <2>3. Ranked(i, T) = {k \in T : rank(k, T) = i} /\ Ranked(i, S) = {k \in S : rank(k, S) = i}
    BY <1>22
  <2> HIDE DEF T
  <2>4. QED
    BY <2>2, <2>3, Zenon
<1>7. Ranked(size + 1, T) = {n + 1}
  <2>1. \A k \in S : rank(k, T) # size + 1
    BY <1>1, <1>20
  <2>2. \A k : k \in T /\ rank(k, T) = size + 1 <=> k = n + 1
    BY <2>1, <1>21
  <2>3. Ranked(size + 1, T) = {k \in T : rank(k, T) = size + 1}
    BY <1>22
  <2> HIDE DEF T
  <2>4. QED
    BY <2>2, <2>3, Zenon
<1> USE DEF size
<1>8. pick(size + 1, T) = n + 1
  BY <1>7
<1>9. Listing(T) = [i \in 1 .. size + 1 |-> pick(i, T)]
  BY <1>2 DEF Listing
<1>10. Listing(S) = [i \in 1 .. size |-> pick(i, S)]
  BY DEF Listing
<1>11. \A i \in 1 .. size : pick(i, T) = pick(i, S)
  BY <1>6
<1> HIDE DEF pick, size
<1>12. Len(Listing(S)) = size /\ Listing(S) \in Seq({pick(i, S) : i \in 1 .. size})
  BY <1>1, <1>10
<1>13. Append(Listing(S), n + 1) =
         [i \in 1 .. size + 1 |-> IF i = size + 1 THEN n + 1 ELSE pick(i, S)]
  BY <1>1, <1>10, <1>12
<1>14. \A i \in 1 .. size + 1 :
         pick(i, T) = IF i = size + 1 THEN n + 1 ELSE pick(i, S)
  BY <1>1, <1>8, <1>11
<1> HIDE DEF T
<1>15. Listing(T) = Append(Listing(S), n + 1)
  BY <1>9, <1>13, <1>14, Zenon
<1>16. QED
  BY <1>15 DEF T

LEMMA ListingIsEmpty ==
  ASSUME NEW n \in Nat, NEW S \in SUBSET (1 .. n), Listing(S) = << >>
  PROVE  S = {}
<1>1. IsFiniteSet(S) /\ Cardinality(S) \in Nat
  BY NumbersFinite
<1>2. Len(Listing(S)) = Cardinality(S)
  BY <1>1 DEF Listing
<1>3. QED
  BY <1>1, <1>2, FS_EmptySet

----------------------------------------------------------------------------
(* What the server said, when one more item is counted. *)

LEMMA TextSaid ==
  ASSUME NEW n \in Nat
  PROVE  SaidText(n + 1) =
           IF IsText(n + 1) THEN Append(SaidText(n), n + 1) ELSE SaidText(n)
<1> DEFINE S == {k \in 1 .. n : IsText(k)}
           T == {k \in 1 .. n + 1 : IsText(k)}
<1>1. T = IF IsText(n + 1) THEN S \cup {n + 1} ELSE S
  <2>1. 1 .. n + 1 = (1 .. n) \cup {n + 1}
    OBVIOUS
  <2>2. QED
    BY <2>1
<1>2. S \in SUBSET (1 .. n)
  OBVIOUS
<1>3. Listing(S \cup {n + 1}) = Append(Listing(S), n + 1)
  <2> HIDE DEF S
  <2> QED
    BY <1>2, ListingGrows
<1>4. SaidText(n + 1) = Listing(T) /\ SaidText(n) = Listing(S)
  BY DEF SaidText
<1> HIDE DEF S, T
<1>5. QED
  BY <1>1, <1>3, <1>4

IsCall(c, k) == sent[k].kind = "call" /\ sent[k].of = c

LEMMA ArgumentsSaid ==
  ASSUME NEW n \in Nat, NEW c
  PROVE  SaidArguments(c, n + 1) =
           IF IsCall(c, n + 1) THEN Append(SaidArguments(c, n), n + 1)
           ELSE SaidArguments(c, n)
<1> DEFINE S == {k \in 1 .. n : IsCall(c, k)}
           T == {k \in 1 .. n + 1 : IsCall(c, k)}
<1>1. T = IF IsCall(c, n + 1) THEN S \cup {n + 1} ELSE S
  <2>1. 1 .. n + 1 = (1 .. n) \cup {n + 1}
    OBVIOUS
  <2>2. QED
    BY <2>1
<1>2. S \in SUBSET (1 .. n)
  OBVIOUS
<1>3. Listing(S \cup {n + 1}) = Append(Listing(S), n + 1)
  <2> HIDE DEF S
  <2> QED
    BY <1>2, ListingGrows
<1>4. SaidArguments(c, n + 1) = Listing(T) /\ SaidArguments(c, n) = Listing(S)
  BY DEF SaidArguments, IsCall
<1> HIDE DEF S, T
<1>5. QED
  BY <1>1, <1>3, <1>4

(* A call without arguments is one that no item spoke of. *)
LEMMA NothingSaid ==
  ASSUME NEW n \in Nat
  PROVE  /\ SaidText(n) = << >> => \A k \in 1 .. n : ~IsText(k)
         /\ \A c : (\A k \in 1 .. n : ~IsCall(c, k)) => SaidArguments(c, n) = << >>
         /\ (\A k \in 1 .. n : ~IsText(k)) => SaidText(n) = << >>
<1>1. ASSUME SaidText(n) = << >> PROVE \A k \in 1 .. n : ~IsText(k)
  <2> DEFINE S == {k \in 1 .. n : IsText(k)}
  <2>1. S \in SUBSET (1 .. n) /\ Listing(S) = << >>
    BY <1>1 DEF SaidText
  <2>2. S = {}
    <3> HIDE DEF S
    <3> QED
      BY <2>1, ListingIsEmpty
  <2>3. QED
    BY <2>2
<1>2. ASSUME NEW c, \A k \in 1 .. n : ~IsCall(c, k) PROVE SaidArguments(c, n) = << >>
  <2>1. {k \in 1 .. n : sent[k].kind = "call" /\ sent[k].of = c} = {}
    BY <1>2 DEF IsCall
  <2>2. QED
    BY <2>1, ListingEmpty DEF SaidArguments
<1>3. ASSUME \A k \in 1 .. n : ~IsText(k) PROVE SaidText(n) = << >>
  <2>1. {k \in 1 .. n : IsText(k)} = {}
    BY <1>3
  <2>2. QED
    BY <2>1, ListingEmpty DEF SaidText
<1>4. QED
  BY <1>1, <1>2, <1>3

LEMMA IdsSaid ==
  ASSUME NEW n \in Nat
  PROVE  SaidIds(n + 1) =
           IF sent[n + 1].kind \in {"call", "item"} THEN SaidIds(n) \cup {sent[n + 1].of}
           ELSE SaidIds(n)
<1>1. \A k : k \in 1 .. n + 1 <=> k \in 1 .. n \/ k = n + 1
  OBVIOUS
<1>2. \A c, m : c \in SaidIds(m) <=>
        \E k \in 1 .. m : sent[k].kind \in {"call", "item"} /\ sent[k].of = c
  BY DEF SaidIds
<1> DEFINE speaks(k) == sent[k].kind \in {"call", "item"}
<1>3. \A c : c \in SaidIds(n + 1) <=>
        c \in SaidIds(n) \/ (speaks(n + 1) /\ c = sent[n + 1].of)
  <2> TAKE c
  <2> DEFINE names(k) == speaks(k) /\ sent[k].of = c
  <2>1. c \in SaidIds(n + 1) <=> \E k \in 1 .. n + 1 : names(k)
    BY <1>2
  <2>2. c \in SaidIds(n) <=> \E k \in 1 .. n : names(k)
    BY <1>2
  <2>3. names(n + 1) <=> speaks(n + 1) /\ c = sent[n + 1].of
    OBVIOUS
  <2> HIDE DEF names, speaks
  <2>4. QED
    BY <1>1, <2>1, <2>2, <2>3
<1>4. speaks(n + 1) <=> sent[n + 1].kind \in {"call", "item"}
  OBVIOUS
<1> HIDE DEF speaks
<1>5. QED
  <2>1. CASE speaks(n + 1)
    <3>1. \A c : c \in SaidIds(n + 1) <=> c \in SaidIds(n) \cup {sent[n + 1].of}
      BY <2>1, <1>3
    <3>2. QED
      BY <3>1, <2>1, <1>4
  <2>2. CASE ~speaks(n + 1)
    <3>1. \A c : c \in SaidIds(n + 1) <=> c \in SaidIds(n)
      BY <2>2, <1>3
    <3>2. QED
      BY <3>1, <2>2, <1>4
  <2>3. QED
    BY <2>1, <2>2

LEMMA ToldSaid ==
  ASSUME NEW n \in Nat, ToldApart(n + 1)
  PROVE  ToldApart(n)
BY DEF ToldApart, NamedBy, IndexedBy

(* It is what it was while the items that count stay. *)
LEMMA SaidStays ==
  ASSUME parsed' \in Nat, \A k \in 1 .. parsed' : sent'[k] = sent[k],
         transport' = transport
  PROVE  /\ SaidText(parsed)' = SaidText(parsed')
         /\ \A c : SaidArguments(c, parsed)' = SaidArguments(c, parsed')
         /\ SaidIds(parsed)' = SaidIds(parsed')
         /\ SaidCalls(parsed)' = SaidCalls(parsed')
         /\ ToldApart(parsed)' <=> ToldApart(parsed')
<1> PICK n \in Nat : n = parsed'
  OBVIOUS
<1>0. \A k \in 1 .. n : sent'[k] = sent[k]
  OBVIOUS
<1>1. SaidText(parsed)' = SaidText(n)
  <2>1. \A k \in 1 .. n : (IsText(k))' <=> IsText(k)
    BY <1>0 DEF IsText
  <2>2. {k \in 1 .. n : (IsText(k))'} = {k \in 1 .. n : IsText(k)}
    BY <2>1
  <2>3. SaidText(parsed)' = Listing({k \in 1 .. n : (IsText(k))'})
    BY DEF SaidText, Listing, Ranked
  <2>4. QED
    BY <2>2, <2>3 DEF SaidText
<1>2. \A c : SaidArguments(c, parsed)' = SaidArguments(c, n)
  <2> TAKE c
  <2>1. {k \in 1 .. n : sent'[k].kind = "call" /\ sent'[k].of = c}
          = {k \in 1 .. n : sent[k].kind = "call" /\ sent[k].of = c}
    BY <1>0
  <2>2. SaidArguments(c, parsed)' =
          Listing({k \in 1 .. n : sent'[k].kind = "call" /\ sent'[k].of = c})
    BY DEF SaidArguments, Listing, Ranked
  <2>3. QED
    BY <2>1, <2>2 DEF SaidArguments
<1>3. SaidIds(parsed)' = SaidIds(n)
  BY <1>0 DEF SaidIds
<1>4. SaidCalls(parsed)' = SaidCalls(n)
  <2>1. SaidCalls(parsed)' = [c \in SaidIds(parsed)' |-> SaidArguments(c, parsed)']
    BY DEF SaidCalls
  <2>2. QED
    BY <2>1, <1>2, <1>3 DEF SaidCalls
<1>5. ToldApart(parsed)' <=> ToldApart(n)
  BY <1>0 DEF ToldApart, NamedBy, IndexedBy
<1>6. QED
  BY <1>1, <1>2, <1>3, <1>4, <1>5

----------------------------------------------------------------------------
(* The first states, and what a step may be. *)

LEMMA InitStream == Init => StreamInv
<1> SUFFICES ASSUME Init PROVE StreamInv
  OBVIOUS
<1> USE DEF Init
<1>1. \A S : << >> \in Seq(S)
  OBVIOUS
<1>2. DOMAIN calls = {}
  OBVIOUS
<1>3. TypeOK
  <2>1. final.text = << >> /\ kept.text = << >>
    BY DEF Nothing
  <2>2. Len(sent) = 0 /\ 0 <= MaxItems /\ sent \in Seq(Item)
    BY <1>1, StreamAssumption
  <2>3. position \in 0 .. 2 * Len(sent) /\ parsed \in 0 .. position \div 2
    BY <2>2
  <2>4. text \in Seq(Pieces) /\ final.text \in Seq(Pieces) /\ kept.text \in Seq(Pieces)
    BY <1>1, <2>1
  <2>5. transport \in {"sse", "ws"} /\ parameter \in 1 .. 2
    OBVIOUS
  <2>6. closed \in BOOLEAN
    BY Zenon
  <2>7. pc \in {"opening", "reading", "message", "response"} \cup Ended
    OBVIOUS
  <2> QED
    BY <1>2, <2>2, <2>3, <2>4, <2>5, <2>6, <2>7 DEF TypeOK
<1>4. SaidText(0) = << >> /\ \A c : SaidArguments(c, 0) = << >>
  BY NothingSaid
<1>5. SaidIds(0) = {}
  BY DEF SaidIds
<1>6. ShapeInv
  <2>1. calls \in [DOMAIN calls -> Entry]
    BY <1>2
  <2>2. kept = [text |-> kept.text, calls |-> kept.calls]
    BY DEF Nothing
  <2>3. QED
    BY <1>1, <1>2, <1>4, <2>1, <2>2 DEF ShapeInv
<1>7. TextInv
  BY <1>4 DEF TextInv, Nothing
<1>8. CallsInv
  <2>1. calls = [c \in {} |-> [id |-> c, arguments |-> SaidArguments(c, 0)]]
    OBVIOUS
  <2>2. SaidCalls(0) = << >>
    BY <1>5 DEF SaidCalls
  <2>3. QED
    BY <1>5, <2>1, <2>2 DEF CallsInv, Nothing
<1>9. FinalInv /\ CompleteMeansFinished
  BY DEF FinalInv, CompleteMeansFinished, Completed
<1>10. YieldInv /\ MilestonesLast
  BY DEF YieldInv, MilestonesLast, AllDeltas
<1>11. QED
  BY <1>3, <1>6, <1>7, <1>8, <1>9, <1>10 DEF StreamInv

(* A step that counts no item and completes nothing. *)
Quiet ==
  /\ transport' = transport /\ parsed' = parsed
  /\ \A k \in 1 .. parsed : sent'[k] = sent[k]
  /\ UNCHANGED <<text, calls, final, kept, yielded>>
  /\ closed => closed'
  /\ \/ pc' = pc
     \/ pc = "opening" /\ pc' = "reading"
     \/ pc \in {"opening", "reading"} /\ pc' = "failed"
     \/ pc' = "dropped"

LEMMA CountsFit ==
  ASSUME TypeOK
  PROVE  parsed \in Nat /\ parsed <= Len(sent) /\ Len(sent) \in Nat /\ Len(sent) <= MaxItems
<1>1. Len(sent) \in Nat /\ Len(sent) <= MaxItems
  BY DEF TypeOK
<1>2. position \in 0 .. 2 * Len(sent) /\ parsed \in 0 .. position \div 2
  BY DEF TypeOK
<1>3. position \div 2 <= Len(sent) /\ position \div 2 \in Nat
  BY <1>1, <1>2
<1>4. QED
  BY <1>1, <1>2, <1>3

LEMMA QuietSteps ==
  ASSUME TypeOK, [Next]_vars
  PROVE  \/ Quiet
         \/ TextDelta \/ ArgumentsDelta \/ OutputItem \/ OutputMessage
         \/ Skip \/ Unreadable
         \/ Done \/ ResponseCompleted \/ BodyEnds
         \/ MessageComplete \/ ResponseComplete
<1> USE DEF Quiet, StreamKept, received
<1>1. CASE ServerSends
  <2>1. PICK item \in Item : sent' = Append(sent, item)
    BY <1>1 DEF ServerSends
  <2>2. \A k \in 1 .. parsed : sent'[k] = sent[k]
    BY <2>1, CountsFit DEF TypeOK
  <2>3. QED
    BY <1>1, <2>2 DEF ServerSends
<1>2. CASE ServerCloses
  BY <1>2 DEF ServerCloses
<1>3. CASE Opens
  BY <1>3 DEF Opens
<1>4. CASE OpenWithOtherParameter
  BY <1>4 DEF OpenWithOtherParameter
<1>5. CASE Fails
  BY <1>5 DEF Fails
<1>6. CASE Chunk
  BY <1>6 DEF Chunk
<1>7. CASE SocketCloses
  BY <1>7 DEF SocketCloses, AtEnd
<1>8. CASE Dropped
  BY <1>8 DEF Dropped
<1>9. CASE UNCHANGED vars
  BY <1>9 DEF vars
<1>10. QED
  BY <1>1, <1>2, <1>3, <1>4, <1>5, <1>6, <1>7, <1>8, <1>9 DEF Next

(* The item that is handled, and what is said with it. *)
LEMMA HandledItem ==
  ASSUME TypeOK, NEW kind, Handles(kind)
  PROVE  /\ parsed \in Nat /\ parsed' = parsed + 1 /\ Piece \in Pieces
         /\ sent' = sent /\ transport' = transport /\ closed' = closed
         /\ pc = "reading"
         /\ Handled \in Item /\ Handled.kind = kind
         /\ kind = "call" => Handled.of \in Call /\ Handled.named \in BOOLEAN
         /\ kind = "item" => Handled.of \in Call /\ transport = "ws"
<1>1. /\ pc = "reading" /\ parsed < position \div 2 /\ Handled.kind = kind
      /\ parsed' = parsed + 1 /\ sent' = sent /\ transport' = transport /\ closed' = closed
  BY DEF Handles, Handled
<1>2. parsed \in Nat /\ Len(sent) \in Nat /\ Len(sent) <= MaxItems
  BY CountsFit
<1>3. position \in 0 .. 2 * Len(sent)
  BY DEF TypeOK
<1>4. position \div 2 <= Len(sent) /\ position \div 2 \in Nat
  BY <1>2, <1>3
<1>5. Piece \in 1 .. Len(sent)
  BY <1>1, <1>2, <1>4 DEF Piece
<1>6. Piece \in Pieces
  BY <1>2, <1>5, StreamAssumption DEF Pieces
<1>7. sent \in Seq(Item)
  BY DEF TypeOK
<1>8. Handled \in Item
  BY <1>5, <1>7 DEF Handled, Piece
<1>9. kind = "call" => Handled.of \in Call /\ Handled.named \in BOOLEAN
  BY <1>1, <1>8 DEF Item, Line, Event
<1>10. kind = "item" => Handled.of \in Call /\ transport = "ws"
  BY <1>1, <1>8 DEF Item, Line, Event, TypeOK
<1>11. QED
  BY <1>1, <1>2, <1>6, <1>8, <1>9, <1>10

LEMMA SaidHandled ==
  ASSUME TypeOK, NEW kind, Handles(kind)
  PROVE  /\ SaidText(parsed)' =
              IF IsText(Piece) THEN Append(SaidText(parsed), Piece) ELSE SaidText(parsed)
         /\ \A c : SaidArguments(c, parsed)' =
              IF kind = "call" /\ Handled.of = c THEN Append(SaidArguments(c, parsed), Piece)
              ELSE SaidArguments(c, parsed)
         /\ SaidIds(parsed)' =
              IF kind \in {"call", "item"} THEN SaidIds(parsed) \cup {Handled.of}
              ELSE SaidIds(parsed)
         /\ kind \notin {"call", "item"} => SaidCalls(parsed)' = SaidCalls(parsed)
         /\ ToldApart(parsed)' => ToldApart(parsed) /\ ToldApart(Piece)
         /\ kind \notin {"text", "message"} => SaidText(parsed)' = SaidText(parsed)
         /\ SaidText(parsed)' = SaidText(parsed + 1)
<1> PICK n \in Nat : n = parsed
  BY HandledItem
<1>1. parsed' = n + 1 /\ Piece = n + 1 /\ sent' = sent /\ transport' = transport
  BY HandledItem DEF Piece
<1>2. Handled = sent[n + 1] /\ Handled.kind = kind
  BY HandledItem DEF Handled
<1>3. /\ SaidText(parsed)' = SaidText(n + 1)
      /\ \A c : SaidArguments(c, parsed)' = SaidArguments(c, n + 1)
      /\ SaidIds(parsed)' = SaidIds(n + 1)
      /\ SaidCalls(parsed)' = SaidCalls(n + 1)
      /\ ToldApart(parsed)' <=> ToldApart(n + 1)
  <2>1. parsed' \in Nat /\ \A k \in 1 .. parsed' : sent'[k] = sent[k]
    BY <1>1
  <2>2. QED
    BY <2>1, <1>1, SaidStays
<1>4. SaidText(n + 1) = IF IsText(n + 1) THEN Append(SaidText(n), n + 1) ELSE SaidText(n)
  BY TextSaid
<1>5. \A c : SaidArguments(c, n + 1) =
        IF kind = "call" /\ Handled.of = c THEN Append(SaidArguments(c, n), n + 1)
        ELSE SaidArguments(c, n)
  BY <1>2, ArgumentsSaid DEF IsCall
<1>6. SaidIds(n + 1) =
        IF kind \in {"call", "item"} THEN SaidIds(n) \cup {Handled.of} ELSE SaidIds(n)
  BY <1>2, IdsSaid
<1>7. kind \notin {"call", "item"} => SaidCalls(n + 1) = SaidCalls(n)
  BY <1>5, <1>6 DEF SaidCalls
<1>8. ToldApart(n + 1) => ToldApart(n)
  BY ToldSaid
<1>9. kind \notin {"text", "message"} => ~IsText(n + 1)
  BY <1>2 DEF IsText
<1>10. QED
  BY <1>1, <1>3, <1>4, <1>5, <1>6, <1>7, <1>8, <1>9

----------------------------------------------------------------------------
(* Milestones come last, and a response is complete when it was finished. *)

LEMMA YieldStep == StreamInv /\ [Next]_vars => YieldInv' /\ MilestonesLast'
<1> SUFFICES ASSUME StreamInv, [Next]_vars PROVE YieldInv' /\ MilestonesLast'
  OBVIOUS
<1> DEFINE Kinds == {"delta", "message", "response"}
<1>0. TypeOK /\ YieldInv /\ MilestonesLast /\ yielded \in Seq(Kinds) /\ Len(yielded) \in Nat
  BY DEF StreamInv, YieldInv
<1>1. ASSUME yielded' = yielded, pc' # "response", pc' # "ended",
             pc' \in {"opening", "reading", "message", "failed"} => AllDeltas(Len(yielded))
      PROVE  YieldInv' /\ MilestonesLast'
  BY <1>0, <1>1 DEF YieldInv, MilestonesLast, AllDeltas
<1>2. ASSUME yielded' = yielded, pc' = pc PROVE YieldInv' /\ MilestonesLast'
  BY <1>0, <1>2 DEF YieldInv, MilestonesLast, AllDeltas
<1>3. ASSUME pc = "reading", pc' = pc, yielded' = Append(yielded, "delta")
      PROVE  YieldInv' /\ MilestonesLast'
  <2>1. AllDeltas(Len(yielded))
    BY <1>0, <1>3 DEF YieldInv
  <2>2. Len(yielded') = Len(yielded) + 1 /\ yielded' \in Seq(Kinds)
    BY <1>0, <1>3
  <2>3. \A i \in 1 .. Len(yielded') : yielded'[i] = "delta"
    BY <1>0, <1>3, <2>1, <2>2 DEF AllDeltas
  <2>4. DOMAIN yielded' = 1 .. Len(yielded')
    BY <2>2
  <2>5. QED
    BY <1>3, <2>2, <2>3, <2>4 DEF YieldInv, MilestonesLast, AllDeltas
<1>4. CASE Quiet
  <2>1. CASE pc' = pc
    BY <1>2, <1>4, <2>1 DEF Quiet
  <2>2. CASE pc' # pc
    <3>1. /\ yielded' = yielded /\ pc' \in {"reading", "failed", "dropped"}
          /\ pc \in {"opening", "reading"} \/ pc' = "dropped"
      BY <1>4, <2>2 DEF Quiet
    <3>2. QED
      BY <1>0, <1>1, <3>1 DEF YieldInv
  <2>3. QED
    BY <2>1, <2>2
<1>5. CASE TextDelta \/ ArgumentsDelta \/ OutputItem
  <2>1. pc = "reading" /\ pc' = pc /\ yielded' = Append(yielded, "delta")
    BY <1>5 DEF TextDelta, ArgumentsDelta, OutputItem, Handles, YieldText, YieldCall
  <2>2. QED
    BY <1>3, <2>1
<1>6. CASE OutputMessage \/ Skip
  BY <1>2, <1>6 DEF OutputMessage, Skip
<1>7. CASE Unreadable \/ Done \/ ResponseCompleted \/ BodyEnds
  <2>1. pc = "reading" /\ yielded' = yielded /\ pc' \in {"failed", "message"}
    BY <1>7 DEF Unreadable, Done, ResponseCompleted, BodyEnds, Handles, Complete
  <2>2. QED
    BY <1>0, <1>1, <2>1 DEF YieldInv
<1>8. CASE MessageComplete
  <2>1. pc = "message" /\ pc' = "response" /\ yielded' = Append(yielded, "message")
    BY <1>8 DEF MessageComplete
  <2>2. AllDeltas(Len(yielded))
    BY <1>0, <2>1 DEF YieldInv
  <2>3. Len(yielded') = Len(yielded) + 1 /\ yielded' \in Seq(Kinds)
    BY <1>0, <2>1
  <2>4. /\ yielded'[Len(yielded')] = "message"
        /\ \A i \in 1 .. Len(yielded') - 1 : yielded'[i] = "delta"
    BY <1>0, <2>1, <2>2, <2>3 DEF AllDeltas
  <2>5. YieldInv'
    BY <1>0, <2>1, <2>3, <2>4 DEF YieldInv, AllDeltas
  <2>6. DOMAIN yielded' = 1 .. Len(yielded')
    BY <2>3
  <2>7. \A i \in DOMAIN yielded' : i = Len(yielded') \/ yielded'[i] = "delta"
    BY <1>0, <2>3, <2>4, <2>6
  <2>8. QED
    BY <2>1, <2>4, <2>5, <2>7 DEF MilestonesLast
<1>9. CASE ResponseComplete
  <2>1. pc = "response" /\ pc' = "ended" /\ yielded' = Append(yielded, "response")
    BY <1>9 DEF ResponseComplete
  <2>2. /\ Len(yielded) > 0 /\ yielded[Len(yielded)] = "message"
        /\ AllDeltas(Len(yielded) - 1)
    BY <1>0, <2>1 DEF YieldInv
  <2>3. Len(yielded') = Len(yielded) + 1 /\ yielded' \in Seq(Kinds) /\ yielded' # << >>
    BY <1>0, <2>1
  <2>4. /\ yielded'[Len(yielded')] = "response" /\ yielded'[Len(yielded') - 1] = "message"
        /\ \A i \in 1 .. Len(yielded') - 2 : yielded'[i] = "delta"
    BY <1>0, <2>1, <2>2, <2>3 DEF AllDeltas
  <2>5. YieldInv'
    BY <1>0, <2>1, <2>2, <2>3, <2>4 DEF YieldInv, AllDeltas
  <2>6. DOMAIN yielded' = 1 .. Len(yielded')
    BY <2>3
  <2>7. \A i \in DOMAIN yielded' :
          \/ i = Len(yielded') \/ i = Len(yielded') - 1 \/ yielded'[i] = "delta"
    BY <1>0, <2>3, <2>4, <2>6
  <2>8. Len(yielded') > 1
    BY <1>0, <2>2, <2>3
  <2>9. \A i \in DOMAIN yielded' :
          /\ yielded'[i] = "message"  => i \in {Len(yielded') - 1, Len(yielded')}
          /\ yielded'[i] = "response" =>
               i = Len(yielded') /\ i > 1 /\ yielded'[i - 1] = "message"
    BY <2>4, <2>7, <2>8
  <2>10. QED
    BY <2>3, <2>4, <2>5, <2>9 DEF MilestonesLast
<1>10. QED
  BY <1>0, <1>4, <1>5, <1>6, <1>7, <1>8, <1>9, QuietSteps

LEMMA FinishedStep == StreamInv /\ [Next]_vars => CompleteMeansFinished'
<1> SUFFICES ASSUME StreamInv, [Next]_vars PROVE CompleteMeansFinished'
  OBVIOUS
<1>0. TypeOK /\ CompleteMeansFinished
  BY DEF StreamInv
<1>1. ASSUME pc' \notin Completed PROVE CompleteMeansFinished'
  BY <1>1 DEF CompleteMeansFinished, Completed
<1>2. ASSUME pc \in Completed, parsed' = parsed, transport' = transport, closed => closed',
             \A k \in 1 .. parsed : sent'[k] = sent[k]
      PROVE  CompleteMeansFinished'
  <2>1. parsed > 0 => parsed \in 1 .. parsed
    BY <1>0, CountsFit
  <2>2. parsed > 0 => sent'[parsed'] = sent[parsed]
    BY <1>2, <2>1
  <2>3. \/ parsed > 0 /\ sent[parsed].kind \in {"completed", "done"}
        \/ transport = "sse" /\ closed
    BY <1>0, <1>2 DEF CompleteMeansFinished, Completed
  <2>4. \/ parsed' > 0 /\ sent'[parsed'].kind \in {"completed", "done"}
        \/ transport' = "sse" /\ closed'
    BY <1>2, <2>2, <2>3
  <2>5. QED
    BY <2>4 DEF CompleteMeansFinished
<1>3. CASE Quiet
  <2>1. pc' \in Completed => pc \in Completed
    BY <1>3 DEF Quiet, Completed
  <2>2. QED
    BY <1>1, <1>2, <1>3, <2>1 DEF Quiet
<1>4. CASE TextDelta \/ ArgumentsDelta \/ OutputItem \/ OutputMessage \/ Skip \/ Unreadable
  <2>1. pc' \in {"reading", "failed"}
    BY <1>4 DEF TextDelta, ArgumentsDelta, OutputItem, OutputMessage, Skip, Unreadable, Handles
  <2>2. QED
    BY <1>1, <2>1 DEF Completed
<1>5. ASSUME NEW kind \in {"done", "completed"}, Handles(kind) PROVE CompleteMeansFinished'
  <2>1. parsed \in Nat /\ parsed' = parsed + 1 /\ sent' = sent /\ sent[parsed + 1].kind = kind
    BY <1>0, <1>5, HandledItem DEF Handled
  <2>2. parsed' > 0 /\ sent'[parsed'].kind \in {"completed", "done"}
    BY <2>1
  <2>3. QED
    BY <2>2 DEF CompleteMeansFinished
<1>6. CASE Done
  BY <1>5, <1>6 DEF Done
<1>7. CASE ResponseCompleted
  BY <1>5, <1>7 DEF ResponseCompleted
<1>8. CASE BodyEnds
  BY <1>8 DEF BodyEnds, CompleteMeansFinished
<1>9. CASE MessageComplete
  BY <1>2, <1>9 DEF MessageComplete, Completed
<1>10. CASE ResponseComplete
  BY <1>2, <1>10 DEF ResponseComplete, Completed
<1>11. QED
  BY <1>0, <1>3, <1>4, <1>6, <1>7, <1>8, <1>9, <1>10, QuietSteps

----------------------------------------------------------------------------
(* The text. *)

LEMMA SaidSame ==
  ASSUME TypeOK, parsed' = parsed, transport' = transport,
         \A k \in 1 .. parsed : sent'[k] = sent[k]
  PROVE  /\ SaidText(parsed)' = SaidText(parsed)
         /\ \A c : SaidArguments(c, parsed)' = SaidArguments(c, parsed)
         /\ SaidIds(parsed)' = SaidIds(parsed)
         /\ SaidCalls(parsed)' = SaidCalls(parsed)
         /\ ToldApart(parsed)' <=> ToldApart(parsed)
<1> PICK n \in Nat : n = parsed
  BY CountsFit
<1>1. parsed' \in Nat /\ \A k \in 1 .. parsed' : sent'[k] = sent[k]
  OBVIOUS
<1>2. /\ SaidText(parsed)' = SaidText(parsed')
      /\ \A c : SaidArguments(c, parsed)' = SaidArguments(c, parsed')
      /\ SaidIds(parsed)' = SaidIds(parsed')
      /\ SaidCalls(parsed)' = SaidCalls(parsed')
      /\ ToldApart(parsed)' <=> ToldApart(parsed')
  BY <1>1, SaidStays
<1>3. QED
  BY <1>2

LEMMA TextStep == StreamInv /\ [Next]_vars => TextInv'
<1> SUFFICES ASSUME StreamInv, [Next]_vars PROVE TextInv'
  OBVIOUS
<1>0. TypeOK /\ ShapeInv /\ TextInv /\ FinalInv /\ text \in Seq(Pieces)
  BY DEF StreamInv, TypeOK
<1>1. ASSUME SaidText(parsed)' = SaidText(parsed), text' = text,
             kept'.text = kept.text \/ kept'.text = << >> \/ kept'.text = text
      PROVE  TextInv'
  BY <1>0, <1>1 DEF TextInv
<1>2. CASE Quiet
  BY <1>0, <1>1, <1>2, SaidSame DEF Quiet
<1>3. CASE TextDelta
  <2>1. Handles("text") /\ text' = Append(text, Piece)
    BY <1>3 DEF TextDelta
  <2>2. IsText(Piece)
    BY <1>0, <2>1, HandledItem DEF IsText, Handled, Piece
  <2>3. SaidText(parsed)' = Append(SaidText(parsed), Piece)
    BY <1>0, <2>1, <2>2, SaidHandled
  <2>4. text' # << >>
    BY <1>0, <2>1
  <2>5. QED
    BY <1>0, <2>1, <2>3, <2>4 DEF TextInv
<1>4. CASE OutputMessage
  <2>1. /\ Handles("message") /\ kept' = kept
        /\ text' = IF text = << >> THEN SaidText(parsed + 1) ELSE text
    BY <1>4 DEF OutputMessage
  <2>2. SaidText(parsed)' = SaidText(parsed + 1)
    BY <1>0, <2>1, SaidHandled
  <2>3. CASE text = << >>
    BY <1>0, <2>1, <2>2, <2>3 DEF TextInv
  <2>4. CASE text # << >>
    <3>1. parsed \in Nat /\ Handled.kind = "message"
      BY <1>0, <2>1, HandledItem
    <3>2. PICK k \in 1 .. parsed : IsText(k)
      <4>1. ASSUME \A k \in 1 .. parsed : ~IsText(k) PROVE FALSE
        <5> PICK n \in Nat : n = parsed
          BY <3>1
        <5>1. SaidText(n) = << >>
          BY <4>1, NothingSaid
        <5>2. QED
          BY <1>0, <2>4, <5>1 DEF TextInv
      <4>2. QED
        BY <4>1
    <3>3. sent[k].kind \in {"text", "message"}
      BY <3>2 DEF IsText
    <3>4. ~IsText(Piece)
      BY <3>1, <3>3 DEF IsText, Handled, Piece
    <3>5. SaidText(parsed)' = SaidText(parsed)
      BY <1>0, <2>1, <3>4, SaidHandled
    <3>6. QED
      BY <1>1, <2>1, <2>4, <3>5
  <2>5. QED
    BY <2>3, <2>4
<1>5. ASSUME NEW kind \in {"call", "item", "other", "bad", "done", "completed"},
             Handles(kind), text' = text, kept'.text = kept.text
      PROVE  TextInv'
  <2>1. SaidText(parsed)' = SaidText(parsed)
    BY <1>0, <1>5, SaidHandled
  <2>2. QED
    BY <1>1, <1>5, <2>1
<1>6. CASE ArgumentsDelta \/ OutputItem
  <2>1. kept'.text = kept.text
    BY <1>0, <1>6 DEF ArgumentsDelta, OutputItem, YieldCall, ShapeInv
  <2>2. QED
    BY <1>5, <1>6, <2>1 DEF ArgumentsDelta, OutputItem
<1>7. CASE Skip \/ Unreadable \/ Done \/ ResponseCompleted
  BY <1>5, <1>7 DEF Skip, Unreadable, Done, ResponseCompleted, Complete
<1>8. CASE BodyEnds
  <2>1. text' = text /\ kept' = kept /\ parsed' = parsed /\ sent' = sent /\ transport' = transport
    BY <1>8 DEF BodyEnds, Complete
  <2>2. QED
    BY <1>0, <1>1, <2>1, SaidSame
<1>9. CASE MessageComplete
  <2>1. /\ text' = text /\ parsed' = parsed /\ sent' = sent /\ transport' = transport
        /\ pc = "message"
    BY <1>9 DEF MessageComplete
  <2>2. kept'.text = kept.text \/ kept'.text = final.text
    BY <1>0, <1>9 DEF MessageComplete, ShapeInv
  <2>3. final.text = text
    BY <1>0, <2>1 DEF FinalInv, Completed, TextInv
  <2>4. QED
    BY <1>0, <1>1, <2>1, <2>2, <2>3, SaidSame
<1>10. CASE ResponseComplete
  <2>1. /\ text' = text /\ parsed' = parsed /\ sent' = sent /\ transport' = transport
        /\ pc = "response" /\ kept'.text \in {kept.text, final.text}
    BY <1>10 DEF ResponseComplete
  <2>2. final.text = text
    BY <1>0, <2>1 DEF FinalInv, Completed, TextInv
  <2>3. QED
    BY <1>0, <1>1, <2>1, <2>2, SaidSame
<1>11. QED
  BY <1>0, <1>2, <1>3, <1>4, <1>6, <1>7, <1>8, <1>9, <1>10, QuietSteps

----------------------------------------------------------------------------
(* What the response is completed with. *)

LEMMA AccumulatedSaid ==
  ASSUME ShapeInv, CallsInv, ToldApart(parsed)
  PROVE  Accumulated.calls = SaidCalls(parsed)
<1> DEFINE Ids == SaidIds(parsed)
           heard(c) == SaidArguments(c, parsed)
<1>1. calls = [c \in Ids |-> [id |-> c, arguments |-> heard(c)]]
  BY DEF CallsInv
<1>2. Accumulated.calls =
        [id \in {calls[key].id : key \in DOMAIN calls} |->
           calls[CHOOSE first \in {key \in DOMAIN calls : calls[key].id = id} :
                   \A k \in {key \in DOMAIN calls : calls[key].id = id} : k <= first].arguments]
  BY DEF Accumulated
<1>3. SaidCalls(parsed) = [c \in Ids |-> heard(c)]
  BY DEF SaidCalls
<1> HIDE DEF Ids, heard
<1>4. DOMAIN calls = Ids /\ \A c \in Ids : calls[c].id = c /\ calls[c].arguments = heard(c)
  BY <1>1
<1>5. {calls[key].id : key \in DOMAIN calls} = Ids
  BY <1>4
<1>6. \A c \in Ids : {key \in DOMAIN calls : calls[key].id = c} = {c}
  BY <1>4
<1>7. \A c \in Ids : c <= c
  BY <1>4, StreamAssumption DEF ShapeInv, Key, FirstKey
<1>8. \A c \in Ids :
        calls[CHOOSE first \in {key \in DOMAIN calls : calls[key].id = c} :
                \A k \in {key \in DOMAIN calls : calls[key].id = c} : k <= first].arguments
          = heard(c)
  <2>1. TAKE c \in Ids
  <2> DEFINE Keys == {key \in DOMAIN calls : calls[key].id = c}
             chosen == CHOOSE key \in Keys : \A k \in Keys : k <= key
  <2>2. Keys = {c}
    BY <1>6
  <2> HIDE DEF Keys
  <2>3. \E key \in Keys : \A k \in Keys : k <= key
    BY <1>7, <2>2
  <2>4. chosen = c
    BY <2>2, <2>3
  <2> HIDE DEF chosen
  <2>5. calls[chosen].arguments = heard(c)
    BY <1>4, <2>4
  <2>6. QED
    BY <2>5, Zenon DEF chosen, Keys
<1>9. Accumulated.calls = [c \in Ids |-> heard(c)]
  BY <1>2, <1>5, <1>8, Zenon
<1>10. QED
  BY <1>3, <1>9

LEMMA FinalStep == StreamInv /\ [Next]_vars => FinalInv'
<1> SUFFICES ASSUME StreamInv, [Next]_vars PROVE FinalInv'
  OBVIOUS
<1>0. TypeOK /\ ShapeInv /\ TextInv /\ CallsInv /\ FinalInv
  BY DEF StreamInv
<1>1. ASSUME pc' \notin Completed PROVE FinalInv'
  BY <1>1 DEF FinalInv, Completed
<1>2. CASE Quiet
  <2>1. pc' \in Completed => pc' = pc
    BY <1>2 DEF Quiet, Completed
  <2>2. /\ SaidText(parsed)' = SaidText(parsed) /\ SaidCalls(parsed)' = SaidCalls(parsed)
        /\ ToldApart(parsed)' <=> ToldApart(parsed)
    BY <1>0, <1>2, SaidSame DEF Quiet
  <2>3. final' = final /\ kept' = kept
    BY <1>2 DEF Quiet
  <2>4. QED
    BY <1>0, <1>1, <2>1, <2>2, <2>3 DEF FinalInv
<1>3. CASE TextDelta \/ ArgumentsDelta \/ OutputItem \/ OutputMessage \/ Skip \/ Unreadable
  <2>1. pc' \in {"reading", "failed"}
    BY <1>3 DEF TextDelta, ArgumentsDelta, OutputItem, OutputMessage, Skip, Unreadable, Handles
  <2>2. QED
    BY <1>1, <2>1 DEF Completed
<1>4. ASSUME pc' = "message", SaidText(parsed)' = SaidText(parsed),
             SaidCalls(parsed)' = SaidCalls(parsed), ToldApart(parsed)' => ToldApart(parsed),
             final'.text = SaidText(parsed),
             ToldApart(parsed) => final'.calls = SaidCalls(parsed)
      PROVE  FinalInv'
  BY <1>4 DEF FinalInv, Completed
<1>5. Accumulated.text = SaidText(parsed)
  BY <1>0 DEF Accumulated, TextInv
<1>6. ToldApart(parsed) => Accumulated.calls = SaidCalls(parsed)
  BY <1>0, AccumulatedSaid
<1>7. CASE Done
  <2>1. Handles("done") /\ pc' = "message" /\ final' = Accumulated
    BY <1>7 DEF Done, Complete
  <2>2. /\ SaidText(parsed)' = SaidText(parsed) /\ SaidCalls(parsed)' = SaidCalls(parsed)
        /\ ToldApart(parsed)' => ToldApart(parsed)
    BY <1>0, <2>1, SaidHandled
  <2>3. QED
    BY <1>4, <1>5, <1>6, <2>1, <2>2
<1>8. CASE ResponseCompleted
  <2>1. /\ Handles("completed") /\ pc' = "message"
        /\ \/ final' = Accumulated
           \/ final' = [text  |-> IF SaidText(parsed) = << >> THEN text ELSE SaidText(parsed),
                        calls |-> Over(SaidCalls(parsed), Accumulated.calls)]
    BY <1>8 DEF ResponseCompleted, Complete
  <2>2. /\ SaidText(parsed)' = SaidText(parsed) /\ SaidCalls(parsed)' = SaidCalls(parsed)
        /\ ToldApart(parsed)' => ToldApart(parsed)
    BY <1>0, <2>1, SaidHandled
  <2>3. final'.text = SaidText(parsed)
    BY <1>0, <1>5, <2>1 DEF TextInv
  <2>4. Over(SaidCalls(parsed), SaidCalls(parsed)) = SaidCalls(parsed)
    BY DEF SaidCalls, Over
  <2>5. ToldApart(parsed) => final'.calls = SaidCalls(parsed)
    BY <1>6, <2>1, <2>4
  <2>6. QED
    BY <1>4, <2>1, <2>2, <2>3, <2>5
<1>9. CASE BodyEnds
  <2>1. /\ pc' = "message" /\ final' = Accumulated
        /\ parsed' = parsed /\ sent' = sent /\ transport' = transport
    BY <1>9 DEF BodyEnds, Complete
  <2>2. QED
    BY <1>0, <1>4, <1>5, <1>6, <2>1, SaidSame
<1>10. CASE MessageComplete \/ ResponseComplete
  <2>1. /\ parsed' = parsed /\ sent' = sent /\ transport' = transport /\ final' = final
        /\ pc \in {"message", "response"}
    BY <1>10 DEF MessageComplete, ResponseComplete
  <2>2. /\ final.text = SaidText(parsed)
        /\ ToldApart(parsed) => final.calls = SaidCalls(parsed)
    BY <1>0, <2>1 DEF FinalInv, Completed
  <2>3. /\ SaidText(parsed)' = SaidText(parsed) /\ SaidCalls(parsed)' = SaidCalls(parsed)
        /\ ToldApart(parsed)' <=> ToldApart(parsed)
    BY <1>0, <2>1, SaidSame
  <2>4. pc' = "ended" => kept'.text = final'.text
    <3>1. CASE MessageComplete
      BY <3>1 DEF MessageComplete
    <3>2. CASE ResponseComplete
      <4>1. kept'.text = IF final.text = << >> THEN kept.text ELSE final.text
        BY <3>2 DEF ResponseComplete
      <4>2. QED
        BY <1>0, <2>1, <2>2, <4>1 DEF TextInv
    <3>3. QED
      BY <1>10, <3>1, <3>2
  <2>5. QED
    BY <2>1, <2>2, <2>3, <2>4 DEF FinalInv
<1>11. QED
  BY <1>0, <1>2, <1>3, <1>7, <1>8, <1>9, <1>10, QuietSteps

----------------------------------------------------------------------------
(* The calls. *)

(* A call whose arguments come is under the id that was said, with what    *)
(* was said before.                                                        *)
LEMMA EntrySaid ==
  ASSUME TypeOK, CallsInv, Handles("call"), ToldApart(parsed)'
  PROVE  /\ KeyOf(Handled) = Handled.of
         /\ Handled.named \/ EntryOf(Handled.of).id = Handled.of
         /\ EntryOf(Handled.of) =
              [id |-> EntryOf(Handled.of).id, arguments |-> SaidArguments(Handled.of, parsed)]
<1> DEFINE of == Handled.of
<1>1. /\ parsed \in Nat /\ Handled.kind = "call" /\ Handled = sent[Piece] /\ Piece = parsed + 1
      /\ Handled.named \in BOOLEAN /\ transport \in {"sse", "ws"}
  BY HandledItem DEF Handled, Piece, TypeOK
<1>2. ToldApart(parsed) /\ ToldApart(Piece)
  BY SaidHandled
<1>3. calls = [c \in SaidIds(parsed) |-> [id |-> c, arguments |-> SaidArguments(c, parsed)]]
  BY <1>2 DEF CallsInv
<1>4. DOMAIN calls = SaidIds(parsed)
      /\ \A c \in SaidIds(parsed) : calls[c] = [id |-> c, arguments |-> SaidArguments(c, parsed)]
  BY <1>3
<1>5. \A k \in 1 .. parsed : IsCall(of, k) => of \in SaidIds(parsed)
  BY DEF IsCall, SaidIds
<1>6. ASSUME ~Handled.named PROVE transport = "sse" /\ of \in SaidIds(parsed)
  <2>1. Piece \in 1 .. Piece /\ Piece - 1 = parsed
    BY <1>1
  <2>2. transport = "sse" /\ \E j \in 1 .. Piece - 1 :
          sent[j].kind = "call" /\ sent[j].of = sent[Piece].of
    BY <1>1, <1>2, <1>6, <2>1 DEF ToldApart, NamedBy
  <2>3. PICK j \in 1 .. parsed : IsCall(of, j)
    BY <1>1, <2>1, <2>2 DEF IsCall
  <2>4. QED
    BY <1>5, <2>2, <2>3
<1>7. KeyOf(Handled) = of
  <2>1. CASE transport = "sse"
    <3>1. Piece \in 1 .. Piece
      BY <1>1
    <3>2. Handled.indexed \/ of = FirstKey
      BY <1>1, <1>2, <2>1, <3>1 DEF ToldApart, IndexedBy
    <3>3. QED
      BY <2>1, <3>2 DEF KeyOf
  <2>2. CASE transport # "sse"
    BY <1>6, <2>2 DEF KeyOf
  <2>3. QED
    BY <2>1, <2>2
<1>8. CASE of \in SaidIds(parsed)
  <2>1. EntryOf(of) = [id |-> of, arguments |-> SaidArguments(of, parsed)]
    BY <1>4, <1>8 DEF EntryOf
  <2>2. QED
    BY <1>7, <2>1
<1>9. CASE of \notin SaidIds(parsed)
  <2>1. EntryOf(of) = [id |-> Placeholder(of), arguments |-> << >>]
    BY <1>4, <1>9 DEF EntryOf
  <2>2. \A k \in 1 .. parsed : ~IsCall(of, k)
    BY <1>5, <1>9
  <2>3. SaidArguments(of, parsed) = << >>
    <3> PICK n \in Nat : n = parsed
      BY <1>1
    <3>1. SaidArguments(of, n) = << >>
      BY <2>2, NothingSaid
    <3>2. QED
      BY <3>1
  <2>4. QED
    BY <1>6, <1>7, <1>9, <2>1, <2>3
<1>10. QED
  BY <1>8, <1>9

(* An entry that is what was said of a call keeps both maps so. *)
LEMMA EntryKept ==
  ASSUME TypeOK, ShapeInv, CallsInv, NEW kind \in {"call", "item"}, Handles(kind),
         ToldApart(parsed), NEW of, of = Handled.of,
         calls' = Insert(calls, of, [id |-> of, arguments |-> SaidArguments(of, parsed)']),
         kept'.calls = Insert(kept.calls, of, SaidArguments(of, parsed)')
  PROVE  CallsInv'
<1> DEFINE heard(c) == SaidArguments(c, parsed)
           said(c) == SaidArguments(c, parsed)'
           Ids == SaidIds(parsed)
           Now == SaidIds(parsed)'
<1>1. Now = Ids \cup {of}
  BY SaidHandled
<1>2. \A c : c # of => said(c) = heard(c)
  BY SaidHandled
<1>3. calls = [c \in Ids |-> [id |-> c, arguments |-> heard(c)]]
      /\ kept.calls = [c \in Ids |-> heard(c)]
  BY DEF CallsInv, SaidCalls
<1>4. calls' = Insert(calls, of, [id |-> of, arguments |-> said(of)])
      /\ kept'.calls = Insert(kept.calls, of, said(of))
  OBVIOUS
<1>5. SaidCalls(parsed)' = [c \in Now |-> said(c)]
  BY DEF SaidCalls
<1>6. SUFFICES /\ calls' = [c \in Now |-> [id |-> c, arguments |-> said(c)]]
               /\ kept'.calls = [c \in Now |-> said(c)]
  BY <1>5 DEF CallsInv
<1> HIDE DEF heard, said, Ids, Now
<1>7. DOMAIN calls = Ids /\ DOMAIN kept.calls = Ids
      /\ \A c \in Ids : calls[c] = [id |-> c, arguments |-> heard(c)] /\ kept.calls[c] = heard(c)
  BY <1>3
<1>8. calls' = [k \in DOMAIN calls \cup {of} |->
                  IF k = of THEN [id |-> of, arguments |-> said(of)] ELSE calls[k]]
  <2> DEFINE entry == [id |-> of, arguments |-> said(of)]
  <2>1. calls' = Insert(calls, of, entry)
    BY <1>4
  <2> HIDE DEF entry
  <2>2. calls' = [k \in DOMAIN calls \cup {of} |-> IF k = of THEN entry ELSE calls[k]]
    BY <2>1 DEF Insert, Over
  <2>3. QED
    BY <2>2 DEF entry
<1>9. kept'.calls = [k \in DOMAIN kept.calls \cup {of} |->
                       IF k = of THEN said(of) ELSE kept.calls[k]]
  BY <1>4 DEF Insert, Over
<1>10. calls' = [c \in Now |-> [id |-> c, arguments |-> said(c)]]
  BY <1>1, <1>2, <1>7, <1>8
<1>11. kept'.calls = [c \in Now |-> said(c)]
  BY <1>1, <1>2, <1>7, <1>9
<1>12. QED
  BY <1>10, <1>11

LEMMA CallsStep == StreamInv /\ [Next]_vars => CallsInv'
<1> SUFFICES ASSUME StreamInv, [Next]_vars PROVE CallsInv'
  OBVIOUS
<1>0. TypeOK /\ ShapeInv /\ CallsInv /\ FinalInv
  BY DEF StreamInv
<1>1. ASSUME SaidIds(parsed)' = SaidIds(parsed), SaidCalls(parsed)' = SaidCalls(parsed),
             \A c : SaidArguments(c, parsed)' = SaidArguments(c, parsed),
             ToldApart(parsed)' => ToldApart(parsed),
             calls' = calls, ToldApart(parsed) => kept'.calls = kept.calls
      PROVE  CallsInv'
  BY <1>0, <1>1 DEF CallsInv
<1>2. CASE Quiet
  BY <1>0, <1>1, <1>2, SaidSame DEF Quiet
<1>3. ASSUME NEW kind \in {"text", "message", "other", "bad", "done", "completed"},
             Handles(kind), calls' = calls, kept'.calls = kept.calls
      PROVE  CallsInv'
  <2>1. /\ SaidIds(parsed)' = SaidIds(parsed) /\ SaidCalls(parsed)' = SaidCalls(parsed)
        /\ \A c : SaidArguments(c, parsed)' = SaidArguments(c, parsed)
        /\ ToldApart(parsed)' => ToldApart(parsed)
    BY <1>0, <1>3, SaidHandled
  <2>2. QED
    BY <1>1, <1>3, <2>1
<1>4. CASE TextDelta
  <2>1. kept'.calls = kept.calls
    BY <1>0, <1>4 DEF TextDelta, YieldText, ShapeInv
  <2>2. QED
    BY <1>3, <1>4, <2>1 DEF TextDelta
<1>5. CASE OutputMessage \/ Skip \/ Unreadable \/ Done \/ ResponseCompleted
  BY <1>3, <1>5 DEF OutputMessage, Skip, Unreadable, Done, ResponseCompleted, Complete
<1>6. CASE ArgumentsDelta
  <2> SUFFICES ASSUME ToldApart(parsed)' PROVE CallsInv'
    BY DEF CallsInv
  <2> PICK of \in Call : of = Handled.of
    BY <1>0, <1>6, HandledItem DEF ArgumentsDelta
  <2> DEFINE entry == [id        |-> IF Handled.named THEN of ELSE EntryOf(of).id,
                       arguments |-> Append(EntryOf(of).arguments, Piece)]
  <2>1. Handles("call")
    BY <1>6 DEF ArgumentsDelta
  <2>2. /\ KeyOf(Handled) = of
        /\ Handled.named \/ EntryOf(of).id = of
        /\ EntryOf(of) = [id |-> EntryOf(of).id, arguments |-> SaidArguments(of, parsed)]
    BY <1>0, <2>1, EntrySaid
  <2>3. calls' = Insert(calls, of, entry)
        /\ kept' = [kept EXCEPT !.calls = Insert(@, entry.id, entry.arguments)]
    BY <1>6, <2>2 DEF ArgumentsDelta, YieldCall
  <2>4. ToldApart(parsed) /\ SaidArguments(of, parsed)' = Append(SaidArguments(of, parsed), Piece)
    <3>1. ToldApart(parsed)
      BY <1>0, <2>1, SaidHandled
    <3>2. SaidArguments(of, parsed)' = Append(SaidArguments(of, parsed), Piece)
      BY <1>0, <2>1, SaidHandled
    <3>3. QED
      BY <3>1, <3>2
  <2>5. entry = [id |-> of, arguments |-> SaidArguments(of, parsed)']
    <3>1. EntryOf(of).arguments = SaidArguments(of, parsed)
      BY <2>2
    <3>2. (IF Handled.named THEN of ELSE EntryOf(of).id) = of
      BY <2>2
    <3>3. QED
      BY <2>4, <3>1, <3>2, Zenon
  <2>6. kept'.calls = Insert(kept.calls, of, SaidArguments(of, parsed)')
    <3>1. kept'.calls = Insert(kept.calls, entry.id, entry.arguments)
      BY <1>0, <2>3 DEF ShapeInv
    <3>2. QED
      BY <2>5, <3>1
  <2>7. QED
    BY <1>0, <2>1, <2>3, <2>4, <2>5, <2>6, EntryKept
<1>7. CASE OutputItem
  <2> SUFFICES ASSUME ToldApart(parsed)' PROVE CallsInv'
    BY DEF CallsInv
  <2> PICK of \in Call : of = Handled.of
    BY <1>0, <1>7, HandledItem DEF OutputItem
  <2> DEFINE entry == [id |-> of, arguments |-> SaidArguments(of, parsed)]
  <2>1. Handles("item") /\ calls' = Insert(calls, of, entry)
        /\ kept' = [kept EXCEPT !.calls = Insert(@, entry.id, entry.arguments)]
    BY <1>7 DEF OutputItem, YieldCall
  <2>2. ToldApart(parsed) /\ SaidArguments(of, parsed)' = SaidArguments(of, parsed)
    <3>1. ToldApart(parsed)
      BY <1>0, <2>1, SaidHandled
    <3>2. SaidArguments(of, parsed)' = SaidArguments(of, parsed)
      BY <1>0, <2>1, SaidHandled
    <3>3. QED
      BY <3>1, <3>2
  <2>3. kept'.calls = Insert(kept.calls, of, SaidArguments(of, parsed)')
    BY <1>0, <2>1, <2>2 DEF ShapeInv
  <2>4. calls' = Insert(calls, of, [id |-> of, arguments |-> SaidArguments(of, parsed)'])
    BY <2>1, <2>2
  <2>5. QED
    BY <1>0, <2>1, <2>2, <2>3, <2>4, EntryKept
<1>8. ASSUME parsed' = parsed, sent' = sent, transport' = transport, calls' = calls,
             ToldApart(parsed) => kept'.calls = kept.calls
      PROVE  CallsInv'
  BY <1>0, <1>1, <1>8, SaidSame
<1>9. CASE BodyEnds
  BY <1>8, <1>9 DEF BodyEnds, Complete
<1>10. CASE MessageComplete
  <2>1. kept'.calls = kept.calls
    BY <1>0, <1>10 DEF MessageComplete, ShapeInv
  <2>2. QED
    BY <1>8, <1>10, <2>1 DEF MessageComplete
<1>11. CASE ResponseComplete
  <2>1. kept'.calls = Over(final.calls, kept.calls) /\ pc = "response"
    BY <1>11 DEF ResponseComplete
  <2>2. ToldApart(parsed) => final.calls = SaidCalls(parsed) /\ kept.calls = SaidCalls(parsed)
    BY <1>0, <2>1 DEF FinalInv, Completed, CallsInv
  <2>3. Over(SaidCalls(parsed), SaidCalls(parsed)) = SaidCalls(parsed)
    BY DEF SaidCalls, Over
  <2>4. QED
    BY <1>8, <1>11, <2>1, <2>2, <2>3 DEF ResponseComplete
<1>12. QED
  BY <1>0, <1>2, <1>4, <1>5, <1>6, <1>7, <1>9, <1>10, <1>11, QuietSteps

----------------------------------------------------------------------------
(* Types. *)

LEMMA AppendPiece ==
  ASSUME NEW pieces \in Seq(Pieces), NEW piece \in Pieces
  PROVE  Append(pieces, piece) \in Seq(Pieces)
OBVIOUS

(* The parts of the type invariant: where the stream stands, and what it has. *)
ControlOK ==
  /\ transport \in {"sse", "ws"} /\ parameter \in 1 .. 2
  /\ pc \in {"opening", "reading", "message", "response"} \cup Ended
  /\ sent \in Seq(Item) /\ Len(sent) <= MaxItems
  /\ position \in 0 .. 2 * Len(sent) /\ parsed \in 0 .. position \div 2
  /\ closed \in BOOLEAN

TextsOK == text \in Seq(Pieces) /\ final.text \in Seq(Pieces) /\ kept.text \in Seq(Pieces)

EntriesOK ==
  /\ calls \in [DOMAIN calls -> Entry]
  /\ DOMAIN calls \subseteq Key
  /\ \A key \in DOMAIN calls : calls[key].id \in Call \cup {Placeholder(key)}

LEMMA TypeParts == TypeOK /\ ShapeInv => ControlOK /\ TextsOK /\ EntriesOK
BY DEF TypeOK, ShapeInv, ControlOK, TextsOK, EntriesOK

LEMMA PartsType == ControlOK /\ TextsOK /\ EntriesOK => TypeOK
<1> SUFFICES ASSUME ControlOK, TextsOK, EntriesOK PROVE TypeOK
  OBVIOUS
<1>1. \A key \in DOMAIN calls :
        calls[key].id \in Call \cup {Placeholder(key)} /\ calls[key].arguments \in Seq(Pieces)
  BY DEF EntriesOK, Entry
<1>2. QED
  BY <1>1 DEF TypeOK, ControlOK, TextsOK

LEMMA ControlStep == TypeOK /\ [Next]_vars => ControlOK'
<1> SUFFICES ASSUME TypeOK, [Next]_vars PROVE ControlOK'
  OBVIOUS
<1>0. ControlOK /\ parsed \in Nat /\ Len(sent) \in Nat /\ parsed <= Len(sent)
  BY CountsFit DEF TypeOK, ControlOK
<1> DEFINE Points == {"opening", "reading", "message", "response"} \cup Ended
<1>1. ASSUME UNCHANGED <<transport, sent, position, parsed>>, parameter' \in 1 .. 2,
             pc' \in Points, closed' \in BOOLEAN
      PROVE  ControlOK'
  BY <1>0, <1>1 DEF ControlOK, Item
<1>2. ASSUME NEW kind, Handles(kind), pc' \in Points PROVE ControlOK'
  <2>1. /\ UNCHANGED <<transport, parameter, sent, position, closed>>
        /\ parsed < position \div 2 /\ parsed' = parsed + 1
    BY <1>2 DEF Handles
  <2>2. parsed' \in 0 .. position \div 2
    BY <1>0, <2>1 DEF ControlOK
  <2>3. QED
    BY <1>0, <1>2, <2>1, <2>2 DEF ControlOK, Item
<1>3. CASE ServerSends
  <2>1. PICK item \in Item : sent' = Append(sent, item)
    BY <1>3 DEF ServerSends
  <2>2. /\ UNCHANGED <<transport, parameter, pc, closed, position, parsed>>
        /\ Len(sent) < MaxItems
    BY <1>3 DEF ServerSends, received
  <2>3. sent' \in Seq(Item) /\ Len(sent') = Len(sent) + 1
    BY <1>0, <2>1 DEF ControlOK
  <2>4. Item' = Item
    BY <2>2 DEF Item
  <2>5. position \in 0 .. 2 * Len(sent') /\ Len(sent') <= MaxItems
    BY <1>0, <2>2, <2>3, StreamAssumption DEF ControlOK
  <2>6. QED
    BY <1>0, <2>2, <2>3, <2>4, <2>5 DEF ControlOK
<1>4. CASE ServerCloses
  BY <1>0, <1>1, <1>4 DEF ServerCloses, received, ControlOK
<1>5. CASE Opens \/ OpenWithOtherParameter \/ Fails \/ SocketCloses \/ Dropped
  <2>1. UNCHANGED <<transport, sent, closed, position, parsed>>
    BY <1>5 DEF Opens, OpenWithOtherParameter, Fails, SocketCloses, Dropped, StreamKept, received
  <2>2. parameter' \in 1 .. 2
    BY <1>0, <1>5 DEF Opens, OpenWithOtherParameter, Fails, SocketCloses, Dropped, StreamKept,
                      ControlOK
  <2>3. pc' \in Points
    BY <1>0, <1>5 DEF Opens, OpenWithOtherParameter, Fails, SocketCloses, Dropped, StreamKept,
                      ControlOK, Ended
  <2>4. closed' \in BOOLEAN
    BY <1>0, <2>1 DEF ControlOK
  <2>5. QED
    BY <1>1, <2>1, <2>2, <2>3, <2>4
<1>6. CASE Chunk
  <2>1. PICK p \in Arrivals : position' = p
    BY <1>6 DEF Chunk
  <2>2. /\ parsed = position \div 2 /\ UNCHANGED <<transport, parameter, sent, closed, parsed>>
        /\ pc' \in {"failed", pc}
    BY <1>6 DEF Chunk
  <2>3. p \in position + 1 .. 2 * Len(sent)
    BY <1>0, <2>1 DEF Arrivals, ControlOK
  <2>4. position' \in 0 .. 2 * Len(sent)
    BY <1>0, <2>1, <2>3 DEF ControlOK
  <2>5. position \in Nat /\ p \in Nat /\ position <= p
    BY <1>0, <2>3 DEF ControlOK
  <2>6. position \div 2 \in 0 .. p \div 2
    BY <2>5
  <2>7. pc' \in Points
    BY <1>0, <2>2 DEF ControlOK, Ended
  <2>8. QED
    BY <1>0, <2>1, <2>2, <2>4, <2>6, <2>7 DEF ControlOK, Item
<1>7. CASE \/ TextDelta \/ ArgumentsDelta \/ OutputItem \/ OutputMessage
           \/ Skip \/ Unreadable \/ Done \/ ResponseCompleted
  BY <1>0, <1>2, <1>7 DEF TextDelta, ArgumentsDelta, OutputItem, OutputMessage, Skip, Unreadable,
     Done, ResponseCompleted, Complete, ControlOK, Ended
<1>8. CASE BodyEnds \/ MessageComplete \/ ResponseComplete
  BY <1>0, <1>1, <1>8 DEF BodyEnds, MessageComplete, ResponseComplete, Complete, ControlOK, Ended
<1>9. CASE UNCHANGED vars
  BY <1>0, <1>1, <1>9 DEF vars, ControlOK
<1>10. QED
  BY <1>3, <1>4, <1>5, <1>6, <1>7, <1>8, <1>9 DEF Next

(* What an entry has to be for the map to stay well-typed. *)
LEMMA EntryTyped ==
  ASSUME EntriesOK, transport' = transport, NEW key \in Key, NEW entry \in Entry,
         entry.id \in Call \cup {Placeholder(key)}, calls' = Insert(calls, key, entry)
  PROVE  EntriesOK'
<1>1. calls' = [k \in DOMAIN calls \cup {key} |-> IF k = key THEN entry ELSE calls[k]]
  BY DEF Insert, Over
<1>2. \A k \in DOMAIN calls : calls[k] \in Entry
  BY DEF EntriesOK
<1>3. calls' \in [DOMAIN calls' -> Entry] /\ DOMAIN calls' = DOMAIN calls \cup {key}
  BY <1>1, <1>2
<1>4. \A k : Placeholder(k)' = Placeholder(k)
  BY DEF Placeholder
<1>5. \A k \in DOMAIN calls' : calls'[k].id \in Call \cup {Placeholder(k)}
  BY <1>1, <1>3 DEF EntriesOK
<1>6. QED
  BY <1>3, <1>4, <1>5 DEF EntriesOK, Entry, Pieces

LEMMA CallNumbers == \A c \in Call : c \in Int
BY StreamAssumption

LEMMA PlaceholderTyped ==
  ASSUME NEW key \in Key
  PROVE  Placeholder(key) \in Int
BY StreamAssumption DEF Placeholder, Key, FirstKey

LEMMA EntriesStep == StreamInv /\ [Next]_vars => EntriesOK'
<1> SUFFICES ASSUME StreamInv, [Next]_vars PROVE EntriesOK'
  OBVIOUS
<1>0. TypeOK /\ ShapeInv /\ EntriesOK
  BY TypeParts DEF StreamInv
<1>1. ASSUME calls' = calls, transport' = transport PROVE EntriesOK'
  BY <1>0, <1>1 DEF EntriesOK, Entry, Placeholder
<1>2. CASE ArgumentsDelta
  <2> DEFINE key == KeyOf(Handled)
             was == EntryOf(key)
             id == IF Handled.named THEN Handled.of ELSE was.id
             entry == [id |-> id, arguments |-> Append(was.arguments, Piece)]
  <2>1. Handles("call") /\ calls' = Insert(calls, key, entry)
    BY <1>2 DEF ArgumentsDelta
  <2>2. /\ Handled.of \in Call /\ Handled.named \in BOOLEAN /\ Piece \in Pieces
        /\ transport' = transport
    BY <1>0, <2>1, HandledItem
  <2>3. key \in Key
    BY <2>2 DEF KeyOf, Key
  <2>4. was \in Entry /\ was.id \in Call \cup {Placeholder(key)}
    <3>1. CASE key \in DOMAIN calls
      BY <1>0, <3>1 DEF EntriesOK, EntryOf
    <3>2. CASE key \notin DOMAIN calls
      <4>1. was = [id |-> Placeholder(key), arguments |-> << >>]
        BY <3>2 DEF EntryOf
      <4>2. << >> \in Seq(Pieces) /\ Placeholder(key) \in Int
        BY <2>3, PlaceholderTyped
      <4>3. QED
        BY <4>1, <4>2 DEF Entry
    <3>3. QED
      BY <3>1, <3>2
  <2>5. was.id \in Int /\ was.arguments \in Seq(Pieces)
    BY <2>4 DEF Entry
  <2>6. id \in Call \cup {Placeholder(key)} /\ id \in Int
    BY <2>2, <2>4, <2>5, CallNumbers
  <2>7. Append(was.arguments, Piece) \in Seq(Pieces)
    BY <2>2, <2>5, AppendPiece
  <2> HIDE DEF key, was, id
  <2>8. entry \in Entry /\ entry.id \in Call \cup {Placeholder(key)}
    BY <2>6, <2>7 DEF Entry
  <2> HIDE DEF entry
  <2>9. PICK k \in Key, e \in Entry : k = key /\ e = entry
    BY <2>3, <2>8
  <2>10. e.id \in Call \cup {Placeholder(k)} /\ calls' = Insert(calls, k, e)
    BY <2>1, <2>8, <2>9
  <2>11. QED
    BY <1>0, <2>2, <2>10, EntryTyped
<1>3. CASE OutputItem
  <2> DEFINE entry == [id |-> Handled.of, arguments |-> SaidArguments(Handled.of, parsed)]
  <2>1. Handles("item") /\ calls' = Insert(calls, Handled.of, entry)
    BY <1>3 DEF OutputItem
  <2>2. Handled.of \in Call /\ transport' = transport
    BY <1>0, <2>1, HandledItem
  <2>3. Handled.of \in Int
    BY <2>2, CallNumbers
  <2>4. SaidArguments(Handled.of, parsed) \in Seq(Pieces)
    BY <1>0, <2>2 DEF ShapeInv
  <2>5. entry \in Entry
    BY <2>3, <2>4 DEF Entry
  <2>6. entry.id = Handled.of
    OBVIOUS
  <2> HIDE DEF entry
  <2>7. PICK k \in Key, e \in Entry : k = Handled.of /\ e = entry
    BY <2>2, <2>5 DEF Key
  <2>8. e.id \in Call \cup {Placeholder(k)} /\ calls' = Insert(calls, k, e)
    BY <2>1, <2>2, <2>6, <2>7
  <2>9. QED
    BY <1>0, <2>2, <2>8, EntryTyped
<1>4. CASE \/ TextDelta \/ OutputMessage
           \/ Skip \/ Unreadable \/ Done \/ ResponseCompleted
  <2>1. calls' = calls /\ transport' = transport
    BY <1>4 DEF TextDelta, OutputMessage, Skip, Unreadable, Done, ResponseCompleted,
                Complete, Handles
  <2>2. QED
    BY <1>1, <2>1
<1>5. CASE Quiet \/ BodyEnds \/ MessageComplete \/ ResponseComplete
  BY <1>1, <1>5 DEF Quiet, BodyEnds, MessageComplete, ResponseComplete, Complete
<1>6. QED
  BY <1>0, <1>2, <1>3, <1>4, <1>5, QuietSteps

LEMMA ShapeStep == StreamInv /\ [Next]_vars => ShapeInv'
<1> SUFFICES ASSUME StreamInv, [Next]_vars PROVE ShapeInv'
  OBVIOUS
<1>0. TypeOK /\ ShapeInv
  BY DEF StreamInv
<1>1. EntriesOK'
  BY EntriesStep
<1>2. kept' = [text |-> kept'.text, calls |-> kept'.calls]
  <2>1. ASSUME kept' = kept PROVE kept' = [text |-> kept'.text, calls |-> kept'.calls]
    BY <1>0, <2>1 DEF ShapeInv
  <2>2. ASSUME NEW some, kept' = [kept EXCEPT !.text = some]
        PROVE  kept' = [text |-> kept'.text, calls |-> kept'.calls]
    BY <1>0, <2>2 DEF ShapeInv
  <2>3. ASSUME NEW some, kept' = [kept EXCEPT !.calls = some]
        PROVE  kept' = [text |-> kept'.text, calls |-> kept'.calls]
    BY <1>0, <2>3 DEF ShapeInv
  <2>4. CASE ResponseComplete
    BY <2>4 DEF ResponseComplete
  <2>5. CASE TextDelta \/ MessageComplete
    BY <2>2, <2>5 DEF TextDelta, YieldText, MessageComplete
  <2>6. CASE ArgumentsDelta \/ OutputItem
    BY <2>3, <2>6 DEF ArgumentsDelta, OutputItem, YieldCall
  <2>7. CASE \/ Quiet \/ OutputMessage \/ Skip \/ Unreadable
             \/ Done \/ ResponseCompleted \/ BodyEnds
    BY <2>1, <2>7 DEF Quiet, OutputMessage, Skip, Unreadable, Done, ResponseCompleted,
                      BodyEnds, Complete
  <2>8. QED
    BY <1>0, <2>4, <2>5, <2>6, <2>7, QuietSteps
<1>3. \A c \in Call : SaidArguments(c, parsed)' \in Seq(Pieces)
  <2>1. ASSUME NEW kind, Handles(kind)
        PROVE  \A c \in Call : SaidArguments(c, parsed)' \in Seq(Pieces)
    <3> TAKE c \in Call
    <3>1. /\ SaidArguments(c, parsed) \in Seq(Pieces) /\ Piece \in Pieces
          /\ \/ SaidArguments(c, parsed)' = Append(SaidArguments(c, parsed), Piece)
             \/ SaidArguments(c, parsed)' = SaidArguments(c, parsed)
      BY <1>0, <2>1, HandledItem, SaidHandled DEF ShapeInv
    <3>2. Append(SaidArguments(c, parsed), Piece) \in Seq(Pieces)
      BY <3>1, AppendPiece
    <3>3. QED
      BY <3>1, <3>2
  <2>2. ASSUME parsed' = parsed, transport' = transport, \A k \in 1 .. parsed : sent'[k] = sent[k]
        PROVE  \A c \in Call : SaidArguments(c, parsed)' \in Seq(Pieces)
    BY <1>0, <2>2, SaidSame DEF ShapeInv
  <2>3. CASE \/ TextDelta \/ ArgumentsDelta \/ OutputItem \/ OutputMessage
             \/ Skip \/ Unreadable \/ Done \/ ResponseCompleted
    BY <2>1, <2>3 DEF TextDelta, ArgumentsDelta, OutputItem, OutputMessage, Skip, Unreadable,
                      Done, ResponseCompleted
  <2>4. CASE Quiet \/ BodyEnds \/ MessageComplete \/ ResponseComplete
    BY <2>2, <2>4 DEF Quiet, BodyEnds, MessageComplete, ResponseComplete
  <2>5. QED
    BY <1>0, <2>3, <2>4, QuietSteps
<1>4. QED
  BY <1>1, <1>2, <1>3 DEF ShapeInv, EntriesOK, Pieces

LEMMA TextsStep == StreamInv /\ [Next]_vars => TextsOK'
<1> SUFFICES ASSUME StreamInv, [Next]_vars PROVE TextsOK'
  OBVIOUS
<1>0. TypeOK /\ ShapeInv /\ TextInv /\ TextsOK
  BY TypeParts DEF StreamInv
<1>1. ASSUME text' \in Seq(Pieces), final'.text \in Seq(Pieces), kept'.text \in Seq(Pieces)
      PROVE  TextsOK'
  BY <1>1 DEF TextsOK, Pieces
<1>2. ASSUME text' = text,
             final'.text \in {final.text, text},
             kept'.text \in {kept.text, final.text}
      PROVE  TextsOK'
  BY <1>0, <1>1, <1>2 DEF TextsOK
<1>3. CASE TextDelta
  <2>1. /\ Handles("text") /\ text' = Append(text, Piece) /\ final' = final
        /\ kept' = [kept EXCEPT !.text = Append(@, Piece)]
    BY <1>3 DEF TextDelta, YieldText
  <2>2. Piece \in Pieces
    BY <1>0, <2>1, HandledItem
  <2>3. kept'.text = Append(kept.text, Piece)
    BY <1>0, <2>1 DEF ShapeInv
  <2>4. text' \in Seq(Pieces) /\ kept'.text \in Seq(Pieces)
    BY <1>0, <2>1, <2>2, <2>3, AppendPiece DEF TextsOK
  <2>5. QED
    BY <1>0, <1>1, <2>1, <2>4 DEF TextsOK
<1>4. CASE OutputMessage
  <2>1. /\ Handles("message") /\ final' = final /\ kept' = kept
        /\ text' = IF text = << >> THEN SaidText(parsed + 1) ELSE text
    BY <1>4 DEF OutputMessage
  <2>2. /\ Piece \in Pieces /\ SaidText(parsed)' = SaidText(parsed + 1)
        /\ SaidText(parsed)' \in {SaidText(parsed), Append(SaidText(parsed), Piece)}
    BY <1>0, <2>1, HandledItem, SaidHandled
  <2>3. SaidText(parsed) = text /\ Append(text, Piece) \in Seq(Pieces)
    BY <1>0, <2>2, AppendPiece DEF TextInv, TextsOK
  <2>4. text' \in Seq(Pieces)
    BY <1>0, <2>1, <2>2, <2>3 DEF TextsOK
  <2>5. QED
    BY <1>0, <1>1, <2>1, <2>4 DEF TextsOK
<1>5. CASE ArgumentsDelta \/ OutputItem
  <2>1. text' = text /\ final' = final
    BY <1>5 DEF ArgumentsDelta, OutputItem
  <2>2. kept'.text = kept.text
    BY <1>0, <1>5 DEF ArgumentsDelta, OutputItem, YieldCall, ShapeInv
  <2>3. QED
    BY <1>2, <2>1, <2>2
<1>6. CASE Quiet \/ Skip \/ Unreadable
  BY <1>2, <1>6 DEF Quiet, Skip, Unreadable
<1>7. CASE Done \/ ResponseCompleted \/ BodyEnds
  <2>1. text' = text /\ kept' = kept
    BY <1>7 DEF Done, ResponseCompleted, BodyEnds, Complete
  <2>2. Accumulated.text = text /\ text = SaidText(parsed)
    BY <1>0 DEF Accumulated, TextInv
  <2>3. \/ final' = Accumulated
        \/ final' = [text  |-> IF SaidText(parsed) = << >> THEN text ELSE SaidText(parsed),
                     calls |-> Over(SaidCalls(parsed), Accumulated.calls)]
    BY <1>7 DEF Done, ResponseCompleted, BodyEnds, Complete
  <2>4. final'.text = text
    BY <2>2, <2>3
  <2>5. QED
    BY <1>2, <2>1, <2>4
<1>8. CASE MessageComplete
  <2>1. text' = text /\ final' = final
    BY <1>8 DEF MessageComplete
  <2>2. kept'.text \in {kept.text, final.text}
    BY <1>0, <1>8 DEF MessageComplete, ShapeInv
  <2>3. QED
    BY <1>2, <2>1, <2>2
<1>9. CASE ResponseComplete
  BY <1>2, <1>9 DEF ResponseComplete
<1>10. QED
  BY <1>0, <1>3, <1>4, <1>5, <1>6, <1>7, <1>8, <1>9, QuietSteps

----------------------------------------------------------------------------
LEMMA StreamStep == StreamInv /\ [Next]_vars => StreamInv'
<1> SUFFICES ASSUME StreamInv, [Next]_vars PROVE StreamInv'
  OBVIOUS
<1>1. TypeOK
  BY DEF StreamInv
<1>2. ControlOK' /\ TextsOK' /\ EntriesOK'
  BY <1>1, ControlStep, TextsStep, EntriesStep
<1>3. TypeOK'
  <2>1. (ControlOK /\ TextsOK /\ EntriesOK => TypeOK)'
    BY PartsType, PTL
  <2>2. QED
    BY <1>2, <2>1
<1>4. ShapeInv' /\ TextInv' /\ CallsInv' /\ FinalInv'
  BY ShapeStep, TextStep, CallsStep, FinalStep
<1>5. YieldInv' /\ MilestonesLast' /\ CompleteMeansFinished'
  BY YieldStep, FinishedStep
<1>6. QED
  BY <1>3, <1>4, <1>5 DEF StreamInv

LEMMA InvHolds == Spec => []StreamInv
<1>1. Init => StreamInv
  BY InitStream
<1>2. StreamInv /\ [Next]_vars => StreamInv'
  BY StreamStep
<1>3. QED
  BY <1>1, <1>2, PTL DEF Spec

(* The variables have their types, however long the response. *)
THEOREM StreamTyped == Spec => []TypeOK
<1>1. StreamInv => TypeOK
  BY DEF StreamInv
<1>2. QED
  BY <1>1, InvHolds, PTL

(* MessageComplete and ResponseComplete come after the deltas, in this     *)
(* order and once, and a stream that ends has yielded both.                *)
THEOREM MilestonesAreLast == Spec => []MilestonesLast
<1>1. StreamInv => MilestonesLast
  BY DEF StreamInv
<1>2. QED
  BY <1>1, InvHolds, PTL

(* Over the websocket a response is complete only if the server said so. *)
THEOREM CompleteIsFinished == Spec => []CompleteMeansFinished
<1>1. StreamInv => CompleteMeansFinished
  BY DEF StreamInv
<1>2. QED
  BY <1>1, InvHolds, PTL

(* The turn keeps the text the server sent and, if the server told its     *)
(* calls apart (each named in time, and over SSE indexed but for the first, *)
(* transport.rs:246-253), these calls with their whole arguments, however  *)
(* the response was cut and by whichever transport.                        *)
THEOREM WhatIsKeptWasSaid == Spec => []KeptIsSaid
<1>1. StreamInv => KeptIsSaid
  <2> SUFFICES ASSUME StreamInv, pc = "ended"
               PROVE  kept.text = SaidText(parsed) /\ (ToldApart(parsed) => kept.calls = SaidCalls(parsed))
    BY DEF KeptIsSaid
  <2>1. kept.text = SaidText(parsed)
    BY DEF StreamInv, FinalInv, Completed
  <2>2. ToldApart(parsed) => kept.calls = SaidCalls(parsed)
    BY DEF StreamInv, CallsInv
  <2>4. QED
    BY <2>1, <2>2
<1>2. QED
  BY <1>1, InvHolds, PTL

=============================================================================
