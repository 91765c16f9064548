----------------------------- MODULE SqliteProofs ----------------------------
(***************************************************************************)
(* Theorems about SqliteMemoryBackend, and the lemmas by which             *)
(* BackendProofs shows that it keeps the contract of MemoryBackend.        *)
(*                                                                         *)
(* A call is a program of statements.  The inductive invariant has three   *)
(* parts: ProgramInv (what is left of each program is what follows the     *)
(* statements it executed), DataInv (the tables hold a session, and row    *)
(* ids are unique and below the next one) and, for one process that is not *)
(* interrupted, RunInv (how far the call inside the mutex has come: what   *)
(* it inserted, found and read).  With these, the first statement of a     *)
(* call that writes, or the last of one that reads, is where it takes      *)
(* effect, and its other statements show nothing to clients: SeenStep.     *)
(*                                                                         *)
(* Several processes that are interrupted anywhere do not keep the         *)
(* contract, but they keep two of its promises.  Their invariant is        *)
(* ProcessInv: one client's claim of the session row stays, its list is in *)
(* the table as far as it inserted it, the list is never cleared when      *)
(* there is one, and what a call that ended was for is in the tables.      *)
(***************************************************************************)
EXTENDS SqliteStore, SequenceTheorems, FiniteSetTheorems, TLAPS

-----------------------------------------------------------------------------
(* Programs and what is left of them. *)

StatementKind ==
  {"claim", "clear_features", "find"} \cup ReadStatements \cup WriteStatements

Statement == StatementKind \X Nat

(* What is left of the program p when n statements are executed. *)
Rest(p, n) == SubSeq(p, n + 1, Len(p))

(* How many statements of its call client c executed. *)
At(c) == Len(Program(c, op[c])) - Len(todo[c])

(* What is left of a program, statement by statement. *)
LEMMA RestFacts ==
  ASSUME NEW S, NEW p \in Seq(S)
  PROVE  /\ Rest(p, 0) = p
         /\ Rest(p, Len(p)) = << >>
         /\ \A n \in 0 .. Len(p) : Rest(p, n) \in Seq(S) /\ Len(Rest(p, n)) = Len(p) - n
         /\ \A n \in 0 .. Len(p) - 1 :
              /\ Rest(p, n) # << >>
              /\ Head(Rest(p, n)) = p[n + 1]
              /\ Tail(Rest(p, n)) = Rest(p, n + 1)
         /\ \A n \in 0 .. Len(p) : \A i \in 1 .. Len(p) - n : Rest(p, n)[i] = p[n + i]
<1>1. ASSUME NEW n \in 0 .. Len(p)
      PROVE  /\ Rest(p, n) \in Seq(S) /\ Len(Rest(p, n)) = Len(p) - n
             /\ \A i \in 1 .. Len(p) - n : Rest(p, n)[i] = p[n + i]
  <2>1. Len(p) \in Nat /\ n + 1 \in 1 .. Len(p) + 1 /\ Len(p) \in n .. Len(p)
    OBVIOUS
  <2>2. n + 1 \in 1 .. Len(p) + 1 /\ Len(p) \in (n + 1) - 1 .. Len(p)  BY <2>1
  <2>3. /\ SubSeq(p, n + 1, Len(p)) \in Seq(S)
        /\ Len(SubSeq(p, n + 1, Len(p))) = IF n + 1 <= Len(p) THEN Len(p) - (n + 1) + 1 ELSE 0
        /\ \A i \in 1 .. Len(p) - (n + 1) + 1 : SubSeq(p, n + 1, Len(p))[i] = p[n + 1 + i - 1]
    BY <2>2, SubSeqProperties
  <2> QED  BY <2>1, <2>3 DEF Rest
<1>2. Rest(p, 0) = p
  <2>1. Len(p) \in Nat /\ 0 \in 0 .. Len(p)  OBVIOUS
  <2>2. Rest(p, 0) \in Seq(S) /\ Len(Rest(p, 0)) = Len(p) - 0
        /\ \A i \in 1 .. Len(p) - 0 : Rest(p, 0)[i] = p[0 + i]
    BY <1>1, <2>1
  <2>3. \A i \in 1 .. Len(p) : Rest(p, 0)[i] = p[i]  BY <2>1, <2>2
  <2> QED  BY <2>1, <2>2, <2>3, SeqEqual
<1>3. Rest(p, Len(p)) = << >>
  <2>1. Rest(p, Len(p)) \in Seq(S) /\ Len(Rest(p, Len(p))) = 0  BY <1>1
  <2> QED  BY <2>1, EmptySeq
<1>4. ASSUME NEW n \in 0 .. Len(p) - 1
      PROVE  /\ Rest(p, n) # << >>
             /\ Head(Rest(p, n)) = p[n + 1]
             /\ Tail(Rest(p, n)) = Rest(p, n + 1)
  <2> DEFINE q == Rest(p, n)
             r == Rest(p, n + 1)
  <2>1. n \in 0 .. Len(p) /\ n + 1 \in 0 .. Len(p) /\ Len(p) \in Nat  OBVIOUS
  <2>2. /\ q \in Seq(S) /\ Len(q) = Len(p) - n
        /\ \A i \in 1 .. Len(p) - n : q[i] = p[n + i]
    BY <1>1, <2>1
  <2>3. /\ r \in Seq(S) /\ Len(r) = Len(p) - (n + 1)
        /\ \A i \in 1 .. Len(p) - (n + 1) : r[i] = p[(n + 1) + i]
    BY <1>1, <2>1
  <2> HIDE DEF q, r
  <2>4. q # << >>  BY <2>1, <2>2
  <2>5. Head(q) = p[n + 1]  BY <2>1, <2>2, <2>4
  <2>6. Tail(q) \in Seq(S) /\ Len(Tail(q)) = Len(q) - 1 /\ \A i \in 1 .. Len(q) - 1 : Tail(q)[i] = q[i + 1]
    BY <2>2, <2>4, HeadTailProperties
  <2>7. \A i \in 1 .. Len(r) : Tail(q)[i] = r[i]  BY <2>1, <2>2, <2>3, <2>6
  <2>8. Tail(q) = r  BY <2>1, <2>2, <2>3, <2>6, <2>7, SeqEqual
  <2> QED  BY <2>4, <2>5, <2>8 DEF q, r
<1> QED  BY <1>1, <1>2, <1>3, <1>4

(* The statements of each call. *)
LEMMA ReplaceProgram ==
  ASSUME NEW c \in Client
  PROVE  /\ ReplaceRows(c) \in Seq(Statement)
         /\ Len(List[c]) \in Nat
         /\ Len(ReplaceRows(c)) = Len(List[c]) + 1
         /\ ReplaceRows(c)[1] = <<"clear_features", 0>>
         /\ \A i \in 1 .. Len(List[c]) : ReplaceRows(c)[i + 1] = <<"insert_feature", i>>
<1> DEFINE clear == Sql(<<"clear_features">>)
           inserts == [i \in DOMAIN List[c] |-> <<"insert_feature", i>>]
<1>1. List[c] \in Seq(FeatureRecord(Feature))  BY ClientAssumption
<1>2. Len(List[c]) \in Nat /\ DOMAIN List[c] = 1 .. Len(List[c])  BY <1>1
<1>3. <<"clear_features", 0>> \in Statement
  BY DEF Statement, StatementKind
<1>4. clear = << <<"clear_features", 0>> >>  BY DEF Sql
<1>5. clear \in Seq(Statement) /\ Len(clear) = 1 /\ clear[1] = <<"clear_features", 0>>  BY <1>3, <1>4
<1>6. \A i \in 1 .. Len(List[c]) : <<"insert_feature", i>> \in Statement
  BY DEF Statement, StatementKind, WriteStatements
<1>7. inserts \in Seq(Statement) /\ Len(inserts) = Len(List[c])
      /\ \A i \in 1 .. Len(List[c]) : inserts[i] = <<"insert_feature", i>>
  <2>1. inserts \in [1 .. Len(List[c]) -> Statement]  BY <1>2, <1>6
  <2>2. inserts \in Seq(Statement)  BY <1>2, <2>1, SeqDef
  <2>3. DOMAIN inserts = 1 .. Len(List[c])  BY <1>2
  <2> HIDE DEF inserts
  <2>4. Len(inserts) = Len(List[c])  BY <1>2, <2>2, <2>3
  <2> QED  BY <1>2, <2>2, <2>4 DEF inserts
<1> HIDE DEF clear, inserts
<1>8. /\ clear \o inserts \in Seq(Statement)
      /\ Len(clear \o inserts) = Len(List[c]) + 1
      /\ (clear \o inserts)[1] = <<"clear_features", 0>>
      /\ \A i \in 1 .. Len(List[c]) : (clear \o inserts)[i + 1] = <<"insert_feature", i>>
  <2>1. /\ clear \o inserts \in Seq(Statement) /\ Len(clear \o inserts) = 1 + Len(List[c])
        /\ \A i \in 1 .. 1 + Len(List[c]) :
             (clear \o inserts)[i] = IF i <= 1 THEN clear[i] ELSE inserts[i - 1]
    BY <1>5, <1>7, ConcatProperties
  <2> QED  BY <1>2, <1>5, <1>7, <2>1
<1> QED  BY <1>2, <1>8 DEF ReplaceRows, clear, inserts

(* Short sequences. *)
LEMMA OneOf ==
  ASSUME NEW S, NEW a \in S
  PROVE  << a >> \in Seq(S) /\ Len(<< a >>) = 1 /\ << a >>[1] = a
OBVIOUS

(* Two of them. *)
LEMMA TwoOf ==
  ASSUME NEW S, NEW a \in S, NEW b \in S
  PROVE  << a, b >> \in Seq(S) /\ Len(<< a, b >>) = 2 /\ << a, b >>[1] = a /\ << a, b >>[2] = b
OBVIOUS

(* Four of them. *)
LEMMA FourOf ==
  ASSUME NEW S, NEW a \in S, NEW b \in S, NEW d \in S, NEW e \in S
  PROVE  << a, b, d, e >> \in Seq(S) /\ Len(<< a, b, d, e >>) = 4
OBVIOUS

(* An initialization claims the row, saves, replaces the list, logs and records. *)
LEMMA InitializeProgram ==
  ASSUME NEW c \in Client
  PROVE  LET p == Program(c, "initialize")
             n == Len(List[c])
         IN  /\ p \in Seq(Statement)
             /\ Len(p) = n + 5
             /\ p[1] = <<"claim", 0>> /\ p[2] = <<"save_manifest", 0>>
             /\ p[3] = <<"clear_features", 0>>
             /\ \A i \in 1 .. n : p[i + 3] = <<"insert_feature", i>>
             /\ p[n + 4] = <<"append_progress", 0>> /\ p[n + 5] = <<"checkpoint", 0>>
<1> DEFINE n == Len(List[c])
           first == Sql(<<"claim", "save_manifest">>)
           last == Sql(<<"append_progress", "checkpoint">>)
           rows == ReplaceRows(c)
<1>1. Program(c, "initialize") = first \o rows \o last  BY DEF Program
<1>2. /\ <<"claim", 0>> \in Statement /\ <<"save_manifest", 0>> \in Statement
      /\ <<"append_progress", 0>> \in Statement /\ <<"checkpoint", 0>> \in Statement
  BY DEF Statement, StatementKind, WriteStatements
<1>3. first = << <<"claim", 0>>, <<"save_manifest", 0>> >>  BY DEF Sql
<1>4. last = << <<"append_progress", 0>>, <<"checkpoint", 0>> >>  BY DEF Sql
<1>5. first \in Seq(Statement) /\ Len(first) = 2 /\ first[1] = <<"claim", 0>> /\ first[2] = <<"save_manifest", 0>>
  <2> HIDE DEF first
  <2>1. PICK x \in Statement, y \in Statement : x = <<"claim", 0>> /\ y = <<"save_manifest", 0>>  BY <1>2
  <2>2. first = << x, y >>  BY <1>3, <2>1
  <2> QED  BY <2>1, <2>2, TwoOf
<1>6. last \in Seq(Statement) /\ Len(last) = 2 /\ last[1] = <<"append_progress", 0>> /\ last[2] = <<"checkpoint", 0>>
  <2> HIDE DEF last
  <2>1. PICK x \in Statement, y \in Statement : x = <<"append_progress", 0>> /\ y = <<"checkpoint", 0>>  BY <1>2
  <2>2. last = << x, y >>  BY <1>4, <2>1
  <2> QED  BY <2>1, <2>2, TwoOf
<1>7. /\ rows \in Seq(Statement) /\ n \in Nat /\ Len(rows) = n + 1
      /\ rows[1] = <<"clear_features", 0>>
      /\ \A i \in 1 .. n : rows[i + 1] = <<"insert_feature", i>>
  BY ReplaceProgram
<1> HIDE DEF first, last, rows, n
<1>8. /\ first \o rows \in Seq(Statement) /\ Len(first \o rows) = n + 3
      /\ \A i \in 1 .. n + 3 : (first \o rows)[i] = IF i <= 2 THEN first[i] ELSE rows[i - 2]
  <2>1. /\ first \o rows \in Seq(Statement) /\ Len(first \o rows) = Len(first) + Len(rows)
        /\ \A i \in 1 .. Len(first) + Len(rows) :
             (first \o rows)[i] = IF i <= Len(first) THEN first[i] ELSE rows[i - Len(first)]
    BY <1>5, <1>7, ConcatProperties
  <2>2. Len(first) + Len(rows) = n + 3  BY <1>5, <1>7
  <2> QED  BY <1>5, <2>1, <2>2
<1> DEFINE q == first \o rows
<1> HIDE DEF q
<1>9. /\ q \in Seq(Statement) /\ Len(q) = n + 3
      /\ \A i \in 1 .. n + 3 : q[i] = IF i <= 2 THEN first[i] ELSE rows[i - 2]
  BY <1>8 DEF q
<1> DEFINE p == q \o last
<1> HIDE DEF p
<1>10. /\ p \in Seq(Statement) /\ Len(p) = n + 5
       /\ \A i \in 1 .. n + 5 : p[i] = IF i <= n + 3 THEN q[i] ELSE last[i - (n + 3)]
  <2>1. /\ q \o last \in Seq(Statement) /\ Len(q \o last) = Len(q) + Len(last)
        /\ \A i \in 1 .. Len(q) + Len(last) :
             (q \o last)[i] = IF i <= Len(q) THEN q[i] ELSE last[i - Len(q)]
    BY <1>6, <1>9, ConcatProperties
  <2>2. Len(q) + Len(last) = n + 5  BY <1>6, <1>7, <1>9
  <2> QED  BY <1>9, <2>1, <2>2 DEF p
<1>11. \A i \in 1 .. n + 3 : p[i] = IF i <= 2 THEN first[i] ELSE rows[i - 2]
  <2> SUFFICES ASSUME NEW i \in 1 .. n + 3 PROVE p[i] = IF i <= 2 THEN first[i] ELSE rows[i - 2]
    OBVIOUS
  <2>1. i \in 1 .. n + 5 /\ i <= n + 3  BY <1>7
  <2> QED  BY <1>9, <1>10, <2>1
<1>12. p[1] = <<"claim", 0>> /\ p[2] = <<"save_manifest", 0>> /\ p[3] = <<"clear_features", 0>>
  <2>1. 1 \in 1 .. n + 3 /\ 2 \in 1 .. n + 3 /\ 3 \in 1 .. n + 3  BY <1>7
  <2>2. p[1] = first[1] /\ p[2] = first[2] /\ p[3] = rows[1]  BY <1>11, <2>1
  <2> QED  BY <1>5, <1>7, <2>2
<1>13. ASSUME NEW i \in 1 .. n PROVE p[i + 3] = <<"insert_feature", i>>
  <2>1. i + 3 \in 1 .. n + 3 /\ ~(i + 3 <= 2) /\ (i + 3) - 2 = i + 1  BY <1>7
  <2>2. p[i + 3] = rows[i + 1]  BY <1>11, <2>1
  <2> QED  BY <1>7, <2>2
<1>14. p[n + 4] = <<"append_progress", 0>> /\ p[n + 5] = <<"checkpoint", 0>>
  <2>1. /\ n + 4 \in 1 .. n + 5 /\ ~(n + 4 <= n + 3) /\ (n + 4) - (n + 3) = 1
        /\ n + 5 \in 1 .. n + 5 /\ ~(n + 5 <= n + 3) /\ (n + 5) - (n + 3) = 2
    BY <1>7
  <2>2. p[n + 4] = last[1] /\ p[n + 5] = last[2]  BY <1>10, <2>1
  <2> QED  BY <1>6, <2>2
<1> QED  BY <1>1, <1>10, <1>12, <1>13, <1>14 DEF p, q, n

(* The other calls have few statements. *)
LEMMA ShortProgram ==
  ASSUME NEW c \in Client
  PROVE  /\ Program(c, "replace_features") = ReplaceRows(c)
         /\ Program(c, "load") =
              << <<"read_manifest", 0>>, <<"read_features", 0>>,
                 <<"read_progress", 0>>, <<"read_checkpoints", 0>> >>
         /\ Program(c, "load_transcript") = << <<"read_transcript", 0>> >>
         /\ Program(c, "append_transcript") = << <<"message", 1>>, <<"message", 2>> >>
         /\ Program(c, "update_pass") = << <<"find", 0>>, <<"update", 0>> >>
         /\ Program(c, "is_initialized") = << <<"is_initialized", 0>> >>
         /\ Program(c, "save_manifest") = << <<"save_manifest", 0>> >>
         /\ Program(c, "append_progress") = << <<"append_progress", 0>> >>
         /\ Program(c, "checkpoint") = << <<"checkpoint", 0>> >>
BY DEF Program, Sql

(* A program is a sequence of statements, and has one. *)
LEMMA ProgramTyped ==
  ASSUME NEW c \in Client, NEW kind \in Kind
  PROVE  Program(c, kind) \in Seq(Statement) /\ Len(Program(c, kind)) > 0
<1>1. CASE kind = "initialize"
  <2>1. /\ Program(c, "initialize") \in Seq(Statement)
        /\ Len(Program(c, "initialize")) = Len(List[c]) + 5
    BY InitializeProgram
  <2>2. Len(List[c]) \in Nat  BY ReplaceProgram
  <2> QED  BY <1>1, <2>1, <2>2
<1>2. CASE kind = "replace_features"
  BY <1>2, ReplaceProgram, ShortProgram
<1>3. \A k \in StatementKind, i \in Nat : <<k, i>> \in Statement
  BY DEF Statement
<1>4. CASE kind \notin {"initialize", "replace_features"}
  <2>1. StatementKind = {"claim", "clear_features", "find", "is_initialized", "read_manifest",
          "read_features", "read_progress", "read_checkpoints", "read_transcript", "save_manifest",
          "insert_feature", "update", "append_progress", "checkpoint", "message"}
    BY DEF StatementKind, ReadStatements, WriteStatements
  <2>2. CASE kind = "load"
    <3>1. PICK w \in Statement, x \in Statement, y \in Statement, z \in Statement :
            /\ w = <<"read_manifest", 0>> /\ x = <<"read_features", 0>>
            /\ y = <<"read_progress", 0>> /\ z = <<"read_checkpoints", 0>>
      BY <1>3, <2>1
    <3>2. Program(c, kind) = << w, x, y, z >>  BY <2>2, <3>1, ShortProgram
    <3>3. << w, x, y, z >> \in Seq(Statement) /\ Len(<< w, x, y, z >>) = 4  BY FourOf
    <3> QED  BY <3>2, <3>3
  <2>3. CASE kind = "append_transcript"
    <3>1. PICK x \in Statement, y \in Statement : x = <<"message", 1>> /\ y = <<"message", 2>>
      BY <1>3, <2>1
    <3>2. Program(c, kind) = << x, y >>  BY <2>3, <3>1, ShortProgram
    <3>3. << x, y >> \in Seq(Statement) /\ Len(<< x, y >>) = 2  BY TwoOf
    <3> QED  BY <3>2, <3>3
  <2>4. CASE kind = "update_pass"
    <3>1. PICK x \in Statement, y \in Statement : x = <<"find", 0>> /\ y = <<"update", 0>>
      BY <1>3, <2>1
    <3>2. Program(c, kind) = << x, y >>  BY <2>4, <3>1, ShortProgram
    <3>3. << x, y >> \in Seq(Statement) /\ Len(<< x, y >>) = 2  BY TwoOf
    <3> QED  BY <3>2, <3>3
  <2>5. CASE kind \in {"load_transcript", "is_initialized", "save_manifest", "append_progress", "checkpoint"}
    <3> DEFINE k == IF kind = "load_transcript" THEN "read_transcript" ELSE kind
    <3>1. PICK x \in Statement : x = <<k, 0>>  BY <1>3, <2>1, <2>5
    <3>2. Program(c, kind) = << x >>  BY <2>5, <3>1, ShortProgram
    <3>3. << x >> \in Seq(Statement) /\ Len(<< x >>) = 1  BY OneOf
    <3> QED  BY <3>2, <3>3
  <2> QED  BY <1>4, <2>2, <2>3, <2>4, <2>5 DEF Kind
<1> QED  BY <1>1, <1>2, <1>4

-----------------------------------------------------------------------------
(* The tables. *)

RowType == [row : Nat, id : Feature, passes : BOOLEAN]

DbType ==
  [manifest    : Client \cup {NoManifest},
   features    : Seq(RowType),
   progress    : Seq(Client),
   checkpoints : Seq([run : Client, status : RunStatus]),
   transcript  : Seq(Message)]

Tables(m, f, p, k, t) ==
  [manifest |-> m, features |-> f, progress |-> p, checkpoints |-> k, transcript |-> t]

Lists(rows) == [i \in DOMAIN rows |-> [id |-> rows[i].id, passes |-> rows[i].passes]]

Marked(rows, r) ==
  [i \in DOMAIN rows |-> IF rows[i].row = r THEN [rows[i] EXCEPT !.passes = TRUE] ELSE rows[i]]

(* Row ids are below the next one, and no two rows have the same. *)
Numbered(rows, next) ==
  /\ next \in Nat
  /\ \A i \in DOMAIN rows : rows[i].row < next
  /\ \A i, j \in DOMAIN rows : rows[i].row = rows[j].row => i = j

(* The tables, one by one. *)
LEMMA DbParts ==
  ASSUME NEW d \in DbType
  PROVE  /\ d.manifest \in Client \cup {NoManifest}
         /\ d.features \in Seq(RowType)
         /\ d.progress \in Seq(Client)
         /\ d.checkpoints \in Seq([run : Client, status : RunStatus])
         /\ d.transcript \in Seq(Message)
BY DEF DbType

(* Tables are given by what is in each, and the session in them by what it lists. *)
LEMMA DbTabled ==
  ASSUME NEW d \in DbType
  PROVE  /\ d = Tables(d.manifest, d.features, d.progress, d.checkpoints, d.transcript)
         /\ SessionOf(d) = Tables(d.manifest, Lists(d.features), d.progress, d.checkpoints, d.transcript)
<1>1. d = Tables(d.manifest, d.features, d.progress, d.checkpoints, d.transcript)
  BY DEF DbType, Tables
<1>2. SessionOf(d) = [d EXCEPT !.features = Lists(d.features)]
  BY DEF SessionOf, Lists
<1>3. [d EXCEPT !.features = Lists(d.features)] =
        Tables(d.manifest, Lists(d.features), d.progress, d.checkpoints, d.transcript)
  <2>1. PICK m, f, p, k, t : /\ m = d.manifest /\ f = d.features /\ p = d.progress
                             /\ k = d.checkpoints /\ t = d.transcript
    OBVIOUS
  <2>2. d = Tables(m, f, p, k, t)  BY <1>1, <2>1
  <2>3. PICK x : x = Lists(d.features)  OBVIOUS
  <2>4. [Tables(m, f, p, k, t) EXCEPT !.features = x] = Tables(m, x, p, k, t)  BY DEF Tables
  <2> QED  BY <2>1, <2>2, <2>3, <2>4
<1> QED  BY <1>1, <1>2, <1>3

(* A session lists the rows in their order. *)
LEMMA ListsFacts ==
  ASSUME NEW rows \in Seq(RowType)
  PROVE  /\ Lists(rows) \in Seq(FeatureRecord(Feature))
         /\ Len(Lists(rows)) = Len(rows) /\ DOMAIN Lists(rows) = DOMAIN rows
         /\ \A i \in DOMAIN rows : /\ Lists(rows)[i].id = rows[i].id
                                   /\ Lists(rows)[i].passes = rows[i].passes
<1>1. DOMAIN rows = 1 .. Len(rows) /\ Len(rows) \in Nat  OBVIOUS
<1>2. \A i \in DOMAIN rows : rows[i] \in RowType  OBVIOUS
<1>3. \A i \in DOMAIN rows : [id |-> rows[i].id, passes |-> rows[i].passes] \in FeatureRecord(Feature)
  BY <1>2 DEF RowType, FeatureRecord
<1>4. Lists(rows) \in [1 .. Len(rows) -> FeatureRecord(Feature)]
  BY <1>1, <1>3 DEF Lists
<1>5. Lists(rows) \in Seq(FeatureRecord(Feature))  BY <1>1, <1>4, SeqDef
<1>6. DOMAIN Lists(rows) = DOMAIN rows  BY DEF Lists
<1>7. Len(Lists(rows)) = Len(rows)  BY <1>1, <1>5, <1>6
<1>8. \A i \in DOMAIN rows : /\ Lists(rows)[i].id = rows[i].id
                             /\ Lists(rows)[i].passes = rows[i].passes
  BY DEF Lists
<1> QED  BY <1>5, <1>6, <1>7, <1>8

(* The rows of a list. *)
LEMMA SameLists ==
  ASSUME NEW rows \in Seq(RowType), NEW fs \in Seq(FeatureRecord(Feature)),
         Len(rows) = Len(fs),
         \A i \in DOMAIN rows : rows[i].id = fs[i].id /\ rows[i].passes = fs[i].passes
  PROVE  Lists(rows) = fs
<1>1. DOMAIN rows = 1 .. Len(fs) /\ Len(fs) \in Nat  OBVIOUS
<1>2. \A i \in 1 .. Len(fs) : fs[i] = [id |-> fs[i].id, passes |-> fs[i].passes]
  <2>1. \A i \in 1 .. Len(fs) : fs[i] \in FeatureRecord(Feature)  OBVIOUS
  <2> QED  BY <2>1 DEF FeatureRecord
<1>3. \A i \in 1 .. Len(fs) : Lists(rows)[i] = fs[i]
  BY <1>1, <1>2 DEF Lists
<1>4. Lists(rows) \in Seq(FeatureRecord(Feature)) /\ Len(Lists(rows)) = Len(fs)  BY ListsFacts
<1> QED  BY <1>3, <1>4, SeqEqual

(* A feature as a row. *)
LEMMA RowTyped ==
  ASSUME NEW n \in Nat, NEW f \in FeatureRecord(Feature)
  PROVE  /\ Row(n, f) \in RowType
         /\ Row(n, f).row = n /\ Row(n, f).id = f.id /\ Row(n, f).passes = f.passes
BY DEF Row, RowType, FeatureRecord

(* A row that is appended. *)
LEMMA RowAppended ==
  ASSUME NEW rows \in Seq(RowType), NEW n \in Nat, NEW f \in FeatureRecord(Feature),
         Numbered(rows, n)
  PROVE  LET new == Append(rows, Row(n, f)) IN
         /\ new \in Seq(RowType) /\ Len(new) = Len(rows) + 1
         /\ \A i \in DOMAIN rows : new[i] = rows[i]
         /\ new[Len(rows) + 1] = Row(n, f)
         /\ Numbered(new, n + 1)
<1> DEFINE r == Row(n, f)
           new == Append(rows, r)
<1>1. r \in RowType /\ r.row = n  BY RowTyped
<1> HIDE DEF r
<1>2. /\ new \in Seq(RowType) /\ Len(new) = Len(rows) + 1 /\ DOMAIN new = 1 .. Len(rows) + 1
      /\ DOMAIN rows = 1 .. Len(rows) /\ Len(rows) \in Nat
      /\ \A i \in DOMAIN rows : new[i] = rows[i]
      /\ new[Len(rows) + 1] = r
  BY <1>1
<1> HIDE DEF new
<1>3. \A i \in DOMAIN new : i \in DOMAIN rows \/ i = Len(rows) + 1  BY <1>2
<1>4. \A i \in DOMAIN rows : rows[i] \in RowType  OBVIOUS
<1>5. \A i \in DOMAIN rows : rows[i].row \in Nat  BY <1>4 DEF RowType
<1>6. \A i \in DOMAIN new : new[i].row < n + 1  BY <1>1, <1>2, <1>3, <1>5 DEF Numbered
<1>7. \A i, j \in DOMAIN new : new[i].row = new[j].row => i = j
  BY <1>1, <1>2, <1>3, <1>5 DEF Numbered
<1> QED  BY <1>2, <1>6, <1>7 DEF Numbered, new, r

(* A row that is marked. *)
LEMMA RowMarked ==
  ASSUME NEW rows \in Seq(RowType), NEW r
  PROVE  /\ Marked(rows, r) \in Seq(RowType) /\ DOMAIN Marked(rows, r) = DOMAIN rows
         /\ Len(Marked(rows, r)) = Len(rows)
         /\ \A i \in DOMAIN rows :
              /\ Marked(rows, r)[i].row = rows[i].row /\ Marked(rows, r)[i].id = rows[i].id
              /\ Marked(rows, r)[i].passes = (rows[i].passes \/ rows[i].row = r)
         /\ \A n : Numbered(rows, n) => Numbered(Marked(rows, r), n)
<1>1. DOMAIN rows = 1 .. Len(rows) /\ Len(rows) \in Nat  OBVIOUS
<1>2. \A i \in DOMAIN rows : rows[i] \in RowType  OBVIOUS
<1>3. ASSUME NEW i \in DOMAIN rows
      PROVE  LET x == IF rows[i].row = r THEN [rows[i] EXCEPT !.passes = TRUE] ELSE rows[i] IN
             /\ x \in RowType /\ x.row = rows[i].row /\ x.id = rows[i].id
             /\ x.passes = (rows[i].passes \/ rows[i].row = r)
  BY <1>2 DEF RowType
<1>4. \A i \in DOMAIN rows :
        /\ Marked(rows, r)[i] \in RowType
        /\ Marked(rows, r)[i].row = rows[i].row /\ Marked(rows, r)[i].id = rows[i].id
        /\ Marked(rows, r)[i].passes = (rows[i].passes \/ rows[i].row = r)
  BY <1>3 DEF Marked
<1>5. DOMAIN Marked(rows, r) = DOMAIN rows  BY DEF Marked
<1>6. Marked(rows, r) \in Seq(RowType)
  <2>1. Marked(rows, r) = [i \in 1 .. Len(rows) |-> Marked(rows, r)[i]]  BY <1>1 DEF Marked
  <2>2. Marked(rows, r) \in [1 .. Len(rows) -> RowType]  BY <1>1, <1>4, <2>1
  <2> QED  BY <1>1, <2>2, SeqDef
<1>7. Len(Marked(rows, r)) = Len(rows)  BY <1>1, <1>5, <1>6
<1> QED  BY <1>4, <1>5, <1>6, <1>7 DEF Numbered

(* What each statement does to the tables. *)
LEMMA Executed ==
  ASSUME NEW c, NEW d
  PROVE  /\ Execute(c, <<"claim", 0>>, d) = [d EXCEPT !.manifest = c]
         /\ Execute(c, <<"save_manifest", 0>>, d) = [d EXCEPT !.manifest = c]
         /\ Execute(c, <<"clear_features", 0>>, d) = [d EXCEPT !.features = << >>]
         /\ \A i : Execute(c, <<"insert_feature", i>>, d) =
                     [d EXCEPT !.features = Append(d.features, Row(nextRow, List[c][i]))]
         /\ Execute(c, <<"update", 0>>, d) = [d EXCEPT !.features = Marked(d.features, found[c])]
         /\ Execute(c, <<"append_progress", 0>>, d) = [d EXCEPT !.progress = Append(d.progress, c)]
         /\ Execute(c, <<"checkpoint", 0>>, d) =
              [d EXCEPT !.checkpoints = Append(d.checkpoints,
                 [run |-> c, status |-> IF op[c] = "initialize" THEN "InProgress" ELSE "Succeeded"])]
         /\ \A i : Execute(c, <<"message", i>>, d) =
                     [d EXCEPT !.transcript = Append(d.transcript, Turn(c)[i])]
<1> USE DEF Execute
<1>1. /\ Execute(c, <<"claim", 0>>, d) = [d EXCEPT !.manifest = c]
      /\ Execute(c, <<"save_manifest", 0>>, d) = [d EXCEPT !.manifest = c]
  OBVIOUS
<1>2. Execute(c, <<"clear_features", 0>>, d) = [d EXCEPT !.features = << >>]  OBVIOUS
<1>3. ASSUME NEW i
      PROVE  Execute(c, <<"insert_feature", i>>, d) =
                     [d EXCEPT !.features = Append(d.features, Row(nextRow, List[c][i]))]
  OBVIOUS
<1>4. Execute(c, <<"update", 0>>, d) = [d EXCEPT !.features = Marked(d.features, found[c])]
  BY DEF Marked
<1>5. Execute(c, <<"append_progress", 0>>, d) = [d EXCEPT !.progress = Append(d.progress, c)]
  OBVIOUS
<1>6. Execute(c, <<"checkpoint", 0>>, d) =
              [d EXCEPT !.checkpoints = Append(d.checkpoints,
                 [run |-> c, status |-> IF op[c] = "initialize" THEN "InProgress" ELSE "Succeeded"])]
  OBVIOUS
<1>7. ASSUME NEW i
      PROVE  Execute(c, <<"message", i>>, d) =
                     [d EXCEPT !.transcript = Append(d.transcript, Turn(c)[i])]
  OBVIOUS
<1> HIDE DEF Execute
<1> QED  BY <1>1, <1>2, <1>3, <1>4, <1>5, <1>6, <1>7

(* The other tables stay. *)
LEMMA DbChanged ==
  ASSUME NEW d \in DbType
  PROVE  /\ \A v : LET t == [d EXCEPT !.manifest = v] IN
              /\ t.manifest = v /\ t.features = d.features /\ t.progress = d.progress
              /\ t.checkpoints = d.checkpoints /\ t.transcript = d.transcript
              /\ v \in Client => t \in DbType
         /\ \A v : LET t == [d EXCEPT !.features = v] IN
              /\ t.features = v /\ t.manifest = d.manifest /\ t.progress = d.progress
              /\ t.checkpoints = d.checkpoints /\ t.transcript = d.transcript
              /\ v \in Seq(RowType) => t \in DbType
         /\ \A v : LET t == [d EXCEPT !.progress = v] IN
              /\ t.progress = v /\ t.manifest = d.manifest /\ t.features = d.features
              /\ t.checkpoints = d.checkpoints /\ t.transcript = d.transcript
              /\ v \in Seq(Client) => t \in DbType
         /\ \A v : LET t == [d EXCEPT !.checkpoints = v] IN
              /\ t.checkpoints = v /\ t.manifest = d.manifest /\ t.features = d.features
              /\ t.progress = d.progress /\ t.transcript = d.transcript
              /\ v \in Seq([run : Client, status : RunStatus]) => t \in DbType
         /\ \A v : LET t == [d EXCEPT !.transcript = v] IN
              /\ t.transcript = v /\ t.manifest = d.manifest /\ t.features = d.features
              /\ t.progress = d.progress /\ t.checkpoints = d.checkpoints
              /\ v \in Seq(Message) => t \in DbType
<1>1. \A v : LET t == [d EXCEPT !.manifest = v] IN
              /\ t.manifest = v /\ t.features = d.features /\ t.progress = d.progress
              /\ t.checkpoints = d.checkpoints /\ t.transcript = d.transcript
              /\ v \in Client => t \in DbType
  BY DEF DbType
<1>2. \A v : LET t == [d EXCEPT !.features = v] IN
              /\ t.features = v /\ t.manifest = d.manifest /\ t.progress = d.progress
              /\ t.checkpoints = d.checkpoints /\ t.transcript = d.transcript
              /\ v \in Seq(RowType) => t \in DbType
  BY DEF DbType
<1>3. \A v : LET t == [d EXCEPT !.progress = v] IN
              /\ t.progress = v /\ t.manifest = d.manifest /\ t.features = d.features
              /\ t.checkpoints = d.checkpoints /\ t.transcript = d.transcript
              /\ v \in Seq(Client) => t \in DbType
  BY DEF DbType
<1>4. \A v : LET t == [d EXCEPT !.checkpoints = v] IN
              /\ t.checkpoints = v /\ t.manifest = d.manifest /\ t.features = d.features
              /\ t.progress = d.progress /\ t.transcript = d.transcript
              /\ v \in Seq([run : Client, status : RunStatus]) => t \in DbType
  BY DEF DbType
<1>5. \A v : LET t == [d EXCEPT !.transcript = v] IN
              /\ t.transcript = v /\ t.manifest = d.manifest /\ t.features = d.features
              /\ t.progress = d.progress /\ t.checkpoints = d.checkpoints
              /\ v \in Seq(Message) => t \in DbType
  BY DEF DbType
<1> QED  BY <1>1, <1>2, <1>3, <1>4, <1>5

-----------------------------------------------------------------------------
(* The invariant of the programs and of the data. *)

Points == {"idle", "called", "running", "done"}

(* A call under way has executed a part of its program. *)
ProgramInv ==
  /\ op \in [Client -> Kind]
  /\ pc \in [Client -> Points]
  /\ todo \in [Client -> Seq(Statement)]
  /\ \A c \in Client :
       /\ pc[c] \in {"idle", "done"} => todo[c] = << >>
       /\ pc[c] = "called" => todo[c] = Program(c, op[c])
       /\ pc[c] = "running" => /\ At(c) \in 1 .. Len(Program(c, op[c])) - 1
                               /\ todo[c] = Rest(Program(c, op[c]), At(c))
  /\ OneProcess => \A c, d \in Client : pc[c] = "running" /\ pc[d] = "running" => c = d

AnswerStatus == {"none", "ok", "created", "exists", "missing", "not_found", "error"}

DataInv ==
  /\ db \in DbType /\ Numbered(db.features, nextRow)
  /\ DOMAIN found = Client
  /\ answer \in [Client -> [status : AnswerStatus, state : SessionType]]
  /\ \A c \in Client : pc[c] = "called" => answer[c] = NoAnswer

(* The statement of a client that is scheduled. *)
LEMMA Next1 ==
  ASSUME ProgramInv, NEW c \in Client, NEW kinds, Scheduled(c, kinds)
  PROVE  LET p == Program(c, op[c])
             n == At(c)
         IN  /\ p \in Seq(Statement) /\ Len(p) \in Nat /\ n \in 0 .. Len(p) - 1
             /\ Head(todo[c]) = p[n + 1] /\ p[n + 1][1] \in kinds
             /\ p[n + 1] \in Statement
             /\ Tail(todo[c]) = Rest(p, n + 1) /\ todo[c] = Rest(p, n)
             /\ pc[c] = "called" <=> n = 0
             /\ pc[c] \in {"called", "running"}
             /\ OneProcess => \A d \in Client \ {c} : pc[d] # "running"
<1> DEFINE p == Program(c, op[c])
           n == At(c)
<1>1. p \in Seq(Statement) /\ Len(p) > 0
  <2>1. PICK kind \in Kind : kind = op[c]  BY DEF ProgramInv
  <2> QED  BY <2>1, ProgramTyped
<1>2. Len(p) \in Nat  BY <1>1
<1>3. n \in 0 .. Len(p) - 1 /\ todo[c] = Rest(p, n) /\ (pc[c] = "called" <=> n = 0)
  <2>1. CASE pc[c] = "called"
    <3>1. todo[c] = p  BY <2>1 DEF ProgramInv
    <3>2. n = 0  BY <1>2, <3>1 DEF At
    <3> QED  BY <1>1, <1>2, <2>1, <3>1, <3>2, RestFacts
  <2>2. CASE pc[c] = "running"
    BY <1>2, <2>2 DEF ProgramInv
  <2> QED  BY <2>1, <2>2 DEF Scheduled
<1> HIDE DEF p, n
<1>4. Head(Rest(p, n)) = p[n + 1] /\ Tail(Rest(p, n)) = Rest(p, n + 1)
  BY <1>1, <1>3, RestFacts
<1>5. p[n + 1] \in Statement  BY <1>1, <1>2, <1>3
<1> QED  BY <1>1, <1>2, <1>3, <1>4, <1>5 DEF p, n, Scheduled

(* Client c goes on, to the next statement or to its answer. *)
LEMMA Proceeds ==
  ASSUME ProgramInv, NEW c \in Client, NEW kinds, Scheduled(c, kinds), op' = op,
         NEW r, r = << >> \/ r = Tail(todo[c]), Proceed(c, r)
  PROVE  /\ ProgramInv'
         /\ pc'[c] = IF r = << >> THEN "done" ELSE "running"
         /\ r = Tail(todo[c]) /\ At(c) + 1 = Len(Program(c, op[c])) => r = << >>
         /\ r = Tail(todo[c]) /\ r = << >> => At(c) + 1 = Len(Program(c, op[c]))
         /\ pc'[c] = "running" => At(c)' = At(c) + 1
         /\ \A d \in Client \ {c} : pc'[d] = pc[d] /\ todo'[d] = todo[d] /\ At(d)' = At(d)
<1> DEFINE p == Program(c, op[c])
           n == At(c)
           t == Tail(todo[c])
<1>1. /\ p \in Seq(Statement) /\ Len(p) \in Nat /\ n \in 0 .. Len(p) - 1
      /\ t = Rest(p, n + 1)
      /\ OneProcess => \A d \in Client \ {c} : pc[d] # "running"
  BY Next1
<1>2. /\ Rest(p, n + 1) \in Seq(Statement) /\ Len(Rest(p, n + 1)) = Len(p) - (n + 1)
      /\ (n + 1 = Len(p) => Rest(p, n + 1) = << >>)
  <2>1. n + 1 \in 0 .. Len(p)  BY <1>1
  <2> QED  BY <1>1, <2>1, RestFacts
<1> HIDE DEF p, n, t
<1>3. t = << >> <=> n + 1 = Len(p)
  <2>1. t \in Seq(Statement) /\ Len(t) = Len(p) - (n + 1) /\ (n + 1 = Len(p) => t = << >>)
    BY <1>1, <1>2
  <2>2. t = << >> => Len(t) = 0  OBVIOUS
  <2> QED  BY <1>1, <2>1, <2>2
<1>r. r = << >> \/ r = t  BY DEF t
<1>4. r \in Seq(Statement)
  <2>1. t \in Seq(Statement)  BY <1>1, <1>2
  <2>2. << >> \in Seq(Statement)  OBVIOUS
  <2> QED  BY <1>r, <2>1, <2>2, Zenon
<1>5. /\ todo' = [todo EXCEPT ![c] = r]
      /\ pc' = [pc EXCEPT ![c] = IF r = << >> THEN "done" ELSE "running"]
  BY DEF Proceed
<1>6. /\ todo' \in [Client -> Seq(Statement)] /\ pc' \in [Client -> Points] /\ op' \in [Client -> Kind]
      /\ todo'[c] = r /\ pc'[c] = IF r = << >> THEN "done" ELSE "running"
      /\ \A d \in Client \ {c} : pc'[d] = pc[d] /\ todo'[d] = todo[d]
  BY <1>4, <1>5 DEF ProgramInv, Points
<1>7. \A d \in Client \ {c} : At(d)' = At(d)  BY <1>6 DEF At
<1>8. pc'[c] = "running" => At(c)' = n + 1 /\ n + 1 \in 1 .. Len(p) - 1 /\ todo'[c] = Rest(p, n + 1)
  <2> SUFFICES ASSUME pc'[c] = "running"
               PROVE  At(c)' = n + 1 /\ n + 1 \in 1 .. Len(p) - 1 /\ todo'[c] = Rest(p, n + 1)
    OBVIOUS
  <2>1. r # << >> /\ r = t /\ n + 1 # Len(p)  BY <1>r, <1>3, <1>6
  <2>2. todo'[c] = Rest(p, n + 1)  BY <1>1, <1>6, <2>1
  <2>3. At(c)' = Len(p) - Len(todo'[c])  BY DEF At, p
  <2> QED  BY <1>1, <1>2, <2>1, <2>2, <2>3
<1>9. ProgramInv'
  <2>1. \A d \in Client \ {c} :
          /\ pc'[d] \in {"idle", "done"} => todo'[d] = << >>
          /\ pc'[d] = "called" => todo'[d] = Program(d, op'[d])
          /\ pc'[d] = "running" => /\ At(d)' \in 1 .. Len(Program(d, op'[d])) - 1
                                   /\ todo'[d] = Rest(Program(d, op'[d]), At(d)')
    BY <1>6, <1>7 DEF ProgramInv
  <2>2. /\ pc'[c] \in {"idle", "done"} => todo'[c] = << >>
        /\ pc'[c] # "called"
        /\ pc'[c] = "running" => /\ At(c)' \in 1 .. Len(Program(c, op'[c])) - 1
                                 /\ todo'[c] = Rest(Program(c, op'[c]), At(c)')
    BY <1>6, <1>8 DEF p
  <2>3. OneProcess => \A e, d \in Client : pc'[e] = "running" /\ pc'[d] = "running" => e = d
    BY <1>1, <1>6
  <2>4. \A d \in Client :
          /\ pc'[d] \in {"idle", "done"} => todo'[d] = << >>
          /\ pc'[d] = "called" => todo'[d] = Program(d, op'[d])
          /\ pc'[d] = "running" => /\ At(d)' \in 1 .. Len(Program(d, op'[d])) - 1
                                   /\ todo'[d] = Rest(Program(d, op'[d]), At(d)')
    BY <2>1, <2>2
  <2> QED  BY <1>6, <2>3, <2>4 DEF ProgramInv
<1> QED  BY <1>3, <1>6, <1>7, <1>8, <1>9 DEF p, n, t

(* The statement that follows n others. *)
LEMMA StatementAt ==
  ASSUME NEW c \in Client, NEW kind \in Kind, NEW n \in 0 .. Len(Program(c, kind)) - 1
  PROVE  LET x == Program(c, kind)[n + 1]
             m == Len(List[c])
         IN  /\ m \in Nat
             /\ kind = "initialize" =>
                  /\ Len(Program(c, kind)) = m + 5
                  /\ n = 0 => x = <<"claim", 0>>
                  /\ n = 1 => x = <<"save_manifest", 0>>
                  /\ n = 2 => x = <<"clear_features", 0>>
                  /\ n \in 3 .. m + 2 => x = <<"insert_feature", n - 2>> /\ n - 2 \in 1 .. m
                  /\ n = m + 3 => x = <<"append_progress", 0>>
                  /\ n = m + 4 => x = <<"checkpoint", 0>>
             /\ kind = "replace_features" =>
                  /\ Len(Program(c, kind)) = m + 1
                  /\ n = 0 => x = <<"clear_features", 0>>
                  /\ n \in 1 .. m => x = <<"insert_feature", n>>
             /\ kind = "load" =>
                  /\ Len(Program(c, kind)) = 4
                  /\ n = 0 => x = <<"read_manifest", 0>>
                  /\ n = 1 => x = <<"read_features", 0>>
                  /\ n = 2 => x = <<"read_progress", 0>>
                  /\ n = 3 => x = <<"read_checkpoints", 0>>
             /\ kind = "load_transcript" => Len(Program(c, kind)) = 1 /\ x = <<"read_transcript", 0>>
             /\ kind = "append_transcript" =>
                  /\ Len(Program(c, kind)) = 2
                  /\ n = 0 => x = <<"message", 1>>
                  /\ n = 1 => x = <<"message", 2>>
             /\ kind = "update_pass" =>
                  /\ Len(Program(c, kind)) = 2
                  /\ n = 0 => x = <<"find", 0>>
                  /\ n = 1 => x = <<"update", 0>>
             /\ kind \in {"is_initialized", "save_manifest", "append_progress", "checkpoint"} =>
                  Len(Program(c, kind)) = 1 /\ x = <<kind, 0>>
<1> DEFINE x == Program(c, kind)[n + 1]
           m == Len(List[c])
<1>1. m \in Nat  BY ReplaceProgram
<1>2. CASE kind = "initialize"
  <2> DEFINE p == Program(c, "initialize")
  <2>1. /\ Len(p) = m + 5
        /\ p[1] = <<"claim", 0>> /\ p[2] = <<"save_manifest", 0>>
        /\ p[3] = <<"clear_features", 0>>
        /\ \A i \in 1 .. m : p[i + 3] = <<"insert_feature", i>>
        /\ p[m + 4] = <<"append_progress", 0>> /\ p[m + 5] = <<"checkpoint", 0>>
    BY InitializeProgram
  <2>2. x = p[n + 1]  BY <1>2
  <2> HIDE DEF p, x
  <2>3. n \in 3 .. m + 2 => x = <<"insert_feature", n - 2>> /\ n - 2 \in 1 .. m
    <3> SUFFICES ASSUME n \in 3 .. m + 2 PROVE x = <<"insert_feature", n - 2>> /\ n - 2 \in 1 .. m
      OBVIOUS
    <3>1. n - 2 \in 1 .. m /\ (n - 2) + 3 = n + 1  BY <1>1
    <3> QED  BY <2>1, <2>2, <3>1
  <2>4. /\ n = 0 => x = <<"claim", 0>>
        /\ n = 1 => x = <<"save_manifest", 0>>
        /\ n = 2 => x = <<"clear_features", 0>>
        /\ n = m + 3 => x = <<"append_progress", 0>>
        /\ n = m + 4 => x = <<"checkpoint", 0>>
    <3>1. /\ n = 0 => n + 1 = 1
          /\ n = 1 => n + 1 = 2
          /\ n = 2 => n + 1 = 3
          /\ n = m + 3 => n + 1 = m + 4
          /\ n = m + 4 => n + 1 = m + 5
      BY <1>1
    <3> QED  BY <2>1, <2>2, <3>1
  <2>5. Len(Program(c, kind)) = m + 5  BY <1>2, <2>1 DEF p
  <2> QED  BY <1>1, <1>2, <2>3, <2>4, <2>5 DEF x
<1>3. CASE kind = "replace_features"
  <2> DEFINE p == ReplaceRows(c)
  <2>1. /\ Len(p) = m + 1
        /\ p[1] = <<"clear_features", 0>>
        /\ \A i \in 1 .. m : p[i + 1] = <<"insert_feature", i>>
    BY ReplaceProgram
  <2>2. Program(c, kind) = p  BY <1>3, ShortProgram
  <2> HIDE DEF p
  <2>3. x = p[n + 1]  BY <2>2
  <2>4. n = 0 => x = <<"clear_features", 0>>  BY <2>1, <2>3
  <2>5. n \in 1 .. m => x = <<"insert_feature", n>>  BY <2>1, <2>3
  <2> QED  BY <1>1, <1>3, <2>1, <2>2, <2>4, <2>5
<1>4. CASE kind = "load"
  <2>1. Program(c, kind) = << <<"read_manifest", 0>>, <<"read_features", 0>>,
                              <<"read_progress", 0>>, <<"read_checkpoints", 0>> >>
    BY <1>4, ShortProgram
  <2> QED  BY <1>1, <1>4, <2>1
<1>5. CASE kind = "append_transcript"
  <2>1. Program(c, kind) = << <<"message", 1>>, <<"message", 2>> >>  BY <1>5, ShortProgram
  <2> QED  BY <1>1, <1>5, <2>1
<1>6. CASE kind = "update_pass"
  <2>1. Program(c, kind) = << <<"find", 0>>, <<"update", 0>> >>  BY <1>6, ShortProgram
  <2> QED  BY <1>1, <1>6, <2>1
<1>7. CASE kind = "load_transcript"
  <2>1. Program(c, kind) = << <<"read_transcript", 0>> >>  BY <1>7, ShortProgram
  <2>2. Len(Program(c, kind)) = 1  BY <2>1
  <2>3. n = 0  BY <2>2
  <2> QED  BY <1>1, <1>7, <2>1, <2>2, <2>3
<1>8. CASE kind \in {"is_initialized", "save_manifest", "append_progress", "checkpoint"}
  <2>1. Program(c, kind) = << <<kind, 0>> >>  BY <1>8, ShortProgram
  <2>2. Len(Program(c, kind)) = 1  BY <2>1
  <2>3. n = 0  BY <2>2
  <2>4. x = <<kind, 0>>  BY <2>1, <2>3
  <2> QED  BY <1>1, <1>8, <2>2, <2>4
<1> QED  BY <1>2, <1>3, <1>4, <1>5, <1>6, <1>7, <1>8 DEF Kind

(* What a statement that writes changes. *)
Saves(c) == db' = [db EXCEPT !.manifest = c] /\ nextRow' = nextRow
Clears == db' = [db EXCEPT !.features = << >>] /\ nextRow' = nextRow
Inserts(c, i) ==
  /\ db' = [db EXCEPT !.features = Append(db.features, Row(nextRow, List[c][i]))]
  /\ nextRow' = nextRow + 1
Marks(c) == db' = [db EXCEPT !.features = Marked(db.features, found[c])] /\ nextRow' = nextRow
Logs(c) == db' = [db EXCEPT !.progress = Append(db.progress, c)] /\ nextRow' = nextRow
Records(c, status) ==
  /\ db' = [db EXCEPT !.checkpoints = Append(db.checkpoints, [run |-> c, status |-> status])]
  /\ nextRow' = nextRow
Says(c, i) == db' = [db EXCEPT !.transcript = Append(db.transcript, Turn(c)[i])] /\ nextRow' = nextRow

Writes(c) ==
  LET n == At(c)
      m == Len(List[c])
  IN  \/ /\ op[c] = "initialize"
         /\ \/ n = 1 /\ Saves(c)
            \/ n = 2 /\ Clears
            \/ n \in 3 .. m + 2 /\ Inserts(c, n - 2)
            \/ n = m + 3 /\ Logs(c)
            \/ n = m + 4 /\ Records(c, "InProgress")
      \/ /\ op[c] = "replace_features"
         /\ \/ n = 0 /\ Clears
            \/ n \in 1 .. m /\ Inserts(c, n)
      \/ op[c] = "append_transcript" /\ n \in {0, 1} /\ Says(c, n + 1)
      \/ op[c] = "update_pass" /\ n = 1 /\ Marks(c)
      \/ op[c] = "save_manifest" /\ n = 0 /\ Saves(c)
      \/ op[c] = "append_progress" /\ n = 0 /\ Logs(c)
      \/ op[c] = "checkpoint" /\ n = 0 /\ Records(c, "Succeeded")

(* A step that writes executes the statement of its call whose turn it is. *)
LEMMA Wrote ==
  ASSUME ProgramInv, NEW c \in Client, WriteRows(c)
  PROVE  Writes(c)
<1> DEFINE p == Program(c, op[c])
           n == At(c)
           m == Len(List[c])
           x == p[n + 1]
<1>1. /\ Scheduled(c, WriteStatements)
      /\ db' = Execute(c, Head(todo[c]), db)
      /\ nextRow' = IF Head(todo[c])[1] = "insert_feature" THEN nextRow + 1 ELSE nextRow
  BY DEF WriteRows
<1>2. /\ n \in 0 .. Len(p) - 1 /\ Head(todo[c]) = x /\ x[1] \in WriteStatements
  BY <1>1, Next1
<1>3. /\ x[1] \in WriteStatements
      /\ db' = Execute(c, x, db)
      /\ nextRow' = IF x[1] = "insert_feature" THEN nextRow + 1 ELSE nextRow
  BY <1>1, <1>2
<1>4. PICK kind \in Kind : kind = op[c]  BY DEF ProgramInv
<1>5. PICK k \in 0 .. Len(Program(c, kind)) - 1 : k = n  BY <1>2, <1>4
<1>6. x = Program(c, kind)[k + 1]  BY <1>4, <1>5
<1>7. m \in Nat  BY StatementAt
<1>8. k \in Nat  OBVIOUS
<1> HIDE DEF p, n, m, x
<1>9. CASE kind = "initialize"
  <2>1. /\ k \in 0 .. m + 4
        /\ k = 0 => x = <<"claim", 0>>
        /\ k = 1 => x = <<"save_manifest", 0>>
        /\ k = 2 => x = <<"clear_features", 0>>
        /\ k \in 3 .. m + 2 => x = <<"insert_feature", k - 2>>
        /\ k = m + 3 => x = <<"append_progress", 0>>
        /\ k = m + 4 => x = <<"checkpoint", 0>>
    <3>1. Len(Program(c, kind)) = m + 5  BY <1>9, StatementAt DEF m
    <3>2. k \in 0 .. m + 4  BY <1>7, <1>8, <3>1
    <3> QED  BY <1>6, <1>9, <3>2, StatementAt DEF m
  <2>2. k # 0  BY <1>3, <2>1 DEF WriteStatements
  <2>3. \/ k = 1 \/ k = 2 \/ k \in 3 .. m + 2 \/ k = m + 3 \/ k = m + 4
    BY <1>7, <1>8, <2>1, <2>2
  <2>4. CASE k = 1
    <3>1. x = <<"save_manifest", 0>>  BY <2>1, <2>4
    <3>2. Saves(c)  BY <1>3, <3>1, Executed DEF Saves
    <3> QED  BY <1>4, <1>5, <1>9, <2>4, <3>2 DEF Writes, n
  <2>5. CASE k = 2
    <3>1. x = <<"clear_features", 0>>  BY <2>1, <2>5
    <3>2. Clears  BY <1>3, <3>1, Executed DEF Clears
    <3> QED  BY <1>4, <1>5, <1>9, <2>5, <3>2 DEF Writes, n
  <2>6. CASE k \in 3 .. m + 2
    <3>1. x = <<"insert_feature", k - 2>>  BY <2>1, <2>6
    <3>2. Inserts(c, k - 2)
      <4>1. PICK i : i = k - 2  OBVIOUS
      <4>2. Execute(c, <<"insert_feature", i>>, db) =
              [db EXCEPT !.features = Append(db.features, Row(nextRow, List[c][i]))]
        <5>1. PICK d : d = db  OBVIOUS
        <5>2. Execute(c, <<"insert_feature", i>>, d) =
                [d EXCEPT !.features = Append(d.features, Row(nextRow, List[c][i]))]
          BY DEF Execute
        <5> QED  BY <5>1, <5>2
      <4>3. x = <<"insert_feature", i>>  BY <3>1, <4>1
      <4>4. x[1] = "insert_feature"  BY <4>3
      <4>5. Inserts(c, i)  BY <1>3, <4>2, <4>3, <4>4 DEF Inserts
      <4> QED  BY <4>1, <4>5
    <3> QED  BY <1>4, <1>5, <1>9, <2>6, <3>2 DEF Writes, n, m
  <2>7. CASE k = m + 3
    <3>1. x = <<"append_progress", 0>>  BY <2>1, <2>7
    <3>2. Logs(c)  BY <1>3, <3>1, Executed DEF Logs
    <3> QED  BY <1>4, <1>5, <1>9, <2>7, <3>2 DEF Writes, n, m
  <2>8. CASE k = m + 4
    <3>1. x = <<"checkpoint", 0>>  BY <2>1, <2>8
    <3>2. Records(c, "InProgress")  BY <1>3, <1>4, <1>9, <3>1, Executed DEF Records
    <3> QED  BY <1>4, <1>5, <1>9, <2>8, <3>2 DEF Writes, n, m
  <2> QED  BY <2>3, <2>4, <2>5, <2>6, <2>7, <2>8
<1>10. CASE kind = "replace_features"
  <2>1. /\ k \in 0 .. m
        /\ k = 0 => x = <<"clear_features", 0>>
        /\ k \in 1 .. m => x = <<"insert_feature", k>>
    <3>1. Len(Program(c, kind)) = m + 1  BY <1>10, StatementAt DEF m
    <3>2. k \in 0 .. m  BY <1>7, <1>8, <3>1
    <3> QED  BY <1>6, <1>10, <3>2, StatementAt DEF m
  <2>2. CASE k = 0
    <3>1. x = <<"clear_features", 0>>  BY <2>1, <2>2
    <3>2. Clears  BY <1>3, <3>1, Executed DEF Clears
    <3> QED  BY <1>4, <1>5, <1>10, <2>2, <3>2 DEF Writes, n
  <2>3. CASE k \in 1 .. m
    <3>1. x = <<"insert_feature", k>>  BY <2>1, <2>3
    <3>2. Inserts(c, k)
      <4>1. PICK i : i = k  OBVIOUS
      <4>2. Execute(c, <<"insert_feature", i>>, db) =
              [db EXCEPT !.features = Append(db.features, Row(nextRow, List[c][i]))]
        <5>1. PICK d : d = db  OBVIOUS
        <5>2. Execute(c, <<"insert_feature", i>>, d) =
                [d EXCEPT !.features = Append(d.features, Row(nextRow, List[c][i]))]
          BY DEF Execute
        <5> QED  BY <5>1, <5>2
      <4>3. x = <<"insert_feature", i>>  BY <3>1, <4>1
      <4>4. x[1] = "insert_feature"  BY <4>3
      <4>5. Inserts(c, i)  BY <1>3, <4>2, <4>3, <4>4 DEF Inserts
      <4> QED  BY <4>1, <4>5
    <3> QED  BY <1>4, <1>5, <1>10, <2>3, <3>2 DEF Writes, n, m
  <2> QED  BY <1>7, <2>1, <2>2, <2>3
<1>11. CASE kind = "append_transcript"
  <2>1. /\ k \in {0, 1}
        /\ k = 0 => x = <<"message", 1>>
        /\ k = 1 => x = <<"message", 2>>
    <3>1. Len(Program(c, kind)) = 2  BY <1>11, StatementAt
    <3>2. k \in {0, 1}  BY <1>8, <3>1
    <3> QED  BY <1>6, <1>11, <3>2, StatementAt
  <2>2. x = <<"message", k + 1>>  BY <2>1
  <2>3. Says(c, k + 1)
    <3>1. PICK i : i = k + 1  OBVIOUS
    <3>2. Execute(c, <<"message", i>>, db) =
            [db EXCEPT !.transcript = Append(db.transcript, Turn(c)[i])]
      <4>1. PICK d : d = db  OBVIOUS
      <4>2. Execute(c, <<"message", i>>, d) =
              [d EXCEPT !.transcript = Append(d.transcript, Turn(c)[i])]
        BY DEF Execute
      <4> QED  BY <4>1, <4>2
    <3>3. x = <<"message", i>>  BY <2>2, <3>1
    <3>4. x[1] # "insert_feature"  BY <3>3
    <3>5. Says(c, i)  BY <1>3, <3>2, <3>3, <3>4 DEF Says
    <3> QED  BY <3>1, <3>5
  <2> QED  BY <1>4, <1>5, <1>11, <2>1, <2>3 DEF Writes, n
<1>12. CASE kind = "update_pass"
  <2>1. /\ k \in {0, 1}
        /\ k = 0 => x = <<"find", 0>>
        /\ k = 1 => x = <<"update", 0>>
    <3>1. Len(Program(c, kind)) = 2  BY <1>12, StatementAt
    <3>2. k \in {0, 1}  BY <1>8, <3>1
    <3> QED  BY <1>6, <1>12, <3>2, StatementAt
  <2>2. k = 1 /\ x = <<"update", 0>>  BY <1>3, <2>1 DEF WriteStatements
  <2>3. Marks(c)  BY <1>3, <2>2, Executed DEF Marks
  <2> QED  BY <1>4, <1>5, <1>12, <2>2, <2>3 DEF Writes, n
<1>13. CASE kind \in {"save_manifest", "append_progress", "checkpoint"}
  <2>1. k = 0 /\ x = <<kind, 0>>
    <3>1. Len(Program(c, kind)) = 1  BY <1>13, StatementAt
    <3>2. k = 0  BY <1>8, <3>1
    <3> QED  BY <1>6, <1>13, <3>2, StatementAt
  <2>2. CASE kind = "save_manifest"
    <3>1. Saves(c)  BY <1>3, <2>1, <2>2, Executed DEF Saves
    <3> QED  BY <1>4, <1>5, <2>1, <2>2, <3>1 DEF Writes, n
  <2>3. CASE kind = "append_progress"
    <3>1. Logs(c)  BY <1>3, <2>1, <2>3, Executed DEF Logs
    <3> QED  BY <1>4, <1>5, <2>1, <2>3, <3>1 DEF Writes, n
  <2>4. CASE kind = "checkpoint"
    <3>0. x = <<"checkpoint", 0>> /\ op[c] # "initialize"  BY <1>4, <2>1, <2>4
    <3>a. x[1] # "insert_feature"  BY <3>0
    <3>b. db' = [db EXCEPT !.checkpoints = Append(db.checkpoints, [run |-> c, status |-> "Succeeded"])]
      BY <1>3, <3>0 DEF Execute
    <3>1. Records(c, "Succeeded")  BY <1>3, <3>a, <3>b DEF Records
    <3> QED  BY <1>4, <1>5, <2>1, <2>4, <3>1 DEF Writes, n
  <2> QED  BY <1>13, <2>2, <2>3, <2>4
<1>14. CASE kind \in {"load", "load_transcript", "is_initialized"}
  <2>1. x[1] \in ReadStatements
    <3>1. CASE kind = "load"
      <4>1. k \in {0, 1, 2, 3}
        <5>1. Len(Program(c, kind)) = 4  BY <3>1, StatementAt
        <5> QED  BY <1>8, <5>1
      <4>2. /\ k = 0 => x = <<"read_manifest", 0>>
            /\ k = 1 => x = <<"read_features", 0>>
            /\ k = 2 => x = <<"read_progress", 0>>
            /\ k = 3 => x = <<"read_checkpoints", 0>>
        BY <1>6, <3>1, StatementAt
      <4> QED  BY <4>1, <4>2 DEF ReadStatements
    <3>2. CASE kind = "load_transcript"
      <4>1. x = <<"read_transcript", 0>>  BY <1>6, <3>2, StatementAt
      <4> QED  BY <4>1 DEF ReadStatements
    <3>3. CASE kind = "is_initialized"
      <4>1. x = <<"is_initialized", 0>>  BY <1>6, <3>3, StatementAt
      <4> QED  BY <4>1 DEF ReadStatements
    <3> QED  BY <1>14, <3>1, <3>2, <3>3
  <2> QED  BY <1>3, <2>1 DEF ReadStatements, WriteStatements
<1> QED  BY <1>9, <1>10, <1>11, <1>12, <1>13, <1>14 DEF Kind

-----------------------------------------------------------------------------
(* The tables hold a session at every step.                                *)

(* A session in the tables, table by table. *)
LEMMA SessionFields ==
  ASSUME NEW d \in DbType
  PROVE  /\ SessionOf(d) \in SessionType
         /\ SessionOf(d).manifest = d.manifest
         /\ SessionOf(d).features = Lists(d.features)
         /\ SessionOf(d).progress = d.progress
         /\ SessionOf(d).checkpoints = d.checkpoints
         /\ SessionOf(d).transcript = d.transcript
         /\ IsInitialized(SessionOf(d)) <=> IsInitialized(d)
         /\ \A f : HasFeature(SessionOf(d), f) <=> HasFeature(d, f)
<1>1. PICK m \in Client \cup {NoManifest}, f \in Seq(FeatureRecord(Feature)), p \in Seq(Client),
           k \in Seq([run : Client, status : RunStatus]), t \in Seq(Message) :
        m = d.manifest /\ f = Lists(d.features) /\ p = d.progress /\ k = d.checkpoints /\ t = d.transcript
  BY DbParts, ListsFacts
<1>2. SessionOf(d) = Tables(m, f, p, k, t)  BY <1>1, DbTabled
<1>3. Tables(m, f, p, k, t) \in SessionType  BY DEF Tables, SessionType
<1>4. /\ SessionOf(d).manifest = d.manifest
      /\ SessionOf(d).features = Lists(d.features)
      /\ SessionOf(d).progress = d.progress
      /\ SessionOf(d).checkpoints = d.checkpoints
      /\ SessionOf(d).transcript = d.transcript
  BY <1>1, <1>2 DEF Tables
<1>5. \A g : HasFeature(SessionOf(d), g) <=> HasFeature(d, g)
  <2>1. d.features \in Seq(RowType)  BY DbParts
  <2>2. /\ DOMAIN Lists(d.features) = DOMAIN d.features
        /\ \A i \in DOMAIN d.features : Lists(d.features)[i].id = d.features[i].id
    BY <2>1, ListsFacts
  <2> QED  BY <1>4, <2>2 DEF HasFeature
<1> QED  BY <1>2, <1>3, <1>4, <1>5 DEF IsInitialized

(* The messages of a turn. *)
LEMMA Messages ==
  ASSUME NEW c \in Client
  PROVE  /\ Turn(c)[1] = [from |-> c, role |-> "user"] /\ Turn(c)[1] \in Message
         /\ Turn(c)[2] = [from |-> c, role |-> "assistant"] /\ Turn(c)[2] \in Message
BY DEF Turn, Message

(* The features of a client. *)
LEMMA Listed ==
  ASSUME NEW c \in Client
  PROVE  /\ List[c] \in Seq(FeatureRecord(Feature)) /\ Len(List[c]) \in Nat
         /\ \A i \in 1 .. Len(List[c]) : List[c][i] \in FeatureRecord(Feature)
BY ClientAssumption

(* What each kind of statement leaves as it was. *)
LEMMA Effects ==
  ASSUME DataInv, NEW c \in Client
  PROVE  /\ Saves(c) =>
              /\ db'.manifest = c /\ db'.features = db.features /\ db'.progress = db.progress
              /\ db'.checkpoints = db.checkpoints /\ db'.transcript = db.transcript
              /\ db' \in DbType /\ Numbered(db'.features, nextRow')
         /\ Clears =>
              /\ db'.features = << >> /\ db'.manifest = db.manifest /\ db'.progress = db.progress
              /\ db'.checkpoints = db.checkpoints /\ db'.transcript = db.transcript
              /\ db' \in DbType /\ Numbered(db'.features, nextRow')
         /\ Marks(c) =>
              /\ db'.features = Marked(db.features, found[c])
              /\ db'.manifest = db.manifest /\ db'.progress = db.progress
              /\ db'.checkpoints = db.checkpoints /\ db'.transcript = db.transcript
              /\ db' \in DbType /\ Numbered(db'.features, nextRow')
         /\ Logs(c) =>
              /\ db'.progress = Append(db.progress, c)
              /\ db'.manifest = db.manifest /\ db'.features = db.features
              /\ db'.checkpoints = db.checkpoints /\ db'.transcript = db.transcript
              /\ db' \in DbType /\ Numbered(db'.features, nextRow')
<1>1. PICK d \in DbType : d = db  BY DEF DataInv
<1>2. d.features \in Seq(RowType) /\ d.progress \in Seq(Client) /\ Numbered(d.features, nextRow)
  BY <1>1, DbParts DEF DataInv
<1>3. Saves(c) =>
        /\ db'.manifest = c /\ db'.features = db.features /\ db'.progress = db.progress
        /\ db'.checkpoints = db.checkpoints /\ db'.transcript = db.transcript
        /\ db' \in DbType /\ Numbered(db'.features, nextRow')
  BY <1>1, <1>2, DbChanged DEF Saves
<1>4. Clears =>
        /\ db'.features = << >> /\ db'.manifest = db.manifest /\ db'.progress = db.progress
        /\ db'.checkpoints = db.checkpoints /\ db'.transcript = db.transcript
        /\ db' \in DbType /\ Numbered(db'.features, nextRow')
  <2>1. << >> \in Seq(RowType)  OBVIOUS
  <2>2. Numbered(<< >>, nextRow)  BY <1>2 DEF Numbered
  <2>3. PICK v \in Seq(RowType) : v = << >>  BY <2>1
  <2>4. LET t == [d EXCEPT !.features = v] IN
              /\ t.features = v /\ t.manifest = d.manifest /\ t.progress = d.progress
              /\ t.checkpoints = d.checkpoints /\ t.transcript = d.transcript
              /\ t \in DbType
    BY DbChanged
  <2>5. Clears => db' = [d EXCEPT !.features = v] /\ nextRow' = nextRow  BY <1>1, <2>3 DEF Clears
  <2> QED  BY <1>1, <2>2, <2>3, <2>4, <2>5
<1>5. Marks(c) =>
        /\ db'.features = Marked(db.features, found[c])
        /\ db'.manifest = db.manifest /\ db'.progress = db.progress
        /\ db'.checkpoints = db.checkpoints /\ db'.transcript = db.transcript
        /\ db' \in DbType /\ Numbered(db'.features, nextRow')
  <2>1. PICK r : r = found[c]  OBVIOUS
  <2>2. PICK rows \in Seq(RowType) : rows = d.features  BY <1>2
  <2>3. /\ Marked(rows, r) \in Seq(RowType)
        /\ \A n : Numbered(rows, n) => Numbered(Marked(rows, r), n)
    BY RowMarked
  <2>4. Numbered(Marked(d.features, r), nextRow) /\ Marked(d.features, r) \in Seq(RowType)
    BY <1>2, <2>2, <2>3
  <2>5. PICK v \in Seq(RowType) : v = Marked(d.features, r)  BY <2>4
  <2>6. LET t == [d EXCEPT !.features = v] IN
              /\ t.features = v /\ t.manifest = d.manifest /\ t.progress = d.progress
              /\ t.checkpoints = d.checkpoints /\ t.transcript = d.transcript
              /\ t \in DbType
    BY DbChanged
  <2>7. Marks(c) => db' = [d EXCEPT !.features = v] /\ nextRow' = nextRow
    BY <1>1, <2>1, <2>5 DEF Marks
  <2> QED  BY <1>1, <2>1, <2>4, <2>5, <2>6, <2>7
<1>6. Logs(c) =>
        /\ db'.progress = Append(db.progress, c)
        /\ db'.manifest = db.manifest /\ db'.features = db.features
        /\ db'.checkpoints = db.checkpoints /\ db'.transcript = db.transcript
        /\ db' \in DbType /\ Numbered(db'.features, nextRow')
  <2>0. Append(d.progress, c) \in Seq(Client)  BY <1>2, AppendProperties
  <2>1. PICK v \in Seq(Client) : v = Append(d.progress, c)  BY <2>0
  <2>2. LET t == [d EXCEPT !.progress = v] IN
              /\ t.progress = v /\ t.manifest = d.manifest /\ t.features = d.features
              /\ t.checkpoints = d.checkpoints /\ t.transcript = d.transcript
              /\ t \in DbType
    BY DbChanged
  <2>3. Logs(c) => db' = [d EXCEPT !.progress = v] /\ nextRow' = nextRow  BY <1>1, <2>1 DEF Logs
  <2> QED  BY <1>1, <1>2, <2>1, <2>2, <2>3
<1> QED  BY <1>3, <1>4, <1>5, <1>6

(* And of what is appended: a row, a checkpoint, a message. *)
LEMMA Inserted ==
  ASSUME DataInv, NEW c \in Client, NEW i \in 1 .. Len(List[c]), Inserts(c, i)
  PROVE  /\ db'.features = Append(db.features, Row(nextRow, List[c][i]))
         /\ db'.manifest = db.manifest /\ db'.progress = db.progress
         /\ db'.checkpoints = db.checkpoints /\ db'.transcript = db.transcript
         /\ db' \in DbType /\ Numbered(db'.features, nextRow')
<1>1. PICK d \in DbType : d = db  BY DEF DataInv
<1>2. PICK rows \in Seq(RowType) : rows = d.features  BY DbParts
<1>3. PICK n \in Nat : n = nextRow  BY DEF DataInv, Numbered
<1>4. PICK f \in FeatureRecord(Feature) : f = List[c][i]  BY Listed
<1>5. Numbered(rows, n)  BY <1>1, <1>2, <1>3 DEF DataInv
<1>6. Append(rows, Row(n, f)) \in Seq(RowType) /\ Numbered(Append(rows, Row(n, f)), n + 1)
  BY <1>5, RowAppended
<1>7. PICK v \in Seq(RowType) : v = Append(rows, Row(n, f))  BY <1>6
<1>8. LET t == [d EXCEPT !.features = v] IN
              /\ t.features = v /\ t.manifest = d.manifest /\ t.progress = d.progress
              /\ t.checkpoints = d.checkpoints /\ t.transcript = d.transcript
              /\ t \in DbType
  BY DbChanged
<1>9. db' = [d EXCEPT !.features = v] /\ nextRow' = n + 1
  BY <1>1, <1>2, <1>3, <1>4, <1>7 DEF Inserts
<1> QED  BY <1>1, <1>2, <1>3, <1>4, <1>6, <1>7, <1>8, <1>9

(* A checkpoint. *)
LEMMA Recorded ==
  ASSUME DataInv, NEW c \in Client, NEW status \in RunStatus, Records(c, status)
  PROVE  /\ db'.checkpoints = Append(db.checkpoints, [run |-> c, status |-> status])
         /\ db'.manifest = db.manifest /\ db'.features = db.features
         /\ db'.progress = db.progress /\ db'.transcript = db.transcript
         /\ db' \in DbType /\ Numbered(db'.features, nextRow')
<1>1. PICK d \in DbType : d = db  BY DEF DataInv
<1>2. d.checkpoints \in Seq([run : Client, status : RunStatus])  BY DbParts
<1>3. PICK x \in [run : Client, status : RunStatus] : x = [run |-> c, status |-> status]  OBVIOUS
<1>a. Append(d.checkpoints, x) \in Seq([run : Client, status : RunStatus])
  BY <1>2, AppendProperties
<1>4. PICK v \in Seq([run : Client, status : RunStatus]) : v = Append(d.checkpoints, x)  BY <1>a
<1>5. LET t == [d EXCEPT !.checkpoints = v] IN
              /\ t.checkpoints = v /\ t.manifest = d.manifest /\ t.features = d.features
              /\ t.progress = d.progress /\ t.transcript = d.transcript
              /\ t \in DbType
  BY DEF DbType
<1>6. db' = [d EXCEPT !.checkpoints = v] /\ nextRow' = nextRow  BY <1>1, <1>3, <1>4 DEF Records
<1> QED  BY <1>1, <1>3, <1>4, <1>5, <1>6 DEF DataInv

(* A message. *)
LEMMA Said ==
  ASSUME DataInv, NEW c \in Client, NEW i \in {1, 2}, Says(c, i)
  PROVE  /\ db'.transcript = Append(db.transcript, Turn(c)[i])
         /\ db'.manifest = db.manifest /\ db'.features = db.features
         /\ db'.progress = db.progress /\ db'.checkpoints = db.checkpoints
         /\ db' \in DbType /\ Numbered(db'.features, nextRow')
<1>1. PICK d \in DbType : d = db  BY DEF DataInv
<1>2. d.transcript \in Seq(Message)  BY DbParts
<1>3. PICK x \in Message : x = Turn(c)[i]  BY Messages
<1>a. Append(d.transcript, x) \in Seq(Message)  BY <1>2, AppendProperties
<1>4. PICK v \in Seq(Message) : v = Append(d.transcript, x)  BY <1>a
<1>5. LET t == [d EXCEPT !.transcript = v] IN
              /\ t.transcript = v /\ t.manifest = d.manifest /\ t.features = d.features
              /\ t.progress = d.progress /\ t.checkpoints = d.checkpoints
              /\ t \in DbType
  BY DbChanged
<1>6. db' = [d EXCEPT !.transcript = v] /\ nextRow' = nextRow  BY <1>1, <1>3, <1>4 DEF Says
<1> QED  BY <1>1, <1>3, <1>4, <1>5, <1>6 DEF DataInv

(* So a statement that writes leaves tables behind. *)
LEMMA WritesTyped ==
  ASSUME DataInv, NEW c \in Client, Writes(c)
  PROVE  db' \in DbType /\ Numbered(db'.features, nextRow')
<1>1. PICK n : n = At(c)  OBVIOUS
<1>2. PICK m \in Nat : m = Len(List[c])  BY Listed
<1>3. \/ Saves(c) \/ Clears \/ Marks(c) \/ Logs(c)
      \/ Records(c, "InProgress") \/ Records(c, "Succeeded")
      \/ n \in {0, 1} /\ Says(c, n + 1)
      \/ n \in 3 .. m + 2 /\ Inserts(c, n - 2)
      \/ n \in 1 .. m /\ Inserts(c, n)
  BY <1>1, <1>2 DEF Writes
<1>4. CASE Saves(c) \/ Clears \/ Marks(c) \/ Logs(c)  BY <1>4, Effects
<1>5. CASE Records(c, "InProgress")  BY <1>5, Recorded DEF RunStatus
<1>6. CASE Records(c, "Succeeded")  BY <1>6, Recorded DEF RunStatus
<1>7. CASE n \in {0, 1} /\ Says(c, n + 1)
  <2>1. PICK i \in {1, 2} : i = n + 1  BY <1>7
  <2> QED  BY <1>7, <2>1, Said
<1>8. CASE n \in 3 .. m + 2 /\ Inserts(c, n - 2)
  <2>1. PICK i \in 1 .. m : i = n - 2  BY <1>8
  <2>2. i \in 1 .. Len(List[c]) /\ Inserts(c, i)  BY <1>2, <1>8, <2>1
  <2> QED  BY <2>2, Inserted
<1>9. CASE n \in 1 .. m /\ Inserts(c, n)
  <2>1. PICK i \in 1 .. m : i = n  BY <1>9
  <2>2. i \in 1 .. Len(List[c]) /\ Inserts(c, i)  BY <1>2, <1>9, <2>1
  <2> QED  BY <2>2, Inserted
<1> QED  BY <1>3, <1>4, <1>5, <1>6, <1>7, <1>8, <1>9

(* What is read is a part of a session. *)
LEMMA ReadTyped ==
  ASSUME NEW stmt, NEW s \in SessionType, NEW state \in SessionType
  PROVE  Read(stmt, state, s) \in SessionType
BY DEF Read, SessionType

TablesInv == ProgramInv /\ DataInv

(* What a step of c leaves to the others. *)
Apart(c) ==
  \A d \in Client \ {c} :
    /\ pc'[d] = pc[d] /\ todo'[d] = todo[d] /\ answer'[d] = answer[d]
    /\ op'[d] = op[d] /\ found'[d] = found[d] /\ At(d)' = At(d)

(* An answer with another status, or state. *)
LEMMA Answers ==
  ASSUME DataInv, NEW c \in Client
  PROVE  /\ answer[c].status \in AnswerStatus /\ answer[c].state \in SessionType
         /\ answer[c] = [status |-> answer[c].status, state |-> answer[c].state]
         /\ answer = [d \in Client |-> answer[d]] /\ DOMAIN answer = Client
<1>1. answer[c] \in [status : AnswerStatus, state : SessionType]  BY DEF DataInv
<1>2. \A a \in [status : AnswerStatus, state : SessionType] :
        /\ a.status \in AnswerStatus /\ a.state \in SessionType
        /\ a = [status |-> a.status, state |-> a.state]
  OBVIOUS
<1>3. answer = [d \in Client |-> answer[d]] /\ DOMAIN answer = Client  BY DEF DataInv
<1> QED  BY <1>1, <1>2, <1>3

(* The status of an answer is set. *)
LEMMA StatusSet ==
  ASSUME DataInv, NEW c \in Client, NEW status \in AnswerStatus, SetStatus(c, status)
  PROVE  /\ answer' \in [Client -> [status : AnswerStatus, state : SessionType]]
         /\ answer'[c] = [status |-> status, state |-> answer[c].state]
         /\ \A d \in Client \ {c} : answer'[d] = answer[d]
<1>1. answer' = [answer EXCEPT ![c].status = status]  BY DEF SetStatus
<1>2. answer[c] = [status |-> answer[c].status, state |-> answer[c].state] /\ answer[c].state \in SessionType
  BY Answers
<1>3. PICK s \in SessionType : s = answer[c].state  BY <1>2
<1>4. answer[c] = [status |-> answer[c].status, state |-> s]  BY <1>2, <1>3
<1>5. [answer[c] EXCEPT !.status = status] = [status |-> status, state |-> s]  BY <1>4
<1>6. answer' = [answer EXCEPT ![c] = [status |-> status, state |-> s]]  BY <1>1, <1>5
<1>7. [status |-> status, state |-> s] \in [status : AnswerStatus, state : SessionType]  OBVIOUS
<1> QED  BY <1>3, <1>6, <1>7 DEF DataInv

(* A call that sets off. *)
LEMMA CallTables ==
  ASSUME TablesInv, NEW c \in Client, Call(c)
  PROVE  /\ TablesInv' /\ db' = db
         /\ pc[c] = "idle" /\ pc'[c] = "called" /\ answer'[c] = NoAnswer
         /\ Apart(c)
<1>1. PICK kind \in Ops[c] : /\ op' = [op EXCEPT ![c] = kind]
                             /\ todo' = [todo EXCEPT ![c] = Program(c, kind)]
  BY DEF Call
<1>2. kind \in Kind  BY ClientAssumption
<1>3. Program(c, kind) \in Seq(Statement)  BY <1>2, ProgramTyped
<1>4. /\ pc[c] = "idle" /\ pc' = [pc EXCEPT ![c] = "called"]
      /\ answer' = [answer EXCEPT ![c] = NoAnswer]
      /\ UNCHANGED <<db, nextRow, found>>
  BY DEF Call
<1>5. /\ op' \in [Client -> Kind] /\ pc' \in [Client -> Points] /\ todo' \in [Client -> Seq(Statement)]
      /\ pc'[c] = "called" /\ todo'[c] = Program(c, kind) /\ op'[c] = kind
      /\ \A d \in Client \ {c} : pc'[d] = pc[d] /\ op'[d] = op[d] /\ todo'[d] = todo[d]
  BY <1>1, <1>2, <1>3, <1>4 DEF TablesInv, ProgramInv, Points
<1>6. \A d \in Client \ {c} : At(d)' = At(d)  BY <1>5 DEF At
<1>7. ProgramInv'
  <2>1. \A d \in Client :
          /\ pc'[d] \in {"idle", "done"} => todo'[d] = << >>
          /\ pc'[d] = "called" => todo'[d] = Program(d, op'[d])
          /\ pc'[d] = "running" => /\ At(d)' \in 1 .. Len(Program(d, op'[d])) - 1
                                   /\ todo'[d] = Rest(Program(d, op'[d]), At(d)')
    BY <1>5, <1>6 DEF TablesInv, ProgramInv
  <2>2. OneProcess => \A e, d \in Client : pc'[e] = "running" /\ pc'[d] = "running" => e = d
    BY <1>5 DEF TablesInv, ProgramInv
  <2> QED  BY <1>5, <2>1, <2>2 DEF ProgramInv
<1>8. NoAnswer \in [status : AnswerStatus, state : SessionType]
  BY DEF NoAnswer, AnswerStatus, EmptySession, SessionType
<1>9. DataInv'  BY <1>4, <1>5, <1>8 DEF TablesInv, DataInv
<1>10. Apart(c)  BY <1>4, <1>5, <1>6 DEF TablesInv, DataInv, Apart
<1> QED  BY <1>4, <1>5, <1>7, <1>9, <1>10 DEF TablesInv, DataInv

(* A call that is answered. *)
LEMMA RespondTables ==
  ASSUME TablesInv, NEW c \in Client, Respond(c)
  PROVE  /\ TablesInv' /\ db' = db
         /\ pc[c] = "done" /\ pc'[c] = "idle"
         /\ Apart(c)
<1>1. /\ pc[c] = "done" /\ pc' = [pc EXCEPT ![c] = "idle"]
      /\ UNCHANGED <<db, nextRow, found, todo, op, answer>>
  BY DEF Respond
<1>2. /\ pc' \in [Client -> Points] /\ pc'[c] = "idle"
      /\ \A d \in Client \ {c} : pc'[d] = pc[d]
  BY <1>1 DEF TablesInv, ProgramInv, Points
<1>3. \A d \in Client : At(d)' = At(d)  BY <1>1 DEF At
<1>4. ProgramInv'
  <2>1. \A d \in Client :
          /\ pc'[d] \in {"idle", "done"} => todo'[d] = << >>
          /\ pc'[d] = "called" => todo'[d] = Program(d, op'[d])
          /\ pc'[d] = "running" => /\ At(d)' \in 1 .. Len(Program(d, op'[d])) - 1
                                   /\ todo'[d] = Rest(Program(d, op'[d]), At(d)')
    BY <1>1, <1>2, <1>3 DEF TablesInv, ProgramInv
  <2>2. OneProcess => \A e, d \in Client : pc'[e] = "running" /\ pc'[d] = "running" => e = d
    BY <1>2 DEF TablesInv, ProgramInv
  <2> QED  BY <1>1, <1>2, <2>1, <2>2 DEF TablesInv, ProgramInv
<1>5. DataInv'  BY <1>1, <1>2 DEF TablesInv, DataInv
<1>6. Apart(c)  BY <1>1, <1>2, <1>3 DEF Apart
<1> QED  BY <1>1, <1>2, <1>4, <1>5, <1>6 DEF TablesInv

(* A call that fails. *)
LEMMA FailTables ==
  ASSUME TablesInv, NEW c \in Client, Fail(c)
  PROVE  /\ TablesInv' /\ db' = db
         /\ pc'[c] = "idle" /\ answer'[c] = Failed /\ op' = op
         /\ Apart(c)
<1>1. /\ pc' = [pc EXCEPT ![c] = "idle"] /\ todo' = [todo EXCEPT ![c] = << >>]
      /\ answer' = [answer EXCEPT ![c] = Failed]
      /\ UNCHANGED <<db, nextRow, found, op>>
  BY DEF Fail
<1>a. << >> \in Seq(Statement)  OBVIOUS
<1>2. /\ pc' \in [Client -> Points] /\ pc'[c] = "idle"
      /\ todo' \in [Client -> Seq(Statement)] /\ todo'[c] = << >>
      /\ \A d \in Client \ {c} : pc'[d] = pc[d] /\ todo'[d] = todo[d]
  BY <1>1, <1>a DEF TablesInv, ProgramInv, Points
<1>3. \A d \in Client \ {c} : At(d)' = At(d)  BY <1>1, <1>2 DEF At
<1>4. ProgramInv'
  <2>1. \A d \in Client :
          /\ pc'[d] \in {"idle", "done"} => todo'[d] = << >>
          /\ pc'[d] = "called" => todo'[d] = Program(d, op'[d])
          /\ pc'[d] = "running" => /\ At(d)' \in 1 .. Len(Program(d, op'[d])) - 1
                                   /\ todo'[d] = Rest(Program(d, op'[d]), At(d)')
    BY <1>1, <1>2, <1>3 DEF TablesInv, ProgramInv
  <2>2. OneProcess => \A e, d \in Client : pc'[e] = "running" /\ pc'[d] = "running" => e = d
    BY <1>2 DEF TablesInv, ProgramInv
  <2> QED  BY <1>1, <1>2, <2>1, <2>2 DEF TablesInv, ProgramInv
<1>5. Failed \in [status : AnswerStatus, state : SessionType]
  BY DEF Failed, AnswerStatus, EmptySession, SessionType
<1>6. DataInv'  BY <1>1, <1>2, <1>5 DEF TablesInv, DataInv
<1>7. Apart(c)  BY <1>1, <1>2, <1>3 DEF Apart, TablesInv, DataInv
<1> QED  BY <1>1, <1>2, <1>4, <1>6, <1>7 DEF TablesInv, DataInv

(* Which call a statement belongs to. *)
LEMMA Which ==
  ASSUME NEW c \in Client, NEW kind \in Kind, NEW k \in 0 .. Len(Program(c, kind)) - 1
  PROVE  LET x == Program(c, kind)[k + 1] IN
         /\ x[1] = "claim" => kind = "initialize" /\ k = 0
         /\ x[1] = "find" => kind = "update_pass" /\ k = 0
         /\ x[1] \in ReadStatements => IsRead(kind)
<1> DEFINE x == Program(c, kind)[k + 1]
           m == Len(List[c])
           OK == /\ x[1] = "claim" => kind = "initialize" /\ k = 0
                 /\ x[1] = "find" => kind = "update_pass" /\ k = 0
                 /\ x[1] \in ReadStatements => IsRead(kind)
<1> SUFFICES OK  OBVIOUS
<1>1. m \in Nat /\ k \in Nat  BY Listed
<1> HIDE DEF OK
<1>2. CASE kind = "initialize"
  <2>1. /\ k \in 0 .. m + 4
        /\ k = 0 => x = <<"claim", 0>>
        /\ k = 1 => x = <<"save_manifest", 0>>
        /\ k = 2 => x = <<"clear_features", 0>>
        /\ k \in 3 .. m + 2 => x = <<"insert_feature", k - 2>>
        /\ k = m + 3 => x = <<"append_progress", 0>>
        /\ k = m + 4 => x = <<"checkpoint", 0>>
    <3>1. Len(Program(c, kind)) = m + 5  BY <1>2, StatementAt
    <3>2. k \in 0 .. m + 4  BY <1>1, <3>1
    <3> QED  BY <1>2, <3>2, StatementAt
  <2> HIDE DEF x, m
  <2>2. k = 0 \/ k = 1 \/ k = 2 \/ k \in 3 .. m + 2 \/ k = m + 3 \/ k = m + 4  BY <1>1, <2>1
  <2>3. k = 0 \/ x[1] \in {"save_manifest", "clear_features", "insert_feature", "append_progress", "checkpoint"}
    BY <2>1, <2>2
  <2> QED  BY <1>2, <2>1, <2>3 DEF ReadStatements, OK
<1>3. CASE kind = "replace_features"
  <2>1. /\ k \in 0 .. m
        /\ k = 0 => x = <<"clear_features", 0>>
        /\ k \in 1 .. m => x = <<"insert_feature", k>>
    <3>1. Len(Program(c, kind)) = m + 1  BY <1>3, StatementAt
    <3>2. k \in 0 .. m  BY <1>1, <3>1
    <3> QED  BY <1>3, <3>2, StatementAt
  <2> HIDE DEF x, m
  <2>2. x[1] \in {"clear_features", "insert_feature"}  BY <1>1, <2>1
  <2> QED  BY <2>2 DEF ReadStatements, OK
<1>4. CASE kind \in {"append_transcript", "update_pass"}
  <2>1. Len(Program(c, kind)) = 2  BY <1>4, StatementAt
  <2>2. k \in {0, 1}  BY <1>1, <2>1
  <2>3. /\ kind = "append_transcript" => x \in {<<"message", 1>>, <<"message", 2>>}
        /\ kind = "update_pass" => /\ k = 0 => x = <<"find", 0>>
                                   /\ k = 1 => x = <<"update", 0>>
    BY <1>4, <2>2, StatementAt
  <2> HIDE DEF x, m
  <2>4. x[1] = "message" \/ (kind = "update_pass" /\ k = 0 /\ x[1] = "find") \/ x[1] = "update"
    BY <1>4, <2>2, <2>3
  <2> QED  BY <2>4 DEF ReadStatements, OK
<1>5. CASE kind \in {"load", "load_transcript", "is_initialized"}
  <2>1. x[1] \in ReadStatements
    <3>1. CASE kind = "load"
      <4>1. Len(Program(c, kind)) = 4  BY <3>1, StatementAt
      <4>2. k \in {0, 1, 2, 3}  BY <1>1, <4>1
      <4>3. /\ k = 0 => x = <<"read_manifest", 0>>
            /\ k = 1 => x = <<"read_features", 0>>
            /\ k = 2 => x = <<"read_progress", 0>>
            /\ k = 3 => x = <<"read_checkpoints", 0>>
        BY <3>1, StatementAt
      <4> HIDE DEF x, m
      <4> QED  BY <4>2, <4>3 DEF ReadStatements
    <3>2. CASE kind = "load_transcript"
      <4>1. x = <<"read_transcript", 0>>  BY <3>2, StatementAt
      <4> HIDE DEF x, m
      <4> QED  BY <4>1 DEF ReadStatements
    <3>3. CASE kind = "is_initialized"
      <4>1. x = <<"is_initialized", 0>>  BY <3>3, StatementAt
      <4> HIDE DEF x, m
      <4> QED  BY <4>1 DEF ReadStatements
    <3> QED  BY <1>5, <3>1, <3>2, <3>3
  <2> HIDE DEF x
  <2> QED  BY <1>5, <2>1 DEF IsRead, ReadStatements, OK
<1>6. CASE kind \in {"save_manifest", "append_progress", "checkpoint"}
  <2>1. x = <<kind, 0>>  BY <1>6, StatementAt
  <2> HIDE DEF x, m
  <2>2. x[1] = kind  BY <2>1
  <2> QED  BY <1>6, <2>2 DEF ReadStatements, OK
<1> QED  BY <1>2, <1>3, <1>4, <1>5, <1>6 DEF Kind

(* The claim of the session row. *)
LEMMA ClaimTables ==
  ASSUME TablesInv, NEW c \in Client, ClaimSession(c)
  PROVE  /\ TablesInv' /\ op[c] = "initialize" /\ At(c) = 0 /\ pc[c] = "called"
         /\ UNCHANGED <<nextRow, found, op, calls, acked>>
         /\ Apart(c)
         /\ IsInitialized(db) =>
              /\ db' = db /\ pc'[c] = "done"
              /\ answer'[c] = [status |-> "exists", state |-> EmptySession]
         /\ ~IsInitialized(db) =>
              /\ Saves(c) /\ pc'[c] = "running" /\ At(c)' = 1
              /\ answer'[c] = [status |-> "created", state |-> EmptySession]
<1>1. Scheduled(c, {"claim"})  BY DEF ClaimSession
<1> DEFINE p == Program(c, op[c])
           n == At(c)
<1>2. /\ n \in 0 .. Len(p) - 1 /\ Head(todo[c]) = p[n + 1] /\ p[n + 1][1] = "claim"
      /\ pc[c] = "called" <=> n = 0
  BY <1>1, Next1 DEF TablesInv
<1>3. PICK kind \in Kind : kind = op[c]  BY DEF TablesInv, ProgramInv
<1>4. PICK k \in 0 .. Len(Program(c, kind)) - 1 : k = n  BY <1>2, <1>3
<1>5. p[n + 1] = Program(c, kind)[k + 1]  BY <1>3, <1>4
<1> HIDE DEF p, n
<1>6. kind = "initialize" /\ k = 0  BY <1>2, <1>5, Which
<1>7. op[c] = "initialize" /\ n = 0 /\ pc[c] = "called" /\ Head(todo[c]) = <<"claim", 0>>
  <2>1. Program(c, kind)[k + 1] = <<"claim", 0>>  BY <1>6, StatementAt
  <2> QED  BY <1>2, <1>3, <1>4, <1>5, <1>6, <2>1
<1>8. answer[c] = NoAnswer  BY <1>7 DEF TablesInv, DataInv
<1>9. UNCHANGED <<nextRow, found, op, calls, acked>>  BY DEF ClaimSession
<1>10. Len(Program(c, op[c])) > 1
  <2>1. Len(Program(c, "initialize")) = Len(List[c]) + 5  BY InitializeProgram
  <2> QED  BY <1>7, <2>1, Listed
<1>11. CASE IsInitialized(db)
  <2>1. SetStatus(c, "exists") /\ Proceed(c, << >>) /\ db' = db  BY <1>11 DEF ClaimSession
  <2>2. /\ ProgramInv' /\ pc'[c] = "done"
        /\ \A d \in Client \ {c} : pc'[d] = pc[d] /\ todo'[d] = todo[d]
    BY <1>1, <1>9, <2>1, Proceeds DEF TablesInv
  <2>3. /\ answer' \in [Client -> [status : AnswerStatus, state : SessionType]]
        /\ answer'[c] = [status |-> "exists", state |-> answer[c].state]
        /\ \A d \in Client \ {c} : answer'[d] = answer[d]
    BY <2>1, StatusSet DEF TablesInv, AnswerStatus
  <2>4. DataInv'  BY <1>9, <2>1, <2>2, <2>3 DEF TablesInv, DataInv
  <2>5. Apart(c)  BY <1>9, <2>2, <2>3 DEF Apart, At
  <2> QED  BY <1>7, <1>8, <1>9, <1>11, <2>1, <2>2, <2>3, <2>4, <2>5 DEF TablesInv, NoAnswer, n
<1>12. CASE ~IsInitialized(db)
  <2>1. SetStatus(c, "created") /\ Proceed(c, Tail(todo[c])) /\ db' = Execute(c, <<"claim", 0>>, db)
    BY <1>7, <1>12 DEF ClaimSession
  <2>2. db' = [db EXCEPT !.manifest = c]  BY <2>1, Executed
  <2>3. Saves(c)  BY <1>9, <2>2 DEF Saves
  <2>4. /\ ProgramInv' /\ pc'[c] = "running" /\ At(c)' = 1
        /\ \A d \in Client \ {c} : pc'[d] = pc[d] /\ todo'[d] = todo[d]
    <3>1. PICK r : r = Tail(todo[c])  OBVIOUS
    <3>2. Proceed(c, r) /\ op' = op /\ ProgramInv  BY <1>9, <2>1, <3>1 DEF TablesInv
    <3>3. ProgramInv' /\ pc'[c] = (IF r = << >> THEN "done" ELSE "running")
      BY <1>1, <3>1, <3>2, Proceeds
    <3>5. r = << >> => At(c) + 1 = Len(Program(c, op[c]))
      BY <1>1, <3>1, <3>2, Proceeds
    <3>6. pc'[c] = "running" => At(c)' = At(c) + 1
      BY <1>1, <3>1, <3>2, Proceeds
    <3>7. \A d \in Client \ {c} : pc'[d] = pc[d] /\ todo'[d] = todo[d]
      BY <1>1, <3>1, <3>2, Proceeds
    <3>4. At(c) = 0  BY <1>7 DEF n
    <3> QED  BY <1>10, <3>3, <3>4, <3>5, <3>6, <3>7
  <2>5. /\ answer' \in [Client -> [status : AnswerStatus, state : SessionType]]
        /\ answer'[c] = [status |-> "created", state |-> answer[c].state]
        /\ \A d \in Client \ {c} : answer'[d] = answer[d]
    BY <2>1, StatusSet DEF TablesInv, AnswerStatus
  <2>6. db' \in DbType /\ Numbered(db'.features, nextRow')  BY <2>3, Effects DEF TablesInv
  <2>7. DataInv'  BY <1>9, <2>4, <2>5, <2>6 DEF TablesInv, DataInv
  <2>8. Apart(c)  BY <1>9, <2>4, <2>5 DEF Apart, At
  <2> QED  BY <1>7, <1>8, <1>9, <1>12, <2>3, <2>4, <2>5, <2>7, <2>8 DEF TablesInv, NoAnswer, n
<1> QED  BY <1>11, <1>12

(* A call that goes on to its next statement, or to its answer. *)
LEMMA Advances ==
  ASSUME ProgramInv, NEW c \in Client, NEW kinds, Scheduled(c, kinds), op' = op,
         Proceed(c, Tail(todo[c]))
  PROVE  /\ ProgramInv'
         /\ At(c) + 1 = Len(Program(c, op[c])) => pc'[c] = "done"
         /\ At(c) + 1 # Len(Program(c, op[c])) => pc'[c] = "running" /\ At(c)' = At(c) + 1
         /\ \A d \in Client \ {c} : pc'[d] = pc[d] /\ todo'[d] = todo[d] /\ At(d)' = At(d)
<1>1. PICK r : r = Tail(todo[c])  OBVIOUS
<1>2. Proceed(c, r)  BY <1>1
<1>3. ProgramInv' /\ pc'[c] = (IF r = << >> THEN "done" ELSE "running")
  BY <1>1, <1>2, Proceeds
<1>4. r = << >> => At(c) + 1 = Len(Program(c, op[c]))
  BY <1>1, <1>2, Proceeds
<1>5. At(c) + 1 = Len(Program(c, op[c])) => r = << >>
  BY <1>1, <1>2, Proceeds
<1>6. pc'[c] = "running" => At(c)' = At(c) + 1
  BY <1>1, <1>2, Proceeds
<1>7. \A d \in Client \ {c} : pc'[d] = pc[d] /\ todo'[d] = todo[d] /\ At(d)' = At(d)
  BY <1>1, <1>2, Proceeds
<1> QED  BY <1>3, <1>4, <1>5, <1>6, <1>7

(* The statement that client c executes, and the call it belongs to. *)
LEMMA Executing ==
  ASSUME ProgramInv, NEW c \in Client, NEW kinds, Scheduled(c, kinds)
  PROVE  /\ op[c] \in Kind
         /\ At(c) \in Nat /\ At(c) < Len(Program(c, op[c]))
         /\ Head(todo[c]) = Program(c, op[c])[At(c) + 1]
         /\ Head(todo[c])[1] \in kinds
         /\ pc[c] = "called" <=> At(c) = 0
         /\ Head(todo[c])[1] = "claim" => op[c] = "initialize" /\ At(c) = 0
         /\ Head(todo[c])[1] = "find" => op[c] = "update_pass" /\ At(c) = 0
         /\ Head(todo[c])[1] \in ReadStatements => IsRead(op[c])
<1>1. PICK kind \in Kind : kind = op[c]  BY DEF ProgramInv
<1>2. /\ At(c) \in 0 .. Len(Program(c, op[c])) - 1
      /\ Head(todo[c]) = Program(c, op[c])[At(c) + 1] /\ Head(todo[c])[1] \in kinds
      /\ pc[c] = "called" <=> At(c) = 0
      /\ Len(Program(c, op[c])) \in Nat
  BY Next1
<1>3. PICK k \in 0 .. Len(Program(c, kind)) - 1 : k = At(c)  BY <1>1, <1>2
<1>4. Head(todo[c]) = Program(c, kind)[k + 1]  BY <1>1, <1>2, <1>3
<1>5. /\ Head(todo[c])[1] = "claim" => kind = "initialize" /\ k = 0
      /\ Head(todo[c])[1] = "find" => kind = "update_pass" /\ k = 0
      /\ Head(todo[c])[1] \in ReadStatements => IsRead(kind)
  BY <1>4, Which
<1> QED  BY <1>1, <1>2, <1>3, <1>5

(* The search of a feature. *)
LEMMA FindTables ==
  ASSUME TablesInv, NEW c \in Client, FindFeature(c)
  PROVE  /\ TablesInv' /\ op[c] = "update_pass" /\ At(c) = 0 /\ pc[c] = "called"
         /\ UNCHANGED <<db, nextRow, op, calls, acked>>
         /\ Apart(c)
         /\ ~HasFeature(db, Target[c]) =>
              pc'[c] = "done" /\ answer'[c] = [status |-> "not_found", state |-> EmptySession]
         /\ HasFeature(db, Target[c]) =>
              /\ \E i \in DOMAIN db.features :
                   /\ db.features[i].id = Target[c]
                   /\ \A j \in 1 .. (i - 1) : db.features[j].id # Target[c]
                   /\ found'[c] = db.features[i].row
              /\ pc'[c] = "running" /\ At(c)' = 1
              /\ answer'[c] = [status |-> "ok", state |-> EmptySession]
<1>1. Scheduled(c, {"find"})  BY DEF FindFeature
<1>2. ProgramInv /\ DataInv  BY DEF TablesInv
<1>3. op[c] = "update_pass" /\ At(c) = 0 /\ pc[c] = "called"
  BY <1>1, <1>2, Executing
<1>4. answer[c] = NoAnswer  BY <1>2, <1>3 DEF DataInv
<1>5. UNCHANGED <<db, nextRow, op, calls, acked>>  BY DEF FindFeature
<1>6. Len(Program(c, op[c])) = 2  BY <1>3, ShortProgram
<1>7. CASE ~HasFeature(db, Target[c])
  <2>1. SetStatus(c, "not_found") /\ Proceed(c, << >>) /\ found' = found  BY <1>7 DEF FindFeature
  <2>2. /\ ProgramInv' /\ pc'[c] = "done"
        /\ \A d \in Client \ {c} : pc'[d] = pc[d] /\ todo'[d] = todo[d]
    BY <1>1, <1>2, <1>5, <2>1, Proceeds
  <2>3. /\ answer' \in [Client -> [status : AnswerStatus, state : SessionType]]
        /\ answer'[c] = [status |-> "not_found", state |-> answer[c].state]
        /\ \A d \in Client \ {c} : answer'[d] = answer[d]
    BY <1>2, <2>1, StatusSet DEF AnswerStatus
  <2>4. DataInv'  BY <1>2, <1>5, <2>1, <2>2, <2>3 DEF DataInv
  <2>5. Apart(c)  BY <1>5, <2>1, <2>2, <2>3 DEF Apart, At
  <2> QED  BY <1>3, <1>4, <1>5, <1>7, <2>2, <2>3, <2>4, <2>5 DEF TablesInv, NoAnswer
<1>8. CASE HasFeature(db, Target[c])
  <2>1. SetStatus(c, "ok") /\ Proceed(c, Tail(todo[c]))  BY <1>8 DEF FindFeature
  <2>2. PICK i \in DOMAIN db.features :
          /\ db.features[i].id = Target[c]
          /\ \A j \in 1 .. (i - 1) : db.features[j].id # Target[c]
          /\ found' = [found EXCEPT ![c] = db.features[i].row]
    BY <1>8 DEF FindFeature
  <2>3. /\ ProgramInv' /\ pc'[c] = "running" /\ At(c)' = 1
        /\ \A d \in Client \ {c} : pc'[d] = pc[d] /\ todo'[d] = todo[d]
    BY <1>1, <1>2, <1>3, <1>5, <1>6, <2>1, Advances
  <2>4. /\ answer' \in [Client -> [status : AnswerStatus, state : SessionType]]
        /\ answer'[c] = [status |-> "ok", state |-> answer[c].state]
        /\ \A d \in Client \ {c} : answer'[d] = answer[d]
    BY <1>2, <2>1, StatusSet DEF AnswerStatus
  <2>5. /\ DOMAIN found' = Client /\ found'[c] = db.features[i].row
        /\ \A d \in Client \ {c} : found'[d] = found[d]
    BY <1>2, <2>2 DEF DataInv
  <2>6. DataInv'  BY <1>2, <1>5, <2>3, <2>4, <2>5 DEF DataInv
  <2>7. Apart(c)  BY <1>5, <2>3, <2>4, <2>5 DEF Apart, At
  <2> QED  BY <1>3, <1>4, <1>5, <1>8, <2>2, <2>3, <2>4, <2>5, <2>6, <2>7 DEF TablesInv, NoAnswer
<1> QED  BY <1>7, <1>8

(* A statement that writes. *)
LEMMA WriteTables ==
  ASSUME TablesInv, NEW c \in Client, WriteRows(c)
  PROVE  /\ TablesInv' /\ Writes(c)
         /\ pc[c] \in {"called", "running"} /\ (pc[c] = "called" <=> At(c) = 0)
         /\ UNCHANGED <<found, op, calls, acked>>
         /\ Apart(c)
         /\ answer'[c] = IF pc[c] = "called" THEN [status |-> "ok", state |-> EmptySession]
                         ELSE answer[c]
         /\ At(c) + 1 = Len(Program(c, op[c])) => pc'[c] = "done"
         /\ At(c) + 1 # Len(Program(c, op[c])) => pc'[c] = "running" /\ At(c)' = At(c) + 1
<1>1. Scheduled(c, WriteStatements) /\ Proceed(c, Tail(todo[c])) /\ UNCHANGED <<found, op, calls, acked>>
  BY DEF WriteRows
<1>2. ProgramInv /\ DataInv  BY DEF TablesInv
<1>3. Writes(c) /\ db' \in DbType /\ Numbered(db'.features, nextRow')
  BY <1>2, Wrote, WritesTyped
<1>4. /\ ProgramInv'
      /\ At(c) + 1 = Len(Program(c, op[c])) => pc'[c] = "done"
      /\ At(c) + 1 # Len(Program(c, op[c])) => pc'[c] = "running" /\ At(c)' = At(c) + 1
      /\ \A d \in Client \ {c} : pc'[d] = pc[d] /\ todo'[d] = todo[d] /\ At(d)' = At(d)
  BY <1>1, <1>2, Advances
<1>5. pc[c] \in {"called", "running"} /\ (pc[c] = "called" <=> At(c) = 0)
  BY <1>1, <1>2, Next1
<1>6. /\ answer' \in [Client -> [status : AnswerStatus, state : SessionType]]
      /\ \A d \in Client \ {c} : answer'[d] = answer[d]
      /\ answer'[c] = IF pc[c] = "called" THEN [status |-> "ok", state |-> EmptySession]
                      ELSE answer[c]
  <2>1. CASE pc[c] = "called"
    <3>1. SetStatus(c, "ok")  BY <2>1 DEF WriteRows
    <3>2. answer[c] = NoAnswer  BY <1>2, <2>1 DEF DataInv
    <3>3. /\ answer' \in [Client -> [status : AnswerStatus, state : SessionType]]
          /\ answer'[c] = [status |-> "ok", state |-> answer[c].state]
          /\ \A d \in Client \ {c} : answer'[d] = answer[d]
      BY <1>2, <3>1, StatusSet DEF AnswerStatus
    <3> QED  BY <2>1, <3>2, <3>3 DEF NoAnswer
  <2>2. CASE pc[c] # "called"
    <3>1. answer' = answer  BY <2>2 DEF WriteRows
    <3> QED  BY <1>2, <2>2, <3>1 DEF DataInv
  <2> QED  BY <2>1, <2>2
<1>7. pc'[c] # "called"  BY <1>4
<1>8. DataInv'  BY <1>1, <1>2, <1>3, <1>4, <1>6, <1>7 DEF DataInv
<1>9. Apart(c)  BY <1>1, <1>4, <1>6 DEF Apart
<1> QED  BY <1>1, <1>3, <1>4, <1>5, <1>6, <1>8, <1>9 DEF TablesInv

(* A statement that reads. *)
LEMMA ReadTables ==
  ASSUME TablesInv, NEW c \in Client, ReadRows(c)
  PROVE  /\ TablesInv' /\ IsRead(op[c])
         /\ pc[c] \in {"called", "running"} /\ (pc[c] = "called" <=> At(c) = 0)
         /\ UNCHANGED <<db, nextRow, found, op, calls, acked>>
         /\ Apart(c)
         /\ answer'[c] = [status |-> Status(c, op[c], db),
                          state  |-> Read(Program(c, op[c])[At(c) + 1], answer[c].state, SessionOf(db))]
         /\ At(c) + 1 = Len(Program(c, op[c])) => pc'[c] = "done"
         /\ At(c) + 1 # Len(Program(c, op[c])) => pc'[c] = "running" /\ At(c)' = At(c) + 1
<1>1. /\ Scheduled(c, ReadStatements) /\ Proceed(c, Tail(todo[c]))
      /\ UNCHANGED <<db, nextRow, found, op, calls, acked>>
  BY DEF ReadRows
<1>2. ProgramInv /\ DataInv  BY DEF TablesInv
<1>3. /\ ProgramInv'
      /\ At(c) + 1 = Len(Program(c, op[c])) => pc'[c] = "done"
      /\ At(c) + 1 # Len(Program(c, op[c])) => pc'[c] = "running" /\ At(c)' = At(c) + 1
      /\ \A d \in Client \ {c} : pc'[d] = pc[d] /\ todo'[d] = todo[d] /\ At(d)' = At(d)
  BY <1>1, <1>2, Advances
<1>4. pc[c] \in {"called", "running"} /\ (pc[c] = "called" <=> At(c) = 0)
  BY <1>1, <1>2, Next1
<1>5. /\ IsRead(op[c]) /\ Head(todo[c]) = Program(c, op[c])[At(c) + 1]
  BY <1>1, <1>2, Executing
<1> DEFINE a == [status |-> Status(c, op[c], db),
                 state  |-> Read(Head(todo[c]), answer[c].state, SessionOf(db))]
<1>6. answer' = [answer EXCEPT ![c] = a]  BY DEF ReadRows
<1>7. a \in [status : AnswerStatus, state : SessionType]
  <2>1. Status(c, op[c], db) \in AnswerStatus  BY DEF Status, AnswerStatus
  <2>2. PICK s \in SessionType, state \in SessionType : s = SessionOf(db) /\ state = answer[c].state
    BY <1>2, SessionFields, Answers DEF DataInv
  <2>3. PICK stmt : stmt = Head(todo[c])  OBVIOUS
  <2>4. Read(stmt, state, s) \in SessionType  BY ReadTyped
  <2>5. Read(Head(todo[c]), answer[c].state, SessionOf(db)) \in SessionType  BY <2>2, <2>3, <2>4
  <2> QED  BY <2>1, <2>5
<1> HIDE DEF a
<1>8. /\ answer' \in [Client -> [status : AnswerStatus, state : SessionType]]
      /\ answer'[c] = a
      /\ \A d \in Client \ {c} : answer'[d] = answer[d]
  BY <1>2, <1>6, <1>7 DEF DataInv
<1>9. pc'[c] # "called"  BY <1>3
<1>10. DataInv'  BY <1>1, <1>2, <1>3, <1>8, <1>9 DEF DataInv
<1>11. Apart(c)  BY <1>1, <1>3, <1>8 DEF Apart
<1>12. answer'[c] = [status |-> Status(c, op[c], db),
                     state  |-> Read(Program(c, op[c])[At(c) + 1], answer[c].state, SessionOf(db))]
  BY <1>5, <1>8 DEF a
<1> QED  BY <1>1, <1>3, <1>4, <1>5, <1>10, <1>11, <1>12 DEF TablesInv

(* The tables hold the initial session. *)
LEMMA FirstTables ==
  ASSUME Init
  PROVE  /\ TablesInv /\ SessionOf(db) = InitialSession
         /\ db.manifest = InitialSession.manifest
         /\ Len(db.features) = Len(InitialSession.features)
<1> DEFINE fs == InitialSession.features
           rows == [i \in DOMAIN fs |-> Row(i, fs[i])]
<1>1. /\ db = [InitialSession EXCEPT !.features = [i \in DOMAIN @ |-> Row(i, @[i])]]
      /\ nextRow = Len(fs) + 1
      /\ found = [c \in Client |-> 0] /\ todo = [c \in Client |-> << >>]
      /\ pc = [c \in Client |-> "idle"] /\ op = [c \in Client |-> "load"]
      /\ answer = [c \in Client |-> NoAnswer]
  BY DEF Init
<1>2. InitialSession \in SessionType  BY ClientAssumption
<1>3. /\ fs \in Seq(FeatureRecord(Feature)) /\ Len(fs) \in Nat /\ DOMAIN fs = 1 .. Len(fs)
      /\ \A i \in DOMAIN fs : fs[i] \in FeatureRecord(Feature)
  BY <1>2 DEF SessionType
<1>4. db = [InitialSession EXCEPT !.features = rows]  BY <1>1
<1>5. \A i \in DOMAIN fs : /\ Row(i, fs[i]) \in RowType /\ Row(i, fs[i]).row = i
                           /\ Row(i, fs[i]).id = fs[i].id /\ Row(i, fs[i]).passes = fs[i].passes
  BY <1>3, RowTyped
<1>6. DOMAIN rows = 1 .. Len(fs) /\ \A i \in DOMAIN fs : rows[i] = Row(i, fs[i])  BY <1>3
<1>7. rows \in Seq(RowType) /\ Len(rows) = Len(fs)
  <2>1. rows \in [1 .. Len(fs) -> RowType]  BY <1>3, <1>5
  <2>2. rows \in Seq(RowType)  BY <1>3, <2>1, SeqDef
  <2> HIDE DEF rows
  <2> QED  BY <1>3, <1>6, <2>2
<1> HIDE DEF rows
<1>8. Numbered(rows, nextRow)
  <2>1. \A i \in DOMAIN rows : rows[i].row = i  BY <1>3, <1>5, <1>6
  <2> QED  BY <1>1, <1>3, <1>6, <2>1 DEF Numbered
<1>9. PICK r \in Seq(RowType) : r = rows  BY <1>7
<1>10. db \in DbType /\ db.features = rows /\ db.manifest = InitialSession.manifest
       /\ db.progress = InitialSession.progress /\ db.checkpoints = InitialSession.checkpoints
       /\ db.transcript = InitialSession.transcript
  <2>1. db = [InitialSession EXCEPT !.features = r]  BY <1>4, <1>9
  <2> QED  BY <1>2, <1>9, <2>1 DEF SessionType, DbType
<1>11. SessionOf(db) = InitialSession
  <2>1. Lists(r) = fs  BY <1>3, <1>5, <1>6, <1>7, <1>9, SameLists
  <2>2. SessionOf(db) = Tables(db.manifest, Lists(db.features), db.progress, db.checkpoints, db.transcript)
    <3>1. PICK d \in DbType : d = db  BY <1>10
    <3> QED  BY <3>1, DbTabled
  <2>3. InitialSession = Tables(InitialSession.manifest, fs, InitialSession.progress,
                                InitialSession.checkpoints, InitialSession.transcript)
    BY <1>2 DEF SessionType, Tables
  <2> QED  BY <1>9, <1>10, <2>1, <2>2, <2>3
<1>12. ProgramInv
  <2>1. << >> \in Seq(Statement)  OBVIOUS
  <2> QED  BY <1>1, <2>1 DEF ProgramInv, Kind, Points
<1>13. DataInv
  <2>1. NoAnswer \in [status : AnswerStatus, state : SessionType]
    BY DEF NoAnswer, AnswerStatus, EmptySession, SessionType
  <2> QED  BY <1>1, <1>8, <1>10, <2>1 DEF DataInv
<1> QED  BY <1>7, <1>10, <1>11, <1>12, <1>13 DEF TablesInv

(* Every step leaves tables behind. *)
LEMMA TablesStep == TablesInv /\ [Next]_vars => TablesInv'
<1> SUFFICES ASSUME TablesInv, [Next]_vars PROVE TablesInv'  OBVIOUS
<1>1. ASSUME NEW c \in Client,
             \/ Call(c) \/ ClaimSession(c) \/ FindFeature(c) \/ WriteRows(c) \/ ReadRows(c)
             \/ Respond(c) \/ Fail(c)
      PROVE  TablesInv'
  BY <1>1, CallTables, ClaimTables, FindTables, WriteTables, ReadTables, RespondTables, FailTables
<1>2. CASE UNCHANGED vars
  <2>1. \A c \in Client : At(c)' = At(c)  BY <1>2 DEF vars, At
  <2>2. ProgramInv'  BY <1>2, <2>1 DEF vars, TablesInv, ProgramInv
  <2>3. DataInv'  BY <1>2 DEF vars, TablesInv, DataInv
  <2> QED  BY <2>2, <2>3 DEF TablesInv
<1> QED  BY <1>1, <1>2 DEF Next

(* So the tables are as the type invariant says. *)
LEMMA TablesTyped == TablesInv => TypeOK
<1> SUFFICES ASSUME TablesInv PROVE TypeOK  OBVIOUS
<1>0. ProgramInv /\ DataInv  BY DEF TablesInv
<1>1. SessionOf(db) \in SessionType
  <2>1. PICK d \in DbType : d = db  BY <1>0 DEF DataInv
  <2> QED  BY <2>1, SessionFields
<1>2. /\ \A i, j \in DOMAIN db.features : db.features[i].row = db.features[j].row => i = j
      /\ \A i \in DOMAIN db.features : db.features[i].row < nextRow
  BY <1>0 DEF DataInv, Numbered
<1>3. \A c \in Client : pc[c] \in {"called", "running"} <=> todo[c] # << >>
  <2> TAKE c \in Client
  <2>1. PICK kind \in Kind : kind = op[c]  BY <1>0 DEF ProgramInv
  <2>2. Program(c, op[c]) \in Seq(Statement) /\ Len(Program(c, op[c])) > 0  BY <2>1, ProgramTyped
  <2>3. pc[c] = "called" => todo[c] # << >>
    <3>1. pc[c] = "called" => todo[c] = Program(c, op[c])  BY <1>0 DEF ProgramInv
    <3>2. Program(c, op[c]) # << >>  BY <2>2
    <3> QED  BY <3>1, <3>2
  <2>4. pc[c] = "running" => todo[c] # << >>
    <3>1. pc[c] = "running" => /\ At(c) \in 1 .. Len(Program(c, op[c])) - 1
                               /\ todo[c] = Rest(Program(c, op[c]), At(c))
      BY <1>0 DEF ProgramInv
    <3>2. \A n \in 0 .. Len(Program(c, op[c])) - 1 : Rest(Program(c, op[c]), n) # << >>
      BY <2>2, RestFacts
    <3>3. \A n \in 1 .. Len(Program(c, op[c])) - 1 : n \in 0 .. Len(Program(c, op[c])) - 1
      OBVIOUS
    <3> QED  BY <3>1, <3>2, <3>3
  <2>5. pc[c] \in Points /\ (pc[c] \in {"idle", "done"} => todo[c] = << >>)  BY <1>0 DEF ProgramInv
  <2> QED  BY <2>3, <2>4, <2>5 DEF Points
<1>4. OneProcess => Cardinality({c \in Client : pc[c] = "running"}) <= 1
  <2> SUFFICES ASSUME OneProcess PROVE Cardinality({c \in Client : pc[c] = "running"}) <= 1
    OBVIOUS
  <2> DEFINE R == {c \in Client : pc[c] = "running"}
  <2>1. \A c, d \in R : c = d  BY <1>0 DEF ProgramInv
  <2>2. CASE R = {}  BY <2>2, FS_EmptySet
  <2>3. CASE R # {}
    <3>1. PICK c \in R : TRUE  BY <2>3
    <3>2. R = {c}  BY <2>1, <3>1
    <3> HIDE DEF R
    <3>3. Cardinality({c}) = 1  BY FS_Singleton
    <3>4. Cardinality(R) <= 1  BY <3>2, <3>3
    <3> QED  BY <3>4 DEF R
  <2> QED  BY <2>2, <2>3
<1> QED  BY <1>1, <1>2, <1>3, <1>4 DEF TypeOK

(* The tables hold a session whatever is interrupted, row ids are unique, and each call under way *)
(* has statements left.                                                                             *)
THEOREM SqliteTyped == Spec => []TypeOK
<1>1. Init => TablesInv  BY FirstTables
<1> QED  BY <1>1, TablesStep, TablesTyped, PTL DEF Spec

-----------------------------------------------------------------------------
(* One process that is not interrupted: what clients see.                  *)

(* The statements that are left when n are executed. *)
LEMMA RestAt ==
  ASSUME NEW S, NEW p \in Seq(S), NEW n \in 0 .. Len(p)
  PROVE  /\ Rest(p, n) \in Seq(S) /\ Len(Rest(p, n)) = Len(p) - n
         /\ \A i \in 1 .. Len(p) - n : Rest(p, n)[i] = p[n + i]
BY RestFacts

(* The entry of an initialization is to be written until it is the turn of the checkpoint. *)
LEMMA LeftIs ==
  ASSUME ProgramInv, NEW c \in Client, pc[c] = "running", op[c] = "initialize"
  PROVE  Left(c, "append_progress") <=> At(c) <= Len(List[c]) + 3
<1> DEFINE p == Program(c, "initialize")
           m == Len(List[c])
<1>1. /\ p \in Seq(Statement) /\ Len(p) = m + 5
      /\ p[m + 4] = <<"append_progress", 0>> /\ p[m + 5] = <<"checkpoint", 0>>
  BY InitializeProgram
<1>2. m \in Nat  BY Listed
<1>3. PICK n \in 1 .. m + 4 : n = At(c) /\ todo[c] = Rest(p, n)
  BY <1>1, <1>2 DEF ProgramInv
<1> HIDE DEF p, m
<1>4. /\ Rest(p, n) \in Seq(Statement) /\ Len(Rest(p, n)) = Len(p) - n
      /\ \A i \in 1 .. Len(p) - n : Rest(p, n)[i] = p[n + i]
  <2>1. n \in 0 .. Len(p)  BY <1>1, <1>2
  <2> QED  BY <1>1, <2>1, RestAt
<1>5. DOMAIN todo[c] = 1 .. m + 5 - n /\ \A i \in 1 .. m + 5 - n : todo[c][i] = p[n + i]
  BY <1>1, <1>2, <1>3, <1>4
<1>6. n <= m + 3 => Left(c, "append_progress")
  <2> SUFFICES ASSUME n <= m + 3 PROVE Left(c, "append_progress")  OBVIOUS
  <2>1. PICK i \in 1 .. m + 5 - n : i = m + 4 - n  BY <1>2
  <2>2. n + i = m + 4  BY <1>2, <2>1
  <2>3. todo[c][i] = <<"append_progress", 0>>  BY <1>1, <1>5, <2>2
  <2>4. todo[c][i][1] = "append_progress"  BY <2>3
  <2> QED  BY <1>5, <2>4 DEF Left
<1>7. ~(n <= m + 3) => ~Left(c, "append_progress")
  <2> SUFFICES ASSUME ~(n <= m + 3), NEW i \in DOMAIN todo[c], todo[c][i][1] = "append_progress"
               PROVE  FALSE
    BY DEF Left
  <2>1. n = m + 4 /\ i \in 1 .. m + 5 - n  BY <1>2, <1>5
  <2>2. i = 1 /\ n + i = m + 5  BY <1>2, <2>1
  <2>3. todo[c][i] = <<"checkpoint", 0>>  BY <1>1, <1>5, <2>1, <2>2
  <2> QED  BY <2>3
<1> QED  BY <1>3, <1>6, <1>7 DEF m

(* What clients see, per call that is writing. *)
Entries(c) == IF At(c) <= Len(List[c]) + 3 THEN Append(db.progress, c) ELSE db.progress

Seen ==
  OneProcess /\ TablesInv =>
    /\ (\A c \in Client : pc[c] = "running" => IsRead(op[c])) =>
         View = Tables(db.manifest, Lists(db.features), db.progress, db.checkpoints, db.transcript)
    /\ \A c \in Client : pc[c] = "running" =>
         /\ op[c] = "initialize" => View =
              Tables(db.manifest, List[c], Entries(c),
                     Append(db.checkpoints, [run |-> c, status |-> "InProgress"]), db.transcript)
         /\ op[c] = "append_transcript" => View =
              Tables(db.manifest, Lists(db.features), db.progress, db.checkpoints,
                     Append(db.transcript, Turn(c)[2]))
         /\ op[c] = "replace_features" => View =
              Tables(db.manifest, List[c], db.progress, db.checkpoints, db.transcript)
         /\ op[c] = "update_pass" => View = Apply(c, "update_pass", SessionOf(db))

(* What clients see is that. *)
LEMMA Views == Seen
<1> SUFFICES ASSUME OneProcess, TablesInv PROVE Seen!2  BY DEF Seen
<1>1. ProgramInv /\ DataInv  BY DEF TablesInv
<1>2. PICK m, f, p, k, t : /\ m = db.manifest /\ f = Lists(db.features) /\ p = db.progress
                           /\ k = db.checkpoints /\ t = db.transcript
  OBVIOUS
<1>3. SessionOf(db) = Tables(m, f, p, k, t)
  <2>1. PICK d \in DbType : d = db  BY <1>1 DEF DataInv
  <2> QED  BY <1>2, <2>1, DbTabled
<1>4. (\A c \in Client : pc[c] = "running" => IsRead(op[c])) => View = SessionOf(db)
  BY DEF View, WritingNow
<1>5. ASSUME NEW c \in Client, pc[c] = "running", ~IsRead(op[c]) PROVE View = Completed(c)
  <2>1. \A d \in WritingNow : d = c  BY <1>1, <1>5 DEF WritingNow, ProgramInv
  <2>2. c \in WritingNow  BY <1>5 DEF WritingNow
  <2>3. (CHOOSE d \in WritingNow : TRUE) = c  BY <2>1, <2>2
  <2> QED  BY <2>2, <2>3 DEF View
<1>6. ASSUME NEW c \in Client, pc[c] = "running"
      PROVE  /\ op[c] = "initialize" => View =
                  Tables(m, List[c], Entries(c), Append(k, [run |-> c, status |-> "InProgress"]), t)
             /\ op[c] = "append_transcript" => View = Tables(m, f, p, k, Append(t, Turn(c)[2]))
             /\ op[c] = "replace_features" => View = Tables(m, List[c], p, k, t)
             /\ op[c] = "update_pass" => View = Apply(c, "update_pass", SessionOf(db))
  <2>1. ASSUME op[c] = "initialize"
       PROVE  View = Tables(m, List[c], Entries(c), Append(k, [run |-> c, status |-> "InProgress"]), t)
    <3>1. View = Completed(c)  BY <1>5, <1>6, <2>1 DEF IsRead
    <3>2. Left(c, "append_progress") <=> At(c) <= Len(List[c]) + 3  BY <1>1, <1>6, <2>1, LeftIs
    <3>3. PICK l \in BOOLEAN : l = Left(c, "append_progress")  BY DEF Left
    <3>4. Entries(c) = IF l THEN Append(p, c) ELSE p  BY <1>2, <3>2, <3>3 DEF Entries
    <3>5. Completed(c) = [Tables(m, f, p, k, t) EXCEPT
                            !.features = List[c],
                            !.progress = IF l THEN Append(@, c) ELSE @,
                            !.checkpoints = Append(@, [run |-> c, status |-> "InProgress"])]
      BY <1>3, <2>1, <3>3 DEF Completed
    <3>6. Completed(c) = Tables(m, List[c], IF l THEN Append(p, c) ELSE p,
                                Append(k, [run |-> c, status |-> "InProgress"]), t)
      BY <3>5 DEF Tables
    <3> QED  BY <2>1, <3>1, <3>4, <3>6
  <2>2. ASSUME op[c] = "append_transcript"
       PROVE  View = Tables(m, f, p, k, Append(t, Turn(c)[2]))
    <3>1. View = Completed(c)  BY <1>5, <1>6, <2>2 DEF IsRead
    <3>2. Completed(c) = [Tables(m, f, p, k, t) EXCEPT !.transcript = Append(@, Turn(c)[2])]
      BY <1>3, <2>2 DEF Completed
    <3> QED  BY <2>2, <3>1, <3>2 DEF Tables
  <2>3. ASSUME op[c] = "replace_features"
       PROVE  View = Tables(m, List[c], p, k, t)
    <3>1. View = Completed(c)  BY <1>5, <1>6, <2>3 DEF IsRead
    <3>2. Completed(c) = Apply(c, "replace_features", Tables(m, f, p, k, t))
      BY <1>3, <2>3 DEF Completed
    <3>3. Apply(c, "replace_features", Tables(m, f, p, k, t)) = Tables(m, List[c], p, k, t)
      BY DEF Apply, ReplaceFeatures, Tables
    <3> QED  BY <3>1, <3>2, <3>3
  <2>4. ASSUME op[c] = "update_pass"
       PROVE  View = Apply(c, "update_pass", SessionOf(db))
    <3>1. View = Completed(c)  BY <1>5, <1>6, <2>4 DEF IsRead
    <3> QED  BY <2>4, <3>1 DEF Completed
  <2> QED  BY <2>1, <2>2, <2>3, <2>4, Zenon
<1> QED  BY <1>2, <1>3, <1>4, <1>6

(* And so after a step. *)
LEMMA ViewsNext == Seen'
BY Views, PTL

(* A call that writes is done, to its clients, once it runs. *)
Phases ==
  /\ Phase = [c \in Client |-> Phase[c]]
  /\ \A c \in Client :
       Phase[c] = IF pc[c] \in {"idle", "done"} THEN pc[c]
                  ELSE IF pc[c] = "running" /\ ~IsRead(op[c]) THEN "done" ELSE "called"

(* The phases are those. *)
LEMMA PhasesAre == Phases
BY DEF Phases, Phase, WritingNow

(* And so after a step. *)
LEMMA PhasesNext == Phases'
BY PhasesAre, PTL

(* While one client's call goes on, the others are where they were. *)
LEMMA OthersWait ==
  ASSUME NEW c \in Client, Apart(c)
  PROVE  /\ Phase' = [Phase EXCEPT ![c] = Phase'[c]]
         /\ Answered' = [Answered EXCEPT ![c] = Answered'[c]]
         /\ Answered[c] = IF Phase[c] = "called" THEN NoAnswer ELSE answer[c]
         /\ Answered'[c] = IF Phase'[c] = "called" THEN NoAnswer ELSE answer'[c]
         /\ Phase[c] = Phase[c] /\ Phase' = [d \in Client |-> Phase'[d]]
         /\ Answered = [d \in Client |-> Answered[d]] /\ Phase = [d \in Client |-> Phase[d]]
<1>1. Phase = [d \in Client |-> Phase[d]] /\ Phase' = [d \in Client |-> Phase'[d]]
  BY PhasesAre, PhasesNext DEF Phases
<1>2. \A d \in Client \ {c} : Phase'[d] = Phase[d]
  BY PhasesAre, PhasesNext DEF Phases, Apart
<1>3. \A d \in Client : Answered[d] = IF Phase[d] = "called" THEN NoAnswer ELSE answer[d]
  BY DEF Answered
<1>4. \A d \in Client : Answered'[d] = IF Phase'[d] = "called" THEN NoAnswer ELSE answer'[d]
  BY DEF Answered
<1>5. Phase' = [Phase EXCEPT ![c] = Phase'[c]]  BY <1>1, <1>2
<1>6. Answered' = [Answered EXCEPT ![c] = Answered'[c]]
  <2>1. \A d \in Client \ {c} : Answered'[d] = Answered[d]  BY <1>2, <1>3, <1>4 DEF Apart
  <2>2. Answered = [d \in Client |-> Answered[d]] /\ Answered' = [d \in Client |-> Answered'[d]]
    BY DEF Answered
  <2> QED  BY <2>1, <2>2
<1>7. Answered = [d \in Client |-> Answered[d]]  BY DEF Answered
<1> QED  BY <1>1, <1>3, <1>4, <1>5, <1>6, <1>7

(* What a step is to the clients, as in MemoryBackend's contract. *)
Reaches(c, phase, a) ==
  /\ Phase' = [Phase EXCEPT ![c] = phase]
  /\ Answered' = [Answered EXCEPT ![c] = a]

Calling(c) ==
  /\ Phase[c] = "idle"
  /\ Len(calls[c]) < MaxCalls
  /\ \E kind \in Ops[c] : /\ op' = [op EXCEPT ![c] = kind]
                          /\ calls' = [calls EXCEPT ![c] = Append(@, kind)]
  /\ Reaches(c, "called", NoAnswer)
  /\ UNCHANGED <<View, acked>>

TakingEffect(c) ==
  /\ Phase[c] = "called"
  /\ View' = Apply(c, op[c], View)
  /\ Reaches(c, "done", Answer(c, op[c], View))
  /\ UNCHANGED <<op, calls, acked>>

Responding(c) ==
  /\ Phase[c] = "done"
  /\ acked' = IF Answered[c].status \in {"ok", "created"}
              THEN acked \cup {<<c, op[c]>>} ELSE acked
  /\ Phase' = [Phase EXCEPT ![c] = "idle"]
  /\ UNCHANGED <<View, op, Answered, calls>>

Failing(c) ==
  /\ Phase[c] \in {"called", "done"}
  /\ UNCHANGED <<View, op, calls, acked>>
  /\ Reaches(c, "idle", Failed)

Unseen == UNCHANGED <<View, Phase, op, Answered, calls, acked>>

(* The rows hold the first n features of c's list, in their order. *)
Listing(rows, c, n) ==
  /\ Len(rows) = n
  /\ \A i \in 1 .. n : rows[i].id = List[c][i].id /\ rows[i].passes = List[c][i].passes

(* What a load has read of the tables after n statements. *)
Part(n) ==
  Tables(db.manifest, IF n >= 2 THEN Lists(db.features) ELSE << >>,
         IF n >= 3 THEN db.progress ELSE << >>, << >>, << >>)

(* How far the call of c that is running has come. *)
Under(c) ==
  /\ op[c] = "initialize" =>
       /\ answer[c] = [status |-> "created", state |-> EmptySession] /\ db.manifest = c
       /\ At(c) \in 3 .. Len(List[c]) + 3 => Listing(db.features, c, At(c) - 3)
       /\ At(c) = Len(List[c]) + 4 => Listing(db.features, c, Len(List[c]))
  /\ op[c] = "replace_features" =>
       /\ answer[c] = [status |-> "ok", state |-> EmptySession]
       /\ Listing(db.features, c, At(c) - 1)
  /\ op[c] = "append_transcript" => answer[c] = [status |-> "ok", state |-> EmptySession]
  /\ op[c] = "update_pass" =>
       /\ answer[c] = [status |-> "ok", state |-> EmptySession]
       /\ \E i \in DOMAIN db.features :
            /\ db.features[i].id = Target[c]
            /\ \A j \in 1 .. (i - 1) : db.features[j].id # Target[c]
            /\ found[c] = db.features[i].row
  /\ op[c] = "load" => answer[c] = [status |-> "ok", state |-> Part(At(c))]

RunInv == \A c \in Client : pc[c] = "running" => Under(c)

(* Only these calls have more than one statement. *)
LEMMA LongCalls ==
  ASSUME ProgramInv, NEW c \in Client, pc[c] = "running"
  PROVE  /\ op[c] \in {"initialize", "replace_features", "append_transcript", "update_pass", "load"}
         /\ op[c] = "initialize" => At(c) \in 1 .. Len(List[c]) + 4
         /\ op[c] = "replace_features" => At(c) \in 1 .. Len(List[c])
         /\ op[c] \in {"append_transcript", "update_pass"} => At(c) = 1
         /\ op[c] = "load" => At(c) \in 1 .. 3
<1>1. PICK kind \in Kind : kind = op[c]  BY DEF ProgramInv
<1>2. PICK l : l = Len(Program(c, kind))  OBVIOUS
<1>3. At(c) \in 1 .. l - 1  BY <1>1, <1>2 DEF ProgramInv
<1>4. Len(List[c]) \in Nat  BY Listed
<1>5. CASE kind = "initialize"
  <2>1. l = Len(List[c]) + 5  BY <1>2, <1>5, InitializeProgram
  <2> QED  BY <1>1, <1>3, <1>4, <1>5, <2>1
<1>6. CASE kind = "replace_features"
  <2>1. l = Len(List[c]) + 1  BY <1>2, <1>6, ShortProgram, ReplaceProgram
  <2> QED  BY <1>1, <1>3, <1>4, <1>6, <2>1
<1>7. CASE kind \in {"append_transcript", "update_pass"}
  <2>1. \A x, y : Len(<<x, y>>) = 2  OBVIOUS
  <2>2. l = 2  BY <1>2, <1>7, <2>1, ShortProgram
  <2> QED  BY <1>1, <1>3, <1>7, <2>2
<1>8. CASE kind = "load"
  <2>1. l = 4  BY <1>2, <1>8, ShortProgram
  <2> QED  BY <1>1, <1>3, <1>8, <2>1
<1>9. CASE kind \in {"load_transcript", "is_initialized", "save_manifest", "append_progress", "checkpoint"}
  <2>1. l = 1  BY <1>2, <1>9, ShortProgram
  <2> QED  BY <1>3, <2>1
<1> QED  BY <1>5, <1>6, <1>7, <1>8, <1>9 DEF Kind

(* A step that touches no table and no call that is writing shows nothing of it. *)
LEMMA StillSeen ==
  ASSUME UNCHANGED db, WritingNow' = WritingNow,
         \A c \in WritingNow : op'[c] = op[c] /\ todo'[c] = todo[c]
  PROVE  View' = View
<1>1. CASE OneProcess /\ WritingNow # {}
  <2>1. PICK w \in WritingNow : w = CHOOSE c \in WritingNow : TRUE  BY <1>1
  <2>2. View = Completed(w) /\ View' = Completed(w)'  BY <1>1, <2>1 DEF View
  <2>3. op'[w] = op[w] /\ todo'[w] = todo[w]  OBVIOUS
  <2> QED  BY <2>2, <2>3 DEF Completed, Left, SessionOf
<1>2. CASE ~(OneProcess /\ WritingNow # {})
  BY <1>2 DEF View, SessionOf
<1> QED  BY <1>1, <1>2

(* The call of c is not one that is writing. *)
LEMMA StillSeenBut ==
  ASSUME NEW c \in Client, UNCHANGED db, Apart(c), c \notin WritingNow, c \notin WritingNow'
  PROVE  View' = View
<1>1. WritingNow' = WritingNow  BY DEF WritingNow, Apart
<1>2. \A d \in WritingNow : op'[d] = op[d] /\ todo'[d] = todo[d]  BY DEF WritingNow, Apart
<1> QED  BY <1>1, <1>2, StillSeen

(* How far the others have come is as before, when the tables are. *)
LEMMA OthersRun ==
  ASSUME RunInv, NEW c \in Client, Apart(c), UNCHANGED db, pc'[c] # "running"
  PROVE  RunInv'
<1> SUFFICES ASSUME NEW d \in Client, pc'[d] = "running"
             PROVE  Under(d)'
  BY DEF RunInv
<1>1. d # c  OBVIOUS
<1>2. /\ pc[d] = "running" /\ op'[d] = op[d] /\ answer'[d] = answer[d]
      /\ found'[d] = found[d] /\ At(d)' = At(d)
  BY <1>1 DEF Apart
<1>3. Under(d)  BY <1>2 DEF RunInv
<1>4. Part(At(d))' = Part(At(d))  BY <1>2 DEF Part
<1> QED  BY <1>2, <1>3, <1>4 DEF Under

(* A call sets off. *)
LEMMA CallSeen ==
  ASSUME TablesInv, RunInv, NEW c \in Client, Call(c)
  PROVE  TablesInv' /\ RunInv' /\ Calling(c)
<1>1. /\ TablesInv' /\ db' = db
      /\ pc[c] = "idle" /\ pc'[c] = "called" /\ answer'[c] = NoAnswer
      /\ Apart(c)
  BY CallTables
<1>2. RunInv'  BY <1>1, OthersRun
<1>3. View' = View  BY <1>1, StillSeenBut DEF WritingNow
<1>4. Phase[c] = "idle" /\ Phase'[c] = "called"
  BY <1>1, PhasesAre, PhasesNext DEF Phases
<1>5. Reaches(c, "called", NoAnswer)  BY <1>1, <1>4, OthersWait DEF Reaches
<1> QED  BY <1>1, <1>2, <1>3, <1>4, <1>5 DEF Call, Calling

(* A call is answered. *)
LEMMA RespondSeen ==
  ASSUME TablesInv, RunInv, NEW c \in Client, Respond(c)
  PROVE  TablesInv' /\ RunInv' /\ Responding(c)
<1>1. /\ TablesInv' /\ db' = db /\ pc[c] = "done" /\ pc'[c] = "idle"
      /\ Apart(c) /\ answer' = answer /\ UNCHANGED <<op, calls>>
      /\ acked' = IF answer[c].status \in {"ok", "created"} THEN acked \cup {<<c, op[c]>>} ELSE acked
  BY RespondTables DEF Respond
<1>2. RunInv'  BY <1>1, OthersRun
<1>3. View' = View  BY <1>1, StillSeenBut DEF WritingNow
<1>4. Phase[c] = "done" /\ Phase'[c] = "idle"
  BY <1>1, PhasesAre, PhasesNext DEF Phases
<1>5. /\ Phase' = [Phase EXCEPT ![c] = "idle"] /\ Answered' = [Answered EXCEPT ![c] = Answered'[c]]
      /\ Answered[c] = answer[c] /\ Answered'[c] = answer[c]
  BY <1>1, <1>4, OthersWait
<1>6. Answered' = Answered  BY <1>5 DEF Answered
<1> QED  BY <1>1, <1>2, <1>3, <1>4, <1>5, <1>6 DEF Responding

(* A call fails, before its first statement or when it only reads. *)
LEMMA FailSeen ==
  ASSUME TablesInv, RunInv, ~Interrupted, NEW c \in Client, Fail(c)
  PROVE  TablesInv' /\ RunInv' /\ Failing(c)
<1>1. /\ TablesInv' /\ db' = db /\ pc'[c] = "idle" /\ answer'[c] = Failed /\ op' = op
      /\ Apart(c)
  BY FailTables
<1>2. /\ pc[c] # "idle" /\ (pc[c] # "running" \/ IsRead(op[c])) /\ UNCHANGED <<calls, acked>>
  BY DEF Fail
<1>3. RunInv'  BY <1>1, OthersRun
<1>4. View' = View  BY <1>1, <1>2, StillSeenBut DEF WritingNow
<1>5. pc[c] \in Points  BY DEF TablesInv, ProgramInv
<1>6. Phase[c] \in {"called", "done"} /\ Phase'[c] = "idle"
  BY <1>1, <1>2, <1>5, PhasesAre, PhasesNext DEF Phases, Points
<1>7. Reaches(c, "idle", Failed)  BY <1>1, <1>6, OthersWait DEF Reaches
<1> QED  BY <1>1, <1>2, <1>3, <1>4, <1>6, <1>7 DEF Failing

(* Statements exclude each other: when c has executed one, the others still wait. *)
LEMMA Alone ==
  ASSUME OneProcess, NEW c \in Client, NEW kinds, Scheduled(c, kinds), Apart(c)
  PROVE  /\ \A d \in Client \ {c} : pc[d] # "running" /\ pc'[d] # "running"
         /\ pc[c] \in {"called", "running"}
BY DEF Scheduled, Apart

(* What is seen of a table that was read. *)
LEMMA SeenNow ==
  ASSUME OneProcess, TablesInv, \A c \in Client : pc[c] = "running" => IsRead(op[c])
  PROVE  View = SessionOf(db) /\ View \in SessionType
<1>1. PICK d \in DbType : d = db  BY DEF TablesInv, DataInv
<1>2. View = Tables(d.manifest, Lists(d.features), d.progress, d.checkpoints, d.transcript)
  BY <1>1, Views DEF Seen
<1> QED  BY <1>1, <1>2, DbTabled, SessionFields

(* The step of c makes its call take effect. *)
LEMMA Effective ==
  ASSUME NEW c \in Client, Apart(c), Phase[c] = "called", Phase'[c] = "done",
         View' = Apply(c, op[c], View), answer'[c] = Answer(c, op[c], View),
         UNCHANGED <<op, calls, acked>>
  PROVE  TakingEffect(c)
<1>1. Reaches(c, "done", Answer(c, op[c], View))  BY OthersWait DEF Reaches
<1> QED  BY <1>1 DEF TakingEffect

(* The answers of the calls that write. *)
LEMMA WriteAnswers ==
  ASSUME NEW c \in Client, NEW s
  PROVE  /\ IsInitialized(s) =>
              Answer(c, "initialize", s) = [status |-> "exists", state |-> EmptySession]
         /\ ~IsInitialized(s) =>
              Answer(c, "initialize", s) = [status |-> "created", state |-> EmptySession]
         /\ HasFeature(s, Target[c]) =>
              Answer(c, "update_pass", s) = [status |-> "ok", state |-> EmptySession]
         /\ ~HasFeature(s, Target[c]) =>
              Answer(c, "update_pass", s) = [status |-> "not_found", state |-> EmptySession]
         /\ \A kind \in {"replace_features", "append_transcript", "save_manifest", "append_progress",
                         "checkpoint"} :
              Answer(c, kind, s) = [status |-> "ok", state |-> EmptySession]
BY DEF Answer, Status, Loaded, Refused

(* The claim of a session row is where an initialization takes effect, or is refused. *)
LEMMA ClaimSeen ==
  ASSUME OneProcess, TablesInv, RunInv, NEW c \in Client, ClaimSession(c)
  PROVE  TablesInv' /\ RunInv' /\ TakingEffect(c)
<1>1. /\ TablesInv' /\ op[c] = "initialize" /\ At(c) = 0 /\ pc[c] = "called"
      /\ UNCHANGED <<nextRow, found, op, calls, acked>>
      /\ Apart(c)
      /\ IsInitialized(db) =>
           /\ db' = db /\ pc'[c] = "done"
           /\ answer'[c] = [status |-> "exists", state |-> EmptySession]
      /\ ~IsInitialized(db) =>
           /\ Saves(c) /\ pc'[c] = "running" /\ At(c)' = 1
           /\ answer'[c] = [status |-> "created", state |-> EmptySession]
  BY ClaimTables
<1>2. \A d \in Client \ {c} : pc[d] # "running" /\ pc'[d] # "running"
  BY <1>1, Alone DEF ClaimSession
<1>3. /\ View = SessionOf(db) /\ (IsInitialized(View) <=> IsInitialized(db))
      /\ View = Tables(db.manifest, Lists(db.features), db.progress, db.checkpoints, db.transcript)
  <2>1. View = SessionOf(db)  BY <1>1, <1>2, SeenNow
  <2>2. PICK d \in DbType : d = db  BY DEF TablesInv, DataInv
  <2> QED  BY <2>1, <2>2, SessionFields, DbTabled
<1>4. Phase[c] = "called" /\ Phase'[c] = "done"
  BY <1>1, PhasesAre, PhasesNext DEF Phases, IsRead
<1>5. CASE IsInitialized(db)
  <2>1. View' = View  BY <1>1, <1>5, StillSeenBut DEF WritingNow
  <2>2. Apply(c, "initialize", View) = View
    BY <1>3, <1>5 DEF Apply, InitializeIfMissing
  <2>3. answer'[c] = Answer(c, "initialize", View)  BY <1>1, <1>3, <1>5, WriteAnswers
  <2>4. RunInv'  BY <1>1, <1>5, OthersRun
  <2> QED  BY <1>1, <1>4, <2>1, <2>2, <2>3, <2>4, Effective
<1>6. CASE ~IsInitialized(db)
  <2>1. /\ db'.manifest = c /\ db'.features = db.features /\ db'.progress = db.progress
        /\ db'.checkpoints = db.checkpoints /\ db'.transcript = db.transcript
    BY <1>1, <1>6, Effects DEF TablesInv
  <2>2. op'[c] = "initialize" /\ pc'[c] = "running" /\ At(c)' = 1  BY <1>1, <1>6
  <2>3. View' = Tables(db'.manifest, List[c], Entries(c)',
                       Append(db'.checkpoints, [run |-> c, status |-> "InProgress"]), db'.transcript)
    BY <1>1, <2>2, ViewsNext DEF Seen
  <2>4. Entries(c)' = Append(db.progress, c)
    <3>1. 1 <= Len(List[c]) + 3  BY Listed
    <3> QED  BY <2>1, <2>2, <3>1 DEF Entries
  <2>5. PICK m, f, p, k, t : /\ m = db.manifest /\ f = Lists(db.features) /\ p = db.progress
                             /\ k = db.checkpoints /\ t = db.transcript
    OBVIOUS
  <2>6. m = NoManifest  BY <1>6, <2>5 DEF IsInitialized
  <2>7. View' = Tables(c, List[c], Append(p, c), Append(k, [run |-> c, status |-> "InProgress"]), t)
    BY <2>1, <2>3, <2>4, <2>5
  <2>8. Apply(c, "initialize", Tables(m, f, p, k, t)) =
          Tables(c, List[c], Append(p, c), Append(k, [run |-> c, status |-> "InProgress"]), t)
    BY <2>6 DEF Apply, InitializeIfMissing, IsInitialized, Tables
  <2>9. View' = Apply(c, op[c], View)  BY <1>1, <1>3, <2>5, <2>7, <2>8
  <2>10. answer'[c] = Answer(c, op[c], View)  BY <1>1, <1>3, <1>6, WriteAnswers
  <2>11. Under(c)'
    <3>1. ~(1 \in 3 .. Len(List[c]) + 3) /\ 1 # Len(List[c]) + 4  BY Listed
    <3> QED  BY <1>1, <1>6, <2>1, <2>2, <3>1 DEF Under
  <2>12. RunInv'  BY <1>2, <2>11 DEF RunInv
  <2> QED  BY <1>1, <1>4, <2>9, <2>10, <2>12, Effective
<1> QED  BY <1>5, <1>6

(* A feature that is not listed is not marked. *)
LEMMA NoMark ==
  ASSUME NEW c \in Client, NEW s \in SessionType, ~HasFeature(s, Target[c])
  PROVE  Apply(c, "update_pass", s) = s
<1>1. Apply(c, "update_pass", s) = UpdateFeaturePass(s, Target[c], TRUE)  BY DEF Apply
<1>2. s.features \in Seq(FeatureRecord(Feature))  BY DEF SessionType
<1>3. \A i \in DOMAIN s.features : s.features[i].id # Target[c]  BY DEF HasFeature
<1>4. UpdateFeaturePass(s, Target[c], TRUE) = [s EXCEPT !.features = [i \in DOMAIN s.features |-> s.features[i]]]
  BY <1>3 DEF UpdateFeaturePass
<1>5. s.features = [i \in DOMAIN s.features |-> s.features[i]]  BY <1>2
<1>6. [s EXCEPT !.features = s.features] = s  BY DEF SessionType
<1> QED  BY <1>1, <1>4, <1>5, <1>6

(* The search of a feature is where its mark takes effect, or is refused. *)
LEMMA FindSeen ==
  ASSUME OneProcess, TablesInv, RunInv, NEW c \in Client, FindFeature(c)
  PROVE  TablesInv' /\ RunInv' /\ TakingEffect(c)
<1>1. /\ TablesInv' /\ op[c] = "update_pass" /\ At(c) = 0 /\ pc[c] = "called"
      /\ UNCHANGED <<db, nextRow, op, calls, acked>>
      /\ Apart(c)
      /\ ~HasFeature(db, Target[c]) =>
           pc'[c] = "done" /\ answer'[c] = [status |-> "not_found", state |-> EmptySession]
      /\ HasFeature(db, Target[c]) =>
           /\ \E i \in DOMAIN db.features :
                /\ db.features[i].id = Target[c]
                /\ \A j \in 1 .. (i - 1) : db.features[j].id # Target[c]
                /\ found'[c] = db.features[i].row
           /\ pc'[c] = "running" /\ At(c)' = 1
           /\ answer'[c] = [status |-> "ok", state |-> EmptySession]
  BY FindTables
<1>2. \A d \in Client \ {c} : pc[d] # "running" /\ pc'[d] # "running"
  BY <1>1, Alone DEF FindFeature
<1>3. /\ View = SessionOf(db) /\ View \in SessionType
      /\ HasFeature(View, Target[c]) <=> HasFeature(db, Target[c])
  <2>1. View = SessionOf(db) /\ View \in SessionType  BY <1>1, <1>2, SeenNow
  <2>2. PICK d \in DbType : d = db  BY DEF TablesInv, DataInv
  <2> QED  BY <2>1, <2>2, SessionFields
<1>4. Phase[c] = "called" /\ Phase'[c] = "done"
  BY <1>1, PhasesAre, PhasesNext DEF Phases, IsRead
<1>5. CASE ~HasFeature(db, Target[c])
  <2>1. View' = View  BY <1>1, <1>5, StillSeenBut DEF WritingNow
  <2>2. PICK s \in SessionType : s = View  BY <1>3
  <2>3. ~HasFeature(s, Target[c])  BY <1>3, <1>5, <2>2
  <2>4. Apply(c, "update_pass", s) = s  BY <2>3, NoMark
  <2>5. Answer(c, "update_pass", s) = [status |-> "not_found", state |-> EmptySession]
    BY <2>3, WriteAnswers
  <2>6. RunInv'  BY <1>1, <1>5, OthersRun
  <2> QED  BY <1>1, <1>4, <1>5, <2>1, <2>2, <2>4, <2>5, <2>6, Effective
<1>6. CASE HasFeature(db, Target[c])
  <2>1. op'[c] = "update_pass" /\ pc'[c] = "running" /\ At(c)' = 1  BY <1>1, <1>6
  <2>2. View' = Apply(c, "update_pass", SessionOf(db)')
    BY <1>1, <2>1, ViewsNext DEF Seen
  <2>3. SessionOf(db)' = SessionOf(db)  BY <1>1 DEF SessionOf
  <2>4. View' = Apply(c, op[c], View)  BY <1>1, <1>3, <2>2, <2>3
  <2>5. answer'[c] = Answer(c, op[c], View)
    <3>1. PICK s \in SessionType : s = View  BY <1>3
    <3>2. Answer(c, "update_pass", s) = [status |-> "ok", state |-> EmptySession]
      BY <1>3, <1>6, <3>1, WriteAnswers
    <3> QED  BY <1>1, <1>6, <3>1, <3>2
  <2>6. Under(c)'  BY <1>1, <1>6, <2>1 DEF Under
  <2>7. RunInv'  BY <1>2, <2>6 DEF RunInv
  <2> QED  BY <1>1, <1>4, <2>4, <2>5, <2>7, Effective
<1> QED  BY <1>5, <1>6

(* What a load has read after n statements, and what it reads next. *)
LEMMA Parts ==
  ASSUME NEW m, NEW f, NEW p, NEW k, NEW t
  PROVE  LET s == Tables(m, f, p, k, t) IN
         /\ Read(<<"read_manifest", 0>>, EmptySession, s) = Tables(m, << >>, << >>, << >>, << >>)
         /\ Read(<<"read_features", 0>>, Tables(m, << >>, << >>, << >>, << >>), s) =
              Tables(m, f, << >>, << >>, << >>)
         /\ Read(<<"read_progress", 0>>, Tables(m, f, << >>, << >>, << >>), s) =
              Tables(m, f, p, << >>, << >>)
         /\ Read(<<"read_checkpoints", 0>>, Tables(m, f, p, << >>, << >>), s) = Loaded("load", s)
         /\ Read(<<"read_transcript", 0>>, EmptySession, s) = Loaded("load_transcript", s)
         /\ Read(<<"is_initialized", 0>>, EmptySession, s) = Loaded("is_initialized", s)
<1> USE DEF Read, Tables, Loaded, EmptySession
<1> DEFINE s == Tables(m, f, p, k, t)
<1>1. Read(<<"read_manifest", 0>>, EmptySession, s) = Tables(m, << >>, << >>, << >>, << >>)  OBVIOUS
<1>2. Read(<<"read_features", 0>>, Tables(m, << >>, << >>, << >>, << >>), s) =
        Tables(m, f, << >>, << >>, << >>)
  OBVIOUS
<1>3. Read(<<"read_progress", 0>>, Tables(m, f, << >>, << >>, << >>), s) =
        Tables(m, f, p, << >>, << >>)
  OBVIOUS
<1>4. Read(<<"read_checkpoints", 0>>, Tables(m, f, p, << >>, << >>), s) = Loaded("load", s)  OBVIOUS
<1>5. Read(<<"read_transcript", 0>>, EmptySession, s) = Loaded("load_transcript", s)  OBVIOUS
<1>6. Read(<<"is_initialized", 0>>, EmptySession, s) = Loaded("is_initialized", s)  OBVIOUS
<1> HIDE DEF Read, Tables, Loaded, EmptySession
<1> QED  BY <1>1, <1>2, <1>3, <1>4, <1>5, <1>6

(* A read takes effect with its last statement. *)
LEMMA ReadSeen ==
  ASSUME OneProcess, TablesInv, RunInv, NEW c \in Client, ReadRows(c)
  PROVE  TablesInv' /\ RunInv' /\ (Unseen \/ TakingEffect(c))
<1>1. /\ TablesInv' /\ IsRead(op[c])
      /\ pc[c] \in {"called", "running"} /\ (pc[c] = "called" <=> At(c) = 0)
      /\ UNCHANGED <<db, nextRow, found, op, calls, acked>>
      /\ Apart(c)
      /\ answer'[c] = [status |-> Status(c, op[c], db),
                       state  |-> Read(Program(c, op[c])[At(c) + 1], answer[c].state, SessionOf(db))]
      /\ At(c) + 1 = Len(Program(c, op[c])) => pc'[c] = "done"
      /\ At(c) + 1 # Len(Program(c, op[c])) => pc'[c] = "running" /\ At(c)' = At(c) + 1
  BY ReadTables
<1>2. \A d \in Client \ {c} : pc[d] # "running" /\ pc'[d] # "running"
  BY <1>1, Alone DEF ReadRows
<1>3. PICK m, f, p, k, t : /\ m = db.manifest /\ f = Lists(db.features) /\ p = db.progress
                           /\ k = db.checkpoints /\ t = db.transcript
  OBVIOUS
<1>4. View = SessionOf(db) /\ View = Tables(m, f, p, k, t) /\ (IsInitialized(View) <=> IsInitialized(db))
  <2>1. View = SessionOf(db)  BY <1>1, <1>2, SeenNow
  <2>2. PICK d \in DbType : d = db  BY DEF TablesInv, DataInv
  <2> QED  BY <1>3, <2>1, <2>2, SessionFields, DbTabled
<1>5. View' = View  BY <1>1, StillSeenBut DEF WritingNow
<1>6. /\ Phase[c] = "called"
      /\ pc'[c] = "done" => Phase'[c] = "done"
      /\ pc'[c] = "running" => Phase'[c] = "called"
  BY <1>1, PhasesAre, PhasesNext DEF Phases
<1>7. Status(c, op[c], db) = Status(c, op[c], View)
  BY <1>1, <1>4 DEF Status, IsRead, Refused
<1>8. pc[c] = "called" => answer[c].state = EmptySession
  BY DEF TablesInv, DataInv, NoAnswer
<1>9. CASE op[c] # "load"
  <2>1. pc[c] = "called" /\ At(c) = 0
    BY <1>1, <1>9, LongCalls DEF TablesInv, IsRead
  <2>2. PICK x \in {"read_transcript", "is_initialized"} : /\ Program(c, op[c]) = << <<x, 0>> >>
                     /\ op[c] = IF x = "read_transcript" THEN "load_transcript" ELSE x
    BY <1>1, <1>9, ShortProgram DEF IsRead
  <2>3. \A y : Len(<< y >>) = 1 /\ << y >>[1] = y  OBVIOUS
  <2>4. Program(c, op[c])[At(c) + 1] = <<x, 0>> /\ Len(Program(c, op[c])) = 1  BY <2>1, <2>2, <2>3
  <2>5. answer'[c].state = Loaded(op[c], View)
    BY <1>1, <1>4, <1>8, <2>1, <2>2, <2>4, Parts
  <2>6. answer'[c] = Answer(c, op[c], View)
    BY <1>1, <1>7, <2>5 DEF Answer
  <2>7. pc'[c] = "done"  BY <1>1, <2>1, <2>4
  <2>8. Apply(c, op[c], View) = View  BY <1>1 DEF Apply, IsRead
  <2> QED  BY <1>1, <1>5, <1>6, <2>6, <2>7, <2>8, OthersRun, Effective
<1>10. CASE op[c] = "load"
  <2>1. PICK n \in 0 .. 3 : n = At(c) /\ (pc[c] = "called" => n = 0) /\ (pc[c] = "running" => n # 0)
    BY <1>1, <1>10, LongCalls DEF TablesInv
  <2>2. Len(Program(c, op[c])) = 4
    BY <1>10, ShortProgram
  <2>3. answer[c].state = IF n = 0 THEN EmptySession ELSE Part(n)
    <3>1. CASE pc[c] = "called"  BY <1>8, <2>1, <3>1
    <3>2. CASE pc[c] = "running"
      <4>1. Under(c)  BY <3>2 DEF RunInv
      <4>2. answer[c] = [status |-> "ok", state |-> Part(At(c))]  BY <1>10, <4>1 DEF Under
      <4>3. answer[c].state = Part(At(c)) /\ n # 0  BY <2>1, <3>2, <4>2
      <4>4. Part(At(c)) = Part(n)  BY <2>1
      <4> QED  BY <4>3, <4>4
    <3> QED  BY <1>1, <3>1, <3>2
  <2>4. PICK x : x = Program(c, op[c])[n + 1]  OBVIOUS
  <2>5. /\ n = 0 => x = <<"read_manifest", 0>>
        /\ n = 1 => x = <<"read_features", 0>>
        /\ n = 2 => x = <<"read_progress", 0>>
        /\ n = 3 => x = <<"read_checkpoints", 0>>
    BY <1>10, <2>4, ShortProgram
  <2>6. answer'[c] = [status |-> "ok", state |-> Read(x, answer[c].state, Tables(m, f, p, k, t))]
    <3>1. Status(c, op[c], db) = "ok"  BY <1>10 DEF Status, Refused
    <3> QED  BY <1>1, <1>4, <2>1, <2>4, <3>1
  <2>7. Part(n) = Tables(m, IF n >= 2 THEN f ELSE << >>, IF n >= 3 THEN p ELSE << >>, << >>, << >>)
    BY <1>3 DEF Part
  <2>8. Part(n + 1)' = Tables(m, IF n + 1 >= 2 THEN f ELSE << >>, IF n + 1 >= 3 THEN p ELSE << >>, << >>, << >>)
    BY <1>1, <1>3 DEF Part
  <2>9. CASE n # 3
    <3>1. pc'[c] = "running" /\ At(c)' = n + 1  BY <1>1, <2>1, <2>2, <2>9
    <3>2. answer'[c] = [status |-> "ok", state |-> Part(n + 1)']
      <4>1. CASE n = 0
        <5>1. Read(x, EmptySession, Tables(m, f, p, k, t)) = Tables(m, << >>, << >>, << >>, << >>)
          BY <2>5, <4>1, Parts
        <5> QED  BY <2>3, <2>6, <2>8, <4>1, <5>1
      <4>2. CASE n = 1
        <5>1. Read(x, Tables(m, << >>, << >>, << >>, << >>), Tables(m, f, p, k, t)) = Tables(m, f, << >>, << >>, << >>)
          BY <2>5, <4>2, Parts
        <5> QED  BY <2>3, <2>6, <2>7, <2>8, <4>2, <5>1
      <4>3. CASE n = 2
        <5>1. Read(x, Tables(m, f, << >>, << >>, << >>), Tables(m, f, p, k, t)) = Tables(m, f, p, << >>, << >>)
          BY <2>5, <4>3, Parts
        <5> QED  BY <2>3, <2>6, <2>7, <2>8, <4>3, <5>1
      <4> QED  BY <2>9, <4>1, <4>2, <4>3
    <3>3. Under(c)'  BY <1>1, <1>10, <3>1, <3>2 DEF Under
    <3>4. RunInv'  BY <1>2, <3>3 DEF RunInv
    <3>5. Phase' = Phase /\ Answered' = Answered
      <4>1. Phase'[c] = "called" /\ Phase[c] = "called"  BY <1>6, <3>1
      <4>2. Phase' = [Phase EXCEPT ![c] = "called"] /\ Phase = [d \in Client |-> Phase[d]]
            /\ Answered' = [Answered EXCEPT ![c] = NoAnswer] /\ Answered = [d \in Client |-> Answered[d]]
            /\ Answered[c] = NoAnswer
        BY <1>1, <4>1, OthersWait
      <4> QED  BY <4>1, <4>2
    <3> QED  BY <1>1, <1>5, <3>4, <3>5 DEF Unseen
  <2>10. CASE n = 3
    <3>1. pc'[c] = "done"  BY <1>1, <2>1, <2>2, <2>10
    <3>2. Part(n) = Tables(m, f, p, << >>, << >>)  BY <2>7, <2>10
    <3>3. Read(x, Part(n), Tables(m, f, p, k, t)) = Loaded("load", Tables(m, f, p, k, t))
      BY <2>5, <2>10, <3>2, Parts
    <3>4. Answer(c, "load", View) = [status |-> "ok", state |-> Loaded("load", View)]
      BY DEF Answer, Status, Refused
    <3>5. answer'[c] = Answer(c, op[c], View)
      BY <1>4, <1>10, <2>3, <2>6, <2>10, <3>3, <3>4
    <3>6. Apply(c, op[c], View) = View  BY <1>1 DEF Apply, IsRead
    <3> QED  BY <1>1, <1>5, <1>6, <3>1, <3>5, <3>6, OthersRun, Effective
  <2> QED  BY <2>9, <2>10
<1> QED  BY <1>9, <1>10

(* Inserting the features of a list one after the other, from none to all. *)
LEMMA ListingStarts ==
  ASSUME NEW c PROVE Listing(<< >>, c, 0)
BY DEF Listing

(* One more feature is inserted. *)
LEMMA ListingGrows ==
  ASSUME NEW c \in Client, NEW rows \in Seq(RowType), NEW i \in 1 .. Len(List[c]),
         Numbered(rows, nextRow), Listing(rows, c, i - 1)
  PROVE  Listing(Append(rows, Row(nextRow, List[c][i])), c, i)
<1>1. PICK n \in Nat : n = nextRow  BY DEF Numbered
<1>2. PICK f \in FeatureRecord(Feature) : f = List[c][i]  BY Listed
<1>3. PICK new : new = Append(rows, Row(n, f))  OBVIOUS
<1>4. /\ Len(new) = Len(rows) + 1
      /\ \A j \in DOMAIN rows : new[j] = rows[j]
      /\ new[Len(rows) + 1] = Row(n, f)
  BY <1>1, <1>3, RowAppended
<1>5. Row(n, f).id = f.id /\ Row(n, f).passes = f.passes  BY RowTyped
<1>6. Len(rows) = i - 1 /\ DOMAIN rows = 1 .. i - 1
  BY DEF Listing
<1>7. \A j \in 1 .. i : new[j].id = List[c][j].id /\ new[j].passes = List[c][j].passes
  <2> SUFFICES ASSUME NEW j \in 1 .. i
               PROVE  new[j].id = List[c][j].id /\ new[j].passes = List[c][j].passes
    OBVIOUS
  <2>1. CASE j = i  BY <1>2, <1>4, <1>5, <1>6, <2>1
  <2>2. CASE j # i
    <3>1. j \in 1 .. i - 1  BY <2>2
    <3>2. new[j] = rows[j]  BY <1>4, <1>6, <3>1
    <3> QED  BY <3>1, <3>2 DEF Listing
  <2> QED  BY <2>1, <2>2
<1>8. Len(new) = i  BY <1>4, <1>6
<1> QED  BY <1>1, <1>2, <1>3, <1>7, <1>8 DEF Listing

(* All of them are. *)
LEMMA ListingEnds ==
  ASSUME NEW c \in Client, NEW rows \in Seq(RowType), Listing(rows, c, Len(List[c]))
  PROVE  Lists(rows) = List[c]
<1>1. PICK fs \in Seq(FeatureRecord(Feature)) : fs = List[c]  BY Listed
<1>2. Len(rows) = Len(fs) /\ DOMAIN rows = 1 .. Len(fs)  BY <1>1 DEF Listing
<1>3. \A i \in DOMAIN rows : rows[i].id = fs[i].id /\ rows[i].passes = fs[i].passes
  BY <1>1, <1>2 DEF Listing
<1> QED  BY <1>1, <1>2, <1>3, SameLists

(* Marking the row that was found is marking the first feature of that name. *)
LEMMA MarkIs ==
  ASSUME NEW c \in Client, NEW rows \in Seq(RowType), NEW n, Numbered(rows, n), NEW i \in DOMAIN rows,
         rows[i].id = Target[c], \A j \in 1 .. (i - 1) : rows[j].id # Target[c],
         NEW m, NEW p, NEW k, NEW t
  PROVE  Apply(c, "update_pass", Tables(m, Lists(rows), p, k, t)) =
           Tables(m, Lists(Marked(rows, rows[i].row)), p, k, t)
<1> DEFINE fs == Lists(rows)
           r == rows[i].row
           new == Lists(Marked(rows, r))
           upd == [j \in DOMAIN fs |->
                     IF fs[j].id = Target[c] /\ \A l \in 1 .. (j - 1) : fs[l].id # Target[c]
                     THEN [fs[j] EXCEPT !.passes = TRUE] ELSE fs[j]]
<1>1. /\ fs \in Seq(FeatureRecord(Feature)) /\ DOMAIN fs = DOMAIN rows
      /\ \A j \in DOMAIN rows : fs[j].id = rows[j].id /\ fs[j].passes = rows[j].passes
  BY ListsFacts
<1>2. DOMAIN rows = 1 .. Len(rows) /\ Len(rows) \in Nat  OBVIOUS
<1>3. PICK q \in Seq(RowType) : q = Marked(rows, r)  BY RowMarked
<1>4. /\ DOMAIN q = DOMAIN rows
      /\ \A j \in DOMAIN rows : /\ q[j].id = rows[j].id
                                /\ q[j].passes = (rows[j].passes \/ rows[j].row = r)
  BY <1>3, RowMarked
<1>5. /\ Lists(q) \in Seq(FeatureRecord(Feature)) /\ DOMAIN Lists(q) = DOMAIN rows
      /\ \A j \in DOMAIN rows : Lists(q)[j].id = q[j].id /\ Lists(q)[j].passes = q[j].passes
  BY <1>4, ListsFacts
<1>6. \A j \in DOMAIN rows : rows[j].row = r <=> j = i  BY DEF Numbered
<1>7. \A j \in DOMAIN rows : j # i => ~(/\ fs[j].id = Target[c]
                                        /\ \A l \in 1 .. (j - 1) : fs[l].id # Target[c])
  <2> SUFFICES ASSUME NEW j \in DOMAIN rows, j # i, fs[j].id = Target[c],
                      \A l \in 1 .. (j - 1) : fs[l].id # Target[c]
               PROVE  FALSE
    OBVIOUS
  <2> HIDE DEF fs
  <2>1. j > i \/ j < i  BY <1>2
  <2>2. CASE j > i
    <3>1. i \in 1 .. (j - 1)  BY <1>2, <2>2
    <3> QED  BY <1>1, <3>1
  <2>3. CASE j < i
    <3>1. j \in 1 .. (i - 1)  BY <1>2, <2>3
    <3> QED  BY <1>1, <3>1
  <2> QED  BY <2>1, <2>2, <2>3
<1>8. fs[i].id = Target[c] /\ \A l \in 1 .. (i - 1) : fs[l].id # Target[c]
  <2>1. \A l \in 1 .. (i - 1) : l \in DOMAIN rows  BY <1>2
  <2> HIDE DEF fs
  <2> QED  BY <1>1, <2>1
<1>9. \A j \in DOMAIN rows : fs[j] \in FeatureRecord(Feature) /\ Lists(q)[j] \in FeatureRecord(Feature)
  <2> HIDE DEF fs
  <2> QED  BY <1>1, <1>5
<1>10. ASSUME NEW j \in DOMAIN rows PROVE upd[j] = Lists(q)[j]
  <2>1. CASE j = i
    <3>1. upd[j] = [fs[j] EXCEPT !.passes = TRUE]  BY <1>1, <1>8, <2>1
    <3> HIDE DEF upd, fs
    <3>2. Lists(q)[j].passes = TRUE  BY <1>4, <1>5, <1>6, <2>1
    <3>3. Lists(q)[j].id = fs[j].id  BY <1>1, <1>4, <1>5
    <3>4. PICK y \in FeatureRecord(Feature), z \in FeatureRecord(Feature) : y = fs[j] /\ z = Lists(q)[j]
      BY <1>9
    <3>5. z.passes = TRUE /\ z.id = y.id  BY <3>2, <3>3, <3>4
    <3>6. [y EXCEPT !.passes = TRUE] = z  BY <3>5 DEF FeatureRecord
    <3> QED  BY <3>1, <3>4, <3>6
  <2>2. CASE j # i
    <3>1. upd[j] = fs[j]  BY <1>1, <1>7, <2>2
    <3> HIDE DEF upd, fs
    <3>2. PICK y \in FeatureRecord(Feature), z \in FeatureRecord(Feature) : y = fs[j] /\ z = Lists(q)[j]
      BY <1>9
    <3>3. rows[j] \in RowType  OBVIOUS
    <3>4. z.passes = y.passes  BY <1>1, <1>4, <1>5, <1>6, <2>2, <3>2, <3>3 DEF RowType
    <3>5. z.id = y.id  BY <1>1, <1>4, <1>5, <3>2
    <3>6. z = y  BY <3>4, <3>5 DEF FeatureRecord
    <3> QED  BY <3>1, <3>2, <3>6
  <2> QED  BY <2>1, <2>2
<1>11. upd = Lists(q)
  <2>1. DOMAIN upd = DOMAIN rows /\ upd = [j \in DOMAIN rows |-> upd[j]]  BY <1>1
  <2>2. Lists(q) = [j \in DOMAIN rows |-> Lists(q)[j]]  BY <1>5
  <2> HIDE DEF upd
  <2> QED  BY <1>10, <2>1, <2>2
<1>12. Apply(c, "update_pass", Tables(m, fs, p, k, t)) = Tables(m, upd, p, k, t)
  <2>1. Apply(c, "update_pass", Tables(m, fs, p, k, t)) = UpdateFeaturePass(Tables(m, fs, p, k, t), Target[c], TRUE)
    BY DEF Apply
  <2>2. Tables(m, fs, p, k, t).features = fs  BY DEF Tables
  <2>3. UpdateFeaturePass(Tables(m, fs, p, k, t), Target[c], TRUE) = [Tables(m, fs, p, k, t) EXCEPT !.features = upd]
    BY <2>2 DEF UpdateFeaturePass
  <2> HIDE DEF upd, fs
  <2>4. [Tables(m, fs, p, k, t) EXCEPT !.features = upd] = Tables(m, upd, p, k, t)  BY DEF Tables
  <2> QED  BY <2>1, <2>3, <2>4
<1> QED  BY <1>3, <1>11, <1>12

(* Two messages one after the other are a turn. *)
LEMMA TurnAppended ==
  ASSUME NEW c \in Client, NEW t \in Seq(Message)
  PROVE  Append(Append(t, Turn(c)[1]), Turn(c)[2]) = t \o Turn(c)
<1>1. PICK a \in Message, b \in Message : a = Turn(c)[1] /\ b = Turn(c)[2]  BY Messages
<1>2. Turn(c) = << a, b >>  BY <1>1 DEF Turn
<1>3. << a, b >> \in Seq(Message) /\ Len(<< a, b >>) = 2 /\ << a, b >>[1] = a /\ << a, b >>[2] = b
  OBVIOUS
<1>4. PICK u \in Seq(Message) : u = << a, b >>  BY <1>3
<1>5. /\ t \o u \in Seq(Message) /\ Len(t \o u) = Len(t) + 2
      /\ \A i \in 1 .. Len(t) + 2 : (t \o u)[i] = IF i <= Len(t) THEN t[i] ELSE u[i - Len(t)]
  <2>1. Len(u) = 2  BY <1>3, <1>4
  <2>2. /\ t \o u \in Seq(Message) /\ Len(t \o u) = Len(t) + Len(u)
        /\ \A i \in 1 .. Len(t) + Len(u) : (t \o u)[i] = IF i <= Len(t) THEN t[i] ELSE u[i - Len(t)]
    BY ConcatProperties
  <2> QED  BY <2>1, <2>2
<1>6. PICK v \in Seq(Message) : v = Append(t, a)
  <2>1. Append(t, a) \in Seq(Message)  BY AppendProperties
  <2> QED  BY <2>1
<1>7. Len(v) = Len(t) + 1 /\ \A i \in 1 .. Len(t) : v[i] = t[i]  BY <1>6, AppendProperties
<1>8. v[Len(t) + 1] = a  BY <1>6, AppendProperties
<1>9. PICK w \in Seq(Message) : w = Append(v, b)
  <2>1. Append(v, b) \in Seq(Message)  BY AppendProperties
  <2> QED  BY <2>1
<1>10. Len(w) = Len(t) + 2 /\ (\A i \in 1 .. Len(v) : w[i] = v[i]) /\ w[Len(t) + 2] = b
  BY <1>7, <1>9, AppendProperties
<1> DEFINE x == t \o u
<1> HIDE DEF x
<1>x. \A i \in 1 .. Len(t) + 2 : x[i] = IF i <= Len(t) THEN t[i] ELSE u[i - Len(t)]
  BY <1>5 DEF x
<1>11. \A i \in 1 .. Len(t) + 2 : w[i] = x[i]
  <2> SUFFICES ASSUME NEW i \in 1 .. Len(t) + 2 PROVE w[i] = x[i]  OBVIOUS
  <2>0. Len(t) \in Nat /\ u[1] = a /\ u[2] = b  BY <1>3, <1>4
  <2>1. CASE i <= Len(t)
    <3>1. i \in 1 .. Len(t) /\ i \in 1 .. Len(v)  BY <1>7, <2>0, <2>1
    <3> QED  BY <1>x, <1>7, <1>10, <2>1, <3>1
  <2>2. CASE i = Len(t) + 1
    <3>1. i \in 1 .. Len(v) /\ i - Len(t) = 1 /\ ~(i <= Len(t))  BY <1>7, <2>0, <2>2
    <3> QED  BY <1>x, <1>8, <1>10, <2>0, <2>2, <3>1
  <2>3. CASE i = Len(t) + 2
    <3>1. i - Len(t) = 2 /\ ~(i <= Len(t))  BY <2>0, <2>3
    <3> QED  BY <1>x, <1>10, <2>0, <2>3, <3>1
  <2> QED  BY <2>0, <2>1, <2>2, <2>3
<1>12. w = t \o u  BY <1>5, <1>10, <1>11, SeqEqual DEF x
<1> QED  BY <1>1, <1>2, <1>4, <1>6, <1>9, <1>12

(* How many statements the call of c has. *)
Lines(c) == Len(Program(c, op[c]))

(* By the kind of call. *)
LEMMA Lengths ==
  ASSUME NEW c \in Client
  PROVE  /\ op[c] = "initialize" => Lines(c) = Len(List[c]) + 5
         /\ op[c] = "replace_features" => Lines(c) = Len(List[c]) + 1
         /\ op[c] = "append_transcript" => Lines(c) = 2
         /\ op[c] = "update_pass" => Lines(c) = 2
         /\ op[c] \in {"save_manifest", "append_progress", "checkpoint"} => Lines(c) = 1
<1>1. Len(Program(c, "initialize")) = Len(List[c]) + 5  BY InitializeProgram
<1>2. Len(Program(c, "replace_features")) = Len(List[c]) + 1  BY ShortProgram, ReplaceProgram
<1>3. (\A x : Len(<<x>>) = 1) /\ \A x, y : Len(<<x, y>>) = 2  OBVIOUS
<1>4. Len(Program(c, "append_transcript")) = 2 /\ Len(Program(c, "update_pass")) = 2
  BY <1>3, ShortProgram
<1>5. /\ Len(Program(c, "save_manifest")) = 1 /\ Len(Program(c, "append_progress")) = 1
      /\ Len(Program(c, "checkpoint")) = 1
  BY <1>3, ShortProgram
<1> QED  BY <1>1, <1>2, <1>4, <1>5 DEF Lines

(* A write that took effect before shows nothing more. *)
LEMMA UnseenWrite ==
  ASSUME NEW c \in Client, Apart(c), Phase[c] = "done", Phase'[c] = "done",
         answer'[c] = answer[c], View' = View, UNCHANGED <<op, calls, acked>>
  PROVE  Unseen
<1>1. /\ Phase' = [Phase EXCEPT ![c] = "done"] /\ Phase = [d \in Client |-> Phase[d]]
      /\ Answered' = [Answered EXCEPT ![c] = answer[c]] /\ Answered = [d \in Client |-> Answered[d]]
      /\ Answered[c] = answer[c]
  BY OthersWait
<1>2. Phase' = Phase /\ Answered' = Answered  BY <1>1
<1> QED  BY <1>2 DEF Unseen

(* The first statement of a call that writes is where it takes effect. *)
LEMMA WriteBegins ==
  ASSUME OneProcess, TablesInv, RunInv, NEW c \in Client, WriteRows(c), pc[c] = "called"
  PROVE  TablesInv' /\ RunInv' /\ TakingEffect(c)
<1>1. /\ TablesInv' /\ Writes(c) /\ At(c) = 0
      /\ UNCHANGED <<found, op, calls, acked>>
      /\ Apart(c)
      /\ answer'[c] = [status |-> "ok", state |-> EmptySession]
      /\ 1 = Lines(c) => pc'[c] = "done"
      /\ 1 # Lines(c) => pc'[c] = "running" /\ At(c)' = 1
  <2>1. /\ TablesInv' /\ Writes(c) /\ (pc[c] = "called" <=> At(c) = 0)
        /\ UNCHANGED <<found, op, calls, acked>>
        /\ Apart(c)
        /\ answer'[c] = IF pc[c] = "called" THEN [status |-> "ok", state |-> EmptySession]
                        ELSE answer[c]
        /\ At(c) + 1 = Len(Program(c, op[c])) => pc'[c] = "done"
        /\ At(c) + 1 # Len(Program(c, op[c])) => pc'[c] = "running" /\ At(c)' = At(c) + 1
    BY WriteTables
  <2>2. At(c) = 0 /\ At(c) + 1 = 1  BY <2>1
  <2> QED  BY <2>1, <2>2 DEF Lines
<1>2. \A d \in Client \ {c} : pc[d] # "running" /\ pc'[d] # "running"
  BY <1>1, Alone DEF WriteRows
<1>3. PICK m, f, p, k, t : /\ m = db.manifest /\ f = Lists(db.features) /\ p = db.progress
                           /\ k = db.checkpoints /\ t = db.transcript
  OBVIOUS
<1>4. View = Tables(m, f, p, k, t) /\ t \in Seq(Message)
  <2>1. View = SessionOf(db)  BY <1>2, SeenNow
  <2>2. PICK d \in DbType : d = db  BY DEF TablesInv, DataInv
  <2> QED  BY <1>3, <2>1, <2>2, DbTabled, DbParts
<1>5. PICK n \in Nat : n = Len(List[c])  BY Listed
<1>6. \/ op[c] = "replace_features" /\ Clears
      \/ op[c] = "append_transcript" /\ Says(c, 1)
      \/ op[c] = "save_manifest" /\ Saves(c)
      \/ op[c] = "append_progress" /\ Logs(c)
      \/ op[c] = "checkpoint" /\ Records(c, "Succeeded")
  BY <1>1, <1>5 DEF Writes
<1>7. Phase[c] = "called" /\ Phase'[c] = "done"
  BY <1>1, <1>6, PhasesAre, PhasesNext DEF Phases, IsRead
<1>8. answer'[c] = Answer(c, op[c], View)
  <2>1. PICK kind \in {"replace_features", "append_transcript", "save_manifest", "append_progress",
                       "checkpoint"} : kind = op[c]
    BY <1>6
  <2>2. Answer(c, kind, View) = [status |-> "ok", state |-> EmptySession]
    BY DEF Answer, Status, Loaded, Refused
  <2> QED  BY <1>1, <2>1, <2>2
<1>9. DataInv  BY DEF TablesInv
<1>10. pc'[c] = "done" =>
         View' = Tables(db'.manifest, Lists(db'.features), db'.progress, db'.checkpoints, db'.transcript)
  BY <1>1, <1>2, ViewsNext DEF Seen
<1>11. CASE op[c] = "replace_features" /\ Clears
  <2>1. /\ db'.features = << >> /\ db'.manifest = m /\ db'.progress = p
        /\ db'.checkpoints = k /\ db'.transcript = t
    BY <1>3, <1>9, <1>11, Effects
  <2>2. Apply(c, "replace_features", View) = Tables(m, List[c], p, k, t)
    BY <1>4 DEF Apply, ReplaceFeatures, Tables
  <2>3. CASE n = 0
    <3>1. pc'[c] = "done"
      <4>1. Lines(c) = n + 1  BY <1>5, <1>11, Lengths
      <4>2. Lines(c) = 1  BY <2>3, <4>1
      <4> QED  BY <1>1, <4>2
    <3>a. << >> \in Seq(RowType)  OBVIOUS
    <3>2. PICK rows \in Seq(RowType) : rows = << >>  BY <3>a
    <3>3. Listing(rows, c, Len(List[c]))  BY <1>5, <2>3, <3>2, ListingStarts
    <3>4. Lists(rows) = List[c]  BY <3>3, ListingEnds
    <3>5. View' = Tables(m, List[c], p, k, t)  BY <1>10, <2>1, <3>1, <3>2, <3>4
    <3>6. RunInv'  BY <1>2, <3>1 DEF RunInv
    <3> QED  BY <1>1, <1>7, <1>8, <1>11, <2>2, <3>5, <3>6, Effective
  <2>4. CASE n # 0
    <3>1. pc'[c] = "running" /\ At(c)' = 1 /\ op'[c] = "replace_features"
      <4>1. Lines(c) = n + 1  BY <1>5, <1>11, Lengths
      <4>2. Lines(c) # 1  BY <2>4, <4>1
      <4> QED  BY <1>1, <1>11, <4>2
    <3>2. View' = Tables(db'.manifest, List[c], db'.progress, db'.checkpoints, db'.transcript)
      BY <1>1, <3>1, ViewsNext DEF Seen
    <3>3. Under(c)'  BY <1>1, <2>1, <3>1, ListingStarts DEF Under
    <3>4. RunInv'  BY <1>2, <3>3 DEF RunInv
    <3> QED  BY <1>1, <1>7, <1>8, <1>11, <2>1, <2>2, <3>2, <3>4, Effective
  <2> QED  BY <2>3, <2>4
<1>12. CASE op[c] = "append_transcript" /\ Says(c, 1)
  <2>1. /\ db'.transcript = Append(t, Turn(c)[1]) /\ db'.manifest = m /\ db'.features = db.features
        /\ db'.progress = p /\ db'.checkpoints = k
    BY <1>3, <1>9, <1>12, Said
  <2>2. pc'[c] = "running" /\ At(c)' = 1 /\ op'[c] = "append_transcript"
    <3>1. Lines(c) = 2  BY <1>12, Lengths
    <3> QED  BY <1>1, <1>12, <3>1
  <2>3. View' = Tables(db'.manifest, Lists(db'.features), db'.progress, db'.checkpoints,
                       Append(db'.transcript, Turn(c)[2]))
    BY <1>1, <2>2, ViewsNext DEF Seen
  <2>4. View' = Tables(m, f, p, k, Append(Append(t, Turn(c)[1]), Turn(c)[2]))
    BY <1>3, <2>1, <2>3
  <2>5. Append(Append(t, Turn(c)[1]), Turn(c)[2]) = t \o Turn(c)  BY <1>4, TurnAppended
  <2>6. Apply(c, "append_transcript", View) = Tables(m, f, p, k, t \o Turn(c))
    BY <1>4 DEF Apply, AppendTranscript, Tables
  <2>7. Under(c)'  BY <1>1, <2>2 DEF Under
  <2>8. RunInv'  BY <1>2, <2>7 DEF RunInv
  <2> QED  BY <1>1, <1>7, <1>8, <1>12, <2>4, <2>5, <2>6, <2>8, Effective
<1>13. CASE op[c] \in {"save_manifest", "append_progress", "checkpoint"}
  <2>1. pc'[c] = "done"  BY <1>1, <1>13, Lengths
  <2>2. RunInv'  BY <1>2, <2>1 DEF RunInv
  <2>3. View' = Apply(c, op[c], View)
    <3>1. CASE op[c] = "save_manifest"
      <4>1. Saves(c)  BY <1>6, <3>1
      <4>2. View' = Tables(c, f, p, k, t)  BY <1>3, <1>9, <1>10, <2>1, <4>1, Effects
      <4>3. Apply(c, "save_manifest", View) = Tables(c, f, p, k, t)
        BY <1>4 DEF Apply, SaveManifest, Tables
      <4> QED  BY <3>1, <4>2, <4>3
    <3>2. CASE op[c] = "append_progress"
      <4>1. Logs(c)  BY <1>6, <3>2
      <4>2. View' = Tables(m, f, Append(p, c), k, t)  BY <1>3, <1>9, <1>10, <2>1, <4>1, Effects
      <4>3. Apply(c, "append_progress", View) = Tables(m, f, Append(p, c), k, t)
        BY <1>4 DEF Apply, AppendProgress, Tables
      <4> QED  BY <3>2, <4>2, <4>3
    <3>3. CASE op[c] = "checkpoint"
      <4>1. Records(c, "Succeeded") /\ "Succeeded" \in RunStatus  BY <1>6, <3>3 DEF RunStatus
      <4>2. View' = Tables(m, f, p, Append(k, [run |-> c, status |-> "Succeeded"]), t)
        BY <1>3, <1>9, <1>10, <2>1, <4>1, Recorded
      <4>3. Apply(c, "checkpoint", View) = Tables(m, f, p, Append(k, [run |-> c, status |-> "Succeeded"]), t)
        BY <1>4 DEF Apply, RecordCheckpoint, Tables
      <4> QED  BY <3>3, <4>2, <4>3
    <3> QED  BY <1>13, <3>1, <3>2, <3>3
  <2> QED  BY <1>1, <1>7, <1>8, <2>2, <2>3, Effective
<1> QED  BY <1>6, <1>11, <1>12, <1>13

(* The statements of a call that has taken effect show nothing more. *)
LEMMA WriteGoesOn ==
  ASSUME OneProcess, TablesInv, RunInv, NEW c \in Client, WriteRows(c), pc[c] = "running"
  PROVE  TablesInv' /\ RunInv' /\ Unseen
<1>1. /\ TablesInv' /\ Writes(c)
      /\ UNCHANGED <<found, op, calls, acked>>
      /\ Apart(c)
      /\ answer'[c] = answer[c]
      /\ At(c) + 1 = Lines(c) => pc'[c] = "done"
      /\ At(c) + 1 # Lines(c) => pc'[c] = "running" /\ At(c)' = At(c) + 1
  BY WriteTables DEF Lines
<1>2. \A d \in Client \ {c} : pc[d] # "running" /\ pc'[d] # "running"
  BY <1>1, Alone DEF WriteRows
<1>3. PICK m, f, p, k, t : /\ m = db.manifest /\ f = Lists(db.features) /\ p = db.progress
                           /\ k = db.checkpoints /\ t = db.transcript
  OBVIOUS
<1>4. ProgramInv /\ DataInv  BY DEF TablesInv
<1>5. PICK rows \in Seq(RowType) : rows = db.features /\ Numbered(rows, nextRow)
  BY <1>4, DbParts DEF DataInv
<1>6. Under(c)  BY DEF RunInv
<1>7. PICK l \in Nat : l = Len(List[c])  BY Listed
<1>8. /\ op[c] \in {"initialize", "replace_features", "append_transcript", "update_pass"}
      /\ op[c] = "initialize" => At(c) \in 1 .. l + 4
      /\ op[c] = "replace_features" => At(c) \in 1 .. l
      /\ op[c] \in {"append_transcript", "update_pass"} => At(c) = 1
  <2>1. op[c] # "load"  BY <1>1 DEF Writes
  <2> QED  BY <1>4, <1>7, <2>1, LongCalls
<1>9. Phase[c] = "done" /\ Phase'[c] = "done"
  BY <1>1, <1>8, PhasesAre, PhasesNext DEF Phases, IsRead
<1>10. pc'[c] = "done" =>
         View' = Tables(db'.manifest, Lists(db'.features), db'.progress, db'.checkpoints, db'.transcript)
  BY <1>1, <1>2, ViewsNext DEF Seen
<1> SUFFICES View' = View /\ RunInv'
  BY <1>1, <1>9, UnseenWrite
<1>11. pc'[c] = "done" => RunInv'  BY <1>2 DEF RunInv
<1>12. Under(c)' => RunInv'  BY <1>2 DEF RunInv
<1>13. CASE op[c] = "initialize"
  <2>1. View = Tables(m, List[c], Entries(c), Append(k, [run |-> c, status |-> "InProgress"]), t)
    BY <1>3, <1>13, Views DEF Seen
  <2>2. PICK n \in 1 .. l + 4 : n = At(c)  BY <1>8, <1>13
  <2>3. Entries(c) = IF n <= l + 3 THEN Append(p, c) ELSE p  BY <1>3, <1>7, <2>2 DEF Entries
  <2>4. /\ answer[c] = [status |-> "created", state |-> EmptySession] /\ m = c
        /\ n \in 3 .. l + 3 => Listing(rows, c, n - 3)
        /\ n = l + 4 => Listing(rows, c, l)
    BY <1>3, <1>5, <1>6, <1>7, <1>13, <2>2 DEF Under
  <2>5. \/ n = 1 /\ Saves(c)
        \/ n = 2 /\ Clears
        \/ n \in 3 .. l + 2 /\ Inserts(c, n - 2)
        \/ n = l + 3 /\ Logs(c)
        \/ n = l + 4 /\ Records(c, "InProgress")
    BY <1>1, <1>7, <1>13, <2>2 DEF Writes
  <2>6. Lines(c) = l + 5  BY <1>7, <1>13, Lengths
  <2>7. /\ n = l + 4 => pc'[c] = "done"
        /\ n # l + 4 => pc'[c] = "running" /\ At(c)' = n + 1
    BY <1>1, <2>2, <2>6
  <2>8. n # l + 4 =>
          /\ View' = Tables(db'.manifest, List[c], Entries(c)',
                            Append(db'.checkpoints, [run |-> c, status |-> "InProgress"]), db'.transcript)
          /\ Entries(c)' = IF n + 1 <= l + 3 THEN Append(db'.progress, c) ELSE db'.progress
    <3>1. n # l + 4 => pc'[c] = "running" /\ op'[c] = "initialize"  BY <1>1, <1>13, <2>7
    <3> QED  BY <1>1, <1>7, <2>7, <3>1, ViewsNext DEF Seen, Entries
  <2>9. CASE n = 1 /\ Saves(c)
    <3>1. /\ db'.manifest = c /\ db'.features = db.features /\ db'.progress = p
          /\ db'.checkpoints = k /\ db'.transcript = t
      BY <1>3, <1>4, <2>9, Effects
    <3>2. View' = View
      <4>1. n # l + 4 /\ n <= l + 3 /\ n + 1 <= l + 3  BY <2>9
      <4> QED  BY <2>1, <2>3, <2>4, <2>8, <3>1, <4>1
    <3>3. Under(c)'
      <4>1. ~(2 \in 3 .. l + 3) /\ 2 # l + 4 /\ At(c)' = 2  BY <2>7, <2>9
      <4> QED  BY <1>1, <1>7, <1>13, <2>4, <3>1, <4>1 DEF Under
    <3> QED  BY <1>12, <3>2, <3>3
  <2>10. CASE n = 2 /\ Clears
    <3>1. /\ db'.manifest = m /\ db'.features = << >> /\ db'.progress = p
          /\ db'.checkpoints = k /\ db'.transcript = t
      BY <1>3, <1>4, <2>10, Effects
    <3>2. View' = View
      <4>1. n # l + 4 /\ n <= l + 3 /\ n + 1 <= l + 3  BY <2>10
      <4> QED  BY <2>1, <2>3, <2>8, <3>1, <4>1
    <3>3. Under(c)'
      <4>1. 3 # l + 4 /\ At(c)' = 3 /\ 3 - 3 = 0  BY <2>7, <2>10
      <4>2. Listing(db'.features, c, 0)  BY <3>1, ListingStarts
      <4> QED  BY <1>1, <1>7, <1>13, <2>4, <3>1, <4>1, <4>2 DEF Under
    <3> QED  BY <1>12, <3>2, <3>3
  <2>11. CASE n \in 3 .. l + 2 /\ Inserts(c, n - 2)
    <3>1. PICK i \in 1 .. l : i = n - 2  BY <2>11
    <3>2. i \in 1 .. Len(List[c]) /\ Inserts(c, i)  BY <1>7, <2>11, <3>1
    <3>3. /\ db'.features = Append(rows, Row(nextRow, List[c][i])) /\ db'.manifest = m
          /\ db'.progress = p /\ db'.checkpoints = k /\ db'.transcript = t
      BY <1>3, <1>4, <1>5, <3>2, Inserted
    <3>4. View' = View
      <4>1. n # l + 4 /\ n <= l + 3 /\ n + 1 <= l + 3  BY <2>11
      <4> QED  BY <2>1, <2>3, <2>8, <3>3, <4>1
    <3>5. Under(c)'
      <4>1. n + 1 # l + 4 /\ At(c)' = n + 1 /\ (n + 1) - 3 = i /\ n - 3 = i - 1 /\ n \in 3 .. l + 3
        BY <2>7, <2>11, <3>1
      <4>2. Listing(rows, c, i - 1)  BY <2>4, <4>1
      <4>3. Listing(db'.features, c, i)  BY <1>5, <3>2, <3>3, <4>2, ListingGrows
      <4> QED  BY <1>1, <1>7, <1>13, <2>4, <3>3, <4>1, <4>3 DEF Under
    <3> QED  BY <1>12, <3>4, <3>5
  <2>12. CASE n = l + 3 /\ Logs(c)
    <3>1. /\ db'.progress = Append(p, c) /\ db'.features = rows /\ db'.manifest = m
          /\ db'.checkpoints = k /\ db'.transcript = t
      BY <1>3, <1>4, <1>5, <2>12, Effects
    <3>2. View' = View
      <4>1. n # l + 4 /\ n <= l + 3 /\ ~(n + 1 <= l + 3)  BY <2>12
      <4> QED  BY <2>1, <2>3, <2>8, <3>1, <4>1
    <3>3. Under(c)'
      <4>1. At(c)' = l + 4 /\ ~(l + 4 \in 3 .. l + 3) /\ n - 3 = l /\ n \in 3 .. l + 3  BY <2>7, <2>12
      <4>2. Listing(db'.features, c, l)  BY <2>4, <3>1, <4>1
      <4> QED  BY <1>1, <1>7, <1>13, <2>4, <3>1, <4>1, <4>2 DEF Under
    <3> QED  BY <1>12, <3>2, <3>3
  <2>13. CASE n = l + 4 /\ Records(c, "InProgress")
    <3>1. /\ db'.checkpoints = Append(k, [run |-> c, status |-> "InProgress"]) /\ db'.manifest = m
          /\ db'.features = rows /\ db'.progress = p /\ db'.transcript = t
      BY <1>3, <1>4, <1>5, <2>13, Recorded DEF RunStatus
    <3>2. Lists(rows) = List[c]  BY <1>7, <2>4, <2>13, ListingEnds
    <3>3. View' = View
      <4>1. ~(n <= l + 3)  BY <2>13
      <4> QED  BY <1>10, <2>1, <2>3, <2>7, <2>13, <3>1, <3>2, <4>1
    <3> QED  BY <1>11, <2>7, <2>13, <3>3
  <2> QED  BY <2>5, <2>9, <2>10, <2>11, <2>12, <2>13
<1>14. CASE op[c] = "replace_features"
  <2>1. View = Tables(m, List[c], p, k, t)  BY <1>3, <1>14, Views DEF Seen
  <2>2. PICK n \in 1 .. l : n = At(c)  BY <1>8, <1>14
  <2>3. answer[c] = [status |-> "ok", state |-> EmptySession] /\ Listing(rows, c, n - 1)
    BY <1>5, <1>6, <1>14, <2>2 DEF Under
  <2>4. n \in 1 .. Len(List[c]) /\ Inserts(c, n)
    BY <1>1, <1>7, <1>14, <2>2 DEF Writes
  <2>5. Lines(c) = l + 1  BY <1>7, <1>14, Lengths
  <2>6. /\ n = l => pc'[c] = "done"
        /\ n # l => pc'[c] = "running" /\ At(c)' = n + 1
    BY <1>1, <2>2, <2>5
  <2>7. /\ db'.features = Append(rows, Row(nextRow, List[c][n])) /\ db'.manifest = m
        /\ db'.progress = p /\ db'.checkpoints = k /\ db'.transcript = t
    BY <1>3, <1>4, <1>5, <2>4, Inserted
  <2>8. Listing(db'.features, c, n)  BY <1>5, <2>3, <2>4, <2>7, ListingGrows
  <2>9. CASE n = l
    <3>1. PICK new \in Seq(RowType) : new = db'.features  BY <1>1, DbParts DEF TablesInv, DataInv
    <3>2. Lists(new) = List[c]  BY <1>7, <2>8, <2>9, <3>1, ListingEnds
    <3> QED  BY <1>10, <1>11, <2>1, <2>6, <2>7, <2>9, <3>1, <3>2
  <2>10. CASE n # l
    <3>1. pc'[c] = "running" /\ At(c)' = n + 1 /\ op'[c] = "replace_features" /\ (n + 1) - 1 = n
      BY <1>1, <1>14, <2>6, <2>10
    <3>2. View' = Tables(db'.manifest, List[c], db'.progress, db'.checkpoints, db'.transcript)
      BY <1>1, <3>1, ViewsNext DEF Seen
    <3>3. Under(c)'  BY <1>1, <2>3, <2>8, <3>1 DEF Under
    <3> QED  BY <1>12, <2>1, <2>7, <3>2, <3>3
  <2> QED  BY <2>9, <2>10
<1>15. CASE op[c] = "append_transcript"
  <2>1. View = Tables(m, f, p, k, Append(t, Turn(c)[2]))  BY <1>3, <1>15, Views DEF Seen
  <2>2. Says(c, 2)
    <3>1. At(c) = 1 /\ At(c) + 1 = 2  BY <1>8, <1>15
    <3>2. Says(c, At(c) + 1)  BY <1>1, <1>15 DEF Writes
    <3> QED  BY <3>1, <3>2
  <2>3. /\ db'.transcript = Append(t, Turn(c)[2]) /\ db'.manifest = m /\ Lists(db'.features) = f
        /\ db'.progress = p /\ db'.checkpoints = k
    BY <1>3, <1>4, <2>2, Said
  <2>4. pc'[c] = "done"
    <3>1. Lines(c) = 2  BY <1>15, Lengths
    <3> QED  BY <1>1, <1>8, <1>15, <3>1
  <2> QED  BY <1>10, <1>11, <2>1, <2>3, <2>4
<1>16. CASE op[c] = "update_pass"
  <2>1. View = Apply(c, "update_pass", Tables(m, f, p, k, t))
    <3>1. View = Apply(c, "update_pass", SessionOf(db))  BY <1>16, Views DEF Seen
    <3>2. PICK d \in DbType : d = db  BY <1>4 DEF DataInv
    <3>3. SessionOf(db) = Tables(m, f, p, k, t)  BY <1>3, <3>2, DbTabled
    <3> QED  BY <3>1, <3>3
  <2>2. PICK i \in DOMAIN rows :
          /\ rows[i].id = Target[c]
          /\ \A j \in 1 .. (i - 1) : rows[j].id # Target[c]
          /\ found[c] = rows[i].row
    BY <1>5, <1>6, <1>16 DEF Under
  <2>3. Marks(c)  BY <1>1, <1>16 DEF Writes
  <2>4. /\ db'.features = Marked(rows, rows[i].row) /\ db'.manifest = m
        /\ db'.progress = p /\ db'.checkpoints = k /\ db'.transcript = t
    BY <1>3, <1>4, <1>5, <2>2, <2>3, Effects
  <2>5. PICK next : next = nextRow  OBVIOUS
  <2>6. Apply(c, "update_pass", Tables(m, Lists(rows), p, k, t)) =
          Tables(m, Lists(Marked(rows, rows[i].row)), p, k, t)
    BY <1>5, <2>2, <2>5, MarkIs
  <2>7. pc'[c] = "done"
    <3>1. Lines(c) = 2  BY <1>16, Lengths
    <3> QED  BY <1>1, <1>8, <1>16, <3>1
  <2> QED  BY <1>3, <1>5, <1>10, <1>11, <2>1, <2>4, <2>6, <2>7
<1> QED  BY <1>8, <1>13, <1>14, <1>15, <1>16

(* In one process whose calls are not interrupted, a step is one that the      *)
(* contract allows, or one that clients do not see.                            *)
LEMMA SeenStep ==
  ASSUME OneProcess, ~Interrupted, TablesInv, RunInv, [Next]_vars
  PROVE  /\ TablesInv' /\ RunInv'
         /\ \/ Unseen
            \/ \E c \in Client : Calling(c) \/ TakingEffect(c) \/ Responding(c) \/ Failing(c)
<1>1. CASE Next
  <2>1. PICK c \in Client :
          \/ Call(c) \/ ClaimSession(c) \/ FindFeature(c) \/ WriteRows(c) \/ ReadRows(c)
          \/ Respond(c) \/ Fail(c)
    BY <1>1 DEF Next
  <2>2. CASE Call(c)  BY <2>2, CallSeen
  <2>3. CASE ClaimSession(c)  BY <2>3, ClaimSeen
  <2>4. CASE FindFeature(c)  BY <2>4, FindSeen
  <2>5. CASE WriteRows(c)
    <3>1. pc[c] \in {"called", "running"}  BY <2>5 DEF WriteRows, Scheduled
    <3> QED  BY <2>5, <3>1, WriteBegins, WriteGoesOn
  <2>6. CASE ReadRows(c)  BY <2>6, ReadSeen
  <2>7. CASE Respond(c)  BY <2>7, RespondSeen
  <2>8. CASE Fail(c)  BY <2>8, FailSeen
  <2> QED  BY <2>1, <2>2, <2>3, <2>4, <2>5, <2>6, <2>7, <2>8
<1>2. CASE UNCHANGED vars
  <2>1. TablesInv' /\ RunInv'
    <3>1. \A c \in Client : At(c)' = At(c)  BY <1>2 DEF At, vars
    <3>2. TablesInv'  BY TablesStep, <1>2
    <3>3. RunInv'
      <4> SUFFICES ASSUME NEW c \in Client, pc[c] = "running" PROVE Under(c)'
        BY <1>2 DEF RunInv, vars
      <4>1. Under(c)  BY DEF RunInv
      <4>2. Part(At(c))' = Part(At(c))  BY <1>2, <3>1 DEF Part, vars
      <4> QED  BY <1>2, <3>1, <4>1, <4>2 DEF Under, vars
    <3> QED  BY <3>2, <3>3
  <2>2. View' = View /\ Phase' = Phase /\ Answered' = Answered
    <3>1. View' = View  BY <1>2, StillSeen DEF vars, WritingNow
    <3>2. Phase' = Phase  BY <1>2 DEF vars, Phase, WritingNow
    <3> QED  BY <1>2, <3>1, <3>2 DEF Answered, vars
  <2> QED  BY <1>2, <2>1, <2>2 DEF Unseen, vars
<1> QED  BY <1>1, <1>2

(* At first nobody has called, and clients see the session there is. *)
LEMMA SeenFirst ==
  ASSUME Init
  PROVE  /\ TablesInv /\ RunInv
         /\ View = InitialSession
         /\ Phase = [c \in Client |-> "idle"] /\ Answered = [c \in Client |-> NoAnswer]
<1>1. \A c \in Client : pc[c] = "idle" /\ answer[c] = NoAnswer  BY DEF Init
<1>2. WritingNow = {}  BY <1>1 DEF WritingNow
<1>3. View = InitialSession  BY <1>2, FirstTables DEF View
<1>4. Phase = [c \in Client |-> "idle"]  BY <1>1, PhasesAre DEF Phases
<1>5. Answered = [c \in Client |-> NoAnswer]  BY <1>1, <1>4 DEF Answered
<1>6. RunInv  BY <1>1 DEF RunInv
<1> QED  BY <1>3, <1>4, <1>5, <1>6, FirstTables

-----------------------------------------------------------------------------
(* Several processes, interrupted anywhere: one creator, and what they are   *)
(* told is stored.                                                           *)

(* Client c is told that a call of this kind succeeded, or is about to be. *)
Told(c, kind) ==
  \/ <<c, kind>> \in acked
  \/ pc[c] = "done" /\ op[c] = kind /\ answer[c].status \in {"ok", "created"}

Creating(c) == op[c] = "initialize" /\ pc[c] = "running"
Creator(c)  == Creating(c) \/ Told(c, "initialize")

(* The rows have the ids of the first n features of c's list. *)
Names(rows, c, n) == Len(rows) = n /\ \A i \in 1 .. n : rows[i].id = List[c][i].id

(* How many features the creator c has inserted. *)
Copied(c) ==
  IF Creating(c) /\ At(c) <= Len(List[c]) + 3 THEN At(c) - 3 ELSE Len(List[c])

Saved == \E c \in Client : \E k \in DOMAIN calls[c] : calls[c][k] = "save_manifest"

(* A call under way is one its client may make, and made. *)
ClientsInv ==
  /\ calls \in [Client -> Seq(Kind)]
  /\ \A c \in Client : pc[c] # "idle" =>
       op[c] \in Ops[c] /\ \E k \in DOMAIN calls[c] : calls[c][k] = op[c]

(* There is one creator, whose claim stays, and whose list is in the table as *)
(* far as it was inserted.                                                    *)
CreatorInv ==
  \A c \in Client : Creator(c) =>
    /\ IsInitialized(db)
    /\ \A d \in Client : Creator(d) => d = c
    /\ ~Saved => db.manifest = c
    /\ Creating(c) => ~Told(c, "initialize")
    /\ (Creating(c) /\ At(c) <= 2) \/ Names(db.features, c, Copied(c))

(* The features are never cleared when there are any. *)
Whole == IsInitialized(InitialSession) \/ InitialSession.features = << >>

EmptyInv ==
  /\ IsInitialized(InitialSession) => IsInitialized(db)
  /\ Whole /\ (~IsInitialized(db) \/ \E c \in Client : Creating(c) /\ At(c) <= 2) =>
       db.features = << >>

(* What was told is in the tables, and what was done for a call under way. *)
TurnAt(t, c, k) == k + 1 \in DOMAIN t /\ t[k] = Turn(c)[1] /\ t[k + 1] = Turn(c)[2]

KeptInv ==
  \A c \in Client :
    /\ Told(c, "save_manifest") => IsInitialized(db)
    /\ Told(c, "append_progress") => \E k \in DOMAIN db.progress : db.progress[k] = c
    /\ Told(c, "checkpoint") =>
         \E k \in DOMAIN db.checkpoints :
           db.checkpoints[k] = [run |-> c, status |-> "Succeeded"]
    /\ Told(c, "append_transcript") => \E k \in DOMAIN db.transcript : TurnAt(db.transcript, c, k)
    /\ op[c] = "append_transcript" /\ pc[c] = "running" =>
         Len(db.transcript) > 0 /\ db.transcript[Len(db.transcript)] = Turn(c)[1]
    /\ Whole /\ Told(c, "update_pass") =>
         \E i \in DOMAIN db.features : db.features[i].id = Target[c] /\ db.features[i].passes
    /\ Whole /\ op[c] = "update_pass" /\ pc[c] = "running" =>
         \E i \in DOMAIN db.features :
           db.features[i].id = Target[c] /\ db.features[i].row = found[c]

ProcessInv == TablesInv /\ ClientsInv /\ CreatorInv /\ EmptyInv /\ KeptInv

-----------------------------------------------------------------------------
(* A step of client c, as far as the tables and what clients are told go. *)

Step(c) ==
  \/ Call(c) \/ ClaimSession(c) \/ FindFeature(c) \/ WriteRows(c) \/ ReadRows(c)
  \/ Respond(c) \/ Fail(c)

Claims(c) ==
  /\ op[c] = "initialize" /\ At(c) = 0 /\ ~IsInitialized(db) /\ Saves(c)
  /\ op' = op /\ pc'[c] = "running" /\ At(c)' = 1

Executes(c) ==
  /\ Writes(c) /\ UNCHANGED <<op, found>>
  /\ pc[c] \in {"called", "running"} /\ (pc[c] = "called" <=> At(c) = 0)
  /\ At(c) + 1 = Lines(c) => pc'[c] = "done"
  /\ At(c) + 1 # Lines(c) => pc'[c] = "running" /\ At(c)' = At(c) + 1

(* Only a claim and the statements that write change the tables. *)
LEMMA StepTables ==
  ASSUME TablesInv, NEW c \in Client, Step(c)
  PROVE  /\ TablesInv' /\ Apart(c)
         /\ db' = db \/ Claims(c) \/ Executes(c)
<1>1. CASE Call(c)  BY <1>1, CallTables
<1>2. CASE ClaimSession(c)  BY <1>2, ClaimTables DEF Claims
<1>3. CASE FindFeature(c)  BY <1>3, FindTables
<1>4. CASE WriteRows(c)  BY <1>4, WriteTables DEF Executes, Lines
<1>5. CASE ReadRows(c)  BY <1>5, ReadTables
<1>6. CASE Respond(c)  BY <1>6, RespondTables
<1>7. CASE Fail(c)  BY <1>7, FailTables
<1> QED  BY <1>1, <1>2, <1>3, <1>4, <1>5, <1>6, <1>7 DEF Step

(* A call is told to have succeeded with its last statement. *)
LEMMA Telling ==
  ASSUME TablesInv, NEW c \in Client, Step(c), NEW d \in Client, NEW kind, Told(d, kind)'
  PROVE  \/ Told(d, kind)
         \/ /\ d = c /\ kind = op[c] /\ At(c) + 1 = Lines(c)
            /\ IsRead(op[c]) \/ Executes(c)
<1>0. TablesInv'  BY StepTables
<1>1. CASE Call(c)
  <2>1. acked' = acked  BY <1>1 DEF Call
  <2>2. pc'[c] = "called" /\ Apart(c)  BY <1>1, CallTables
  <2> QED  BY <2>1, <2>2 DEF Told, Apart
<1>2. CASE ClaimSession(c)
  <2>1. /\ Apart(c) /\ acked' = acked
        /\ pc'[c] = "done" => answer'[c].status = "exists"
    BY <1>2, ClaimTables
  <2> QED  BY <2>1 DEF Told, Apart
<1>3. CASE FindFeature(c)
  <2>1. /\ Apart(c) /\ acked' = acked
        /\ pc'[c] = "done" => answer'[c].status = "not_found"
    BY <1>3, FindTables
  <2> QED  BY <2>1 DEF Told, Apart
<1>4. CASE WriteRows(c)
  <2>1. Apart(c) /\ acked' = acked /\ Executes(c)  BY <1>4, WriteTables DEF Executes, Lines
  <2>2. pc'[c] = "done" => At(c) + 1 = Lines(c)  BY <2>1 DEF Executes
  <2> QED  BY <2>1, <2>2 DEF Told, Apart, Executes
<1>5. CASE ReadRows(c)
  <2>1. /\ Apart(c) /\ acked' = acked /\ op' = op /\ IsRead(op[c])
        /\ pc'[c] = "done" => At(c) + 1 = Lines(c)
    BY <1>5, ReadTables DEF Lines
  <2> QED  BY <2>1 DEF Told, Apart
<1>6. CASE Respond(c)
  <2>1. Apart(c) /\ pc[c] = "done" /\ pc'[c] = "idle"  BY <1>6, RespondTables
  <2>2. /\ acked' = IF answer[c].status \in {"ok", "created"}
                    THEN acked \cup {<<c, op[c]>>} ELSE acked
    BY <1>6 DEF Respond
  <2> QED  BY <2>1, <2>2 DEF Told, Apart
<1>7. CASE Fail(c)
  <2>1. Apart(c) /\ pc'[c] = "idle"  BY <1>7, FailTables
  <2>2. acked' = acked  BY <1>7 DEF Fail
  <2> QED  BY <2>1, <2>2 DEF Told, Apart
<1> QED  BY <1>1, <1>2, <1>3, <1>4, <1>5, <1>6, <1>7 DEF Step

(* A call goes on by a claim, a search, a write or a read. *)
LEMMA GoesOn ==
  ASSUME TablesInv, NEW c \in Client, Step(c), pc'[c] = "running"
  PROVE  /\ op' = op
         /\ \/ Claims(c)
            \/ /\ op[c] = "update_pass" /\ db' = db
               /\ \E i \in DOMAIN db.features :
                    db.features[i].id = Target[c] /\ db.features[i].row = found'[c]
            \/ Executes(c) /\ At(c) + 1 # Lines(c)
            \/ IsRead(op[c])
<1>1. ~Call(c)  BY CallTables
<1>2. ASSUME ClaimSession(c) PROVE op' = op /\ Claims(c)  BY <1>2, ClaimTables DEF Claims
<1>3. ASSUME FindFeature(c)
      PROVE  /\ op' = op /\ op[c] = "update_pass" /\ db' = db
             /\ \E i \in DOMAIN db.features :
                  db.features[i].id = Target[c] /\ db.features[i].row = found'[c]
  BY <1>3, FindTables
<1>4. ASSUME WriteRows(c) PROVE op' = op /\ Executes(c) /\ At(c) + 1 # Lines(c)
  BY <1>4, WriteTables DEF Executes, Lines
<1>5. ASSUME ReadRows(c) PROVE op' = op /\ IsRead(op[c])  BY <1>5, ReadTables
<1>6. ~Respond(c)  BY RespondTables
<1>7. ~Fail(c)  BY FailTables
<1> QED  BY <1>1, <1>2, <1>3, <1>4, <1>5, <1>6, <1>7 DEF Step

-----------------------------------------------------------------------------
(* What such a step leaves of the tables. *)

Cleared(c) == Creating(c) /\ At(c) = 2 /\ db'.features = << >>
Copies(c) ==
  /\ Creating(c) /\ At(c) \in 3 .. Len(List[c]) + 2
  /\ db'.features = Append(db.features, Row(nextRow, List[c][At(c) - 2]))
Flagged(c) == op[c] = "update_pass" /\ db'.features = Marked(db.features, found[c])

Checked(c, status) ==
  db'.checkpoints = Append(db.checkpoints, [run |-> c, status |-> status])

(* The tables grow, but for the rows that a creator clears. *)
LEMMA Grows ==
  ASSUME TablesInv, NEW c \in Client, Step(c), pc[c] # "idle" => op[c] # "replace_features"
  PROVE  /\ IsInitialized(db) => IsInitialized(db')
         /\ \/ db'.manifest = db.manifest
            \/ /\ db'.manifest = c
               /\ Claims(c) \/ Creating(c) \/ (op[c] = "save_manifest" /\ pc[c] # "idle")
         /\ db'.progress = db.progress \/ db'.progress = Append(db.progress, c)
         /\ db'.checkpoints = db.checkpoints \/ \E status \in RunStatus : Checked(c, status)
         /\ \/ db'.transcript = db.transcript
            \/ /\ op[c] = "append_transcript" /\ pc[c] # "idle" /\ At(c) \in {0, 1}
               /\ db'.transcript = Append(db.transcript, Turn(c)[At(c) + 1])
         /\ db'.features = db.features \/ Cleared(c) \/ Copies(c) \/ Flagged(c)
<1> DEFINE OK ==
         /\ IsInitialized(db) => IsInitialized(db')
         /\ \/ db'.manifest = db.manifest
            \/ /\ db'.manifest = c
               /\ Claims(c) \/ Creating(c) \/ (op[c] = "save_manifest" /\ pc[c] # "idle")
         /\ db'.progress = db.progress \/ db'.progress = Append(db.progress, c)
         /\ db'.checkpoints = db.checkpoints \/ \E status \in RunStatus : Checked(c, status)
         /\ \/ db'.transcript = db.transcript
            \/ /\ op[c] = "append_transcript" /\ pc[c] # "idle" /\ At(c) \in {0, 1}
               /\ db'.transcript = Append(db.transcript, Turn(c)[At(c) + 1])
         /\ db'.features = db.features \/ Cleared(c) \/ Copies(c) \/ Flagged(c)
<1>1. DataInv  BY DEF TablesInv
<1>2. c # NoManifest  BY ClientAssumption
<1>3. CASE db' = db  BY <1>3 DEF OK
<1>4. CASE Claims(c)
  <2>1. Saves(c)  BY <1>4 DEF Claims
  <2>2. /\ db'.manifest = c /\ db'.features = db.features /\ db'.progress = db.progress
        /\ db'.checkpoints = db.checkpoints /\ db'.transcript = db.transcript
    BY <1>1, <2>1, Effects
  <2>3. IsInitialized(db')  BY <1>2, <2>2 DEF IsInitialized
  <2> QED  BY <1>4, <2>2, <2>3 DEF OK
<1>5. CASE Executes(c)
  <2>1. Writes(c) /\ pc[c] \in {"called", "running"} /\ (pc[c] = "called" <=> At(c) = 0)
    BY <1>5 DEF Executes
  <2>2. pc[c] # "idle"  BY <2>1
  <2>3. ASSUME op[c] = "initialize", At(c) # 0 PROVE Creating(c)  BY <2>1, <2>3 DEF Creating
  <2>4. ASSUME Saves(c), Creating(c) \/ op[c] = "save_manifest" PROVE OK
    BY <1>1, <1>2, <2>2, <2>4, Effects DEF OK, IsInitialized
  <2>5. ASSUME Clears, Creating(c), At(c) = 2 PROVE OK
    BY <1>1, <2>5, Effects DEF OK, IsInitialized, Cleared
  <2>6. ASSUME Creating(c), At(c) \in 3 .. Len(List[c]) + 2, Inserts(c, At(c) - 2) PROVE OK
    <3>1. PICK i \in 1 .. Len(List[c]) : i = At(c) - 2
      <4>1. Len(List[c]) \in Nat  BY Listed
      <4> QED  BY <2>6, <4>1
    <3>2. Inserts(c, i)  BY <2>6, <3>1
    <3>3. /\ db'.features = Append(db.features, Row(nextRow, List[c][i]))
          /\ db'.manifest = db.manifest /\ db'.progress = db.progress
          /\ db'.checkpoints = db.checkpoints /\ db'.transcript = db.transcript
      BY <1>1, <3>2, Inserted
    <3>4. Copies(c)  BY <2>6, <3>1, <3>3 DEF Copies
    <3> QED  BY <3>3, <3>4 DEF OK, IsInitialized
  <2>7. ASSUME Logs(c) PROVE OK
    BY <1>1, <2>7, Effects DEF OK, IsInitialized
  <2>8. ASSUME NEW status \in RunStatus, Records(c, status) PROVE OK
    <3>1. /\ Checked(c, status)
          /\ db'.manifest = db.manifest /\ db'.features = db.features
          /\ db'.progress = db.progress /\ db'.transcript = db.transcript
      BY <1>1, <2>8, Recorded DEF Checked
    <3> QED  BY <3>1 DEF OK, IsInitialized
  <2>9. ASSUME op[c] = "append_transcript", At(c) \in {0, 1}, Says(c, At(c) + 1) PROVE OK
    <3>1. PICK i \in {1, 2} : i = At(c) + 1  BY <2>9
    <3>2. Says(c, i)  BY <2>9, <3>1
    <3>3. /\ db'.transcript = Append(db.transcript, Turn(c)[i])
          /\ db'.manifest = db.manifest /\ db'.features = db.features
          /\ db'.progress = db.progress /\ db'.checkpoints = db.checkpoints
      BY <1>1, <3>2, Said
    <3> QED  BY <2>2, <2>9, <3>1, <3>3 DEF OK, IsInitialized
  <2>10. ASSUME op[c] = "update_pass", Marks(c) PROVE OK
    BY <1>1, <2>10, Effects DEF OK, IsInitialized, Flagged
  <2>11. "InProgress" \in RunStatus /\ "Succeeded" \in RunStatus  BY DEF RunStatus
  <2>12. ASSUME op[c] = "initialize" PROVE OK
    <3>1. \/ At(c) = 1 /\ Saves(c)
          \/ At(c) = 2 /\ Clears
          \/ At(c) \in 3 .. Len(List[c]) + 2 /\ Inserts(c, At(c) - 2)
          \/ Logs(c)
          \/ Records(c, "InProgress")
      BY <2>1, <2>12 DEF Writes
    <3>2. At(c) \in 3 .. Len(List[c]) + 2 => At(c) # 0  OBVIOUS
    <3> QED  BY <2>3, <2>4, <2>5, <2>6, <2>7, <2>8, <2>11, <2>12, <3>1, <3>2
  <2>13. ASSUME op[c] # "initialize" PROVE OK
    <3>1. \/ op[c] = "append_transcript" /\ At(c) \in {0, 1} /\ Says(c, At(c) + 1)
          \/ op[c] = "update_pass" /\ Marks(c)
          \/ op[c] = "save_manifest" /\ Saves(c)
          \/ Logs(c)
          \/ Records(c, "Succeeded")
      BY <2>1, <2>2, <2>13 DEF Writes
    <3> QED  BY <2>4, <2>7, <2>8, <2>9, <2>10, <2>11, <3>1
  <2> QED  BY <2>12, <2>13
<1> QED  BY <1>3, <1>4, <1>5, StepTables

(* Rows that are not cleared keep their ids, and features that pass do. *)
LEMMA RowsStay ==
  ASSUME TablesInv, NEW c \in Client,
         db'.features = db.features \/ Copies(c) \/ Flagged(c),
         NEW i \in DOMAIN db.features
  PROVE  /\ i \in DOMAIN db'.features
         /\ db'.features[i].row = db.features[i].row /\ db'.features[i].id = db.features[i].id
         /\ db.features[i].passes => db'.features[i].passes
<1>1. PICK rows \in Seq(RowType) : rows = db.features  BY DbParts DEF TablesInv, DataInv
<1>2. CASE Copies(c)
  <2>1. PICK n \in Nat : n = nextRow /\ Numbered(rows, n)
    BY <1>1 DEF TablesInv, DataInv, Numbered
  <2>2. PICK f \in FeatureRecord(Feature) : f = List[c][At(c) - 2]
    <3>1. Len(List[c]) \in Nat /\ \A j \in 1 .. Len(List[c]) : List[c][j] \in FeatureRecord(Feature)
      BY Listed
    <3>2. PICK k \in 3 .. Len(List[c]) + 2 : k = At(c)  BY <1>2 DEF Copies
    <3>3. k - 2 \in 1 .. Len(List[c])  BY <3>1
    <3> QED  BY <3>1, <3>2, <3>3
  <2>3. PICK new : new = Append(rows, Row(n, f))  OBVIOUS
  <2>4. new \in Seq(RowType) /\ Len(new) = Len(rows) + 1 /\ \A j \in DOMAIN rows : new[j] = rows[j]
    BY <2>1, <2>3, RowAppended
  <2>5. db'.features = new  BY <1>1, <1>2, <2>1, <2>2, <2>3 DEF Copies
  <2>6. i \in 1 .. Len(rows) /\ Len(rows) \in Nat  BY <1>1
  <2>7. i \in DOMAIN new  BY <2>4, <2>6
  <2> QED  BY <1>1, <2>4, <2>5, <2>7
<1>3. CASE Flagged(c)
  <2>1. PICK r : r = found[c]  OBVIOUS
  <2>2. db'.features = Marked(rows, r)  BY <1>1, <1>3, <2>1 DEF Flagged
  <2>3. /\ DOMAIN Marked(rows, r) = DOMAIN rows
        /\ Marked(rows, r)[i].row = rows[i].row /\ Marked(rows, r)[i].id = rows[i].id
        /\ Marked(rows, r)[i].passes = (rows[i].passes \/ rows[i].row = r)
    BY <1>1, RowMarked
  <2> QED  BY <1>1, <2>2, <2>3
<1> QED  BY <1>2, <1>3

(* And their names. *)
LEMMA NamesStay ==
  ASSUME TablesInv, NEW c \in Client, db'.features = db.features \/ Flagged(c),
         NEW d \in Client, NEW n, Names(db.features, d, n)
  PROVE  Names(db'.features, d, n)
<1>1. PICK rows \in Seq(RowType) : rows = db.features  BY DbParts DEF TablesInv, DataInv
<1>2. Len(rows) = n /\ DOMAIN rows = 1 .. n  BY <1>1 DEF Names
<1>3. CASE db'.features = db.features  BY <1>3
<1>4. CASE Flagged(c)
  <2>1. PICK r : r = found[c]  OBVIOUS
  <2>2. db'.features = Marked(rows, r)  BY <1>1, <1>4, <2>1 DEF Flagged
  <2>3. /\ Len(Marked(rows, r)) = Len(rows)
        /\ \A i \in DOMAIN rows : Marked(rows, r)[i].id = rows[i].id
    BY RowMarked
  <2> QED  BY <1>1, <1>2, <2>2, <2>3 DEF Names
<1> QED  BY <1>3, <1>4

(* One more is copied. *)
LEMMA NamesGrow ==
  ASSUME TablesInv, NEW c \in Client, NEW i \in 1 .. Len(List[c]),
         db'.features = Append(db.features, Row(nextRow, List[c][i])), Names(db.features, c, i - 1)
  PROVE  Names(db'.features, c, i)
<1>1. PICK rows \in Seq(RowType) : rows = db.features  BY DbParts DEF TablesInv, DataInv
<1>2. PICK n \in Nat : n = nextRow /\ Numbered(rows, n)  BY <1>1 DEF TablesInv, DataInv, Numbered
<1>3. PICK f \in FeatureRecord(Feature) : f = List[c][i]  BY Listed
<1>4. PICK new : new = Append(rows, Row(n, f))  OBVIOUS
<1>5. /\ Len(new) = Len(rows) + 1 /\ new[Len(rows) + 1] = Row(n, f)
      /\ \A j \in DOMAIN rows : new[j] = rows[j]
  BY <1>2, <1>4, RowAppended
<1>a. Len(rows) = i - 1 /\ \A j \in 1 .. i - 1 : rows[j].id = List[c][j].id
  BY <1>1 DEF Names
<1>6. Len(rows) = i - 1 /\ DOMAIN rows = 1 .. i - 1 /\ \A j \in 1 .. i - 1 : rows[j].id = List[c][j].id
  BY <1>a
<1>7. Row(n, f).id = f.id  BY RowTyped
<1>8. \A j \in 1 .. i : new[j].id = List[c][j].id
  <2> SUFFICES ASSUME NEW j \in 1 .. i PROVE new[j].id = List[c][j].id  OBVIOUS
  <2>1. CASE j = i  BY <1>3, <1>5, <1>6, <1>7, <2>1
  <2>2. CASE j # i
    <3>1. j \in 1 .. i - 1  BY <2>2
    <3> QED  BY <1>5, <1>6, <3>1
  <2> QED  BY <2>1, <2>2
<1>9. Len(new) = i  BY <1>5, <1>6
<1> QED  BY <1>1, <1>2, <1>3, <1>4, <1>8, <1>9 DEF Names

-----------------------------------------------------------------------------
(* The invariant of several processes, part by part. *)

(* The calls that are made. *)
LEMMA ClientsStep ==
  ASSUME TablesInv, ClientsInv, NEW c \in Client, Step(c)
  PROVE  /\ ClientsInv'
         /\ Saved => Saved'
         /\ pc[c] # "idle" /\ op[c] = "save_manifest" => Saved
<1>1. CASE Call(c)
  <2>1. PICK kind \in Ops[c] : /\ op' = [op EXCEPT ![c] = kind]
                               /\ calls' = [calls EXCEPT ![c] = Append(@, kind)]
    BY <1>1 DEF Call
  <2>2. kind \in Kind /\ calls[c] \in Seq(Kind)  BY ClientAssumption DEF ClientsInv
  <2>3. PICK s \in Seq(Kind) : s = calls[c]  BY <2>2
  <2>4. /\ Append(s, kind) \in Seq(Kind) /\ Len(s) + 1 \in DOMAIN Append(s, kind)
        /\ Append(s, kind)[Len(s) + 1] = kind
        /\ \A k \in DOMAIN s : k \in DOMAIN Append(s, kind) /\ Append(s, kind)[k] = s[k]
    <3>1. Len(s) \in Nat /\ DOMAIN s = 1 .. Len(s)  OBVIOUS
    <3>2. /\ Append(s, kind) \in Seq(Kind) /\ Len(Append(s, kind)) = Len(s) + 1
          /\ \A k \in 1 .. Len(s) : Append(s, kind)[k] = s[k]
          /\ Append(s, kind)[Len(s) + 1] = kind
      BY <2>2, AppendProperties
    <3>3. DOMAIN Append(s, kind) = 1 .. Len(s) + 1  BY <3>2
    <3> QED  BY <3>1, <3>2, <3>3
  <2>5. /\ calls' \in [Client -> Seq(Kind)] /\ calls'[c] = Append(s, kind)
        /\ \A d \in Client \ {c} : calls'[d] = calls[d]
    BY <2>1, <2>3, <2>4 DEF ClientsInv
  <2>6. /\ op'[c] = kind /\ pc[c] = "idle" /\ pc'[c] = "called" /\ Apart(c)
    <3>1. op'[c] = kind  BY <2>1 DEF TablesInv, ProgramInv
    <3> QED  BY <1>1, <3>1, CallTables
  <2>7. ASSUME NEW d \in Client, pc'[d] # "idle"
        PROVE  op'[d] \in Ops[d] /\ \E k \in DOMAIN calls'[d] : calls'[d][k] = op'[d]
    <3>1. CASE d = c  BY <2>4, <2>5, <2>6, <3>1
    <3>2. CASE d # c
      <4>1. pc'[d] = pc[d] /\ op'[d] = op[d] /\ calls'[d] = calls[d]
        BY <2>5, <2>6, <3>2 DEF Apart
      <4>2. op[d] \in Ops[d] /\ \E k \in DOMAIN calls[d] : calls[d][k] = op[d]
        BY <2>7, <4>1 DEF ClientsInv
      <4> QED  BY <4>1, <4>2
    <3> QED  BY <3>1, <3>2
  <2>8. Saved => Saved'
    <3> SUFFICES ASSUME NEW d \in Client, NEW k \in DOMAIN calls[d], calls[d][k] = "save_manifest"
                 PROVE  k \in DOMAIN calls'[d] /\ calls'[d][k] = "save_manifest"
      BY DEF Saved
    <3>1. CASE d = c  BY <2>3, <2>4, <2>5, <3>1
    <3>2. CASE d # c  BY <2>5, <3>2
    <3> QED  BY <3>1, <3>2
  <2> QED  BY <2>5, <2>6, <2>7, <2>8 DEF ClientsInv
<1>2. CASE ~Call(c)
  <2>1. calls' = calls /\ op' = op /\ pc[c] # "idle"
    BY <1>2 DEF Step, ClaimSession, FindFeature, WriteRows, ReadRows, Respond, Fail, Scheduled
  <2>2. \A d \in Client \ {c} : pc'[d] = pc[d]  BY StepTables DEF Apart
  <2>3. ClientsInv'  BY <2>1, <2>2 DEF ClientsInv
  <2>4. Saved' <=> Saved  BY <2>1 DEF Saved
  <2>5. op[c] = "save_manifest" => Saved  BY <2>1 DEF ClientsInv, Saved
  <2> QED  BY <2>3, <2>4, <2>5
<1> QED  BY <1>1, <1>2

(* What processes do not do. *)
LEMMA Permitted ==
  ASSUME ProcessAssumption, ~OneProcess, ClientsInv, NEW c \in Client, pc[c] # "idle"
  PROVE  /\ op[c] # "replace_features"
         /\ \A d \in Client : /\ pc[d] # "idle" /\ op[c] = "append_transcript"
                              /\ op[d] = "append_transcript"
                              => d = c
<1>1. \A d \in Client : pc[d] # "idle" => op[d] \in Ops[d]  BY DEF ClientsInv
<1> QED  BY <1>1 DEF ProcessAssumption

(* A call that goes on creating executed a statement of it. *)
LEMMA CreatesOn ==
  ASSUME TablesInv, NEW c \in Client, Step(c), Creating(c)', ~Claims(c)
  PROVE  Creating(c) /\ Executes(c) /\ At(c) + 1 # Lines(c) /\ At(c)' = At(c) + 1
<1>1. pc'[c] = "running" /\ op'[c] = "initialize"  BY DEF Creating
<1>2. op' = op /\ op[c] = "initialize"  BY <1>1, GoesOn
<1>3. ~IsRead(op[c])  BY <1>2 DEF IsRead
<1>4. Executes(c) /\ At(c) + 1 # Lines(c)  BY <1>1, <1>2, <1>3, GoesOn
<1>5. At(c)' = At(c) + 1  BY <1>4 DEF Executes
<1>6. At(c) # 0
  <2>1. Writes(c)  BY <1>4 DEF Executes
  <2>2. \/ At(c) = 1 \/ At(c) = 2 \/ At(c) \in 3 .. Len(List[c]) + 2
        \/ At(c) = Len(List[c]) + 3 \/ At(c) = Len(List[c]) + 4
    BY <1>2, <2>1 DEF Writes
  <2>3. Len(List[c]) \in Nat  BY Listed
  <2> QED  BY <2>2, <2>3
<1>7. Creating(c)  BY <1>2, <1>4, <1>6 DEF Executes, Creating
<1> QED  BY <1>4, <1>5, <1>7

(* A client becomes the creator by a claim. *)
LEMMA Creators ==
  ASSUME TablesInv, NEW c \in Client, Step(c), NEW d \in Client, Creator(d)', ~(d = c /\ Claims(c))
  PROVE  /\ Creator(d)
         /\ d = c /\ Creating(c) =>
              \/ Told(c, "initialize")
              \/ /\ Executes(c)
                 /\ At(c) + 1 # Lines(c) => Creating(c)'
<1>1. CASE Creating(d)'
  <2>1. CASE d = c
    <3>1. Creating(c) /\ Executes(c)  BY <1>1, <2>1, CreatesOn
    <3> QED  BY <1>1, <2>1, <3>1 DEF Creator
  <2>2. CASE d # c
    <3>1. pc'[d] = pc[d] /\ op'[d] = op[d]  BY <2>2, StepTables DEF Apart
    <3> QED  BY <1>1, <2>2, <3>1 DEF Creating, Creator
  <2> QED  BY <2>1, <2>2
<1>2. CASE Told(d, "initialize")' /\ ~Told(d, "initialize")
  <2>1. /\ d = c /\ op[c] = "initialize" /\ At(c) + 1 = Lines(c)
        /\ IsRead(op[c]) \/ Executes(c)
    BY <1>2, Telling
  <2>2. Executes(c)  BY <2>1 DEF IsRead
  <2>3. At(c) # 0
    <3>1. Lines(c) = Len(List[c]) + 5 /\ Len(List[c]) \in Nat  BY <2>1, Lengths, Listed
    <3> QED  BY <2>1, <3>1
  <2>4. Creating(c)  BY <2>1, <2>2, <2>3 DEF Executes, Creating
  <2> QED  BY <2>1, <2>2, <2>4 DEF Creator
<1>3. CASE Told(d, "initialize")  BY <1>3 DEF Creator
<1> QED  BY <1>1, <1>2, <1>3 DEF Creator

(* The one creator, and how far it has come. *)
LEMMA CreatorStep ==
  ASSUME ProcessAssumption, ~OneProcess, ProcessInv, NEW c \in Client, Step(c)
  PROVE  CreatorInv'
<1>0. TablesInv /\ ClientsInv /\ CreatorInv  BY DEF ProcessInv
<1>1. /\ IsInitialized(db) => IsInitialized(db')
      /\ \/ db'.manifest = db.manifest
         \/ /\ db'.manifest = c
            /\ Claims(c) \/ Creating(c) \/ (op[c] = "save_manifest" /\ pc[c] # "idle")
      /\ db'.features = db.features \/ Cleared(c) \/ Copies(c) \/ Flagged(c)
  BY <1>0, Permitted, Grows
<1> SUFFICES ASSUME NEW d \in Client, Creator(d)'
             PROVE  /\ IsInitialized(db')
                    /\ \A e \in Client : Creator(e)' => e = d
                    /\ ~Saved' => db'.manifest = d
                    /\ Creating(d)' => ~Told(d, "initialize")'
                    /\ \/ Creating(d)' /\ At(d)' <= 2
                       \/ Names(db'.features, d, Copied(d)')
  BY DEF CreatorInv
<1>2. CASE Claims(c)
  <2>1. \A e \in Client : ~Creator(e)  BY <1>0, <1>2 DEF Claims, CreatorInv
  <2>2. \A e \in Client : Creator(e)' => e = c  BY <1>0, <2>1, Creators
  <2>3. d = c  BY <2>2
  <2>4. db'.manifest = c /\ IsInitialized(db')
    <3>1. Saves(c)  BY <1>2 DEF Claims
    <3>2. db'.manifest = c  BY <1>0, <3>1, Effects DEF TablesInv
    <3> QED  BY <3>2, ClientAssumption DEF IsInitialized
  <2>5. Creating(c)' /\ At(c)' = 1  BY <1>2 DEF Claims, Creating
  <2>6. ~Told(c, "initialize")'
    <3>1. ~Told(c, "initialize")  BY <2>1 DEF Creator
    <3>2. At(c) + 1 # Lines(c)
      <4>1. Lines(c) = Len(List[c]) + 5 /\ Len(List[c]) \in Nat  BY <1>2, Lengths, Listed DEF Claims
      <4> QED  BY <1>2, <4>1 DEF Claims
    <3> QED  BY <1>0, <3>1, <3>2, Telling
  <2> QED  BY <2>2, <2>3, <2>4, <2>5, <2>6
<1>3. CASE ~Claims(c)
  <2>1. \A e \in Client : Creator(e)' => Creator(e)  BY <1>0, <1>3, Creators
  <2>2. Creator(d) /\ \A e \in Client : Creator(e) => e = d  BY <1>0, <2>1 DEF CreatorInv
  <2>3. /\ IsInitialized(db) /\ (~Saved => db.manifest = d)
        /\ Creating(d) => ~Told(d, "initialize")
        /\ (Creating(d) /\ At(d) <= 2) \/ Names(db.features, d, Copied(d))
    BY <1>0, <2>2 DEF CreatorInv
  <2>4. IsInitialized(db')  BY <1>1, <2>3
  <2>5. \A e \in Client : Creator(e)' => e = d  BY <2>1, <2>2
  <2>6. Creating(c) => c = d  BY <2>2 DEF Creator
  <2>7. ~Saved' => db'.manifest = d
    <3>1. /\ Saved => Saved'
          /\ pc[c] # "idle" /\ op[c] = "save_manifest" => Saved
      BY <1>0, ClientsStep
    <3> QED  BY <1>1, <1>3, <2>3, <2>6, <3>1
  <2>8. Creating(d)' => ~Told(d, "initialize")'
    <3> SUFFICES ASSUME Creating(d)', Told(d, "initialize")' PROVE FALSE  OBVIOUS
    <3>1. CASE d = c
      <4>1. Creating(c) /\ At(c) + 1 # Lines(c)  BY <1>0, <1>3, <3>1, CreatesOn
      <4>2. Told(c, "initialize")  BY <1>0, <3>1, <4>1, Telling
      <4> QED  BY <2>3, <3>1, <4>1, <4>2
    <3>2. CASE d # c
      <4>1. Creating(d)
        <5>1. pc'[d] = pc[d] /\ op'[d] = op[d]  BY <1>0, <3>2, StepTables DEF Apart
        <5> QED  BY <5>1 DEF Creating
      <4>2. Told(d, "initialize")  BY <1>0, <3>2, Telling
      <4> QED  BY <2>3, <4>1, <4>2
    <3> QED  BY <3>1, <3>2
  <2>9. \/ Creating(d)' /\ At(d)' <= 2
        \/ Names(db'.features, d, Copied(d)')
    <3>1. CASE ~Creating(c)
      <4>1. db'.features = db.features \/ Flagged(c)  BY <1>1, <3>1 DEF Cleared, Copies
      <4>2. Copied(d)' = Copied(d) /\ (Creating(d)' <=> Creating(d)) /\ (Creating(d) => At(d)' = At(d))
        <5>1. CASE d = c
          <6>1. ~Creating(c)'  BY <1>0, <1>3, <3>1, CreatesOn
          <6> QED  BY <3>1, <5>1, <6>1 DEF Copied
        <5>2. CASE d # c
          <6>1. pc'[d] = pc[d] /\ op'[d] = op[d] /\ At(d)' = At(d)
            BY <1>0, <5>2, StepTables DEF Apart
          <6>2. Creating(d)' <=> Creating(d)  BY <6>1 DEF Creating
          <6> QED  BY <6>1, <6>2 DEF Copied
        <5> QED  BY <5>1, <5>2
      <4>3. PICK n : n = Copied(d)  OBVIOUS
      <4>4. Names(db.features, d, n) => Names(db'.features, d, n)  BY <1>0, <4>1, NamesStay
      <4> QED  BY <2>3, <4>2, <4>3, <4>4
    <3>2. CASE Creating(c)
      <4>1. c = d  BY <2>6, <3>2
      <4>2. /\ Executes(c)
            /\ At(c) + 1 # Lines(c) => Creating(c)'
        BY <1>0, <1>3, <2>3, <3>2, <4>1, Creators
      <4>3. op[c] = "initialize" /\ pc[c] = "running"  BY <3>2 DEF Creating
      <4>4. PICK m \in Nat : m = Len(List[c])  BY Listed
      <4>5. PICK n \in 1 .. m + 4 : n = At(c)
        BY <1>0, <4>3, <4>4, LongCalls DEF TablesInv
      <4>6. Lines(c) = m + 5  BY <4>3, <4>4, Lengths
      <4>7. /\ n + 1 # m + 5 => Creating(c)' /\ At(c)' = n + 1
            /\ n + 1 = m + 5 => ~Creating(c)'
        BY <4>2, <4>5, <4>6 DEF Executes, Creating
      <4>8. \/ n = 1 /\ Saves(c)
            \/ n = 2 /\ Clears
            \/ n \in 3 .. m + 2 /\ Inserts(c, n - 2)
            \/ n = m + 3 /\ Logs(c)
            \/ n = m + 4 /\ Records(c, "InProgress")
        BY <4>2, <4>3, <4>4, <4>5 DEF Executes, Writes
      <4>9. n > 2 => Names(db.features, c, IF n <= m + 3 THEN n - 3 ELSE m)
        BY <2>3, <3>2, <4>1, <4>4, <4>5 DEF Copied
      <4>10. /\ n + 1 <= m + 3 => Copied(c)' = n - 2
             /\ n + 1 > m + 3 => Copied(c)' = m
        BY <4>4, <4>7 DEF Copied
      <4>11. DataInv  BY <1>0 DEF TablesInv
      <4>12. CASE n = 1
        <5>1. n + 1 # m + 5 /\ n + 1 <= 2  BY <4>12
        <5> QED  BY <4>1, <4>7, <5>1
      <4>13. CASE n = 2
        <5>1. Clears  BY <4>8, <4>13
        <5>2. db'.features = << >>  BY <4>11, <5>1, Effects
        <5>3. Copied(c)' = 0  BY <4>10, <4>13
        <5>4. Names(<< >>, c, 0)  BY DEF Names
        <5> QED  BY <4>1, <5>2, <5>3, <5>4
      <4>14. CASE n \in 3 .. m + 2
        <5>1. Inserts(c, n - 2)  BY <4>8, <4>14
        <5>2. PICK i \in 1 .. Len(List[c]) : i = n - 2  BY <4>4, <4>14
        <5>3. db'.features = Append(db.features, Row(nextRow, List[c][i]))
          BY <4>11, <5>1, <5>2, Inserted
        <5>4. Names(db.features, c, i - 1)
          <6>1. n > 2 /\ n <= m + 3 /\ n - 3 = i - 1  BY <4>14, <5>2
          <6> QED  BY <4>9, <6>1
        <5>5. Names(db'.features, c, i)  BY <1>0, <5>3, <5>4, NamesGrow
        <5>6. Copied(c)' = i
          <6>1. n + 1 <= m + 3  BY <4>14
          <6> QED  BY <4>10, <5>2, <6>1
        <5> QED  BY <4>1, <5>5, <5>6
      <4>15. CASE n \in {m + 3, m + 4}
        <5>1. Logs(c) \/ Records(c, "InProgress")  BY <4>8, <4>15
        <5>2. "InProgress" \in RunStatus  BY DEF RunStatus
        <5>3. db'.features = db.features  BY <4>11, <5>1, <5>2, Effects, Recorded
        <5>4. n > 2 /\ (IF n <= m + 3 THEN n - 3 ELSE m) = m  BY <4>15
        <5>5. Names(db.features, c, m)  BY <4>9, <5>4
        <5>6. Copied(c)' = m
          <6>1. n + 1 > m + 3  BY <4>15
          <6> QED  BY <4>10, <6>1
        <5> QED  BY <4>1, <5>3, <5>5, <5>6
      <4>16. n = 1 \/ n = 2 \/ n \in 3 .. m + 2 \/ n \in {m + 3, m + 4}  OBVIOUS
      <4> QED  BY <4>12, <4>13, <4>14, <4>15, <4>16
    <3> QED  BY <3>1, <3>2
  <2> QED  BY <2>4, <2>5, <2>7, <2>8, <2>9
<1> QED  BY <1>2, <1>3

(* Until a creator copies its list, there are no features that it could clear. *)
LEMMA EmptyStep ==
  ASSUME ProcessAssumption, ~OneProcess, ProcessInv, NEW c \in Client, Step(c)
  PROVE  EmptyInv'
<1>0. TablesInv /\ ClientsInv /\ CreatorInv /\ EmptyInv  BY DEF ProcessInv
<1>1. /\ IsInitialized(db) => IsInitialized(db')
      /\ db'.features = db.features \/ Cleared(c) \/ Copies(c) \/ Flagged(c)
  BY <1>0, Permitted, Grows
<1>2. IsInitialized(InitialSession) => IsInitialized(db')  BY <1>0, <1>1 DEF EmptyInv
<1>3. ASSUME Whole, ~IsInitialized(db') \/ \E d \in Client : Creating(d)' /\ At(d)' <= 2
      PROVE  db'.features = << >>
  <2>1. /\ ~IsInitialized(db) \/ \E d \in Client : Creating(d) /\ At(d) <= 2
        /\ ~Copies(c)
    <3>1. CASE ~IsInitialized(db')
      <4>1. ~IsInitialized(db)  BY <1>1, <3>1
      <4>2. ~Creating(c)  BY <1>0, <4>1 DEF CreatorInv, Creator
      <4> QED  BY <4>1, <4>2 DEF Copies
    <3>2. CASE \E d \in Client : Creating(d)' /\ At(d)' <= 2
      <4>1. PICK d \in Client : Creating(d)' /\ At(d)' <= 2  BY <3>2
      <4>2. CASE Claims(c)
        <5>1. ~IsInitialized(db) /\ At(c) = 0  BY <4>2 DEF Claims
        <5> QED  BY <5>1 DEF Copies
      <4>3. CASE ~Claims(c) /\ d = c
        <5>1. Creating(c) /\ At(c)' = At(c) + 1  BY <1>0, <4>1, <4>3, CreatesOn
        <5>2. At(c) \in Nat
          <6>1. Len(List[c]) \in Nat  BY Listed
          <6>2. At(c) \in 1 .. Len(List[c]) + 4
            BY <1>0, <5>1, LongCalls DEF TablesInv, Creating
          <6> QED  BY <6>1, <6>2
        <5>3. At(c) <= 2 /\ At(c) \notin 3 .. Len(List[c]) + 2  BY <4>1, <4>3, <5>1, <5>2
        <5> QED  BY <5>1, <5>3 DEF Copies
      <4>4. CASE ~Claims(c) /\ d # c
        <5>1. pc'[d] = pc[d] /\ op'[d] = op[d] /\ At(d)' = At(d)  BY <1>0, <4>4, StepTables DEF Apart
        <5>2. Creating(d) /\ At(d) <= 2  BY <4>1, <5>1 DEF Creating
        <5>3. ~Creating(c)  BY <1>0, <4>4, <5>2 DEF CreatorInv, Creator
        <5> QED  BY <5>2, <5>3 DEF Copies
      <4> QED  BY <4>2, <4>3, <4>4
    <3> QED  BY <1>3, <3>1, <3>2
  <2>2. db.features = << >>  BY <1>0, <1>3, <2>1 DEF EmptyInv
  <2>3. CASE Flagged(c)
    <3>1. PICK rows \in Seq(RowType) : rows = db.features  BY <1>0, DbParts DEF TablesInv, DataInv
    <3>2. PICK r : r = found[c]  OBVIOUS
    <3>3. Marked(rows, r) \in Seq(RowType) /\ Len(Marked(rows, r)) = Len(rows)  BY RowMarked
    <3>4. Len(rows) = 0  BY <2>2, <3>1
    <3>5. Marked(rows, r) = << >>  BY <3>3, <3>4
    <3> QED  BY <2>3, <3>1, <3>2, <3>5 DEF Flagged
  <2> QED  BY <1>1, <2>1, <2>2, <2>3 DEF Cleared
<1> QED  BY <1>2, <1>3 DEF EmptyInv

(* An appended element is the last, and the others stay where they are. *)
LEMMA Appended ==
  ASSUME NEW S, NEW s \in Seq(S), NEW x \in S
  PROVE  /\ Len(Append(s, x)) = Len(s) + 1 /\ Len(s) \in Nat
         /\ DOMAIN Append(s, x) = 1 .. Len(s) + 1 /\ DOMAIN s = 1 .. Len(s)
         /\ Append(s, x)[Len(s) + 1] = x
         /\ \A k \in DOMAIN s : k \in DOMAIN Append(s, x) /\ Append(s, x)[k] = s[k]
<1>1. Len(s) \in Nat /\ DOMAIN s = 1 .. Len(s)  OBVIOUS
<1>2. /\ Append(s, x) \in Seq(S) /\ Len(Append(s, x)) = Len(s) + 1
      /\ \A k \in 1 .. Len(s) : Append(s, x)[k] = s[k]
      /\ Append(s, x)[Len(s) + 1] = x
  BY AppendProperties
<1>3. DOMAIN Append(s, x) = 1 .. Len(s) + 1  BY <1>2
<1> QED  BY <1>1, <1>2, <1>3

(* The last statement of a call that was told to have succeeded. *)
LEMMA Finishing ==
  ASSUME TablesInv, NEW c \in Client, Executes(c), At(c) + 1 = Lines(c)
  PROVE  /\ op[c] = "save_manifest" => Saves(c)
         /\ op[c] = "append_progress" => Logs(c)
         /\ op[c] = "checkpoint" => Records(c, "Succeeded")
         /\ op[c] = "append_transcript" => Says(c, 2) /\ pc[c] = "running"
         /\ op[c] = "update_pass" => Marks(c) /\ pc[c] = "running"
<1>1. Writes(c) /\ (pc[c] = "called" <=> At(c) = 0) /\ pc[c] \in {"called", "running"}
  BY DEF Executes
<1>2. op[c] = "save_manifest" => Saves(c)  BY <1>1 DEF Writes
<1>3. op[c] = "append_progress" => Logs(c)  BY <1>1 DEF Writes
<1>4. op[c] = "checkpoint" => Records(c, "Succeeded")  BY <1>1 DEF Writes
<1>5. ASSUME op[c] = "append_transcript" PROVE Says(c, 2) /\ pc[c] = "running"
  <2>1. At(c) \in {0, 1} /\ Says(c, At(c) + 1)  BY <1>1, <1>5 DEF Writes
  <2>2. At(c) + 1 = 2  BY <1>5, Lengths
  <2>3. At(c) # 0  BY <2>1, <2>2
  <2> QED  BY <1>1, <2>1, <2>2, <2>3
<1>6. ASSUME op[c] = "update_pass" PROVE Marks(c) /\ pc[c] = "running"
  BY <1>1, <1>6 DEF Writes
<1> QED  BY <1>2, <1>3, <1>4, <1>5, <1>6

(* A turn that is in the transcript stays there. *)
LEMMA TurnStays ==
  ASSUME NEW c \in Client, NEW t \in Seq(Message), NEW x \in Message,
         NEW k \in DOMAIN t, TurnAt(t, c, k)
  PROVE  k \in DOMAIN Append(t, x) /\ TurnAt(Append(t, x), c, k)
BY Appended DEF TurnAt

(* Its second message completes it. *)
LEMMA TurnEnds ==
  ASSUME NEW c \in Client, NEW t \in Seq(Message), Len(t) > 0, t[Len(t)] = Turn(c)[1]
  PROVE  \E k \in DOMAIN Append(t, Turn(c)[2]) : TurnAt(Append(t, Turn(c)[2]), c, k)
<1>1. PICK x \in Message : x = Turn(c)[2]  BY Messages
<1>2. PICK u : u = Append(t, x)  OBVIOUS
<1>3. /\ DOMAIN u = 1 .. Len(t) + 1 /\ Len(t) \in Nat /\ DOMAIN t = 1 .. Len(t)
      /\ u[Len(t) + 1] = x
      /\ \A k \in DOMAIN t : u[k] = t[k]
  BY <1>2, Appended
<1>4. /\ Len(t) \in DOMAIN u /\ Len(t) + 1 \in DOMAIN u
      /\ u[Len(t)] = Turn(c)[1]
  BY <1>3
<1> QED  BY <1>1, <1>2, <1>3, <1>4 DEF TurnAt

(* What was told stays in the tables. *)
LEMMA KeptStep ==
  ASSUME ProcessAssumption, ~OneProcess, ProcessInv, NEW c \in Client, Step(c)
  PROVE  KeptInv'
<1>0. TablesInv /\ ClientsInv /\ CreatorInv /\ EmptyInv /\ KeptInv  BY DEF ProcessInv
<1>1. /\ IsInitialized(db) => IsInitialized(db')
      /\ db'.progress = db.progress \/ db'.progress = Append(db.progress, c)
      /\ db'.checkpoints = db.checkpoints \/ \E status \in RunStatus : Checked(c, status)
      /\ \/ db'.transcript = db.transcript
         \/ /\ op[c] = "append_transcript" /\ pc[c] # "idle" /\ At(c) \in {0, 1}
            /\ db'.transcript = Append(db.transcript, Turn(c)[At(c) + 1])
      /\ db'.features = db.features \/ Cleared(c) \/ Copies(c) \/ Flagged(c)
  <2>1. pc[c] # "idle" => op[c] # "replace_features"  BY <1>0, Permitted
  <2> QED  BY <1>0, <2>1, Grows
<1>2. DataInv  BY <1>0 DEF TablesInv
<1>3. /\ db.features \in Seq(RowType) /\ db.progress \in Seq(Client)
      /\ db.checkpoints \in Seq([run : Client, status : RunStatus])
      /\ db.transcript \in Seq(Message)
  BY <1>2, DbParts DEF DataInv
<1>4. ASSUME NEW kind, Told(c, kind)', ~Told(c, kind)
      PROVE  kind = op[c] /\ At(c) + 1 = Lines(c) /\ (IsRead(op[c]) \/ Executes(c))
  BY <1>0, <1>4, Telling
<1>5. ASSUME NEW d \in Client, NEW kind, Told(d, kind)', d # c PROVE Told(d, kind)
  BY <1>0, <1>5, Telling
<1>6. ASSUME NEW d \in Client, Told(d, "save_manifest")' PROVE IsInitialized(db')
  <2>1. CASE Told(d, "save_manifest")  BY <1>0, <1>1, <2>1 DEF KeptInv
  <2>2. CASE ~Told(d, "save_manifest")
    <3>1. d = c /\ op[c] = "save_manifest" /\ At(c) + 1 = Lines(c) /\ (IsRead(op[c]) \/ Executes(c))
      BY <1>4, <1>5, <1>6, <2>2
    <3>2. Saves(c)  BY <1>0, <3>1, Finishing DEF IsRead
    <3>3. db'.manifest = c  BY <1>2, <3>2, Effects
    <3> QED  BY <3>3, ClientAssumption DEF IsInitialized
  <2> QED  BY <2>1, <2>2
<1>7. ASSUME NEW d \in Client, Told(d, "append_progress")'
      PROVE  \E k \in DOMAIN db'.progress : db'.progress[k] = d
  <2>1. CASE Told(d, "append_progress")
    <3>1. PICK k \in DOMAIN db.progress : db.progress[k] = d  BY <1>0, <2>1 DEF KeptInv
    <3>2. CASE db'.progress = Append(db.progress, c)
      <4>1. PICK s \in Seq(Client) : s = db.progress  BY <1>3
      <4>2. k \in DOMAIN Append(s, c) /\ Append(s, c)[k] = s[k]  BY <3>1, <4>1, Appended
      <4> QED  BY <3>1, <3>2, <4>1, <4>2
    <3> QED  BY <1>1, <3>1, <3>2
  <2>2. CASE ~Told(d, "append_progress")
    <3>1. d = c /\ op[c] = "append_progress" /\ At(c) + 1 = Lines(c) /\ (IsRead(op[c]) \/ Executes(c))
      BY <1>4, <1>5, <1>7, <2>2
    <3>2. Logs(c)  BY <1>0, <3>1, Finishing DEF IsRead
    <3>3. db'.progress = Append(db.progress, c)  BY <1>2, <3>2, Effects
    <3>4. PICK s \in Seq(Client) : s = db.progress  BY <1>3
    <3>5. Len(s) + 1 \in DOMAIN Append(s, c) /\ Append(s, c)[Len(s) + 1] = c
      <4>1. Len(s) \in Nat /\ DOMAIN Append(s, c) = 1 .. Len(s) + 1 /\ Append(s, c)[Len(s) + 1] = c
        BY Appended
      <4> QED  BY <4>1
    <3> QED  BY <3>1, <3>3, <3>4, <3>5
  <2> QED  BY <2>1, <2>2
<1>8. ASSUME NEW d \in Client, Told(d, "checkpoint")'
      PROVE  \E k \in DOMAIN db'.checkpoints : db'.checkpoints[k] = [run |-> d, status |-> "Succeeded"]
  <2>1. PICK s \in Seq([run : Client, status : RunStatus]) : s = db.checkpoints  BY <1>3
  <2>2. CASE Told(d, "checkpoint")
    <3>1. PICK k \in DOMAIN s : s[k] = [run |-> d, status |-> "Succeeded"]
      BY <1>0, <2>1, <2>2 DEF KeptInv
    <3>2. ASSUME NEW status \in RunStatus, Checked(c, status)
          PROVE  k \in DOMAIN db'.checkpoints /\ db'.checkpoints[k] = s[k]
      <4>1. PICK x \in [run : Client, status : RunStatus] : x = [run |-> c, status |-> status]
        OBVIOUS
      <4>2. k \in DOMAIN Append(s, x) /\ Append(s, x)[k] = s[k]  BY Appended
      <4> QED  BY <2>1, <3>2, <4>1, <4>2 DEF Checked
    <3> QED  BY <1>1, <2>1, <3>1, <3>2
  <2>3. CASE ~Told(d, "checkpoint")
    <3>1. d = c /\ op[c] = "checkpoint" /\ At(c) + 1 = Lines(c) /\ (IsRead(op[c]) \/ Executes(c))
      BY <1>4, <1>5, <1>8, <2>3
    <3>2. Records(c, "Succeeded")  BY <1>0, <3>1, Finishing DEF IsRead
    <3>3. "Succeeded" \in RunStatus  BY DEF RunStatus
    <3>4. PICK x \in [run : Client, status : RunStatus] : x = [run |-> c, status |-> "Succeeded"]
      BY <3>3
    <3>5. db'.checkpoints = Append(s, x)  BY <1>2, <2>1, <3>2, <3>3, <3>4, Recorded
    <3>6. Len(s) + 1 \in DOMAIN Append(s, x) /\ Append(s, x)[Len(s) + 1] = x
      <4>1. Len(s) \in Nat /\ DOMAIN Append(s, x) = 1 .. Len(s) + 1 /\ Append(s, x)[Len(s) + 1] = x
        BY Appended
      <4> QED  BY <4>1
    <3> QED  BY <3>1, <3>4, <3>5, <3>6
  <2> QED  BY <2>2, <2>3
<1>9. PICK t \in Seq(Message) : t = db.transcript  BY <1>3
<1>10. ASSUME NEW d \in Client, Told(d, "append_transcript")'
       PROVE  \E k \in DOMAIN db'.transcript : TurnAt(db'.transcript, d, k)
  <2>1. CASE Told(d, "append_transcript")
    <3>1. PICK k \in DOMAIN t : TurnAt(t, d, k)  BY <1>0, <1>9, <2>1 DEF KeptInv
    <3>2. CASE db'.transcript = t  BY <3>1, <3>2
    <3>3. CASE At(c) \in {0, 1} /\ db'.transcript = Append(t, Turn(c)[At(c) + 1])
      <4>1. PICK x \in Message : x = Turn(c)[At(c) + 1]
        <5>1. At(c) + 1 \in {1, 2}  BY <3>3
        <5> QED  BY <5>1, Messages
      <4>2. k \in DOMAIN Append(t, x) /\ TurnAt(Append(t, x), d, k)  BY <3>1, TurnStays
      <4> QED  BY <3>3, <4>1, <4>2
    <3> QED  BY <1>1, <1>9, <3>2, <3>3
  <2>2. CASE ~Told(d, "append_transcript")
    <3>1. d = c /\ op[c] = "append_transcript" /\ At(c) + 1 = Lines(c) /\ (IsRead(op[c]) \/ Executes(c))
      BY <1>4, <1>5, <1>10, <2>2
    <3>2. Says(c, 2) /\ pc[c] = "running"  BY <1>0, <3>1, Finishing DEF IsRead
    <3>3. db'.transcript = Append(t, Turn(c)[2])
      <4>1. 2 \in {1, 2}  OBVIOUS
      <4> QED  BY <1>2, <1>9, <3>2, <4>1, Said
    <3>4. Len(t) > 0 /\ t[Len(t)] = Turn(c)[1]  BY <1>0, <1>9, <3>1, <3>2 DEF KeptInv
    <3> QED  BY <3>1, <3>3, <3>4, TurnEnds
  <2> QED  BY <2>1, <2>2
<1>11. ASSUME NEW d \in Client, op'[d] = "append_transcript", pc'[d] = "running"
       PROVE  Len(db'.transcript) > 0 /\ db'.transcript[Len(db'.transcript)] = Turn(d)[1]
  <2>1. CASE d = c
    <3>1. op[c] = "append_transcript" /\ Executes(c) /\ At(c) + 1 # Lines(c)
      BY <1>0, <1>11, <2>1, GoesOn DEF Claims, IsRead
    <3>2. Writes(c) /\ Lines(c) = 2  BY <3>1, Lengths DEF Executes
    <3>3. At(c) \in {0, 1} /\ Says(c, At(c) + 1)  BY <3>1, <3>2 DEF Writes
    <3>4. At(c) + 1 = 1  BY <3>1, <3>2, <3>3
    <3>5. Says(c, 1)  BY <3>3, <3>4
    <3>6. db'.transcript = Append(t, Turn(c)[1])
      <4>1. 1 \in {1, 2}  OBVIOUS
      <4> QED  BY <1>2, <1>9, <3>5, <4>1, Said
    <3>7. PICK x \in Message : x = Turn(c)[1]  BY Messages
    <3>8. Len(Append(t, x)) = Len(t) + 1 /\ Append(t, x)[Len(t) + 1] = x /\ Len(t) \in Nat
      BY Appended
    <3> QED  BY <2>1, <3>6, <3>7, <3>8
  <2>2. CASE d # c
    <3>1. op[d] = "append_transcript" /\ pc[d] = "running"
      BY <1>0, <1>11, <2>2, StepTables DEF Apart
    <3>2. ~(op[c] = "append_transcript" /\ pc[c] # "idle")  BY <1>0, <2>2, <3>1, Permitted
    <3>3. db'.transcript = t  BY <1>1, <1>9, <3>2
    <3>4. Len(db.transcript) > 0 /\ db.transcript[Len(db.transcript)] = Turn(d)[1]
      BY <1>0, <3>1, Zenon DEF KeptInv
    <3> QED  BY <1>9, <3>3, <3>4
  <2> QED  BY <2>1, <2>2
<1>12. ASSUME Whole, NEW i \in DOMAIN db.features
       PROVE  /\ i \in DOMAIN db'.features
              /\ db'.features[i].row = db.features[i].row /\ db'.features[i].id = db.features[i].id
              /\ db.features[i].passes => db'.features[i].passes
  <2>1. ~Cleared(c)
    <3> SUFFICES ASSUME Cleared(c) PROVE FALSE  OBVIOUS
    <3>1. Creating(c) /\ At(c) <= 2  BY DEF Cleared
    <3>2. db.features = << >>  BY <1>0, <1>12, <3>1 DEF EmptyInv
    <3> QED  BY <1>12, <3>2
  <2> QED  BY <1>0, <1>1, <1>12, <2>1, RowsStay
<1>13. ASSUME Whole, NEW d \in Client, Told(d, "update_pass")'
       PROVE  \E i \in DOMAIN db'.features : db'.features[i].id = Target[d] /\ db'.features[i].passes
  <2>1. CASE Told(d, "update_pass")
    <3>1. PICK i \in DOMAIN db.features : db.features[i].id = Target[d] /\ db.features[i].passes
      BY <1>0, <1>13, <2>1 DEF KeptInv
    <3> QED  BY <1>12, <1>13, <3>1
  <2>2. CASE ~Told(d, "update_pass")
    <3>1. d = c /\ op[c] = "update_pass" /\ At(c) + 1 = Lines(c) /\ (IsRead(op[c]) \/ Executes(c))
      BY <1>4, <1>5, <1>13, <2>2
    <3>2. Marks(c) /\ pc[c] = "running"  BY <1>0, <3>1, Finishing DEF IsRead
    <3>3. PICK i \in DOMAIN db.features : db.features[i].id = Target[c] /\ db.features[i].row = found[c]
      BY <1>0, <1>13, <3>1, <3>2 DEF KeptInv
    <3>4. PICK rows \in Seq(RowType) : rows = db.features  BY <1>3
    <3>5. PICK r : r = found[c]  OBVIOUS
    <3>6. db'.features = Marked(rows, r)  BY <1>2, <3>2, <3>4, <3>5, Effects
    <3>7. /\ i \in DOMAIN Marked(rows, r) /\ Marked(rows, r)[i].id = rows[i].id
          /\ Marked(rows, r)[i].passes = (rows[i].passes \/ rows[i].row = r)
      BY <3>3, <3>4, RowMarked
    <3> QED  BY <3>1, <3>3, <3>4, <3>5, <3>6, <3>7
  <2> QED  BY <2>1, <2>2
<1>14. ASSUME Whole, NEW d \in Client, op'[d] = "update_pass", pc'[d] = "running"
       PROVE  \E i \in DOMAIN db'.features :
                db'.features[i].id = Target[d] /\ db'.features[i].row = found'[d]
  <2>1. CASE d = c
    <3>1. op[c] = "update_pass"  BY <1>0, <1>14, <2>1, GoesOn
    <3>2. ~(Executes(c) /\ At(c) + 1 # Lines(c))
      <4> SUFFICES ASSUME Executes(c) PROVE At(c) + 1 = Lines(c)  OBVIOUS
      <4>1. At(c) = 1  BY <3>1 DEF Executes, Writes
      <4>2. Lines(c) = 2  BY <3>1, Lengths
      <4> QED  BY <4>1, <4>2
    <3>3. /\ db' = db
          /\ \E i \in DOMAIN db.features :
               db.features[i].id = Target[c] /\ db.features[i].row = found'[c]
      BY <1>0, <1>14, <2>1, <3>1, <3>2, GoesOn DEF Claims, IsRead
    <3> QED  BY <2>1, <3>3
  <2>2. CASE d # c
    <3>1. op[d] = "update_pass" /\ pc[d] = "running" /\ found'[d] = found[d]
      BY <1>0, <1>14, <2>2, StepTables DEF Apart
    <3>2. PICK i \in DOMAIN db.features : db.features[i].id = Target[d] /\ db.features[i].row = found[d]
      BY <1>0, <1>14, <3>1 DEF KeptInv
    <3> QED  BY <1>12, <1>14, <3>1, <3>2
  <2> QED  BY <2>1, <2>2
<1> QED  BY <1>6, <1>7, <1>8, <1>10, <1>11, <1>13, <1>14 DEF KeptInv

-----------------------------------------------------------------------------
(* So with several processes too, one caller is told that it created the       *)
(* session, and what callers are told is kept.                                 *)

(* At first nobody has called. *)
LEMMA ProcessFirst ==
  ASSUME Init
  PROVE  ProcessInv
<1>1. /\ TablesInv /\ SessionOf(db) = InitialSession
      /\ db.manifest = InitialSession.manifest
      /\ Len(db.features) = Len(InitialSession.features)
  BY FirstTables
<1>2. /\ calls = [c \in Client |-> << >>] /\ acked = {}
      /\ \A c \in Client : pc[c] = "idle"
  BY DEF Init
<1>3. ClientsInv
  <2>1. << >> \in Seq(Kind)  OBVIOUS
  <2> QED  BY <1>2, <2>1 DEF ClientsInv
<1>4. \A c \in Client : ~Creating(c) /\ \A kind : ~Told(c, kind)  BY <1>2 DEF Creating, Told
<1>5. CreatorInv  BY <1>4 DEF CreatorInv, Creator
<1>6. EmptyInv
  <2>1. IsInitialized(db) <=> IsInitialized(InitialSession)  BY <1>1 DEF IsInitialized
  <2>2. InitialSession.features = << >> => db.features = << >>
    <3>1. db.features \in Seq(RowType)  BY <1>1, DbParts DEF TablesInv, DataInv
    <3> SUFFICES ASSUME InitialSession.features = << >> PROVE db.features = << >>  OBVIOUS
    <3>2. Len(db.features) = 0  BY <1>1
    <3> QED  BY <3>1, <3>2, EmptySeq
  <2> QED  BY <1>4, <2>1, <2>2 DEF EmptyInv, Whole
<1>7. KeptInv  BY <1>2, <1>4 DEF KeptInv
<1> QED  BY <1>1, <1>3, <1>5, <1>6, <1>7 DEF ProcessInv

(* And every step of every process keeps the invariant. *)
LEMMA ProcessStep ==
  ASSUME ProcessAssumption, ~OneProcess, ProcessInv, [Next]_vars
  PROVE  ProcessInv'
<1>1. ASSUME NEW c \in Client, Step(c) PROVE ProcessInv'
  <2>1. TablesInv /\ ClientsInv  BY DEF ProcessInv
  <2>2. TablesInv'  BY <1>1, <2>1, StepTables
  <2>3. ClientsInv'  BY <1>1, <2>1, ClientsStep
  <2>4. CreatorInv' /\ EmptyInv' /\ KeptInv'  BY <1>1, CreatorStep, EmptyStep, KeptStep
  <2> QED  BY <2>2, <2>3, <2>4 DEF ProcessInv
<1>2. CASE UNCHANGED vars
  <2>1. \A c \in Client : At(c)' = At(c)  BY <1>2 DEF At, vars
  <2>2. \A c \in Client : /\ Creating(c)' = Creating(c) /\ Copied(c)' = Copied(c)
                          /\ \A kind : Told(c, kind)' = Told(c, kind)
    BY <1>2, <2>1 DEF vars, Creating, Copied, Told
  <2>3. TablesInv'  BY <1>2, TablesStep DEF ProcessInv
  <2>4. ClientsInv'  BY <1>2 DEF vars, ClientsInv, ProcessInv
  <2>5. \A c \in Client : Creator(c)' = Creator(c)  BY <2>2 DEF Creator
  <2>6. Saved' = Saved  BY <1>2 DEF vars, Saved
  <2>7. CreatorInv'  BY <1>2, <2>1, <2>2, <2>5, <2>6 DEF vars, CreatorInv, ProcessInv
  <2>8. EmptyInv'  BY <1>2, <2>1, <2>2 DEF vars, EmptyInv, ProcessInv
  <2>9. KeptInv'  BY <1>2, <2>2 DEF vars, KeptInv, ProcessInv
  <2> QED  BY <2>3, <2>4, <2>7, <2>8, <2>9 DEF ProcessInv
<1>3. CASE Next  BY <1>1, <1>3 DEF Next, Step
<1> QED  BY <1>2, <1>3

(* The creator is the only one, and its list is whole. *)
LEMMA ProcessCreates ==
  ASSUME ~OneProcess, ProcessInv
  PROVE  CreatedOnce
<1>1. View = SessionOf(db)  BY DEF View
<1>2. PICK d \in DbType : d = db  BY DEF ProcessInv, TablesInv, DataInv
<1>3. /\ SessionOf(d).manifest = d.manifest /\ SessionOf(d).features = Lists(d.features)
      /\ d.features \in Seq(RowType)
  BY SessionFields, DbParts
<1> SUFFICES ASSUME NEW c \in Client, <<c, "initialize">> \in acked
             PROVE  /\ \A e \in Client : <<e, "initialize">> \in acked => e = c
                    /\ ~Saved => View.manifest = c
                    /\ DOMAIN View.features = DOMAIN List[c]
                    /\ \A i \in DOMAIN List[c] : View.features[i].id = List[c][i].id
  BY DEF CreatedOnce, Contract!CreatedOnce, Contract!Called, Saved
<1>4. \A e \in Client : <<e, "initialize">> \in acked => Told(e, "initialize") /\ Creator(e)
  BY DEF Told, Creator
<1>5. /\ \A e \in Client : Creator(e) => e = c
      /\ ~Saved => db.manifest = c
      /\ ~Creating(c)
      /\ Names(db.features, c, Copied(c))
  BY <1>4 DEF ProcessInv, CreatorInv
<1>6. Names(d.features, c, Len(List[c]))  BY <1>2, <1>5 DEF Copied
<1>7. List[c] \in Seq(FeatureRecord(Feature))  BY ClientAssumption
<1>8. /\ DOMAIN Lists(d.features) = DOMAIN d.features
      /\ \A i \in DOMAIN d.features : Lists(d.features)[i].id = d.features[i].id
  BY <1>3, ListsFacts
<1>9. DOMAIN d.features = 1 .. Len(d.features) /\ DOMAIN List[c] = 1 .. Len(List[c])
  BY <1>3, <1>7
<1>10. /\ DOMAIN d.features = DOMAIN List[c]
       /\ \A i \in DOMAIN List[c] : d.features[i].id = List[c][i].id
  BY <1>6, <1>9 DEF Names
<1>11. View.manifest = db.manifest /\ View.features = Lists(d.features)  BY <1>1, <1>2, <1>3
<1>12. /\ DOMAIN View.features = DOMAIN List[c]
       /\ \A i \in DOMAIN List[c] : View.features[i].id = List[c][i].id
  BY <1>8, <1>10, <1>11
<1> QED  BY <1>4, <1>5, <1>11, <1>12

(* The two messages of a turn, side by side. *)
LEMMA TurnCut ==
  ASSUME NEW c \in Client, NEW t \in Seq(Message), NEW k \in DOMAIN t, TurnAt(t, c, k)
  PROVE  SubSeq(t, k, k + 1) = Turn(c)
<1>1. PICK x \in Message, y \in Message : x = Turn(c)[1] /\ y = Turn(c)[2]  BY Messages
<1>2. Turn(c) = << x, y >>  BY <1>1 DEF Turn
<1>3. t[k] = x /\ t[k + 1] = y /\ k + 1 \in DOMAIN t  BY <1>1 DEF TurnAt
<1>4. /\ SubSeq(t, k, k + 1) \in Seq(Message) /\ Len(SubSeq(t, k, k + 1)) = 2
      /\ SubSeq(t, k, k + 1)[1] = t[k] /\ SubSeq(t, k, k + 1)[2] = t[k + 1]
  BY <1>3
<1> DEFINE p == SubSeq(t, k, k + 1)
           q == << x, y >>
<1>5. q \in Seq(Message) /\ Len(q) = 2 /\ q[1] = x /\ q[2] = y  OBVIOUS
<1>6. p \in Seq(Message) /\ Len(p) = 2 /\ p[1] = x /\ p[2] = y  BY <1>3, <1>4
<1> HIDE DEF p, q
<1>7. \A i \in 1 .. Len(p) : p[i] = q[i]
  <2>1. \A i \in 1 .. Len(p) : i = 1 \/ i = 2  BY <1>6
  <2> QED  BY <1>5, <1>6, <2>1
<1>8. p = q  BY <1>5, <1>6, <1>7, SeqEqual
<1> QED  BY <1>2, <1>8 DEF p, q

(* What was told is in the tables, and what is in them is in the session. *)
LEMMA ProcessKeeps ==
  ASSUME ~OneProcess, ProcessInv
  PROVE  AcknowledgedKept
<1>1. View = SessionOf(db)  BY DEF View
<1>2. PICK d \in DbType : d = db  BY DEF ProcessInv, TablesInv, DataInv
<1>3. /\ View.features = Lists(d.features) /\ View.progress = d.progress
      /\ View.checkpoints = d.checkpoints /\ View.transcript = d.transcript
      /\ IsInitialized(View) <=> IsInitialized(d)
  BY <1>1, <1>2, SessionFields
<1>4. d.features \in Seq(RowType) /\ d.transcript \in Seq(Message)  BY DbParts
<1>5. ASSUME NEW c \in Client, NEW kind, <<c, kind>> \in acked PROVE Told(c, kind)
  BY <1>5 DEF Told
<1>6. CreatorInv /\ KeptInv  BY DEF ProcessInv
<1>7. ASSUME NEW c \in Client, {<<c, "initialize">>, <<c, "save_manifest">>} \cap acked # {}
      PROVE  IsInitialized(View)
  <2>1. CASE <<c, "initialize">> \in acked
    <3>1. Creator(c)  BY <1>5, <2>1 DEF Creator
    <3> QED  BY <1>2, <1>3, <1>6, <3>1 DEF CreatorInv
  <2>2. CASE <<c, "save_manifest">> \in acked
    <3>1. Told(c, "save_manifest")  BY <1>5, <2>2
    <3> QED  BY <1>2, <1>3, <1>6, <3>1 DEF KeptInv
  <2> QED  BY <1>7, <2>1, <2>2
<1>8. ASSUME NEW c \in Client, <<c, "append_progress">> \in acked
      PROVE  \E k \in DOMAIN View.progress : View.progress[k] = c
  <2>1. Told(c, "append_progress")  BY <1>5, <1>8
  <2>2. \E k \in DOMAIN db.progress : db.progress[k] = c  BY <1>6, <2>1, Zenon DEF KeptInv
  <2> QED  BY <1>2, <1>3, <2>2, Zenon
<1>9. ASSUME NEW c \in Client, <<c, "checkpoint">> \in acked
      PROVE  \E k \in DOMAIN View.checkpoints :
               View.checkpoints[k] = [run |-> c, status |-> "Succeeded"]
  <2>1. Told(c, "checkpoint")  BY <1>5, <1>9
  <2>2. \E k \in DOMAIN db.checkpoints :
          db.checkpoints[k] = [run |-> c, status |-> "Succeeded"]
    BY <1>6, <2>1, Zenon DEF KeptInv
  <2> QED  BY <1>2, <1>3, <2>2, Zenon
<1>10. ASSUME NEW c \in Client, <<c, "append_transcript">> \in acked
       PROVE  \E k \in DOMAIN View.transcript :
                k + 1 \in DOMAIN View.transcript /\ SubSeq(View.transcript, k, k + 1) = Turn(c)
  <2>1. Told(c, "append_transcript")  BY <1>5, <1>10
  <2>2. PICK k \in DOMAIN d.transcript : TurnAt(d.transcript, c, k)
    BY <1>2, <1>6, <2>1 DEF KeptInv
  <2>3. SubSeq(d.transcript, k, k + 1) = Turn(c)  BY <1>4, <2>2, TurnCut
  <2>4. k + 1 \in DOMAIN d.transcript  BY <2>2 DEF TurnAt
  <2> QED  BY <1>3, <2>3, <2>4
<1>11. ASSUME NEW c \in Client, <<c, "update_pass">> \in acked, Whole
       PROVE  \E i \in DOMAIN View.features :
                View.features[i] = [id |-> Target[c], passes |-> TRUE]
  <2>1. Told(c, "update_pass")  BY <1>5, <1>11
  <2>2. PICK i \in DOMAIN d.features : d.features[i].id = Target[c] /\ d.features[i].passes
    BY <1>2, <1>6, <1>11, <2>1 DEF KeptInv
  <2>3. d.features[i] \in RowType  BY <1>4
  <2>4. d.features[i].passes = TRUE  BY <2>2, <2>3 DEF RowType
  <2>5. i \in DOMAIN Lists(d.features) /\ Lists(d.features)[i] = [id |-> Target[c], passes |-> TRUE]
    BY <2>2, <2>4 DEF Lists
  <2> QED  BY <1>3, <2>5
<1>12. \A s : Contract!IsInitialized(s) <=> IsInitialized(s)
  BY DEF IsInitialized, Contract!IsInitialized
<1>13. ASSUME NEW c \in Client, <<c, "append_transcript">> \in acked
       PROVE  \E k \in DOMAIN View.transcript :
                /\ k + 1 \in DOMAIN View.transcript
                /\ SubSeq(View.transcript, k, k + 1) = Contract!Turn(c)
  <2>1. Contract!Turn(c) = Turn(c)  BY DEF Turn, Contract!Turn
  <2> QED  BY <1>10, <1>13, <2>1
<1>14. ASSUME NEW c \in Client
       PROVE  /\ {<<c, "initialize">>, <<c, "save_manifest">>} \cap acked # {} =>
                   Contract!IsInitialized(View)
              /\ <<c, "append_progress">> \in acked =>
                   \E k \in DOMAIN View.progress : View.progress[k] = c
              /\ <<c, "checkpoint">> \in acked =>
                   \E k \in DOMAIN View.checkpoints :
                     View.checkpoints[k] = [run |-> c, status |-> "Succeeded"]
              /\ <<c, "append_transcript">> \in acked =>
                   \E k \in DOMAIN View.transcript :
                     /\ k + 1 \in DOMAIN View.transcript
                     /\ SubSeq(View.transcript, k, k + 1) = Contract!Turn(c)
              /\ /\ <<c, "update_pass">> \in acked
                 /\ Contract!IsInitialized(InitialSession) \/ InitialSession.features = << >>
                 => \E i \in DOMAIN View.features :
                      View.features[i] = [id |-> Target[c], passes |-> TRUE]
  BY <1>7, <1>8, <1>9, <1>11, <1>12, <1>13, Zenon DEF Whole
<1> QED  BY <1>14, Zenon DEF AcknowledgedKept, Contract!AcknowledgedKept

(* When several processes share the database, and are interrupted anywhere,    *)
(* at most one caller is told that it created the session, and the manifest    *)
(* and the list in the tables are its own.                                     *)
THEOREM ProcessesCreateOnce ==
  ASSUME ProcessAssumption, ~OneProcess
  PROVE  Spec => []CreatedOnce
<1>1. Init => ProcessInv  BY ProcessFirst
<1>2. ProcessInv /\ [Next]_vars => ProcessInv'  BY ProcessStep
<1>3. ProcessInv => CreatedOnce  BY ProcessCreates
<1> QED  BY <1>1, <1>2, <1>3, PTL DEF Spec

(* And what a caller was told is stored is in the tables, whatever the others  *)
(* do, and whoever is interrupted.                                             *)
THEOREM ProcessesKeepAcknowledged ==
  ASSUME ProcessAssumption, ~OneProcess
  PROVE  Spec => []AcknowledgedKept
<1>1. Init => ProcessInv  BY ProcessFirst
<1>2. ProcessInv /\ [Next]_vars => ProcessInv'  BY ProcessStep
<1>3. ProcessInv => AcknowledgedKept  BY ProcessKeeps
<1> QED  BY <1>1, <1>2, <1>3, PTL DEF Spec

=============================================================================
