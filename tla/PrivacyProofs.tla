---------------------------- MODULE PrivacyProofs ----------------------------
(***************************************************************************)
(* Privacy's type correctness and its two properties, for every number of  *)
(* turns, of runs of the consolidation job and of erasures, whatever the   *)
(* turns write.                                                            *)
(***************************************************************************)
EXTENDS Privacy, TLAPS

-----------------------------------------------------------------------------
\* The tables and the two orders, as far as the proofs need them.
LEMMA TablesFacts ==
  /\ RowTables \subseteq Tables /\ AddTables \subseteq Tables
  /\ \A b \in Tables : b \in RowTables <=> b \notin AddTables
  /\ RowTables \subseteq Erasable /\ Erasable \subseteq Tables
BY DEF Tables, RowTables, AddTables, Erasable

LEMMA ExportFacts ==
  /\ Len(ExportOrder) = 7 /\ DOMAIN ExportOrder = 1..7
  /\ \A k \in 1..7 : ExportOrder[k] \in Tables
  /\ \A b \in Tables : \E k \in 1..7 : ExportOrder[k] = b
  /\ \A j, k \in 1..7 : ExportOrder[j] = ExportOrder[k] => j = k
<1>1. /\ Len(ExportOrder) = 7 /\ DOMAIN ExportOrder = 1..7
      /\ ExportOrder[1] = "mastery" /\ ExportOrder[2] = "misconceptions"
      /\ ExportOrder[3] = "review_state" /\ ExportOrder[4] = "ia_project_state"
      /\ ExportOrder[5] = "disclosure_log" /\ ExportOrder[6] = "review_queue"
      /\ ExportOrder[7] = "response_log"
  BY DEF ExportOrder
<1>2. 1..7 = {1, 2, 3, 4, 5, 6, 7}
  OBVIOUS
<1>3. Tables = {"mastery", "misconceptions", "review_state",
                "ia_project_state", "disclosure_log", "review_queue",
                "response_log"}
  BY DEF Tables, RowTables, AddTables
<1>4. QED
  BY <1>1, <1>2, <1>3

LEMMA EraseFacts ==
  /\ Len(EraseOrder) = 5 /\ DOMAIN EraseOrder = 1..5
  /\ \A k \in 1..5 : EraseOrder[k] \subseteq Erasable
  /\ \A b \in Erasable : \E k \in 1..5 : b \in EraseOrder[k]
<1>1. /\ Len(EraseOrder) = 5 /\ DOMAIN EraseOrder = 1..5
      /\ EraseOrder[1] = {"mastery", "misconceptions"}
      /\ EraseOrder[2] = {"review_state"}
      /\ EraseOrder[3] = {"ia_project_state"}
      /\ EraseOrder[4] = {"review_queue"}
      /\ EraseOrder[5] = {"response_log"}
  BY DEF EraseOrder
<1>2. 1..5 = {1, 2, 3, 4, 5}
  OBVIOUS
<1>3. Erasable = {"mastery", "misconceptions", "review_state",
                  "ia_project_state", "review_queue", "response_log"}
  BY DEF Erasable, Tables, RowTables, AddTables
<1>4. QED
  BY <1>1, <1>2, <1>3

-----------------------------------------------------------------------------
\* Writers that have not begun wrote nothing, those not under way hold no row;
\* what an erasure was or is to forget has ended, and whoever is under way
\* beside it crossed it.
WriterInv ==
  /\ \A t \in Writers : writer[t].fate = "unborn" => writer[t].wrote = {}
  /\ \A t \in Writers, b \in RowTables : ~Running(t) => writer[t].seen[b] = {}
  /\ \A t \in forgotten \cup eraser.ended : Ended(t)
  /\ eraser.next > 0 => \A t \in Writers : Running(t) => t \in crossed
  /\ eraser.next > 0 =>
       \A t \in Writers : writer[t].fate # "unborn" => t \in touched

\* What shows some of the writers to be forgotten shows one that crossed.
Tainted(b, shown, gone) ==
  shown \cap gone # {} => b \in RowTables /\ shown \cap crossed # {}

\* The tables that the erasure under way has deleted.
Deleted(b) == \E k \in 1 .. eraser.next - 1 : b \in EraseOrder[k]

\* The same of the rows that writers hold and of the tables already deleted.
ReturnInv ==
  /\ \A b \in Erasable : Tainted(b, content[b], forgotten)
  /\ \A t \in Writers, b \in RowTables :
       writer[t].seen[b] \cap forgotten # {} =>
         t \in crossed \/ writer[t].seen[b] \cap crossed # {}
  /\ \A b \in Erasable :
       Deleted(b) => Tainted(b, content[b], eraser.ended)

\* A table shows what it owes to some writers.
Shows(b, owed, shown) ==
  /\ b \in AddTables => owed \subseteq shown
  /\ b \notin AddTables /\ owed # {} => shown # {}

\* What writers wrote and no erasure was asked to delete.
Lasting(b) ==
  {t \in Writers : /\ b \in writer[t].wrote
                   /\ b \in Erasable => t \notin touched}

Listed(b) == \E k \in 1 .. export.next - 1 : ExportOrder[k] = b

\* What lasts is in the tables; an export that no erasure overlapped finds what
\* it owes in the rows it has listed and in the tables it has still to list.
ExportInv ==
  /\ \A b \in Tables : Shows(b, Lasting(b), content[b])
  /\ export.next = 0 => \A b \in Tables : export.owed[b] = {}
  /\ eraser.next > 0 /\ ~export.overlapped =>
       \A b \in Erasable : export.owed[b] = {}
  /\ \A b \in Tables :
       (b \in Erasable => ~export.overlapped) =>
         /\ Listed(b) => Shows(b, export.owed[b], export.rows[b])
         /\ ~Listed(b) => Shows(b, export.owed[b], content[b])

IInv == TypeOK /\ WriterInv /\ ReturnInv /\ ExportInv

-----------------------------------------------------------------------------
\* What a writer is before it begins.
LEMMA UnbornType == Unborn \in WriterRecord
BY TablesFacts DEF Unborn, WriterRecord

LEMMA InitOk == Init => IInv
<1> SUFFICES ASSUME Init PROVE IInv
  OBVIOUS
<1>1. TypeOK
  BY UnbornType, ExportFacts, EraseFacts, PrivacyConstants DEF Init, TypeOK
<1>2. WriterInv
  BY DEF Init, WriterInv, Unborn, Running
<1>3. ReturnInv
  BY TablesFacts DEF Init, ReturnInv, Tainted, Deleted, Unborn
<1>4. ExportInv
  <2>1. \A b \in Tables : Lasting(b) = {}
    BY DEF Init, Lasting, Unborn
  <2>2. QED
    BY <2>1 DEF Init, ExportInv, Shows
<1>5. QED
  BY <1>1, <1>2, <1>3, <1>4 DEF IInv

\* What a writer's record holds, and that a record of such parts is one.
LEMMA FieldTypes ==
  ASSUME TypeOK, NEW t \in Writers
  PROVE  /\ writer[t] \in WriterRecord
         /\ writer[t].todo \in SUBSET Tables
         /\ writer[t].reading \in SUBSET RowTables
         /\ writer[t].wrote \in SUBSET Tables
         /\ writer[t].seen \in [RowTables -> SUBSET Writers]
BY DEF TypeOK, WriterRecord

LEMMA UpdateType ==
  ASSUME TypeOK, NEW t \in Writers, NEW r \in WriterRecord
  PROVE  [writer EXCEPT ![t] = r] \in [Writers -> WriterRecord]
BY DEF TypeOK

\* The export goes on.
LEMMA ExportType ==
  ASSUME TypeOK, NEW n \in Nat, n \in 0..8,
         NEW f \in [Tables -> SUBSET Writers]
  PROVE  /\ [export EXCEPT !.next = n, !.owed = f]
              \in [next : 0 .. Len(ExportOrder) + 1, overlapped : BOOLEAN,
                  rows : [Tables -> SUBSET Writers],
                  owed : [Tables -> SUBSET Writers]]
         /\ [export EXCEPT !.next = n, !.rows = f]
              \in [next : 0 .. Len(ExportOrder) + 1, overlapped : BOOLEAN,
                  rows : [Tables -> SUBSET Writers],
                  owed : [Tables -> SUBSET Writers]]
<1>1. n \in 0 .. Len(ExportOrder) + 1
  BY ExportFacts
<1> DEFINE F == [Tables -> SUBSET Writers]
           N == 0 .. Len(ExportOrder) + 1
<1>2. export \in [next : N, overlapped : BOOLEAN, rows : F, owed : F]
  BY DEF TypeOK
<1> HIDE DEF F, N
<1>3. n \in N /\ f \in F
  BY <1>1 DEF F, N
<1>4. /\ [export EXCEPT !.next = n, !.owed = f]
           \in [next : N, overlapped : BOOLEAN, rows : F, owed : F]
      /\ [export EXCEPT !.next = n, !.rows = f]
           \in [next : N, overlapped : BOOLEAN, rows : F, owed : F]
  BY <1>2, <1>3
<1>5. QED
  BY <1>4 DEF F, N

\* A row read, and a row no longer held.
LEMMA SeenType ==
  ASSUME NEW f \in [RowTables -> SUBSET Writers], NEW b,
         NEW s \in SUBSET Writers
  PROVE  /\ [f EXCEPT ![b] = s] \in [RowTables -> SUBSET Writers]
         /\ [c \in RowTables |-> IF c = b THEN {} ELSE f[c]]
              \in [RowTables -> SUBSET Writers]
OBVIOUS

\* Each step of a turn or of the job stores a record again.
LEMMA StepType ==
  ASSUME TypeOK, Next
  PROVE  TypeOK'
<1>1. ASSUME NEW t \in Writers, Begin(t)
      PROVE  TypeOK'
  <2>1. \A w \in WorksOf(t) : w \in SUBSET Tables
    <3>1. TurnWork \subseteq SUBSET Tables /\ JobWork \in SUBSET Tables
      BY DEF TurnWork, GradedWork, TutoredWork, ProjectWork, JobWork, Tables,
             RowTables, AddTables
    <3>2. QED
      BY <3>1, PrivacyConstants DEF WorksOf
  <2>2. PICK w \in WorksOf(t) :
          writer' = [writer EXCEPT ![t].fate = "running", ![t].todo = w]
    BY <1>1 DEF Begin
  <2>3. [writer[t] EXCEPT !.fate = "running", !.todo = w] \in WriterRecord
    BY <2>1, FieldTypes DEF WriterRecord
  <2>4. writer' = [writer EXCEPT ![t] =
                   [writer[t] EXCEPT !.fate = "running", !.todo = w]]
    BY <2>2
  <2>5. writer' \in [Writers -> WriterRecord]
    BY <2>3, <2>4, UpdateType
  <2>6. QED
    BY <1>1, <2>5 DEF Begin, TypeOK
<1>2. ASSUME NEW t \in Writers, NEW b \in RowTables, Get(t, b)
      PROVE  TypeOK'
  <2> DEFINE s == [writer[t].seen EXCEPT ![b] = content[b]]
             r == [writer[t] EXCEPT !.reading = @ \cup {b}, !.seen = s]
  <2>1. content[b] \in SUBSET Writers
    BY TablesFacts DEF TypeOK
  <2>2. s \in [RowTables -> SUBSET Writers]
    BY <2>1, FieldTypes, SeenType
  <2>3. r \in WriterRecord
    <3> HIDE DEF s
    <3> QED
      BY <2>2, FieldTypes DEF WriterRecord
  <2>4. writer' = [writer EXCEPT ![t] = r]
    BY <1>2, Zenon DEF Get
  <2>5. writer' \in [Writers -> WriterRecord]
    <3> HIDE DEF r
    <3> QED
      BY <2>3, <2>4, UpdateType
  <2>6. QED
    BY <1>2, <2>5 DEF Get, TypeOK, histories
<1>3. ASSUME NEW t \in Writers, NEW b \in Tables
      PROVE  Wrote(t, b) \in [Writers -> WriterRecord]
  <2> DEFINE s == [c \in RowTables |-> IF c = b THEN {} ELSE writer[t].seen[c]]
             r == [writer[t] EXCEPT !.todo = @ \ {b}, !.reading = @ \ {b},
                                  !.wrote = @ \cup {b}, !.seen = s]
  <2>1. s \in [RowTables -> SUBSET Writers]
    BY FieldTypes, SeenType
  <2>2. r \in WriterRecord
    <3> HIDE DEF s
    <3> QED
      BY <2>1, FieldTypes DEF WriterRecord
  <2>3. Wrote(t, b) = [writer EXCEPT ![t] = r]
    BY Zenon DEF Wrote
  <2>4. QED
    <3> HIDE DEF r
    <3> QED
      BY <2>2, <2>3, UpdateType
<1>4. ASSUME NEW t \in Writers, NEW b \in RowTables, Put(t, b)
      PROVE  TypeOK'
  <2>1. writer[t].seen[b] \cup {t} \in SUBSET Writers
    BY FieldTypes
  <2>2. content' \in [Tables -> SUBSET Writers]
    BY <1>4, <2>1 DEF Put, TypeOK
  <2>3. QED
    BY <1>3, <1>4, <2>2, TablesFacts DEF Put, TypeOK, histories
<1>5. ASSUME NEW t \in Writers, NEW b \in AddTables, Add(t, b)
      PROVE  TypeOK'
  <2>1. content' \in [Tables -> SUBSET Writers]
    BY <1>5, TablesFacts DEF Add, TypeOK
  <2>2. QED
    BY <1>3, <1>5, <2>1, TablesFacts DEF Add, TypeOK, histories
<1>6. ASSUME NEW t \in Writers, NEW b \in Tables, Skip(t, b)
      PROVE  TypeOK'
  <2> DEFINE s == [c \in RowTables |-> IF c = b THEN {} ELSE writer[t].seen[c]]
             r == [writer[t] EXCEPT !.todo = @ \ {b}, !.reading = @ \ {b},
                                  !.seen = s]
  <2>1. s \in [RowTables -> SUBSET Writers]
    BY FieldTypes, SeenType
  <2>2. r \in WriterRecord
    <3> HIDE DEF s
    <3> QED
      BY <2>1, FieldTypes DEF WriterRecord
  <2>3. writer' = [writer EXCEPT ![t] = r]
    BY <1>6, Zenon DEF Skip
  <2>4. writer' \in [Writers -> WriterRecord]
    <3> HIDE DEF r
    <3> QED
      BY <2>2, <2>3, UpdateType
  <2>5. QED
    BY <1>6, <2>4 DEF Skip, TypeOK, histories
<1>7. ASSUME NEW t \in Writers, End(t)
      PROVE  TypeOK'
  <2>1. PICK r \in {[Unborn EXCEPT !.fate = "ended"],
                    [Unborn EXCEPT !.fate = "delivered",
                                   !.wrote = writer[t].wrote]} :
          writer' = [writer EXCEPT ![t] = r]
    BY <1>7 DEF End
  <2>2. r \in WriterRecord
    <3>1. [Unborn EXCEPT !.fate = "ended"] \in WriterRecord
      BY FieldTypes, UnbornType DEF WriterRecord
    <3>2. [Unborn EXCEPT !.fate = "delivered", !.wrote = writer[t].wrote]
            \in WriterRecord
      BY FieldTypes, UnbornType DEF WriterRecord
    <3>3. QED
      BY <2>1, <3>1, <3>2
  <2>3. writer' \in [Writers -> WriterRecord]
    BY <2>1, <2>2, UpdateType
  <2>4. QED
    BY <1>7, <2>3 DEF End, TypeOK, histories
<1>8. CASE BeginExport
  <2>1. [b \in Tables |-> Owed(b)] \in [Tables -> SUBSET Writers]
    BY DEF Owed, Writers
  <2>2. export' = [export EXCEPT !.next = 1,
                                 !.owed = [b \in Tables |-> Owed(b)]]
    BY <1>8 DEF BeginExport
  <2>3. export' \in [next : 0 .. Len(ExportOrder) + 1, overlapped : BOOLEAN,
                     rows : [Tables -> SUBSET Writers],
                     owed : [Tables -> SUBSET Writers]]
    <3> DEFINE f == [b \in Tables |-> Owed(b)]
    <3>1. 1 \in Nat /\ 1 \in 0..8
      OBVIOUS
    <3>2. f \in [Tables -> SUBSET Writers]
      BY <2>1
    <3>3. export' = [export EXCEPT !.next = 1, !.owed = f]
      BY <2>2
    <3> HIDE DEF f
    <3> QED
      BY <3>1, <3>2, <3>3, ExportType, Zenon
  <2>4. QED
    BY <1>8, <2>3 DEF BeginExport, TypeOK, histories
<1>9. CASE List
  <2> DEFINE b == ExportOrder[export.next]
             rows == [export.rows EXCEPT ![b] = content[b]]
  <2>1. export.next \in 1..7 /\ b \in Tables
    BY <1>9, ExportFacts DEF List
  <2>2. rows \in [Tables -> SUBSET Writers]
    BY <2>1 DEF TypeOK
  <2>3. export' = [export EXCEPT !.next = @ + 1, !.rows = rows]
    BY <1>9, Zenon DEF List
  <2>4. export' \in [next : 0 .. Len(ExportOrder) + 1, overlapped : BOOLEAN,
                     rows : [Tables -> SUBSET Writers],
                     owed : [Tables -> SUBSET Writers]]
    <3>1. export.next + 1 \in Nat /\ export.next + 1 \in 0..8
      BY <2>1
    <3> HIDE DEF rows
    <3> QED
      BY <2>2, <2>3, <3>1, ExportType, Zenon
  <2>5. QED
    BY <1>9, <2>4 DEF List, TypeOK, histories
<1>10. CASE BeginErase
  <2>1. (export.overlapped \/ export.next > 0) \in BOOLEAN
    OBVIOUS
  <2>2. export' \in [next : 0 .. Len(ExportOrder) + 1, overlapped : BOOLEAN,
                     rows : [Tables -> SUBSET Writers],
                     owed : [Tables -> SUBSET Writers]]
    BY <1>10, <2>1, Zenon DEF BeginErase, TypeOK
  <2>3. /\ eraser' \in [next : 0 .. Len(EraseOrder), ended : SUBSET Writers]
        /\ erasures' \in 0..MaxErasures
        /\ crossed' \in SUBSET Writers /\ touched' \in SUBSET Writers
    BY <1>10, EraseFacts, PrivacyConstants DEF BeginErase, TypeOK
  <2>4. QED
    BY <1>10, <2>2, <2>3 DEF BeginErase, TypeOK
<1>11. CASE Delete
  <2>1. content' \in [Tables -> SUBSET Writers]
    BY <1>11 DEF Delete, TypeOK
  <2>2. CASE eraser.next = Len(EraseOrder)
    BY <1>11, <2>1, <2>2, EraseFacts DEF Delete, TypeOK
  <2>3. CASE eraser.next # Len(EraseOrder)
    BY <1>11, <2>1, <2>3, EraseFacts DEF Delete, TypeOK
  <2>4. QED
    BY <2>2, <2>3
<1>12. CASE AbandonErasure
  BY <1>12, EraseFacts DEF AbandonErasure, TypeOK, histories
<1>13. QED
  BY <1>1, <1>2, <1>4, <1>5, <1>6, <1>7, <1>8, <1>9, <1>10, <1>11, <1>12
  DEF Next

-----------------------------------------------------------------------------
\* What each of a writer's steps does to the fates, the writes and the held
\* rows of all writers.
LEMMA BeginEffect ==
  ASSUME TypeOK, NEW t \in Writers, Begin(t)
  PROVE  /\ writer[t].fate = "unborn"
         /\ \A u \in Writers :
              /\ writer'[u].fate = IF u = t THEN "running" ELSE writer[u].fate
              /\ writer'[u].wrote = writer[u].wrote
              /\ writer'[u].seen = writer[u].seen
<1>1. PICK w \in WorksOf(t) :
        writer' = [writer EXCEPT ![t].fate = "running", ![t].todo = w]
  BY DEF Begin
<1>2. QED
  BY <1>1 DEF Begin, TypeOK, WriterRecord

LEMMA GetEffect ==
  ASSUME TypeOK, NEW t \in Writers, NEW b \in RowTables, Get(t, b)
  PROVE  /\ writer[t].fate = "running"
         /\ \A u \in Writers :
              /\ writer'[u].fate = writer[u].fate
              /\ writer'[u].wrote = writer[u].wrote
              /\ \A c \in RowTables :
                   writer'[u].seen[c] = IF u = t /\ c = b
                                      THEN content[b] ELSE writer[u].seen[c]
BY DEF Get, Due, Running, TypeOK, WriterRecord

LEMMA WroteEffect ==
  ASSUME TypeOK, NEW t \in Writers, NEW b \in Tables, Put(t, b) \/ Add(t, b)
  PROVE  /\ writer[t].fate = "running"
         /\ writer'[t].wrote = writer[t].wrote \cup {b}
         /\ \A c \in RowTables :
              writer'[t].seen[c] = {} \/ writer'[t].seen[c] = writer[t].seen[c]
         /\ \A u \in Writers :
              /\ writer'[u].fate = writer[u].fate
              /\ u # t => /\ writer'[u].wrote = writer[u].wrote
                          /\ writer'[u].seen = writer[u].seen
<1> DEFINE s == [c \in RowTables |-> IF c = b THEN {} ELSE writer[t].seen[c]]
           r == [writer[t] EXCEPT !.todo = @ \ {b}, !.reading = @ \ {b},
                                !.wrote = @ \cup {b}, !.seen = s]
<1>1. writer' = [writer EXCEPT ![t] = r]
  BY Zenon DEF Put, Add, Wrote
<1>2. /\ r.fate = writer[t].fate /\ r.seen = s
      /\ r.wrote = writer[t].wrote \cup {b}
  BY FieldTypes DEF WriterRecord
<1>3. \A u \in Writers : writer'[u] = IF u = t THEN r ELSE writer[u]
  <2> HIDE DEF r
  <2> QED
    BY <1>1 DEF TypeOK
<1>4. writer[t].fate = "running"
  BY DEF Put, Add, Due, Running
<1>5. \A c \in RowTables : s[c] = {} \/ s[c] = writer[t].seen[c]
  OBVIOUS
<1>6. QED
  <2> HIDE DEF r, s
  <2> QED
    BY <1>2, <1>3, <1>4, <1>5

LEMMA SkipEffect ==
  ASSUME TypeOK, NEW t \in Writers, NEW b \in Tables, Skip(t, b)
  PROVE  \A u \in Writers :
           /\ writer'[u].fate = writer[u].fate
           /\ writer'[u].wrote = writer[u].wrote
           /\ \A c \in RowTables :
                writer'[u].seen[c] = IF u = t /\ c = b
                                   THEN {} ELSE writer[u].seen[c]
BY DEF Skip, TypeOK, WriterRecord

LEMMA EndEffect ==
  ASSUME TypeOK, NEW t \in Writers, End(t)
  PROVE  /\ writer[t].fate = "running"
         /\ writer'[t].fate \in {"delivered", "ended"}
         /\ \A u \in Writers :
              /\ u # t => writer'[u].fate = writer[u].fate
              /\ writer'[u].wrote \subseteq writer[u].wrote
              /\ \A c \in RowTables :
                   writer'[u].seen[c] = IF u = t THEN {} ELSE writer[u].seen[c]
<1>1. PICK r \in {[Unborn EXCEPT !.fate = "ended"],
                  [Unborn EXCEPT !.fate = "delivered",
                                 !.wrote = writer[t].wrote]} :
        writer' = [writer EXCEPT ![t] = r]
  BY DEF End
<1>2. /\ r.fate \in {"delivered", "ended"}
      /\ r.wrote \subseteq writer[t].wrote
      /\ \A c \in RowTables : r.seen[c] = {}
  BY DEF Unborn
<1>3. \A u \in Writers : writer'[u] = IF u = t THEN r ELSE writer[u]
  BY <1>1 DEF TypeOK
<1>4. writer[t].fate = "running"
  BY DEF End, Running
<1>5. QED
  BY <1>2, <1>3, <1>4

\* The whole invariant is kept by steps that leave the variables alone.
LEMMA StutterOk ==
  ASSUME IInv, UNCHANGED vars
  PROVE  IInv'
<1>1. TypeOK'
  BY DEF vars, IInv, TypeOK
<1>2. WriterInv'
  BY DEF vars, IInv, WriterInv, Running, Ended
<1>3. ReturnInv'
  BY DEF vars, IInv, ReturnInv, Tainted, Deleted
<1>4. ExportInv'
  BY DEF vars, IInv, ExportInv, Shows, Lasting, Listed
<1>5. QED
  BY <1>1, <1>2, <1>3, <1>4 DEF IInv

-----------------------------------------------------------------------------
\* A step keeps WriterInv that keeps it of each writer, beside the same erasure.
LEMMA WriterKept ==
  ASSUME TypeOK, WriterInv, UNCHANGED <<forgotten, eraser>>,
         \A u \in Writers :
           /\ writer'[u].fate = "unborn" => writer'[u].wrote = {}
           /\ writer'[u].fate # "running" =>
                \A b \in RowTables : writer'[u].seen[b] = {}
           /\ writer[u].fate \in {"delivered", "ended"} =>
                writer'[u].fate \in {"delivered", "ended"}
           /\ eraser.next > 0 =>
                /\ writer'[u].fate = "running" => u \in crossed'
                /\ writer'[u].fate # "unborn" => u \in touched'
  PROVE  WriterInv'
<1>1. /\ \A t \in Writers : writer'[t].fate = "unborn" => writer'[t].wrote = {}
      /\ \A t \in Writers, b \in RowTables :
           writer'[t].fate # "running" => writer'[t].seen[b] = {}
  OBVIOUS
<1>2. \A t \in forgotten \cup eraser.ended : Ended(t)'
  BY DEF WriterInv, Ended, TypeOK
<1>3. /\ (forgotten \cup eraser.ended)' = forgotten \cup eraser.ended
      /\ (eraser.next)' = eraser.next
  OBVIOUS
<1>4. /\ (eraser.next > 0 => \A t \in Writers : Running(t) => t \in crossed)'
      /\ (eraser.next > 0 =>
           \A t \in Writers : writer[t].fate # "unborn" => t \in touched)'
  BY <1>3 DEF Running
<1>5. QED
  BY <1>1, <1>2, <1>3, <1>4 DEF WriterInv, Running

LEMMA WriterStep ==
  ASSUME TypeOK, WriterInv, Next
  PROVE  WriterInv'
<1>0. \A u \in Writers :
        /\ writer[u].fate = "unborn" => writer[u].wrote = {}
        /\ writer[u].fate # "running" =>
             \A b \in RowTables : writer[u].seen[b] = {}
        /\ eraser.next > 0 =>
             /\ writer[u].fate = "running" => u \in crossed
             /\ writer[u].fate # "unborn" => u \in touched
  BY DEF WriterInv, Running
<1>1. ASSUME NEW t \in Writers, Begin(t)
      PROVE  WriterInv'
  <2>1. UNCHANGED <<forgotten, eraser>>
    BY <1>1 DEF Begin
  <2>2. /\ crossed \subseteq crossed' /\ touched \subseteq touched'
        /\ eraser.next > 0 => t \in crossed' /\ t \in touched'
    BY <1>1 DEF Begin
  <2>3. QED
    BY <1>0, <1>1, <2>1, <2>2, BeginEffect, WriterKept
<1>2. ASSUME NEW t \in Writers, NEW b \in RowTables, Get(t, b)
      PROVE  WriterInv'
  <2>1. UNCHANGED <<forgotten, eraser, crossed, touched>>
    BY <1>2 DEF Get, histories
  <2>2. QED
    <3>1. \A u \in Writers :
            /\ writer'[u].fate = writer[u].fate
            /\ writer'[u].wrote = writer[u].wrote
            /\ writer[u].fate # "running" =>
                 \A c \in RowTables : writer'[u].seen[c] = writer[u].seen[c]
      BY <1>2, GetEffect
    <3>2. QED
      BY <1>0, <2>1, <3>1, WriterKept
<1>3. ASSUME NEW t \in Writers, NEW b \in Tables, Put(t, b) \/ Add(t, b)
      PROVE  WriterInv'
  <2>1. UNCHANGED <<forgotten, eraser, crossed, touched>>
    BY <1>3 DEF Put, Add, histories
  <2>2. QED
    <3>1. \A u \in Writers :
            /\ writer'[u].fate = writer[u].fate
            /\ writer[u].fate # "running" =>
                 /\ writer'[u].wrote = writer[u].wrote
                 /\ writer'[u].seen = writer[u].seen
      BY <1>3, WroteEffect
    <3>2. QED
      BY <1>0, <2>1, <3>1, WriterKept
<1>4. ASSUME NEW t \in Writers, NEW b \in Tables, Skip(t, b)
      PROVE  WriterInv'
  <2>1. UNCHANGED <<forgotten, eraser, crossed, touched>>
    BY <1>4 DEF Skip, histories
  <2>2. QED
    BY <1>0, <1>4, <2>1, SkipEffect, WriterKept
<1>5. ASSUME NEW t \in Writers, End(t)
      PROVE  WriterInv'
  <2>1. UNCHANGED <<forgotten, eraser, crossed, touched>>
    BY <1>5 DEF End, histories
  <2>2. QED
    BY <1>0, <1>5, <2>1, EndEffect, WriterKept
<1>6. CASE BeginExport \/ List
  BY <1>6 DEF BeginExport, List, histories, WriterInv, Running, Ended
<1>7. CASE BeginErase
  BY <1>7 DEF BeginErase, WriterInv, Running, Ended
<1>8. CASE Delete
  <2>1. eraser.next \in 1..5
    BY <1>8, EraseFacts DEF Delete
  <2>2. CASE eraser.next = Len(EraseOrder)
    BY <1>8, <2>2 DEF Delete, WriterInv, Running, Ended
  <2>3. CASE eraser.next # Len(EraseOrder)
    BY <1>8, <2>1, <2>3 DEF Delete, TypeOK, WriterInv, Running, Ended
  <2>4. QED
    BY <2>2, <2>3
<1>9. CASE AbandonErasure
  BY <1>9 DEF AbandonErasure, histories, WriterInv, Running, Ended
<1>10. ASSUME NEW t \in Writers, NEW b \in RowTables, Put(t, b)
       PROVE  WriterInv'
  BY <1>3, <1>10, TablesFacts
<1>11. ASSUME NEW t \in Writers, NEW b \in AddTables, Add(t, b)
       PROVE  WriterInv'
  BY <1>3, <1>11, TablesFacts
<1>12. QED
  BY <1>1, <1>2, <1>4, <1>5, <1>6, <1>7, <1>8, <1>9, <1>10, <1>11 DEF Next

-----------------------------------------------------------------------------
\* A step keeps ReturnInv that writes no table, forgets nobody, reads no row
\* and starts at most an erasure that has deleted nothing.
LEMMA QuietReturn ==
  ASSUME TypeOK, ReturnInv, UNCHANGED <<content, forgotten>>,
         crossed \subseteq crossed',
         UNCHANGED eraser \/ eraser'.next \in {0, 1},
         \A u \in Writers, c \in RowTables :
           writer'[u].seen[c] = {} \/ writer'[u].seen[c] = writer[u].seen[c]
  PROVE  ReturnInv'
<1>1. \A b \in Erasable : Tainted(b, content[b], forgotten)'
  BY DEF ReturnInv, Tainted
<1>2. \A t \in Writers, b \in RowTables :
        writer'[t].seen[b] \cap forgotten' # {} =>
          t \in crossed' \/ writer'[t].seen[b] \cap crossed' # {}
  BY DEF ReturnInv
<1>3. ASSUME NEW b \in Erasable, Deleted(b)'
      PROVE  Tainted(b, content[b], eraser.ended)'
  <2>1. CASE UNCHANGED eraser
    <3>1. Deleted(b)
      BY <1>3, <2>1 DEF Deleted
    <3>2. QED
      BY <2>1, <3>1 DEF ReturnInv, Tainted
  <2>2. CASE eraser'.next \in {0, 1}
    BY <1>3, <2>2 DEF Deleted
  <2>3. QED
    BY <2>1, <2>2
<1>4. QED
  BY <1>1, <1>2, <1>3 DEF ReturnInv

LEMMA PutReturn ==
  ASSUME TypeOK, WriterInv, ReturnInv,
         NEW t \in Writers, NEW b \in RowTables, Put(t, b)
  PROVE  ReturnInv'
<1>1. /\ UNCHANGED <<eraser, forgotten, crossed>>
      /\ content' = [content EXCEPT ![b] = writer[t].seen[b] \cup {t}]
  BY DEF Put, histories
<1>2. /\ \A c \in Tables \ {b} : content'[c] = content[c]
      /\ content'[b] = writer[t].seen[b] \cup {t}
      /\ b \in Tables /\ b \in Erasable /\ Erasable \subseteq Tables
  BY <1>1, TablesFacts DEF TypeOK
<1>3. /\ t \notin forgotten /\ t \notin eraser.ended
      /\ eraser.next > 0 => t \in crossed
  BY TablesFacts, WroteEffect DEF WriterInv, Running, Ended
<1>4. writer[t].seen[b] \cap forgotten # {} =>
        t \in crossed \/ writer[t].seen[b] \cap crossed # {}
  BY DEF ReturnInv
<1>5. Tainted(b, content[b], forgotten)'
  BY <1>1, <1>2, <1>3, <1>4 DEF Tainted
<1>6. \A c \in Erasable \ {b} : Tainted(c, content[c], forgotten)'
  BY <1>1, <1>2 DEF ReturnInv, Tainted
<1>7. \A c \in Erasable :
        Deleted(c)' => Tainted(c, content[c], eraser.ended)'
  <2>1. \A c \in Erasable : Deleted(c)' <=> Deleted(c)
    BY <1>1 DEF Deleted
  <2>2. \A c \in Erasable \ {b} :
          Deleted(c)' => Tainted(c, content[c], eraser.ended)'
    BY <1>1, <1>2, <2>1 DEF ReturnInv, Tainted
  <2>3. Deleted(b) => eraser.next > 0
    BY DEF Deleted, TypeOK
  <2>4. Deleted(b)' => Tainted(b, content[b], eraser.ended)'
    BY <1>1, <1>2, <1>3, <2>1, <2>3 DEF Tainted
  <2>5. QED
    BY <2>2, <2>4
<1>8. \A u \in Writers, c \in RowTables :
        writer'[u].seen[c] \cap forgotten' # {} =>
          u \in crossed' \/ writer'[u].seen[c] \cap crossed' # {}
  <2>1. \A u \in Writers, c \in RowTables :
          writer'[u].seen[c] = {} \/ writer'[u].seen[c] = writer[u].seen[c]
    BY TablesFacts, WroteEffect
  <2>2. QED
    BY <1>1, <2>1 DEF ReturnInv
<1>9. QED
  BY <1>5, <1>6, <1>7, <1>8 DEF ReturnInv

LEMMA AddReturn ==
  ASSUME TypeOK, WriterInv, ReturnInv,
         NEW t \in Writers, NEW b \in AddTables, Add(t, b)
  PROVE  ReturnInv'
<1>1. /\ UNCHANGED <<eraser, forgotten, crossed>>
      /\ content' = [content EXCEPT ![b] = @ \cup {t}]
  BY DEF Add, histories
<1>2. /\ \A c \in Tables \ {b} : content'[c] = content[c]
      /\ content'[b] = content[b] \cup {t}
      /\ b \in Tables /\ b \notin RowTables /\ Erasable \subseteq Tables
  BY <1>1, TablesFacts DEF TypeOK
<1>3. t \notin forgotten /\ t \notin eraser.ended
  BY TablesFacts, WroteEffect DEF WriterInv, Ended
<1>4. \A c \in Erasable : Tainted(c, content[c], forgotten)'
  BY <1>1, <1>2, <1>3 DEF ReturnInv, Tainted
<1>5. \A c \in Erasable :
        Deleted(c)' => Tainted(c, content[c], eraser.ended)'
  <2>1. \A c \in Erasable : Deleted(c)' <=> Deleted(c)
    BY <1>1 DEF Deleted
  <2>2. QED
    BY <1>1, <1>2, <1>3, <2>1 DEF ReturnInv, Tainted
<1>6. \A u \in Writers, c \in RowTables :
        writer'[u].seen[c] \cap forgotten' # {} =>
          u \in crossed' \/ writer'[u].seen[c] \cap crossed' # {}
  <2>1. \A u \in Writers, c \in RowTables :
          writer'[u].seen[c] = {} \/ writer'[u].seen[c] = writer[u].seen[c]
    BY TablesFacts, WroteEffect
  <2>2. QED
    BY <1>1, <2>1 DEF ReturnInv
<1>7. QED
  BY <1>4, <1>5, <1>6 DEF ReturnInv

LEMMA DeleteReturn ==
  ASSUME TypeOK, WriterInv, ReturnInv, Delete
  PROVE  ReturnInv'
<1> DEFINE k == eraser.next
<1>1. /\ k \in 1..5 /\ UNCHANGED <<writer, crossed>>
      /\ Erasable \subseteq Tables
  BY EraseFacts, TablesFacts DEF Delete
<1>2. \A b \in Tables :
        content'[b] = IF b \in EraseOrder[k] THEN {} ELSE content[b]
  BY DEF Delete
<1>3. \A b \in Erasable : b \notin EraseOrder[k] => content'[b] = content[b]
  BY <1>1, <1>2
<1>4. \A b \in Erasable : b \in EraseOrder[k] => content'[b] = {}
  BY <1>1, <1>2
<1>5. CASE k = 5
  <2>1. forgotten' = forgotten \cup eraser.ended /\ eraser'.next = 0
    BY <1>5, EraseFacts DEF Delete
  <2>2. ASSUME NEW b \in Erasable
        PROVE  Tainted(b, content[b], forgotten)'
    <3>1. CASE b \in EraseOrder[k]
      BY <1>4, <3>1 DEF Tainted
    <3>2. CASE b \notin EraseOrder[k]
      <4>1. PICK j \in 1..5 : b \in EraseOrder[j]
        BY EraseFacts
      <4>2. j \in 1 .. k - 1
        BY <1>5, <3>2, <4>1
      <4>3. Tainted(b, content[b], eraser.ended)
        BY <4>1, <4>2 DEF ReturnInv, Deleted
      <4>4. Tainted(b, content[b], forgotten)
        BY DEF ReturnInv
      <4>5. QED
        BY <1>1, <1>3, <2>1, <3>2, <4>3, <4>4 DEF Tainted
    <3>3. QED
      BY <3>1, <3>2
  <2>3. ASSUME NEW t \in Writers, NEW b \in RowTables,
               writer[t].seen[b] \cap forgotten' # {}
        PROVE  t \in crossed \/ writer[t].seen[b] \cap crossed # {}
    <3>1. CASE Running(t)
      BY <1>1, <3>1 DEF WriterInv
    <3>2. CASE ~Running(t)
      BY <2>3, <3>2 DEF WriterInv
    <3>3. QED
      BY <3>1, <3>2
  <2>4. \A b \in Erasable : ~Deleted(b)'
    BY <2>1 DEF Deleted
  <2>5. QED
    BY <1>1, <2>2, <2>3, <2>4 DEF ReturnInv
<1>6. CASE k # 5
  <2>1. /\ UNCHANGED forgotten
        /\ eraser' = [eraser EXCEPT !.next = @ + 1]
    BY <1>6, EraseFacts DEF Delete
  <2>2. eraser'.next = k + 1 /\ eraser'.ended = eraser.ended
    BY <2>1 DEF TypeOK
  <2>3. \A b \in Erasable : Tainted(b, content[b], forgotten)'
    BY <1>1, <1>3, <1>4, <2>1 DEF ReturnInv, Tainted
  <2>4. ASSUME NEW b \in Erasable, Deleted(b)'
        PROVE  Tainted(b, content[b], eraser.ended)'
    <3>1. CASE b \in EraseOrder[k]
      BY <1>4, <3>1 DEF Tainted
    <3>2. CASE b \notin EraseOrder[k]
      <4>1. PICK j \in 1..k : b \in EraseOrder[j]
        BY <1>1, <2>2, <2>4 DEF Deleted
      <4>2. j \in 1 .. k - 1
        BY <1>1, <3>2, <4>1
      <4>3. Tainted(b, content[b], eraser.ended)
        BY <4>1, <4>2 DEF ReturnInv, Deleted
      <4>4. QED
        BY <1>1, <1>3, <2>2, <3>2, <4>3 DEF Tainted
    <3>3. QED
      BY <3>1, <3>2
  <2>5. QED
    BY <1>1, <2>1, <2>3, <2>4 DEF ReturnInv
<1>7. QED
  BY <1>5, <1>6

LEMMA ReturnStep ==
  ASSUME TypeOK, WriterInv, ReturnInv, Next
  PROVE  ReturnInv'
<1>1. ASSUME NEW t \in Writers, Begin(t)
      PROVE  ReturnInv'
  <2>1. /\ UNCHANGED <<content, forgotten, eraser>>
        /\ crossed \subseteq crossed'
    BY <1>1 DEF Begin
  <2>2. QED
    BY <1>1, <2>1, BeginEffect, QuietReturn
<1>2. ASSUME NEW t \in Writers, NEW b \in RowTables, Get(t, b)
      PROVE  ReturnInv'
  <2>1. UNCHANGED <<content, eraser, forgotten, crossed>>
    BY <1>2 DEF Get, histories
  <2>2. /\ writer'[t].seen[b] = content[b]
        /\ \A u \in Writers, c \in RowTables :
             u # t \/ c # b => writer'[u].seen[c] = writer[u].seen[c]
    BY <1>2, GetEffect
  <2>3. content[b] \cap forgotten # {} => content[b] \cap crossed # {}
    BY TablesFacts DEF ReturnInv, Tainted
  <2>4. \A u \in Writers, c \in RowTables :
          writer'[u].seen[c] \cap forgotten' # {} =>
            u \in crossed' \/ writer'[u].seen[c] \cap crossed' # {}
    BY <2>1, <2>2, <2>3 DEF ReturnInv
  <2>5. QED
    BY <2>1, <2>4 DEF ReturnInv, Tainted, Deleted
<1>3. ASSUME NEW t \in Writers, NEW b \in RowTables, Put(t, b)
      PROVE  ReturnInv'
  BY <1>3, PutReturn
<1>4. ASSUME NEW t \in Writers, NEW b \in AddTables, Add(t, b)
      PROVE  ReturnInv'
  BY <1>4, AddReturn
<1>5. ASSUME NEW t \in Writers, NEW b \in Tables, Skip(t, b)
      PROVE  ReturnInv'
  <2>1. UNCHANGED <<content, forgotten, eraser, crossed>>
    BY <1>5 DEF Skip, histories
  <2>2. QED
    BY <1>5, <2>1, SkipEffect, QuietReturn
<1>6. ASSUME NEW t \in Writers, End(t)
      PROVE  ReturnInv'
  <2>1. UNCHANGED <<content, forgotten, eraser, crossed>>
    BY <1>6 DEF End, histories
  <2>2. QED
    BY <1>6, <2>1, EndEffect, QuietReturn
<1>7. CASE BeginExport \/ List
  BY <1>7, QuietReturn DEF BeginExport, List, histories
<1>8. CASE BeginErase
  BY <1>8, QuietReturn DEF BeginErase
<1>9. CASE AbandonErasure
  BY <1>9, QuietReturn DEF AbandonErasure, histories
<1>10. QED
  BY <1>1, <1>2, <1>3, <1>4, <1>5, <1>6, <1>7, <1>8, <1>9, DeleteReturn DEF Next

-----------------------------------------------------------------------------
\* A step keeps ExportInv that writes no table, leaves the export alone and at
\* most ends the erasure.
LEMMA QuietExport ==
  ASSUME TypeOK, ExportInv, UNCHANGED <<content, export>>,
         UNCHANGED eraser \/ eraser'.next = 0,
         touched \subseteq touched',
         \A u \in Writers : writer'[u].wrote \subseteq writer[u].wrote
  PROVE  ExportInv'
<1>1. \A b \in Tables : Lasting(b)' \subseteq Lasting(b)
  BY DEF Lasting
<1>2. \A b \in Tables : Shows(b, Lasting(b), content[b])'
  BY <1>1 DEF ExportInv, Shows
<1>3. (eraser.next > 0)' => eraser.next > 0
  OBVIOUS
<1>4. \A b \in Tables : Listed(b)' <=> Listed(b)
  BY DEF Listed
<1>5. QED
  BY <1>2, <1>3, <1>4 DEF ExportInv, Shows

\* What a turn or the job writes it adds to what lasts, and to the table.
LEMMA WriteExport ==
  ASSUME TypeOK, ExportInv, NEW t \in Writers, NEW b \in Tables,
         (Put(t, b) /\ b \in RowTables) \/ (Add(t, b) /\ b \in AddTables)
  PROVE  ExportInv'
<1>1. UNCHANGED <<export, eraser, touched>>
  BY DEF Put, Add, histories
<1>2. /\ \A c \in Tables \ {b} : content'[c] = content[c]
      /\ t \in content'[b]
      /\ b \in AddTables => content[b] \subseteq content'[b]
  BY TablesFacts DEF Put, Add, TypeOK
<1>3. \A u \in Writers : u # t => writer'[u].wrote = writer[u].wrote
  BY WroteEffect
<1>4. writer'[t].wrote = writer[t].wrote \cup {b}
  BY WroteEffect
<1>5. /\ \A c \in Tables \ {b} : Lasting(c)' \subseteq Lasting(c)
      /\ Lasting(b)' \subseteq Lasting(b) \cup {t}
  BY <1>1, <1>3, <1>4 DEF Lasting
<1>6. \A c \in Tables : Shows(c, Lasting(c), content[c])'
  BY <1>2, <1>5 DEF ExportInv, Shows
<1>7. \A c \in Tables : Listed(c)' <=> Listed(c)
  BY <1>1 DEF Listed
<1>8. \A c \in Tables, o \in SUBSET Writers :
        Shows(c, o, content[c]) => Shows(c, o, content'[c])
  BY <1>2 DEF Shows
<1>9. ASSUME NEW c \in Tables, c \in Erasable => ~export.overlapped
      PROVE  /\ Listed(c) => Shows(c, export.owed[c], export.rows[c])
             /\ ~Listed(c) => Shows(c, export.owed[c], content'[c])
  <2>1. export.owed[c] \in SUBSET Writers
    BY DEF TypeOK
  <2>2. QED
    BY <1>8, <1>9, <2>1 DEF ExportInv
<1>10. /\ export.next = 0 => \A c \in Tables : export.owed[c] = {}
       /\ eraser.next > 0 /\ ~export.overlapped =>
            \A c \in Erasable : export.owed[c] = {}
  BY DEF ExportInv
<1>11. QED
  BY <1>1, <1>6, <1>7, <1>9, <1>10 DEF ExportInv, Shows

\* Beside an erasure nothing lasts of what it deletes.
LEMMA NothingLasts ==
  ASSUME TypeOK, WriterInv, eraser.next > 0, NEW b \in Erasable
  PROVE  Lasting(b) = {}
BY DEF WriterInv, Lasting

LEMMA OwedLasts ==
  ASSUME NEW b
  PROVE  Owed(b) \subseteq Lasting(b)
BY DEF Owed, Lasting, Writers

\* One case per action; a listed table no longer depends on what is in it.
LEMMA ExportStep ==
  ASSUME TypeOK, WriterInv, ExportInv, Next
  PROVE  ExportInv'
<1>1. ASSUME NEW t \in Writers, Begin(t)
      PROVE  ExportInv'
  <2>1. UNCHANGED <<content, export, eraser>> /\ touched \subseteq touched'
    BY <1>1 DEF Begin
  <2>2. QED
    BY <1>1, <2>1, BeginEffect, QuietExport
<1>2. ASSUME NEW t \in Writers, NEW b \in RowTables, Get(t, b)
      PROVE  ExportInv'
  <2>1. UNCHANGED <<content, export, eraser, touched>>
    BY <1>2 DEF Get, histories
  <2>2. QED
    BY <1>2, <2>1, GetEffect, QuietExport
<1>3. ASSUME NEW t \in Writers, NEW b \in RowTables, Put(t, b)
      PROVE  ExportInv'
  <2>1. b \in Tables
    BY TablesFacts
  <2>2. (Put(t, b) /\ b \in RowTables) \/ (Add(t, b) /\ b \in AddTables)
    BY <1>3
  <2>3. QED
    BY <2>1, <2>2, WriteExport, Zenon
<1>4. ASSUME NEW t \in Writers, NEW b \in AddTables, Add(t, b)
      PROVE  ExportInv'
  BY <1>4, TablesFacts, WriteExport
<1>5. ASSUME NEW t \in Writers, NEW b \in Tables, Skip(t, b)
      PROVE  ExportInv'
  <2>1. UNCHANGED <<content, export, eraser, touched>>
    BY <1>5 DEF Skip, histories
  <2>2. QED
    BY <1>5, <2>1, SkipEffect, QuietExport
<1>6. ASSUME NEW t \in Writers, End(t)
      PROVE  ExportInv'
  <2>1. UNCHANGED <<content, export, eraser, touched>>
    BY <1>6 DEF End, histories
  <2>2. QED
    BY <1>6, <2>1, EndEffect, QuietExport
<1>7. CASE BeginExport
  <2>1. /\ UNCHANGED <<content, writer, eraser, touched>>
        /\ export.next = 0
        /\ export' = [export EXCEPT !.next = 1,
                                    !.owed = [b \in Tables |-> Owed(b)]]
    BY <1>7 DEF BeginExport, histories
  <2>2. /\ export'.next = 1 /\ export'.overlapped = export.overlapped
        /\ \A b \in Tables : export'.owed[b] = Owed(b)
    BY <2>1 DEF TypeOK
  <2>3. \A b \in Tables : Lasting(b)' = Lasting(b)
    BY <2>1 DEF Lasting
  <2>4. \A b \in Tables : ~Listed(b)'
    BY <2>2 DEF Listed
  <2>5. \A b \in Tables : Shows(b, export'.owed[b], content[b])
    BY <2>2, OwedLasts DEF ExportInv, Shows
  <2>6. eraser.next > 0 => \A b \in Erasable : export'.owed[b] = {}
    BY <2>2, NothingLasts, OwedLasts, TablesFacts
  <2>7. QED
    BY <2>1, <2>2, <2>3, <2>4, <2>5, <2>6 DEF ExportInv, Shows
<1>8. CASE List
  <2> DEFINE n == export.next
             a == ExportOrder[n]
  <2>1. /\ UNCHANGED <<content, writer, eraser, touched>>
        /\ n \in 1..7 /\ a \in Tables
        /\ export' = [export EXCEPT !.next = @ + 1, !.rows[a] = content[a]]
    BY <1>8, ExportFacts DEF List, histories
  <2>2. /\ export'.next = n + 1 /\ export'.overlapped = export.overlapped
        /\ export'.owed = export.owed /\ export'.rows[a] = content[a]
        /\ \A b \in Tables : b # a => export'.rows[b] = export.rows[b]
    BY <2>1 DEF TypeOK
  <2>3. \A b \in Tables : Lasting(b)' = Lasting(b)
    BY <2>1 DEF Lasting
  <2>4. \A b \in Tables : Listed(b)' <=> Listed(b) \/ b = a
    BY <2>1, <2>2 DEF Listed
  <2>5. \A b \in Tables : (b \in Erasable => ~export.overlapped) =>
          /\ Listed(b) /\ b # a => Shows(b, export.owed[b], export'.rows[b])
          /\ ~Listed(b) => Shows(b, export.owed[b], content[b])
    BY <2>2 DEF ExportInv
  <2>6. (a \in Erasable => ~export.overlapped) =>
          Shows(a, export.owed[a], export'.rows[a])
    <3>1. ~Listed(a)
      BY <2>1, ExportFacts DEF Listed
    <3>2. QED
      BY <2>1, <2>2, <2>5, <3>1
  <2>7. QED
    BY <2>1, <2>2, <2>3, <2>4, <2>5, <2>6 DEF ExportInv, Shows
<1>9. CASE BeginErase
  <2>1. /\ UNCHANGED <<content, writer>> /\ touched \subseteq touched'
        /\ export' = [export EXCEPT !.overlapped = @ \/ export.next > 0]
    BY <1>9 DEF BeginErase
  <2>2. /\ export'.next = export.next /\ export'.rows = export.rows
        /\ export'.owed = export.owed
        /\ export'.overlapped <=> export.overlapped \/ export.next > 0
    BY <2>1 DEF TypeOK
  <2>3. \A b \in Tables : Lasting(b)' \subseteq Lasting(b)
    BY <2>1 DEF Lasting
  <2>4. \A b \in Tables : Listed(b)' <=> Listed(b)
    BY <2>2 DEF Listed
  <2>5. ~export'.overlapped => export.next = 0
    BY <2>2 DEF TypeOK
  <2>6. QED
    BY <2>1, <2>2, <2>3, <2>4, <2>5, TablesFacts DEF ExportInv, Shows
<1>10. CASE Delete
  <2>1. /\ UNCHANGED <<writer, export, touched>>
        /\ eraser.next \in 1..5 /\ EraseOrder[eraser.next] \subseteq Erasable
        /\ \A b \in Tables :
             b \notin EraseOrder[eraser.next] => content'[b] = content[b]
    BY <1>10, EraseFacts DEF Delete
  <2>2. \A b \in Tables : Lasting(b)' = Lasting(b) /\ (Listed(b)' <=> Listed(b))
    BY <2>1 DEF Lasting, Listed
  <2>3. \A b \in Erasable : Lasting(b) = {}
    BY <2>1, NothingLasts
  <2>4. \A b \in Tables : b \notin Erasable => content'[b] = content[b]
    BY <2>1
  <2>5. ~export.overlapped => \A b \in Erasable : export.owed[b] = {}
    BY <2>1 DEF ExportInv
  <2>6. QED
    BY <2>1, <2>2, <2>3, <2>4, <2>5 DEF ExportInv, Shows
<1>11. CASE AbandonErasure
  <2>1. /\ UNCHANGED <<content, writer, export, touched>>
        /\ eraser'.next = 0
    BY <1>11 DEF AbandonErasure, histories
  <2>2. QED
    BY <2>1, QuietExport
<1>12. QED
  BY <1>1, <1>2, <1>3, <1>4, <1>5, <1>6, <1>7, <1>8, <1>9, <1>10, <1>11 DEF Next

-----------------------------------------------------------------------------
\* The four parts together are kept by every step.
LEMMA Inductive == Spec => []IInv
<1>1. IInv /\ [Next]_vars => IInv'
  <2> SUFFICES ASSUME IInv, [Next]_vars PROVE IInv'
    OBVIOUS
  <2>1. CASE Next
    BY <2>1, StepType, WriterStep, ReturnStep, ExportStep DEF IInv
  <2>2. CASE UNCHANGED vars
    BY <2>2, StutterOk
  <2>3. QED
    BY <2>1, <2>2
<1>2. QED
  BY <1>1, InitOk, PTL DEF Spec

\* Tables, turns, the export and the erasure keep their types
\* (privacy/gdpr.py and the stores it calls).
THEOREM TypeCorrect == Spec => []TypeOK
<1>1. IInv => TypeOK
  BY DEF IInv
<1>2. QED
  BY <1>1, Inductive, PTL

\* What was erased shows again only through a row that a turn or a
\* consolidation overlapping an erasure saved, and never in a table of records
\* (erase_student_data beside the saves of handle_turn and consolidation.py).
THEOREM ErasedReturns == Spec => []ErasedReturnsOnlyByOverlap
<1>1. IInv => ErasedReturnsOnlyByOverlap
  BY DEF IInv, ReturnInv, Tainted, ErasedReturnsOnlyByOverlap
<1>2. QED
  BY <1>1, Inductive, PTL

\* An export lacks nothing that was there for good when it was asked for
\* (export_student_data's listings beside turns and erasures).
THEOREM ExportComplete == Spec => []ExportShowsDelivered
<1>1. IInv => ExportShowsDelivered
  <2> SUFFICES ASSUME IInv, export.next = Len(ExportOrder) + 1,
                      NEW b \in Tables,
                      b \in Erasable => ~export.overlapped
               PROVE  Shows(b, export.owed[b], export.rows[b])
    BY DEF ExportShowsDelivered, Shows
  <2>1. Listed(b)
    BY ExportFacts DEF Listed
  <2>2. QED
    BY <2>1 DEF IInv, ExportInv
<1>2. QED
  BY <1>1, Inductive, PTL
=============================================================================
