----------------------- MODULE LearnerRecordsProofs -----------------------
(***************************************************************************)
(* The invariants of LearnerRecords for any number of turns, topics and    *)
(* misconceptions, stages that raise, turns that die, consolidations and   *)
(* erasures.  The mastery rows, the review states and the registry are     *)
(* argued about at once: each is a table of rows with a total and a part   *)
(* of it, written by one stage of run_plan.                                *)
(***************************************************************************)
EXTENDS LearnerRecords, FiniteSetTheorems, TLAPS

-----------------------------------------------------------------------------
\* The three tables of read-modify-write rows, named by the stage that
\* writes them: their keys, rows, and the copies that turns and the job hold.
RowStage == {"mastery_write", "review_record", "diagnosis"}

Keys(s) == IF s = "diagnosis" THEN Misconceptions ELSE Topics

RowType(s) ==
  IF s = "mastery_write" THEN SubtopicMastery
  ELSE IF s = "review_record" THEN ReviewState ELSE RegistryEntry

Row(s, k) ==
  IF s = "mastery_write" THEN mastery[k]
  ELSE IF s = "review_record" THEN review[k] ELSE registry[k]

Key(t, s) ==
  IF s = "diagnosis" THEN turn[t].grade.diagnosis ELSE turn[t].grade.topic

Held(t, s) ==
  IF s = "mastery_write" THEN turn[t].mastery
  ELSE IF s = "review_record" THEN turn[t].review ELSE turn[t].entry

JobHolds(s) ==
  IF s = "mastery_write" THEN job.rows
  ELSE IF s = "review_record" THEN {} ELSE job.entries

Reads(t, s) == Grading(t) /\ turn[t].stage[s] = "read"

\* What a row counts, and the part of it that it counts apart: the correct
\* answers of mastery, the lapses of a review state.
Total(s, row) ==
  IF s = "mastery_write" THEN row.attempts
  ELSE IF s = "review_record" THEN row.reps ELSE row.occurrences

Part(s, row) ==
  IF s = "mastery_write" THEN row.correct
  ELSE IF s = "review_record" THEN row.lapses ELSE 0

Apart(s) ==
  IF s = "mastery_write" THEN Correct
  ELSE IF s = "review_record" THEN Turns \ Correct ELSE {}

After(s, row, correct) ==
  IF s = "mastery_write" THEN AfterMastery(row, correct)
  ELSE IF s = "review_record" THEN AfterReview(row, correct)
  ELSE AfterDiagnosis(row)

SameRow(s, row, other) ==
  /\ row = NoRow <=> other = NoRow
  /\ row # NoRow => /\ Total(s, row) = Total(s, other)
                    /\ Part(s, row) = Part(s, other)

-----------------------------------------------------------------------------
(***************************************************************************)
(* The inductive invariant.  Placed: what the stages of a turn can have    *)
(* come to.                                                                *)
(***************************************************************************)
StagesPlaced(r) ==
  /\ r.pc = "unborn" => r.stage = [s \in StageName |-> "absent"]
  /\ r.pc # "unborn" =>
       \A s \in StageName : r.stage[s] # "absent" <=> s \in StagesOf(r.grade)
  /\ r.stage["mastery_write"] \in {"read", "wrote"} =>
       TrustedForMastery(r.grade)
  /\ r.stage["diagnosis"] \in {"read", "wrote"} =>
       r.grade.diagnosis # NoMisconception
  /\ r.stage["review_record"] # "skipped"
  /\ \A s \in {"review_queue_write", "response_log_write"} :
       r.stage[s] \notin {"read", "skipped"}
  /\ r.pc = "delivered" =>
       \A s \in StageName : r.stage[s] \notin {"waiting", "read"}

Placed == \A t \in Turns : StagesPlaced(turn[t])

\* Only a write that was made can be erased; the idle job holds nothing.
Tidy ==
  /\ \A w \in gone : /\ w \in Turns \X StageName
                     /\ turn[w[1]].stage[w[2]] = "wrote"
  /\ job.pc = "idle" => job.entries = {} /\ job.rows = {}

\* Nobody overlaps as long as alone says so.
Alone ==
  alone => /\ \A t \in Turns : Grading(t) => NobodyElse(t)
           /\ JobRuns => NobodyElseJob

(***************************************************************************)
(* Earned: a row, stored or held, counts writes that were made, each once. *)
(***************************************************************************)
By(s, k) == {t \in Wrote(s) : Key(t, s) = k}

Bounded(n, m, by, part) ==
  /\ n \in 1 .. Cardinality(by)
  /\ m <= Cardinality(part)
  /\ n - m <= Cardinality(by \ part)

RowEarned(s, k, row) ==
  row # NoRow =>
    Bounded(Total(s, row), Part(s, row), By(s, k), By(s, k) \cap Apart(s))

EarnedIn(s) ==
  /\ \A k \in Keys(s) : RowEarned(s, k, Row(s, k))
  /\ \A t \in Turns : Reads(t, s) => RowEarned(s, Key(t, s), Held(t, s))
  /\ \A e \in JobHolds(s) : RowEarned(s, e[1], e[2])

Earned == \A s \in RowStage : EarnedIn(s)

(***************************************************************************)
(* Exact: without overlap a row is what the kept writes add up to, and     *)
(* what is held of it is what is stored.                                   *)
(***************************************************************************)
KeptBy(s, k) == {t \in Kept(s) : Key(t, s) = k}

RowExact(s, k, row) ==
  IF KeptBy(s, k) = {} THEN row = NoRow
  ELSE /\ row # NoRow
       /\ Total(s, row) = Cardinality(KeptBy(s, k))
       /\ Part(s, row) = Cardinality(KeptBy(s, k) \cap Apart(s))

ExactIn(s) ==
  /\ \A k \in Keys(s) : RowExact(s, k, Row(s, k))
  /\ \A t \in Turns :
       Reads(t, s) => SameRow(s, Held(t, s), Row(s, Key(t, s)))
  /\ \A e \in JobHolds(s) : SameRow(s, e[2], Row(s, e[1]))

Exact == alone => \A s \in RowStage : ExactIn(s)

(***************************************************************************)
(* Fresh: the first diagnosis of a misconception is retired only after it  *)
(* has faded, and the job holds faded entries only.                        *)
(***************************************************************************)
FirstKept(row) ==
  row # NoRow /\ row.occurrences = 1 /\ ~row.faded => ~row.remediated

Fresh ==
  /\ \A m \in Misconceptions : FirstKept(registry[m])
  /\ \A e \in job.entries : e[2].faded

Appended ==
  /\ queue = Kept("review_queue_write")
  /\ responses = Kept("response_log_write")

IInv ==
  TypeOK /\ Placed /\ Tidy /\ Alone /\ Earned /\ Exact /\ Fresh /\ Appended

-----------------------------------------------------------------------------
\* Counting: a set of writes that grows, and one that gains a turn.
LEMMA BoundedGrows ==
  ASSUME NEW by, NEW part, NEW n \in Nat, NEW m \in Nat,
         NEW others, NEW partly, IsFiniteSet(others),
         part \subseteq by, partly \subseteq others,
         part \subseteq partly, by \ part \subseteq others \ partly,
         Bounded(n, m, by, part)
  PROVE  Bounded(n, m, others, partly)
<1>1. /\ by \subseteq others
      /\ IsFiniteSet(partly) /\ IsFiniteSet(others \ partly)
  BY FS_Subset
<1>2. /\ Cardinality(by) \in Nat /\ Cardinality(others) \in Nat
      /\ Cardinality(by) <= Cardinality(others)
  BY <1>1, FS_Subset, FS_CardinalityType
<1>3. /\ Cardinality(part) \in Nat /\ Cardinality(partly) \in Nat
      /\ Cardinality(part) <= Cardinality(partly)
  BY <1>1, FS_Subset, FS_CardinalityType
<1>4. /\ Cardinality(by \ part) \in Nat
      /\ Cardinality(others \ partly) \in Nat
      /\ Cardinality(by \ part) <= Cardinality(others \ partly)
  BY <1>1, FS_Subset, FS_CardinalityType
<1>5. QED
  BY <1>2, <1>3, <1>4 DEF Bounded

LEMMA CountsOneMore ==
  ASSUME NEW by, IsFiniteSet(by), NEW t, t \notin by,
         NEW part, part \subseteq by
  PROVE  /\ Cardinality(by) \in Nat /\ Cardinality(part) \in Nat
         /\ Cardinality(by \ part) \in Nat
         /\ Cardinality(by \cup {t}) = Cardinality(by) + 1
         /\ Cardinality(part \cup {t}) = Cardinality(part) + 1
         /\ Cardinality((by \cup {t}) \ part) = Cardinality(by \ part) + 1
         /\ Cardinality((by \cup {t}) \ (part \cup {t}))
              = Cardinality(by \ part)
<1>1. IsFiniteSet(part) /\ IsFiniteSet(by \ part)
  BY FS_Subset
<1>2. /\ (by \cup {t}) \ part = (by \ part) \cup {t}
      /\ (by \cup {t}) \ (part \cup {t}) = by \ part
      /\ t \notin part /\ t \notin by \ part
  OBVIOUS
<1>3. Cardinality(by \cup {t}) = Cardinality(by) + 1
  BY FS_AddElement
<1>4. Cardinality(part \cup {t}) = Cardinality(part) + 1
  BY <1>1, <1>2, FS_AddElement
<1>5. Cardinality((by \ part) \cup {t}) = Cardinality(by \ part) + 1
  BY <1>1, <1>2, FS_AddElement
<1>6. QED
  BY <1>1, <1>2, <1>3, <1>4, <1>5, FS_CardinalityType

-----------------------------------------------------------------------------
\* The rows of a table and what turns and the job hold of them are typed.
LEMMA RowsTyped ==
  ASSUME TypeOK, Placed, NEW s \in RowStage
  PROVE  /\ NoRow \notin RowType(s)
         /\ \A k \in Keys(s) : Row(s, k) \in RowType(s) \cup {NoRow}
         /\ \A t \in Turns : Held(t, s) \in RowType(s) \cup {NoRow}
         /\ \A e \in JobHolds(s) : e[1] \in Keys(s) /\ e[2] \in RowType(s)
         /\ \A t \in Turns : turn[t].stage[s] \in {"read", "wrote"} =>
              Key(t, s) \in Keys(s)
<1>1. turn \in [Turns -> TurnRecord]
  BY DEF TypeOK
<1>2. CASE s = "mastery_write"
  <2>1. \A t \in Turns : turn[t].stage[s] \in {"read", "wrote"} =>
          turn[t].grade.topic \in Topics
    BY <1>1, <1>2, RecordConstants
       DEF Placed, StagesPlaced, TrustedForMastery, TurnRecord, MarkResult
  <2>2. QED
    BY <1>1, <1>2, <2>1, RecordConstants
       DEF TypeOK, RowType, Keys, Row, Held, JobHolds, Key, TurnRecord
<1>3. CASE s = "review_record"
  <2>1. \A t \in Turns : turn[t].stage[s] \in {"read", "wrote"} =>
          turn[t].grade.topic # NoTopic
    <3> SUFFICES ASSUME NEW t \in Turns, turn[t].stage[s] \in {"read", "wrote"}
                 PROVE  turn[t].grade.topic # NoTopic
      OBVIOUS
    <3>1. turn[t].pc # "unborn"
      BY <1>3 DEF Placed, StagesPlaced, StageName
    <3>2. s \in StagesOf(turn[t].grade)
      BY <1>3, <3>1 DEF Placed, StagesPlaced, StageName
    <3>3. QED
      BY <1>3, <3>2 DEF StagesOf
  <2>2. \A t \in Turns : turn[t].grade.topic \in Topics \cup {NoTopic}
    BY <1>1, RecordConstants DEF TurnRecord, MarkResult
  <2>3. QED
    BY <1>1, <1>3, <2>1, <2>2, RecordConstants
       DEF TypeOK, RowType, Keys, Row, Held, JobHolds, Key, TurnRecord
<1>4. CASE s = "diagnosis"
  <2>1. \A t \in Turns : turn[t].stage[s] \in {"read", "wrote"} =>
          turn[t].grade.diagnosis \in Misconceptions
    BY <1>1, <1>4, RecordConstants
       DEF Placed, StagesPlaced, TurnRecord, MarkResult
  <2>2. QED
    BY <1>1, <1>4, <2>1, RecordConstants
       DEF TypeOK, RowType, Keys, Row, Held, JobHolds, Key, TurnRecord
<1>5. QED
  BY <1>2, <1>3, <1>4 DEF RowStage

\* Totals and parts are numbers, and a write adds one to the total and to the
\* part what it counts apart.
LEMMA CountsTyped ==
  ASSUME NEW s \in RowStage, NEW row \in RowType(s)
  PROVE  Total(s, row) \in Nat /\ Part(s, row) \in Nat
BY DEF RowStage, RowType, Total, Part, SubtopicMastery, ReviewState,
       RegistryEntry

LEMMA MasteryCounts ==
  ASSUME NEW row \in SubtopicMastery \cup {NoRow}, NEW c \in BOOLEAN
  PROVE  LET new == AfterMastery(row, c)
             one == IF c THEN 1 ELSE 0
         IN /\ new \in SubtopicMastery
            /\ row = NoRow => new.attempts = 1 /\ new.correct = one
            /\ row # NoRow => /\ new.attempts = row.attempts + 1
                              /\ new.correct = row.correct + one
<1> DEFINE base == IF row = NoRow
                   THEN [attempts |-> 0, correct |-> 0] ELSE row
           more == base.attempts + 1
           part == IF c THEN base.correct + 1 ELSE base.correct
<1>1. NoRow \notin SubtopicMastery
  BY RecordConstants
<1>2. /\ base \in SubtopicMastery
      /\ row = NoRow => base.attempts = 0 /\ base.correct = 0
      /\ row # NoRow => base = row
  BY DEF SubtopicMastery
<1>3. AfterMastery(row, c) = [base EXCEPT !.attempts = more, !.correct = part]
  BY DEF AfterMastery
<1> HIDE DEF base
<1>4. more \in Nat /\ part \in Nat
  BY <1>2 DEF SubtopicMastery
<1>5. /\ row = NoRow => more = 1 /\ part = IF c THEN 1 ELSE 0
      /\ row # NoRow => /\ more = row.attempts + 1
                        /\ part = row.correct + IF c THEN 1 ELSE 0
  BY <1>2 DEF SubtopicMastery
<1> HIDE DEF more, part
<1>6. /\ AfterMastery(row, c) \in SubtopicMastery
      /\ AfterMastery(row, c).attempts = more
      /\ AfterMastery(row, c).correct = part
  BY <1>2, <1>3, <1>4 DEF SubtopicMastery
<1>7. QED
  BY <1>5, <1>6

LEMMA ReviewCounts ==
  ASSUME NEW row \in ReviewState \cup {NoRow}, NEW c \in BOOLEAN
  PROVE  LET new == AfterReview(row, c)
             one == IF c THEN 0 ELSE 1
         IN /\ new \in ReviewState
            /\ row = NoRow => new.reps = 1 /\ new.lapses = one
            /\ row # NoRow => /\ new.reps = row.reps + 1
                              /\ new.lapses = row.lapses + one
<1> DEFINE base == IF row = NoRow THEN [reps |-> 0, lapses |-> 0] ELSE row
           more == base.reps + 1
           part == IF c THEN base.lapses ELSE base.lapses + 1
<1>1. NoRow \notin ReviewState
  BY RecordConstants
<1>2. /\ base \in ReviewState
      /\ row = NoRow => base.reps = 0 /\ base.lapses = 0
      /\ row # NoRow => base = row
  BY DEF ReviewState
<1>3. AfterReview(row, c) = [base EXCEPT !.reps = more, !.lapses = part]
  BY DEF AfterReview
<1> HIDE DEF base
<1>4. more \in Nat /\ part \in Nat
  BY <1>2 DEF ReviewState
<1>5. /\ row = NoRow => more = 1 /\ part = IF c THEN 0 ELSE 1
      /\ row # NoRow => /\ more = row.reps + 1
                        /\ part = row.lapses + IF c THEN 0 ELSE 1
  BY <1>2 DEF ReviewState
<1> HIDE DEF more, part
<1>6. /\ AfterReview(row, c) \in ReviewState
      /\ AfterReview(row, c).reps = more
      /\ AfterReview(row, c).lapses = part
  BY <1>2, <1>3, <1>4 DEF ReviewState
<1>7. QED
  BY <1>5, <1>6

LEMMA DiagnosisCounts ==
  ASSUME NEW row \in RegistryEntry \cup {NoRow}
  PROVE  LET new == AfterDiagnosis(row)
         IN /\ new \in RegistryEntry
            /\ row = NoRow => new.occurrences = 1
            /\ row # NoRow => new.occurrences = row.occurrences + 1
            /\ ~new.faded
            /\ new.remediated => row # NoRow /\ row.remediated
<1>1. CASE row = NoRow
  BY <1>1 DEF AfterDiagnosis, RegistryEntry
<1>2. CASE row # NoRow
  <2>1. /\ row.occurrences \in Nat /\ row.remediated \in BOOLEAN
        /\ row = [occurrences |-> row.occurrences, faded |-> row.faded,
                  remediated |-> row.remediated]
    BY <1>2 DEF RegistryEntry
  <2>2. AfterDiagnosis(row) =
          [occurrences |-> row.occurrences + 1, faded |-> FALSE,
           remediated |-> row.remediated]
    BY <1>2, <2>1 DEF AfterDiagnosis
  <2>3. QED
    BY <1>2, <2>1, <2>2 DEF RegistryEntry
<1>3. QED
  BY <1>1, <1>2

LEMMA AfterCounts ==
  ASSUME NEW s \in RowStage, NEW row \in RowType(s) \cup {NoRow},
         NEW t \in Turns, turn \in [Turns -> TurnRecord]
  PROVE  LET new == After(s, row, turn[t].grade.correct)
             more == IF t \in Apart(s) THEN 1 ELSE 0
         IN /\ new \in RowType(s)
            /\ row = NoRow => Total(s, new) = 1 /\ Part(s, new) = more
            /\ row # NoRow => /\ Total(s, new) = Total(s, row) + 1
                              /\ Part(s, new) = Part(s, row) + more
<1> DEFINE c == turn[t].grade.correct
<1>1. c \in BOOLEAN
  BY RecordConstants DEF TurnRecord, MarkResult
<1>2. CASE s = "mastery_write"
  <2>1. t \in Apart(s) <=> c
    BY <1>2 DEF Apart, Correct
  <2>2. row \in SubtopicMastery \cup {NoRow}
    BY <1>2 DEF RowType
  <2> HIDE DEF c
  <2>3. QED
    BY <1>1, <1>2, <2>1, <2>2, MasteryCounts
       DEF RowType, After, Total, Part, c
<1>3. CASE s = "review_record"
  <2>1. t \in Apart(s) <=> ~c
    BY <1>3 DEF Apart, Correct
  <2>2. row \in ReviewState \cup {NoRow}
    BY <1>3 DEF RowType
  <2>3. QED
    BY <1>1, <1>3, <2>1, <2>2, ReviewCounts DEF RowType, After, Total, Part
<1>4. CASE s = "diagnosis"
  <2>1. t \notin Apart(s)
    BY <1>4 DEF Apart
  <2>2. row \in RegistryEntry \cup {NoRow}
    BY <1>4 DEF RowType
  <2>3. QED
    BY <1>4, <2>1, <2>2, DiagnosisCounts DEF RowType, After, Total, Part
<1>5. QED
  BY <1>2, <1>3, <1>4 DEF RowStage

\* The writes behind a row are finitely many.
LEMMA WritesFinite ==
  ASSUME NEW s, NEW k
  PROVE  IsFiniteSet(By(s, k)) /\ IsFiniteSet(KeptBy(s, k))
BY RecordConstants, FS_Subset DEF By, KeptBy, Kept, Wrote

-----------------------------------------------------------------------------
(***************************************************************************)
(* What a step can do to one of the three tables.  Still: no write is made *)
(* or erased; a row, or a new copy of one, is what was stored or held.     *)
(***************************************************************************)
SameWrites(s) ==
  /\ Wrote(s)' = Wrote(s)
  /\ \A t \in Wrote(s) : turn'[t].grade = turn[t].grade
  /\ \A t \in Turns : <<t, s>> \in gone' <=> <<t, s>> \in gone

Still(s) ==
  /\ SameWrites(s)
  /\ \A t \in Turns :
       Reads(t, s)' => /\ turn'[t].grade = turn[t].grade
                       /\ Key(t, s) \in Keys(s)
                       /\ \/ Reads(t, s) /\ Held(t, s)' = Held(t, s)
                          \/ Held(t, s)' = Row(s, Key(t, s))
  /\ \A e \in JobHolds(s)' : /\ e[1] \in Keys(s)
                             /\ \/ e \in JobHolds(s)
                                \/ e[2] = Row(s, e[1])
  /\ \A k \in Keys(s) :
       \/ SameRow(s, Row(s, k)', Row(s, k))
       \/ \E e \in JobHolds(s) : e[1] = k /\ SameRow(s, Row(s, k)', e[2])

\* Turn t saves the row it read with one answer more.
Writes(t, s) ==
  /\ Reads(t, s)
  /\ Wrote(s)' = Wrote(s) \cup {t}
  /\ \A u \in Turns : turn'[u].grade = turn[u].grade
  /\ gone' = gone
  /\ \A u \in Turns : Reads(u, s)' <=> Reads(u, s) /\ u # t
  /\ \A u \in Turns \ {t} : Held(u, s)' = Held(u, s)
  /\ JobHolds(s)' = JobHolds(s)
  /\ \A k \in Keys(s) :
       Row(s, k)' = IF k = Key(t, s)
                    THEN After(s, Held(t, s), turn[t].grade.correct)
                    ELSE Row(s, k)

\* The table is emptied, and every write to it with it.
Erases(s) ==
  /\ turn' = turn /\ job' = job
  /\ \A k \in Keys(s) : Row(s, k)' = NoRow
  /\ \A t \in Wrote(s) : <<t, s>> \in gone'
  /\ alone' => ~JobRuns /\ \A t \in Turns : ~Grading(t)

-----------------------------------------------------------------------------
\* What counts for a row after a step that makes no write, and after one more.
LEMMA StillCounts ==
  ASSUME NEW s \in RowStage, SameWrites(s), NEW k
  PROVE  /\ By(s, k)' = By(s, k)
         /\ KeptBy(s, k)' = KeptBy(s, k)
         /\ (By(s, k) \cap Apart(s))' = By(s, k) \cap Apart(s)
         /\ (KeptBy(s, k) \cap Apart(s))' = KeptBy(s, k) \cap Apart(s)
<1>1. \A t \in Wrote(s) : /\ t \in Turns
                          /\ Key(t, s)' = Key(t, s)
                          /\ t \in Apart(s)' <=> t \in Apart(s)
  BY DEF SameWrites, Wrote, Key, Apart, Correct
<1>2. Wrote(s)' = Wrote(s) /\ Kept(s)' = Kept(s)
  BY <1>1 DEF SameWrites, Kept
<1>3. Kept(s) \subseteq Wrote(s)
  BY DEF Kept
<1>4. By(s, k)' = By(s, k) /\ KeptBy(s, k)' = KeptBy(s, k)
  BY <1>1, <1>2, <1>3 DEF By, KeptBy
<1>5. By(s, k) \subseteq Wrote(s) /\ KeptBy(s, k) \subseteq Wrote(s)
  BY <1>3 DEF By, KeptBy
<1>6. QED
  BY <1>1, <1>4, <1>5

LEMMA WriteCounts ==
  ASSUME Tidy, NEW s \in RowStage, NEW t \in Turns, Writes(t, s)
  PROVE  /\ t \notin Wrote(s)
         /\ Apart(s)' = Apart(s)
         /\ \A u \in Turns : Key(u, s)' = Key(u, s)
         /\ \A k : /\ By(s, k)' = IF k = Key(t, s) THEN By(s, k) \cup {t}
                                  ELSE By(s, k)
                   /\ KeptBy(s, k)' = IF k = Key(t, s)
                                      THEN KeptBy(s, k) \cup {t}
                                      ELSE KeptBy(s, k)
<1>1. t \notin Wrote(s)
  BY DEF Writes, Reads, Wrote
<1>2. <<t, s>> \notin gone
  BY <1>1 DEF Tidy, Wrote
<1>3. \A u \in Turns : /\ Key(u, s)' = Key(u, s)
                       /\ u \in Apart(s)' <=> u \in Apart(s)
  BY DEF Writes, Key, Apart, Correct
<1>4. Apart(s) \subseteq Turns /\ Apart(s)' \subseteq Turns
  BY DEF Apart, Correct
<1>5. Wrote(s) \subseteq Turns /\ Wrote(s)' = Wrote(s) \cup {t}
  BY DEF Wrote, Writes
<1>6. Kept(s)' = Kept(s) \cup {t} /\ Kept(s) \subseteq Turns
  BY <1>2, <1>5 DEF Kept, Writes
<1>7. ASSUME NEW k
      PROVE  /\ By(s, k)' = IF k = Key(t, s) THEN By(s, k) \cup {t}
                            ELSE By(s, k)
             /\ KeptBy(s, k)' = IF k = Key(t, s) THEN KeptBy(s, k) \cup {t}
                                ELSE KeptBy(s, k)
  BY <1>3, <1>5, <1>6 DEF By, KeptBy
<1>8. QED
  BY <1>1, <1>3, <1>4, <1>7

\* Equal counts, equal standing.
LEMMA SameRowStands ==
  ASSUME NEW s, NEW k, NEW row, NEW other, SameRow(s, row, other)
  PROVE  /\ RowEarned(s, k, other) => RowEarned(s, k, row)
         /\ RowExact(s, k, other) => RowExact(s, k, row)
         /\ SameRow(s, other, row)
BY DEF SameRow, RowEarned, RowExact

LEMMA SameRowJoins ==
  ASSUME NEW s, NEW row, NEW mid, NEW other,
         SameRow(s, row, mid), SameRow(s, mid, other)
  PROVE  SameRow(s, row, other)
BY DEF SameRow

LEMMA SameRowItself ==
  ASSUME NEW s, NEW row
  PROVE  SameRow(s, row, row)
BY DEF SameRow

-----------------------------------------------------------------------------
LEMMA StillEarned ==
  ASSUME NEW s \in RowStage, Still(s), EarnedIn(s)
  PROVE  EarnedIn(s)'
<1>1. ASSUME NEW k, NEW row
      PROVE  RowEarned(s, k, row) =>
               (row # NoRow => Bounded(Total(s, row), Part(s, row), By(s, k)',
                                       (By(s, k) \cap Apart(s))'))
  BY StillCounts DEF Still, RowEarned
<1>2. \A k \in Keys(s) : RowEarned(s, k, Row(s, k)')
  <2> TAKE k \in Keys(s)
  <2>1. CASE SameRow(s, Row(s, k)', Row(s, k))
    BY <2>1, SameRowStands DEF EarnedIn
  <2>2. CASE \E e \in JobHolds(s) : e[1] = k /\ SameRow(s, Row(s, k)', e[2])
    BY <2>2, SameRowStands DEF EarnedIn
  <2>3. QED
    BY <2>1, <2>2 DEF Still
<1>3. ASSUME NEW t \in Turns, Reads(t, s)'
      PROVE  RowEarned(s, Key(t, s)', Held(t, s)')
  <2>1. Key(t, s)' = Key(t, s)
    BY <1>3 DEF Still, Key
  <2>2. QED
    BY <1>3, <2>1 DEF Still, EarnedIn
<1>4. \A e \in JobHolds(s)' : RowEarned(s, e[1], e[2])
  BY DEF Still, EarnedIn
<1>5. ASSUME NEW k, NEW row, RowEarned(s, k, row)
      PROVE  RowEarned(s, k, row)'
  BY <1>1, <1>5 DEF RowEarned
<1>6. Keys(s)' = Keys(s)
  BY DEF Keys
<1>7. QED
  BY <1>2, <1>3, <1>4, <1>5, <1>6 DEF EarnedIn

LEMMA StillExact ==
  ASSUME NEW s \in RowStage, Still(s), ExactIn(s)
  PROVE  ExactIn(s)'
<1>1. ASSUME NEW k, NEW row, RowExact(s, k, row)
      PROVE  RowExact(s, k, row)'
  BY <1>1, StillCounts DEF Still, RowExact
<1>2. \A k \in Keys(s) : /\ SameRow(s, Row(s, k)', Row(s, k))
                         /\ SameRow(s, Row(s, k), Row(s, k)')
  <2> TAKE k \in Keys(s)
  <2>1. CASE \E e \in JobHolds(s) : e[1] = k /\ SameRow(s, Row(s, k)', e[2])
    BY <2>1, SameRowStands, SameRowJoins DEF ExactIn
  <2>2. CASE SameRow(s, Row(s, k)', Row(s, k))
    BY <2>2, SameRowStands
  <2>3. QED
    BY <2>1, <2>2 DEF Still
<1>3. \A k \in Keys(s) : RowExact(s, k, Row(s, k)')
  BY <1>2, SameRowStands DEF ExactIn
<1>4. ASSUME NEW t \in Turns, Reads(t, s)'
      PROVE  SameRow(s, Held(t, s)', Row(s, Key(t, s))')
  <2>1. Key(t, s)' = Key(t, s)
    BY <1>4 DEF Still, Key
  <2>2. CASE Reads(t, s) /\ Held(t, s)' = Held(t, s)
    <3>1. Key(t, s) \in Keys(s)
      BY <1>4 DEF Still
    <3>2. QED
      BY <2>1, <2>2, <3>1, <1>2, SameRowJoins DEF ExactIn
  <2>3. CASE Held(t, s)' = Row(s, Key(t, s))
    BY <1>4, <2>1, <2>3, <1>2 DEF Still
  <2>4. QED
    BY <1>4, <2>2, <2>3 DEF Still
<1>5. \A e \in JobHolds(s)' : SameRow(s, e[2], Row(s, e[1])')
  BY <1>2, SameRowJoins, SameRowItself DEF Still, ExactIn
<1>6. Keys(s)' = Keys(s)
  BY DEF Keys
<1>7. QED
  BY <1>1, <1>3, <1>4, <1>5, <1>6 DEF ExactIn

\* One answer more on a row that was earned, or exact, before it.
LEMMA AfterEarned ==
  ASSUME TypeOK, NEW s \in RowStage, NEW t \in Turns,
         NEW row \in RowType(s) \cup {NoRow}, NEW by, NEW part,
         IsFiniteSet(by), t \notin by, part \subseteq by,
         row # NoRow => Bounded(Total(s, row), Part(s, row), by, part)
  PROVE  LET new == After(s, row, turn[t].grade.correct)
             more == IF t \in Apart(s) THEN {t} ELSE {}
         IN Bounded(Total(s, new), Part(s, new), by \cup {t}, part \cup more)
<1> DEFINE new == After(s, row, turn[t].grade.correct)
<1>1. /\ row = NoRow => Total(s, new) = 1
      /\ row # NoRow => Total(s, new) = Total(s, row) + 1
      /\ row = NoRow => Part(s, new) = IF t \in Apart(s) THEN 1 ELSE 0
      /\ row # NoRow => Part(s, new) = Part(s, row)
                                       + IF t \in Apart(s) THEN 1 ELSE 0
  BY AfterCounts DEF TypeOK
<1>2. row # NoRow => Total(s, row) \in Nat /\ Part(s, row) \in Nat
  BY CountsTyped
<1>3. /\ Cardinality(by) \in Nat /\ Cardinality(part) \in Nat
      /\ Cardinality(by \ part) \in Nat
      /\ Cardinality(by \cup {t}) = Cardinality(by) + 1
      /\ Cardinality(part \cup {t}) = Cardinality(part) + 1
      /\ Cardinality((by \cup {t}) \ part) = Cardinality(by \ part) + 1
      /\ Cardinality((by \cup {t}) \ (part \cup {t})) = Cardinality(by \ part)
  BY CountsOneMore
<1> HIDE DEF new
<1>4. CASE t \in Apart(s)
  BY <1>1, <1>2, <1>3, <1>4 DEF Bounded, new
<1>5. CASE t \notin Apart(s)
  <2>1. part \cup {} = part
    OBVIOUS
  <2>2. QED
    BY <1>1, <1>2, <1>3, <1>5, <2>1 DEF Bounded, new
<1>6. QED
  BY <1>4, <1>5

LEMMA AfterExact ==
  ASSUME TypeOK, NEW s \in RowStage, NEW t \in Turns,
         NEW row \in RowType(s) \cup {NoRow}, NEW by, NEW part,
         IsFiniteSet(by), t \notin by, part \subseteq by,
         IF by = {} THEN row = NoRow
         ELSE /\ row # NoRow
              /\ Total(s, row) = Cardinality(by)
              /\ Part(s, row) = Cardinality(part)
  PROVE  LET new == After(s, row, turn[t].grade.correct)
             more == IF t \in Apart(s) THEN {t} ELSE {}
         IN /\ new # NoRow
            /\ Total(s, new) = Cardinality(by \cup {t})
            /\ Part(s, new) = Cardinality(part \cup more)
<1> DEFINE new == After(s, row, turn[t].grade.correct)
<1>1. /\ new \in RowType(s)
      /\ row = NoRow => Total(s, new) = 1
      /\ row # NoRow => Total(s, new) = Total(s, row) + 1
      /\ row = NoRow => Part(s, new) = IF t \in Apart(s) THEN 1 ELSE 0
      /\ row # NoRow => Part(s, new) = Part(s, row)
                                       + IF t \in Apart(s) THEN 1 ELSE 0
  BY AfterCounts DEF TypeOK
<1>2. row # NoRow => Total(s, row) \in Nat /\ Part(s, row) \in Nat
  BY CountsTyped
<1>3. /\ Cardinality(by) \in Nat /\ Cardinality(part) \in Nat
      /\ Cardinality(by \cup {t}) = Cardinality(by) + 1
      /\ Cardinality(part \cup {t}) = Cardinality(part) + 1
  <2>1. IsFiniteSet(part) /\ t \notin part
    BY FS_Subset
  <2>2. QED
    BY <2>1, FS_AddElement, FS_CardinalityType
<1>4. new # NoRow
  BY <1>1, RecordConstants DEF RowStage, RowType
<1> HIDE DEF new
<1>5. by = {} => Cardinality(by) = 0 /\ Cardinality(part) = 0
  BY FS_EmptySet
<1>6. Total(s, new) = Cardinality(by \cup {t})
  BY <1>1, <1>2, <1>3, <1>5
<1>7. CASE t \in Apart(s)
  BY <1>1, <1>2, <1>3, <1>4, <1>5, <1>6, <1>7 DEF new
<1>8. CASE t \notin Apart(s)
  <2>1. part \cup {} = part
    OBVIOUS
  <2>2. QED
    BY <1>1, <1>2, <1>3, <1>4, <1>5, <1>6, <1>8, <2>1 DEF new
<1>9. QED
  BY <1>7, <1>8

LEMMA WritesEarned ==
  ASSUME TypeOK, Placed, Tidy, NEW s \in RowStage, NEW t \in Turns,
         Writes(t, s), EarnedIn(s)
  PROVE  EarnedIn(s)'
<1> DEFINE new == After(s, Held(t, s), turn[t].grade.correct)
           key == Key(t, s)
           part(k) == By(s, k) \cap Apart(s)
<1>1. /\ t \notin Wrote(s)
      /\ Apart(s)' = Apart(s)
      /\ \A u \in Turns : Key(u, s)' = Key(u, s)
      /\ \A k : By(s, k)' = IF k = key THEN By(s, k) \cup {t} ELSE By(s, k)
  BY WriteCounts
<1>2. /\ key \in Keys(s) /\ Held(t, s) \in RowType(s) \cup {NoRow}
      /\ \A k \in Keys(s) : Row(s, k) \in RowType(s) \cup {NoRow}
      /\ \A u \in Turns : Held(u, s) \in RowType(s) \cup {NoRow}
      /\ \A e \in JobHolds(s) : e[1] \in Keys(s) /\ e[2] \in RowType(s)
  BY RowsTyped DEF Writes, Reads
<1>3. ASSUME NEW k, NEW row \in RowType(s) \cup {NoRow}, RowEarned(s, k, row)
      PROVE  RowEarned(s, k, row)'
  <2>1. row # NoRow => Total(s, row) \in Nat /\ Part(s, row) \in Nat
    BY <1>3, CountsTyped
  <2>2. IsFiniteSet(By(s, k)) /\ IsFiniteSet({t})
    BY WritesFinite, FS_Singleton
  <2>3. IsFiniteSet(By(s, k)')
    <3>1. IsFiniteSet(By(s, k) \cup {t})
      BY <2>2, FS_Union
    <3>2. QED
      BY <1>1, <2>2, <3>1
  <2>4. /\ part(k) \subseteq By(s, k) /\ part(k)' \subseteq By(s, k)'
        /\ part(k) \subseteq part(k)'
        /\ By(s, k) \ part(k) \subseteq By(s, k)' \ part(k)'
    BY <1>1 DEF By
  <2>5. row # NoRow => Bounded(Total(s, row), Part(s, row), By(s, k)', part(k)')
    BY <1>3, <2>1, <2>3, <2>4, BoundedGrows DEF RowEarned
  <2>6. QED
    BY <2>5 DEF RowEarned
<1>4. ASSUME NEW k, k = key, NEW row, row = new
      PROVE  RowEarned(s, k, row)'
  <2>1. t \notin By(s, key) /\ IsFiniteSet(By(s, key))
    BY <1>1, WritesFinite DEF By
  <2>2. RowEarned(s, key, Held(t, s))
    BY DEF EarnedIn, Writes
  <2>3. part(k)' = part(k) \cup (IF t \in Apart(s) THEN {t} ELSE {})
    BY <1>1, <1>4
  <2>4. Bounded(Total(s, new), Part(s, new), By(s, key) \cup {t},
                part(key) \cup (IF t \in Apart(s) THEN {t} ELSE {}))
    BY <1>2, <2>1, <2>2, AfterEarned DEF RowEarned
  <2>5. By(s, k)' = By(s, k) \cup {t}
    BY <1>1, <1>4
  <2> HIDE DEF new, key
  <2>6. Bounded(Total(s, row), Part(s, row), By(s, k)', part(k)')
    BY <1>4, <2>3, <2>4, <2>5
  <2>7. QED
    BY <2>6 DEF RowEarned
<1>5. \A k \in Keys(s) : Row(s, k)' = IF k = key THEN new ELSE Row(s, k)
  BY DEF Writes
<1> HIDE DEF new
<1>6. \A k \in Keys(s) : RowEarned(s, k, Row(s, k))'
  <2> TAKE k \in Keys(s)
  <2>1. CASE k = key
    BY <1>4, <1>5, <2>1
  <2>2. CASE k # key
    BY <1>2, <1>3, <1>5, <2>2 DEF EarnedIn
  <2>3. QED
    BY <2>1, <2>2
<1>7. \A u \in Turns : Reads(u, s)' => RowEarned(s, Key(u, s), Held(u, s))'
  BY <1>1, <1>2, <1>3 DEF Writes, EarnedIn
<1>8. \A e \in JobHolds(s)' : RowEarned(s, e[1], e[2])'
  BY <1>2, <1>3 DEF Writes, EarnedIn
<1>9. Keys(s)' = Keys(s)
  BY DEF Keys
<1>10. QED
  BY <1>6, <1>7, <1>8, <1>9 DEF EarnedIn

LEMMA WritesExact ==
  ASSUME TypeOK, Placed, Tidy, NEW s \in RowStage, NEW t \in Turns,
         Writes(t, s), ExactIn(s), NobodyElse(t)
  PROVE  ExactIn(s)'
<1> DEFINE new == After(s, Held(t, s), turn[t].grade.correct)
           key == Key(t, s)
           part(k) == KeptBy(s, k) \cap Apart(s)
<1>1. /\ t \notin Wrote(s)
      /\ Apart(s)' = Apart(s)
      /\ \A u \in Turns : Key(u, s)' = Key(u, s)
      /\ \A k : KeptBy(s, k)' = IF k = key THEN KeptBy(s, k) \cup {t}
                                ELSE KeptBy(s, k)
  BY WriteCounts
<1>2. key \in Keys(s) /\ Held(t, s) \in RowType(s) \cup {NoRow}
  BY RowsTyped DEF Writes, Reads
<1>3. (\A u \in Turns : ~Reads(u, s)') /\ JobHolds(s)' = {}
  BY DEF Writes, NobodyElse, Tidy, JobRuns, JobHolds, Reads
<1>4. ASSUME NEW k \in Keys(s), k # key
      PROVE  RowExact(s, k, Row(s, k))'
  BY <1>1, <1>4 DEF Writes, ExactIn, RowExact
<1>5. ASSUME NEW k, k = key, NEW row, row = new
      PROVE  RowExact(s, k, row)'
  <2>1. t \notin KeptBy(s, key) /\ IsFiniteSet(KeptBy(s, key))
    <3>1. IsFiniteSet(KeptBy(s, key))
      BY WritesFinite
    <3>2. t \notin KeptBy(s, key)
      BY <1>1 DEF KeptBy, Kept
    <3>3. QED
      BY <3>1, <3>2
  <2>2. RowExact(s, key, Held(t, s))
    BY <1>2, SameRowStands DEF ExactIn, Writes
  <2>3. part(k)' = part(k) \cup (IF t \in Apart(s) THEN {t} ELSE {})
    BY <1>1, <1>5
  <2>4. /\ new # NoRow
        /\ Total(s, new) = Cardinality(KeptBy(s, key) \cup {t})
        /\ Part(s, new) = Cardinality(part(key)
                            \cup (IF t \in Apart(s) THEN {t} ELSE {}))
    <3> DEFINE held == Held(t, s)
               by == KeptBy(s, key)
               pt == part(key)
    <3>1. IF by = {} THEN held = NoRow
          ELSE /\ held # NoRow
               /\ Total(s, held) = Cardinality(by)
               /\ Part(s, held) = Cardinality(pt)
      BY <2>2 DEF RowExact
    <3>2. /\ t \notin by /\ IsFiniteSet(by) /\ pt \subseteq by
          /\ held \in RowType(s) \cup {NoRow}
      BY <1>2, <2>1
    <3> HIDE DEF held, by, pt
    <3>3. LET next == After(s, held, turn[t].grade.correct)
              more == IF t \in Apart(s) THEN {t} ELSE {}
          IN /\ next # NoRow
             /\ Total(s, next) = Cardinality(by \cup {t})
             /\ Part(s, next) = Cardinality(pt \cup more)
      BY <3>1, <3>2, AfterExact
    <3>4. QED
      BY <3>3 DEF held, by, pt
  <2>5. KeptBy(s, k)' = KeptBy(s, k) \cup {t}
    BY <1>1, <1>5
  <2> HIDE DEF new, key
  <2>6. QED
    BY <1>5, <2>3, <2>4, <2>5 DEF RowExact
<1>6. \A k \in Keys(s) : Row(s, k)' = IF k = key THEN new ELSE Row(s, k)
  BY DEF Writes
<1> HIDE DEF new
<1>7. \A k \in Keys(s) : RowExact(s, k, Row(s, k))'
  <2> TAKE k \in Keys(s)
  <2>1. CASE k = key
    BY <1>5, <1>6, <2>1
  <2>2. CASE k # key
    BY <1>4, <2>2
  <2>3. QED
    BY <2>1, <2>2
<1>8. Keys(s)' = Keys(s)
  BY DEF Keys
<1>9. QED
  BY <1>3, <1>7, <1>8 DEF ExactIn

\* After an erasure that nobody overlaps there is nothing to count.
LEMMA ErasesEarned ==
  ASSUME NEW s \in RowStage, Erases(s), EarnedIn(s)
  PROVE  EarnedIn(s)'
<1>1. /\ \A t \in Turns : /\ Reads(t, s)' <=> Reads(t, s)
                          /\ Key(t, s)' = Key(t, s)
                          /\ Held(t, s)' = Held(t, s)
      /\ JobHolds(s)' = JobHolds(s) /\ Keys(s)' = Keys(s)
      /\ \A k : By(s, k)' = By(s, k) /\ Apart(s)' = Apart(s)
  BY DEF Erases, Reads, Grading, Key, Held, JobHolds, Keys, By, Wrote, Apart,
         Correct
<1>2. QED
  BY <1>1 DEF Erases, EarnedIn, RowEarned

LEMMA ErasesExact ==
  ASSUME Tidy, NEW s \in RowStage, Erases(s), alone'
  PROVE  ExactIn(s)'
<1>1. (\A t \in Turns : ~Reads(t, s)') /\ JobHolds(s)' = {}
  BY DEF Erases, Reads, Grading, JobHolds, JobRuns, Tidy
<1>2. \A k : KeptBy(s, k)' = {}
  BY DEF Erases, KeptBy, Kept, Wrote
<1>3. Keys(s)' = Keys(s)
  BY DEF Keys
<1>4. QED
  BY <1>1, <1>2, <1>3 DEF Erases, ExactIn, RowExact

Effect ==
  \A s \in RowStage : Still(s) \/ (\E t \in Turns : Writes(t, s)) \/ Erases(s)

LEMMA EffectKeeps ==
  ASSUME IInv, Effect, alone' => alone
  PROVE  Earned' /\ Exact'
<1>1. ASSUME NEW s \in RowStage
      PROVE  EarnedIn(s)'
  <2>1. EarnedIn(s)
    BY DEF IInv, Earned
  <2>2. QED
    BY <2>1, StillEarned, WritesEarned, ErasesEarned DEF Effect, IInv
<1>2. ASSUME alone', NEW s \in RowStage
      PROVE  ExactIn(s)'
  <2>1. ExactIn(s) /\ alone
    BY <1>2 DEF IInv, Exact
  <2>2. ASSUME NEW t \in Turns, Writes(t, s)
        PROVE  NobodyElse(t)
    BY <2>1, <2>2 DEF IInv, Alone, Writes, Reads
  <2>3. QED
    BY <1>2, <2>1, <2>2, StillExact, WritesExact, ErasesExact DEF Effect, IInv
<1>3. QED
  BY <1>1, <1>2 DEF Earned, Exact

-----------------------------------------------------------------------------
\* A stage of turn t goes on to another status; the rest of the turn stays.
Moves(t, s, status) ==
  /\ turn' \in [Turns -> TurnRecord]
  /\ \A u \in Turns \ {t} : turn'[u] = turn[u]
  /\ turn'[t].pc = turn[t].pc
  /\ turn'[t].grade = turn[t].grade
  /\ turn'[t].stage = [turn[t].stage EXCEPT ![s] = status]
  /\ \A z \in RowStage \ {s} : Held(t, z)' = Held(t, z)

LEMMA StageSet ==
  ASSUME NEW r \in TurnRecord, NEW s \in StageName, NEW status \in StageStatus
  PROVE  /\ [r.stage EXCEPT ![s] = status] \in [StageName -> StageStatus]
         /\ r.mastery \in SubtopicMastery \cup {NoRow}
         /\ r.review \in ReviewState \cup {NoRow}
         /\ r.entry \in RegistryEntry \cup {NoRow}
BY DEF TurnRecord

LEMMA RecordMoved ==
  ASSUME NEW r \in TurnRecord, NEW f \in [StageName -> StageStatus],
         NEW m \in SubtopicMastery \cup {NoRow},
         NEW v \in ReviewState \cup {NoRow},
         NEW e \in RegistryEntry \cup {NoRow}
  PROVE  /\ [r EXCEPT !.stage = f] \in TurnRecord
         /\ [r EXCEPT !.stage = f, !.mastery = m] \in TurnRecord
         /\ [r EXCEPT !.stage = f, !.review = v] \in TurnRecord
         /\ [r EXCEPT !.stage = f, !.entry = e] \in TurnRecord
BY DEF TurnRecord

Successor(t, s, status, r) ==
  /\ r \in TurnRecord
  /\ r.pc = turn[t].pc /\ r.grade = turn[t].grade
  /\ r.stage = [turn[t].stage EXCEPT ![s] = status]
  /\ s = "mastery_write" \/ r.mastery = turn[t].mastery
  /\ s = "review_record" \/ r.review = turn[t].review
  /\ s = "diagnosis" \/ r.entry = turn[t].entry

LEMMA TurnMoves ==
  ASSUME TypeOK, NEW t \in Turns, NEW s \in StageName, NEW status, NEW r,
         Successor(t, s, status, r), turn' = [turn EXCEPT ![t] = r]
  PROVE  Moves(t, s, status) /\ turn'[t] = r
<1>1. turn' \in [Turns -> TurnRecord] /\ turn'[t] = r
  BY DEF TypeOK, Successor
<1>2. \A u \in Turns \ {t} : turn'[u] = turn[u]
  BY DEF TypeOK
<1>3. QED
  BY <1>1, <1>2 DEF Moves, Held, RowStage, Successor

\* The forms in which the actions write it.
LEMMA StageMoves ==
  ASSUME TypeOK, NEW t \in Turns, NEW s \in StageName,
         NEW status \in StageStatus,
         turn' = [turn EXCEPT ![t] = [turn[t] EXCEPT
                                        !.stage = [@ EXCEPT ![s] = status]]]
  PROVE  Moves(t, s, status)
<1> DEFINE f == [turn[t].stage EXCEPT ![s] = status]
           r == [turn[t] EXCEPT !.stage = f]
<1>1. turn[t] \in TurnRecord /\ f \in [StageName -> StageStatus]
  BY StageSet DEF TypeOK
<1> HIDE DEF f
<1>2. r \in TurnRecord
  BY <1>1, StageSet, RecordMoved
<1>3. /\ r.pc = turn[t].pc /\ r.grade = turn[t].grade /\ r.stage = f
      /\ r.mastery = turn[t].mastery /\ r.review = turn[t].review
      /\ r.entry = turn[t].entry
  BY <1>1 DEF TurnRecord
<1>4. turn' = [turn EXCEPT ![t] = r]
  BY DEF f
<1> HIDE DEF r
<1>5. Successor(t, s, status, r)
  BY <1>2, <1>3 DEF Successor, f
<1>6. QED
  BY <1>4, <1>5, TurnMoves

LEMMA MasteryMoves ==
  ASSUME TypeOK, NEW t \in Turns, NEW status \in StageStatus,
         NEW copy \in SubtopicMastery \cup {NoRow},
         turn' = [turn EXCEPT ![t] =
                    [turn[t] EXCEPT
                       !.stage = [@ EXCEPT !["mastery_write"] = status],
                       !.mastery = copy]]
  PROVE  Moves(t, "mastery_write", status) /\ turn'[t].mastery = copy
<1> DEFINE s == "mastery_write"
           f == [turn[t].stage EXCEPT ![s] = status]
           r == [turn[t] EXCEPT !.stage = f, !.mastery = copy]
<1>1. /\ turn[t] \in TurnRecord /\ f \in [StageName -> StageStatus]
      /\ s \in StageName
  BY StageSet DEF TypeOK, StageName
<1> HIDE DEF f
<1>2. r \in TurnRecord
  BY <1>1, StageSet, RecordMoved
<1>3. /\ r.pc = turn[t].pc /\ r.grade = turn[t].grade /\ r.stage = f
      /\ r.mastery = copy /\ r.review = turn[t].review
      /\ r.entry = turn[t].entry
  BY <1>1 DEF TurnRecord
<1>4. turn' = [turn EXCEPT ![t] = r]
  BY DEF f
<1> HIDE DEF r
<1>5. Successor(t, s, status, r)
  BY <1>2, <1>3 DEF Successor, f
<1>6. Moves(t, s, status) /\ turn'[t] = r
  BY <1>1, <1>4, <1>5, TurnMoves
<1>7. QED
  BY <1>3, <1>6

LEMMA ReviewMoves ==
  ASSUME TypeOK, NEW t \in Turns, NEW status \in StageStatus,
         NEW copy \in ReviewState \cup {NoRow},
         turn' = [turn EXCEPT ![t] =
                    [turn[t] EXCEPT
                       !.stage = [@ EXCEPT !["review_record"] = status],
                       !.review = copy]]
  PROVE  Moves(t, "review_record", status) /\ turn'[t].review = copy
<1> DEFINE s == "review_record"
           f == [turn[t].stage EXCEPT ![s] = status]
           r == [turn[t] EXCEPT !.stage = f, !.review = copy]
<1>1. /\ turn[t] \in TurnRecord /\ f \in [StageName -> StageStatus]
      /\ s \in StageName
  BY StageSet DEF TypeOK, StageName
<1> HIDE DEF f
<1>2. r \in TurnRecord
  BY <1>1, StageSet, RecordMoved
<1>3. /\ r.pc = turn[t].pc /\ r.grade = turn[t].grade /\ r.stage = f
      /\ r.mastery = turn[t].mastery /\ r.review = copy
      /\ r.entry = turn[t].entry
  BY <1>1 DEF TurnRecord
<1>4. turn' = [turn EXCEPT ![t] = r]
  BY DEF f
<1> HIDE DEF r
<1>5. Successor(t, s, status, r)
  BY <1>2, <1>3 DEF Successor, f
<1>6. Moves(t, s, status) /\ turn'[t] = r
  BY <1>1, <1>4, <1>5, TurnMoves
<1>7. QED
  BY <1>3, <1>6

LEMMA EntryMoves ==
  ASSUME TypeOK, NEW t \in Turns, NEW status \in StageStatus,
         NEW copy \in RegistryEntry \cup {NoRow},
         turn' = [turn EXCEPT ![t] =
                    [turn[t] EXCEPT
                       !.stage = [@ EXCEPT !["diagnosis"] = status],
                       !.entry = copy]]
  PROVE  Moves(t, "diagnosis", status) /\ turn'[t].entry = copy
<1> DEFINE s == "diagnosis"
           f == [turn[t].stage EXCEPT ![s] = status]
           r == [turn[t] EXCEPT !.stage = f, !.entry = copy]
<1>1. /\ turn[t] \in TurnRecord /\ f \in [StageName -> StageStatus]
      /\ s \in StageName
  BY StageSet DEF TypeOK, StageName
<1> HIDE DEF f
<1>2. r \in TurnRecord
  BY <1>1, StageSet, RecordMoved
<1>3. /\ r.pc = turn[t].pc /\ r.grade = turn[t].grade /\ r.stage = f
      /\ r.mastery = turn[t].mastery /\ r.review = turn[t].review
      /\ r.entry = copy
  BY <1>1 DEF TurnRecord
<1>4. turn' = [turn EXCEPT ![t] = r]
  BY DEF f
<1> HIDE DEF r
<1>5. Successor(t, s, status, r)
  BY <1>2, <1>3 DEF Successor, f
<1>6. Moves(t, s, status) /\ turn'[t] = r
  BY <1>1, <1>4, <1>5, TurnMoves
<1>7. QED
  BY <1>3, <1>6

\* What a stage may go on to from "waiting" or "read".
MayReach(t, s, status) ==
  /\ status \in {"read", "wrote", "skipped", "raised"}
  /\ status \in {"read", "wrote"} =>
       /\ s = "mastery_write" => TrustedForMastery(turn[t].grade)
       /\ s = "diagnosis" => turn[t].grade.diagnosis # NoMisconception
  /\ status = "read" => s \in RowStage
  /\ status = "skipped" => s \in {"mastery_write", "diagnosis"}

Undone(t, s) == Grading(t) /\ turn[t].stage[s] \in {"waiting", "read"}

LEMMA MoveSafe ==
  ASSUME TypeOK, Placed, Tidy, Alone, NEW t \in Turns, NEW s \in StageName,
         NEW status, Moves(t, s, status), Undone(t, s), MayReach(t, s, status),
         UNCHANGED <<job, eraser, gone, alone>>
  PROVE  Placed' /\ Tidy' /\ Alone'
<1>1. turn[t].stage \in [StageName -> StageStatus]
  BY DEF TypeOK, TurnRecord
<1>2. \A z \in StageName :
        turn'[t].stage[z] = IF z = s THEN status ELSE turn[t].stage[z]
  BY <1>1 DEF Moves
<1>3. StagesPlaced(turn'[t])
  <2>1. /\ StagesPlaced(turn[t]) /\ turn[t].pc = "grading"
        /\ turn[t].stage[s] \in {"waiting", "read"}
    BY DEF Placed, Undone, Grading
  <2>2. \A z \in StageName :
          turn'[t].stage[z] # "absent" <=> z \in StagesOf(turn'[t].grade)
    BY <1>2, <2>1 DEF StagesPlaced, MayReach, Moves
  <2>3. turn'[t].stage["mastery_write"] \in {"read", "wrote"} =>
          TrustedForMastery(turn'[t].grade)
    BY <1>2, <2>1 DEF StagesPlaced, MayReach, Moves, StageName
  <2>4. turn'[t].stage["diagnosis"] \in {"read", "wrote"} =>
          turn'[t].grade.diagnosis # NoMisconception
    BY <1>2, <2>1 DEF StagesPlaced, MayReach, Moves, StageName
  <2>5. turn'[t].stage["review_record"] # "skipped"
    BY <1>2, <2>1 DEF StagesPlaced, MayReach, StageName
  <2>6. \A z \in {"review_queue_write", "response_log_write"} :
          turn'[t].stage[z] \notin {"read", "skipped"}
    BY <1>2, <2>1 DEF StagesPlaced, MayReach, StageName, RowStage
  <2>7. QED
    BY <2>1, <2>2, <2>3, <2>4, <2>5, <2>6 DEF StagesPlaced, Moves
<1>4. Placed'
  BY <1>3 DEF Placed, Moves
<1>5. \A u \in Turns, z \in StageName :
        turn[u].stage[z] = "wrote" => turn'[u].stage[z] = "wrote"
  BY <1>2 DEF Moves, Undone
<1>6. Tidy'
  <2>1. ASSUME NEW w \in gone
        PROVE  /\ w \in Turns \X StageName
               /\ turn'[w[1]].stage[w[2]] = "wrote"
    BY <1>5 DEF Tidy
  <2>2. QED
    BY <2>1 DEF Tidy
<1>7. \A u \in Turns : Grading(u)' <=> Grading(u)
  BY DEF Moves, Grading
<1>8. Alone'
  BY <1>7 DEF Alone, NobodyElse, NobodyElseJob, JobRuns, EraserRuns
<1>9. QED
  BY <1>4, <1>6, <1>8

LEMMA MoveWrites ==
  ASSUME TypeOK, Tidy, NEW t \in Turns, NEW s \in StageName, NEW status,
         Moves(t, s, status), Undone(t, s), gone' = gone, NEW z \in StageName
  PROVE  /\ Wrote(z)' = IF z = s /\ status = "wrote" THEN Wrote(z) \cup {t}
                        ELSE Wrote(z)
         /\ Kept(z)' = IF z = s /\ status = "wrote" THEN Kept(z) \cup {t}
                       ELSE Kept(z)
<1>1. turn[t].stage \in [StageName -> StageStatus]
  BY DEF TypeOK, TurnRecord
<1>2. turn'[t].stage[z] = IF z = s THEN status ELSE turn[t].stage[z]
  BY <1>1 DEF Moves
<1>3. z = s => turn[t].stage[z] # "wrote" /\ <<t, z>> \notin gone
  BY DEF Undone, Tidy
<1>4. \A u \in Turns : turn'[u].stage[z] =
                         IF u = t /\ z = s THEN status ELSE turn[u].stage[z]
  BY <1>2 DEF Moves
<1>5. Wrote(z)' = IF z = s /\ status = "wrote" THEN Wrote(z) \cup {t}
                  ELSE Wrote(z)
  BY <1>3, <1>4 DEF Wrote
<1>6. QED
  BY <1>3, <1>5 DEF Kept

\* No move of a stage but the write of its table disturbs the rows.
LEMMA MoveStill ==
  ASSUME TypeOK, Placed, Tidy, NEW t \in Turns, NEW s \in StageName,
         NEW status, Moves(t, s, status), Undone(t, s),
         gone' = gone, job' = job, NEW z \in RowStage,
         \A k \in Keys(z) : Row(z, k)' = Row(z, k),
         \/ z # s \/ status \in {"raised", "skipped"}
         \/ /\ status = "read" /\ Key(t, s) \in Keys(s)
            /\ Held(t, s)' = Row(s, Key(t, s))
  PROVE  Still(z)
<1>1. z \in StageName
  BY DEF RowStage, StageName
<1>2. Wrote(z)' = Wrote(z)
  BY <1>1, MoveWrites
<1>3. \A u \in Turns : turn'[u].grade = turn[u].grade
  BY DEF Moves
<1>4. SameWrites(z)
  BY <1>2, <1>3 DEF SameWrites, Wrote
<1>5. ASSUME NEW u \in Turns, Reads(u, z)'
      PROVE  /\ Key(u, z) \in Keys(z)
             /\ \/ Reads(u, z) /\ Held(u, z)' = Held(u, z)
                \/ Held(u, z)' = Row(z, Key(u, z))
  <2>1. CASE u # t
    <3>1. turn'[u] = turn[u]
      BY <2>1 DEF Moves
    <3>2. Reads(u, z) /\ Held(u, z)' = Held(u, z)
      BY <1>5, <3>1 DEF Reads, Grading, Held
    <3>3. QED
      BY <3>2, RowsTyped DEF Reads
  <2>2. CASE u = t /\ z # s
    <3>1. turn[t].stage \in [StageName -> StageStatus]
      BY DEF TypeOK, TurnRecord
    <3>2. Reads(u, z)
      BY <1>1, <1>5, <2>2, <3>1 DEF Reads, Grading, Moves
    <3>3. Held(u, z)' = Held(u, z)
      BY <2>2 DEF Moves
    <3>4. QED
      BY <3>2, <3>3, RowsTyped DEF Reads
  <2>3. CASE u = t /\ z = s
    <3>1. turn[t].stage \in [StageName -> StageStatus]
      BY DEF TypeOK, TurnRecord
    <3>2. turn'[t].stage[z] = status
      BY <2>3, <3>1 DEF Moves
    <3>3. QED
      BY <1>5, <2>3, <3>2 DEF Reads
  <2>4. QED
    BY <2>1, <2>2, <2>3
<1>6. \A e \in JobHolds(z)' : e \in JobHolds(z) /\ e[1] \in Keys(z)
  <2>1. JobHolds(z)' = JobHolds(z)
    BY DEF JobHolds
  <2>2. QED
    BY <2>1, RowsTyped
<1>7. \A k \in Keys(z) : SameRow(z, Row(z, k)', Row(z, k))
  BY SameRowItself
<1>8. QED
  BY <1>3, <1>4, <1>5, <1>6, <1>7 DEF Still

LEMMA QuietMove ==
  ASSUME IInv, NEW t \in Turns, NEW s \in StageName, NEW status,
         Moves(t, s, status), Undone(t, s), MayReach(t, s, status),
         status # "wrote",
         status = "read" => /\ Key(t, s) \in Keys(s)
                            /\ Held(t, s)' = Row(s, Key(t, s)),
         failures' \in 0 .. MaxFailures,
         UNCHANGED <<tables, job, eraser, background, gone, alone>>
  PROVE  IInv'
<1>1. Placed' /\ Tidy' /\ Alone'
  BY MoveSafe DEF IInv
<1>2. \A z \in RowStage : \A k : Row(z, k)' = Row(z, k)
  BY DEF Row, tables
<1>3. ASSUME NEW z \in RowStage
      PROVE  Still(z)
  <2>1. z # s \/ status \in {"raised", "skipped"} \/ status = "read"
    BY DEF MayReach
  <2>2. QED
    BY <1>2, <2>1, MoveStill DEF IInv
<1>4. Earned' /\ Exact'
  BY <1>3, EffectKeeps DEF Effect
<1>5. Appended'
  <2>1. \A z \in StageName : Kept(z)' = Kept(z)
    BY MoveWrites DEF IInv
  <2>2. QED
    BY <2>1 DEF IInv, Appended, tables, StageName
<1>6. Fresh'
  BY DEF IInv, Fresh, tables
<1>7. TypeOK'
  BY DEF IInv, TypeOK, tables, Moves
<1>8. QED
  BY <1>1, <1>4, <1>5, <1>6, <1>7 DEF IInv

LEMMA ReadMasteryStep ==
  ASSUME IInv, NEW t \in Turns, ReadMastery(t)
  PROVE  IInv'
<1> DEFINE g == turn[t].grade
           s == "mastery_write"
<1>1. Undone(t, s) /\ s \in StageName
  BY DEF ReadMastery, At, Undone, StageName
<1>2. CASE TrustedForMastery(g)
  <2>1. g.topic \in Topics
    BY <1>2, RecordConstants
       DEF IInv, TypeOK, TurnRecord, MarkResult, TrustedForMastery
  <2>2. mastery[g.topic] \in SubtopicMastery \cup {NoRow}
    BY <2>1 DEF IInv, TypeOK
  <2>3. Moves(t, s, "read") /\ turn'[t].mastery = mastery[g.topic]
    <3>1. turn' = [turn EXCEPT ![t] =
                      [turn[t] EXCEPT
                         !.stage = [@ EXCEPT ![s] = "read"],
                         !.mastery = mastery[g.topic]]]
      BY <1>2 DEF ReadMastery
    <3>2. TypeOK /\ s \in StageName /\ "read" \in StageStatus
      BY DEF IInv, StageName, StageStatus
    <3>3. QED
      BY <2>2, <3>1, <3>2, MasteryMoves
  <2>4. Key(t, s) \in Keys(s) /\ Held(t, s)' = Row(s, Key(t, s))
    BY <2>1, <2>3 DEF Key, Keys, Held, Row
  <2>5. MayReach(t, s, "read")
    BY <1>2 DEF MayReach, RowStage
  <2>6. QED
    BY <1>1, <2>3, <2>4, <2>5, QuietMove DEF ReadMastery, IInv, TypeOK
<1>3. CASE ~TrustedForMastery(g)
  <2>1. Moves(t, s, "skipped")
    BY <1>3, StageMoves DEF IInv, ReadMastery, StageName, StageStatus
  <2>2. MayReach(t, s, "skipped")
    BY DEF MayReach
  <2>3. QED
    BY <1>1, <2>1, <2>2, QuietMove DEF ReadMastery, IInv, TypeOK
<1>4. QED
  BY <1>2, <1>3

LEMMA ReadReviewStep ==
  ASSUME IInv, NEW t \in Turns, ReadReview(t)
  PROVE  IInv'
<1> DEFINE g == turn[t].grade
           s == "review_record"
<1>1. Undone(t, s) /\ s \in StageName
  BY DEF ReadReview, At, Undone, StageName
<1>2. g.topic \in Topics
  <2>1. s \in StagesOf(g)
    BY <1>1 DEF IInv, Placed, StagesPlaced, Undone, Grading
  <2>2. g.topic # NoTopic
    BY <2>1 DEF StagesOf
  <2>3. QED
    BY <2>2, RecordConstants DEF IInv, TypeOK, TurnRecord, MarkResult
<1>3. review[g.topic] \in ReviewState \cup {NoRow}
  BY <1>2 DEF IInv, TypeOK
<1>4. Moves(t, s, "read") /\ turn'[t].review = review[g.topic]
  <2>1. turn' = [turn EXCEPT ![t] =
                    [turn[t] EXCEPT
                       !.stage = [@ EXCEPT ![s] = "read"],
                       !.review = review[g.topic]]]
    BY DEF ReadReview
  <2>2. TypeOK /\ s \in StageName /\ "read" \in StageStatus
    BY DEF IInv, StageName, StageStatus
  <2>3. QED
    BY <1>3, <2>1, <2>2, ReviewMoves
<1>5. Key(t, s) \in Keys(s) /\ Held(t, s)' = Row(s, Key(t, s))
  BY <1>2, <1>4 DEF Key, Keys, Held, Row
<1>6. MayReach(t, s, "read")
  BY DEF MayReach, RowStage
<1>7. QED
  BY <1>1, <1>4, <1>5, <1>6, QuietMove DEF ReadReview, IInv, TypeOK

LEMMA ReadRegistryStep ==
  ASSUME IInv, NEW t \in Turns, ReadRegistry(t)
  PROVE  IInv'
<1> DEFINE g == turn[t].grade
           s == "diagnosis"
<1>1. Undone(t, s) /\ s \in StageName
  BY DEF ReadRegistry, At, Undone, StageName
<1>2. CASE g.diagnosis # NoMisconception
  <2>1. g.diagnosis \in Misconceptions
    BY <1>2, RecordConstants DEF IInv, TypeOK, TurnRecord, MarkResult
  <2>2. registry[g.diagnosis] \in RegistryEntry \cup {NoRow}
    BY <2>1 DEF IInv, TypeOK
  <2>3. Moves(t, s, "read") /\ turn'[t].entry = registry[g.diagnosis]
    <3>1. turn' = [turn EXCEPT ![t] =
                      [turn[t] EXCEPT
                         !.stage = [@ EXCEPT ![s] = "read"],
                         !.entry = registry[g.diagnosis]]]
      BY <1>2 DEF ReadRegistry
    <3>2. TypeOK /\ s \in StageName /\ "read" \in StageStatus
      BY DEF IInv, StageName, StageStatus
    <3>3. QED
      BY <2>2, <3>1, <3>2, EntryMoves
  <2>4. Key(t, s) \in Keys(s) /\ Held(t, s)' = Row(s, Key(t, s))
    BY <2>1, <2>3 DEF Key, Keys, Held, Row
  <2>5. MayReach(t, s, "read")
    BY <1>2 DEF MayReach, RowStage
  <2>6. QED
    BY <1>1, <2>3, <2>4, <2>5, QuietMove DEF ReadRegistry, IInv, TypeOK
<1>3. CASE g.diagnosis = NoMisconception
  <2>1. Moves(t, s, "skipped")
    BY <1>3, StageMoves DEF IInv, ReadRegistry, StageName, StageStatus
  <2>2. MayReach(t, s, "skipped")
    BY DEF MayReach
  <2>3. QED
    BY <1>1, <2>1, <2>2, QuietMove DEF ReadRegistry, IInv, TypeOK
<1>4. QED
  BY <1>2, <1>3

LEMMA StageRaisesStep ==
  ASSUME IInv, NEW t \in Turns, NEW s \in StageName, StageRaises(t, s)
  PROVE  IInv'
<1>1. Moves(t, s, "raised")
  BY StageMoves DEF IInv, StageRaises, StageStatus
<1>2. Undone(t, s) /\ MayReach(t, s, "raised")
  BY DEF StageRaises, Undone, MayReach
<1>3. failures' \in 0 .. MaxFailures
  BY RecordConstants DEF StageRaises, IInv, TypeOK
<1>4. QED
  BY <1>1, <1>2, <1>3, QuietMove DEF StageRaises

LEMMA RowWrite ==
  ASSUME IInv, NEW t \in Turns, NEW s \in RowStage,
         Moves(t, s, "wrote"), Reads(t, s),
         UNCHANGED <<queue, responses, job, eraser, gone, alone>>,
         \A z \in RowStage \ {s} : \A k \in Keys(z) : Row(z, k)' = Row(z, k),
         \A k \in Keys(s) :
           Row(s, k)' = IF k = Key(t, s)
                        THEN After(s, Held(t, s), turn[t].grade.correct)
                        ELSE Row(s, k),
         TypeOK', Fresh'
  PROVE  IInv'
<1>1. s \in StageName /\ Undone(t, s)
  BY DEF RowStage, StageName, Reads, Undone
<1>2. MayReach(t, s, "wrote")
  BY <1>1 DEF IInv, Placed, StagesPlaced, MayReach, Reads
<1>3. Placed' /\ Tidy' /\ Alone'
  BY <1>1, <1>2, MoveSafe DEF IInv
<1>4. Writes(t, s)
  <2>1. Wrote(s)' = Wrote(s) \cup {t}
    BY <1>1, MoveWrites DEF IInv
  <2>2. \A u \in Turns : turn'[u].grade = turn[u].grade
    BY DEF Moves
  <2>3. \A u \in Turns : Reads(u, s)' <=> Reads(u, s) /\ u # t
    BY <1>1 DEF Moves, Reads, Grading, IInv, TypeOK, TurnRecord
  <2>4. \A u \in Turns \ {t} : Held(u, s)' = Held(u, s)
    BY DEF Moves, Held
  <2>5. JobHolds(s)' = JobHolds(s)
    BY DEF JobHolds
  <2>6. QED
    BY <2>1, <2>2, <2>3, <2>4, <2>5 DEF Writes
<1>5. ASSUME NEW z \in RowStage, z # s
      PROVE  Still(z)
  BY <1>1, <1>5, MoveStill DEF IInv
<1>6. Earned' /\ Exact'
  BY <1>4, <1>5, EffectKeeps DEF Effect
<1>7. Appended'
  <2>1. \A z \in StageName \ RowStage : Kept(z)' = Kept(z)
    BY <1>1, MoveWrites DEF IInv
  <2>2. QED
    BY <2>1 DEF IInv, Appended, StageName, RowStage
<1>8. QED
  BY <1>3, <1>6, <1>7 DEF IInv

LEMMA WriteMasteryStep ==
  ASSUME IInv, NEW t \in Turns, WriteMastery(t)
  PROVE  IInv'
<1> DEFINE s == "mastery_write"
           g == turn[t].grade
           new == After(s, Held(t, s), g.correct)
<1>1. s \in RowStage /\ Reads(t, s)
  BY DEF WriteMastery, At, RowStage, Reads
<1>2. Moves(t, s, "wrote")
  <2>1. turn' = [turn EXCEPT ![t] =
                   [turn[t] EXCEPT !.stage = [@ EXCEPT ![s] = "wrote"],
                                   !.mastery = NoRow]]
    BY DEF WriteMastery
  <2>2. TypeOK /\ "wrote" \in StageStatus
    BY DEF IInv, StageStatus
  <2>3. QED
    BY <2>1, <2>2, MasteryMoves
<1>3. /\ Key(t, s) \in Keys(s) /\ Held(t, s) \in RowType(s) \cup {NoRow}
  BY <1>1, RowsTyped DEF IInv, Reads
<1>4. new \in RowType(s)
  BY <1>1, <1>3, AfterCounts DEF IInv, TypeOK
<1>5. \A k \in Keys(s) : Row(s, k)' = IF k = Key(t, s) THEN new ELSE Row(s, k)
  BY <1>3 DEF WriteMastery, IInv, TypeOK, Keys, Key, Held, Row, After
<1>6. TypeOK'
  <2>1. mastery' = [mastery EXCEPT ![g.topic] = new]
    BY DEF WriteMastery, After, Held
  <2>2. new \in SubtopicMastery /\ g.topic \in Topics
    BY <1>3, <1>4 DEF RowType, Key, Keys
  <2> HIDE DEF new
  <2>3. mastery' \in [Topics -> SubtopicMastery \cup {NoRow}]
    BY <2>1, <2>2 DEF IInv, TypeOK
  <2>4. QED
    BY <1>2, <2>3 DEF WriteMastery, IInv, TypeOK, Moves
<1>7. \A z \in RowStage \ {s} : \A k \in Keys(z) : Row(z, k)' = Row(z, k)
  BY DEF WriteMastery, Row, RowStage
<1>8. Fresh'
  BY DEF WriteMastery, IInv, Fresh
<1> HIDE DEF s
<1>9. QED
  BY <1>1, <1>2, <1>5, <1>6, <1>7, <1>8, RowWrite DEF WriteMastery

LEMMA WriteReviewStep ==
  ASSUME IInv, NEW t \in Turns, WriteReview(t)
  PROVE  IInv'
<1> DEFINE s == "review_record"
           g == turn[t].grade
           new == After(s, Held(t, s), g.correct)
<1>1. s \in RowStage /\ Reads(t, s)
  BY DEF WriteReview, At, RowStage, Reads
<1>2. Moves(t, s, "wrote")
  <2>1. turn' = [turn EXCEPT ![t] =
                   [turn[t] EXCEPT !.stage = [@ EXCEPT ![s] = "wrote"],
                                   !.review = NoRow]]
    BY DEF WriteReview
  <2>2. TypeOK /\ "wrote" \in StageStatus
    BY DEF IInv, StageStatus
  <2>3. QED
    BY <2>1, <2>2, ReviewMoves
<1>3. /\ Key(t, s) \in Keys(s) /\ Held(t, s) \in RowType(s) \cup {NoRow}
  BY <1>1, RowsTyped DEF IInv, Reads
<1>4. new \in RowType(s)
  BY <1>1, <1>3, AfterCounts DEF IInv, TypeOK
<1>5. \A k \in Keys(s) : Row(s, k)' = IF k = Key(t, s) THEN new ELSE Row(s, k)
  BY <1>3 DEF WriteReview, IInv, TypeOK, Keys, Key, Held, Row, After
<1>6. TypeOK'
  <2>1. review' = [review EXCEPT ![g.topic] = new]
    BY DEF WriteReview, After, Held
  <2>2. new \in ReviewState /\ g.topic \in Topics
    BY <1>3, <1>4 DEF RowType, Key, Keys
  <2> HIDE DEF new
  <2>3. review' \in [Topics -> ReviewState \cup {NoRow}]
    BY <2>1, <2>2 DEF IInv, TypeOK
  <2>4. QED
    BY <1>2, <2>3 DEF WriteReview, IInv, TypeOK, Moves
<1>7. \A z \in RowStage \ {s} : \A k \in Keys(z) : Row(z, k)' = Row(z, k)
  BY DEF WriteReview, Row, RowStage
<1>8. Fresh'
  BY DEF WriteReview, IInv, Fresh
<1> HIDE DEF s
<1>9. QED
  BY <1>1, <1>2, <1>5, <1>6, <1>7, <1>8, RowWrite DEF WriteReview

LEMMA WriteRegistryStep ==
  ASSUME IInv, NEW t \in Turns, WriteRegistry(t)
  PROVE  IInv'
<1> DEFINE s == "diagnosis"
           g == turn[t].grade
           new == After(s, Held(t, s), g.correct)
<1>1. s \in RowStage /\ Reads(t, s)
  BY DEF WriteRegistry, At, RowStage, Reads
<1>2. Moves(t, s, "wrote")
  <2>1. turn' = [turn EXCEPT ![t] =
                   [turn[t] EXCEPT !.stage = [@ EXCEPT ![s] = "wrote"],
                                   !.entry = NoRow]]
    BY DEF WriteRegistry
  <2>2. TypeOK /\ "wrote" \in StageStatus
    BY DEF IInv, StageStatus
  <2>3. QED
    BY <2>1, <2>2, EntryMoves
<1>3. /\ Key(t, s) \in Keys(s) /\ Held(t, s) \in RowType(s) \cup {NoRow}
  BY <1>1, RowsTyped DEF IInv, Reads
<1>4. new \in RowType(s)
  BY <1>1, <1>3, AfterCounts DEF IInv, TypeOK
<1>5. \A k \in Keys(s) : Row(s, k)' = IF k = Key(t, s) THEN new ELSE Row(s, k)
  BY <1>3 DEF WriteRegistry, IInv, TypeOK, Keys, Key, Held, Row, After
<1>6. TypeOK'
  <2>1. registry' = [registry EXCEPT ![g.diagnosis] = new]
    BY DEF WriteRegistry, After, Held
  <2>2. new \in RegistryEntry /\ g.diagnosis \in Misconceptions
    BY <1>3, <1>4 DEF RowType, Key, Keys
  <2> HIDE DEF new
  <2>3. registry' \in [Misconceptions -> RegistryEntry \cup {NoRow}]
    BY <2>1, <2>2 DEF IInv, TypeOK
  <2>4. QED
    BY <1>2, <2>3 DEF WriteRegistry, IInv, TypeOK, Moves
<1>7. \A z \in RowStage \ {s} : \A k \in Keys(z) : Row(z, k)' = Row(z, k)
  BY DEF WriteRegistry, Row, RowStage
<1>8. Fresh'
  <2>1. turn[t].entry \in RegistryEntry \cup {NoRow}
    BY <1>3 DEF Held, RowType
  <2>2. turn[t].entry # NoRow => turn[t].entry.occurrences >= 1
    <3>1. RowEarned(s, Key(t, s), Held(t, s))
      BY <1>1 DEF IInv, Earned, EarnedIn
    <3>2. Held(t, s) # NoRow => Total(s, Held(t, s)) >= 1
      BY <3>1 DEF RowEarned, Bounded
    <3>3. QED
      BY <3>2 DEF Held, Total
  <2>3. /\ new = AfterDiagnosis(turn[t].entry)
        /\ new.remediated => turn[t].entry # NoRow
        /\ turn[t].entry # NoRow =>
             new.occurrences = turn[t].entry.occurrences + 1
    BY <2>1, DiagnosisCounts DEF After, Held
  <2>4. turn[t].entry # NoRow => turn[t].entry.occurrences \in Nat
    BY <2>1 DEF RegistryEntry
  <2> HIDE DEF new
  <2>5. FirstKept(new)
    BY <2>2, <2>3, <2>4 DEF FirstKept
  <2>6. \A m \in Misconceptions : registry'[m] = Row(s, m)'
    BY DEF Row
  <2>7. \A m \in Misconceptions : FirstKept(registry'[m])
    BY <1>5, <2>5, <2>6 DEF IInv, Fresh, Keys, Row
  <2>8. QED
    BY <2>7 DEF WriteRegistry, IInv, Fresh, FirstKept
<1> HIDE DEF s
<1>9. QED
  BY <1>1, <1>2, <1>5, <1>6, <1>7, <1>8, RowWrite DEF WriteRegistry

LEMMA AppendWrite ==
  ASSUME IInv, NEW t \in Turns,
         NEW s \in {"review_queue_write", "response_log_write"},
         At(t, s, "waiting"),
         turn' = [turn EXCEPT ![t].stage[s] = "wrote"],
         queue' = IF s = "review_queue_write" THEN queue \cup {t} ELSE queue,
         responses' = IF s = "response_log_write" THEN responses \cup {t}
                      ELSE responses,
         UNCHANGED <<mastery, review, registry, job, eraser, failures,
                     background, gone, alone>>
  PROVE  IInv'
<1>1. s \in StageName \ RowStage /\ Undone(t, s) /\ MayReach(t, s, "wrote")
  BY DEF StageName, RowStage, At, Undone, MayReach
<1>2. Moves(t, s, "wrote")
  BY <1>1, StageMoves DEF IInv, StageStatus
<1>3. Placed' /\ Tidy' /\ Alone'
  BY <1>1, <1>2, MoveSafe DEF IInv
<1>4. \A z \in RowStage : \A k : Row(z, k)' = Row(z, k)
  BY DEF Row
<1>5. ASSUME NEW z \in RowStage
      PROVE  Still(z)
  BY <1>1, <1>2, <1>4, MoveStill DEF IInv
<1>6. Earned' /\ Exact'
  BY <1>5, EffectKeeps DEF Effect
<1>7. Appended'
  <2>1. \A z \in StageName :
          Kept(z)' = IF z = s THEN Kept(z) \cup {t} ELSE Kept(z)
    BY <1>1, <1>2, MoveWrites DEF IInv
  <2>2. QED
    BY <2>1 DEF IInv, Appended, StageName
<1>8. Fresh'
  BY DEF IInv, Fresh, FirstKept
<1>9. TypeOK'
  BY <1>2 DEF IInv, TypeOK, Moves
<1>10. QED
  BY <1>3, <1>6, <1>7, <1>8, <1>9 DEF IInv

LEMMA AppendStep ==
  ASSUME IInv, NEW t \in Turns, WriteQueue(t) \/ WriteResponse(t)
  PROVE  IInv'
<1>1. CASE WriteQueue(t)
  BY <1>1, AppendWrite DEF WriteQueue
<1>2. CASE WriteResponse(t)
  BY <1>2, AppendWrite DEF WriteResponse
<1>3. QED
  BY <1>1, <1>2

-----------------------------------------------------------------------------
\* A turn that begins or ends: it reads nothing and its writes stay.
LEMMA QuietTurn ==
  ASSUME IInv, NEW t \in Turns,
         \A u \in Turns \ {t} : turn'[u] = turn[u],
         \A z \in StageName :
           /\ ~Reads(t, z)'
           /\ turn'[t].stage[z] = "wrote" <=> turn[t].stage[z] = "wrote"
           /\ turn[t].stage[z] = "wrote" => turn'[t].grade = turn[t].grade,
         UNCHANGED <<tables, job, gone>>, alone' => alone,
         TypeOK', Placed', Alone'
  PROVE  IInv'
<1>1. \A z \in StageName, u \in Turns :
        turn'[u].stage[z] = "wrote" <=> turn[u].stage[z] = "wrote"
  OBVIOUS
<1>2. \A z \in StageName : Wrote(z)' = Wrote(z) /\ Kept(z)' = Kept(z)
  BY <1>1 DEF Wrote, Kept
<1>3. Tidy'
  <2>1. \A w \in gone : /\ w \in Turns \X StageName
                        /\ turn'[w[1]].stage[w[2]] = "wrote"
    BY <1>1 DEF IInv, Tidy
  <2>2. QED
    BY <2>1 DEF IInv, Tidy
<1>4. ASSUME NEW z \in RowStage
      PROVE  Still(z)
  <2>1. z \in StageName
    BY DEF RowStage, StageName
  <2>2. SameWrites(z)
    BY <1>2, <2>1 DEF SameWrites, Wrote
  <2>3. ASSUME NEW u \in Turns, Reads(u, z)'
        PROVE  /\ turn'[u].grade = turn[u].grade
               /\ Key(u, z) \in Keys(z)
               /\ Reads(u, z) /\ Held(u, z)' = Held(u, z)
    <3>1. turn'[u] = turn[u]
      BY <2>1, <2>3
    <3>2. Reads(u, z) /\ Held(u, z)' = Held(u, z)
      BY <2>3, <3>1 DEF Reads, Grading, Held
    <3>3. QED
      BY <3>1, <3>2, RowsTyped DEF IInv, Reads
  <2>4. /\ \A e \in JobHolds(z)' : e \in JobHolds(z) /\ e[1] \in Keys(z)
        /\ \A k \in Keys(z) : SameRow(z, Row(z, k)', Row(z, k))
    <3>1. JobHolds(z)' = JobHolds(z) /\ \A k : Row(z, k)' = Row(z, k)
      BY DEF JobHolds, Row, tables
    <3>2. QED
      BY <3>1, RowsTyped, SameRowItself DEF IInv
  <2>5. QED
    BY <2>2, <2>3, <2>4 DEF Still
<1>5. Earned' /\ Exact'
  BY <1>4, EffectKeeps DEF Effect
<1>6. Appended' /\ Fresh'
  BY <1>2 DEF IInv, Appended, Fresh, FirstKept, tables, StageName
<1>7. QED
  BY <1>3, <1>5, <1>6 DEF IInv

LEMMA GradeStep ==
  ASSUME IInv, NEW t \in Turns, NEW g \in Grades, Grade(t, g)
  PROVE  IInv'
<1> DEFINE f == [s \in StageName |->
                   IF s \in StagesOf(g) THEN "waiting" ELSE "absent"]
           r == [Ungraded EXCEPT !.pc = "grading", !.grade = g, !.stage = f]
<1>1. turn \in [Turns -> TurnRecord] /\ turn[t].pc = "unborn"
  BY DEF Grade, IInv, TypeOK
<1>2. turn' = [turn EXCEPT ![t] = r]
  BY DEF Grade
<1>3. /\ r.pc = "grading" /\ r.grade = g /\ r.stage = f
      /\ r.mastery = NoRow /\ r.review = NoRow /\ r.entry = NoRow
      /\ r \in TurnRecord
  BY DEF Ungraded, TurnRecord, StageStatus
<1>4. StagesPlaced(r)
  BY <1>3 DEF StagesPlaced, StagesOf, StageName
<1>5. turn[t].stage = [s \in StageName |-> "absent"]
  BY <1>1 DEF IInv, Placed, StagesPlaced
<1> HIDE DEF r
<1>6. turn'[t] = r /\ \A u \in Turns \ {t} : turn'[u] = turn[u]
  BY <1>1, <1>2
<1>7. TypeOK'
  <2>1. turn' \in [Turns -> TurnRecord]
    BY <1>1, <1>2, <1>3
  <2>2. alone' \in BOOLEAN
    BY DEF Grade, IInv, TypeOK
  <2>3. QED
    BY <2>1, <2>2 DEF Grade, IInv, TypeOK, tables
<1>8. Placed'
  BY <1>4, <1>6 DEF IInv, Placed
<1>9. Alone'
  <2>1. \A u \in Turns : Grading(u)' <=> Grading(u) \/ u = t
    BY <1>1, <1>3, <1>6 DEF Grading
  <2>2. alone' => alone /\ NobodyElse(t) /\ job' = job /\ eraser' = eraser
    BY DEF Grade
  <2>3. ~Grading(t)
    BY <1>1 DEF Grading
  <2>4. QED
    BY <2>1, <2>2, <2>3
       DEF IInv, Alone, NobodyElse, NobodyElseJob, JobRuns, EraserRuns
<1>10. \A z \in StageName :
         /\ ~Reads(t, z)'
         /\ turn'[t].stage[z] = "wrote" <=> turn[t].stage[z] = "wrote"
         /\ turn[t].stage[z] # "wrote"
  BY <1>3, <1>5, <1>6 DEF Reads
<1>11. UNCHANGED <<tables, job, gone>> /\ (alone' => alone)
  BY DEF Grade
<1>12. QED
  BY <1>6, <1>7, <1>8, <1>9, <1>10, <1>11, QuietTurn

LEMMA DeliverStep ==
  ASSUME IInv, NEW t \in Turns, Deliver(t)
  PROVE  IInv'
<1> DEFINE r == [turn[t] EXCEPT !.pc = "delivered"]
<1>1. turn \in [Turns -> TurnRecord] /\ turn[t].pc = "grading"
  BY DEF Deliver, Grading, IInv, TypeOK
<1>2. turn' = [turn EXCEPT ![t] = r]
  BY DEF Deliver
<1>3. /\ r.pc = "delivered" /\ r.grade = turn[t].grade
      /\ r.stage = turn[t].stage /\ r \in TurnRecord
  BY <1>1 DEF TurnRecord
<1> HIDE DEF r
<1>4. turn'[t] = r /\ \A u \in Turns \ {t} : turn'[u] = turn[u]
  BY <1>1, <1>2
<1>5. TypeOK'
  <2>1. turn' \in [Turns -> TurnRecord]
    BY <1>1, <1>2, <1>3
  <2>2. QED
    BY <2>1 DEF Deliver, IInv, TypeOK, tables
<1>6. StagesPlaced(r)
  <2>1. StagesPlaced(turn[t])
    BY DEF IInv, Placed
  <2>2. \A s \in StageName : turn[t].stage[s] \notin {"waiting", "read"}
    BY DEF Deliver
  <2>3. QED
    BY <1>1, <1>3, <2>1, <2>2 DEF StagesPlaced
<1>7. Placed'
  BY <1>4, <1>6 DEF IInv, Placed
<1>8. Alone'
  <2>1. \A u \in Turns : Grading(u)' => Grading(u)
    BY <1>3, <1>4 DEF Grading
  <2>2. QED
    BY <2>1 DEF Deliver, IInv, Alone, NobodyElse, NobodyElseJob, JobRuns,
                EraserRuns
<1>9. \A z \in StageName :
        /\ ~Reads(t, z)'
        /\ turn'[t].stage[z] = "wrote" <=> turn[t].stage[z] = "wrote"
        /\ turn'[t].grade = turn[t].grade
  BY <1>3, <1>4 DEF Reads, Grading
<1>10. UNCHANGED <<tables, job, gone>> /\ alone' = alone
  BY DEF Deliver
<1>11. QED
  BY <1>4, <1>5, <1>7, <1>8, <1>9, <1>10, QuietTurn

LEMMA DieStep ==
  ASSUME IInv, NEW t \in Turns, Die(t)
  PROVE  IInv'
<1> DEFINE r == [Ungraded EXCEPT !.pc = "dead", !.grade = turn[t].grade,
                                 !.stage = turn[t].stage]
<1>1. turn \in [Turns -> TurnRecord] /\ turn[t].pc = "grading"
  BY DEF Die, Grading, IInv, TypeOK
<1>2. turn' = [turn EXCEPT ![t] = r]
  BY DEF Die
<1>3. /\ r.pc = "dead" /\ r.grade = turn[t].grade
      /\ r.stage = turn[t].stage /\ r \in TurnRecord
  <2>1. turn[t].grade \in Grades /\ turn[t].stage \in [StageName -> StageStatus]
    BY <1>1 DEF TurnRecord
  <2>2. QED
    BY <2>1 DEF Ungraded, TurnRecord
<1> HIDE DEF r
<1>4. turn'[t] = r /\ \A u \in Turns \ {t} : turn'[u] = turn[u]
  BY <1>1, <1>2
<1>5. TypeOK'
  <2>1. turn' \in [Turns -> TurnRecord]
    BY <1>1, <1>2, <1>3
  <2>2. failures' \in 0 .. MaxFailures
    BY RecordConstants DEF Die, IInv, TypeOK
  <2>3. QED
    BY <2>1, <2>2 DEF Die, IInv, TypeOK, tables
<1>6. StagesPlaced(r)
  <2>1. StagesPlaced(turn[t])
    BY DEF IInv, Placed
  <2>2. QED
    BY <1>1, <1>3, <2>1 DEF StagesPlaced
<1>7. Placed'
  BY <1>4, <1>6 DEF IInv, Placed
<1>8. Alone'
  <2>1. \A u \in Turns : Grading(u)' => Grading(u)
    BY <1>3, <1>4 DEF Grading
  <2>2. QED
    BY <2>1 DEF Die, IInv, Alone, NobodyElse, NobodyElseJob, JobRuns,
                EraserRuns
<1>9. \A z \in StageName :
        /\ ~Reads(t, z)'
        /\ turn'[t].stage[z] = "wrote" <=> turn[t].stage[z] = "wrote"
        /\ turn'[t].grade = turn[t].grade
  BY <1>3, <1>4 DEF Reads, Grading
<1>10. UNCHANGED <<tables, job, gone>> /\ alone' = alone
  BY DEF Die
<1>11. QED
  BY <1>4, <1>5, <1>7, <1>8, <1>9, <1>10, QuietTurn

-----------------------------------------------------------------------------
\* A step that leaves the turns alone: the job, or time.
LEMMA SameTurns ==
  ASSUME IInv, UNCHANGED <<turn, gone, queue, responses>>, alone' => alone,
         \A z \in RowStage :
           /\ \A e \in JobHolds(z)' :
                /\ e[1] \in Keys(z)
                /\ e \in JobHolds(z) \/ e[2] = Row(z, e[1])
           /\ \A k \in Keys(z) :
                \/ SameRow(z, Row(z, k)', Row(z, k))
                \/ \E e \in JobHolds(z) :
                     e[1] = k /\ SameRow(z, Row(z, k)', e[2]),
         job'.pc = "idle" => job'.entries = {} /\ job'.rows = {},
         TypeOK', Alone', Fresh'
  PROVE  IInv'
<1>1. Placed' /\ Tidy'
  BY DEF IInv, Placed, Tidy
<1>2. ASSUME NEW z \in RowStage
      PROVE  Still(z)
  <2>1. SameWrites(z)
    BY DEF SameWrites, Wrote
  <2>2. \A t \in Turns : Reads(t, z)' =>
          /\ turn'[t].grade = turn[t].grade
          /\ Key(t, z) \in Keys(z)
          /\ Reads(t, z) /\ Held(t, z)' = Held(t, z)
    BY RowsTyped DEF IInv, Reads, Grading, Held
  <2>3. QED
    BY <2>1, <2>2 DEF Still
<1>3. Earned' /\ Exact'
  BY <1>2, EffectKeeps DEF Effect
<1>4. Appended'
  BY DEF IInv, Appended, Kept, Wrote
<1>5. QED
  BY <1>1, <1>3, <1>4 DEF IInv

LEMMA JobReadsRegistryStep ==
  ASSUME IInv, JobReadsRegistry
  PROVE  IInv'
<1> DEFINE faded == {<<m, registry[m]>> : m \in
                       {n \in Misconceptions : /\ registry[n] # NoRow
                                               /\ registry[n].faded
                                               /\ ~registry[n].remediated}}
<1>1. job' = [pc |-> "misconceptions", rows |-> {}, entries |-> faded]
  BY DEF JobReadsRegistry
<1>2. \A e \in faded : /\ e \in Misconceptions \X RegistryEntry
                       /\ e[2] = registry[e[1]] /\ e[2].faded
  BY DEF IInv, TypeOK
<1> HIDE DEF faded
<1>3. TypeOK'
  <2>1. job' \in [pc : {"idle", "misconceptions", "mastery"},
                  entries : SUBSET (Misconceptions \X RegistryEntry),
                  rows : SUBSET (Topics \X SubtopicMastery)]
    BY <1>1, <1>2
  <2>2. background' \in 0 .. MaxBackground /\ alone' \in BOOLEAN
    BY RecordConstants DEF JobReadsRegistry, IInv, TypeOK
  <2>3. QED
    BY <2>1, <2>2 DEF JobReadsRegistry, IInv, TypeOK, tables
<1>4. Alone'
  BY DEF JobReadsRegistry, IInv, Alone, NobodyElse, NobodyElseJob, JobRuns,
         EraserRuns, Grading
<1>5. Fresh'
  BY <1>1, <1>2 DEF JobReadsRegistry, IInv, Fresh, FirstKept, tables
<1>6. ASSUME NEW z \in RowStage
      PROVE  /\ \A e \in JobHolds(z)' :
                  e[1] \in Keys(z) /\ e[2] = Row(z, e[1])
             /\ \A k \in Keys(z) : SameRow(z, Row(z, k)', Row(z, k))
  <2>1. \A e \in JobHolds(z)' : e[1] \in Keys(z) /\ e[2] = Row(z, e[1])
    BY <1>1, <1>2 DEF JobHolds, Keys, Row, RowStage
  <2>2. \A k \in Keys(z) : Row(z, k)' = Row(z, k)
    BY DEF JobReadsRegistry, tables, Row
  <2>3. QED
    BY <2>1, <2>2, SameRowItself
<1>7. /\ UNCHANGED <<turn, gone, queue, responses>> /\ (alone' => alone)
      /\ job'.pc # "idle"
  <2>1. alone' => alone
    BY DEF JobReadsRegistry, IInv, TypeOK
  <2>2. UNCHANGED <<turn, gone, queue, responses>>
    BY DEF JobReadsRegistry, tables
  <2>3. QED
    BY <1>1, <2>1, <2>2
<1>8. QED
  BY <1>3, <1>4, <1>5, <1>6, <1>7, SameTurns

LEMMA JobRemediatesStep ==
  ASSUME IInv, JobRemediates
  PROVE  IInv'
<1>1. PICK e \in job.entries :
        /\ registry' = [registry EXCEPT ![e[1]] =
                          [e[2] EXCEPT !.remediated = TRUE]]
        /\ job' = [job EXCEPT !.entries = @ \ {e}]
  BY DEF JobRemediates
<1> DEFINE row == [e[2] EXCEPT !.remediated = TRUE]
<1>2. /\ e[1] \in Misconceptions /\ e[2] \in RegistryEntry
      /\ e[2].faded
  BY DEF IInv, TypeOK, Fresh
<1>3. /\ row \in RegistryEntry /\ row.faded
      /\ row.occurrences = e[2].occurrences
  BY <1>2 DEF RegistryEntry
<1> HIDE DEF row
<1>4. \A m \in Misconceptions :
        registry'[m] = IF m = e[1] THEN row ELSE registry[m]
  BY <1>1, <1>2 DEF IInv, TypeOK, row
<1>5. /\ job'.pc = job.pc /\ job.pc = "misconceptions"
      /\ job'.rows = job.rows /\ job'.entries = job.entries \ {e}
      /\ job' \in [pc : {"idle", "misconceptions", "mastery"},
                   entries : SUBSET (Misconceptions \X RegistryEntry),
                   rows : SUBSET (Topics \X SubtopicMastery)]
  BY <1>1 DEF JobRemediates, IInv, TypeOK
<1>6. TypeOK'
  <2>1. registry' \in [Misconceptions -> RegistryEntry \cup {NoRow}]
    BY <1>1, <1>2, <1>3 DEF IInv, TypeOK, row
  <2>2. QED
    BY <1>5, <2>1 DEF JobRemediates, IInv, TypeOK
<1>7. Alone'
  BY <1>5 DEF JobRemediates, IInv, Alone, NobodyElse, NobodyElseJob, JobRuns,
              EraserRuns, Grading
<1>8. Fresh'
  BY <1>3, <1>4, <1>5 DEF IInv, Fresh, FirstKept
<1>9. ASSUME NEW z \in RowStage
      PROVE  /\ \A x \in JobHolds(z)' : x[1] \in Keys(z) /\ x \in JobHolds(z)
             /\ \A k \in Keys(z) :
                  \/ SameRow(z, Row(z, k)', Row(z, k))
                  \/ \E x \in JobHolds(z) :
                       x[1] = k /\ SameRow(z, Row(z, k)', x[2])
  <2>1. \A x \in JobHolds(z)' : x \in JobHolds(z)
    BY <1>5 DEF JobHolds
  <2>2. ASSUME z # "diagnosis", NEW k \in Keys(z)
        PROVE  SameRow(z, Row(z, k)', Row(z, k))
    <3>1. Row(z, k)' = Row(z, k)
      BY <2>2 DEF RowStage, Row, JobRemediates
    <3>2. QED
      BY <3>1, SameRowItself
  <2>3. ASSUME z = "diagnosis", NEW k \in Keys(z)
        PROVE  \/ SameRow(z, Row(z, k)', Row(z, k))
               \/ \E x \in JobHolds(z) :
                    x[1] = k /\ SameRow(z, Row(z, k)', x[2])
    <3>1. Row(z, k)' = IF k = e[1] THEN row ELSE Row(z, k)
      BY <1>4, <2>3 DEF Row, Keys
    <3>2. e \in JobHolds(z)
      BY <2>3 DEF JobHolds
    <3>3. row # NoRow /\ e[2] # NoRow
      BY <1>2, <1>3, RecordConstants
    <3>4. SameRow(z, row, e[2])
      BY <1>3, <2>3, <3>3 DEF SameRow, Total, Part
    <3>5. QED
      BY <3>1, <3>2, <3>4, SameRowItself
  <2>4. QED
    BY <2>1, <2>2, <2>3, RowsTyped DEF IInv
<1>10. UNCHANGED <<turn, gone, queue, responses>> /\ (alone' => alone)
  BY DEF JobRemediates
<1>11. QED
  BY <1>5, <1>6, <1>7, <1>8, <1>9, <1>10, SameTurns

LEMMA JobReadsMasteryStep ==
  ASSUME IInv, JobReadsMastery
  PROVE  IInv'
<1>1. PICK drifted \in SUBSET {p \in Topics : mastery[p] # NoRow} :
        job' = [pc |-> "mastery", entries |-> {},
                rows |-> {<<p, mastery[p]>> : p \in drifted}]
  BY DEF JobReadsMastery
<1> DEFINE stale == {<<p, mastery[p]>> : p \in drifted}
<1>2. job' = [pc |-> "mastery", entries |-> {}, rows |-> stale]
  BY <1>1
<1>3. \A e \in stale : /\ e \in Topics \X SubtopicMastery
                       /\ e[2] = mastery[e[1]]
  BY DEF IInv, TypeOK
<1> HIDE DEF stale
<1>4. TypeOK'
  <2>1. job' \in [pc : {"idle", "misconceptions", "mastery"},
                  entries : SUBSET (Misconceptions \X RegistryEntry),
                  rows : SUBSET (Topics \X SubtopicMastery)]
    BY <1>2, <1>3
  <2>2. QED
    BY <2>1 DEF JobReadsMastery, IInv, TypeOK, tables
<1>5. Alone'
  BY <1>2 DEF JobReadsMastery, IInv, Alone, NobodyElse, NobodyElseJob,
              JobRuns, EraserRuns, Grading
<1>6. Fresh'
  BY <1>2 DEF JobReadsMastery, IInv, Fresh, FirstKept, tables
<1>7. ASSUME NEW z \in RowStage
      PROVE  /\ \A e \in JobHolds(z)' :
                  e[1] \in Keys(z) /\ e[2] = Row(z, e[1])
             /\ \A k \in Keys(z) : SameRow(z, Row(z, k)', Row(z, k))
  <2>1. \A e \in JobHolds(z)' : e[1] \in Keys(z) /\ e[2] = Row(z, e[1])
    BY <1>2, <1>3 DEF JobHolds, Keys, Row, RowStage
  <2>2. \A k \in Keys(z) : Row(z, k)' = Row(z, k)
    BY DEF JobReadsMastery, tables, Row
  <2>3. QED
    BY <2>1, <2>2, SameRowItself
<1>8. /\ UNCHANGED <<turn, gone, queue, responses>> /\ (alone' => alone)
      /\ job'.pc # "idle"
  BY <1>2 DEF JobReadsMastery, tables
<1>9. QED
  BY <1>4, <1>5, <1>6, <1>7, <1>8, SameTurns

LEMMA JobUpdatesStep ==
  ASSUME IInv, JobUpdates
  PROVE  IInv'
<1>1. PICK e \in job.rows :
        /\ mastery' = [mastery EXCEPT ![e[1]] = e[2]]
        /\ job' = [job EXCEPT !.rows = @ \ {e}]
  BY DEF JobUpdates
<1>2. e[1] \in Topics /\ e[2] \in SubtopicMastery
  BY DEF IInv, TypeOK
<1>3. \A p \in Topics : mastery'[p] = IF p = e[1] THEN e[2] ELSE mastery[p]
  BY <1>1, <1>2 DEF IInv, TypeOK
<1>4. /\ job'.pc = job.pc /\ job.pc = "mastery"
      /\ job'.entries = job.entries /\ job'.rows = job.rows \ {e}
      /\ job' \in [pc : {"idle", "misconceptions", "mastery"},
                   entries : SUBSET (Misconceptions \X RegistryEntry),
                   rows : SUBSET (Topics \X SubtopicMastery)]
  BY <1>1 DEF JobUpdates, IInv, TypeOK
<1>5. TypeOK'
  <2>1. mastery' \in [Topics -> SubtopicMastery \cup {NoRow}]
    BY <1>1, <1>2 DEF IInv, TypeOK
  <2>2. QED
    BY <1>4, <2>1 DEF JobUpdates, IInv, TypeOK
<1>6. Alone'
  BY <1>4 DEF JobUpdates, IInv, Alone, NobodyElse, NobodyElseJob, JobRuns,
              EraserRuns, Grading
<1>7. Fresh'
  BY <1>4 DEF JobUpdates, IInv, Fresh, FirstKept
<1>8. ASSUME NEW z \in RowStage
      PROVE  /\ \A x \in JobHolds(z)' : x[1] \in Keys(z) /\ x \in JobHolds(z)
             /\ \A k \in Keys(z) :
                  \/ SameRow(z, Row(z, k)', Row(z, k))
                  \/ \E x \in JobHolds(z) :
                       x[1] = k /\ SameRow(z, Row(z, k)', x[2])
  <2>1. \A x \in JobHolds(z)' : x \in JobHolds(z)
    BY <1>4 DEF JobHolds
  <2>2. ASSUME z # "mastery_write", NEW k \in Keys(z)
        PROVE  SameRow(z, Row(z, k)', Row(z, k))
    <3>1. Row(z, k)' = Row(z, k)
      BY <2>2 DEF RowStage, Row, JobUpdates
    <3>2. QED
      BY <3>1, SameRowItself
  <2>3. ASSUME z = "mastery_write", NEW k \in Keys(z)
        PROVE  \/ SameRow(z, Row(z, k)', Row(z, k))
               \/ \E x \in JobHolds(z) :
                    x[1] = k /\ SameRow(z, Row(z, k)', x[2])
    <3>1. Row(z, k)' = IF k = e[1] THEN e[2] ELSE Row(z, k)
      BY <1>3, <2>3 DEF Row, Keys
    <3>2. e \in JobHolds(z)
      BY <2>3 DEF JobHolds
    <3>3. QED
      BY <3>1, <3>2, SameRowItself
  <2>4. QED
    BY <2>1, <2>2, <2>3, RowsTyped DEF IInv
<1>9. UNCHANGED <<turn, gone, queue, responses>> /\ (alone' => alone)
  BY DEF JobUpdates
<1>10. QED
  BY <1>4, <1>5, <1>6, <1>7, <1>8, <1>9, SameTurns

LEMMA JobEndsStep ==
  ASSUME IInv, JobEnds
  PROVE  IInv'
<1>1. job' = [pc |-> "idle", entries |-> {}, rows |-> {}]
  BY DEF JobEnds, Idle
<1>2. TypeOK'
  BY <1>1 DEF JobEnds, IInv, TypeOK, tables
<1>3. Alone'
  BY <1>1 DEF JobEnds, IInv, Alone, NobodyElse, NobodyElseJob, JobRuns,
              EraserRuns, Grading
<1>4. Fresh'
  BY <1>1 DEF JobEnds, IInv, Fresh, FirstKept, tables
<1>5. \A z \in RowStage :
        /\ JobHolds(z)' = {}
        /\ \A k \in Keys(z) : Row(z, k)' = Row(z, k)
  BY <1>1 DEF JobHolds, JobEnds, tables, Row
<1>6. UNCHANGED <<turn, gone, queue, responses>> /\ (alone' => alone)
  BY DEF JobEnds, tables
<1>7. QED
  BY <1>1, <1>2, <1>3, <1>4, <1>5, <1>6, SameTurns, SameRowItself

LEMMA FadeStep ==
  ASSUME IInv, NEW m \in Misconceptions, Fade(m)
  PROVE  IInv'
<1> DEFINE row == [registry[m] EXCEPT !.faded = TRUE]
<1>1. registry[m] \in RegistryEntry /\ registry[m] # NoRow
  BY DEF Fade, IInv, TypeOK
<1>2. /\ row \in RegistryEntry /\ row.faded
      /\ row.occurrences = registry[m].occurrences
  BY <1>1 DEF RegistryEntry
<1>3. registry' = [registry EXCEPT ![m] = row]
  BY DEF Fade
<1> HIDE DEF row
<1>4. /\ registry' \in [Misconceptions -> RegistryEntry \cup {NoRow}]
      /\ \A n \in Misconceptions :
           registry'[n] = IF n = m THEN row ELSE registry[n]
  BY <1>2, <1>3 DEF IInv, TypeOK
<1>5. TypeOK'
  BY <1>4 DEF Fade, IInv, TypeOK
<1>6. Alone'
  BY DEF Fade, IInv, Alone, NobodyElse, NobodyElseJob, JobRuns, EraserRuns,
         Grading
<1>7. Fresh'
  BY <1>2, <1>4 DEF Fade, IInv, Fresh, FirstKept
<1>8. ASSUME NEW z \in RowStage
      PROVE  /\ JobHolds(z)' = JobHolds(z)
             /\ \A k \in Keys(z) : SameRow(z, Row(z, k)', Row(z, k))
  <2>1. JobHolds(z)' = JobHolds(z)
    BY DEF JobHolds, Fade
  <2>2. ASSUME NEW k \in Keys(z)
        PROVE  SameRow(z, Row(z, k)', Row(z, k))
    <3>1. CASE z # "diagnosis"
      <4>1. Row(z, k)' = Row(z, k)
        BY <3>1 DEF RowStage, Row, Fade
      <4>2. QED
        BY <4>1, SameRowItself
    <3>2. CASE z = "diagnosis"
      <4>1. Row(z, k)' = IF k = m THEN row ELSE Row(z, k)
        BY <1>4, <3>2 DEF Row, Keys
      <4>2. row # NoRow /\ Row(z, m) = registry[m]
        BY <1>2, <3>2, RecordConstants DEF Row
      <4>3. SameRow(z, row, Row(z, m))
        BY <1>1, <1>2, <3>2, <4>2 DEF SameRow, Total, Part
      <4>4. QED
        BY <4>1, <4>3, SameRowItself
    <3>3. QED
      BY <3>1, <3>2
  <2>3. QED
    BY <2>1, <2>2
<1>9. /\ UNCHANGED <<turn, gone, queue, responses>> /\ (alone' => alone)
      /\ job'.pc = "idle" => job'.entries = {} /\ job'.rows = {}
  BY DEF Fade, IInv, Tidy
<1>10. QED
  BY <1>5, <1>6, <1>7, <1>8, <1>9, SameTurns, RowsTyped DEF IInv

-----------------------------------------------------------------------------
\* An erasure empties the tables of some stages and takes their writes along;
\* the other tables and their writes stay.
LEMMA Erasing ==
  ASSUME IInv, NEW stages \in SUBSET StageName, UNCHANGED <<turn, job>>,
         gone' = gone \cup WritesOf(stages),
         \A z \in RowStage \cap stages : \A k \in Keys(z) : Row(z, k)' = NoRow,
         \A z \in RowStage \ stages : \A k \in Keys(z) : Row(z, k)' = Row(z, k),
         queue' = IF "review_queue_write" \in stages THEN {} ELSE queue,
         responses' = IF "response_log_write" \in stages THEN {} ELSE responses,
         registry' = registry \/ \A m \in Misconceptions : registry'[m] = NoRow,
         alone' => alone,
         alone' => ~JobRuns /\ \A t \in Turns : ~Grading(t),
         TypeOK'
  PROVE  IInv'
<1>1. Placed' /\ Tidy'
  <2>1. \A w \in gone' : w \in Turns \X StageName
                         /\ turn'[w[1]].stage[w[2]] = "wrote"
    BY DEF IInv, Tidy, WritesOf
  <2>2. QED
    BY <2>1 DEF IInv, Placed, Tidy
<1>2. Alone'
  BY DEF Alone, JobRuns, Grading
<1>3. Fresh'
  BY DEF IInv, Fresh, FirstKept
<1>4. ASSUME NEW z \in StageName
      PROVE  /\ Wrote(z)' = Wrote(z)
             /\ Kept(z)' = IF z \in stages THEN {} ELSE Kept(z)
             /\ z \in stages => \A t \in Wrote(z) : <<t, z>> \in gone'
             /\ z \notin stages =>
                  \A t \in Turns : <<t, z>> \in gone' <=> <<t, z>> \in gone
  <2>1. Wrote(z)' = Wrote(z)
    BY DEF Wrote
  <2>2. \A t \in Turns : <<t, z>> \in WritesOf(stages) <=>
                           z \in stages /\ t \in Wrote(z)
    BY DEF WritesOf, Wrote
  <2>3. \A t \in Turns : <<t, z>> \in gone' <=>
          <<t, z>> \in gone \/ (z \in stages /\ t \in Wrote(z))
    BY <2>2
  <2>4. Wrote(z) \subseteq Turns
    BY DEF Wrote
  <2>5. QED
    BY <2>1, <2>3, <2>4 DEF Kept
<1>5. ASSUME NEW z \in RowStage
      PROVE  Still(z) \/ Erases(z)
  <2>1. z \in StageName
    BY DEF RowStage, StageName
  <2>2. CASE z \in stages
    BY <1>4, <2>1, <2>2 DEF Erases
  <2>3. CASE z \notin stages
    <3>1. SameWrites(z)
      BY <1>4, <2>1, <2>3 DEF SameWrites, Wrote
    <3>2. \A t \in Turns : Reads(t, z)' =>
            /\ turn'[t].grade = turn[t].grade
            /\ Key(t, z) \in Keys(z)
            /\ Reads(t, z) /\ Held(t, z)' = Held(t, z)
      BY RowsTyped DEF IInv, Reads, Grading, Held
    <3>3. /\ \A e \in JobHolds(z)' : e \in JobHolds(z) /\ e[1] \in Keys(z)
          /\ \A k \in Keys(z) : SameRow(z, Row(z, k)', Row(z, k))
      <4>1. JobHolds(z)' = JobHolds(z)
        BY DEF JobHolds
      <4>2. QED
        BY <2>3, <4>1, RowsTyped, SameRowItself DEF IInv
    <3>4. QED
      BY <3>1, <3>2, <3>3 DEF Still
  <2>4. QED
    BY <2>2, <2>3
<1>6. Earned' /\ Exact'
  BY <1>5, EffectKeeps DEF Effect
<1>7. Appended'
  BY <1>4 DEF IInv, Appended, StageName
<1>8. QED
  BY <1>1, <1>2, <1>3, <1>6, <1>7 DEF IInv

\* While an erasure is under way nobody else runs, as long as alone says so.
LEMMA EraserAlone ==
  ASSUME IInv, EraserRuns, alone
  PROVE  ~JobRuns /\ \A t \in Turns : ~Grading(t)
BY DEF IInv, Alone, NobodyElse, NobodyElseJob

LEMMA EraseStep ==
  ASSUME IInv,
         EraseMemory \/ EraseReviewState \/ EraseReviewQueue \/ EraseResponses
  PROVE  IInv'
<1>1. CASE EraseMemory
  <2> DEFINE stages == {"mastery_write", "diagnosis"}
  <2>1. stages \in SUBSET StageName /\ stages \cap RowStage = stages
    BY DEF StageName, RowStage
  <2>2. /\ mastery' \in [Topics -> SubtopicMastery \cup {NoRow}]
        /\ registry' \in [Misconceptions -> RegistryEntry \cup {NoRow}]
        /\ \A p \in Topics : mastery'[p] = NoRow
        /\ \A m \in Misconceptions : registry'[m] = NoRow
    BY <1>1 DEF EraseMemory
  <2>3. gone' \in SUBSET (Turns \X StageName) /\ alone' \in BOOLEAN
    BY <1>1, <2>1 DEF EraseMemory, IInv, TypeOK, WritesOf
  <2>4. TypeOK'
    BY <1>1, <2>2, <2>3, RecordConstants DEF EraseMemory, IInv, TypeOK
  <2>5. \A z \in RowStage \cap stages : \A k \in Keys(z) : Row(z, k)' = NoRow
    BY <2>2 DEF Row, Keys
  <2>6. \A z \in RowStage \ stages : \A k \in Keys(z) : Row(z, k)' = Row(z, k)
    BY <1>1 DEF RowStage, Row, EraseMemory
  <2>7. /\ alone' => alone
        /\ alone' => ~JobRuns /\ \A t \in Turns : ~Grading(t)
    BY <1>1 DEF EraseMemory, IInv, TypeOK
  <2>8. "review_queue_write" \notin stages /\ "response_log_write" \notin stages
    OBVIOUS
  <2>9. /\ UNCHANGED <<turn, job, queue, responses>>
        /\ gone' = gone \cup WritesOf(stages)
    BY <1>1 DEF EraseMemory
  <2> HIDE DEF stages
  <2>10. QED
    BY <2>1, <2>2, <2>4, <2>5, <2>6, <2>7, <2>8, <2>9, Erasing
<1>2. CASE EraseReviewState
  <2> DEFINE stages == {"review_record"}
  <2>1. stages \in SUBSET StageName /\ stages \cap RowStage = stages
    BY DEF StageName, RowStage
  <2>2. /\ review' \in [Topics -> ReviewState \cup {NoRow}]
        /\ \A p \in Topics : review'[p] = NoRow
    BY <1>2 DEF EraseReviewState
  <2>3. gone' \in SUBSET (Turns \X StageName)
    BY <1>2, <2>1 DEF EraseReviewState, IInv, TypeOK, WritesOf
  <2>4. TypeOK'
    BY <1>2, <2>2, <2>3 DEF EraseReviewState, IInv, TypeOK
  <2>5. \A z \in RowStage \cap stages : \A k \in Keys(z) : Row(z, k)' = NoRow
    BY <2>2 DEF Row, Keys
  <2>6. \A z \in RowStage \ stages : \A k \in Keys(z) : Row(z, k)' = Row(z, k)
    BY <1>2 DEF RowStage, Row, EraseReviewState
  <2>7. /\ alone' = alone
        /\ alone' => ~JobRuns /\ \A t \in Turns : ~Grading(t)
    BY <1>2, EraserAlone DEF EraseReviewState, EraserRuns
  <2>8. "review_queue_write" \notin stages /\ "response_log_write" \notin stages
    OBVIOUS
  <2>9. /\ UNCHANGED <<turn, job, queue, responses, registry>>
        /\ gone' = gone \cup WritesOf(stages)
    BY <1>2 DEF EraseReviewState
  <2> HIDE DEF stages
  <2>10. QED
    BY <2>1, <2>4, <2>5, <2>6, <2>7, <2>8, <2>9, Erasing
<1>3. CASE EraseReviewQueue
  <2> DEFINE stages == {"review_queue_write"}
  <2>1. stages \in SUBSET StageName /\ stages \cap RowStage = {}
    BY DEF StageName, RowStage
  <2>2. gone' \in SUBSET (Turns \X StageName)
    BY <1>3, <2>1 DEF EraseReviewQueue, IInv, TypeOK, WritesOf
  <2>3. TypeOK'
    BY <1>3, <2>2 DEF EraseReviewQueue, IInv, TypeOK
  <2>4. \A z, k : Row(z, k)' = Row(z, k)
    BY <1>3 DEF Row, EraseReviewQueue
  <2>5. /\ alone' = alone
        /\ alone' => ~JobRuns /\ \A t \in Turns : ~Grading(t)
    BY <1>3, EraserAlone DEF EraseReviewQueue, EraserRuns
  <2>6. "review_queue_write" \in stages /\ "response_log_write" \notin stages
    OBVIOUS
  <2>7. /\ UNCHANGED <<turn, job, responses, registry>> /\ queue' = {}
        /\ gone' = gone \cup WritesOf(stages)
    BY <1>3 DEF EraseReviewQueue
  <2> HIDE DEF stages
  <2>8. QED
    BY <2>1, <2>3, <2>4, <2>5, <2>6, <2>7, Erasing
<1>4. CASE EraseResponses
  <2> DEFINE stages == {"response_log_write"}
  <2>1. stages \in SUBSET StageName /\ stages \cap RowStage = {}
    BY DEF StageName, RowStage
  <2>2. gone' \in SUBSET (Turns \X StageName)
    BY <1>4, <2>1 DEF EraseResponses, IInv, TypeOK, WritesOf
  <2>3. TypeOK'
    BY <1>4, <2>2 DEF EraseResponses, IInv, TypeOK
  <2>4. \A z, k : Row(z, k)' = Row(z, k)
    BY <1>4 DEF Row, EraseResponses
  <2>5. /\ alone' = alone
        /\ alone' => ~JobRuns /\ \A t \in Turns : ~Grading(t)
    BY <1>4, EraserAlone DEF EraseResponses, EraserRuns
  <2>6. "review_queue_write" \notin stages /\ "response_log_write" \in stages
    OBVIOUS
  <2>7. /\ UNCHANGED <<turn, job, queue, registry>> /\ responses' = {}
        /\ gone' = gone \cup WritesOf(stages)
    BY <1>4 DEF EraseResponses
  <2> HIDE DEF stages
  <2>8. QED
    BY <2>1, <2>3, <2>4, <2>5, <2>6, <2>7, Erasing
<1>5. QED
  BY <1>1, <1>2, <1>3, <1>4

-----------------------------------------------------------------------------
LEMMA RecordsInit ==
  ASSUME Init
  PROVE  IInv
<1>1. Ungraded \in TurnRecord
  <2>1. (CHOOSE g \in Grades : TRUE) \in Grades
    BY RecordConstants
  <2>2. QED
    BY <2>1 DEF Ungraded, TurnRecord, StageStatus
<1>2. \A t \in Turns : /\ turn[t] = Ungraded
                       /\ turn[t].pc = "unborn"
                       /\ turn[t].stage = [s \in StageName |-> "absent"]
  BY DEF Init, Ungraded
<1>3. TypeOK
  BY <1>1, RecordConstants DEF Init, TypeOK, Idle
<1>4. Placed
  BY <1>2 DEF Placed, StagesPlaced, StageName
<1>5. Tidy /\ Alone /\ Fresh
  BY <1>2 DEF Init, Idle, Tidy, Alone, Fresh, FirstKept, Grading, JobRuns
<1>6. \A s \in StageName : Wrote(s) = {} /\ Kept(s) = {}
  BY <1>2 DEF Wrote, Kept
<1>7. ASSUME NEW s \in RowStage
      PROVE  EarnedIn(s) /\ ExactIn(s)
  <2>1. s \in StageName
    BY DEF RowStage, StageName
  <2>2. \A k \in Keys(s) : Row(s, k) = NoRow
    <3>1. s = "diagnosis" => \A k \in Misconceptions : Row(s, k) = NoRow
      BY DEF Init, Row
    <3>2. s # "diagnosis" => \A k \in Topics : Row(s, k) = NoRow
      BY DEF Init, Row, RowStage
    <3>3. QED
      BY <3>1, <3>2 DEF Keys
  <2>3. JobHolds(s) = {} /\ \A t \in Turns : ~Reads(t, s)
    BY <1>2 DEF Init, Idle, JobHolds, Reads, Grading
  <2>4. \A k : KeptBy(s, k) = {}
    BY <1>6, <2>1 DEF KeptBy
  <2>5. QED
    BY <2>2, <2>3, <2>4 DEF EarnedIn, ExactIn, RowEarned, RowExact
<1>8. Appended
  BY <1>6 DEF Init, Appended, StageName
<1>9. QED
  BY <1>3, <1>4, <1>5, <1>7, <1>8 DEF IInv, Earned, Exact

LEMMA RecordsStep ==
  ASSUME IInv, [Next]_vars
  PROVE  IInv'
<1>1. ASSUME NEW t \in Turns, NEW g \in Grades, Grade(t, g)
      PROVE  IInv'
  BY <1>1, GradeStep
<1>2. ASSUME NEW t \in Turns, Step(t)
      PROVE  IInv'
  BY <1>2, ReadMasteryStep, WriteMasteryStep, ReadReviewStep, WriteReviewStep,
     ReadRegistryStep, WriteRegistryStep, AppendStep, DeliverStep DEF Step
<1>3. ASSUME NEW t \in Turns, NEW s \in StageName, StageRaises(t, s)
      PROVE  IInv'
  BY <1>3, StageRaisesStep
<1>4. ASSUME NEW t \in Turns, Die(t)
      PROVE  IInv'
  BY <1>4, DieStep
<1>5. CASE JobReadsRegistry \/ JobRemediates \/ JobReadsMastery \/ JobUpdates
           \/ JobEnds
  BY <1>5, JobReadsRegistryStep, JobRemediatesStep, JobReadsMasteryStep,
     JobUpdatesStep, JobEndsStep
<1>6. ASSUME NEW m \in Misconceptions, Fade(m)
      PROVE  IInv'
  BY <1>6, FadeStep
<1>7. CASE EraseMemory \/ EraseReviewState \/ EraseReviewQueue
           \/ EraseResponses
  BY <1>7, EraseStep
<1>8. CASE UNCHANGED vars
  <2>1. TypeOK' /\ Placed' /\ Tidy' /\ Alone'
    BY <1>8 DEF vars, IInv, TypeOK, Placed, StagesPlaced, Tidy, Alone,
                NobodyElse, NobodyElseJob, JobRuns, EraserRuns, Grading
  <2>2. ASSUME NEW s \in RowStage
        PROVE  Still(s)
    <3>1. SameWrites(s)
      BY <1>8 DEF vars, SameWrites, Wrote
    <3>2. \A t \in Turns : Reads(t, s)' =>
            /\ turn'[t].grade = turn[t].grade
            /\ Key(t, s) \in Keys(s)
            /\ Reads(t, s) /\ Held(t, s)' = Held(t, s)
      BY <1>8, RowsTyped DEF vars, IInv, Reads, Grading, Held
    <3>3. JobHolds(s)' = JobHolds(s) /\ \A k : Row(s, k)' = Row(s, k)
      BY <1>8 DEF vars, JobHolds, Row
    <3>4. QED
      BY <3>1, <3>2, <3>3, RowsTyped, SameRowItself DEF IInv, Still
  <2>3. Earned' /\ Exact'
    BY <1>8, <2>2, EffectKeeps DEF Effect, vars
  <2>4. Fresh' /\ Appended'
    BY <1>8 DEF vars, IInv, Fresh, FirstKept, Appended, Kept, Wrote
  <2>5. QED
    BY <2>1, <2>3, <2>4 DEF IInv
<1>9. QED
  BY <1>1, <1>2, <1>3, <1>4, <1>5, <1>6, <1>7, <1>8 DEF Next

\* Every step of a turn, a stage, the job or an erasure keeps the whole of it.
THEOREM RecordsInductive == Spec => []IInv
<1>1. Init => IInv
  BY RecordsInit
<1>2. IInv /\ [Next]_vars => IInv'
  BY RecordsStep
<1>3. QED
  BY <1>1, <1>2, PTL DEF Spec

-----------------------------------------------------------------------------
\* Every row, copy and counter keeps its type and its bound, whatever raises,
\* dies, consolidates or erases while turns are graded.
THEOREM TypeCorrect == Spec => []TypeOK
<1>1. IInv => TypeOK
  BY DEF IInv
<1>2. QED
  BY <1>1, RecordsInductive, PTL

\* However turns, the job and an erasure interleave, no row shows more
\* practice than there was, although every run of the job may save any row
\* again as it listed it: a lost update or a row that the job brings back
\* after an erasure can only undercount.
THEOREM PracticeEarned == Spec => []RecordsAreEarned
<1>1. IInv => RecordsAreEarned
  <2> SUFFICES ASSUME IInv PROVE RecordsAreEarned
    OBVIOUS
  <2>1. \A s \in RowStage : \A k \in Keys(s) : RowEarned(s, k, Row(s, k))
    BY DEF IInv, Earned, EarnedIn
  <2>2. ASSUME NEW p \in Topics, mastery[p] # NoRow
        PROVE  LET by == Wrote("mastery_write") \cap OnTopic(p)
               IN /\ mastery[p].attempts \in 1..Cardinality(by)
                  /\ mastery[p].correct <= Cardinality(by \cap Correct)
                  /\ mastery[p].attempts - mastery[p].correct
                       <= Cardinality(by \ Correct)
                  /\ \A t \in by : turn[t].grade.confidence # "low"
    <3> DEFINE s == "mastery_write"
               by == Wrote(s) \cap OnTopic(p)
    <3>1. Bounded(Total(s, Row(s, p)), Part(s, Row(s, p)), By(s, p),
                  By(s, p) \cap Apart(s))
      BY <2>1, <2>2 DEF RowStage, Keys, RowEarned, Row
    <3>2. /\ By(s, p) = by /\ by \cap Apart(s) = by \cap Correct
          /\ by \ (by \cap Apart(s)) = by \ Correct
      BY DEF By, Wrote, OnTopic, Key, Apart
    <3>3. \A t \in by : turn[t].grade.confidence # "low"
      BY DEF IInv, Placed, StagesPlaced, Wrote, TrustedForMastery
    <3>4. QED
      BY <3>1, <3>2, <3>3 DEF Bounded, Total, Part, Row
  <2>3. ASSUME NEW p \in Topics, review[p] # NoRow
        PROVE  LET by == Wrote("review_record") \cap OnTopic(p)
               IN /\ review[p].reps \in 1..Cardinality(by)
                  /\ review[p].lapses <= Cardinality(by \ Correct)
                  /\ review[p].reps - review[p].lapses
                       <= Cardinality(by \cap Correct)
    <3> DEFINE s == "review_record"
               by == Wrote(s) \cap OnTopic(p)
    <3>1. Bounded(Total(s, Row(s, p)), Part(s, Row(s, p)), By(s, p),
                  By(s, p) \cap Apart(s))
      BY <2>1, <2>3 DEF RowStage, Keys, RowEarned, Row
    <3>2. /\ By(s, p) = by /\ by \cap Apart(s) = by \ Correct
          /\ by \ (by \cap Apart(s)) = by \cap Correct
      BY DEF By, Wrote, OnTopic, Key, Apart
    <3>3. QED
      BY <3>1, <3>2 DEF Bounded, Total, Part, Row
  <2>4. ASSUME NEW m \in Misconceptions, registry[m] # NoRow
        PROVE  registry[m].occurrences \in
                 1..Cardinality(Wrote("diagnosis") \cap Diagnosed(m))
    <3> DEFINE s == "diagnosis"
               by == Wrote(s) \cap Diagnosed(m)
    <3>1. Bounded(Total(s, Row(s, m)), Part(s, Row(s, m)), By(s, m),
                  By(s, m) \cap Apart(s))
      BY <2>1, <2>4 DEF RowStage, Keys, RowEarned, Row
    <3>2. By(s, m) = by
      BY DEF By, Wrote, Diagnosed, Key
    <3>3. QED
      BY <3>1, <3>2 DEF Bounded, Total, Row
  <2>5. QED
    BY <2>2, <2>3, <2>4 DEF RecordsAreEarned
<1>2. QED
  BY <1>1, RecordsInductive, PTL

\* As long as nothing overlaps, every row is exactly what the writes that were
\* made and not erased add up to, although stages raise and turns die.
THEOREM ExactAlone == Spec => []ExactWhenAlone
<1>1. IInv => ExactWhenAlone
  <2> SUFFICES ASSUME IInv, alone PROVE ExactWhenAlone
    BY DEF ExactWhenAlone
  <2>1. \A s \in RowStage : \A k \in Keys(s) : RowExact(s, k, Row(s, k))
    BY DEF IInv, Exact, ExactIn
  <2>2. ASSUME NEW p \in Topics
        PROVE  LET by == Kept("mastery_write") \cap OnTopic(p)
               IN IF by = {} THEN mastery[p] = NoRow
                  ELSE /\ mastery[p] # NoRow
                       /\ mastery[p].attempts = Cardinality(by)
                       /\ mastery[p].correct = Cardinality(by \cap Correct)
    <3> DEFINE s == "mastery_write"
    <3>1. RowExact(s, p, Row(s, p))
      BY <2>1 DEF RowStage, Keys
    <3>2. KeptBy(s, p) = Kept(s) \cap OnTopic(p)
      BY DEF KeptBy, Kept, Wrote, OnTopic, Key
    <3>3. QED
      BY <3>1, <3>2 DEF RowExact, Total, Part, Row, Apart
  <2>3. ASSUME NEW p \in Topics
        PROVE  LET by == Kept("review_record") \cap OnTopic(p)
               IN IF by = {} THEN review[p] = NoRow
                  ELSE /\ review[p] # NoRow
                       /\ review[p].reps = Cardinality(by)
                       /\ review[p].lapses = Cardinality(by \ Correct)
    <3> DEFINE s == "review_record"
               by == Kept(s) \cap OnTopic(p)
    <3>1. RowExact(s, p, Row(s, p))
      BY <2>1 DEF RowStage, Keys
    <3>2. KeptBy(s, p) = by /\ by \cap Apart(s) = by \ Correct
      BY DEF KeptBy, Kept, Wrote, OnTopic, Key, Apart
    <3>3. QED
      BY <3>1, <3>2 DEF RowExact, Total, Part, Row
  <2>4. ASSUME NEW m \in Misconceptions
        PROVE  LET by == Kept("diagnosis") \cap Diagnosed(m)
               IN IF by = {} THEN registry[m] = NoRow
                  ELSE /\ registry[m] # NoRow
                       /\ registry[m].occurrences = Cardinality(by)
    <3> DEFINE s == "diagnosis"
    <3>1. RowExact(s, m, Row(s, m))
      BY <2>1 DEF RowStage, Keys
    <3>2. KeptBy(s, m) = Kept(s) \cap Diagnosed(m)
      BY DEF KeptBy, Kept, Wrote, Diagnosed, Key
    <3>3. QED
      BY <3>1, <3>2 DEF RowExact, Total, Row
  <2>5. QED
    BY <2>2, <2>3, <2>4 DEF ExactWhenAlone
<1>2. QED
  BY <1>1, RecordsInductive, PTL

\* The review queue and the response log hold exactly the turns whose append
\* was made and not erased, and a delivered turn that owed one made it or saw
\* it raise.
THEOREM AppendsSurvive == Spec => []AppendsAreKept
<1>1. IInv => AppendsAreKept
  <2> SUFFICES ASSUME IInv PROVE AppendsAreKept
    OBVIOUS
  <2>1. ASSUME NEW t \in Turns, turn[t].pc = "delivered",
               NEW s \in {"review_queue_write", "response_log_write"},
               s \in StagesOf(turn[t].grade)
        PROVE  turn[t].stage[s] \in {"wrote", "raised"}
    <3>1. StagesPlaced(turn[t]) /\ turn[t] \in TurnRecord /\ s \in StageName
      BY DEF IInv, Placed, TypeOK, StageName
    <3>2. /\ turn[t].stage[s] # "absent"
          /\ turn[t].stage[s] \notin {"read", "skipped", "waiting"}
      BY <2>1, <3>1 DEF StagesPlaced
    <3>3. turn[t].stage[s] \in StageStatus
      BY <3>1 DEF TurnRecord
    <3>4. QED
      BY <3>2, <3>3 DEF StageStatus
  <2>2. QED
    BY <2>1 DEF IInv, Appended, AppendsAreKept, StagesOf
<1>2. QED
  BY <1>1, RecordsInductive, PTL

\* The first diagnosis of a misconception is active for every topic with a
\* trusted grading until it has faded, and in the memory context of that
\* topic's turns unless MaxActive other misconceptions fill it.
THEOREM FirstSurfaces == Spec => []FirstDiagnosisSurfaces
<1>1. IInv => FirstDiagnosisSurfaces
  <2> SUFFICES ASSUME IInv, alone, NEW t \in Kept("diagnosis"),
                      NEW u \in Kept("mastery_write"),
                      registry[turn[t].grade.diagnosis].occurrences = 1,
                      ~registry[turn[t].grade.diagnosis].faded
               PROVE  LET m == turn[t].grade.diagnosis
                          p == turn[u].grade.topic
                      IN /\ m \in ActiveMisconceptions(p)
                         /\ \A top \in SurfacedMisconceptions(p) :
                              m \in top \/ Cardinality(top) = MaxActive
    BY DEF FirstDiagnosisSurfaces
  <2> DEFINE m == turn[t].grade.diagnosis
             p == turn[u].grade.topic
  <2>1. /\ t \in Turns /\ turn[t].stage["diagnosis"] = "wrote"
        /\ u \in Turns /\ turn[u].stage["mastery_write"] = "wrote"
    BY DEF Kept, Wrote
  <2>2. m \in Misconceptions /\ p \in Topics
    BY <2>1, RowsTyped DEF IInv, RowStage, Key, Keys
  <2>3. \A s \in RowStage : \A k \in Keys(s) : RowExact(s, k, Row(s, k))
    BY DEF IInv, Exact, ExactIn
  <2>4. registry[m] # NoRow
    <3>1. t \in KeptBy("diagnosis", m)
      BY DEF KeptBy, Key
    <3>2. RowExact("diagnosis", m, Row("diagnosis", m))
      BY <2>2, <2>3 DEF RowStage, Keys
    <3>3. QED
      BY <3>1, <3>2 DEF RowExact, Row
  <2>5. mastery[p] # NoRow
    <3>1. u \in KeptBy("mastery_write", p)
      BY DEF KeptBy, Key
    <3>2. RowExact("mastery_write", p, Row("mastery_write", p))
      BY <2>2, <2>3 DEF RowStage, Keys
    <3>3. QED
      BY <3>1, <3>2 DEF RowExact, Row
  <2>6. ~registry[m].remediated
    BY <2>2, <2>4 DEF IInv, Fresh, FirstKept
  <2>7. p # NoTopic
    BY <2>2, RecordConstants
  <2>8. m \in ActiveMisconceptions(p)
    BY <2>2, <2>4, <2>5, <2>6, <2>7 DEF ActiveMisconceptions
  <2>9. QED
    BY <2>8 DEF SurfacedMisconceptions
<1>2. QED
  BY <1>1, RecordsInductive, PTL
===========================================================================
