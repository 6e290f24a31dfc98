--------------------------- MODULE LearnerRecords ---------------------------
(***************************************************************************)
(* What graded check_work turns do to one student's persisted records: the *)
(* concurrent post-grading stages of handle_turn write the mastery row,    *)
(* the review state, the misconception registry, the review queue and the  *)
(* response log, while the consolidation job and a GDPR erasure may run.   *)
(* A read-modify-write is a get and a save with awaits between them; each  *)
(* get, save, add and delete is one atomic statement on its own table.     *)
(***************************************************************************)
EXTENDS Integers, FiniteSets

CONSTANTS
  Turns,           \* graded turns; each is graded once
  Topics, NoTopic, \* subtopics, and topic_hint None
  Misconceptions, NoMisconception,
  Grades,          \* the gradings the turns may have
  NoRow,
  MaxActive,       \* misconceptions a context shows at most (3 in the code)
  MaxFailures,     \* bound: stages that raise and turns that die
  MaxBackground    \* bound: consolidations and erasures begun

StageName == {"mastery_write", "review_record", "diagnosis",
              "review_queue_write", "response_log_write"}

(***************************************************************************)
(* A grading: diagnosis is the misconception that should_write_diagnosis   *)
(* lets through, if any.  Full marks are HIGH or, flagged, LOW confidence; *)
(* anything less is MEDIUM or LOW (_compute_confidence).                   *)
(***************************************************************************)
MarkResult ==
  {g \in [topic : Topics \cup {NoTopic}, correct : BOOLEAN,
          confidence : {"high", "medium", "low"}, template : BOOLEAN,
          diagnosis : Misconceptions \cup {NoMisconception}] :
     IF g.correct THEN g.confidence # "medium" /\ g.diagnosis = NoMisconception
                  ELSE g.confidence # "high"}

\* node_state, which depends on the time and on the BKT estimate, is left out.
SubtopicMastery == [attempts : Nat, correct : Nat]
ReviewState == [reps : Nat, lapses : Nat]

\* faded: the decayed strength is at or below the activity threshold.
RegistryEntry == [occurrences : Nat, faded : BOOLEAN, remediated : BOOLEAN]

StageStatus == {"absent", "waiting", "read", "wrote", "skipped", "raised"}

TurnRecord ==
  [pc : {"unborn", "grading", "delivered", "dead"}, grade : Grades,
   stage : [StageName -> StageStatus],
   mastery : SubtopicMastery \cup {NoRow},
   review : ReviewState \cup {NoRow},
   entry : RegistryEntry \cup {NoRow}]

ASSUME RecordConstants ==
  /\ IsFiniteSet(Turns)
  /\ NoTopic \notin Topics
  /\ NoMisconception \notin Misconceptions
  /\ Grades \subseteq MarkResult /\ Grades # {}
  /\ NoRow \notin SubtopicMastery \cup ReviewState \cup RegistryEntry
  /\ MaxActive \in Nat /\ MaxFailures \in Nat /\ MaxBackground \in Nat

VARIABLES
  mastery, review, registry,  \* tables of read-modify-write rows
  queue, responses,           \* tables the turns append to: turn ids
  turn,
  job,        \* the consolidation job: where it is and what it has read
  eraser,     \* deletes done of the erasure under way, 0 if none is
  failures,
  background, \* consolidations and erasures begun
  gone,       \* history: writes deleted since, as <<turn, stage>>
  alone       \* history: never two turns, jobs or erasures at a time

tables == <<mastery, review, registry, queue, responses>>
vars == <<mastery, review, registry, queue, responses, turn, job, eraser,
          failures, background, gone, alone>>

-----------------------------------------------------------------------------
\* Mutant: only wrong work of low confidence is queued.
StagesQueueingWrongOnly(g) ==
  {"mastery_write"}
    \cup (IF g.topic # NoTopic THEN {"review_record"} ELSE {})
    \cup (IF g.correct THEN {} ELSE {"diagnosis"})
    \cup (IF g.confidence = "low" /\ ~g.correct
          THEN {"review_queue_write"} ELSE {})
    \cup (IF g.template THEN {"response_log_write"} ELSE {})

\* post_grading_stages: which stages a grading gives rise to.
StagesOf(g) ==
  {"mastery_write"}
    \cup (IF g.topic # NoTopic THEN {"review_record"} ELSE {})
    \cup (IF g.correct THEN {} ELSE {"diagnosis"})
    \cup (IF g.confidence = "low" THEN {"review_queue_write"} ELSE {})
    \cup (IF g.template THEN {"response_log_write"} ELSE {})

\* should_write_mastery_update, and a topic to write to.
TrustedForMastery(g) == g.topic # NoTopic /\ g.confidence # "low"

AfterMastery(row, correct) ==
  LET base == IF row = NoRow THEN [attempts |-> 0, correct |-> 0] ELSE row
  IN [base EXCEPT !.attempts = @ + 1,
                  !.correct = IF correct THEN @ + 1 ELSE @]

\* Mutants: a recall forgives a lapse, every review counts as a lapse.
AfterReviewForgiving(row, correct) ==
  LET base == IF row = NoRow THEN [reps |-> 0, lapses |-> 0] ELSE row
  IN [base EXCEPT !.reps = @ + 1,
                  !.lapses = IF correct THEN @ - 1 ELSE @ + 1]

AfterReviewAllLapses(row, correct) ==
  LET base == IF row = NoRow THEN [reps |-> 0, lapses |-> 0] ELSE row
  IN [base EXCEPT !.reps = @ + 1, !.lapses = @ + 1]

\* record_review
AfterReview(row, correct) ==
  LET base == IF row = NoRow THEN [reps |-> 0, lapses |-> 0] ELSE row
  IN [base EXCEPT !.reps = @ + 1, !.lapses = IF correct THEN @ ELSE @ + 1]

\* A repeated diagnosis reinforces the entry; remediated_at stays as it was.
AfterDiagnosis(row) ==
  IF row = NoRow
  THEN [occurrences |-> 1, faded |-> FALSE, remediated |-> FALSE]
  ELSE [row EXCEPT !.occurrences = @ + 1, !.faded = FALSE]

\* assemble_memory_context for a turn on topic p: the misconceptions that
\* are active ...
ActiveMisconceptions(p) ==
  IF p = NoTopic THEN {}
  ELSE IF mastery[p] = NoRow THEN {}
  ELSE {m \in Misconceptions : /\ registry[m] # NoRow
                               /\ ~registry[m].remediated
                               /\ ~registry[m].faded}

\* Mutant: the cap cuts one too many.
SurfacedBelowCap(p) ==
  LET active == ActiveMisconceptions(p)
  IN IF Cardinality(active) < MaxActive THEN {active}
     ELSE {top \in SUBSET active : Cardinality(top) = MaxActive - 1}

\* ... and what it may surface: all of them, or the MaxActive strongest.
\* Strengths are real numbers and left out: any MaxActive may be the strongest.
SurfacedMisconceptions(p) ==
  LET active == ActiveMisconceptions(p)
  IN IF Cardinality(active) <= MaxActive THEN {active}
     ELSE {top \in SUBSET active : Cardinality(top) = MaxActive}

-----------------------------------------------------------------------------
Idle == [pc |-> "idle", entries |-> {}, rows |-> {}]

Ungraded == [pc |-> "unborn", grade |-> CHOOSE g \in Grades : TRUE,
             stage |-> [s \in StageName |-> "absent"],
             mastery |-> NoRow, review |-> NoRow, entry |-> NoRow]

Init ==
  /\ mastery = [p \in Topics |-> NoRow]
  /\ review = [p \in Topics |-> NoRow]
  /\ registry = [m \in Misconceptions |-> NoRow]
  /\ queue = {}
  /\ responses = {}
  /\ turn = [t \in Turns |-> Ungraded]
  /\ job = Idle
  /\ eraser = 0
  /\ failures = 0
  /\ background = 0
  /\ gone = {}
  /\ alone = TRUE

Grading(t) == turn[t].pc = "grading"
JobRuns == job.pc # "idle"
EraserRuns == eraser # 0
NobodyElse(t) ==
  ~JobRuns /\ ~EraserRuns /\ \A u \in Turns \ {t} : ~Grading(u)

\* The work is graded and run_plan starts every stage: none depends on
\* another.
Grade(t, g) ==
  /\ turn[t].pc = "unborn"
  /\ turn' = [turn EXCEPT ![t] =
                [Ungraded EXCEPT !.pc = "grading", !.grade = g,
                   !.stage = [s \in StageName |-> IF s \in StagesOf(g)
                                                  THEN "waiting" ELSE "absent"]]]
  /\ alone' = (alone /\ NobodyElse(t))
  /\ UNCHANGED <<tables, job, eraser, failures, background, gone>>

At(t, s, status) == Grading(t) /\ turn[t].stage[s] = status

\* _write_mastery_from_grading: nothing without a topic or on LOW confidence,
\* else memory_store.get_mastery ...
ReadMastery(t) ==
  /\ At(t, "mastery_write", "waiting")
  /\ LET g == turn[t].grade
     IN turn' = IF TrustedForMastery(g)
                THEN [turn EXCEPT ![t].stage["mastery_write"] = "read",
                                  ![t].mastery = mastery[g.topic]]
                ELSE [turn EXCEPT ![t].stage["mastery_write"] = "skipped"]
  /\ UNCHANGED <<tables, job, eraser, failures, background, gone, alone>>

\* ... and memory_store.save_mastery of the whole row.
WriteMastery(t) ==
  /\ At(t, "mastery_write", "read")
  /\ mastery' = [mastery EXCEPT ![turn[t].grade.topic] =
                   AfterMastery(turn[t].mastery, turn[t].grade.correct)]
  /\ turn' = [turn EXCEPT ![t].stage["mastery_write"] = "wrote",
                          ![t].mastery = NoRow]
  /\ UNCHANGED <<review, registry, queue, responses, job, eraser, failures,
                 background, gone, alone>>

ReadReview(t) ==
  /\ At(t, "review_record", "waiting")
  /\ turn' = [turn EXCEPT ![t].stage["review_record"] = "read",
                          ![t].review = review[turn[t].grade.topic]]
  /\ UNCHANGED <<tables, job, eraser, failures, background, gone, alone>>

WriteReview(t) ==
  /\ At(t, "review_record", "read")
  /\ review' = [review EXCEPT ![turn[t].grade.topic] =
                  AfterReview(turn[t].review, turn[t].grade.correct)]
  /\ turn' = [turn EXCEPT ![t].stage["review_record"] = "wrote",
                          ![t].review = NoRow]
  /\ UNCHANGED <<mastery, registry, queue, responses, job, eraser, failures,
                 background, gone, alone>>

\* diagnose_misconception; a diagnosis that may be written reads the
\* registry, any other ends the stage.
ReadRegistry(t) ==
  /\ At(t, "diagnosis", "waiting")
  /\ LET m == turn[t].grade.diagnosis
     IN turn' = IF m = NoMisconception
                THEN [turn EXCEPT ![t].stage["diagnosis"] = "skipped"]
                ELSE [turn EXCEPT ![t].stage["diagnosis"] = "read",
                                  ![t].entry = registry[m]]
  /\ UNCHANGED <<tables, job, eraser, failures, background, gone, alone>>

WriteRegistry(t) ==
  /\ At(t, "diagnosis", "read")
  /\ registry' = [registry EXCEPT ![turn[t].grade.diagnosis] =
                    AfterDiagnosis(turn[t].entry)]
  /\ turn' = [turn EXCEPT ![t].stage["diagnosis"] = "wrote",
                          ![t].entry = NoRow]
  /\ UNCHANGED <<mastery, review, queue, responses, job, eraser, failures,
                 background, gone, alone>>

\* enqueue_review
WriteQueue(t) ==
  /\ At(t, "review_queue_write", "waiting")
  /\ queue' = queue \cup {t}
  /\ turn' = [turn EXCEPT ![t].stage["review_queue_write"] = "wrote"]
  /\ UNCHANGED <<mastery, review, registry, responses, job, eraser, failures,
                 background, gone, alone>>

\* response_log_store.add
WriteResponse(t) ==
  /\ At(t, "response_log_write", "waiting")
  /\ responses' = responses \cup {t}
  /\ turn' = [turn EXCEPT ![t].stage["response_log_write"] = "wrote"]
  /\ UNCHANGED <<mastery, review, registry, queue, job, eraser, failures,
                 background, gone, alone>>

\* A stage raises; run_plan records the exception and the others go on.
StageRaises(t, s) ==
  /\ failures < MaxFailures
  /\ Grading(t) /\ turn[t].stage[s] \in {"waiting", "read"}
  /\ turn' = [turn EXCEPT ![t].stage[s] = "raised"]
  /\ failures' = failures + 1
  /\ UNCHANGED <<tables, job, eraser, background, gone, alone>>

\* run_plan has every result: the graded response goes out.
Deliver(t) ==
  /\ Grading(t)
  /\ \A s \in StageName : turn[t].stage[s] \notin {"waiting", "read"}
  /\ turn' = [turn EXCEPT ![t].pc = "delivered"]
  /\ UNCHANGED <<tables, job, eraser, failures, background, gone, alone>>

\* The process stops in the middle of a turn: what is written stays.
Die(t) ==
  /\ failures < MaxFailures
  /\ Grading(t)
  /\ turn' = [turn EXCEPT ![t] = [Ungraded EXCEPT !.pc = "dead",
                                    !.grade = turn[t].grade,
                                    !.stage = turn[t].stage]]
  /\ failures' = failures + 1
  /\ UNCHANGED <<tables, job, eraser, background, gone, alone>>

-----------------------------------------------------------------------------
NobodyElseJob == ~EraserRuns /\ \A t \in Turns : ~Grading(t)

\* Mutant: the strength of an entry is not looked at.
JobReadsAnyEntry ==
  /\ background < MaxBackground
  /\ background' = background + 1
  /\ ~JobRuns
  /\ job' = [pc |-> "misconceptions", rows |-> {},
             entries |-> {<<m, registry[m]>> : m \in
                            {n \in Misconceptions :
                               /\ registry[n] # NoRow
                               /\ ~registry[n].remediated}}]
  /\ alone' = (alone /\ NobodyElseJob)
  /\ UNCHANGED <<tables, turn, eraser, failures, gone>>

\* consolidate_misconceptions lists the registry and keeps the entries that
\* have faded and are not remediated yet ...
JobReadsRegistry ==
  /\ background < MaxBackground
  /\ background' = background + 1
  /\ ~JobRuns
  /\ job' = [pc |-> "misconceptions", rows |-> {},
             entries |-> {<<m, registry[m]>> : m \in
                            {n \in Misconceptions :
                               /\ registry[n] # NoRow
                               /\ registry[n].faded
                               /\ ~registry[n].remediated}}]
  /\ alone' = (alone /\ NobodyElseJob)
  /\ UNCHANGED <<tables, turn, eraser, failures, gone>>

\* ... and saves each one it read as remediated.
JobRemediates ==
  /\ job.pc = "misconceptions"
  /\ \E e \in job.entries :
       /\ registry' = [registry EXCEPT ![e[1]] =
                         [e[2] EXCEPT !.remediated = TRUE]]
       /\ job' = [job EXCEPT !.entries = @ \ {e}]
  /\ UNCHANGED <<mastery, review, queue, responses, turn, eraser, failures,
                 background, gone, alone>>

\* consolidate_mastery_node_states lists the mastery rows; any of them may
\* have a computed node_state that differs from the stored one, on every run
\* of the job (mastered turns into decayed, and back after practice) ...
JobReadsMastery ==
  /\ job.pc = "misconceptions"
  /\ job.entries = {}
  /\ \E drifted \in SUBSET {p \in Topics : mastery[p] # NoRow} :
       job' = [pc |-> "mastery", entries |-> {},
               rows |-> {<<p, mastery[p]>> : p \in drifted}]
  /\ UNCHANGED <<tables, turn, eraser, failures, background, gone, alone>>

\* Mutant: the row written back starts from nothing.
JobResets ==
  /\ job.pc = "mastery"
  /\ \E r \in job.rows :
       /\ mastery' = [mastery EXCEPT ![r[1]] = AfterMastery(r[2], FALSE)]
       /\ job' = [job EXCEPT !.rows = @ \ {r}]
  /\ UNCHANGED <<review, registry, queue, responses, turn, eraser, failures,
                 background, gone, alone>>

\* ... and saves each of these as it read it, but for the node_state.
JobUpdates ==
  /\ job.pc = "mastery"
  /\ \E r \in job.rows :
       /\ mastery' = [mastery EXCEPT ![r[1]] = r[2]]
       /\ job' = [job EXCEPT !.rows = @ \ {r}]
  /\ UNCHANGED <<review, registry, queue, responses, turn, eraser, failures,
                 background, gone, alone>>

JobEnds ==
  /\ job.pc = "mastery"
  /\ job.rows = {}
  /\ job' = Idle
  /\ UNCHANGED <<tables, turn, eraser, failures, background, gone, alone>>

\* Time passes: a misconception's decayed strength falls below the threshold.
Fade(m) ==
  /\ registry[m] # NoRow
  /\ ~registry[m].faded
  /\ registry' = [registry EXCEPT ![m].faded = TRUE]
  /\ UNCHANGED <<mastery, review, queue, responses, turn, job, eraser,
                 failures, background, gone, alone>>

-----------------------------------------------------------------------------
\* What the writes of these stages, so far, have to lose with their tables.
WritesOf(stages) ==
  {w \in Turns \X stages : turn[w[1]].stage[w[2]] = "wrote"}

\* Mutant: the misconception registry survives the erasure.
EraseMasteryOnly ==
  /\ background < MaxBackground
  /\ background' = background + 1
  /\ eraser = 0
  /\ mastery' = [p \in Topics |-> NoRow]
  /\ eraser' = 1
  /\ gone' = gone \cup WritesOf({"mastery_write", "diagnosis"})
  /\ alone' = (alone /\ ~JobRuns /\ \A t \in Turns : ~Grading(t))
  /\ UNCHANGED <<review, registry, queue, responses, turn, job, failures>>

\* erase_student_data: memory first (both tables in one transaction).
EraseMemory ==
  /\ background < MaxBackground
  /\ background' = background + 1
  /\ eraser = 0
  /\ mastery' = [p \in Topics |-> NoRow]
  /\ registry' = [m \in Misconceptions |-> NoRow]
  /\ eraser' = 1
  /\ gone' = gone \cup WritesOf({"mastery_write", "diagnosis"})
  /\ alone' = (alone /\ ~JobRuns /\ \A t \in Turns : ~Grading(t))
  /\ UNCHANGED <<review, queue, responses, turn, job, failures>>

EraseReviewState ==
  /\ eraser = 1
  /\ review' = [p \in Topics |-> NoRow]
  /\ eraser' = 2
  /\ gone' = gone \cup WritesOf({"review_record"})
  /\ UNCHANGED <<mastery, registry, queue, responses, turn, job, failures,
                 background, alone>>

EraseReviewQueue ==
  /\ eraser = 2
  /\ queue' = {}
  /\ eraser' = 3
  /\ gone' = gone \cup WritesOf({"review_queue_write"})
  /\ UNCHANGED <<mastery, review, registry, responses, turn, job, failures,
                 background, alone>>

\* The last delete; the ErasureReport is returned.
EraseResponses ==
  /\ eraser = 3
  /\ responses' = {}
  /\ eraser' = 0
  /\ gone' = gone \cup WritesOf({"response_log_write"})
  /\ UNCHANGED <<mastery, review, registry, queue, turn, job, failures,
                 background, alone>>

Step(t) ==
  \/ ReadMastery(t) \/ WriteMastery(t)
  \/ ReadReview(t) \/ WriteReview(t)
  \/ ReadRegistry(t) \/ WriteRegistry(t)
  \/ WriteQueue(t) \/ WriteResponse(t)
  \/ Deliver(t)

Next ==
  \/ \E t \in Turns : \/ \E g \in Grades : Grade(t, g)
                      \/ Step(t)
                      \/ \E s \in StageName : StageRaises(t, s)
                      \/ Die(t)
  \/ JobReadsRegistry \/ JobRemediates
  \/ JobReadsMastery \/ JobUpdates \/ JobEnds
  \/ \E m \in Misconceptions : Fade(m)
  \/ EraseMemory \/ EraseReviewState \/ EraseReviewQueue \/ EraseResponses

Spec == Init /\ [][Next]_vars

-----------------------------------------------------------------------------
TypeOK ==
  /\ mastery \in [Topics -> SubtopicMastery \cup {NoRow}]
  /\ review \in [Topics -> ReviewState \cup {NoRow}]
  /\ registry \in [Misconceptions -> RegistryEntry \cup {NoRow}]
  /\ queue \in SUBSET Turns
  /\ responses \in SUBSET Turns
  /\ turn \in [Turns -> TurnRecord]
  /\ job \in [pc : {"idle", "misconceptions", "mastery"},
              entries : SUBSET (Misconceptions \X RegistryEntry),
              rows : SUBSET (Topics \X SubtopicMastery)]
  /\ eraser \in 0..3
  /\ failures \in 0..MaxFailures
  /\ background \in 0..MaxBackground
  /\ gone \in SUBSET (Turns \X StageName)
  /\ alone \in BOOLEAN

Wrote(s) == {t \in Turns : turn[t].stage[s] = "wrote"}
\* Turns whose write of this stage has not been erased.
Kept(s) == {t \in Wrote(s) : <<t, s>> \notin gone}
OnTopic(p) == {t \in Turns : turn[t].grade.topic = p}
Correct == {t \in Turns : turn[t].grade.correct}
Diagnosed(m) == {t \in Turns : turn[t].grade.diagnosis = m}

(***************************************************************************)
(* No table ever shows more practice than there was: counts stay within    *)
(* the turns whose write was made, each counted once, a mastery row counts *)
(* only trusted gradings, and the correct, the lapsed and the attempted    *)
(* agree, however turns, the job and an erasure interleave and fail.       *)
(***************************************************************************)
RecordsAreEarned ==
  /\ \A p \in Topics : mastery[p] # NoRow =>
       LET by == Wrote("mastery_write") \cap OnTopic(p)
       IN /\ mastery[p].attempts \in 1..Cardinality(by)
          /\ mastery[p].correct <= Cardinality(by \cap Correct)
          /\ mastery[p].attempts - mastery[p].correct
               <= Cardinality(by \ Correct)
          /\ \A t \in by : turn[t].grade.confidence # "low"
  /\ \A p \in Topics : review[p] # NoRow =>
       LET by == Wrote("review_record") \cap OnTopic(p)
       IN /\ review[p].reps \in 1..Cardinality(by)
          /\ review[p].lapses <= Cardinality(by \ Correct)
          /\ review[p].reps - review[p].lapses <= Cardinality(by \cap Correct)
  /\ \A m \in Misconceptions : registry[m] # NoRow =>
       registry[m].occurrences \in
         1..Cardinality(Wrote("diagnosis") \cap Diagnosed(m))

(***************************************************************************)
(* The stages of one plan may run in any order, and any of them may raise, *)
(* without disturbing each other: as long as no two turns, jobs or         *)
(* erasures overlap, every row is exactly what the kept writes add up to,  *)
(* and after an erasure nothing of the student is left.                    *)
(***************************************************************************)
ExactWhenAlone ==
  alone =>
    /\ \A p \in Topics :
         LET by == Kept("mastery_write") \cap OnTopic(p)
         IN IF by = {} THEN mastery[p] = NoRow
            ELSE /\ mastery[p] # NoRow
                 /\ mastery[p].attempts = Cardinality(by)
                 /\ mastery[p].correct = Cardinality(by \cap Correct)
    /\ \A p \in Topics :
         LET by == Kept("review_record") \cap OnTopic(p)
         IN IF by = {} THEN review[p] = NoRow
            ELSE /\ review[p] # NoRow
                 /\ review[p].reps = Cardinality(by)
                 /\ review[p].lapses = Cardinality(by \ Correct)
    /\ \A m \in Misconceptions :
         LET by == Kept("diagnosis") \cap Diagnosed(m)
         IN IF by = {} THEN registry[m] = NoRow
            ELSE /\ registry[m] # NoRow
                 /\ registry[m].occurrences = Cardinality(by)

(***************************************************************************)
(* The append-only tables need no such condition: whatever overlaps, a     *)
(* delivered turn of low confidence is in the queue, and one that answered *)
(* a template in the response log, unless the write itself raised or was   *)
(* erased.                                                                 *)
(***************************************************************************)
AppendsAreKept ==
  /\ queue = Kept("review_queue_write")
  /\ responses = Kept("response_log_write")
  /\ \A t \in Turns :
       turn[t].pc = "delivered" =>
         /\ turn[t].grade.confidence = "low" =>
              turn[t].stage["review_queue_write"] \in {"wrote", "raised"}
         /\ turn[t].grade.template =>
              turn[t].stage["response_log_write"] \in {"wrote", "raised"}

(***************************************************************************)
(* A diagnosis reaches the student's next turns although it is written in  *)
(* one table and surfaced only through another one's row: the first of a   *)
(* misconception, until time has weakened it, is active for every topic    *)
(* with a trusted grading, whatever the job did, and in the context of its *)
(* turns unless MaxActive others take all the places                       *)
(* (assemble_memory_context beside run_memory_consolidation).              *)
(***************************************************************************)
FirstDiagnosisSurfaces ==
  alone =>
    \A t \in Kept("diagnosis"), u \in Kept("mastery_write") :
      LET m == turn[t].grade.diagnosis
          p == turn[u].grade.topic
      IN registry[m].occurrences = 1 /\ ~registry[m].faded =>
           /\ m \in ActiveMisconceptions(p)
           /\ \A top \in SurfacedMisconceptions(p) :
                m \in top \/ Cardinality(top) = MaxActive

\* README.md:65 "the very next turn's memory context assembly automatically
\* surfaces the misconception": one that a delivered turn on this topic was
\* diagnosed with, still strong, is in the next turn's context.
DiagnosisSurfaces ==
  (\A t \in Turns : ~Grading(t)) =>
    \A t \in Turns, m \in Misconceptions :
      /\ turn[t].pc = "delivered"
      /\ turn[t].stage["diagnosis"] = "wrote"
      /\ turn[t].grade.diagnosis = m
      /\ turn[t].grade.topic # NoTopic
      /\ registry[m] # NoRow /\ ~registry[m].faded
      => \A top \in SurfacedMisconceptions(turn[t].grade.topic) : m \in top
=============================================================================
