------------------------- MODULE PracticeLoopProofs -------------------------
(***************************************************************************)
(* PracticeLoop's invariants for every set of tasks, submissions, photos,  *)
(* reviewers and every bound.  First what the grader computes for any      *)
(* task and any work, then an inductive invariant of the loop.             *)
(***************************************************************************)
EXTENDS PracticeLoop, TLAPS

-----------------------------------------------------------------------------
\* The lines of a submission and what is read from each of them.
LEMMA LineFacts ==
  ASSUME NEW work \in Seq(WorkStep), NEW i \in DOMAIN work
  PROVE  /\ i \in 1..Len(work) /\ Len(work) \in Nat
         /\ work[i] \in WorkStep
         /\ Normalized(work[i]) \in Values \cup {Unreadable}
         /\ Normalized(work[i]) # Unreadable =>
              Normalized(work[i]) \in CandidateValues(work[i])
<1>1. /\ Len(work) \in Nat /\ DOMAIN work = 1..Len(work)
      /\ work[i] \in WorkStep
  OBVIOUS
<1> DEFINE v == work[i].values
<1>2. v \in Seq(Values \cup {Unreadable})
  BY <1>1 DEF WorkStep
<1>3. CASE v = <<>> \/ work[i].latex
  BY <1>1, <1>3 DEF Normalized
<1>4. CASE ~(v = <<>> \/ work[i].latex)
  <2>1. Len(v) \in DOMAIN v /\ v[Len(v)] \in Values \cup {Unreadable}
    BY <1>2, <1>4
  <2>2. Normalized(work[i]) = v[Len(v)]
    BY <1>4 DEF Normalized
  <2>3. CandidateValues(work[i]) =
          {v[k] : k \in DOMAIN v} \ {Unreadable}
    BY <1>4 DEF CandidateValues
  <2>4. QED
    BY <1>1, <2>1, <2>2, <2>3
<1>5. QED
  BY <1>3, <1>4

\* Manipulations are the working a reader sees above the last line.
LEMMA WorkingShown ==
  ASSUME NEW task \in Task, NEW work \in Seq(WorkStep)
  PROVE  Manipulations(task, work) = ShownWorking(task, work)
<1>1. DOMAIN work = 1..Len(work) /\ Len(work) \in Nat
  OBVIOUS
<1>2. ASSUME NEW i \in Manipulations(task, work)
      PROVE  i \in ShownWorking(task, work)
  <2>1. /\ i \in DOMAIN work
        /\ i \notin Restatements(task, work)
        /\ i \notin FinalAnswer(task, work)
        /\ Normalized(work[i]) # Unreadable
    BY <1>2 DEF Manipulations
  <2>2. i # Len(work)
    BY <2>1 DEF FinalAnswer
  <2>3. Normalized(work[i]) # task.given
    BY <2>1 DEF Restatements, Equivalent
  <2>4. QED
    BY <1>1, <2>1, <2>2, <2>3 DEF ShownWorking, AddsValue
<1>3. ASSUME NEW i \in ShownWorking(task, work)
      PROVE  i \in Manipulations(task, work)
  <2>1. /\ i \in 1..(Len(work) - 1)
        /\ Normalized(work[i]) # Unreadable
        /\ Normalized(work[i]) # task.given
    BY <1>3 DEF ShownWorking, AddsValue
  <2>2. ASSUME NEW n \in Nat, i \in 1..(n - 1)
        PROVE  i \in 1..n /\ i # n
    BY <2>2
  <2>3. i \in DOMAIN work /\ i # Len(work)
    BY <1>1, <2>1, <2>2
  <2>4. QED
    BY <2>1, <2>3 DEF Manipulations, FinalAnswer, Restatements, Equivalent
<1>4. QED
  BY <1>2, <1>3

\* There is a final answer exactly when the work closes with one, and it is
\* the last line.
LEMMA FinalAnswerCloses ==
  ASSUME NEW task \in Task, NEW work \in Seq(WorkStep)
  PROVE  /\ FinalAnswer(task, work) \subseteq {Len(work)}
         /\ FinalAnswer(task, work) # {} <=> Closes(task, work)
<1>1. DOMAIN work = 1..Len(work) /\ Len(work) \in Nat
      /\ (work # <<>> <=> Len(work) \in DOMAIN work)
  OBVIOUS
<1>2. FinalAnswer(task, work) \subseteq {Len(work)}
  BY DEF FinalAnswer
<1>3. Len(work) \in FinalAnswer(task, work) <=> Closes(task, work)
  BY <1>1 DEF FinalAnswer, Restatements, Equivalent, Closes, AddsValue
<1>4. QED
  BY <1>2, <1>3

\* Method marks are all or nothing.
LEMMA MarkFacts ==
  ASSUME NEW task \in Task, NEW work \in Seq(WorkStep)
  PROVE  /\ task.methods \in Nat \ {0}
         /\ MethodMarks(task, work) = IF ShownWorking(task, work) = {}
                                      THEN 0 ELSE task.methods
         /\ AccuracyMarks(task, work) \in {0, 1}
         /\ AnswerFound(task, work) <=> AccuracyMarks(task, work) = 1
         /\ TotalAvailable(task) = task.methods + 1
BY WorkingShown DEF Task, MethodMarks, AccuracyMarks, TotalAvailable

\* The flag: a found answer at the end, and no working.
LEMMA FlagFacts ==
  ASSUME NEW task \in Task, NEW work \in Seq(WorkStep)
  PROVE  UnsupportedAnswer(task, work) <=>
           /\ Closes(task, work) /\ AnswerFound(task, work)
           /\ ShownWorking(task, work) = {}
<1>1. CASE ShownWorking(task, work) = {}
  <2>1. MethodMarks(task, work) = 0 /\ task.methods \in Nat \ {0}
    BY <1>1, MarkFacts
  <2>2. 10 * MethodMarks(task, work) < 4 * task.methods
    BY <2>1
  <2>3. QED
    BY <1>1, <2>2, FinalAnswerCloses DEF UnsupportedAnswer
<1>2. CASE ShownWorking(task, work) # {}
  <2>1. MethodMarks(task, work) = task.methods /\ task.methods \in Nat \ {0}
    BY <1>2, MarkFacts
  <2>2. ~(10 * MethodMarks(task, work) < 4 * task.methods)
    BY <2>1
  <2>3. QED
    BY <1>2, <2>2 DEF UnsupportedAnswer
<1>3. QED
  BY <1>1, <1>2

\* Without working, only the last line can hold the answer.
LEMMA BareAnswer ==
  ASSUME NEW task \in Task, NEW work \in Seq(WorkStep),
         ShownWorking(task, work) = {}, Closes(task, work)
  PROVE  AnswerFound(task, work) <=> EndsOnAnswer(task, work)
<1>1. Checkable(task, work) = {Len(work)} /\ Len(work) \in DOMAIN work
  <2>1. FinalAnswer(task, work) = {Len(work)}
    BY FinalAnswerCloses
  <2>2. Manipulations(task, work) = {}
    BY WorkingShown
  <2>3. QED
    BY <2>1, <2>2 DEF Checkable, FinalAnswer
<1> DEFINE last == work[Len(work)]
<1>2. Unreadable \notin task.expected
  BY UnreadableIsNoValue DEF Task
<1>3. CASE IsMultiRoot(task)
  <2>1. UNION {CandidateValues(work[i]) : i \in Checkable(task, work)}
          = CandidateValues(last)
    BY <1>1
  <2>2. QED
    BY <1>3, <2>1 DEF AnswerFound, EndsOnAnswer
<1>4. CASE ~IsMultiRoot(task)
  <2>1. (\E i \in Checkable(task, work) :
           \E v \in task.expected : Equivalent(Normalized(work[i]), v))
          <=> Normalized(last) \in task.expected
    BY <1>1, <1>2 DEF Equivalent
  <2>2. QED
    BY <1>4, <2>1 DEF AnswerFound, EndsOnAnswer
<1>5. QED
  BY <1>3, <1>4

\* What the closing line states, a reader finds in the work.
LEMMA EndStatesAll ==
  ASSUME NEW task \in Task, NEW work \in Seq(WorkStep),
         AnswerFound(task, work)
  PROVE  \A v \in task.expected :
           \E i \in DOMAIN work : v \in CandidateValues(work[i])
<1>1. Checkable(task, work) \subseteq DOMAIN work
  BY DEF Checkable, Manipulations, FinalAnswer
<1>2. CASE IsMultiRoot(task)
  BY <1>1, <1>2 DEF AnswerFound
<1>3. CASE ~IsMultiRoot(task)
  <2>1. PICK i \in Checkable(task, work) :
          \E v \in task.expected : Equivalent(Normalized(work[i]), v)
    BY <1>3 DEF AnswerFound
  <2>2. i \in DOMAIN work
    BY <1>1, <2>1
  <2>3. Normalized(work[i]) # Unreadable /\ Normalized(work[i]) \in task.expected
    BY <2>1 DEF Equivalent
  <2>4. Normalized(work[i]) \in CandidateValues(work[i])
    BY <2>2, <2>3, LineFacts
  <2>5. \A v \in task.expected : v = Normalized(work[i])
    BY <1>3, <2>3 DEF IsMultiRoot
  <2>6. QED
    BY <2>2, <2>4, <2>5
<1>4. QED
  BY <1>2, <1>3

\* A high grade has every mark, so the answer is found and working is shown.
LEMMA HighGrade ==
  ASSUME NEW task \in Task, NEW work \in Seq(WorkStep),
         Confidence(task, work) = "high"
  PROVE  /\ AnswerFound(task, work)
         /\ ShownWorking(task, work) # {}
         /\ FirstError(task, work) = NoError
<1>1. /\ FinalAnswer(task, work) # {}
      /\ MethodMarks(task, work) + AccuracyMarks(task, work)
           = TotalAvailable(task)
  BY DEF Confidence
<1>2. AnswerFound(task, work) /\ ShownWorking(task, work) # {}
  <2> DEFINE m == MethodMarks(task, work)
             a == AccuracyMarks(task, work)
             k == task.methods
  <2>1. /\ k \in Nat \ {0} /\ m \in {0, k} /\ a \in {0, 1}
        /\ m + a = k + 1
        /\ AnswerFound(task, work) <=> a = 1
        /\ m # 0 => ShownWorking(task, work) # {}
    BY <1>1, MarkFacts
  <2> HIDE DEF m, a, k
  <2>2. a = 1 /\ m # 0
    BY <2>1
  <2>3. QED
    BY <2>1, <2>2
<1>3. QED
  BY <1>1, <1>2 DEF FirstError

\* A low grade is one whose work does not close with an answer, or shows no
\* working above it.
LEMMA LowGrade ==
  ASSUME NEW task \in Task, NEW work \in Seq(WorkStep)
  PROVE  Confidence(task, work) = "low" <=>
           \/ ~Closes(task, work)
           \/ ShownWorking(task, work) = {}
<1> DEFINE m == MethodMarks(task, work)
           a == AccuracyMarks(task, work)
           k == task.methods
<1>1. /\ k \in Nat \ {0} /\ a \in {0, 1}
      /\ m = IF ShownWorking(task, work) = {} THEN 0 ELSE k
      /\ AnswerFound(task, work) <=> a = 1
      /\ TotalAvailable(task) = k + 1
  BY MarkFacts
<1>2. FinalAnswer(task, work) # {} <=> Closes(task, work)
  BY FinalAnswerCloses
<1>3. CASE ~Closes(task, work)
  BY <1>2, <1>3 DEF Confidence
<1>4. CASE Closes(task, work) /\ ShownWorking(task, work) = {}
  <2>1. CASE AnswerFound(task, work)
    BY <1>4, <2>1, FlagFacts DEF Confidence
  <2>2. CASE ~AnswerFound(task, work)
    <3> HIDE DEF m, a, k
    <3>1. m = 0 /\ a = 0
      BY <1>1, <1>4, <2>2
    <3>2. m + a # k + 1 /\ ~(m + a > 0)
      BY <1>1, <3>1
    <3>3. QED
      BY <1>1, <1>4, <3>2 DEF Confidence, m, a
  <2>3. QED
    BY <2>1, <2>2
<1>5. CASE Closes(task, work) /\ ShownWorking(task, work) # {}
  <2>1. ~UnsupportedAnswer(task, work)
    BY <1>5, FlagFacts
  <2>2. m + a > 0
    <3> HIDE DEF m, a, k
    <3>1. QED
      BY <1>1, <1>5
  <2>3. QED
    BY <1>2, <1>5, <2>1, <2>2 DEF Confidence
<1>6. QED
  BY <1>3, <1>4, <1>5

\* The flag in the words of the properties.
LEMMA FlagIffBare ==
  ASSUME NEW task \in Task, NEW work \in Seq(WorkStep)
  PROVE  UnsupportedAnswer(task, work) <=>
           EndsOnAnswer(task, work) /\ ShownWorking(task, work) = {}
<1>1. EndsOnAnswer(task, work) => Closes(task, work)
  BY DEF EndsOnAnswer
<1>2. QED
  BY <1>1, FlagFacts, BareAnswer

\* A closing line that states the whole answer is found.
LEMMA EndIsFound ==
  ASSUME NEW task \in Task, NEW work \in Seq(WorkStep),
         EndsOnAnswer(task, work)
  PROVE  AnswerFound(task, work) /\ FinalAnswer(task, work) # {}
<1>1. Closes(task, work)
  BY DEF EndsOnAnswer
<1>2. FinalAnswer(task, work) = {Len(work)}
  BY <1>1, FinalAnswerCloses
<1>3. Len(work) \in Checkable(task, work)
  BY <1>2 DEF Checkable
<1>4. Unreadable \notin task.expected
  BY UnreadableIsNoValue DEF Task
<1>5. CASE IsMultiRoot(task)
  BY <1>2, <1>3, <1>5 DEF EndsOnAnswer, AnswerFound
<1>6. CASE ~IsMultiRoot(task)
  BY <1>2, <1>3, <1>4, <1>6 DEF EndsOnAnswer, AnswerFound, Equivalent
<1>7. QED
  BY <1>2, <1>5, <1>6

\* A closing line that fits a catalogued error states all its values and is
\* not the right answer, since one of them is wrong and there are no more
\* values on the line than the right answer has.
LEMMA PatternIsWrong ==
  ASSUME NEW task \in Tasks, NEW work \in Seq(WorkStep),
         Closes(task, work), PatternFits(task, work[Len(work)])
  PROVE  /\ ~EndsOnAnswer(task, work)
         /\ \E answer \in WrongAnswers[task] :
              {answer[k] : k \in DOMAIN answer}
                \subseteq CandidateValues(work[Len(work)])
<1> DEFINE last == work[Len(work)]
<1>1. Len(work) \in DOMAIN work /\ last \in WorkStep
  BY DEF Closes
<1>2. PICK answer \in WrongAnswers[task] : ValuesMatch(answer, last)
  BY DEF PatternFits
<1>3. /\ answer \in Seq(Values)
      /\ \E k \in DOMAIN answer : answer[k] \notin task.expected
      /\ \/ Len(answer) = 1 /\ ~IsMultiRoot(task)
         \/ Len(answer) = 2 /\ (IsMultiRoot(task) \/ task.assignment)
  BY <1>2, ErrorsAreWrong
<1>4. DOMAIN answer = 1..Len(answer) /\ \A k \in DOMAIN answer :
        answer[k] \in Values /\ answer[k] # Unreadable
  BY <1>3, UnreadableIsNoValue
<1>5. CASE Len(answer) = 1
  <2>1. DOMAIN answer = {1}
    BY <1>4, <1>5
  <2>2. Normalized(last) = answer[1] /\ answer[1] # Unreadable
    BY <1>2, <1>4, <1>5, <2>1 DEF ValuesMatch, Equivalent
  <2>3. Normalized(last) \in CandidateValues(last)
    BY <1>1, <2>2, LineFacts
  <2>4. ~IsMultiRoot(task) /\ Normalized(last) \notin task.expected
    BY <1>3, <1>5, <2>1, <2>2
  <2>5. QED
    BY <1>2, <2>1, <2>2, <2>3, <2>4 DEF EndsOnAnswer
<1>6. CASE Len(answer) = 2
  <2>1. DOMAIN answer = {1, 2}
    BY <1>4, <1>6
  <2>2. /\ ~last.latex /\ Len(last.values) = 2
        /\ \E f \in Injection(DOMAIN answer, DOMAIN last.values) :
             \A k \in DOMAIN answer : last.values[f[k]] = answer[k]
    BY <1>2, <1>6 DEF ValuesMatch
  <2>3. last.values \in Seq(Values \cup {Unreadable})
    BY <1>1 DEF WorkStep
  <2>4. DOMAIN last.values = {1, 2}
    BY <2>2, <2>3
  <2>5. PICK f \in Injection({1, 2}, {1, 2}) :
          \A k \in {1, 2} : last.values[f[k]] = answer[k]
    BY <2>1, <2>2, <2>4
  <2>6. f[1] \in {1, 2} /\ f[2] \in {1, 2} /\ f[1] # f[2]
    BY <2>5 DEF Injection, IsInjective
  <2>7. CandidateValues(last)
          = {last.values[k] : k \in {1, 2}} \ {Unreadable}
    BY <2>2, <2>4 DEF CandidateValues
  <2>8. CandidateValues(last) = {answer[1], answer[2]}
    BY <1>4, <2>1, <2>5, <2>6, <2>7
  <2>9. ~EndsOnAnswer(task, work)
    BY <1>3, <1>6, <2>1, <2>8 DEF EndsOnAnswer, IsMultiRoot
  <2>10. QED
    BY <1>2, <2>1, <2>8, <2>9
<1>7. QED
  BY <1>3, <1>5, <1>6

LEMMA GradeIsMarkResult ==
  ASSUME NEW task \in Task, NEW work \in Seq(WorkStep)
  PROVE  GradeSubmission(task, work) \in MarkResult
<1>1. /\ MethodMarks(task, work) + AccuracyMarks(task, work) \in Nat
      /\ TotalAvailable(task) \in Nat
  <2> DEFINE m == MethodMarks(task, work)
             a == AccuracyMarks(task, work)
             k == task.methods
  <2>1. m \in Nat /\ a \in Nat /\ k \in Nat /\ TotalAvailable(task) = k + 1
    BY MarkFacts
  <2> HIDE DEF m, a, k
  <2>2. m + a \in Nat /\ k + 1 \in Nat
    BY <2>1
  <2>3. QED
    BY <2>1, <2>2 DEF m, a
<1>2. FirstError(task, work) \in Int
  <2>1. Len(work) \in Nat
    OBVIOUS
  <2>2. Len(work) \in Int /\ Len(work) - 1 \in Int /\ NoError \in Int
    BY <2>1 DEF NoError
  <2>3. QED
    BY <2>2 DEF FirstError
<1>3. UnsupportedAnswer(task, work) \in BOOLEAN
  BY DEF UnsupportedAnswer
<1>4. Confidence(task, work) \in {"high", "medium", "low"}
  BY DEF Confidence
<1>5. QED
  BY <1>1, <1>2, <1>3, <1>4 DEF GradeSubmission, MarkResult

\* Only what parsed and is balanced reaches the bar of HIGH.
LEMMA UsablePhoto ==
  ASSUME NEW photo \in Photo, UsableWork(photo)
  PROVE  photo.balanced /\ Parseable(photo) /\ photo.lines \in Seq(WorkStep)
<1>1. Tier(photo) = "high"
  BY DEF UsableWork, IngestImage
<1>2. photo.chars \in 0..20 /\ photo.lines \in Seq(WorkStep)
      /\ photo.balanced \in BOOLEAN
  BY DEF Photo, FullCreditChars
<1>3. photo.chars + (IF Parseable(photo) THEN 50 ELSE 0)
        + (IF photo.balanced THEN 30 ELSE 0) >= 75
  BY <1>1 DEF Tier
<1>4. ASSUME NEW c \in 0..20, NEW p \in {0, 50}, NEW b \in {0, 30},
             c + p + b >= 75
      PROVE  p = 50 /\ b = 30
  BY <1>4
<1>5. (IF Parseable(photo) THEN 50 ELSE 0) = 50
      /\ (IF photo.balanced THEN 30 ELSE 0) = 30
  BY <1>2, <1>3, <1>4
<1>6. QED
  BY <1>2, <1>5

-----------------------------------------------------------------------------
\* The inductive invariant.  SubInv: what is being graded is the grade of its
\* task and lines, and a photograph among them passed the bar.  Fresh: a turn
\* that has not recorded yet left no trace in the queue, so that what
\* Record writes was never reviewed and never erased.  ItemInv: where an item
\* turn stands, and that it serves nothing before it ends.
SubInv ==
  sub.graded =>
    /\ turns \in TurnIds
    /\ sub.task \in Tasks /\ sub.task \in Task /\ sub.work \in Seq(WorkStep)
    /\ sub.result = GradeSubmission(sub.task, sub.work)
    /\ sub.photo # NoPhoto => sub.photo \in Photo /\ UsableWork(sub.photo)

Fresh ==
  \A n \in TurnIds : n > turns \/ (n = turns /\ pc = "graded") =>
    /\ entry[n] = NoEntry
    /\ \A u \in updates : u[1] # n
    /\ n \notin erased

ItemInv ==
  /\ pc = "authoring" => item = NoItem /\ TemplateFor[topic] = NoTemplate
  /\ pc = "sampling" => item = NoItem /\ template = SelectTemplate(topic)
  /\ ServedItemIsSound

ReviewInv == Fresh /\ PendingMeansUnreviewed /\ ErasedStaysErased

IInv == TypeOK /\ SubInv /\ ReviewInv /\ ItemInv

LEMMA SelectedIsTemplate ==
  ASSUME NEW p \in Topics
  PROVE  SelectTemplate(p) \in Templates
BY ItemConstants DEF SelectTemplate, TopicHasKnownTemplate

\* What is served is an item that failed no gate.
LEMMA ItemFacts ==
  ASSUME NEW t \in Templates, NEW b \in BOOLEAN, NEW c \in Candidate,
         Accepts(c)
  PROVE  /\ ParametricItem(t, b, c) \in Item
         /\ ParametricItem(t, b, c).failed = {}
         /\ ParametricItem(t, b, c).template = t
         /\ t # LLMVariant
<1>1. FailedGates(c) = {}
  BY DEF FailedGates, Accepts, DistractorsOf, Gates
<1>2. t # LLMVariant
  BY ItemConstants
<1>3. QED
  BY <1>1, <1>2 DEF ParametricItem, Item

LEMMA AuthoredFacts ==
  /\ AuthoredItem \in Item /\ AuthoredItem.failed = {}
  /\ AuthoredItem.template = LLMVariant
BY DEF AuthoredItem, Item

LEMMA ReviewOfTyped ==
  ASSUME NEW result \in MarkResult
  PROVE  ReviewOf(result) \in ReviewQueueEntry \cup {NoEntry}
BY DEF ReviewOf, ReviewQueueEntry

LEMMA InitInv == Init => IInv
<1> SUFFICES ASSUME Init PROVE IInv
  OBVIOUS
<1> USE DEF Init
<1>1. TurnType
  <2>1. topic \in Topics
    BY ItemConstants DEF DefaultTopic
  <2>2. turns \in 0..MaxTurns
    BY LoopConstants
  <2>3. QED
    BY <2>1, <2>2 DEF TurnType, AuthorOutcome
<1>2. SubType /\ SubInv
  BY DEF SubType, SubInv, NoSubmission
<1>3. RecordType
  BY DEF RecordType
<1>4. ReviewInv
  BY DEF ReviewInv, Fresh, PendingMeansUnreviewed, ErasedStaysErased
<1>5. ItemInv
  BY DEF ItemInv, ServedItemIsSound
<1>6. QED
  BY <1>1, <1>2, <1>3, <1>4, <1>5 DEF IInv, TypeOK

-----------------------------------------------------------------------------
\* The steps that leave the turn under way, and what it served, alone.
ReviewerStep ==
  \/ \E r \in Reviewers, op \in {"resolve", "appeal"}, n \in TurnIds :
       ReadEntry(r, op, n)
  \/ \E r \in Reviewers : UpdateEntry(r)
  \/ EraseQueue
  \/ EraseResponses

LEMMA ReviewerFrame ==
  ReviewerStep \/ UNCHANGED vars => UNCHANGED <<turns, pc, itemVars, sub>>
BY DEF ReviewerStep, ReadEntry, UpdateEntry, EraseQueue, EraseResponses,
       vars, itemVars

\* One case for each action of the turn, and one for everything else.
LEMMA NextCases ==
  [Next]_vars =>
    \/ \E p \in Topics : AskForItem(p)
    \/ \E outcome \in AuthorOutcome : Author(outcome)
    \/ \E c \in Candidates : Sample(c)
    \/ \E task \in Tasks, work \in TypedWork, verified \in BOOLEAN :
         SubmitTyped(task, work, verified)
    \/ \E task \in Tasks, photo \in Photos, verified \in BOOLEAN :
         SubmitPhoto(task, photo, verified)
    \/ \E named \in Named : Record(named)
    \/ ReviewerStep \/ UNCHANGED vars
BY DEF Next, TimedStep, Sampling, ReviewerStep

\* The sampling that an item turn starts is of the template of its topic.
LEMMA SamplingStarts ==
  ASSUME IInv, NEW p \in Topics, StartSampling(p)
  PROVE  /\ pc' = "sampling" /\ template' = SelectTemplate(p)
         /\ template' \in Templates /\ recal' \in BOOLEAN
         /\ attempts' = 0 /\ 0 < MaxResampleAttempts
BY SelectedIsTemplate, ItemConstants DEF StartSampling, Recalibrates

\* The turn under way keeps its type and what is known of its item.
LEMMA TurnStepInv ==
  IInv /\ [Next]_vars => TurnType' /\ ItemInv'
<1> SUFFICES ASSUME IInv, [Next]_vars PROVE TurnType' /\ ItemInv'
  OBVIOUS
<1>1. TurnType /\ ItemInv
  BY DEF IInv, TypeOK
<1>2. MaxTurns \in Nat /\ MaxAuthorAttempts \in Nat \ {0}
      /\ MaxResampleAttempts \in Nat \ {0}
  BY LoopConstants, ItemConstants
<1>3. ASSUME NEW p \in Topics, AskForItem(p)
      PROVE  TurnType' /\ ItemInv'
  <2>1. /\ turns' \in 0..MaxTurns /\ topic' = p /\ item' = NoItem
        /\ claim' = claim
    BY <1>1, <1>2, <1>3 DEF AskForItem, BeginTurn, TurnType
  <2>2. CASE TopicHasKnownTemplate(p)
    <3>1. StartSampling(p)
      BY <1>3, <2>2 DEF AskForItem
    <3>2. TurnType'
      BY <1>1, <2>1, <3>1, SamplingStarts DEF TurnType
    <3>3. ItemInv'
      BY <2>1, <3>1, SamplingStarts DEF ItemInv, ServedItemIsSound
    <3>4. QED
      BY <3>2, <3>3
  <2>3. CASE ~TopicHasKnownTemplate(p)
    <3>1. pc' = "authoring" /\ attempts' = 0 /\ template' = template
          /\ recal' = recal
      BY <1>3, <2>3 DEF AskForItem
    <3>2. TurnType'
      BY <1>1, <1>2, <2>1, <3>1 DEF TurnType
    <3>3. ItemInv'
      BY <2>1, <2>3, <3>1
         DEF ItemInv, ServedItemIsSound, TopicHasKnownTemplate
    <3>4. QED
      BY <3>2, <3>3
  <2>4. QED
    BY <2>2, <2>3
<1>4. ASSUME NEW outcome \in AuthorOutcome, Author(outcome)
      PROVE  TurnType' /\ ItemInv'
  <2>1. /\ pc = "authoring" /\ claim' = outcome /\ turns' = turns
        /\ topic' = topic /\ topic \in Topics /\ item = NoItem
        /\ TemplateFor[topic] = NoTemplate
    BY <1>1, <1>4 DEF Author, TurnType, ItemInv
  <2>2. CASE outcome = "verified"
    <3>1. Serve(AuthoredItem)
      BY <1>4, <2>2 DEF Author
    <3>2. TurnType'
      BY <1>1, <2>1, <3>1, AuthoredFacts DEF TurnType, Serve
    <3>3. ItemInv'
      BY <2>1, <2>2, <3>1, AuthoredFacts DEF ItemInv, ServedItemIsSound, Serve
    <3>4. QED
      BY <3>2, <3>3
  <2>3. CASE outcome # "verified"
             /\ (outcome = "unavailable" \/ attempts + 1 = MaxAuthorAttempts)
    <3>1. StartSampling(topic) /\ item' = item
      BY <1>4, <2>3 DEF Author
    <3>2. TurnType'
      BY <1>1, <2>1, <3>1, SamplingStarts DEF TurnType
    <3>3. ItemInv'
      BY <2>1, <3>1, SamplingStarts DEF ItemInv, ServedItemIsSound
    <3>4. QED
      BY <3>2, <3>3
  <2>4. CASE outcome # "verified" /\ outcome # "unavailable"
             /\ attempts + 1 # MaxAuthorAttempts
    <3>1. /\ attempts' = attempts + 1 /\ pc' = pc /\ template' = template
          /\ recal' = recal /\ item' = item
      BY <1>4, <2>4 DEF Author
    <3>2. attempts' \in Nat /\ attempts' < MaxAuthorAttempts
      BY <1>1, <1>2, <2>1, <2>4, <3>1 DEF TurnType
    <3>3. TurnType'
      BY <1>1, <2>1, <3>1, <3>2 DEF TurnType
    <3>4. ItemInv'
      BY <2>1, <3>1 DEF ItemInv, ServedItemIsSound
    <3>5. QED
      BY <3>3, <3>4
  <2>5. QED
    BY <2>2, <2>3, <2>4
<1>5. ASSUME NEW c \in Candidates, Sample(c)
      PROVE  TurnType' /\ ItemInv'
  <2>1. /\ pc = "sampling" /\ claim' = claim /\ turns' = turns
        /\ topic' = topic /\ topic \in Topics /\ item = NoItem
        /\ template = SelectTemplate(topic) /\ template \in Templates
        /\ recal \in BOOLEAN /\ c \in Candidate
    BY <1>1, <1>5, SelectedIsTemplate, LoopConstants
       DEF Sample, TurnType, ItemInv
  <2>2. CASE Accepts(c)
    <3>1. Serve(ParametricItem(template, recal, c))
      BY <1>5, <2>2 DEF Sample
    <3>2. TurnType'
      BY <1>1, <2>1, <2>2, <3>1, ItemFacts DEF TurnType, Serve
    <3>3. ItemInv'
      BY <2>1, <2>2, <3>1, ItemFacts DEF ItemInv, ServedItemIsSound, Serve
    <3>4. QED
      BY <3>2, <3>3
  <2>3. CASE ~Accepts(c) /\ attempts + 1 = MaxResampleAttempts
    <3>1. Serve(NoItem)
      BY <1>5, <2>3 DEF Sample
    <3>2. TurnType'
      BY <1>1, <2>1, <3>1 DEF TurnType, Serve
    <3>3. ItemInv'
      BY <3>1 DEF ItemInv, ServedItemIsSound, Serve
    <3>4. QED
      BY <3>2, <3>3
  <2>4. CASE ~Accepts(c) /\ attempts + 1 # MaxResampleAttempts
    <3>1. /\ attempts' = attempts + 1 /\ pc' = pc /\ template' = template
          /\ recal' = recal /\ item' = item
      BY <1>5, <2>4 DEF Sample
    <3>2. attempts' \in Nat /\ attempts' < MaxResampleAttempts
      BY <1>1, <1>2, <2>1, <2>4, <3>1 DEF TurnType
    <3>3. TurnType'
      BY <1>1, <2>1, <3>1, <3>2 DEF TurnType
    <3>4. ItemInv'
      BY <2>1, <3>1 DEF ItemInv, ServedItemIsSound
    <3>5. QED
      BY <3>3, <3>4
  <2>5. QED
    BY <2>2, <2>3, <2>4
\* A submission and its recording leave the item of the last item turn.
<1>6. ASSUME UNCHANGED itemVars, turns' \in 0..MaxTurns,
             pc' \in {"idle", "graded"}
      PROVE  TurnType' /\ ItemInv'
  BY <1>1, <1>6 DEF TurnType, ItemInv, ServedItemIsSound, itemVars
<1>7. ASSUME NEW task \in Tasks, NEW work \in TypedWork,
             NEW verified \in BOOLEAN, SubmitTyped(task, work, verified)
      PROVE  TurnType' /\ ItemInv'
  <2>1. /\ UNCHANGED itemVars /\ turns' \in 0..MaxTurns
        /\ pc' \in {"idle", "graded"}
    BY <1>1, <1>2, <1>7
       DEF SubmitTyped, BeginTurn, Grade, AnswerUngraded, TurnType
  <2>2. QED
    BY <1>6, <2>1
<1>8. ASSUME NEW task \in Tasks, NEW photo \in Photos,
             NEW verified \in BOOLEAN, SubmitPhoto(task, photo, verified)
      PROVE  TurnType' /\ ItemInv'
  <2>1. /\ UNCHANGED itemVars /\ turns' \in 0..MaxTurns
        /\ pc' \in {"idle", "graded"}
    BY <1>1, <1>2, <1>8
       DEF SubmitPhoto, BeginTurn, Grade, AnswerUngraded, TurnType
  <2>2. QED
    BY <1>6, <2>1
<1>9. ASSUME NEW named \in Named, Record(named)
      PROVE  TurnType' /\ ItemInv'
  BY <1>1, <1>6, <1>9 DEF Record, TurnType
<1>10. CASE ReviewerStep \/ UNCHANGED vars
  BY <1>1, <1>10, ReviewerFrame
     DEF TurnType, ItemInv, ServedItemIsSound, itemVars
<1>11. QED
  BY <1>3, <1>4, <1>5, <1>7, <1>8, <1>9, <1>10, NextCases

\* What is under grading stays the grade of its own task and lines.
LEMMA SubmissionStepInv ==
  IInv /\ [Next]_vars => SubType' /\ SubInv'
<1> SUFFICES ASSUME IInv, [Next]_vars PROVE SubType' /\ SubInv'
  OBVIOUS
<1>1. SubType /\ SubInv /\ turns \in 0..MaxTurns /\ MaxTurns \in Nat
  BY LoopConstants DEF IInv, TypeOK, TurnType
\* A turn that serves an item grades nothing.
<1>2. ASSUME sub' = sub, pc # "graded", pc' # "graded"
      PROVE  SubType' /\ SubInv'
  BY <1>1, <1>2 DEF SubType, SubInv
<1>3. ASSUME NEW p \in Topics, AskForItem(p)
      PROVE  SubType' /\ SubInv'
  BY <1>2, <1>3 DEF AskForItem, BeginTurn, StartSampling
<1>4. ASSUME NEW outcome \in AuthorOutcome, Author(outcome)
      PROVE  SubType' /\ SubInv'
  BY <1>2, <1>4 DEF Author, Serve, StartSampling
<1>5. ASSUME NEW c \in Candidates, Sample(c)
      PROVE  SubType' /\ SubInv'
  BY <1>2, <1>5 DEF Sample, Serve
<1>6. ASSUME NEW task \in Tasks, NEW work \in Seq(WorkStep), NEW photo,
             Grade(task, work, photo), turns' \in TurnIds,
             photo # NoPhoto => photo \in Photo /\ UsableWork(photo)
      PROVE  SubType' /\ SubInv'
  <2>1. /\ sub'.graded = TRUE /\ sub'.task = task /\ sub'.work = work
        /\ sub'.photo = photo /\ sub'.result = GradeSubmission(task, work)
        /\ pc' = "graded"
    BY <1>6 DEF Grade
  <2>2. SubType'
    BY <1>6, <2>1, LoopConstants, GradeIsMarkResult DEF SubType
  <2>3. SubInv'
    BY <1>6, <2>1, LoopConstants DEF SubInv
  <2>4. QED
    BY <2>2, <2>3
<1>7. ASSUME BeginTurn
      PROVE  turns' \in TurnIds /\ pc = "idle"
  BY <1>1, <1>7 DEF BeginTurn, TurnIds
<1>8. ASSUME NEW task \in Tasks, NEW work \in TypedWork,
             NEW verified \in BOOLEAN, SubmitTyped(task, work, verified)
      PROVE  SubType' /\ SubInv'
  <2>1. task \in Task /\ work \in Seq(WorkStep)
    BY LoopConstants
  <2>2. turns' \in TurnIds /\ pc = "idle"
    BY <1>7, <1>8 DEF SubmitTyped
  <2>3. CASE verified
    BY <1>6, <1>8, <2>1, <2>2, <2>3 DEF SubmitTyped
  <2>4. CASE ~verified
    BY <1>2, <1>8, <2>2, <2>4 DEF SubmitTyped, AnswerUngraded
  <2>5. QED
    BY <2>3, <2>4
<1>9. ASSUME NEW task \in Tasks, NEW photo \in Photos,
             NEW verified \in BOOLEAN, SubmitPhoto(task, photo, verified)
      PROVE  SubType' /\ SubInv'
  <2>1. task \in Task /\ photo \in Photo
    BY LoopConstants
  <2>2. turns' \in TurnIds /\ pc = "idle"
    BY <1>7, <1>9 DEF SubmitPhoto
  <2>3. CASE UsableWork(photo) /\ verified
    <3>1. photo.lines \in Seq(WorkStep) /\ Grade(task, photo.lines, photo)
      BY <1>9, <2>1, <2>3, UsablePhoto DEF SubmitPhoto
    <3>2. QED
      BY <1>6, <2>1, <2>2, <2>3, <3>1
  <2>4. CASE ~(UsableWork(photo) /\ verified)
    BY <1>2, <1>9, <2>2, <2>4 DEF SubmitPhoto, AnswerUngraded
  <2>5. QED
    BY <2>3, <2>4
<1>10. ASSUME NEW named \in Named, Record(named)
       PROVE  SubType' /\ SubInv'
  BY <1>10 DEF Record, SubType, SubInv, NoSubmission
<1>11. CASE ReviewerStep \/ UNCHANGED vars
  BY <1>1, <1>11, ReviewerFrame DEF SubType, SubInv
<1>12. QED
  BY <1>3, <1>4, <1>5, <1>8, <1>9, <1>10, <1>11, NextCases

\* The queue.  Between Record and an erasure an entry changes by updates
\* only, and every step that does not record, update or erase leaves it alone.
LEMMA ReviewStepInv ==
  IInv /\ [Next]_vars => RecordType' /\ ReviewInv'
<1> SUFFICES ASSUME IInv, [Next]_vars PROVE RecordType' /\ ReviewInv'
  OBVIOUS
<1>1. /\ RecordType /\ SubType /\ SubInv
      /\ Fresh /\ PendingMeansUnreviewed /\ ErasedStaysErased
      /\ turns \in 0..MaxTurns /\ MaxTurns \in Nat
  BY LoopConstants DEF IInv, TypeOK, TurnType, ReviewInv
<1>2. \A n \in TurnIds : n \in Nat
  BY <1>1 DEF TurnIds
\* A turn begins, or goes on without recording.
<1>3. ASSUME UNCHANGED <<responses, entry, reviewVars>>,
             \/ turns' = turns /\ (pc' = "graded" => pc = "graded")
             \/ turns' = turns + 1
      PROVE  RecordType' /\ ReviewInv'
  <2>1. RecordType' /\ PendingMeansUnreviewed' /\ ErasedStaysErased'
    BY <1>1, <1>3
       DEF RecordType, PendingMeansUnreviewed, ErasedStaysErased, reviewVars
  <2>2. \A n \in TurnIds : n > turns' \/ (n = turns' /\ pc' = "graded")
                           => n > turns \/ (n = turns /\ pc = "graded")
    BY <1>1, <1>2, <1>3
  <2>3. Fresh'
    BY <1>1, <1>3, <2>2 DEF Fresh, reviewVars
  <2>4. QED
    BY <2>1, <2>3 DEF ReviewInv
<1>4. ASSUME NEW p \in Topics, AskForItem(p)
      PROVE  RecordType' /\ ReviewInv'
  BY <1>3, <1>4 DEF AskForItem, BeginTurn
<1>5. ASSUME NEW outcome \in AuthorOutcome, Author(outcome)
      PROVE  RecordType' /\ ReviewInv'
  BY <1>3, <1>5 DEF Author, Serve, StartSampling
<1>6. ASSUME NEW c \in Candidates, Sample(c)
      PROVE  RecordType' /\ ReviewInv'
  BY <1>3, <1>6 DEF Sample, Serve
<1>7. ASSUME NEW task \in Tasks, NEW work \in TypedWork,
             NEW verified \in BOOLEAN, SubmitTyped(task, work, verified)
      PROVE  RecordType' /\ ReviewInv'
  BY <1>3, <1>7 DEF SubmitTyped, BeginTurn
<1>8. ASSUME NEW task \in Tasks, NEW photo \in Photos,
             NEW verified \in BOOLEAN, SubmitPhoto(task, photo, verified)
      PROVE  RecordType' /\ ReviewInv'
  BY <1>3, <1>8 DEF SubmitPhoto, BeginTurn
<1>9. ASSUME NEW named \in Named, Record(named)
      PROVE  RecordType' /\ ReviewInv'
  <2> DEFINE e == ReviewOf(sub.result)
  <2>1. /\ pc = "graded" /\ pc' = "idle" /\ turns' = turns
        /\ entry' = [entry EXCEPT ![turns] = e]
        /\ responses' = [t \in DOMAIN responses |->
                           IF t = named THEN responses[t] + 1 ELSE responses[t]]
        /\ UNCHANGED reviewVars
    BY <1>9 DEF Record
  <2>2. turns \in TurnIds /\ e \in ReviewQueueEntry \cup {NoEntry}
    BY <1>1, <2>1, ReviewOfTyped DEF SubType, SubInv
  <2>3. e # NoEntry => e.status = "pending"
    BY DEF ReviewOf
  <2>4. /\ \A u \in updates : u[1] # turns
        /\ turns \notin erased
    BY <1>1, <2>1, <2>2 DEF Fresh
  <2> HIDE DEF e
  <2>5. /\ entry'[turns] = e
        /\ \A n \in TurnIds \ {turns} : entry'[n] = entry[n]
    BY <1>1, <2>1, <2>2 DEF RecordType
  <2>6. RecordType'
    <3>1. responses' \in [Templates \cup {LLMVariant} -> Nat]
      BY <1>1, <2>1 DEF RecordType
    <3>2. entry' \in [TurnIds -> ReviewQueueEntry \cup {NoEntry}]
      BY <1>1, <2>1, <2>2 DEF RecordType
    <3>3. QED
      BY <1>1, <2>1, <3>1, <3>2 DEF RecordType, reviewVars
  <2>7. Fresh'
    BY <1>1, <1>2, <2>1, <2>5 DEF Fresh, reviewVars
  <2>8. PendingMeansUnreviewed'
    BY <1>1, <2>1, <2>3, <2>4, <2>5 DEF PendingMeansUnreviewed, reviewVars
  <2>9. ErasedStaysErased'
    <3>1. erased' = erased /\ erased \subseteq TurnIds \ {turns}
      BY <1>1, <2>1, <2>4 DEF RecordType, reviewVars
    <3>2. QED
      BY <1>1, <2>5, <3>1 DEF ErasedStaysErased
  <2>10. QED
    BY <2>6, <2>7, <2>8, <2>9 DEF ReviewInv
<1>10. ASSUME NEW r \in Reviewers, NEW op \in {"resolve", "appeal"},
              NEW n \in TurnIds, ReadEntry(r, op, n)
       PROVE  RecordType' /\ ReviewInv'
  <2>1. /\ reviewer' = [reviewer EXCEPT ![r] = [op |-> op, id |-> n]]
        /\ UNCHANGED <<turns, pc, responses, entry, eraser, updates, erased>>
    BY <1>10 DEF ReadEntry
  <2>2. RecordType'
    BY <1>1, <2>1 DEF RecordType
  <2>3. ReviewInv'
    BY <1>1, <2>1
       DEF ReviewInv, Fresh, PendingMeansUnreviewed, ErasedStaysErased
  <2>4. QED
    BY <2>2, <2>3
<1>11. ASSUME NEW r \in Reviewers, UpdateEntry(r)
       PROVE  RecordType' /\ ReviewInv'
  <2> DEFINE n == reviewer[r].id
             op == reviewer[r].op
  <2>1. /\ n \in TurnIds /\ op \in {"resolve", "appeal"}
        /\ reviewer' = [reviewer EXCEPT ![r] = Idle]
        /\ UNCHANGED <<turns, pc, responses, eraser, erased>>
    BY <1>1, <1>11 DEF UpdateEntry, RecordType
  <2>2. reviewer' \in [Reviewers -> {Idle} \cup
                         [op : {"resolve", "appeal"}, id : TurnIds]]
    BY <1>1, <2>1 DEF RecordType
  <2>3. CASE entry[n] = NoEntry
    <3>1. UNCHANGED <<entry, updates>>
      BY <1>11, <2>3 DEF UpdateEntry
    <3>2. QED
      BY <1>1, <2>1, <2>2, <3>1
         DEF RecordType, ReviewInv, Fresh, PendingMeansUnreviewed,
             ErasedStaysErased
  <2>4. CASE entry[n] # NoEntry
    <3> DEFINE e == [entry[n] EXCEPT !.status = StatusAfter(op)]
    <3>1. /\ entry' = [entry EXCEPT ![n] = e]
          /\ updates' = updates \cup {<<n, op>>}
      BY <1>11, <2>4 DEF UpdateEntry
    <3>2. entry[n] \in ReviewQueueEntry
      BY <1>1, <2>1, <2>4 DEF RecordType
    <3>3. /\ e \in ReviewQueueEntry /\ e.status = StatusAfter(op)
          /\ e # NoEntry
      BY <2>1, <3>2, NullsAreNull DEF ReviewQueueEntry, StatusAfter
    <3>4. /\ ~(n > turns \/ (n = turns /\ pc = "graded"))
          /\ n \notin erased
      BY <1>1, <2>1, <2>4 DEF Fresh, ErasedStaysErased
    <3> HIDE DEF e, n, op
    <3>5. /\ entry'[n] = e
          /\ \A k \in TurnIds \ {n} : entry'[k] = entry[k]
      BY <1>1, <2>1, <3>1 DEF RecordType
    <3>6. RecordType'
      <4>1. entry' \in [TurnIds -> ReviewQueueEntry \cup {NoEntry}]
        BY <1>1, <2>1, <3>1, <3>3 DEF RecordType
      <4>2. updates' \subseteq TurnIds \X {"resolve", "appeal"}
        BY <1>1, <2>1, <3>1 DEF RecordType
      <4>3. QED
        BY <1>1, <2>1, <2>2, <4>1, <4>2 DEF RecordType
    <3>7. Fresh'
      BY <1>1, <2>1, <3>1, <3>4, <3>5 DEF Fresh
    <3>8. PendingMeansUnreviewed'
      <4>1. ASSUME NEW k \in TurnIds \ {n}, entry'[k] # NoEntry
            PROVE  /\ entry'[k].status = "pending"
                        <=> \A u \in updates' : u[1] # k
                   /\ entry'[k].status = "appealed"
                        => <<k, "appeal">> \in updates'
        BY <1>1, <3>1, <3>5, <4>1 DEF PendingMeansUnreviewed
      <4>2. /\ entry'[n].status # "pending"
            /\ <<n, op>> \in updates' /\ <<n, op>>[1] = n
            /\ entry'[n].status = "appealed" => op = "appeal"
        BY <2>1, <3>1, <3>3, <3>5 DEF StatusAfter
      <4>3. QED
        BY <4>1, <4>2 DEF PendingMeansUnreviewed
    <3>9. ErasedStaysErased'
      <4>1. erased' = erased /\ erased \subseteq TurnIds \ {n}
        BY <1>1, <2>1, <3>4 DEF RecordType
      <4>2. QED
        BY <1>1, <3>5, <4>1 DEF ErasedStaysErased
    <3>10. QED
      BY <3>6, <3>7, <3>8, <3>9 DEF ReviewInv
  <2>5. QED
    BY <2>3, <2>4
<1>12. ASSUME EraseQueue
       PROVE  RecordType' /\ ReviewInv'
  <2>1. /\ entry' = [n \in TurnIds |-> NoEntry]
        /\ erased' = erased \cup {n \in TurnIds : entry[n] # NoEntry}
        /\ eraser' = 1
        /\ UNCHANGED <<turns, pc, responses, reviewer, updates>>
    BY <1>12 DEF EraseQueue
  <2>2. RecordType' /\ ErasedStaysErased' /\ PendingMeansUnreviewed'
    BY <1>1, <2>1
       DEF RecordType, ErasedStaysErased, PendingMeansUnreviewed
  <2>3. Fresh'
    BY <1>1, <2>1 DEF Fresh
  <2>4. QED
    BY <2>2, <2>3 DEF ReviewInv
<1>13. ASSUME EraseResponses
       PROVE  RecordType' /\ ReviewInv'
  <2>1. /\ responses' = [t \in DOMAIN responses |-> 0] /\ eraser' = 2
        /\ UNCHANGED <<turns, pc, entry, reviewer, updates, erased>>
    BY <1>13 DEF EraseResponses
  <2>2. RecordType'
    BY <1>1, <2>1 DEF RecordType
  <2>3. ReviewInv'
    BY <1>1, <2>1
       DEF ReviewInv, Fresh, PendingMeansUnreviewed, ErasedStaysErased
  <2>4. QED
    BY <2>2, <2>3
<1>14. CASE UNCHANGED vars
  BY <1>1, <1>14
     DEF RecordType, ReviewInv, Fresh, PendingMeansUnreviewed,
         ErasedStaysErased, vars, reviewVars
<1>15. CASE ReviewerStep
  BY <1>10, <1>11, <1>12, <1>13, <1>15 DEF ReviewerStep
<1>16. QED
  BY <1>4, <1>5, <1>6, <1>7, <1>8, <1>9, <1>14, <1>15, NextCases

-----------------------------------------------------------------------------
\* The invariant holds throughout.
THEOREM Invariance == Spec => []IInv
<1>1. IInv /\ [Next]_vars => IInv'
  BY TurnStepInv, SubmissionStepInv, ReviewStepInv DEF IInv, TypeOK
<1>2. QED
  BY InitInv, <1>1, PTL DEF Spec

\* Every variable keeps its type.
THEOREM TypeCorrect == Spec => []TypeOK
BY Invariance, PTL DEF IInv

\* A HIGH grade is given only to work that states every expected value and
\* shows working, with no error pointed out (examiner/grader.py).
THEOREM HighGradesSupported == Spec => []HighIsSupported
<1>1. IInv => HighIsSupported
  <2> SUFFICES ASSUME IInv, sub.graded, sub.result.confidence = "high"
               PROVE  /\ \A v \in sub.task.expected :
                           \E i \in DOMAIN sub.work :
                             v \in CandidateValues(sub.work[i])
                      /\ ShownWorking(sub.task, sub.work) # {}
                      /\ sub.result.firstError = NoError
    BY DEF HighIsSupported
  <2>1. /\ sub.task \in Task /\ sub.work \in Seq(WorkStep)
        /\ sub.result = GradeSubmission(sub.task, sub.work)
    BY DEF IInv, SubInv
  <2>2. /\ Confidence(sub.task, sub.work) = "high"
        /\ sub.result.firstError = FirstError(sub.task, sub.work)
    BY <2>1 DEF GradeSubmission
  <2>3. QED
    BY <2>1, <2>2, HighGrade, EndStatesAll
<1>2. QED
  BY Invariance, <1>1, PTL

\* The unsupported-answer flag is raised exactly for work that ends on the
\* answer and shows no working, for every number of method nodes
\* (detect_unsupported_answer).
THEOREM FlagIsExact == Spec => []FlaggedIffBare
<1>1. IInv => FlaggedIffBare
  <2> SUFFICES ASSUME IInv, sub.graded
               PROVE  sub.result.flagged
                        <=> /\ EndsOnAnswer(sub.task, sub.work)
                            /\ ShownWorking(sub.task, sub.work) = {}
    BY DEF FlaggedIffBare
  <2>1. /\ sub.task \in Task /\ sub.work \in Seq(WorkStep)
        /\ sub.result = GradeSubmission(sub.task, sub.work)
    BY DEF IInv, SubInv
  <2>2. sub.result.flagged = UnsupportedAnswer(sub.task, sub.work)
    BY <2>1 DEF GradeSubmission
  <2>3. QED
    BY <2>1, <2>2, FlagIffBare
<1>2. QED
  BY Invariance, <1>1, PTL

\* Work that ends on the whole right answer has its accuracy mark and no
\* error, and full marks exactly if it shows working, for every task and
\* every length of work (examiner/alignment.py).
THEOREM RightAnswersAwarded == Spec => []RightPlainAnswerIsAwarded
<1>1. IInv => RightPlainAnswerIsAwarded
  <2> SUFFICES ASSUME IInv, sub.graded, EndsOnAnswer(sub.task, sub.work)
               PROVE  /\ sub.result.firstError = NoError
                      /\ sub.result.awarded =
                           IF ShownWorking(sub.task, sub.work) = {}
                           THEN 1 ELSE sub.result.available
    BY DEF RightPlainAnswerIsAwarded
  <2> DEFINE task == sub.task
             work == sub.work
  <2>1. /\ task \in Task /\ work \in Seq(WorkStep)
        /\ sub.result = GradeSubmission(task, work)
    BY DEF IInv, SubInv
  <2>2. AnswerFound(task, work) /\ FinalAnswer(task, work) # {}
    BY <2>1, EndIsFound
  <2>3. FirstError(task, work) = NoError
    BY <2>2 DEF FirstError
  <2>4. /\ AccuracyMarks(task, work) = 1
        /\ task.methods \in Nat /\ TotalAvailable(task) = task.methods + 1
        /\ MethodMarks(task, work) = IF ShownWorking(task, work) = {}
                                     THEN 0 ELSE task.methods
    BY <2>1, <2>2, MarkFacts
  <2>5. MethodMarks(task, work) + AccuracyMarks(task, work)
          = IF ShownWorking(task, work) = {} THEN 1 ELSE TotalAvailable(task)
    BY <2>4
  <2>6. QED
    BY <2>1, <2>3, <2>5 DEF GradeSubmission
<1>2. QED
  BY Invariance, <1>1, PTL

\* What reaches the registry is warranted: a pattern by a last line that is
\* the error's answer and not the right one, a model's choice by its
\* confidence, for every catalog and every hypothesis that differs from the
\* right answer (diagnose_misconception, should_write_diagnosis).
THEOREM DiagnosesWarranted == Spec => []DiagnosisIsWarranted
<1>1. IInv => DiagnosisIsWarranted
  <2> SUFFICES ASSUME IInv, sub.graded, NEW reply \in ModelReply,
                      ShouldWriteDiagnosis(
                        DiagnoseMisconception(sub.task, sub.work, reply))
               PROVE
        LET d == DiagnoseMisconception(sub.task, sub.work, reply)
        IN /\ Closes(sub.task, sub.work)
           /\ IF d.method = "pattern_match"
              THEN /\ ~EndsOnAnswer(sub.task, sub.work)
                   /\ \E answer \in WrongAnswers[sub.task] :
                        {answer[k] : k \in DOMAIN answer}
                          \subseteq CandidateValues(sub.work[Len(sub.work)])
              ELSE /\ reply.kind = "answer" /\ d.id = reply.id
                   /\ reply.confidence = NotANumber
                        \/ reply.confidence >= Threshold
    BY DEF DiagnosisIsWarranted
  <2> DEFINE task == sub.task
             work == sub.work
             d == DiagnoseMisconception(task, work, reply)
  <2>1. task \in Tasks /\ task \in Task /\ work \in Seq(WorkStep)
    BY DEF IInv, SubInv
  <2>2. FinalAnswer(task, work) # {}
    BY DEF DiagnoseMisconception, NoDiagnosis, ShouldWriteDiagnosis
  <2>3. Closes(task, work)
    BY <2>1, <2>2, FinalAnswerCloses
  <2>4. CASE PatternFits(task, work[Len(work)])
    <3>1. d.method = "pattern_match"
      BY <2>2, <2>4 DEF DiagnoseMisconception
    <3>2. QED
      BY <2>1, <2>3, <2>4, <3>1, PatternIsWrong
  <2>5. CASE ~PatternFits(task, work[Len(work)])
    <3>1. d = DiagnoseViaModel(reply)
      BY <2>2, <2>5 DEF DiagnoseMisconception
    <3>2. /\ reply.kind = "answer"
          /\ d = [id |-> reply.id, confidence |-> Clamped(reply.confidence),
                  method |-> "model_inference"]
      BY <3>1 DEF DiagnoseViaModel, NoDiagnosis, ShouldWriteDiagnosis
    <3>3. Clamped(reply.confidence) >= Threshold
      BY <3>2 DEF ShouldWriteDiagnosis
    <3>4. reply.confidence \in Int \cup {NotANumber}
      BY DiagnosticianConstants DEF ModelReply
    <3>5. reply.confidence = NotANumber \/ reply.confidence >= Threshold
      BY <3>3, <3>4, DiagnosticianConstants DEF Clamped, Threshold
    <3>6. QED
      BY <2>3, <3>2, <3>5
  <2>6. QED
    BY <2>4, <2>5
<1>2. QED
  BY Invariance, <1>1, PTL

\* A photograph graded without confirmation has something that parsed and is
\* balanced (score_confidence, ingest_image).
THEOREM PhotosWellRead == Spec => []GradedPhotoIsWellRead
<1>1. IInv => GradedPhotoIsWellRead
  BY UsablePhoto DEF IInv, SubInv, GradedPhotoIsWellRead
<1>2. QED
  BY Invariance, <1>1, PTL

\* However the reviewers' operations cross, an entry is pending exactly until
\* the first of them is stored (review_queue/queue.py).
THEOREM ReviewedNeverPending == Spec => []PendingMeansUnreviewed
BY Invariance, PTL DEF IInv, ReviewInv

\* A review stored after an erasure brings no entry back (privacy/gdpr.py).
THEOREM ErasureLasts == Spec => []ErasedStaysErased
BY Invariance, PTL DEF IInv, ReviewInv

\* What is served passed every gate, and comes from where its topic asks
\* (generate_item, generate_llm_variant).
THEOREM ServedItemsSound == Spec => []ServedItemIsSound
BY Invariance, PTL DEF IInv, ItemInv

\* Recording a grade queues it exactly when a human should see it, with the
\* reason that fits (_compute_confidence, handle_turn).
THEOREM DoubtReachesHuman == Spec => DoubtfulIsQueued
<1> DEFINE Queued ==
      IF \/ ~Closes(sub.task, sub.work)
         \/ ShownWorking(sub.task, sub.work) = {}
      THEN [reason |-> IF EndsOnAnswer(sub.task, sub.work)
                       THEN "unsupported_answer_flag"
                       ELSE "low_confidence_grading",
            status |-> "pending"]
      ELSE NoEntry
<1>1. IInv /\ [Next]_vars
        => [pc = "graded" /\ pc' # "graded" => entry'[turns] = Queued]_vars
  <2> SUFFICES ASSUME IInv, [Next]_vars, pc = "graded", pc' # "graded"
               PROVE  entry'[turns] = Queued
    OBVIOUS
  <2>1. \E named \in Named : Record(named)
    <3>1. ~(ReviewerStep \/ UNCHANGED vars)
      BY ReviewerFrame
    <3>2. QED
      BY <3>1, NextCases
         DEF AskForItem, Author, Sample, SubmitTyped, SubmitPhoto, BeginTurn
  <2>2. /\ turns \in TurnIds
        /\ sub.task \in Task /\ sub.work \in Seq(WorkStep)
        /\ sub.result = GradeSubmission(sub.task, sub.work)
        /\ entry \in [TurnIds -> ReviewQueueEntry \cup {NoEntry}]
    BY DEF IInv, TypeOK, SubType, SubInv, RecordType
  <2>3. entry'[turns] = ReviewOf(sub.result)
    BY <2>1, <2>2 DEF Record
  <2>4. /\ sub.result.confidence = Confidence(sub.task, sub.work)
        /\ sub.result.flagged = UnsupportedAnswer(sub.task, sub.work)
    BY <2>2 DEF GradeSubmission
  <2>5. CASE Confidence(sub.task, sub.work) # "low"
    BY <2>2, <2>3, <2>4, <2>5, LowGrade DEF ReviewOf
  <2>6. CASE Confidence(sub.task, sub.work) = "low"
    <3>1. \/ ~Closes(sub.task, sub.work)
          \/ ShownWorking(sub.task, sub.work) = {}
      BY <2>2, <2>6, LowGrade
    <3>2. UnsupportedAnswer(sub.task, sub.work)
            <=> EndsOnAnswer(sub.task, sub.work)
      BY <2>2, <3>1, FlagIffBare DEF EndsOnAnswer
    <3>3. QED
      BY <2>3, <2>4, <2>6, <3>1, <3>2 DEF ReviewOf
  <2>7. QED
    BY <2>5, <2>6
<1>2. QED
  BY Invariance, <1>1, PTL DEF Spec, DoubtfulIsQueued
=============================================================================
