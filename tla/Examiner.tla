------------------------------ MODULE Examiner ------------------------------
(***************************************************************************)
(* The grading of one submission: its lines are typed (segment_work),      *)
(* aligned with the mark scheme (align_and_award), searched for the first  *)
(* error, and flagged; the confidence follows.  Every definition is a pure *)
(* function of the task and the lines of work.                             *)
(*                                                                         *)
(* A value is a class of expressions that SymPy finds equivalent.  What    *)
(* parse_expr cannot read is Unreadable: an equation, LaTeX, plain words.  *)
(***************************************************************************)
EXTENDS Integers, Sequences

CONSTANTS Values, Unreadable

ASSUME UnreadableIsNoValue == Unreadable \notin Values

\* A line of work: the values it states, one for each "name = value" between
\* commas, <<>> without an "=" sign; whether they are in LaTeX; whether one
\* of the final-answer markers is among its words.
WorkStep == [values : Seq(Values \cup {Unreadable}),
             latex : BOOLEAN, marker : BOOLEAN]

\* A task as extracted and solved: the roots or the one value of
\* result_exact; whether that one value is printed as "x = value"; the value
\* of the given expression, Unreadable when it is an equation; the number of
\* method nodes build_mark_scheme makes of the CAS steps.
Task == [expected : (SUBSET Values) \ {{}}, assignment : BOOLEAN,
         given : Values \cup {Unreadable}, methods : Nat \ {0}]

NoError == -1

-----------------------------------------------------------------------------
\* _try_normalize: the text after the last "=".
Normalized(step) ==
  IF step.values = <<>> \/ step.latex THEN Unreadable
  ELSE step.values[Len(step.values)]

\* _expressions_equivalent is False when either side does not parse.
Equivalent(a, b) == a # Unreadable /\ a = b

\* _candidate_values that an expected root can match.
CandidateValues(step) ==
  IF step.latex THEN {}
  ELSE {step.values[k] : k \in DOMAIN step.values} \ {Unreadable}

\* _classify, one set of lines for each step type but justification.
Restatements(task, work) ==
  {i \in DOMAIN work : Equivalent(Normalized(work[i]), task.given)}

\* Mutant: only a conclusion in words is a final answer.
FinalAnswerInWords(task, work) ==
  {i \in DOMAIN work \ Restatements(task, work) :
     i = Len(work) /\ work[i].marker}

FinalAnswer(task, work) ==
  {i \in DOMAIN work \ Restatements(task, work) :
     i = Len(work) /\ (Normalized(work[i]) # Unreadable \/ work[i].marker)}

\* Mutant: a restatement of the given counts as working.
ManipulationsWithGiven(task, work) ==
  {i \in DOMAIN work \ FinalAnswer(task, work) :
     Normalized(work[i]) # Unreadable}

Manipulations(task, work) ==
  {i \in DOMAIN work \ (Restatements(task, work) \cup FinalAnswer(task, work)) :
     Normalized(work[i]) # Unreadable}

Checkable(task, work) == Manipulations(task, work) \cup FinalAnswer(task, work)

-----------------------------------------------------------------------------
IsMultiRoot(task) == \E v, w \in task.expected : v # w

\* _all_roots_covered and _find_matching_step_for_single_value.  A single
\* root is compared as it is printed, "x = value", which does not parse.
AnswerFound(task, work) ==
  IF IsMultiRoot(task)
  THEN task.expected \subseteq
         UNION {CandidateValues(work[i]) : i \in Checkable(task, work)}
  ELSE /\ ~task.assignment
       /\ \E i \in Checkable(task, work) :
            \E v \in task.expected : Equivalent(Normalized(work[i]), v)

\* _award_method_node for every method node, _award_accuracy_node for the
\* one accuracy node.
MethodMarks(task, work) ==
  IF Manipulations(task, work) # {} THEN task.methods ELSE 0

AccuracyMarks(task, work) == IF AnswerFound(task, work) THEN 1 ELSE 0

TotalAvailable(task) == task.methods + 1

\* compute_first_error_step_index: NoError, or an index from 0.
FirstError(task, work) ==
  IF FinalAnswer(task, work) = {}
  THEN IF work = <<>> THEN NoError ELSE Len(work)
  ELSE IF AnswerFound(task, work) THEN NoError ELSE Len(work) - 1

\* detect_unsupported_answer: coverage below 0.4.
UnsupportedAnswer(task, work) ==
  /\ FinalAnswer(task, work) # {}
  /\ AnswerFound(task, work)
  /\ 10 * MethodMarks(task, work) < 4 * task.methods

\* _compute_confidence
Confidence(task, work) ==
  LET awarded == MethodMarks(task, work) + AccuracyMarks(task, work) IN
  IF FinalAnswer(task, work) = {} \/ UnsupportedAnswer(task, work) THEN "low"
  ELSE IF awarded = TotalAvailable(task) THEN "high"
  ELSE IF awarded > 0 THEN "medium" ELSE "low"

MarkResult == [awarded : Nat, available : Nat, firstError : Int,
               flagged : BOOLEAN, confidence : {"high", "medium", "low"}]

\* grade_submission
GradeSubmission(task, work) ==
  [awarded |-> MethodMarks(task, work) + AccuracyMarks(task, work),
   available |-> TotalAvailable(task),
   firstError |-> FirstError(task, work),
   flagged |-> UnsupportedAnswer(task, work),
   confidence |-> Confidence(task, work)]
=============================================================================
