---------------------------- MODULE PracticeLoop ----------------------------
(***************************************************************************)
(* One student's practice: turns that serve items, turns that grade work,  *)
(* typed or photographed, and the human review of doubtful grades.  Turns  *)
(* follow one another (overlapping turns are the matter of LearnerRecords) *)
(* while reviewers and one erasure act at any time.  resolve_review and    *)
(* appeal_review are a get and a later update of the row; the update       *)
(* statement of the SQLite store, which main.py installs, touches a row    *)
(* only if it is still there.                                              *)
(***************************************************************************)
EXTENDS Ingestion, ItemGeneration, Diagnostician

CONSTANTS
  Tasks,         \* extractable tasks a student asks to have checked
  TypedWork,     \* submissions a student types
  Photos,        \* photographs a student sends
  Candidates,    \* instances the sampler may draw
  Named,         \* templates a client says its work responds to, NoTemplate
                 \* for none (all, or fewer)
  Reviewers, NoEntry, NoPhoto,
  MaxTurns       \* bound: turns begun

ASSUME LoopConstants ==
  /\ Tasks \subseteq Task /\ TypedWork \subseteq Seq(WorkStep)
  /\ Photos \subseteq Photo /\ Candidates \subseteq Candidate
  /\ Named \subseteq Templates \cup {LLMVariant, NoTemplate}
  /\ MaxTurns \in Nat

\* generate_hypotheses keeps only values that differ from the right ones.
ASSUME ErrorsAreWrong ==
  /\ NamedError \in [Tasks -> Catalog]
  /\ WrongAnswers \in [Tasks -> SUBSET Seq(Values)]
  /\ \A task \in Tasks : \A answer \in WrongAnswers[task] :
       /\ \E k \in DOMAIN answer : answer[k] \notin task.expected
       /\ \/ Len(answer) = 1 /\ ~IsMultiRoot(task)
          \/ Len(answer) = 2 /\ (IsMultiRoot(task) \/ task.assignment)

TurnIds == 1..MaxTurns

ReviewQueueEntry ==
  [reason : {"unsupported_answer_flag", "low_confidence_grading"},
   status : {"pending", "resolved", "appealed"}]

ASSUME NullsAreNull == NoEntry \notin ReviewQueueEntry /\ NoPhoto \notin Photo

VARIABLES
  turns,      \* turns begun
  pc,         \* what the turn under way does
  topic,      \* the topic of an item turn
  template,   \* the template it samples, NoTemplate until it does
  recal,      \* whether it found enough responses to recalibrate
  attempts,   \* authoring calls or samples made
  item,       \* the item served last
  claim,      \* history: outcome of the last authoring call of that turn
  sub,        \* the graded submission: task, lines, photo and its grade
  responses,  \* response log: number of records of each template
  entry,      \* review queue: turn -> row
  reviewer,   \* operation each reviewer has under way
  eraser,     \* tables an erasure has deleted from
  updates,    \* history: <<turn, operation>> of the updates that took
  erased      \* history: turns whose entry was deleted

itemVars == <<topic, template, recal, attempts, item, claim>>
reviewVars == <<reviewer, eraser, updates, erased>>
vars == <<turns, pc, itemVars, sub, responses, entry, reviewVars>>

NoSubmission == [graded |-> FALSE]
Idle == [op |-> "none", id |-> 0]

\* Before the first item turn the topic means nothing.
DefaultTopic == CHOOSE p \in Topics : TRUE

Init ==
  /\ turns = 0 /\ pc = "idle"
  /\ topic = DefaultTopic /\ template = NoTemplate /\ recal = FALSE
  /\ attempts = 0 /\ item = NoItem /\ claim = "unavailable"
  /\ sub = NoSubmission
  /\ responses = [t \in Templates \cup {LLMVariant} |-> 0]
  /\ entry = [n \in TurnIds |-> NoEntry]
  /\ reviewer = [r \in Reviewers |-> Idle]
  /\ eraser = 0 /\ updates = {} /\ erased = {}

BeginTurn == pc = "idle" /\ turns < MaxTurns /\ turns' = turns + 1

-----------------------------------------------------------------------------
\* select_template_for_topic and the read of the response log.
StartSampling(p) ==
  /\ pc' = "sampling"
  /\ template' = SelectTemplate(p)
  /\ recal' = Recalibrates(responses[SelectTemplate(p)])
  /\ attempts' = 0

\* _generate_challenge_item: no authoring where a template is known.
AskForItem(p) ==
  /\ BeginTurn
  /\ topic' = p
  /\ item' = NoItem
  /\ IF TopicHasKnownTemplate(p)
     THEN StartSampling(p)
     ELSE /\ pc' = "authoring" /\ attempts' = 0
          /\ UNCHANGED <<template, recal>>
  /\ UNCHANGED <<claim, sub, responses, entry, reviewVars>>

Serve(i) ==
  /\ item' = i
  /\ pc' = "idle" /\ template' = NoTemplate /\ recal' = FALSE /\ attempts' = 0

\* One attempt of generate_llm_variant: an outage ends the authoring at
\* once, a rejected answer when it was the last attempt.
\* Mutant: an answer not worth comparing is not counted.
AuthorUncounted(outcome) ==
  /\ pc = "authoring"
  /\ claim' = outcome
  /\ IF outcome = "verified"
     THEN Serve(AuthoredItem)
     ELSE /\ UNCHANGED item
          /\ IF outcome \in {"malformed", "unverifiable"}
             THEN UNCHANGED <<attempts, pc, template, recal>>
             ELSE StartSampling(topic)
  /\ UNCHANGED <<turns, topic, sub, responses, entry, reviewVars>>

Author(outcome) ==
  /\ pc = "authoring"
  /\ claim' = outcome
  /\ IF outcome = "verified"
     THEN Serve(AuthoredItem)
     ELSE /\ UNCHANGED item
          /\ IF outcome = "unavailable" \/ attempts + 1 = MaxAuthorAttempts
             THEN StartSampling(topic)
             ELSE attempts' = attempts + 1 /\ UNCHANGED <<pc, template, recal>>
  /\ UNCHANGED <<turns, topic, sub, responses, entry, reviewVars>>

\* One round of generate_item's loop; after the last the turn serves no item.
Sample(c) ==
  /\ pc = "sampling"
  /\ IF Accepts(c) THEN Serve(ParametricItem(template, recal, c))
     ELSE IF attempts + 1 = MaxResampleAttempts THEN Serve(NoItem)
     ELSE attempts' = attempts + 1 /\ UNCHANGED <<pc, template, recal, item>>
  /\ UNCHANGED <<turns, topic, claim, sub, responses, entry, reviewVars>>

-----------------------------------------------------------------------------
\* _grade_check_work_turn: work on a task whose solution the CAS verified.
Grade(task, work, photo) ==
  /\ sub' = [graded |-> TRUE, task |-> task, work |-> work,
             photo |-> photo, result |-> GradeSubmission(task, work)]
  /\ pc' = "graded"

\* Nothing is graded: the Tutor answers, or the student is asked to confirm.
AnswerUngraded == UNCHANGED <<sub, pc>>

SubmitTyped(task, work, verified) ==
  /\ BeginTurn
  /\ IF verified THEN Grade(task, work, NoPhoto) ELSE AnswerUngraded
  /\ UNCHANGED <<itemVars, responses, entry, reviewVars>>

SubmitPhoto(task, photo, verified) ==
  /\ BeginTurn
  /\ IF UsableWork(photo) /\ verified
     THEN Grade(task, photo.lines, photo) ELSE AnswerUngraded
  /\ UNCHANGED <<itemVars, responses, entry, reviewVars>>

\* Mutant: only flagged work is queued.
ReviewOfFlagged(result) ==
  IF result.flagged
  THEN [reason |-> "unsupported_answer_flag", status |-> "pending"]
  ELSE NoEntry

ReviewOf(result) ==
  IF result.confidence = "low"
  THEN [reason |-> IF result.flagged THEN "unsupported_answer_flag"
                                     ELSE "low_confidence_grading",
        status |-> "pending"]
  ELSE NoEntry

\* The post-grading stages this module follows: enqueue_review, and the
\* response record if the client names the template its work responds to.
\* Their order and their failures are the matter of LearnerRecords.
Record(named) ==
  /\ pc = "graded"
  /\ entry' = [entry EXCEPT ![turns] = ReviewOf(sub.result)]
  /\ responses' = [t \in DOMAIN responses |->
                     IF t = named THEN responses[t] + 1 ELSE responses[t]]
  /\ pc' = "idle" /\ sub' = NoSubmission
  /\ UNCHANGED <<turns, itemVars, reviewVars>>

-----------------------------------------------------------------------------
\* resolve_review or appeal_review gets the entry; there is none to act on
\* if it does not exist.
ReadEntry(r, op, n) ==
  /\ reviewer[r] = Idle
  /\ entry[n] # NoEntry
  /\ reviewer' = [reviewer EXCEPT ![r] = [op |-> op, id |-> n]]
  /\ UNCHANGED <<turns, pc, itemVars, sub, responses, entry, eraser, updates,
                 erased>>

StatusAfterReopening(op) == IF op = "resolve" THEN "resolved" ELSE "pending"
StatusAfter(op) == IF op = "resolve" THEN "resolved" ELSE "appealed"

\* ReviewQueueStore.update: an UPDATE of the row with that entry_id.  What
\* was read differs from the row in its status only.
\* Mutant: an upsert.
UpsertEntry(r) ==
  LET n == reviewer[r].id IN
  /\ reviewer[r] # Idle
  /\ entry' = [entry EXCEPT ![n] =
                 [reason |-> "low_confidence_grading",
                  status |-> StatusAfter(reviewer[r].op)]]
  /\ updates' = updates \cup {<<n, reviewer[r].op>>}
  /\ reviewer' = [reviewer EXCEPT ![r] = Idle]
  /\ UNCHANGED <<turns, pc, itemVars, sub, responses, eraser, erased>>

UpdateEntry(r) ==
  LET n == reviewer[r].id IN
  /\ reviewer[r] # Idle
  /\ IF entry[n] = NoEntry THEN UNCHANGED <<entry, updates>>
     ELSE /\ entry' = [entry EXCEPT ![n].status = StatusAfter(reviewer[r].op)]
          /\ updates' = updates \cup {<<n, reviewer[r].op>>}
  /\ reviewer' = [reviewer EXCEPT ![r] = Idle]
  /\ UNCHANGED <<turns, pc, itemVars, sub, responses, eraser, erased>>

\* erase_student_data: the queue, then the response log.
EraseQueue ==
  /\ eraser = 0
  /\ eraser' = 1
  /\ erased' = erased \cup {n \in TurnIds : entry[n] # NoEntry}
  /\ entry' = [n \in TurnIds |-> NoEntry]
  /\ UNCHANGED <<turns, pc, itemVars, sub, responses, reviewer, updates>>

EraseResponses ==
  /\ eraser = 1
  /\ eraser' = 2
  /\ responses' = [t \in DOMAIN responses |-> 0]
  /\ UNCHANGED <<turns, pc, itemVars, sub, entry, reviewer, updates, erased>>

-----------------------------------------------------------------------------
Sampling == \E c \in Candidates : Sample(c)

\* What a turn does between awaits that end.
TimedStep == \/ \E outcome \in AuthorOutcome : Author(outcome)
             \/ \E named \in Named : Record(named)

Next ==
  \/ \E p \in Topics : AskForItem(p)
  \/ \E task \in Tasks, work \in TypedWork, verified \in BOOLEAN :
       SubmitTyped(task, work, verified)
  \/ \E task \in Tasks, photo \in Photos, verified \in BOOLEAN :
       SubmitPhoto(task, photo, verified)
  \/ TimedStep
  \/ Sampling
  \/ \E r \in Reviewers, op \in {"resolve", "appeal"}, n \in TurnIds :
       ReadEntry(r, op, n)
  \/ \E r \in Reviewers : UpdateEntry(r)
  \/ EraseQueue
  \/ EraseResponses

\* A turn's coroutine is resumed until it returns: model calls and the CAS
\* calls of authoring have timeouts, statements end.  Nothing limits
\* generate_item_async, which waits without a timeout for a thread that a CAS
\* computation may hold for ever (CASCalls): Sampling is not fair.
Fairness == WF_vars(TimedStep)

Spec == Init /\ [][Next]_vars /\ Fairness

-----------------------------------------------------------------------------
TurnType ==
  /\ turns \in 0..MaxTurns
  /\ pc \in {"idle", "authoring", "sampling", "graded"}
  /\ topic \in Topics /\ template \in Templates \cup {NoTemplate}
  /\ recal \in BOOLEAN /\ claim \in AuthorOutcome
  /\ attempts \in Nat
  /\ pc = "authoring" => attempts < MaxAuthorAttempts
  /\ pc = "sampling" => attempts < MaxResampleAttempts
  /\ item \in Item \cup {NoItem}

SubType ==
  /\ sub.graded \in BOOLEAN /\ (sub.graded <=> pc = "graded")
  /\ sub.graded => sub.result \in MarkResult

RecordType ==
  /\ responses \in [Templates \cup {LLMVariant} -> Nat]
  /\ entry \in [TurnIds -> ReviewQueueEntry \cup {NoEntry}]
  /\ reviewer \in [Reviewers -> {Idle} \cup
                     [op : {"resolve", "appeal"}, id : TurnIds]]
  /\ eraser \in 0..2 /\ erased \subseteq TurnIds
  /\ updates \subseteq TurnIds \X {"resolve", "appeal"}

TypeOK == TurnType /\ SubType /\ RecordType

\* A value the line adds to the work, and the lines above the last one that
\* add one: the working a reader sees.
AddsValue(task, step) == Normalized(step) \notin {Unreadable, task.given}
ShownWorking(task, work) ==
  {i \in 1..(Len(work) - 1) : AddsValue(task, work[i])}

\* The work closes with a last line that is an answer of its own, and that
\* line states the whole expected answer.
Closes(task, work) ==
  /\ work # <<>>
  /\ LET last == work[Len(work)]
     IN \/ AddsValue(task, last)
        \/ last.marker /\ Normalized(last) = Unreadable

EndsOnAnswer(task, work) ==
  /\ Closes(task, work)
  /\ IF IsMultiRoot(task)
     THEN task.expected \subseteq CandidateValues(work[Len(work)])
     ELSE ~task.assignment /\ Normalized(work[Len(work)]) \in task.expected

\* A HIGH grade, which no human looks at and which moves the student's
\* mastery, is given only to work that states every expected value, shows
\* working before its last line, and has no error pointed out to the student
\* (examiner/grader.py, examiner/alignment.py).
HighIsSupported ==
  sub.graded /\ sub.result.confidence = "high" =>
    /\ \A v \in sub.task.expected :
         \E i \in DOMAIN sub.work : v \in CandidateValues(sub.work[i])
    /\ ShownWorking(sub.task, sub.work) # {}
    /\ sub.result.firstError = NoError

\* unsupported_correct_answer is raised exactly for work that ends on the
\* answer and shows no working, whatever the number of method nodes: the 0.4
\* coverage never comes down to anything between (detect_unsupported_answer).
FlaggedIffBare ==
  sub.graded =>
    (sub.result.flagged <=> /\ EndsOnAnswer(sub.task, sub.work)
                            /\ ShownWorking(sub.task, sub.work) = {})

\* A photograph is graded unseen only if something on it parsed and its LaTeX
\* is balanced: neither a long transcription nor one good signal makes up for
\* the other (score_confidence, ingest_image).
GradedPhotoIsWellRead ==
  sub.graded /\ sub.photo # NoPhoto =>
    sub.photo.balanced /\ Parseable(sub.photo)

\* Work reaches a human exactly when it does not close with an answer of its
\* own or shows no working above it, and never because of being wrong; the
\* reason says whether the answer was right (_compute_confidence and the
\* review_queue_write stage of handle_turn).
DoubtfulIsQueued ==
  [][pc = "graded" /\ pc' # "graded" =>
       entry'[turns] =
         IF \/ ~Closes(sub.task, sub.work)
            \/ ShownWorking(sub.task, sub.work) = {}
         THEN [reason |-> IF EndsOnAnswer(sub.task, sub.work)
                          THEN "unsupported_answer_flag"
                          ELSE "low_confidence_grading",
               status |-> "pending"]
         ELSE NoEntry]_vars

\* However resolutions and appeals of several reviewers cross, an entry is
\* pending exactly until the first of them is stored: a reviewed one never
\* reads as "never reviewed" (review_queue/queue.py).
PendingMeansUnreviewed ==
  \A n \in TurnIds : entry[n] # NoEntry =>
    /\ entry[n].status = "pending" <=> \A u \in updates : u[1] # n
    /\ entry[n].status = "appealed" => <<n, "appeal">> \in updates

\* A review that was read before an erasure and stored after it does not
\* bring the student's entry back (ReviewQueueStore.update, privacy/gdpr.py).
ErasedStaysErased == \A n \in erased : entry[n] = NoEntry

\* What is served passed every gate of its own report, though the report is
\* made after the choice; an authored item was verified and serves a topic
\* without a template, any other comes from the template of its topic or
\* the default (generate_item, generate_llm_variant).
ServedItemIsSound ==
  item # NoItem =>
    /\ item.failed = {}
    /\ IF item.template = LLMVariant
       THEN claim = "verified" /\ TemplateFor[topic] = NoTemplate
       ELSE item.template = SelectTemplate(topic)

\* Whatever the model answers, a graded turn records its result and an item
\* turn ends or comes to the sampler; and if the sampler gets its thread and
\* each of its rounds ends, whatever it draws, every turn ends
\* (MAX_AUTHOR_ATTEMPTS, max_resample_attempts; generator.py:373-384).
TurnsEnd ==
  /\ pc # "idle" ~> pc \in {"idle", "sampling"}
  /\ WF_vars(Sampling) => (pc # "idle" ~> pc = "idle")

\* Work whose last line is the whole right answer has its accuracy mark and
\* no error pointed out, whatever the lines above it are, and full marks
\* exactly if it shows working: wherever the answer may be read at all, none
\* is lost between segmentation, alignment and error search.  (Where it may
\* not: RightAnswerIsAwarded and PhotoGradedAsTyped below.)
RightPlainAnswerIsAwarded ==
  sub.graded /\ EndsOnAnswer(sub.task, sub.work) =>
    /\ sub.result.firstError = NoError
    /\ sub.result.awarded = IF ShownWorking(sub.task, sub.work) = {}
                            THEN 1 ELSE sub.result.available

\* Whatever the model answers, a diagnosis of work that missed marks reaches
\* the registry only for work with an answer of its own; as a pattern, only
\* if the last line states every value the named error produces and is not
\* the right answer, whose values the error may share; else only if a model
\* chose it from the catalog, and with enough confidence or with one that is
\* no number (diagnose_misconception, should_write_diagnosis).
DiagnosisIsWarranted ==
  sub.graded /\ sub.result.awarded < sub.result.available =>
    \A reply \in ModelReply :
      LET d == DiagnoseMisconception(sub.task, sub.work, reply)
          last == sub.work[Len(sub.work)]
      IN ShouldWriteDiagnosis(d) =>
           /\ Closes(sub.task, sub.work)
           /\ IF d.method = "pattern_match"
              THEN /\ ~EndsOnAnswer(sub.task, sub.work)
                   /\ \E answer \in WrongAnswers[sub.task] :
                        {answer[k] : k \in DOMAIN answer}
                          \subseteq CandidateValues(last)
              ELSE /\ reply.kind = "answer" /\ d.id = reply.id
                   /\ reply.confidence = NotANumber
                        \/ reply.confidence >= Threshold

\* alignment.py:6-9: an accuracy node is "awarded via real symbolic
\* equivalence against a matching WorkStep".  Work whose last line is the
\* one right value, readable and spelled out, has the accuracy mark.
RightAnswerIsAwarded ==
  sub.graded /\ ~IsMultiRoot(sub.task) /\ sub.work # <<>> =>
    (Normalized(sub.work[Len(sub.work)]) \in sub.task.expected
       => AccuracyMarks(sub.task, sub.work) = 1)

\* alignment.py:23-27: the report is "whether the final stated answer is
\* correct, and if not, which step stated it".  A readable final answer other
\* than the expected value is where the first error is.
WrongFinalAnswerIsLocated ==
  sub.graded /\ ~IsMultiRoot(sub.task)
    /\ FinalAnswer(sub.task, sub.work) # {} =>
    LET value == Normalized(sub.work[Len(sub.work)])
    IN value \notin sub.task.expected \cup {Unreadable}
         => sub.result.firstError = Len(sub.work) - 1

\* README.md:57: a high-confidence transcription is graded "exactly as if the
\* student had typed it".
PhotoGradedAsTyped ==
  sub.graded /\ sub.photo # NoPhoto =>
    sub.result = GradeSubmission(sub.task,
                   [i \in DOMAIN sub.work |-> [sub.work[i] EXCEPT !.latex = FALSE]])

\* queue.py:40-43: APPEALED tells "never reviewed" apart from "reviewed, then
\* disputed".
AppealedWasReviewed ==
  \A n \in TurnIds : entry[n] # NoEntry /\ entry[n].status = "appealed"
    => <<n, "resolve">> \in updates
=============================================================================
