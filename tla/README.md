# A verification of the IB Maths tutor in TLA+

This directory models the tutoring backend of `src/app`: what a turn decides,
what it shows, what it writes, and what happens when turns, background jobs,
reviewers, exports and erasures cross or fail, and when clients send again. TLC
checks the modules on small instances; TLAPS proves the most important
invariants, and that the whole turn implements the models of its parts, for every
instance. `PROJECT.json` lists the components, the runs, the mutants that show
each property can fail, the source lines of every definition, the hazards and the
findings.

## 1. The system

`POST /turn` (`main.py`) runs `handle_turn` (`orchestrator/handle_turn.py`), one
coroutine per request in one event loop. Every `await` on a store or a model lets
other requests run; no lock or transaction spans two store calls. All stores are
SQLite tables (`storage/schema.py`) with one statement per call.

| component (`src/app/`) | state | operations | correct when |
|---|---|---|---|
| turn API (`main.py`, `static/`) | what each client has been told | receive, answer, 400, 500; the page lets a user send again | an answer means its records are there; an error may be sent again |
| orchestrator (`orchestrator/`) | what a coroutine holds between two awaits | `handle_turn`: refuses, grades, asks to confirm a photograph, or tutors | each path writes what it owes, once, in order |
| router agent, model router (`agents/router_agent.py`, `llm/`) | none | classify; call one provider | a call that fails or is late becomes `ModelUnavailableError` or a timeout, and a classification that failed or is unsure the least invasive turn |
| decision policy (`policy/`) | none | `decide_pedagogical_action`, safety estimate | refusals before anything else; hints only after attempts |
| session hint ladder (`session/`) | `session_state` row per session | get, problem switch, advance, save | a hint is the next rung of a ladder the attempts have earned |
| planner (`planner/`) | none across calls | `run_plan`: batches of concurrent stages | each stage once, after its dependencies; exact verdict; ends |
| IA/EE supervisor (`ia_supervisor/`) | project stage, append-only disclosure log | advance, refuse, disclose | no ghostwriting, every turn disclosed once and truly |
| tutor agent, verifier (`agents/`, `verifier/`) | none across turns | draft, gates, critic, one regeneration, fallbacks | what is shown has passed every gate |
| guardrail metrics | `guardrail_signals` | extract, add | the row names the gate that stopped a draft |
| student memory, scheduler (`memory/`, `adaptive/`) | mastery, review state, misconception registry | post-grading writes, consolidation, context | no unearned practice; exact without overlap; a diagnosis reaches the next turns |
| diagnostician (`diagnostician/`) | none | pattern tier, model tier, write gate | what enters the registry is warranted |
| examiner (`examiner/`, `questions/mark_scheme.py`) | none | segment, award, flag, confidence | marks and doubts match the work |
| multimodal ingestion (`multimodal/`) | none | validate, transcribe, score, gate | nothing badly read is graded unseen |
| item generation (`questions/`) | response log | LLM authoring, resampling, gates, recalibration | bounded; what is served is sound |
| review queue (`review_queue/`) | `review_queue` | enqueue, resolve, appeal, erase | doubtful work reaches a human; lifecycle is truthful |
| privacy (`privacy/`) | none | erase, export (called by no route; only tests call them) | erased data stays erased; an export misses nothing; the disclosure log survives |
| CAS (`cas/`) | none; the event loop's default executor behind it | extract a task, compute it in a thread with a timeout, verify a claim | each caller gets its own answer in time; nothing uncomputed is confirmed |
| storage (`storage/`) | the tables | one statement per call | |
| retriever, prompts, evaluation, configuration | none or fixed data | pure functions, I/O | |

There is no failover between providers: the router calls the provider of the
chosen tier, and its caller degrades when that raises or is late.

The hard behaviours are read-modify-write rows with awaits between (session,
project, mastery, review state, registry), failure between two writes of a turn,
requests that are sent again after an error or a lost answer, a chain of gates that
every regenerated text must take again, model calls that time out or answer
garbage, computations that outlive their timeout on shared threads, a background
job, an export and an erasure with no lock against turns, and numeric boundaries
(ladder caps, thresholds, attempt bounds, NaN). `PROJECT.json` "hazards" lists each
at its line with the property aimed at it.

## 2. The modules

| module | models | its state | its actions |
|---|---|---|---|
| `Policy` | the decision policy, guard and stage machine as operators | | |
| `TurnFlow` | the whole of `POST /turn`, from request to answer, with its clients | `session`, `project`, `turn` = what the server knows of a request, `client` = what its sender knows, `faults` | `Send`, `Resend`, `GiveUp`; `Classify`, `ReadSession`, `ReadProject`, `SaveProject`, `Decide`, `Disclose`, `Refuse`, `Ingest`, `Grade`, `StageEnds`, `Diagnose`, `StageRaises`, `Respond`, `Tutor`, `Measure`, `Queue`, `Save`; `Raise`, `Lose` |
| `HintLadder` | a session's ladder under overlapping turns | `store` = `session_state`, `turn` = what a coroutine holds, `answered` history | `Begin` (get), `Refuse`/`Decide`, `Answer` (advance and save), `Abort` |
| `LadderSpec` | abstract ladder: one step per answered turn, one attempt per answered solve request | `ladder`, `answered` | `Talk`, `Attempt` |
| `StageExecutor` | `run_plan` | `deps`, `remaining`, `results`, `status`, `pc` | `Validate`, `StartBatch`, `StageEnds`, `Collect`, `RaiseCycle`, `Return` |
| `TopologicalRun` | abstract execution, one stage at a time | `deps`, `done` | `End` |
| `IAProject` | an `ia_ee_help` turn | `project`, `log`, `turn` | `Load`, `SaveStage`, `LogDisclosure`, `Refuse`, `Coach`, `Fail`, `EraseStudent` |
| `TutorGate` | `tutor_agent.generate` and the writes after it | the draft, the critique, the response, the signals row, the queue entry | `Prepare`, `MakeItem`, `Generate`, `CriticAnswers`, `CriticDegrades`, `Regenerate`, `RecordSignals`, `EnqueueReview`, `SaveSession`, `Fail` |
| `LearnerRecords` | the concurrent post-grading writes, consolidation, context assembly, erasure | the five tables and the copies coroutines hold | a read and a write per row, one append per log, job and erasure step by step |
| `Privacy` | export and erasure beside turns and the consolidation job, statement by statement | `content` of each table, `writer` = what each turn and each run of the job is at, `export`, `eraser`, `erasures` | `Begin`, `Get`, `Put`, `Add`, `Skip`, `End`; `BeginExport`, `List`; `BeginErase`, `Delete`, `AbandonErasure` |
| `Examiner`, `Diagnostician`, `Ingestion`, `ItemGeneration` | grading, diagnosis, the photograph's gate and the item gates as operators | | |
| `PracticeLoop` | composes the four: turns that serve items or grade and diagnose work, and the review of doubtful grades | turn under way, item, graded submission, response counts, queue rows, reviewers | `AskForItem`, `Author`, `Sample`, `SubmitTyped`, `SubmitPhoto`, `Record`, `ReadEntry`, `UpdateEntry`, `EraseQueue`, `EraseResponses` |
| `CAS` | task extraction, the eight operations, dispatch and claim verification as operators | | |
| `CASCalls` | the calls on the default executor, the library's part of it included | `caller` = where a coroutine is, `job` and `queue` = the executor's, `request`, `answer`, `claim` | `AskAboutText`, `AskAboutAuthored`, `AskForItem`, `Take`, `Finish`, `Deliver`, `TimeOut`, `Check` |

`HintLadder`, `IAProject`, `TutorGate` and `TurnFlow` extend `Policy`;
`PracticeLoop` extends `Ingestion`, `ItemGeneration` and `Diagnostician`, and the
first and last of these extend `Examiner`; `CASCalls` extends `CAS`. `TurnFlow` has an instance of
`HintLadder` (as `Ladder`) and one of `IAProject` (as `Supervisor`): it uses their
operators for what the parts compute, and implements both. `HintLadder` in turn
implements `LadderSpec`, and `StageExecutor` implements `TopologicalRun`. `MC*`
modules give the constants values; `*Proofs` hold the theorems. `ExecutorProofs`
is about both `run_plan` and the CAS calls, so `CASCalls` names its specification
apart (`CallsSpec`, `CallsInit`, `CallsNext`, `CallsTypeOK`).

**Correspondence.** One store call is one atomic step; what a coroutine holds
between two calls is in its turn record; a handler's early returns are disjuncts
or actions of their own. In `TurnFlow` a step is the code between two awaits, `pc`
names the await a turn is at, `wrote` the tables it has written to, and the rows
other than session and project are left to the modules of their components. Free
choices stand for what the code does not control: what a model answers and when,
the safety estimate, how a text fares at a regex or a similarity measure, what
the sampler draws, what a client sends again. Texts are records of the verdicts
the gates reach about them (`Draft`, `Photo`, `WorkStep`, `Candidate`). In
`Examiner` a value is a class of expressions that SymPy finds equivalent, and
`Unreadable` is what `parse_expr` rejects: equations, LaTeX, words; in `CAS`, a
value is one too, and `Finding` is what SymPy makes of a task. History variables
(`answered`, `gone`, `alone`, `calls`, `claim`, `updates`, `erased`; `forgotten`,
`crossed`, `touched` and the `owed` and `overlapped` parts of `export` in
`Privacy`) only serve properties. Operators marked *Mutant* are plausible bugs,
used by nothing but the mutants of `PROJECT.json`.

## 3. The runs

| run | question | bounds |
|---|---|---|
| Ladder | can overlapping turns, refusals or failures reach a higher hint than the attempts earned, or invent an attempt? | one session, two overlapping turns, solve requests and explanations, 6 answered attempts |
| LadderSerial | with a client that awaits each answer, does the split read-decide-write implement `LadderSpec`? | two problems and none named, four intents, 7 attempts |
| StageExecutor | does `run_plan` run each stage once, after its dependencies, and return or raise rightly? Does it implement `TopologicalRun`? | all 4096 graphs over three stages with an unregistered name |
| IAProject | is the disclosure log complete and truthful, and help never given where closed? | one project, two overlapping turns, failures and erasures |
| TutorGate | does anything unchecked get shown, and is every degraded answer queued and counted? | every draft, context and verdict, one turn |
| LearnerRecords | do the tables ever show unearned practice, are they exact without overlap, and does a first diagnosis surface? | two turns with concurrent stages, two misconceptions and a context that shows one, one failure, one job or erasure |
| PracticeLoop | who is graded unseen, awarded marks, diagnosed, who reaches a human, do reviews and erasures cross safely, what is served? | two turns, two reviewers, one erasure; submissions of up to two lines of seven kinds, three-line ones, photographs; four kinds of task; model diagnoses with confidences below, at and above the threshold, below 0, above 1 and NaN |
| CASCalls | do timeouts, late results and a computation that never ends leave every CAS caller answered, with its own result, and is only what was computed confirmed? | three calls on two threads, one of them slow; an equation, both integrals and items; one number, or two roots |
| TurnFlow | is what a client is told on disk, what an error leaves behind safe to send again, what was not understood without a mark? | two requests, the second may repeat the first; a typed solution of a served item, a photograph, a broken upload; outages, garbage, an unsure exam, an exam, a project and graded work; one fault |
| TurnFlowOrder | does the whole turn implement the ladder and the project model, and is everyone who waits answered? | two overlapping requests, about the project (up to refusal), typed work or a solution, which may be answered with an item; model failures; one fault |
| Privacy | do erased data come back, and does an export miss a record? | two turns on any of three combinations of tables, one run of the consolidation job, one export, one erasure, abandoned anywhere |
| IARefusal | a disagreement between code and documentation (section 6) | one turn |

**Why the bounds are enough.** The ladder has four rungs
(`MaxHintLadderLevel`); the first two counted attempts give no hint and the sixth
answered attempt reaches the top, so six attempts pass every branch, and the seventh
of LadderSerial repeats the top rung. Two overlapping turns exhibit every lost or
stale write of one row: a third can only repeat one. In TurnFlow two requests are
the first that can overlap, repeat and fail separately; the theorems of section 4
cover any number of them. One fault at any await of either of them leaves every
prefix of a turn's writes behind. Three stages hold chains, forks, joins, a
triangle, self-loops and two- and three-cycles. In `TutorGate` the input space is
complete. Two lines of work are the shortest that have working and an answer;
three add a restated problem above both. Two authoring attempts is the value in
the code; two samples instead of 200 only shorten the loop (the bound is a
constant). Three calls on two threads let one be running, one queued and one
timed out at once, and a thread be lost while another is left. A recalibration
threshold of 1 instead of 10 lets it be crossed in two turns. The three
combinations of Privacy, and the job, write to both kinds of tables of rows, those
a turn shares with the job (`misconceptions`) and those it does not
(`ia_project_state`), and to both kinds of tables of records, those that an erasure
deletes and the log that it leaves; larger combinations only pass the same
statements more often, and the theorems cover them all. In LearnerRecords a context
shows one misconception instead of three (`MaxActive`), so that two can compete for
the place. What each module's constants cap is commented at its
declaration (`MaxAsks`, `MaxActive`, `MaxFailures`, `MaxFaults`, `MaxBackground`, `MaxErasures`,
`MaxTurns`, `MaxLines`, `MaxPhotoLines`).

**What properties leave out.** `HighIsSupported` says what a HIGH grade rests on, not
that the work ends on its right value: `WrongFinalAnswerIsLocated` would, and is
violated. `RightPlainAnswerIsAwarded` is about answers that are written plainly, differ
from what was given and parse back when printed; the others are
`RightAnswerIsAwarded` and `PhotoGradedAsTyped`, both violated (section 6).
`PendingMeansUnreviewed` does not say which of a crossing resolve and appeal stays.
`ErrorsLeaveNoGrade` names the one statement, the save of the session, after whose
failure grades remain. `UnsureLeavesNoMark` is about the record a turn goes on with: a
turn that names another problem still starts that problem's record.

**Deadlock** is checked in Ladder and LadderSerial, where turns go on for ever,
and in StageExecutor and TutorGate, where a `Stop` step marks the legitimate end.
The other runs end when every turn has happened once, or the bound on turns is
reached, and say `CHECK_DEADLOCK FALSE`.

**Fairness.** Weak fairness is on the steps of a coroutine that the event loop
will resume: every model call is bounded (`asyncio.wait_for` in the agents and the
critic, the provider client's own timeout in `llm/client.py` for authoring and
transcription, the CAS timeout), every store call is one statement, and authoring
is a loop with a bound. One wait has none: `generate_item_async` awaits a thread of
the default executor without a timeout (`questions/generator.py:373-384`), and
timed-out computations may hold all of them for ever; `CASCalls` shows how
(`NoRequestHangs`, section 6). So the steps that make an item are not fair
(`MakeItem` of `TutorGate`, `Sampling` of `PracticeLoop`, the `Tutor` step of a
`TurnFlow` turn that `MakesItem`), and the liveness properties say two things: that
every turn ends or waits for an item, and that it ends if that wait does (`WF` of the
step is a hypothesis of the property, not of the specification). In `CASCalls` threads take jobs, the loop runs
callbacks and timers, and a computation ends unless it is one of `Slow`. None is on
failures, requests, reviewers, exports or erasures, nor on clients. With it
`Terminates` says that no plan hangs, `TurnEnds` and `TurnsEnd` that no turn does but
for that wait, `CallsReturn` that no CAS call does, whatever never ends, and
`WaitingAreAnswered` that whoever waits gets an answer, not an error, once nothing
raises past its caller any more, whatever the models do, again but for that wait.

## 4. What is proved

All theorems hold for every value of the constants, under the `ASSUME`s of the
modules, which only say that null values are not data, that the constants have
their types, that bounds are natural numbers, that calls and turns are finitely
many and that there is a topic. For every module below type correctness
(`TypeOK`) is proved too.

* `TurnFlowProofs`: `AnswersAreRecorded`, `ErrorsLeaveNoGrade`,
  `UnsureLeavesNoMark`, and the two refinements `ProjectOfTurns` and
  `LadderOfTurns`. The invariant says of each turn alone where it is: what it has
  written at each `pc` (`Placed`), that an unsure one has taken no other path
  (`Cautious`), that it holds a record of its own problem (`OnProblem`), and that
  its action is one the policy gives (`Decided`). Each step has a lemma that its own
  turn keeps this, and since a step changes one turn, the others do trivially. For
  the refinements every turn has a view as a turn of `IAProject` and one as a turn
  of `HintLadder`; a lemma per step says which action of those its view takes, or
  that it stutters. `AskedGrows` counts the answered requests, a set of turns here,
  as the number `answered` of `HintLadder`. By `LadderRefinement` and
  `ProjectRefinement` the theorems on those two modules hold of the whole turn, with
  resends, faults and clients that do not wait; `ViewConstants` shows that what
  those modules assume of their constants follows from what `TurnFlow` does.
  `TurnsAreShort` is the safety half of `WaitingAreAnswered`: a received turn is at
  most fifteen steps from its end (`StepsLeft`), each of its own steps brings it
  nearer whatever the models answer, and no step of another turn moves it.
* `HintLadderProofs`: `LadderEarned`, `HintIsNextRung`, `AttemptsJustified`.
  `IInv` adds to them, for every turn in flight, that the record it read was earned
  and justified when read. This is what survives a stale write: counts of answered
  requests only grow, so a record justified at its read still is at its write.
  `DecisionShape` extracts from the policy when it gives a hint and of what level;
  `EarnedStep` is the arithmetic of the two caps. With a client that awaits each
  answer (`SerialClient`), `ImplementsLadderSpec` proves `LadderRefinement`: begin,
  refusal and failure are stutters, the answer of a solve request is one `Attempt`
  on the problem it stands on and any other answer one `Talk`, so no answered
  attempt is lost or counted twice (`answered` is the same on both sides); whether
  an attempt gets a hint is left open, since a frustrated student gets none. It
  needs two more invariants: `ReadIsStored`, that the record a turn in flight holds
  is the stored one, and `HintAfterTwo`, that a hint is only chosen when that record
  counts two attempts, which is the condition under which `Attempt` climbs.
* `ExecutorProofs`, on `run_plan`: `DependenciesEnded`, `VerdictIsExact`, the
  action property `NeverRestarted`, and that the executor implements
  `TopologicalRun`. The key strengthening is `CyclesUntouched`: a set of stages that
  wait on each other stays waiting, so "done" excludes a cycle and "nothing is ready"
  exhibits one. `RunIsBounded` is the safety half of `Terminates`, for finitely many
  stages: `StepsLeft`, counted from the places of the stages, is at most three a
  stage and two more, and every step of the run lowers it.
  On the CAS calls: `ConfirmedIsComputed`, and with `CallsTypeOK` the bound on
  running jobs. First what the operators guarantee (`ResultType`, `ExtractedType`,
  and `Confirmed`: what a confirmed claim says of the finding behind it); then
  `QueueInv`, a queued job is there once and was not taken, and `CallInv`, an answer
  is the refusal or the result of the call's own ended job. Both are needed: without
  `QueueInv` a thread could take an ended job again.
* `IAProjectProofs`: `OneEntryPerTurn`, `CoachingIsDisclosed`,
  `NoHelpWhereClosed`, `CompletionWasClaimed`. `TurnInv` ties a turn's place to
  the exact entry it has logged and to the decision that allows it there;
  `OtherTurns` shows that a step of another turn cannot disturb it. From the same
  invariant follows the action property `ReopenedOnlyByOverlap`: the state machine
  never leaves `complete` (`MoveFromComplete`), so whoever writes another stage over
  it had found another stage. If the student awaits each answer, what a turn found
  is still what is stored (`FoundIsStored`), and `TerminalWhenAwaited` proves
  `CompleteIsTerminal`, which overlapping turns violate (section 6).
* `TutorGateProofs`: `ShownDraftIsClean`, `DegradedIsStaticallyClean`,
  `DegradedIsQueued`, `SignalsNameTheGate`, and at most two calls of the tutor model
  (part of `TypeOK` and of `ShownDraftIsClean`). What the row does not tell, that a
  regenerated draft broke its contract, is `LeakIsRecorded` (section 6). `IInv` says what has been established on the way to each place; in
  particular a draft is under revision only after a real, not a degraded, critique.
* `PracticeLoopProofs`: `HighIsSupported`, `FlaggedIffBare`,
  `GradedPhotoIsWellRead`, `RightPlainAnswerIsAwarded`, `DiagnosisIsWarranted`,
  `PendingMeansUnreviewed`, `ErasedStaysErased`, `ServedItemIsSound`, and the action
  property `DoubtfulIsQueued`. Two layers: first what the grader and the
  diagnostician compute for any task, any sequence of lines and any model reply
  (`HighGrade`, `LowGrade`, `FlagIffBare`: method marks are all or nothing, so the
  0.4 of the code never separates anything else), then the loop. `SubInv` keeps the
  grade tied to its own task and lines; `Fresh`, that a turn which has not recorded
  yet left no trace in the queue, is what makes a new entry neither reviewed nor
  erased.
* `PrivacyProofs`: `ErasedReturnsOnlyByOverlap` and `ExportShowsDelivered`, for any
  number of turns and of runs of the consolidation job, whose saves are upserts of
  rows it has listed and bring an erased row back as a turn's do. `WriterInv` says
  what the place of a writer, turn or job, allows it to hold and to have written.
  `ReturnInv` follows tainted rows: whatever carries data that an erasure is
  deleting or has deleted, in a table or in a writer's copy, belongs to a writer that
  an erasure crossed. `ExportInv` says that an owed record lasts in its table until it
  is listed, and in the export after.
* `LearnerRecordsProofs`: `RecordsAreEarned`, `ExactWhenAlone`, `AppendsAreKept`
  and `FirstDiagnosisSurfaces`. The three tables that are read and written back
  whole (mastery, review state, misconception registry) are argued about at once:
  each has keys, a row, a total and a part counted apart (the correct answers of
  mastery, the lapses of a review state), and every step leaves a table alone
  (`Still`), writes one row of it (`Writes`) or erases it (`Erases`). `Earned` bounds the total and the part of a
  row by the turns that touched it, and bounds the copies held by turns and by the
  consolidation job as well: a stale copy may be written at any later moment, and it
  still shows no more than there was, since the turns that touched a row only grow.
  `Exact` says with equality, while nothing overlaps, what `Earned` bounds, for the
  rows, and that every copy equals its row; `Alone` says what "nothing overlaps"
  keeps apart. A run of the
  job may write back any of the mastery rows it has listed (`node_state` depends on
  the time and is left out), so this is about consolidations that do write.
  `Appended` gives the two logs, `Fresh` that the job holds only faded
  entries, so a first diagnosis is not retired before it fades, and is surfaced
  unless `MaxActive` others are; `Placed` and `Tidy`
  say what a place allows a turn, the job and the history to hold.

Only model-checked: liveness (`Terminates`, `TurnEnds`, `TurnsEnd`, `CallsReturn`,
`WaitingAreAnswered`), which is out of this prover's reach. `RunIsBounded` and
`TurnsAreShort` prove of the first and the last what is not about fairness: no plan
and no turn goes round for ever.

## 5. What is not modelled

SymPy's algebra (and the printed steps and LaTeX of its results), image
processing, the wording of prompts and comments, the knowledge corpus, the
evaluation harness and configuration; BKT, IRT and FSRS formulas (floating point);
offline aggregation of metrics; streaming, which no agent uses. They are inputs or
absent; `PROJECT.json` gives the reason for each. In `LearnerRecords` the passing
of time is a choice that a registry entry has faded, and in `TurnFlow` the values
in the rows of the grading tables are left to `LearnerRecords` and `PracticeLoop`.

## 6. Findings

Shown by a run:

* **IARefusal**: a refusal by an integrity gate is logged as coaching provided.

Stated in a module, without a run of its own; each is violated when put as the
property of the named configuration.

| property | configuration | what the code does |
|---|---|---|
| `EveryAnsweredAttemptCounts` | `MCHintLadder.cfg` | two overlapping solve requests count once |
| `CompleteIsTerminal` | `MCIAProject.cfg` | a turn that read its project before another completed it reopens it (`ReopenedOnlyByOverlap`: the only way) |
| `VerdictIsRecorded` | `MCTutorGate.cfg` | a critic's block is recorded as no verdict |
| `LeakIsRecorded` | `MCTutorGate.cfg` | a regenerated draft that breaks its contract is discarded and recorded as a failed regeneration, not as a leak, where `guardrail_metrics/models.py:23-24` says the field is true when the leak-check discarded the draft |
| `DiagnosisSurfaces` | `MCLearnerRecords.cfg` | a diagnosis without a trusted mastery row, or on a remediated entry, does not surface on the next turn (`FirstDiagnosisSurfaces`: a first one does, wherever there is a trusted mastery row) |
| `AppealedWasReviewed` | `MCPracticeLoop.cfg` | a pending entry can be appealed |
| `WrongFinalAnswerIsLocated` | `MCPracticeLoop.cfg` | work that states the right value and ends on a wrong one gets full marks and no error |
| `RightAnswerIsAwarded` | `MCPracticeLoop.cfg` | an equation's root, stored as `x = 3`, and a simplified expression, typed a restatement, never get the accuracy mark (`RightPlainAnswerIsAwarded`: other answers do) |
| `PhotoGradedAsTyped` | `MCPracticeLoop.cfg` | a photograph's LaTeX is made plain for the confidence score only, and the grader cannot read it |
| `AgreeingIsConfirmed` | `MCCASCalls.cfg` | a claim of one of several roots is never confirmed, since the printed roots do not parse back |
| `NoRequestHangs` | `MCCASCalls.cfg`, with `Slow = {c1, c2}` | an item waits for ever once every thread is held by a computation that timed out |
| `ShownMisconceptionIsSure` | `MCTurnFlow.cfg` | the answer carries a misconception below the confidence at which it is written |

Observed while reading, with no property: a plan with a cycle raises only after
its acyclic prefix has run, where `executor.py:21-23` says immediately; a draft
without chunks has grounding score 1.0; a degraded critique that blocks is not
queued, only one that passes; the session row is keyed by session only, where
`session/state.py:2` says session and problem; an erasure that races a turn in
flight, or a run of the consolidation job, leaves the rows that these write
afterwards; when `httpx.AsyncClient()` or its `aclose` raises, the `finally` of
`llm/client.py:169-171` lets another exception than `ModelUnavailableError` out, where
line 167 says any failure becomes that one, and the request is answered 500
(`Raise` of `TurnFlow`, from every model call); a restated equation earns
method marks, because an equation does not parse and is never recognised as a
restatement; a model's diagnosis that is JSON but no object raises, where
`model_fallback.py:84` says never, and one of confidence NaN is taken as certain;
right answers without working are diagnosed, since a diagnosis follows any missed
mark; without a provider key turns degrade and are answered, where `main.py:86`
says they fail; and the reply that confirms a transcription, for which
`fallback.py:232` promises a grade, is not connected to it and grades nothing.

## 7. Plan

Done, in this order: `Policy`, `HintLadder` with `LadderSpec`, `StageExecutor`
with `TopologicalRun`, `IAProject`, `TutorGate`: what protects the student;
`LearnerRecords`, `PracticeLoop` with `Examiner`, `Ingestion` and
`ItemGeneration`, `CAS` with `CASCalls`: what is remembered of and served to them;
`TurnFlow`, `Privacy` and `Diagnostician`: the turn as a whole, its failures and
resends, and what an export and an erasure make of it.

Next:

1. An abstract ledger of practice that `LearnerRecords` implements when turns do not
   overlap, from `Exact` and `Alone`.
2. Bounds of the kind of `RunIsBounded` and `TurnsAreShort` for `TutorGate`, the
   practice loop and the CAS calls.
3. `TutorGate` and the grading stages as parts that `TurnFlow` implements, as it
   does the ladder and the project.
