------------------------------ MODULE TurnFlow ------------------------------
(***************************************************************************)
(* POST /turn from the request to the answer: main.py's handler and the    *)
(* whole of handle_turn, with the clients that send requests and send them *)
(* again.  Every step is the code between two awaits; turns interleave at  *)
(* the awaits, an await may raise, and a restart ends the turns under way  *)
(* where they are, leaving the tables as they were.  The session ladder is *)
(* that of HintLadder and the project part that of IAProject, which this   *)
(* module is shown to implement.                                           *)
(***************************************************************************)
EXTENDS Policy, FiniteSets

CONSTANTS
  Sessions, Problems, NoProblem,
  Turns,       \* requests: each is sent once, a resend is another one
  NoRow, NoTurn,
  Requests,    \* what clients may send
  Answers,     \* what the intent model may answer
  TextStages,  \* stages a text may name (all of IAStage, or fewer)
  Marks,       \* gradings the examiner may return (all of Mark, or fewer)
  MaxFaults    \* bound: awaits that raise, turns and answers that are lost

ProblemIds == Problems \cup {NoProblem}

\* problem_id is the project's id; without one it is the student's default.
Projects == ProblemIds

\* work: typed working, a photograph, or one whose base64 does not decode.
Request == [session : Sessions, problem : ProblemIds, template : BOOLEAN,
            work : {"none", "typed", "photo", "broken_photo"}]

\* topic: a topic_hint was given.
IntentResult == [intent : IntentType, mode : AssessmentMode, topic : BOOLEAN]

\* A call of the model router: the provider has no key, raises whatever it
\* may, answers after the caller's timeout, or in time.
CallOutcome == {"no_key", "raised", "late", "text"}

\* The try of generate turns whatever the call raises into
\* ModelUnavailableError.  What its finally raises, when no client could be
\* made or when the client does not close, is not: see Unprotected.
Generate(outcome) ==
  IF outcome \in {"no_key", "raised"} THEN "unavailable" ELSE outcome

\* valid: the text is JSON that makes an IntentResult.  confident: its
\* confidence is at least LOW_CONFIDENCE_THRESHOLD.
ClassifierAnswer == [outcome : CallOutcome, valid : BOOLEAN,
                     confident : BOOLEAN, result : IntentResult]

\* A grading that missed marks, one of LOW confidence (which any flag makes).
Mark == [missed : BOOLEAN, low : BOOLEAN]
NoMark == [missed |-> FALSE, low |-> FALSE]

ASSUME FlowConstants ==
  /\ IsFiniteSet(Turns)
  /\ NoProblem \notin Problems
  /\ Requests \subseteq Request /\ Requests # {}
  /\ Answers \subseteq ClassifierAnswer
  /\ TextStages \subseteq IAStage
  /\ Marks \subseteq Mark
  /\ MaxFaults \in Nat

Tables == {"project", "disclosure", "mastery", "review", "misconception",
           "review_queue", "response_log", "guardrail", "session"}

\* The tables of the post-grading stages.
GradeTables == {"mastery", "review", "misconception", "review_queue",
                "response_log"}

VARIABLES
  session,  \* session_state: session id -> record or NoRow
  project,  \* ia_project_state: project id -> stage or NoStage
  turn,     \* what the server knows of each request
  client,   \* what the client knows of each request
  faults

vars == <<session, project, turn, client, faults>>

SafeDefault ==
  [intent |-> "concept_explain", mode |-> "practice", topic |-> FALSE]

Usable(a) == Generate(a.outcome) = "text" /\ a.valid

\* Mutant: a shaky classification is taken as it is.
ClassifyTrusting(a) == IF Usable(a) THEN a.result ELSE SafeDefault

\* classify_intent: no usable answer is the safe default, an unsure one keeps
\* its topic.
ClassifyIntent(a) ==
  IF ~Usable(a) THEN SafeDefault
  ELSE IF ~a.confident
       THEN [a.result EXCEPT !.intent = "concept_explain", !.mode = "practice"]
  ELSE a.result

Undecided == Act("explain", "general_chat")
NoState == [problem |-> NoProblem, attempts |-> 0, level |-> 0]

\* How a turn was answered.
Path == {"none", "refused", "confirmation", "graded", "tutored"}

\* The step a turn takes next; of one that has ended, the step it ended in.
Steps == {"classifying", "reading_session", "reading_project",
          "saving_project", "deciding", "disclosing", "refusing", "ingesting",
          "grading", "recording", "tutoring", "measuring", "queueing",
          "saving"}

TurnRecord ==
  [fate : {"unborn", "running", "rejected", "delivered", "failed", "lost"},
   pc : Steps, request : Request, repeats : Turns, sure : BOOLEAN,
   result : IntentResult,
   current : [problem : ProblemIds, attempts : Nat,
              level : 0..MaxHintLadderLevel],
   ghost : BOOLEAN, named : IAStage \cup {NoStage},
   found : IAStage \cup {NoStage}, stage : IAStage \cup {NoStage},
   action : Action, path : Path, mark : Mark,
   todo : SUBSET GradeTables,    \* stages of run_plan that have not ended
   wrote : SUBSET Tables,        \* tables this turn has written to
   dropped : SUBSET GradeTables, \* stages that raised
   diagnosis : {"none", "unsure", "sure"}, degraded : BOOLEAN]

Unborn(t) ==
  [fate |-> "unborn", pc |-> "classifying",
   request |-> CHOOSE r \in Requests : TRUE, repeats |-> t, sure |-> TRUE,
   result |-> SafeDefault, current |-> NoState, ghost |-> FALSE,
   named |-> NoStage, found |-> NoStage, stage |-> NoStage,
   action |-> Undecided, path |-> "none", mark |-> NoMark, todo |-> {},
   wrote |-> {}, dropped |-> {}, diagnosis |-> "none", degraded |-> FALSE]

(***************************************************************************)
(* The turns as HintLadder sees them: from session_store.get to the save   *)
(* or the refusal, undecided until the disclosure entry is written.        *)
(***************************************************************************)
LoadedSteps == {"reading_project", "saving_project", "deciding", "disclosing",
                "refusing"}
AnsweringSteps == {"ingesting", "grading", "recording", "tutoring",
                   "measuring", "queueing", "saving"}

LadderTurn(t) ==
  LET r == turn[t]
      seen(pc, action) ==
        [pc |-> pc, session |-> r.request.session,
         problem |-> r.request.problem, intent |-> r.result.intent,
         current |-> r.current, action |-> action]
  IN IF r.fate # "running" THEN NoTurn
     ELSE IF r.pc \in LoadedSteps THEN seen("loaded", Undecided)
     ELSE IF r.pc \in AnsweringSteps THEN seen("answering", r.action)
     ELSE NoTurn

\* The answered solve requests of a session on a problem.
Asked(s, p) ==
  {t \in Turns : /\ "session" \in turn[t].wrote
                 /\ turn[t].result.intent = "solve_request"
                 /\ turn[t].request.session = s
                 /\ turn[t].current.problem = p}

Ladder == INSTANCE HintLadder WITH
  SerialClient <- FALSE, Intents <- IntentType,
  MaxAsks <- Cardinality(Turns) + 1,
  store <- session,
  turn <- [t \in Turns |-> LadderTurn(t)],
  answered <- [s \in Sessions |->
                 [p \in ProblemIds |-> Cardinality(Asked(s, p))]]

ASSUME FlowSlots == /\ NoTurn \notin Ladder!TurnState
                    /\ NoRow \notin Ladder!ProblemSessionState

\* The kind of help handle_turn writes into the disclosure entry.
Assistance(action) ==
  IF action.reason = "ia_ghostwriting_guard_tripped"
  THEN "ghostwriting_request_refused"
  ELSE IF action.reason = "ia_project_already_complete"
  THEN "project_already_complete" ELSE "coaching"

\* The disclosure_log: one entry for each turn that wrote to it.
DisclosureLog ==
  {[turn |-> t, project |-> turn[t].request.problem, stage |-> turn[t].stage,
    assistance |-> Assistance(turn[t].action)] :
     t \in {u \in Turns : "disclosure" \in turn[u].wrote}}

(***************************************************************************)
(* The ia_ee_help turns as IAProject sees them, from ia_project_store.get  *)
(* on; the decision shows once its entry is written.                       *)
(***************************************************************************)
ProjectTurn(t) ==
  LET r == turn[t]
      unread == [pc |-> "unborn", project |-> CHOOSE p \in Projects : TRUE,
                 ghost |-> FALSE, named |-> NoStage, found |-> NoStage,
                 stage |-> NoStage, action |-> Undecided]
      seen(pc) ==
        [pc |-> pc, project |-> r.request.problem, ghost |-> r.ghost,
         named |-> r.named, found |-> r.found, stage |-> r.stage,
         action |-> IF "disclosure" \in r.wrote THEN r.action ELSE Undecided]
  IN IF \/ r.result.intent # "ia_ee_help"
        \/ r.pc \in {"classifying", "reading_session", "reading_project"}
     THEN unread
     ELSE IF r.fate \in {"failed", "lost"} THEN seen("failed")
     ELSE IF r.path = "refused" THEN seen("refused")
     ELSE IF r.fate = "delivered" THEN seen("answered")
     ELSE IF "disclosure" \in r.wrote THEN seen("logged")
     ELSE IF "project" \in r.wrote THEN seen("saved") ELSE seen("loaded")

Supervisor == INSTANCE IAProject WITH
  SerialClient <- FALSE,
  log <- DisclosureLog,
  turn <- [t \in Turns |-> ProjectTurn(t)]

-----------------------------------------------------------------------------
Init ==
  /\ session = [s \in Sessions |-> NoRow]
  /\ project = [p \in Projects |-> NoStage]
  /\ turn = [t \in Turns |-> Unborn(t)]
  /\ client = [t \in Turns |-> "idle"]
  /\ faults = 0

At(t, pc) == turn[t].fate = "running" /\ turn[t].pc = pc
UnderWay(t) == turn[t].fate = "running"

\* main.py: a photograph is decoded before handle_turn is called, unless it
\* is ignored for typed working; one that does not decode is answered 400.
Receive(t, r, u) ==
  /\ client[t] = "idle"
  /\ turn' = [turn EXCEPT ![t] =
                [Unborn(t) EXCEPT
                   !.request = r, !.repeats = u,
                   !.fate = IF r.work = "broken_photo" THEN "rejected"
                                                       ELSE "running"]]
  /\ client' = [client EXCEPT ![t] = IF r.work = "broken_photo"
                                     THEN "rejected" ELSE "waiting"]
  /\ UNCHANGED <<session, project, faults>>

Send(t) == \E r \in Requests : Receive(t, r, t)

\* The student sends a request again that got no answer, whatever became of
\* its turn: it carries no mark that says so.
Resend(t, u) ==
  /\ client[u] \in {"error", "gone"}
  /\ \A v \in Turns \ {u} : turn[v].repeats # u
  /\ Receive(t, turn[u].request, u)

\* The connection breaks or the student stops waiting; the turn goes on.
GiveUp(t) ==
  /\ faults < MaxFaults
  /\ client[t] = "waiting"
  /\ client' = [client EXCEPT ![t] = "gone"]
  /\ faults' = faults + 1
  /\ UNCHANGED <<session, project, turn>>

\* Mutant: what the model call raises is not caught.
ClassifyUncaught(t) ==
  /\ At(t, "classifying")
  /\ \E a \in Answers :
       IF Generate(a.outcome) = "text"
       THEN /\ turn' = [turn EXCEPT ![t].pc = "reading_session",
                                    ![t].sure = Usable(a) /\ a.confident,
                                    ![t].result = ClassifyIntent(a)]
            /\ UNCHANGED client
       ELSE /\ turn' = [turn EXCEPT ![t].fate = "failed"]
            /\ client' = [client EXCEPT ![t] = "error"]
  /\ UNCHANGED <<session, project, faults>>

\* classify_intent, whose model call is cut off after its timeout.
Classify(t) ==
  /\ At(t, "classifying")
  /\ \E a \in Answers :
       turn' = [turn EXCEPT ![t].pc = "reading_session",
                            ![t].sure = Usable(a) /\ a.confident,
                            ![t].result = ClassifyIntent(a)]
  /\ UNCHANGED <<session, project, client, faults>>

\* _load_memory reads, then session_store.get and the problem switch.
ReadSession(t) ==
  /\ At(t, "reading_session")
  /\ LET r == turn[t].request
     IN turn' = [turn EXCEPT
          ![t].pc = IF turn[t].result.intent = "ia_ee_help"
                    THEN "reading_project" ELSE "deciding",
          ![t].current = Ladder!LoadState(r.session, r.problem)]
  /\ UNCHANGED <<session, project, client, faults>>

\* The ghostwriting guard, ia_project_store.get and classify_stage.
ReadProject(t) ==
  /\ At(t, "reading_project")
  /\ \E gh \in BOOLEAN, st \in TextStages \cup {NoStage} :
       turn' = [turn EXCEPT ![t].pc = "saving_project", ![t].ghost = gh,
                            ![t].named = st,
                            ![t].found = project[turn[t].request.problem]]
  /\ UNCHANGED <<session, project, client, faults>>

\* advance_stage, ia_project_store.save.
SaveProject(t) ==
  /\ At(t, "saving_project")
  /\ LET new == AdvanceStage(turn[t].found, turn[t].named)
     IN /\ project' = [project EXCEPT ![turn[t].request.problem] = new]
        /\ turn' = [turn EXCEPT ![t].pc = "deciding", ![t].stage = new,
                                ![t].wrote = @ \cup {"project"}]
  /\ UNCHANGED <<session, client, faults>>

(***************************************************************************)
(* What the policy may decide: the mode is the classified one, and without *)
(* a topic no mastery row is read, so the default estimate, below the      *)
(* HIGH tier, stands in for it.                                            *)
(***************************************************************************)
Decisions(t) ==
  LET r == turn[t]
  IN {DecidePedagogicalAction(sig) :
        sig \in {x \in PossibleSignals(r.result.intent, r.current.attempts,
                          r.current.level, PossibleDues(r.result.intent),
                          {r.ghost}, {r.stage}) :
                   /\ x.mode = r.result.mode
                   /\ x.highMastery => r.result.topic}}

\* Mutant: only the refusals of the integrity gates return at once.
RouteGatedOnly(r, action) ==
  IF action.reason \in GateReason THEN "refusing"
  ELSE IF r.result.intent # "check_work" THEN "tutoring"
  ELSE IF r.request.work = "photo" THEN "ingesting"
  ELSE IF r.request.work = "typed" THEN "grading" ELSE "tutoring"

\* Where a turn goes once it is decided and, of an IA/EE project, disclosed.
Route(r, action) ==
  IF action.type = "refuse" THEN "refusing"
  ELSE IF r.result.intent # "check_work" THEN "tutoring"
  ELSE IF r.request.work = "photo" THEN "ingesting"
  ELSE IF r.request.work = "typed" THEN "grading" ELSE "tutoring"

\* most_overdue_subtopic on exam_prep turns, then the decision policy.
Decide(t) ==
  /\ At(t, "deciding")
  /\ \E a \in Decisions(t) :
       turn' = [turn EXCEPT
                  ![t].pc = IF turn[t].result.intent = "ia_ee_help"
                            THEN "disclosing" ELSE Route(turn[t], a),
                  ![t].action = a]
  /\ UNCHANGED <<session, project, client, faults>>

\* ia_disclosure_store.add
Disclose(t) ==
  /\ At(t, "disclosing")
  /\ turn' = [turn EXCEPT ![t].pc = Route(turn[t], turn[t].action),
                          ![t].wrote = @ \cup {"disclosure"}]
  /\ UNCHANGED <<session, project, client, faults>>

\* The answer leaves for a client that still waits for it.
Answered(t) == IF client[t] = "waiting"
               THEN [client EXCEPT ![t] = "answered"] ELSE client

\* Mutant: a refused turn is saved like any other.
RefuseSaving(t) ==
  /\ At(t, "refusing")
  /\ LET r == turn[t]
     IN session' = [session EXCEPT ![r.request.session] =
          Ladder!AdvanceSessionState(r.current, r.request.problem,
                                     r.result.intent, r.action)]
  /\ turn' = [turn EXCEPT ![t].fate = "delivered", ![t].path = "refused"]
  /\ client' = Answered(t)
  /\ UNCHANGED <<project, faults>>

\* REFUSE returns at once: no Tutor, no grading, no session record.
Refuse(t) ==
  /\ At(t, "refusing")
  /\ turn' = [turn EXCEPT ![t].fate = "delivered", ![t].path = "refused"]
  /\ client' = Answered(t)
  /\ UNCHANGED <<session, project, faults>>

-----------------------------------------------------------------------------
\* ingest_image: the transcription is graded as typed working, or the answer
\* asks the student to confirm, retype or retake it.
Ingest(t) ==
  /\ At(t, "ingesting")
  /\ \/ turn' = [turn EXCEPT ![t].pc = "grading"]
     \/ turn' = [turn EXCEPT ![t].pc = "saving", ![t].path = "confirmation"]
  /\ UNCHANGED <<session, project, client, faults>>

\* post_grading_stages, each named by the table it writes to.
StagesOf(r, mark) ==
  {"mastery"}
    \cup (IF r.result.topic THEN {"review"} ELSE {})
    \cup (IF mark.missed THEN {"misconception"} ELSE {})
    \cup (IF mark.low THEN {"review_queue"} ELSE {})
    \cup (IF r.request.template THEN {"response_log"} ELSE {})

\* _grade_check_work_turn: a problem that CAS cannot read or solve goes to
\* the Tutor, any other is graded and run_plan starts the stages.
Grade(t) ==
  /\ At(t, "grading")
  /\ \/ turn' = [turn EXCEPT ![t].pc = "tutoring"]
     \/ \E m \in Marks :
          turn' = [turn EXCEPT ![t].pc = "recording", ![t].mark = m,
                               ![t].todo = StagesOf(turn[t], m)]
  /\ UNCHANGED <<session, project, client, faults>>

\* The mastery stage returns without writing on a LOW grading or no topic.
Writes(r, table) == table = "mastery" => r.result.topic /\ ~r.mark.low

StageEnds(t, table) ==
  /\ At(t, "recording")
  /\ table \in turn[t].todo \ {"misconception"}
  /\ turn' = [turn EXCEPT ![t].todo = @ \ {table},
                          ![t].wrote = IF Writes(turn[t], table)
                                       THEN @ \cup {table} ELSE @]
  /\ UNCHANGED <<session, project, client, faults>>

\* _diagnose_and_write_misconception: only a sure diagnosis is written; a
\* model answer that is JSON but no object raises, which run_plan drops.
Diagnose(t) ==
  /\ At(t, "recording")
  /\ "misconception" \in turn[t].todo
  /\ \/ \E d \in {"none", "unsure", "sure"} :
          turn' = [turn EXCEPT ![t].todo = @ \ {"misconception"},
                               ![t].diagnosis = d,
                               ![t].wrote = IF d = "sure"
                                            THEN @ \cup {"misconception"} ELSE @]
     \/ turn' = [turn EXCEPT ![t].todo = @ \ {"misconception"},
                             ![t].dropped = @ \cup {"misconception"}]
  /\ UNCHANGED <<session, project, client, faults>>

\* Mutant: what a stage raises ends the turn.
StageEndsTurn(t, table) ==
  /\ faults < MaxFaults
  /\ At(t, "recording")
  /\ table \in turn[t].todo
  /\ turn' = [turn EXCEPT ![t].fate = "failed"]
  /\ client' = [client EXCEPT ![t] = IF @ = "waiting" THEN "error" ELSE @]
  /\ faults' = faults + 1
  /\ UNCHANGED <<session, project>>

\* run_plan keeps what a stage raises to itself.
StageRaises(t, table) ==
  /\ faults < MaxFaults
  /\ At(t, "recording")
  /\ table \in turn[t].todo
  /\ turn' = [turn EXCEPT ![t].todo = @ \ {table},
                          ![t].dropped = @ \cup {table}]
  /\ faults' = faults + 1
  /\ UNCHANGED <<session, project, client>>

\* run_plan has every result: the graded response is built.
Respond(t) ==
  /\ At(t, "recording")
  /\ turn[t].todo = {}
  /\ turn' = [turn EXCEPT ![t].pc = "saving", ![t].path = "graded"]
  /\ UNCHANGED <<session, project, client, faults>>

\* The grounding or the item, then tutor_agent.generate (see TutorGate),
\* which answers from a template when the model does not.
Tutor(t) ==
  /\ At(t, "tutoring")
  /\ \E d \in BOOLEAN :
       turn' = [turn EXCEPT ![t].pc = "measuring", ![t].path = "tutored",
                            ![t].degraded = d]
  /\ UNCHANGED <<session, project, client, faults>>

\* Mutant: a degraded critique is recorded but not queued.
MeasureOnly(t) ==
  /\ At(t, "measuring")
  /\ turn' = [turn EXCEPT ![t].pc = "saving",
                          ![t].wrote = @ \cup {"guardrail"}]
  /\ UNCHANGED <<session, project, client, faults>>

\* guardrail_metrics_store.add
Measure(t) ==
  /\ At(t, "measuring")
  /\ turn' = [turn EXCEPT ![t].pc = IF turn[t].degraded
                                    THEN "queueing" ELSE "saving",
                          ![t].wrote = @ \cup {"guardrail"}]
  /\ UNCHANGED <<session, project, client, faults>>

\* enqueue_review of a critique that fell back to its static check.
Queue(t) ==
  /\ At(t, "queueing")
  /\ turn' = [turn EXCEPT ![t].pc = "saving",
                          ![t].wrote = @ \cup {"review_queue"}]
  /\ UNCHANGED <<session, project, client, faults>>

\* advance_session_state, session_store.save and the answer.
Save(t) ==
  /\ At(t, "saving")
  /\ LET r == turn[t]
     IN session' = [session EXCEPT ![r.request.session] =
          Ladder!AdvanceSessionState(r.current, r.request.problem,
                                     r.result.intent, r.action)]
  /\ turn' = [turn EXCEPT ![t].fate = "delivered",
                          ![t].wrote = @ \cup {"session"}]
  /\ client' = Answered(t)
  /\ UNCHANGED <<project, faults>>

-----------------------------------------------------------------------------
\* The steps with an await that is not protected against what it raises.
\* "deciding" has one only when a due review is looked up; "classifying" has
\* one because classify_intent catches no more than an unavailable or a late
\* model, and generate may raise something else from its finally.
Unprotected(t) ==
  \/ turn[t].pc \in Steps \ {"deciding", "refusing", "recording"}
  \/ turn[t].pc = "deciding" /\ turn[t].result.intent = "exam_prep"

\* The await raises and the request is answered 500; what was written stays.
Raise(t) ==
  /\ faults < MaxFaults
  /\ UnderWay(t) /\ Unprotected(t)
  /\ turn' = [turn EXCEPT ![t].fate = "failed"]
  /\ client' = [client EXCEPT ![t] = IF @ = "waiting" THEN "error" ELSE @]
  /\ faults' = faults + 1
  /\ UNCHANGED <<session, project>>

\* The process restarts: a turn under way is lost; the tables are on disk.
Lose(t) ==
  /\ faults < MaxFaults
  /\ UnderWay(t)
  /\ turn' = [turn EXCEPT ![t].fate = "lost"]
  /\ client' = [client EXCEPT ![t] = IF @ = "waiting" THEN "error" ELSE @]
  /\ faults' = faults + 1
  /\ UNCHANGED <<session, project>>

Proceed(t) ==
  \/ Classify(t)
  \/ ReadSession(t)
  \/ ReadProject(t)
  \/ SaveProject(t)
  \/ Decide(t)
  \/ Disclose(t)
  \/ Refuse(t)
  \/ Ingest(t)
  \/ Grade(t)
  \/ \E b \in GradeTables : StageEnds(t, b)
  \/ Diagnose(t)
  \/ Respond(t)
  \/ Tutor(t)
  \/ Measure(t)
  \/ Queue(t)
  \/ Save(t)

Next ==
  \E t \in Turns :
    \/ Send(t)
    \/ \E u \in Turns : Resend(t, u)
    \/ GiveUp(t)
    \/ Proceed(t)
    \/ \E b \in GradeTables : StageRaises(t, b)
    \/ Raise(t)
    \/ Lose(t)

Spec == Init /\ [][Next]_vars

\* A challenge, and the practice of a due review, serve an item.
ServesItem(action) ==
  action.type = "challenge" \/ action.reason = "exam_prep_review_due"

MakesItem(t) == At(t, "tutoring") /\ ServesItem(turn[t].action)

(***************************************************************************)
(* The event loop goes on with a turn whose await has completed, and the   *)
(* awaits complete: model calls and CAS calls have timeouts, statements    *)
(* are local.  One does not: a turn that makes an item awaits              *)
(* run_in_executor, without a timeout, on threads that CAS computations    *)
(* may hold for ever (generator.py:373-384; CASCalls shows how), so its    *)
(* Tutor step is not fair.  Clients and faults carry no fairness.          *)
(***************************************************************************)
FairSpec ==
  Spec /\ \A t \in Turns : WF_vars(Proceed(t) /\ ~MakesItem(t))

-----------------------------------------------------------------------------
TypeOK ==
  /\ session \in [Sessions -> Ladder!ProblemSessionState \cup {NoRow}]
  /\ project \in [Projects -> IAStage \cup {NoStage}]
  /\ turn \in [Turns -> TurnRecord]
  /\ client \in [Turns -> {"idle", "waiting", "answered", "error", "gone",
                           "rejected"}]
  /\ faults \in 0..MaxFaults

(***************************************************************************)
(* The whole turn does to the session ladder what HintLadder says, on every *)
(* path it may take: a refused or failed turn never writes it, any other   *)
(* turn writes it once, from the record it read, whether it is graded,     *)
(* asked to confirm a photograph or tutored.  What is proved of HintLadder *)
(* holds of POST /turn with resends, faults and clients that do not wait.  *)
(***************************************************************************)
LadderOfTurns == Ladder!Spec

(***************************************************************************)
(* ... and to projects and the disclosure log what IAProject says: stage,  *)
(* entry and refusal come in that order on the way to the Tutor, and a     *)
(* failure at any later step leaves the entry of help that never arrived.  *)
(***************************************************************************)
ProjectOfTurns == Supervisor!Spec

\* The stages that run_plan was given and that had something to write.
DueOnGrade(r) ==
  {b \in StagesOf(r, r.mark) :
     Writes(r, b) /\ (b = "misconception" => r.diagnosis = "sure")}

(***************************************************************************)
(* A client is shown an answer only when everything the answer stands for  *)
(* is on disk: a graded one every due record but those whose stage raised, *)
(* a tutored one its guardrail row and, if the critic was degraded, its    *)
(* review entry, a refused one the disclosure of an IA/EE turn and nothing *)
(* else; and no answer is on a path of another (handle_turn.py:426-634).   *)
(***************************************************************************)
AnswersAreRecorded ==
  \A t \in Turns :
    client[t] = "answered" =>
      LET r == turn[t]
          ia == IF r.result.intent = "ia_ee_help"
                THEN {"project", "disclosure"} ELSE {}
      IN r.wrote = ia \cup
           CASE r.path = "refused" -> {}
             [] r.path = "confirmation" -> {"session"}
             [] r.path = "graded" -> {"session"} \cup (DueOnGrade(r) \ r.dropped)
             [] r.path = "tutored" ->
                  {"session", "guardrail"}
                    \cup (IF r.degraded THEN {"review_queue"} ELSE {})

Graded(r) == r.wrote \cap {"mastery", "review", "misconception",
                           "response_log"} # {}

(***************************************************************************)
(* A request answered 500 may be sent again without the learner's records  *)
(* counting it twice, unless it failed at its very last statement, the     *)
(* save of the session: no other failure of a graded turn shows, and none  *)
(* before the grading has written anything (handle_turn.py:479-576).       *)
(***************************************************************************)
ErrorsLeaveNoGrade ==
  \A t \in Turns :
    /\ turn[t].fate = "failed" /\ Graded(turn[t]) => turn[t].pc = "saving"
    /\ Graded(turn[t]) /\ turn[t].repeats # t =>
         LET first == turn[turn[t].repeats]
         IN Graded(first) => first.fate \in {"running", "lost", "delivered"}
                             \/ first.pc = "saving"

(***************************************************************************)
(* A turn whose classification failed or is unsure is the least invasive   *)
(* one: never refused, probed, challenged or graded, it touches no project *)
(* and no learner record, discloses nothing and saves the ladder of its    *)
(* problem as it stood, which is a new one if it names another problem     *)
(* than the stored row, whatever the text and the session's history are    *)
(* (router_agent.py, handle_turn.py:368-634).                              *)
(***************************************************************************)
UnsureLeavesNoMark ==
  \A t \in Turns :
    LET r == turn[t]
    IN ~r.sure =>
         /\ r.action.type \in {"explain", "supportive_scaffold"}
         /\ r.path \in {"none", "tutored"}
         /\ r.wrote \subseteq {"guardrail", "review_queue", "session"}
         /\ r.pc = "saving" =>
              Ladder!AdvanceSessionState(r.current, r.request.problem,
                                         r.result.intent, r.action) = r.current

(***************************************************************************)
(* Model outages never cost an answer: once nothing raises past its caller *)
(* and no restart comes any more, every client that waits is answered,     *)
(* whichever way its turn takes and whatever the models return in time or  *)
(* not, unless it stops waiting first or its turn makes an item; and one   *)
(* whose item is made in the end is answered too                           *)
(* (handle_turn.py:368-634, generator.py:373-384).                         *)
(***************************************************************************)
WaitingAreAnswered ==
  \A t \in Turns :
    LET waits == client[t] = "waiting" /\ faults = MaxFaults
        served == client[t] \in {"answered", "gone"}
    IN /\ waits ~> served \/ MakesItem(t)
       /\ WF_vars(Tutor(t)) => (waits ~> served)

\* main.py:123 "Present only when a misconception was confidently diagnosed":
\* the answer carries one whenever the diagnosis names one.
ShowsMisconception(r) == r.path = "graded" /\ r.diagnosis # "none"

ShownMisconceptionIsSure ==
  \A t \in Turns :
    client[t] = "answered" /\ ShowsMisconception(turn[t]) =>
      turn[t].diagnosis = "sure"
=============================================================================
