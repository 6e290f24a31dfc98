--------------------------- MODULE TurnFlowProofs ---------------------------
(***************************************************************************)
(* What a turn has on disk by the step it has reached, for any requests,   *)
(* model answers, overlapping turns, resends and faults; and that the      *)
(* whole turn implements the session ladder of HintLadder and the IA/EE    *)
(* project part of IAProject.                                              *)
(***************************************************************************)
EXTENDS TurnFlow, FiniteSetTheorems, TLAPS

-----------------------------------------------------------------------------
Base(r) ==
  IF r.result.intent = "ia_ee_help" THEN {"project", "disclosure"} ELSE {}

\* Everything an answer stands for.
Complete(r) ==
  Base(r)
    \cup (IF r.path = "refused" THEN {} ELSE {"session"})
    \cup (IF r.path = "graded" THEN DueOnGrade(r) \ r.dropped ELSE {})
    \cup (IF r.path = "tutored" THEN {"guardrail"} ELSE {})
    \cup (IF r.path = "tutored" /\ r.degraded THEN {"review_queue"} ELSE {})

EarlySteps ==
  {"classifying", "reading_session", "reading_project", "saving_project"}

UngradedSteps ==
  EarlySteps \cup {"deciding", "disclosing", "ingesting", "grading"}

\* What a turn has written, and why it is where it is.
Placed(r) ==
  /\ r.pc \in UngradedSteps \cup {"recording", "tutoring"} => r.path = "none"
  /\ r.pc \in UngradedSteps => r.dropped = {} /\ r.diagnosis = "none"
  /\ r.pc \in EarlySteps \cup {"ingesting", "grading"} => r.wrote = {}
  /\ r.pc \in EarlySteps \cup {"deciding"} => r.action.type = "explain"
  /\ r.pc \in {"reading_project", "saving_project", "disclosing"} =>
       r.result.intent = "ia_ee_help"
  /\ r.pc = "deciding" => r.wrote = Base(r) \ {"disclosure"}
  /\ r.pc = "disclosing" => r.wrote = {"project"}
  /\ r.pc \in {"refusing", "tutoring", "measuring"} => r.wrote = Base(r)
  /\ r.pc = "refusing" =>
       /\ r.action.type = "refuse"
       /\ r.fate = "delivered" => r.path = "refused"
       /\ r.fate # "delivered" => r.path = "none"
  /\ r.pc \in {"ingesting", "grading", "recording", "tutoring", "measuring",
              "queueing", "saving"} => r.action.type # "refuse"
  /\ r.pc \in {"ingesting", "grading", "recording"} =>
       r.result.intent = "check_work"
  /\ r.pc = "recording" =>
       /\ r.todo \subseteq StagesOf(r, r.mark) \ r.dropped
       /\ r.wrote = DueOnGrade(r) \ (r.todo \cup r.dropped)
       /\ "misconception" \in r.todo => r.diagnosis = "none"
  /\ r.pc \in {"measuring", "queueing"} => r.path = "tutored"
  /\ r.pc = "queueing" =>
       r.degraded /\ r.wrote = Base(r) \cup {"guardrail"}
  /\ r.pc = "saving" =>
       /\ r.path \in {"confirmation", "graded", "tutored"}
       /\ r.path # "tutored" => r.result.intent = "check_work"
       /\ r.fate = "delivered" => r.wrote = Complete(r)
       /\ r.fate # "delivered" => r.wrote = Complete(r) \ {"session"}
  /\ r.fate = "delivered" => r.pc \in {"refusing", "saving"}
  /\ r.fate = "failed" => r.pc # "recording"
  /\ r.fate \in {"unborn", "rejected"} => r.pc = "classifying"

\* An unsure classification became the safe default's intent and mode, and the
\* decision was the one they lead to.
Cautious(r) ==
  ~r.sure => /\ r.result.intent = "concept_explain"
             /\ r.result.mode = "practice"
             /\ r.action.type \in {"explain", "supportive_scaffold"}

\* The record a turn has read is of the problem it names.
OnProblem(r) ==
  r.pc \notin {"classifying", "reading_session"} =>
    r.request.problem \in {NoProblem, r.current.problem}

\* The decisions of an ia_ee_help turn, which look at no ladder.
IADecisions(ghost, stage) ==
  {DecidePedagogicalAction(sig) :
     sig \in PossibleSignals("ia_ee_help", 0, 0, {FALSE}, {ghost}, {stage})}

LateSteps == Steps \ (EarlySteps \cup {"deciding"})

\* The guard and the stage are an ia_ee_help turn's, and the action is one that
\* the policy takes for the record the turn has read.
Decided(r) ==
  /\ r.pc \in EarlySteps => r.stage = NoStage
  /\ r.pc \in EarlySteps \ {"saving_project"} => ~r.ghost
  /\ r.result.intent # "ia_ee_help" => ~r.ghost /\ r.stage = NoStage
  /\ r.result.intent = "ia_ee_help" /\ r.pc \notin EarlySteps =>
       r.stage \in IAStage
  /\ r.pc \in LateSteps =>
       r.action \in PossibleDecisions(r.result.intent, r.current.attempts,
                                      r.current.level)
  /\ r.pc = "disclosing" => r.action \in IADecisions(r.ghost, r.stage)

TurnInv(r) == Placed(r) /\ Cautious(r) /\ OnProblem(r) /\ Decided(r)

IInv ==
  /\ TypeOK
  /\ \A t \in Turns : TurnInv(turn[t])
  /\ \A t \in Turns : client[t] = "answered" => turn[t].fate = "delivered"
  /\ \A t \in Turns : client[t] = "idle" => turn[t].fate = "unborn"

-----------------------------------------------------------------------------
(***************************************************************************)
(* What the policy decides is an Action, and for an explanation in         *)
(* practice neither a refusal, a probe, a challenge nor a hint             *)
(* (decide_pedagogical_action).                                            *)
(***************************************************************************)
LEMMA DecisionShape ==
  ASSUME TypeOK, NEW t \in Turns, NEW a \in Decisions(t)
  PROVE  /\ a \in Action
         /\ turn[t].result.intent = "concept_explain"
              /\ turn[t].result.mode = "practice" =>
              a.type \in {"explain", "supportive_scaffold"}
<1> DEFINE r == turn[t]
<1>1. /\ r.result.intent \in IntentType
      /\ r.current.attempts \in Nat
      /\ r.current.level \in 0..MaxHintLadderLevel
  BY DEF TypeOK, TurnRecord, IntentResult
<1>2. PICK sig \in PossibleSignals(r.result.intent, r.current.attempts,
                      r.current.level, PossibleDues(r.result.intent),
                      {r.ghost}, {r.stage}) :
             sig.mode = r.result.mode /\ a = DecidePedagogicalAction(sig)
  BY DEF Decisions
<1>3. /\ sig.intent = r.result.intent
      /\ sig.attempts = r.current.attempts
      /\ sig.level = r.current.level
      /\ \E ph \in Phrases : sig.risk = EstimateSafetyResult(ph, sig.mode)
  BY <1>2 DEF PossibleSignals
<1> HIDE DEF r
<1>4. HardGate(sig) \in GateReason \cup {"open"}
  BY DEF HardGate, GateReason
<1>5. \/ \E why \in Reason, ty \in ActionType \ {"hint"} : a = Act(ty, why)
      \/ a = SocraticLadder(sig.attempts, sig.level) /\ sig.attempts >= 2
  <2>1. CASE HardGate(sig) # "open"
    BY <1>2, <1>4, <2>1 DEF DecidePedagogicalAction, ActionType, Reason
  <2>2. CASE HardGate(sig) = "open"
    BY <1>1, <1>2, <1>3, <2>2
    DEF DecidePedagogicalAction, RouteToIASupervisor, SocraticLadder,
        ScheduleNextReviewItem, ActionType, Reason
  <2>3. QED
    BY <2>1, <2>2
<1>6. a \in Action
  <2>1. CASE \E why \in Reason, ty \in ActionType \ {"hint"} : a = Act(ty, why)
    BY <2>1 DEF Act, Action, MaxHintLadderLevel
  <2>2. CASE a = SocraticLadder(sig.attempts, sig.level) /\ sig.attempts >= 2
    <3>1. a = [type |-> "hint",
               level |-> LesserOf(sig.level + 1, IF sig.attempts <= 3
                                                 THEN MidAttemptHintCap
                                                 ELSE MaxHintLadderLevel),
               reason |-> "solve_request_ladder"]
      BY <1>1, <1>3, <2>2 DEF SocraticLadder
    <3>2. a.level \in 0..MaxHintLadderLevel
      BY <1>1, <1>3, <3>1 DEF LesserOf, MidAttemptHintCap, MaxHintLadderLevel
    <3>3. QED
      BY <3>1, <3>2 DEF Action, ActionType, Reason
  <2>3. QED
    BY <1>5, <2>1, <2>2
<1>7. ASSUME r.result.intent = "concept_explain", r.result.mode = "practice"
      PROVE  a.type \in {"explain", "supportive_scaffold"}
  <2>1. sig.risk # "high" /\ sig.mode = "practice"
    BY <1>2, <1>3, <1>7 DEF EstimateSafetyResult
  <2>2. HardGate(sig) = "open"
    BY <2>1 DEF HardGate
  <2>3. QED
    BY <1>2, <1>3, <1>7, <2>2 DEF DecidePedagogicalAction, Act
<1>8. QED
  BY <1>6, <1>7 DEF r

-----------------------------------------------------------------------------
\* What is known of a turn and of the tables.
LEMMA Known ==
  ASSUME IInv, NEW t \in Turns
  PROVE  /\ turn[t] \in TurnRecord
         /\ Placed(turn[t]) /\ Cautious(turn[t]) /\ OnProblem(turn[t])
         /\ Decided(turn[t])
         /\ client[t] = "idle" => turn[t].fate = "unborn"
         /\ client[t] = "answered" => turn[t].fate = "delivered"
         /\ session \in [Sessions -> Ladder!ProblemSessionState \cup {NoRow}]
         /\ project \in [Projects -> IAStage \cup {NoStage}]
         /\ faults \in 0..MaxFaults
BY DEF IInv, TypeOK, TurnInv

ClientState == {"idle", "waiting", "answered", "error", "gone", "rejected"}

\* One turn's record is replaced, and at most its own client learns of it.
LEMMA Replaced ==
  ASSUME IInv, NEW t \in Turns, NEW r \in TurnRecord, TurnInv(r),
         turn' = [turn EXCEPT ![t] = r],
         NEW c \in ClientState, client' = [client EXCEPT ![t] = c],
         c = "answered" => r.fate = "delivered", c # "idle",
         faults' \in 0..MaxFaults,
         session' \in [Sessions -> Ladder!ProblemSessionState \cup {NoRow}],
         project' \in [Projects -> IAStage \cup {NoStage}]
  PROVE  IInv'
<1>1. /\ turn' \in [Turns -> TurnRecord]
      /\ turn'[t] = r
      /\ \A u \in Turns \ {t} : turn'[u] = turn[u]
  BY DEF IInv, TypeOK
<1>2. /\ client' \in [Turns -> ClientState]
      /\ client'[t] = c
      /\ \A u \in Turns \ {t} : client'[u] = client[u]
  BY DEF IInv, TypeOK, ClientState
<1>3. \A u \in Turns : TurnInv(turn'[u])
  BY <1>1, Zenon DEF IInv
<1>4. \A u \in Turns :
        /\ client'[u] = "answered" => turn'[u].fate = "delivered"
        /\ client'[u] = "idle" => turn'[u].fate = "unborn"
  BY <1>1, <1>2, Zenon DEF IInv
<1>5. TypeOK'
  BY <1>1, <1>2 DEF IInv, TypeOK, ClientState
<1>6. QED
  BY <1>3, <1>4, <1>5 DEF IInv

\* A turn goes on and nobody is told.
LEMMA Goes ==
  ASSUME IInv, NEW t \in Turns, NEW r \in TurnRecord, TurnInv(r),
         turn' = [turn EXCEPT ![t] = r], turn[t].fate = "running",
         UNCHANGED client, faults' \in 0..MaxFaults,
         session' \in [Sessions -> Ladder!ProblemSessionState \cup {NoRow}],
         project' \in [Projects -> IAStage \cup {NoStage}]
  PROVE  IInv'
<1>1. /\ client \in [Turns -> ClientState]
      /\ client[t] # "answered" /\ client[t] # "idle"
  BY DEF IInv, TypeOK, ClientState
<1> DEFINE c == client[t]
<1>2. c \in ClientState /\ client' = [client EXCEPT ![t] = c]
  BY <1>1
<1>3. (c = "answered" => r.fate = "delivered") /\ c # "idle"
  BY <1>1
<1> HIDE DEF c
<1>4. QED
  BY <1>2, <1>3, Replaced

\* What the decision rests on is kept.
LEMMA SameDecision ==
  ASSUME NEW q, NEW r, Cautious(q), OnProblem(q),
         q.pc \notin {"classifying", "reading_session"},
         r.sure = q.sure, r.result = q.result, r.action = q.action,
         r.request = q.request, r.current = q.current
  PROVE  Cautious(r) /\ OnProblem(r)
BY Zenon DEF Cautious, OnProblem

\* After the decision the same is kept of the guard and the stage.
LEMMA SameLate ==
  ASSUME NEW q, NEW r, Cautious(q), OnProblem(q), Decided(q),
         q.pc \in LateSteps, r.pc \in LateSteps \ {"disclosing"},
         r.sure = q.sure, r.result = q.result, r.action = q.action,
         r.request = q.request, r.current = q.current,
         r.ghost = q.ghost, r.stage = q.stage
  PROVE  Cautious(r) /\ OnProblem(r) /\ Decided(r)
<1>1. /\ q.pc \notin EarlySteps /\ r.pc \notin EarlySteps
      /\ q.pc \notin {"classifying", "reading_session"}
  BY DEF LateSteps, EarlySteps
<1>2. Cautious(r) /\ OnProblem(r)
  BY <1>1, SameDecision
<1>3. Decided(r)
  BY <1>1, Zenon DEF Decided
<1>4. QED
  BY <1>2, <1>3

-----------------------------------------------------------------------------
\* What a turn loads and what it saves are session records.
LEMMA LoadOk ==
  ASSUME IInv, NEW s \in Sessions, NEW p \in ProblemIds
  PROVE  /\ Ladder!LoadState(s, p) \in Ladder!ProblemSessionState
         /\ p \in {NoProblem, Ladder!LoadState(s, p).problem}
<1>1. /\ Ladder!Fresh(p) \in Ladder!ProblemSessionState
      /\ Ladder!Fresh(p).problem = p
  BY DEF Ladder!Fresh, Ladder!ProblemSessionState, Ladder!MaxHintLadderLevel,
         Ladder!ProblemIds, ProblemIds
<1>2. session[s] # NoRow => session[s] \in Ladder!ProblemSessionState
  BY DEF IInv, TypeOK
<1>3. QED
  BY <1>1, <1>2 DEF Ladder!LoadState

LEMMA AdvanceOk ==
  ASSUME NEW c \in Ladder!ProblemSessionState, NEW p \in ProblemIds, NEW i,
         NEW a \in Action
  PROVE  Ladder!AdvanceSessionState(c, p, i, a) \in Ladder!ProblemSessionState
<1> DEFINE base == IF p # NoProblem /\ p # c.problem
                   THEN Ladder!Fresh(p) ELSE c
           n == IF i = "solve_request" THEN base.attempts + 1 ELSE base.attempts
           l == IF a.type = "hint" THEN a.level ELSE base.level
<1>1. base \in Ladder!ProblemSessionState
  BY DEF Ladder!Fresh, Ladder!ProblemSessionState, Ladder!MaxHintLadderLevel,
         Ladder!ProblemIds, ProblemIds
<1>2. Ladder!AdvanceSessionState(c, p, i, a)
        = [base EXCEPT !.attempts = n, !.level = l]
  BY Zenon DEF Ladder!AdvanceSessionState
<1>3. n \in Nat /\ l \in 0..Ladder!MaxHintLadderLevel
  BY <1>1 DEF Ladder!ProblemSessionState, Action, MaxHintLadderLevel,
              Ladder!MaxHintLadderLevel
<1> HIDE DEF base, n, l
<1>4. [base EXCEPT !.attempts = n, !.level = l] \in Ladder!ProblemSessionState
  BY <1>1, <1>3 DEF Ladder!ProblemSessionState
<1>5. QED
  BY <1>2, <1>4

\* The record as TurnRecord and as the ladder name it.
LEMMA CurrentType ==
  Ladder!ProblemSessionState
    = [problem : ProblemIds, attempts : Nat, level : 0..MaxHintLadderLevel]
BY DEF Ladder!ProblemSessionState, Ladder!MaxHintLadderLevel,
       MaxHintLadderLevel, Ladder!ProblemIds, ProblemIds

-----------------------------------------------------------------------------
\* One lemma per step of a turn: the record it leaves is one, its fields, and
\* why the invariant holds of it.
LEMMA ClassifyOk ==
  ASSUME IInv, NEW t \in Turns, Classify(t)
  PROVE  IInv'
<1>1. PICK a \in Answers :
        turn' = [turn EXCEPT ![t].pc = "reading_session",
                             ![t].sure = Usable(a) /\ a.confident,
                             ![t].result = ClassifyIntent(a)]
  BY DEF Classify
<1> DEFINE q == turn[t]
           s == Usable(a) /\ a.confident
           c == ClassifyIntent(a)
           r == [q EXCEPT !.pc = "reading_session", !.sure = s, !.result = c]
<1>2. /\ q \in TurnRecord /\ Placed(q) /\ Decided(q)
      /\ q.pc = "classifying" /\ q.fate = "running"
  BY Known DEF Classify, At
<1>3. turn' = [turn EXCEPT ![t] = r]
  BY <1>1, Zenon
<1>4. s \in BOOLEAN /\ "reading_session" \in Steps
  BY FlowConstants DEF ClassifierAnswer, Usable, Steps
<1>5. c \in IntentResult
  BY FlowConstants DEF ClassifierAnswer, ClassifyIntent, SafeDefault,
                       IntentResult, IntentType, AssessmentMode
<1>6. ~s => c.intent = "concept_explain" /\ c.mode = "practice"
  BY FlowConstants DEF ClassifierAnswer, ClassifyIntent, SafeDefault,
                       IntentResult
<1> HIDE DEF q, s, c
<1>7. r \in TurnRecord
  BY <1>2, <1>4, <1>5, Zenon DEF TurnRecord
<1>8. /\ r.pc = "reading_session" /\ r.sure = s /\ r.result = c
      /\ r.fate = q.fate /\ r.action = q.action /\ r.path = q.path
      /\ r.wrote = q.wrote /\ r.dropped = q.dropped
      /\ r.diagnosis = q.diagnosis
      /\ r.ghost = q.ghost /\ r.stage = q.stage
  BY <1>2 DEF TurnRecord
<1> HIDE DEF r
<1>9. Placed(r)
  BY <1>2, <1>8 DEF Placed, UngradedSteps, EarlySteps
<1>10. Cautious(r)
  <2>1. q.action.type \in {"explain", "supportive_scaffold"}
    BY <1>2 DEF Placed, EarlySteps
  <2>2. QED
    BY <1>6, <1>8, <2>1, Zenon DEF Cautious
<1>11. OnProblem(r)
  BY <1>8 DEF OnProblem
<1>12. Decided(r)
  BY <1>2, <1>8 DEF Decided, LateSteps, EarlySteps
<1>13. QED
  BY <1>2, <1>3, <1>7, <1>9, <1>10, <1>11, <1>12, Known, Goes
  DEF TurnInv, Classify, q

LEMMA ReadSessionOk ==
  ASSUME IInv, NEW t \in Turns, ReadSession(t)
  PROVE  IInv'
<1> DEFINE q == turn[t]
           s == Ladder!LoadState(q.request.session, q.request.problem)
           pc == IF q.result.intent = "ia_ee_help"
                 THEN "reading_project" ELSE "deciding"
           r == [q EXCEPT !.pc = pc, !.current = s]
<1>1. /\ q \in TurnRecord /\ Placed(q) /\ Cautious(q)
      /\ Decided(q) /\ q.pc = "reading_session" /\ q.fate = "running"
  BY Known DEF ReadSession, At
<1>2. turn' = [turn EXCEPT ![t] = r]
  BY Zenon DEF ReadSession
<1>3. q.request.session \in Sessions /\ q.request.problem \in ProblemIds
  BY <1>1, FlowConstants DEF TurnRecord, Request
<1>4. /\ s \in [problem : ProblemIds, attempts : Nat,
                level : 0..MaxHintLadderLevel]
      /\ q.request.problem \in {NoProblem, s.problem}
  BY <1>3, LoadOk, CurrentType
<1>5. pc \in Steps
  BY DEF Steps
<1>6. /\ q.result.intent = "ia_ee_help" => pc = "reading_project"
      /\ q.result.intent # "ia_ee_help" => pc = "deciding"
  OBVIOUS
<1> HIDE DEF q, s, pc
<1>7. r \in TurnRecord
  BY <1>1, <1>4, <1>5, Zenon DEF TurnRecord
<1>8. /\ r.pc = pc /\ r.current = s
      /\ r.request = q.request /\ r.sure = q.sure /\ r.result = q.result
      /\ r.ghost = q.ghost /\ r.stage = q.stage
      /\ r.fate = q.fate /\ r.action = q.action /\ r.path = q.path
      /\ r.wrote = q.wrote /\ r.dropped = q.dropped
      /\ r.diagnosis = q.diagnosis
  BY <1>1 DEF TurnRecord
<1> HIDE DEF r
<1>9. Placed(r)
  BY <1>1, <1>6, <1>8 DEF Placed, UngradedSteps, EarlySteps, Base
<1>10. Cautious(r)
  BY <1>1, <1>8, Zenon DEF Cautious
<1>11. OnProblem(r)
  BY <1>4, <1>8 DEF OnProblem
<1>12. Decided(r)
  BY <1>1, <1>6, <1>8 DEF Decided, LateSteps, EarlySteps
<1>13. QED
  BY <1>1, <1>2, <1>7, <1>9, <1>10, <1>11, <1>12, Known, Goes
  DEF TurnInv, ReadSession, q

LEMMA ReadProjectOk ==
  ASSUME IInv, NEW t \in Turns, ReadProject(t)
  PROVE  IInv'
<1>1. PICK gh \in BOOLEAN, st \in TextStages \cup {NoStage} :
        turn' = [turn EXCEPT ![t].pc = "saving_project", ![t].ghost = gh,
                             ![t].named = st,
                             ![t].found = project[turn[t].request.problem]]
  BY DEF ReadProject
<1> DEFINE q == turn[t]
           f == project[q.request.problem]
           r == [q EXCEPT !.pc = "saving_project", !.ghost = gh, !.named = st,
                          !.found = f]
<1>2. /\ q \in TurnRecord /\ Placed(q) /\ Cautious(q) /\ OnProblem(q)
      /\ Decided(q) /\ q.pc = "reading_project" /\ q.fate = "running"
  BY Known DEF ReadProject, At
<1>3. turn' = [turn EXCEPT ![t] = r]
  BY <1>1, Zenon
<1>4. f \in IAStage \cup {NoStage}
  BY <1>2, Known DEF TurnRecord, Request, Projects
<1>5. st \in IAStage \cup {NoStage} /\ "saving_project" \in Steps
  BY FlowConstants DEF Steps
<1> HIDE DEF q, f
<1>6. r \in TurnRecord
  BY <1>2, <1>4, <1>5, Zenon DEF TurnRecord
<1>7. /\ r.pc = "saving_project" /\ r.current = q.current
      /\ r.request = q.request /\ r.sure = q.sure /\ r.result = q.result
      /\ r.fate = q.fate /\ r.action = q.action /\ r.path = q.path
      /\ r.wrote = q.wrote /\ r.dropped = q.dropped
      /\ r.diagnosis = q.diagnosis /\ r.stage = q.stage
  BY <1>2 DEF TurnRecord
<1> HIDE DEF r
<1>8. Placed(r)
  BY <1>2, <1>7 DEF Placed, UngradedSteps, EarlySteps
<1>9. Cautious(r) /\ OnProblem(r)
  BY <1>2, <1>7, SameDecision
<1>10. Decided(r)
  BY <1>2, <1>7 DEF Decided, Placed, LateSteps, EarlySteps
<1>11. QED
  BY <1>2, <1>3, <1>6, <1>8, <1>9, <1>10, Known, Goes
  DEF TurnInv, ReadProject, q

LEMMA SaveProjectOk ==
  ASSUME IInv, NEW t \in Turns, SaveProject(t)
  PROVE  IInv'
<1> DEFINE q == turn[t]
           st == AdvanceStage(q.found, q.named)
           w == q.wrote \cup {"project"}
           r == [q EXCEPT !.pc = "deciding", !.stage = st, !.wrote = w]
<1>1. /\ q \in TurnRecord /\ Placed(q) /\ Cautious(q) /\ OnProblem(q)
      /\ Decided(q) /\ q.pc = "saving_project" /\ q.fate = "running"
  BY Known DEF SaveProject, At
<1>2. turn' = [turn EXCEPT ![t] = r]
  BY Zenon DEF SaveProject
<1>3. st \in IAStage
  BY <1>1 DEF TurnRecord, AdvanceStage, IAStage
<1>4. w \in SUBSET Tables /\ "deciding" \in Steps
  BY <1>1 DEF TurnRecord, Tables, Steps
<1>5. project' \in [Projects -> IAStage \cup {NoStage}]
  BY <1>3, Known DEF SaveProject
<1>6. w = q.wrote \cup {"project"}
  OBVIOUS
<1> HIDE DEF q, st, w
<1>7. r \in TurnRecord
  BY <1>1, <1>3, <1>4, Zenon DEF TurnRecord
<1>8. /\ r.pc = "deciding" /\ r.wrote = w /\ r.current = q.current
      /\ r.request = q.request /\ r.sure = q.sure /\ r.result = q.result
      /\ r.fate = q.fate /\ r.action = q.action /\ r.path = q.path
      /\ r.dropped = q.dropped /\ r.diagnosis = q.diagnosis
      /\ r.stage = st
  BY <1>1 DEF TurnRecord
<1> HIDE DEF r
<1>9. Placed(r)
  BY <1>1, <1>6, <1>8 DEF Placed, UngradedSteps, EarlySteps, Base
<1>10. Cautious(r) /\ OnProblem(r)
  BY <1>1, <1>8, SameDecision
<1>11. Decided(r)
  BY <1>1, <1>3, <1>8 DEF Decided, Placed, LateSteps, EarlySteps
<1>12. QED
  BY <1>1, <1>2, <1>5, <1>7, <1>9, <1>10, <1>11, Known, Goes
  DEF TurnInv, SaveProject, q

\* Where Route leads, and what has to be true there.
LEMMA RouteOk ==
  ASSUME NEW q \in TurnRecord, NEW a \in Action
  PROVE  /\ Route(q, a) \in {"refusing", "tutoring", "ingesting", "grading"}
         /\ Route(q, a) = "refusing" <=> a.type = "refuse"
         /\ Route(q, a) \in {"ingesting", "grading"} =>
              q.result.intent = "check_work"
BY DEF Route

\* A decision of a turn is one of the policy's for the record it has read, and
\* an ia_ee_help turn's looks at no ladder.
LEMMA DecisionPossible ==
  ASSUME IInv, NEW t \in Turns, turn[t].pc = "deciding", NEW a \in Decisions(t)
  PROVE  /\ a \in PossibleDecisions(turn[t].result.intent,
                                    turn[t].current.attempts,
                                    turn[t].current.level)
         /\ turn[t].result.intent = "ia_ee_help" =>
              a \in IADecisions(turn[t].ghost, turn[t].stage)
<1> DEFINE r == turn[t]
           i == r.result.intent
<1>1. Decided(r) /\ r.ghost \in BOOLEAN /\ i \in IntentType
  BY Known DEF TurnRecord, IntentResult
<1>2. PICK sig \in PossibleSignals(i, r.current.attempts, r.current.level,
                                  PossibleDues(i), {r.ghost}, {r.stage}) :
             a = DecidePedagogicalAction(sig)
  BY DEF Decisions
<1>3. r.ghost \in PossibleGhosts(i) /\ r.stage \in PossibleStages(i)
  <2>1. r.pc \notin EarlySteps
    BY DEF EarlySteps
  <2>2. CASE i = "ia_ee_help"
    BY <1>1, <2>1, <2>2 DEF Decided, PossibleGhosts, PossibleStages
  <2>3. CASE i # "ia_ee_help"
    BY <1>1, <2>3 DEF Decided, PossibleGhosts, PossibleStages
  <2>4. QED
    BY <2>2, <2>3
<1> HIDE DEF r, i
<1>4. PICK m \in AssessmentMode :
        sig \in [intent : {i}, highMastery : BOOLEAN, mode : {m},
                 risk : {EstimateSafetyResult(ph, m) : ph \in Phrases},
                 attempts : {r.current.attempts}, frustrated : BOOLEAN,
                 level : {r.current.level}, dueReview : PossibleDues(i),
                 ghostwriting : {r.ghost}, stage : {r.stage}]
  BY <1>2 DEF PossibleSignals
<1>5. a \in PossibleDecisions(i, r.current.attempts, r.current.level)
  <2>1. sig \in [intent : {i}, highMastery : BOOLEAN, mode : {m},
                 risk : {EstimateSafetyResult(ph, m) : ph \in Phrases},
                 attempts : {r.current.attempts}, frustrated : BOOLEAN,
                 level : {r.current.level}, dueReview : PossibleDues(i),
                 ghostwriting : PossibleGhosts(i), stage : PossibleStages(i)]
    BY <1>3, <1>4
  <2>2. QED
    BY <1>2, <2>1 DEF PossibleDecisions, PossibleSignals
<1>6. ASSUME i = "ia_ee_help"
      PROVE  a \in IADecisions(r.ghost, r.stage)
  <2> DEFINE x == [intent |-> i, highMastery |-> sig.highMastery, mode |-> m,
                   risk |-> sig.risk, attempts |-> 0,
                   frustrated |-> sig.frustrated, level |-> 0,
                   dueReview |-> FALSE, ghostwriting |-> r.ghost,
                   stage |-> r.stage]
  <2>1. x \in PossibleSignals("ia_ee_help", 0, 0, {FALSE}, {r.ghost}, {r.stage})
    <3>1. x \in [intent : {i}, highMastery : BOOLEAN, mode : {m},
                 risk : {EstimateSafetyResult(ph, m) : ph \in Phrases},
                 attempts : {0}, frustrated : BOOLEAN, level : {0},
                 dueReview : {FALSE}, ghostwriting : {r.ghost},
                 stage : {r.stage}]
      BY <1>4
    <3>2. QED
      BY <1>6, <3>1 DEF PossibleSignals
  <2>2. /\ sig.intent = "ia_ee_help" /\ x.intent = "ia_ee_help"
        /\ sig.risk = x.risk /\ sig.mode = x.mode /\ sig.stage = x.stage
    BY <1>4, <1>6
  <2>3. sig.ghostwriting = x.ghostwriting
    BY <1>4, Zenon
  <2> HIDE DEF x
  <2>4. HardGate(sig) = HardGate(x)
    BY <2>2, Zenon DEF HardGate
  <2>5. RouteToIASupervisor(sig) = RouteToIASupervisor(x)
    BY <2>2, <2>3, Zenon DEF RouteToIASupervisor
  <2>6. DecidePedagogicalAction(sig) = DecidePedagogicalAction(x)
    BY <2>2, <2>4, <2>5, Zenon DEF DecidePedagogicalAction
  <2>7. QED
    BY <1>2, <2>1, <2>6 DEF IADecisions
<1>7. QED
  BY <1>5, <1>6 DEF r, i

LEMMA DecideOk ==
  ASSUME IInv, NEW t \in Turns, Decide(t)
  PROVE  IInv'
<1>1. PICK a \in Decisions(t) :
        turn' = [turn EXCEPT
                   ![t].pc = IF turn[t].result.intent = "ia_ee_help"
                             THEN "disclosing" ELSE Route(turn[t], a),
                   ![t].action = a]
  BY DEF Decide
<1> DEFINE q == turn[t]
           pc == IF q.result.intent = "ia_ee_help"
                 THEN "disclosing" ELSE Route(q, a)
           r == [q EXCEPT !.pc = pc, !.action = a]
<1>2. /\ q \in TurnRecord /\ Placed(q) /\ Cautious(q) /\ OnProblem(q)
      /\ Decided(q) /\ q.pc = "deciding" /\ q.fate = "running"
  BY Known DEF Decide, At
<1>3. turn' = [turn EXCEPT ![t] = r]
  BY <1>1, Zenon
<1>4. /\ a \in Action
      /\ q.result.intent = "concept_explain" /\ q.result.mode = "practice" =>
           a.type \in {"explain", "supportive_scaffold"}
  BY DecisionShape DEF IInv
<1>5. /\ q.result.intent = "ia_ee_help" => pc = "disclosing"
      /\ q.result.intent # "ia_ee_help" =>
           /\ pc \in {"refusing", "tutoring", "ingesting", "grading"}
           /\ pc = "refusing" <=> a.type = "refuse"
           /\ pc \in {"ingesting", "grading"} => q.result.intent = "check_work"
  BY <1>2, <1>4, RouteOk
<1>6. pc \in Steps
  BY <1>5 DEF Steps
<1> HIDE DEF q, pc
<1>7. r \in TurnRecord
  BY <1>2, <1>4, <1>6, Zenon DEF TurnRecord
<1>8. /\ r.pc = pc /\ r.action = a /\ r.current = q.current
      /\ r.request = q.request /\ r.sure = q.sure /\ r.result = q.result
      /\ r.ghost = q.ghost /\ r.stage = q.stage
      /\ r.fate = q.fate /\ r.path = q.path /\ r.wrote = q.wrote
      /\ r.dropped = q.dropped /\ r.diagnosis = q.diagnosis
  BY <1>2 DEF TurnRecord
<1> HIDE DEF r
<1>9. Placed(r)
  BY <1>2, <1>5, <1>8 DEF Placed, UngradedSteps, EarlySteps, Base
<1>10. Cautious(r)
  BY <1>2, <1>4, <1>8, Zenon DEF Cautious
<1>11. OnProblem(r)
  BY <1>2, <1>8 DEF OnProblem
<1>12. Decided(r)
  <2>1. /\ a \in PossibleDecisions(q.result.intent, q.current.attempts,
                                   q.current.level)
        /\ q.result.intent = "ia_ee_help" => a \in IADecisions(q.ghost, q.stage)
    BY <1>2, DecisionPossible DEF q
  <2>2. /\ q.pc \notin EarlySteps /\ r.pc \notin EarlySteps
        /\ r.pc = "disclosing" => q.result.intent = "ia_ee_help"
    BY <1>2, <1>5, <1>8 DEF EarlySteps
  <2>3. QED
    BY <1>2, <1>8, <2>1, <2>2, Zenon DEF Decided
<1>13. QED
  BY <1>2, <1>3, <1>7, <1>9, <1>10, <1>11, <1>12, Known, Goes
  DEF TurnInv, Decide, q

LEMMA DiscloseOk ==
  ASSUME IInv, NEW t \in Turns, Disclose(t)
  PROVE  IInv'
<1> DEFINE q == turn[t]
           pc == Route(q, q.action)
           w == q.wrote \cup {"disclosure"}
           r == [q EXCEPT !.pc = pc, !.wrote = w]
<1>1. /\ q \in TurnRecord /\ Placed(q) /\ Cautious(q) /\ OnProblem(q)
      /\ Decided(q) /\ q.pc = "disclosing" /\ q.fate = "running"
  BY Known DEF Disclose, At
<1>2. turn' = [turn EXCEPT ![t] = r]
  BY Zenon DEF Disclose
<1>3. /\ pc \in {"refusing", "tutoring"}
      /\ pc = "refusing" <=> q.action.type = "refuse"
  <2>1. q.action \in Action /\ q.result.intent = "ia_ee_help"
    BY <1>1 DEF TurnRecord, Placed
  <2>2. QED
    BY <1>1, <2>1, RouteOk
<1>4. pc \in Steps /\ w \in SUBSET Tables
  BY <1>1, <1>3 DEF TurnRecord, Tables, Steps
<1>5. w = q.wrote \cup {"disclosure"}
  OBVIOUS
<1> HIDE DEF q, pc, w
<1>6. r \in TurnRecord
  BY <1>1, <1>4, Zenon DEF TurnRecord
<1>7. /\ r.pc = pc /\ r.wrote = w /\ r.action = q.action
      /\ r.current = q.current /\ r.request = q.request /\ r.sure = q.sure
      /\ r.ghost = q.ghost /\ r.stage = q.stage
      /\ r.result = q.result /\ r.fate = q.fate /\ r.path = q.path
  BY <1>1 DEF TurnRecord
<1> HIDE DEF r
<1>8. Placed(r)
  BY <1>1, <1>3, <1>5, <1>7 DEF Placed, UngradedSteps, EarlySteps, Base
<1>9. Cautious(r) /\ OnProblem(r) /\ Decided(r)
  <2>1. q.pc \in LateSteps /\ r.pc \in LateSteps \ {"disclosing"}
    BY <1>1, <1>3, <1>7 DEF LateSteps, Steps, EarlySteps
  <2>2. QED
    BY <1>1, <1>7, <2>1, SameLate
<1>10. QED
  BY <1>1, <1>2, <1>6, <1>8, <1>9, Known, Goes DEF TurnInv, Disclose, q

-----------------------------------------------------------------------------
\* What a grading makes due rests on four fields; none is a session record.
LEMMA SameDue ==
  ASSUME NEW q, NEW r, r.result = q.result, r.request = q.request,
         r.mark = q.mark, r.diagnosis = q.diagnosis
  PROVE  /\ StagesOf(r, r.mark) = StagesOf(q, q.mark)
         /\ DueOnGrade(r) = DueOnGrade(q)
BY Zenon DEF StagesOf, DueOnGrade, Writes

LEMMA DueTables ==
  ASSUME NEW r
  PROVE  /\ StagesOf(r, r.mark) \subseteq GradeTables
         /\ DueOnGrade(r) \subseteq StagesOf(r, r.mark)
BY DEF StagesOf, DueOnGrade, GradeTables

LEMMA IngestOk ==
  ASSUME IInv, NEW t \in Turns, Ingest(t)
  PROVE  IInv'
<1> DEFINE q == turn[t]
<1>1. /\ q \in TurnRecord /\ Placed(q) /\ Cautious(q) /\ OnProblem(q)
      /\ Decided(q) /\ q.pc = "ingesting" /\ q.fate = "running"
  BY Known DEF Ingest, At
<1>2. /\ "grading" \in Steps /\ "saving" \in Steps /\ "confirmation" \in Path
      /\ UNCHANGED <<session, project, client, faults>>
  BY DEF Steps, Path, Ingest
<1>3. CASE turn' = [turn EXCEPT ![t].pc = "grading"]
  <2> DEFINE r == [q EXCEPT !.pc = "grading"]
  <2>1. turn' = [turn EXCEPT ![t] = r]
    BY <1>3, Zenon
  <2> HIDE DEF q
  <2>2. r \in TurnRecord
    BY <1>1, <1>2, Zenon DEF TurnRecord
  <2>3. /\ r.pc = "grading" /\ r.wrote = q.wrote /\ r.action = q.action
        /\ r.current = q.current /\ r.request = q.request /\ r.sure = q.sure
        /\ r.ghost = q.ghost /\ r.stage = q.stage
        /\ r.result = q.result /\ r.fate = q.fate /\ r.path = q.path
        /\ r.dropped = q.dropped /\ r.diagnosis = q.diagnosis
    BY <1>1 DEF TurnRecord
  <2> HIDE DEF r
  <2>4. Placed(r)
    BY <1>1, <2>3 DEF Placed, UngradedSteps, EarlySteps
  <2>5. Cautious(r) /\ OnProblem(r) /\ Decided(r)
    <3>1. q.pc \in LateSteps /\ r.pc \in LateSteps \ {"disclosing"}
      BY <1>1, <2>3 DEF LateSteps, Steps, EarlySteps
    <3>2. QED
      BY <1>1, <2>3, <3>1, SameLate
  <2>6. QED
    BY <1>1, <1>2, <2>1, <2>2, <2>4, <2>5, Known, Goes DEF TurnInv, q
<1>4. CASE turn' = [turn EXCEPT ![t].pc = "saving", ![t].path = "confirmation"]
  <2> DEFINE r == [q EXCEPT !.pc = "saving", !.path = "confirmation"]
  <2>1. turn' = [turn EXCEPT ![t] = r]
    BY <1>4, Zenon
  <2> HIDE DEF q
  <2>2. r \in TurnRecord
    BY <1>1, <1>2, Zenon DEF TurnRecord
  <2>3. /\ r.pc = "saving" /\ r.path = "confirmation" /\ r.action = q.action
        /\ r.current = q.current /\ r.request = q.request /\ r.sure = q.sure
        /\ r.ghost = q.ghost /\ r.stage = q.stage
        /\ r.result = q.result /\ r.fate = q.fate /\ r.wrote = q.wrote
    BY <1>1 DEF TurnRecord
  <2> HIDE DEF r
  <2>4. Complete(r) = {"session"}
    BY <1>1, <2>3 DEF Complete, Base, Placed
  <2>5. Placed(r)
    BY <1>1, <2>3, <2>4 DEF Placed, UngradedSteps, EarlySteps
  <2>6. Cautious(r) /\ OnProblem(r) /\ Decided(r)
    <3>1. q.pc \in LateSteps /\ r.pc \in LateSteps \ {"disclosing"}
      BY <1>1, <2>3 DEF LateSteps, Steps, EarlySteps
    <3>2. QED
      BY <1>1, <2>3, <3>1, SameLate
  <2>7. QED
    BY <1>1, <1>2, <2>1, <2>2, <2>5, <2>6, Known, Goes DEF TurnInv, q
<1>5. QED
  BY <1>3, <1>4 DEF Ingest

LEMMA GradeOk ==
  ASSUME IInv, NEW t \in Turns, Grade(t)
  PROVE  IInv'
<1> DEFINE q == turn[t]
<1>1. /\ q \in TurnRecord /\ Placed(q) /\ Cautious(q) /\ OnProblem(q)
      /\ Decided(q) /\ q.pc = "grading" /\ q.fate = "running"
  BY Known DEF Grade, At
<1>2. /\ "recording" \in Steps /\ "tutoring" \in Steps
      /\ UNCHANGED <<session, project, client, faults>>
  BY DEF Steps, Grade
<1>3. CASE turn' = [turn EXCEPT ![t].pc = "tutoring"]
  <2> DEFINE r == [q EXCEPT !.pc = "tutoring"]
  <2>1. turn' = [turn EXCEPT ![t] = r]
    BY <1>3, Zenon
  <2> HIDE DEF q
  <2>2. r \in TurnRecord
    BY <1>1, <1>2, Zenon DEF TurnRecord
  <2>3. /\ r.pc = "tutoring" /\ r.wrote = q.wrote /\ r.action = q.action
        /\ r.current = q.current /\ r.request = q.request /\ r.sure = q.sure
        /\ r.ghost = q.ghost /\ r.stage = q.stage
        /\ r.result = q.result /\ r.fate = q.fate /\ r.path = q.path
    BY <1>1 DEF TurnRecord
  <2> HIDE DEF r
  <2>4. Placed(r)
    BY <1>1, <2>3 DEF Placed, UngradedSteps, EarlySteps, Base
  <2>5. Cautious(r) /\ OnProblem(r) /\ Decided(r)
    <3>1. q.pc \in LateSteps /\ r.pc \in LateSteps \ {"disclosing"}
      BY <1>1, <2>3 DEF LateSteps, Steps, EarlySteps
    <3>2. QED
      BY <1>1, <2>3, <3>1, SameLate
  <2>6. QED
    BY <1>1, <1>2, <2>1, <2>2, <2>4, <2>5, Known, Goes DEF TurnInv, q
<1>4. ASSUME NEW m \in Marks,
             turn' = [turn EXCEPT ![t].pc = "recording", ![t].mark = m,
                                  ![t].todo = StagesOf(turn[t], m)]
      PROVE  IInv'
  <2> DEFINE s == StagesOf(q, m)
             r == [q EXCEPT !.pc = "recording", !.mark = m, !.todo = s]
  <2>1. turn' = [turn EXCEPT ![t] = r]
    BY <1>4, Zenon
  <2>2. m \in Mark /\ s \in SUBSET GradeTables
    BY FlowConstants DEF StagesOf, GradeTables
  <2> HIDE DEF q, s
  <2>3. r \in TurnRecord
    BY <1>1, <1>2, <2>2, Zenon DEF TurnRecord
  <2>4. /\ r.pc = "recording" /\ r.mark = m /\ r.todo = s
        /\ r.wrote = q.wrote /\ r.action = q.action
        /\ r.current = q.current /\ r.request = q.request /\ r.sure = q.sure
        /\ r.ghost = q.ghost /\ r.stage = q.stage
        /\ r.result = q.result /\ r.fate = q.fate /\ r.path = q.path
        /\ r.dropped = q.dropped /\ r.diagnosis = q.diagnosis
    BY <1>1 DEF TurnRecord
  <2> HIDE DEF r
  <2>5. StagesOf(r, r.mark) = s
    BY <2>4, Zenon DEF StagesOf, s
  <2>6. DueOnGrade(r) \subseteq s
    BY <2>5, DueTables
  <2>7. Placed(r)
    BY <1>1, <2>4, <2>5, <2>6 DEF Placed, UngradedSteps, EarlySteps
  <2>8. Cautious(r) /\ OnProblem(r) /\ Decided(r)
    <3>1. q.pc \in LateSteps /\ r.pc \in LateSteps \ {"disclosing"}
      BY <1>1, <2>4 DEF LateSteps, Steps, EarlySteps
    <3>2. QED
      BY <1>1, <2>4, <3>1, SameLate
  <2>9. QED
    BY <1>1, <1>2, <2>1, <2>3, <2>7, <2>8, Known, Goes DEF TurnInv, q
<1>5. QED
  BY <1>3, <1>4 DEF Grade

\* A stage of run_plan has ended: it wrote what was due of it, or is dropped.
LEMMA RecordingKept ==
  ASSUME NEW q \in TurnRecord, Placed(q), Cautious(q), OnProblem(q),
         Decided(q),
         q.pc = "recording", q.fate = "running",
         NEW r, NEW b \in q.todo,
         r.pc = "recording", r.fate = "running", r.path = q.path,
         r.sure = q.sure, r.result = q.result, r.action = q.action,
         r.request = q.request, r.current = q.current, r.mark = q.mark,
         r.ghost = q.ghost, r.stage = q.stage,
         r.todo = q.todo \ {b},
         \/ /\ r.diagnosis = q.diagnosis /\ r.dropped = q.dropped \cup {b}
            /\ r.wrote = q.wrote
         \/ /\ r.diagnosis = q.diagnosis /\ r.dropped = q.dropped
            /\ b # "misconception" /\ Writes(q, b) /\ r.wrote = q.wrote \cup {b}
         \/ /\ r.diagnosis = q.diagnosis /\ r.dropped = q.dropped
            /\ b # "misconception" /\ ~Writes(q, b) /\ r.wrote = q.wrote
         \/ /\ b = "misconception" /\ r.dropped = q.dropped
            /\ r.diagnosis = "sure" /\ r.wrote = q.wrote \cup {b}
         \/ /\ b = "misconception" /\ r.dropped = q.dropped
            /\ r.diagnosis # "sure" /\ r.wrote = q.wrote
  PROVE  TurnInv(r)
<1>1. /\ q.todo \subseteq StagesOf(q, q.mark) \ q.dropped
      /\ q.wrote = DueOnGrade(q) \ (q.todo \cup q.dropped)
      /\ "misconception" \in q.todo => q.diagnosis = "none"
      /\ q.path = "none" /\ q.result.intent = "check_work"
  BY DEF Placed
<1>2. /\ StagesOf(r, r.mark) = StagesOf(q, q.mark)
      /\ \A c \in StagesOf(q, q.mark) : Writes(r, c) <=> Writes(q, c)
  BY Zenon DEF StagesOf, Writes
<1>3. b \in StagesOf(q, q.mark) /\ b \notin q.dropped /\ b \notin q.wrote
  BY <1>1
<1>4. \A c : c \in DueOnGrade(q) <=>
         /\ c \in StagesOf(q, q.mark) /\ Writes(q, c)
         /\ c = "misconception" => q.diagnosis = "sure"
  BY DEF DueOnGrade
<1>5. \A c : c \in DueOnGrade(r) <=>
         /\ c \in StagesOf(q, q.mark) /\ Writes(q, c)
         /\ c = "misconception" => r.diagnosis = "sure"
  BY <1>2 DEF DueOnGrade
<1>6. Writes(q, "misconception")
  BY DEF Writes
<1>7. r.wrote = DueOnGrade(r) \ (r.todo \cup r.dropped)
  BY <1>1, <1>3, <1>4, <1>5, <1>6
<1>8. r.todo \subseteq StagesOf(r, r.mark) \ r.dropped
  BY <1>1, <1>2
<1>9. Placed(r)
  BY <1>1, <1>7, <1>8 DEF Placed, UngradedSteps, EarlySteps
<1>10. QED
  <2>1. q.pc \in LateSteps /\ r.pc \in LateSteps \ {"disclosing"}
    BY DEF LateSteps, Steps, EarlySteps
  <2>2. QED
    BY <1>9, <2>1, SameLate DEF TurnInv

LEMMA StageEndsOk ==
  ASSUME IInv, NEW t \in Turns, NEW b \in GradeTables, StageEnds(t, b)
  PROVE  IInv'
<1> DEFINE q == turn[t]
           d == q.todo \ {b}
           w == IF Writes(q, b) THEN q.wrote \cup {b} ELSE q.wrote
           r == [q EXCEPT !.todo = d, !.wrote = w]
<1>1. /\ q \in TurnRecord /\ Placed(q) /\ Cautious(q) /\ OnProblem(q)
      /\ Decided(q) /\ q.pc = "recording" /\ q.fate = "running"
      /\ b \in q.todo /\ b # "misconception"
      /\ UNCHANGED <<session, project, client, faults>>
  BY Known DEF StageEnds, At
<1>2. turn' = [turn EXCEPT ![t] = r]
  BY Zenon DEF StageEnds
<1>3. d \in SUBSET GradeTables /\ w \in SUBSET Tables
  BY <1>1 DEF TurnRecord, GradeTables, Tables
<1>4. /\ d = q.todo \ {b}
      /\ Writes(q, b) => w = q.wrote \cup {b}
      /\ ~Writes(q, b) => w = q.wrote
  OBVIOUS
<1> HIDE DEF q, d, w
<1>5. r \in TurnRecord
  BY <1>1, <1>3, Zenon DEF TurnRecord
<1>6. /\ r.todo = d /\ r.wrote = w /\ r.pc = q.pc /\ r.action = q.action
      /\ r.current = q.current /\ r.request = q.request /\ r.sure = q.sure
      /\ r.ghost = q.ghost /\ r.stage = q.stage
      /\ r.result = q.result /\ r.fate = q.fate /\ r.path = q.path
      /\ r.dropped = q.dropped /\ r.diagnosis = q.diagnosis
      /\ r.mark = q.mark
  BY <1>1 DEF TurnRecord
<1> HIDE DEF r
<1>7. TurnInv(r)
  <2>1. CASE Writes(q, b)
    BY <1>1, <1>4, <1>6, <2>1, RecordingKept
  <2>2. CASE ~Writes(q, b)
    BY <1>1, <1>4, <1>6, <2>2, RecordingKept
  <2>3. QED
    BY <2>1, <2>2
<1>8. QED
  BY <1>1, <1>2, <1>5, <1>7, Known, Goes DEF q

LEMMA StageRaisesOk ==
  ASSUME IInv, NEW t \in Turns, NEW b \in GradeTables,
         At(t, "recording"), b \in turn[t].todo,
         turn' = [turn EXCEPT ![t].todo = @ \ {b}, ![t].dropped = @ \cup {b}],
         UNCHANGED <<session, project, client>>, faults' \in 0..MaxFaults
  PROVE  IInv'
<1> DEFINE q == turn[t]
           d == q.todo \ {b}
           l == q.dropped \cup {b}
           r == [q EXCEPT !.todo = d, !.dropped = l]
<1>1. /\ q \in TurnRecord /\ Placed(q) /\ Cautious(q) /\ OnProblem(q)
      /\ Decided(q) /\ q.pc = "recording" /\ q.fate = "running" /\ b \in q.todo
  BY Known DEF At
<1>2. turn' = [turn EXCEPT ![t] = r]
  BY Zenon
<1>3. d \in SUBSET GradeTables /\ l \in SUBSET GradeTables
  BY <1>1 DEF TurnRecord
<1>4. d = q.todo \ {b} /\ l = q.dropped \cup {b}
  OBVIOUS
<1> HIDE DEF q, d, l
<1>5. r \in TurnRecord
  BY <1>1, <1>3, Zenon DEF TurnRecord
<1>6. /\ r.todo = d /\ r.dropped = l /\ r.pc = q.pc /\ r.action = q.action
      /\ r.current = q.current /\ r.request = q.request /\ r.sure = q.sure
      /\ r.ghost = q.ghost /\ r.stage = q.stage
      /\ r.result = q.result /\ r.fate = q.fate /\ r.path = q.path
      /\ r.wrote = q.wrote /\ r.diagnosis = q.diagnosis /\ r.mark = q.mark
  BY <1>1 DEF TurnRecord
<1> HIDE DEF r
<1>7. TurnInv(r)
  BY <1>1, <1>4, <1>6, RecordingKept
<1>8. QED
  BY <1>1, <1>2, <1>5, <1>7, Known, Goes DEF q

LEMMA DiagnoseOk ==
  ASSUME IInv, NEW t \in Turns, Diagnose(t)
  PROVE  IInv'
<1>1. /\ At(t, "recording") /\ "misconception" \in turn[t].todo
      /\ UNCHANGED <<session, project, client, faults>>
      /\ "misconception" \in GradeTables
  BY DEF Diagnose, GradeTables
<1>2. ASSUME NEW v \in {"none", "unsure", "sure"},
             turn' = [turn EXCEPT ![t].todo = @ \ {"misconception"},
                                  ![t].diagnosis = v,
                                  ![t].wrote = IF v = "sure"
                                               THEN @ \cup {"misconception"}
                                               ELSE @]
      PROVE  IInv'
  <2> DEFINE q == turn[t]
             d == q.todo \ {"misconception"}
             w == IF v = "sure" THEN q.wrote \cup {"misconception"} ELSE q.wrote
             r == [q EXCEPT !.todo = d, !.diagnosis = v, !.wrote = w]
  <2>1. /\ q \in TurnRecord /\ Placed(q) /\ Cautious(q) /\ OnProblem(q)
        /\ Decided(q) /\ q.pc = "recording" /\ q.fate = "running"
        /\ "misconception" \in q.todo
    BY <1>1, Known DEF At
  <2>2. turn' = [turn EXCEPT ![t] = r]
    BY <1>2, Zenon
  <2>3. d \in SUBSET GradeTables /\ w \in SUBSET Tables
    BY <2>1 DEF TurnRecord, GradeTables, Tables
  <2>4. /\ d = q.todo \ {"misconception"}
        /\ v = "sure" => w = q.wrote \cup {"misconception"}
        /\ v # "sure" => w = q.wrote
    OBVIOUS
  <2> HIDE DEF q, d, w
  <2>5. r \in TurnRecord
    BY <1>2, <2>1, <2>3, Zenon DEF TurnRecord
  <2>6. /\ r.todo = d /\ r.wrote = w /\ r.diagnosis = v /\ r.pc = q.pc
        /\ r.current = q.current /\ r.request = q.request /\ r.sure = q.sure
        /\ r.ghost = q.ghost /\ r.stage = q.stage
        /\ r.result = q.result /\ r.fate = q.fate /\ r.path = q.path
        /\ r.dropped = q.dropped /\ r.action = q.action /\ r.mark = q.mark
    BY <2>1 DEF TurnRecord
  <2> HIDE DEF r
  <2>7. TurnInv(r)
    BY <2>1, <2>4, <2>6, RecordingKept
  <2>8. QED
    BY <1>1, <2>1, <2>2, <2>5, <2>7, Known, Goes DEF q
<1>3. CASE turn' = [turn EXCEPT ![t].todo = @ \ {"misconception"},
                                ![t].dropped = @ \cup {"misconception"}]
  BY <1>1, <1>3, Known, StageRaisesOk
<1>4. QED
  BY <1>2, <1>3 DEF Diagnose

LEMMA RespondOk ==
  ASSUME IInv, NEW t \in Turns, Respond(t)
  PROVE  IInv'
<1> DEFINE q == turn[t]
           r == [q EXCEPT !.pc = "saving", !.path = "graded"]
<1>1. /\ q \in TurnRecord /\ Placed(q) /\ Cautious(q) /\ OnProblem(q)
      /\ Decided(q) /\ q.pc = "recording" /\ q.fate = "running" /\ q.todo = {}
  BY Known DEF Respond, At
<1>2. turn' = [turn EXCEPT ![t] = r]
  BY Zenon DEF Respond
<1>3. "saving" \in Steps /\ "graded" \in Path
  BY DEF Steps, Path
<1> HIDE DEF q
<1>4. r \in TurnRecord
  BY <1>1, <1>3, Zenon DEF TurnRecord
<1>5. /\ r.pc = "saving" /\ r.path = "graded" /\ r.action = q.action
      /\ r.current = q.current /\ r.request = q.request /\ r.sure = q.sure
      /\ r.ghost = q.ghost /\ r.stage = q.stage
      /\ r.result = q.result /\ r.fate = q.fate /\ r.wrote = q.wrote
      /\ r.dropped = q.dropped /\ r.diagnosis = q.diagnosis
      /\ r.mark = q.mark
  BY <1>1 DEF TurnRecord
<1> HIDE DEF r
<1>6. DueOnGrade(r) = DueOnGrade(q) /\ "session" \notin DueOnGrade(q)
  <2>1. DueOnGrade(q) \subseteq GradeTables
    BY DueTables
  <2>2. QED
    BY <1>5, <2>1, SameDue DEF GradeTables
<1>7. q.wrote = DueOnGrade(q) \ q.dropped /\ q.result.intent = "check_work"
  BY <1>1 DEF Placed
<1>8. Complete(r) = {"session"} \cup (DueOnGrade(q) \ q.dropped)
  BY <1>5, <1>6, <1>7 DEF Complete, Base
<1>9. Placed(r)
  BY <1>1, <1>5, <1>6, <1>7, <1>8 DEF Placed, UngradedSteps, EarlySteps
<1>10. Cautious(r) /\ OnProblem(r) /\ Decided(r)
  <2>1. q.pc \in LateSteps /\ r.pc \in LateSteps \ {"disclosing"}
    BY <1>1, <1>5 DEF LateSteps, Steps, EarlySteps
  <2>2. QED
    BY <1>1, <1>5, <2>1, SameLate
<1>11. QED
  BY <1>1, <1>2, <1>4, <1>9, <1>10, Known, Goes DEF TurnInv, Respond, q

-----------------------------------------------------------------------------
LEMMA TutorOk ==
  ASSUME IInv, NEW t \in Turns, Tutor(t)
  PROVE  IInv'
<1>1. PICK d \in BOOLEAN :
        turn' = [turn EXCEPT ![t].pc = "measuring", ![t].path = "tutored",
                             ![t].degraded = d]
  BY DEF Tutor
<1> DEFINE q == turn[t]
           r == [q EXCEPT !.pc = "measuring", !.path = "tutored",
                          !.degraded = d]
<1>2. /\ q \in TurnRecord /\ Placed(q) /\ Cautious(q) /\ OnProblem(q)
      /\ Decided(q) /\ q.pc = "tutoring" /\ q.fate = "running"
  BY Known DEF Tutor, At
<1>3. turn' = [turn EXCEPT ![t] = r]
  BY <1>1, Zenon
<1>4. "measuring" \in Steps /\ "tutored" \in Path
  BY DEF Steps, Path
<1> HIDE DEF q
<1>5. r \in TurnRecord
  BY <1>2, <1>4, Zenon DEF TurnRecord
<1>6. /\ r.pc = "measuring" /\ r.path = "tutored" /\ r.action = q.action
      /\ r.current = q.current /\ r.request = q.request /\ r.sure = q.sure
      /\ r.ghost = q.ghost /\ r.stage = q.stage
      /\ r.result = q.result /\ r.fate = q.fate /\ r.wrote = q.wrote
  BY <1>2 DEF TurnRecord
<1> HIDE DEF r
<1>7. Placed(r)
  BY <1>2, <1>6 DEF Placed, UngradedSteps, EarlySteps, Base
<1>8. Cautious(r) /\ OnProblem(r) /\ Decided(r)
  <2>1. q.pc \in LateSteps /\ r.pc \in LateSteps \ {"disclosing"}
    BY <1>2, <1>6 DEF LateSteps, Steps, EarlySteps
  <2>2. QED
    BY <1>2, <1>6, <2>1, SameLate
<1>9. QED
  BY <1>2, <1>3, <1>5, <1>7, <1>8, Known, Goes DEF TurnInv, Tutor, q

\* Of an answer by the Tutor the guardrail row, and the review entry if the
\* critic was degraded, are all there is to write before the session.
LEMMA CompleteTutored ==
  ASSUME NEW r, r.path = "tutored"
  PROVE  /\ r.degraded => Complete(r) \ {"session"}
                            = Base(r) \cup {"guardrail", "review_queue"}
         /\ ~r.degraded => Complete(r) \ {"session"}
                             = Base(r) \cup {"guardrail"}
BY DEF Complete, Base

LEMMA MeasureOk ==
  ASSUME IInv, NEW t \in Turns, Measure(t)
  PROVE  IInv'
<1> DEFINE q == turn[t]
           pc == IF q.degraded THEN "queueing" ELSE "saving"
           w == q.wrote \cup {"guardrail"}
           r == [q EXCEPT !.pc = pc, !.wrote = w]
<1>1. /\ q \in TurnRecord /\ Placed(q) /\ Cautious(q) /\ OnProblem(q)
      /\ Decided(q) /\ q.pc = "measuring" /\ q.fate = "running"
  BY Known DEF Measure, At
<1>2. turn' = [turn EXCEPT ![t] = r]
  BY Zenon DEF Measure
<1>3. /\ q.degraded => pc = "queueing"
      /\ ~q.degraded => pc = "saving"
      /\ pc \in {"queueing", "saving"}
      /\ w = q.wrote \cup {"guardrail"}
  OBVIOUS
<1>4. pc \in Steps /\ w \in SUBSET Tables
  BY <1>1 DEF TurnRecord, Tables, Steps
<1> HIDE DEF q, pc, w
<1>5. r \in TurnRecord
  BY <1>1, <1>4, Zenon DEF TurnRecord
<1>6. /\ r.pc = pc /\ r.wrote = w /\ r.path = q.path /\ r.action = q.action
      /\ r.current = q.current /\ r.request = q.request /\ r.sure = q.sure
      /\ r.ghost = q.ghost /\ r.stage = q.stage
      /\ r.result = q.result /\ r.fate = q.fate
  BY <1>1 DEF TurnRecord
<1>7. r.degraded = q.degraded
  BY <1>1, Zenon DEF TurnRecord
<1> HIDE DEF r
<1>8. /\ q.path = "tutored" /\ q.wrote = Base(q) /\ Base(r) = Base(q)
  BY <1>1, <1>6 DEF Placed, Base
<1>9. Placed(r)
  <2>1. CASE q.degraded
    <3>1. /\ r.degraded /\ r.pc = "queueing"
          /\ r.wrote = Base(r) \cup {"guardrail"}
      BY <1>3, <1>6, <1>7, <1>8, <2>1, Zenon
    <3>2. QED
      BY <1>1, <1>6, <1>8, <3>1 DEF Placed, UngradedSteps, EarlySteps
  <2>2. CASE ~q.degraded
    <3>1. r.pc = "saving" /\ r.wrote = Base(r) \cup {"guardrail"}
      BY <1>3, <1>6, <1>8, <2>2, Zenon
    <3>2. r.wrote = Complete(r) \ {"session"}
      BY <1>6, <1>7, <1>8, <2>2, <3>1, CompleteTutored, Zenon
    <3>3. QED
      BY <1>1, <1>6, <1>8, <3>1, <3>2 DEF Placed, UngradedSteps, EarlySteps
  <2>3. QED
    BY <2>1, <2>2
<1>10. Cautious(r) /\ OnProblem(r) /\ Decided(r)
  <2>1. q.pc \in LateSteps /\ r.pc \in LateSteps \ {"disclosing"}
    BY <1>1, <1>3, <1>6 DEF LateSteps, Steps, EarlySteps
  <2>2. QED
    BY <1>1, <1>6, <2>1, SameLate
<1>11. QED
  BY <1>1, <1>2, <1>5, <1>9, <1>10, Known, Goes DEF TurnInv, Measure, q

LEMMA QueueOk ==
  ASSUME IInv, NEW t \in Turns, Queue(t)
  PROVE  IInv'
<1> DEFINE q == turn[t]
           w == q.wrote \cup {"review_queue"}
           r == [q EXCEPT !.pc = "saving", !.wrote = w]
<1>1. /\ q \in TurnRecord /\ Placed(q) /\ Cautious(q) /\ OnProblem(q)
      /\ Decided(q) /\ q.pc = "queueing" /\ q.fate = "running"
  BY Known DEF Queue, At
<1>2. turn' = [turn EXCEPT ![t] = r]
  BY Zenon DEF Queue
<1>3. w = q.wrote \cup {"review_queue"}
  OBVIOUS
<1>4. "saving" \in Steps /\ w \in SUBSET Tables
  BY <1>1 DEF TurnRecord, Tables, Steps
<1> HIDE DEF q, w
<1>5. r \in TurnRecord
  BY <1>1, <1>4, Zenon DEF TurnRecord
<1>6. /\ r.pc = "saving" /\ r.wrote = w /\ r.path = q.path
      /\ r.current = q.current /\ r.request = q.request /\ r.sure = q.sure
      /\ r.ghost = q.ghost /\ r.stage = q.stage
      /\ r.result = q.result /\ r.fate = q.fate /\ r.action = q.action
  BY <1>1 DEF TurnRecord
<1>7. r.degraded = q.degraded
  BY <1>1, Zenon DEF TurnRecord
<1> HIDE DEF r
<1>8. /\ q.path = "tutored" /\ q.degraded
      /\ q.wrote = Base(q) \cup {"guardrail"} /\ Base(r) = Base(q)
  BY <1>1, <1>6 DEF Placed, Base
<1>9. r.wrote = Complete(r) \ {"session"}
  <2>1. Complete(r) \ {"session"} = Base(r) \cup {"guardrail", "review_queue"}
    BY <1>6, <1>7, <1>8, CompleteTutored, Zenon
  <2>2. QED
    BY <1>3, <1>6, <1>8, <2>1
<1>10. Placed(r)
  BY <1>1, <1>6, <1>8, <1>9 DEF Placed, UngradedSteps, EarlySteps
<1>11. Cautious(r) /\ OnProblem(r) /\ Decided(r)
  <2>1. q.pc \in LateSteps /\ r.pc \in LateSteps \ {"disclosing"}
    BY <1>1, <1>6 DEF LateSteps, Steps, EarlySteps
  <2>2. QED
    BY <1>1, <1>6, <2>1, SameLate
<1>12. QED
  BY <1>1, <1>2, <1>5, <1>10, <1>11, Known, Goes DEF TurnInv, Queue, q

-----------------------------------------------------------------------------
\* The client of a turn that ends: whoever waits is told.
LEMMA Told ==
  ASSUME IInv, NEW t \in Turns, turn[t].fate = "running",
         NEW c \in {"answered", "error"},
         client' = IF client[t] = "waiting"
                   THEN [client EXCEPT ![t] = c] ELSE client
  PROVE  \E n \in ClientState :
           client' = [client EXCEPT ![t] = n] /\ n # "idle"
<1>1. client \in [Turns -> ClientState] /\ client[t] # "idle"
  BY DEF IInv, TypeOK, ClientState
<1>2. CASE client[t] = "waiting"
  BY <1>2 DEF ClientState
<1>3. CASE client[t] # "waiting"
  <2>1. client' = [client EXCEPT ![t] = client[t]]
    BY <1>1, <1>3
  <2>2. QED
    BY <1>1, <2>1
<1>4. QED
  BY <1>2, <1>3

LEMMA RefuseOk ==
  ASSUME IInv, NEW t \in Turns, Refuse(t)
  PROVE  IInv'
<1> DEFINE q == turn[t]
           r == [q EXCEPT !.fate = "delivered", !.path = "refused"]
<1>1. /\ q \in TurnRecord /\ Placed(q) /\ Cautious(q) /\ OnProblem(q)
      /\ Decided(q) /\ q.pc = "refusing" /\ q.fate = "running"
  BY Known DEF Refuse, At
<1>2. turn' = [turn EXCEPT ![t] = r]
  BY Zenon DEF Refuse
<1>3. PICK n \in ClientState :
        client' = [client EXCEPT ![t] = n] /\ n # "idle"
  BY <1>1, Told DEF Refuse, Answered
<1>4. "refused" \in Path
  BY DEF Path
<1> HIDE DEF q
<1>5. r \in TurnRecord
  BY <1>1, <1>4, Zenon DEF TurnRecord
<1>6. /\ r.fate = "delivered" /\ r.path = "refused" /\ r.pc = q.pc
      /\ r.current = q.current /\ r.request = q.request /\ r.sure = q.sure
      /\ r.ghost = q.ghost /\ r.stage = q.stage
      /\ r.result = q.result /\ r.wrote = q.wrote /\ r.action = q.action
  BY <1>1 DEF TurnRecord
<1> HIDE DEF r
<1>7. Placed(r)
  BY <1>1, <1>6 DEF Placed, UngradedSteps, EarlySteps, Base
<1>8. Cautious(r) /\ OnProblem(r) /\ Decided(r)
  <2>1. q.pc \in LateSteps /\ r.pc \in LateSteps \ {"disclosing"}
    BY <1>1, <1>6 DEF LateSteps, Steps, EarlySteps
  <2>2. QED
    BY <1>1, <1>6, <2>1, SameLate
<1>9. TurnInv(r) /\ faults' \in 0..MaxFaults
      /\ session' \in [Sessions -> Ladder!ProblemSessionState \cup {NoRow}]
      /\ project' \in [Projects -> IAStage \cup {NoStage}]
  BY <1>7, <1>8, Known DEF TurnInv, Refuse
<1>10. QED
  BY <1>2, <1>3, <1>5, <1>6, <1>9, Replaced

LEMMA SaveOk ==
  ASSUME IInv, NEW t \in Turns, Save(t)
  PROVE  IInv'
<1> DEFINE q == turn[t]
           w == q.wrote \cup {"session"}
           r == [q EXCEPT !.fate = "delivered", !.wrote = w]
           s == Ladder!AdvanceSessionState(q.current, q.request.problem,
                                           q.result.intent, q.action)
<1>1. /\ q \in TurnRecord /\ Placed(q) /\ Cautious(q) /\ OnProblem(q)
      /\ Decided(q) /\ q.pc = "saving" /\ q.fate = "running"
  BY Known DEF Save, At
<1>2. /\ turn' = [turn EXCEPT ![t] = r]
      /\ session' = [session EXCEPT ![q.request.session] = s]
  BY Zenon DEF Save
<1>3. PICK n \in ClientState :
        client' = [client EXCEPT ![t] = n] /\ n # "idle"
  BY <1>1, Told DEF Save, Answered
<1>4. /\ q.current \in Ladder!ProblemSessionState /\ q.action \in Action
      /\ q.request.problem \in ProblemIds
  BY <1>1, CurrentType DEF TurnRecord, Request
<1>5. s \in Ladder!ProblemSessionState
  BY <1>4, AdvanceOk
<1>6. w \in SUBSET Tables /\ w = q.wrote \cup {"session"}
  BY <1>1 DEF TurnRecord, Tables
<1> HIDE DEF q, w, s
<1>7. r \in TurnRecord
  BY <1>1, <1>6, Zenon DEF TurnRecord
<1>8. /\ r.fate = "delivered" /\ r.wrote = w /\ r.path = q.path /\ r.pc = q.pc
      /\ r.current = q.current /\ r.request = q.request /\ r.sure = q.sure
      /\ r.ghost = q.ghost /\ r.stage = q.stage
      /\ r.result = q.result /\ r.action = q.action /\ r.mark = q.mark
      /\ r.dropped = q.dropped /\ r.diagnosis = q.diagnosis
  BY <1>1 DEF TurnRecord
<1>9. r.degraded = q.degraded
  BY <1>1, Zenon DEF TurnRecord
<1> HIDE DEF r
<1>10. Complete(r) = Complete(q)
  <2>1. DueOnGrade(r) = DueOnGrade(q) /\ Base(r) = Base(q)
    BY <1>8, SameDue DEF Base
  <2>2. QED
    BY <1>8, <1>9, <2>1, Zenon DEF Complete
<1>11. /\ q.path \in {"confirmation", "graded", "tutored"}
       /\ q.path # "tutored" => q.result.intent = "check_work"
       /\ q.wrote = Complete(q) \ {"session"}
  BY <1>1 DEF Placed
<1>12. "session" \in Complete(q)
  BY <1>11 DEF Complete
<1>13. r.wrote = Complete(r)
  BY <1>6, <1>8, <1>10, <1>11, <1>12
<1>14. Placed(r)
  BY <1>1, <1>8, <1>11, <1>13 DEF Placed, UngradedSteps, EarlySteps
<1>15. Cautious(r) /\ OnProblem(r) /\ Decided(r)
  <2>1. q.pc \in LateSteps /\ r.pc \in LateSteps \ {"disclosing"}
    BY <1>1, <1>8 DEF LateSteps, Steps, EarlySteps
  <2>2. QED
    BY <1>1, <1>8, <2>1, SameLate
<1>16. TurnInv(r) /\ faults' \in 0..MaxFaults
       /\ project' \in [Projects -> IAStage \cup {NoStage}]
  BY <1>14, <1>15, Known DEF TurnInv, Save
<1>17. session' \in [Sessions -> Ladder!ProblemSessionState \cup {NoRow}]
  BY <1>2, <1>5, Known
<1>18. QED
  BY <1>2, <1>3, <1>7, <1>8, <1>16, <1>17, Replaced

\* A turn fails at an await nobody guards, or is lost at any step.
LEMMA FailOk ==
  ASSUME IInv, NEW t \in Turns, Raise(t) \/ Lose(t)
  PROVE  IInv'
<1>1. PICK e \in {"failed", "lost"} :
        /\ turn' = [turn EXCEPT ![t].fate = e]
        /\ e = "failed" => Unprotected(t)
  BY DEF Raise, Lose
<1> DEFINE q == turn[t]
           r == [q EXCEPT !.fate = e]
<1>2. /\ q \in TurnRecord /\ Placed(q) /\ Cautious(q) /\ OnProblem(q)
      /\ Decided(q) /\ q.fate = "running"
  BY Known DEF Raise, Lose, UnderWay
<1>3. turn' = [turn EXCEPT ![t] = r]
  BY <1>1, Zenon
<1>4. e = "failed" => q.pc # "recording"
  BY <1>1 DEF Unprotected
<1>5. /\ faults' \in 0..MaxFaults
      /\ session' \in [Sessions -> Ladder!ProblemSessionState \cup {NoRow}]
      /\ project' \in [Projects -> IAStage \cup {NoStage}]
  BY Known, FlowConstants DEF Raise, Lose
<1>6. PICK n \in ClientState :
        client' = [client EXCEPT ![t] = n] /\ n \notin {"answered", "idle"}
  <2>1. /\ client \in [Turns -> ClientState]
        /\ client[t] \notin {"answered", "idle"}
    BY <1>2 DEF IInv, TypeOK, ClientState
  <2>2. client' = [client EXCEPT ![t] = IF @ = "waiting" THEN "error" ELSE @]
    BY DEF Raise, Lose
  <2>3. CASE client[t] = "waiting"
    <3>1. client' = [client EXCEPT ![t] = "error"]
      BY <2>2, <2>3
    <3>2. QED
      BY <3>1 DEF ClientState
  <2>4. CASE client[t] # "waiting"
    <3>1. client' = [client EXCEPT ![t] = client[t]]
      BY <2>2, <2>4
    <3>2. QED
      BY <2>1, <3>1
  <2>5. QED
    BY <2>3, <2>4
<1> HIDE DEF q
<1>7. r \in TurnRecord
  BY <1>2, Zenon DEF TurnRecord
<1>8. /\ r.fate = e /\ r.wrote = q.wrote /\ r.path = q.path /\ r.pc = q.pc
      /\ r.current = q.current /\ r.request = q.request /\ r.sure = q.sure
      /\ r.ghost = q.ghost /\ r.stage = q.stage
      /\ r.result = q.result /\ r.action = q.action /\ r.mark = q.mark
      /\ r.dropped = q.dropped /\ r.diagnosis = q.diagnosis
      /\ r.todo = q.todo
  BY <1>2 DEF TurnRecord
<1>9. r.degraded = q.degraded
  BY <1>2, Zenon DEF TurnRecord
<1> HIDE DEF r
<1>10. /\ DueOnGrade(r) = DueOnGrade(q) /\ Base(r) = Base(q)
       /\ StagesOf(r, r.mark) = StagesOf(q, q.mark)
  BY <1>8, SameDue DEF Base
<1>11. Complete(r) = Complete(q)
  BY <1>8, <1>9, <1>10, Zenon DEF Complete
<1>12. q.pc = "queueing" => r.degraded
  BY <1>2, <1>9, Zenon DEF Placed
<1>13. Placed(r)
  BY <1>2, <1>4, <1>8, <1>10, <1>11, <1>12
  DEF Placed, UngradedSteps, EarlySteps
<1>14. Cautious(r) /\ OnProblem(r) /\ Decided(r)
  BY <1>2, <1>8, Zenon DEF Cautious, OnProblem, Decided
<1>15. TurnInv(r)
  BY <1>13, <1>14 DEF TurnInv
<1>16. QED
  BY <1>3, <1>5, <1>6, <1>7, <1>15, Replaced

-----------------------------------------------------------------------------
\* A turn that nobody has sent.
LEMMA UnbornOk ==
  ASSUME NEW t \in Turns
  PROVE  /\ Unborn(t) \in TurnRecord /\ TurnInv(Unborn(t))
         /\ Unborn(t).pc = "classifying" /\ Unborn(t).sure
         /\ Unborn(t).wrote = {} /\ Unborn(t).path = "none"
         /\ Unborn(t).dropped = {} /\ Unborn(t).diagnosis = "none"
         /\ Unborn(t).action.type = "explain"
         /\ ~Unborn(t).ghost /\ Unborn(t).stage = NoStage
         /\ Unborn(t).fate = "unborn"
<1> DEFINE c == CHOOSE r \in Requests : TRUE
<1>1. c \in Request
  BY FlowConstants
<1> HIDE DEF c
<1>2. /\ Undecided \in Action /\ NoMark \in Mark /\ SafeDefault \in IntentResult
      /\ NoState \in [problem : ProblemIds, attempts : Nat,
                      level : 0..MaxHintLadderLevel]
      /\ "classifying" \in Steps /\ "none" \in Path
      /\ Undecided.type = "explain"
  BY DEF Undecided, Act, Action, ActionType, Reason, IntentType, NoMark, Mark,
         SafeDefault, IntentResult, AssessmentMode, NoState, ProblemIds,
         MaxHintLadderLevel, Steps, Path
<1> DEFINE u == [fate |-> "unborn", pc |-> "classifying", request |-> c,
                 repeats |-> t, sure |-> TRUE, result |-> SafeDefault,
                 current |-> NoState, ghost |-> FALSE, named |-> NoStage,
                 found |-> NoStage, stage |-> NoStage, action |-> Undecided,
                 path |-> "none", mark |-> NoMark, todo |-> {}, wrote |-> {},
                 dropped |-> {}, diagnosis |-> "none", degraded |-> FALSE]
<1>3. Unborn(t) = u
  BY DEF Unborn, c
<1>4. u \in TurnRecord
  BY <1>1, <1>2 DEF TurnRecord
<1>5. /\ u.pc = "classifying" /\ u.sure /\ u.wrote = {} /\ u.path = "none"
      /\ u.dropped = {} /\ u.diagnosis = "none" /\ u.fate = "unborn"
      /\ u.action.type = "explain" /\ ~u.ghost /\ u.stage = NoStage
  BY <1>2
<1> HIDE DEF u
<1>6. TurnInv(u)
  BY <1>5 DEF TurnInv, Placed, UngradedSteps, EarlySteps, Cautious, OnProblem,
              Decided, LateSteps
<1>7. QED
  BY <1>3, <1>4, <1>5, <1>6

LEMMA ReceiveOk ==
  ASSUME IInv, NEW t \in Turns, NEW r0 \in Request, NEW u \in Turns,
         Receive(t, r0, u)
  PROVE  IInv'
<1> DEFINE q == Unborn(t)
           e == IF r0.work = "broken_photo" THEN "rejected" ELSE "running"
           n == IF r0.work = "broken_photo" THEN "rejected" ELSE "waiting"
           r == [q EXCEPT !.request = r0, !.repeats = u, !.fate = e]
<1>1. turn' = [turn EXCEPT ![t] = r] /\ client' = [client EXCEPT ![t] = n]
  BY Zenon DEF Receive
<1>2. /\ e \in {"rejected", "running"}
      /\ n \in ClientState \ {"answered", "idle"}
  BY DEF ClientState
<1>3. /\ q \in TurnRecord /\ q.pc = "classifying" /\ q.sure
      /\ q.wrote = {} /\ q.path = "none"
      /\ q.dropped = {} /\ q.diagnosis = "none"
      /\ q.action.type = "explain" /\ ~q.ghost /\ q.stage = NoStage
  BY UnbornOk
<1> HIDE DEF q, e, n
<1>4. r \in TurnRecord
  BY <1>2, <1>3, Zenon DEF TurnRecord
<1>5. /\ r.fate = e /\ r.pc = q.pc /\ r.wrote = q.wrote /\ r.path = q.path
      /\ r.dropped = q.dropped /\ r.diagnosis = q.diagnosis
      /\ r.action = q.action
  BY <1>3 DEF TurnRecord
<1>6. /\ r.sure = q.sure /\ r.ghost = q.ghost /\ r.stage = q.stage
  BY <1>3, Zenon DEF TurnRecord
<1> HIDE DEF r
<1>7. Placed(r) /\ OnProblem(r)
  BY <1>2, <1>3, <1>5 DEF Placed, UngradedSteps, EarlySteps, OnProblem
<1>8. Cautious(r) /\ Decided(r)
  <2>1. r.pc \in EarlySteps /\ r.pc \notin LateSteps /\ r.pc # "disclosing"
    BY <1>3, <1>5 DEF EarlySteps, LateSteps
  <2>2. QED
    BY <1>3, <1>6, <2>1, Zenon DEF Cautious, Decided
<1>9. /\ TurnInv(r) /\ faults' \in 0..MaxFaults
      /\ session' \in [Sessions -> Ladder!ProblemSessionState \cup {NoRow}]
      /\ project' \in [Projects -> IAStage \cup {NoStage}]
  BY <1>7, <1>8, Known DEF TurnInv, Receive
<1>10. QED
  BY <1>1, <1>2, <1>4, <1>9, Replaced

LEMMA GiveUpOk ==
  ASSUME IInv, NEW t \in Turns, GiveUp(t)
  PROVE  IInv'
<1>1. /\ client' = [client EXCEPT ![t] = "gone"] /\ faults' \in 0..MaxFaults
      /\ UNCHANGED <<session, project, turn>>
  BY Known, FlowConstants DEF GiveUp
<1>2. TypeOK'
  BY <1>1 DEF IInv, TypeOK
<1>3. \A u \in Turns : /\ client'[u] = "answered" => client[u] = "answered"
                      /\ client'[u] = "idle" => client[u] = "idle"
  BY <1>1 DEF IInv, TypeOK
<1>4. QED
  BY <1>1, <1>2, <1>3 DEF IInv

LEMMA InitOk == Init => IInv
<1> SUFFICES ASSUME Init PROVE IInv
  OBVIOUS
<1>1. \A t \in Turns : turn[t] = Unborn(t) /\ client[t] = "idle"
  BY DEF Init
<1>2. TypeOK
  BY UnbornOk, FlowConstants DEF Init, TypeOK, Projects
<1>3. QED
  BY <1>1, <1>2, UnbornOk DEF IInv

\* One case per action of Next.
LEMMA StepOk ==
  ASSUME IInv, Next
  PROVE  IInv'
<1>1. PICK t \in Turns :
        \/ Send(t)
        \/ \E u \in Turns : Resend(t, u)
        \/ GiveUp(t)
        \/ Proceed(t)
        \/ \E b \in GradeTables : StageRaises(t, b)
        \/ Raise(t)
        \/ Lose(t)
  BY DEF Next
<1>2. CASE Send(t)
  BY <1>2, ReceiveOk, FlowConstants DEF Send
<1>3. ASSUME NEW u \in Turns, Resend(t, u)
      PROVE  IInv'
  <2>1. turn[u].request \in Request
    BY Known DEF TurnRecord
  <2>2. QED
    BY <1>3, <2>1, ReceiveOk DEF Resend
<1>4. CASE GiveUp(t)
  BY <1>4, GiveUpOk
<1>5. CASE Proceed(t)
  BY <1>5, ClassifyOk, ReadSessionOk, ReadProjectOk, SaveProjectOk, DecideOk,
     DiscloseOk, RefuseOk, IngestOk, GradeOk, StageEndsOk, DiagnoseOk,
     RespondOk, TutorOk, MeasureOk, QueueOk, SaveOk DEF Proceed
<1>6. ASSUME NEW b \in GradeTables, StageRaises(t, b)
      PROVE  IInv'
  <2>1. faults' \in 0..MaxFaults
    BY <1>6, Known, FlowConstants DEF StageRaises
  <2>2. QED
    BY <1>6, <2>1, StageRaisesOk DEF StageRaises
<1>7. CASE Raise(t) \/ Lose(t)
  BY <1>7, FailOk
<1>8. QED
  BY <1>1, <1>2, <1>3, <1>4, <1>5, <1>6, <1>7

\* The invariant holds for ever.
LEMMA Inductive == Spec => []IInv
<1>1. IInv /\ UNCHANGED vars => IInv'
  BY DEF vars, IInv, TypeOK
<1>2. QED
  BY <1>1, InitOk, StepOk, PTL DEF Spec

-----------------------------------------------------------------------------
\* Sessions, projects, turns and clients keep their types (main.py's handler
\* and handle_turn).
THEOREM TypeCorrect == Spec => []TypeOK
<1>1. IInv => TypeOK
  BY DEF IInv
<1>2. QED
  BY <1>1, Inductive, PTL

\* A client that has its answer finds on disk what the answer stands for, and
\* nothing of another path (handle_turn.py:426-634).
THEOREM AnswersRecorded == Spec => []AnswersAreRecorded
<1>1. IInv => AnswersAreRecorded
  <2> SUFFICES ASSUME IInv, NEW t \in Turns, client[t] = "answered"
               PROVE  LET r == turn[t]
                          ia == IF r.result.intent = "ia_ee_help"
                                THEN {"project", "disclosure"} ELSE {}
                      IN r.wrote = ia \cup
                           CASE r.path = "refused" -> {}
                             [] r.path = "confirmation" -> {"session"}
                             [] r.path = "graded" ->
                                  {"session"} \cup (DueOnGrade(r) \ r.dropped)
                             [] r.path = "tutored" ->
                                  {"session", "guardrail"}
                                    \cup (IF r.degraded
                                          THEN {"review_queue"} ELSE {})
    BY Zenon DEF AnswersAreRecorded
  <2> DEFINE r == turn[t]
  <2>1. Placed(r) /\ r.fate = "delivered"
    BY Known
  <2> HIDE DEF r
  <2>2. CASE r.pc = "refusing"
    <3>1. r.path = "refused" /\ r.wrote = Base(r)
      BY <2>1, <2>2 DEF Placed
    <3>2. QED
      BY <3>1 DEF Base, r
  <2>3. CASE r.pc = "saving"
    <3>1. /\ r.path \in {"confirmation", "graded", "tutored"}
          /\ r.wrote = Complete(r)
      BY <2>1, <2>3 DEF Placed
    <3>2. CASE r.path = "confirmation"
      BY <3>1, <3>2 DEF Complete, Base, r
    <3>3. CASE r.path = "graded"
      BY <3>1, <3>3 DEF Complete, Base, r
    <3>4. CASE r.path = "tutored"
      BY <3>1, <3>4 DEF Complete, Base, r
    <3>5. QED
      BY <3>1, <3>2, <3>3, <3>4
  <2>4. QED
    BY <2>1, <2>2, <2>3 DEF Placed
<1>2. QED
  BY <1>1, Inductive, PTL

\* A failed turn left a grade behind only if it failed at its last statement,
\* so a resend counts work twice only then (handle_turn.py:479-576).
THEOREM ErrorsLeaveNone == Spec => []ErrorsLeaveNoGrade
<1>1. IInv => ErrorsLeaveNoGrade
  <2> SUFFICES ASSUME IInv PROVE ErrorsLeaveNoGrade
    OBVIOUS
  <2>1. ASSUME NEW t \in Turns, Graded(turn[t])
        PROVE  /\ turn[t].pc \in {"recording", "saving"}
               /\ turn[t].fate \in {"running", "lost", "delivered", "failed"}
               /\ turn[t].fate = "failed" => turn[t].pc = "saving"
    <3> DEFINE q == turn[t]
    <3>1. Placed(q) /\ q \in TurnRecord
      BY Known
    <3>2. q.wrote \cap {"mastery", "review", "misconception", "response_log"}
            # {}
      BY <2>1 DEF Graded
    <3> HIDE DEF q
    <3>3. q.pc \in Steps
      BY <3>1 DEF TurnRecord
    <3>4. q.pc \in {"recording", "saving"}
      BY <3>1, <3>2, <3>3 DEF Placed, Steps, EarlySteps, Base
    <3>5. q.fate \in {"running", "lost", "delivered", "failed"}
      BY <3>1, <3>4 DEF Placed, TurnRecord
    <3>6. QED
      BY <3>1, <3>4, <3>5 DEF Placed, q
  <2>2. \A t \in Turns : turn[t].repeats \in Turns
    BY DEF IInv, TypeOK, TurnRecord
  <2>3. QED
    BY <2>1, <2>2 DEF ErrorsLeaveNoGrade
<1>2. QED
  BY <1>1, Inductive, PTL

\* What was not surely classified leaves nothing behind but the row of its
\* answer and the ladder as it was (router_agent.py, handle_turn.py:368-634).
THEOREM UnsureLeavesNone == Spec => []UnsureLeavesNoMark
<1>1. IInv => UnsureLeavesNoMark
  <2> SUFFICES ASSUME IInv, NEW t \in Turns, ~turn[t].sure
               PROVE  LET r == turn[t]
                      IN /\ r.action.type \in {"explain", "supportive_scaffold"}
                         /\ r.path \in {"none", "tutored"}
                         /\ r.wrote \subseteq
                              {"guardrail", "review_queue", "session"}
                         /\ r.pc = "saving" =>
                              Ladder!AdvanceSessionState(
                                r.current, r.request.problem,
                                r.result.intent, r.action) = r.current
    BY Zenon DEF UnsureLeavesNoMark
  <2> DEFINE q == turn[t]
  <2>1. /\ q \in TurnRecord /\ Placed(q) /\ OnProblem(q)
        /\ Decided(q) /\ q.result.intent = "concept_explain"
        /\ q.action.type \in {"explain", "supportive_scaffold"}
    BY Known, Zenon DEF Cautious
  <2> HIDE DEF q
  <2>2. q.pc \in Steps /\ q.fate # "" /\ Base(q) = {}
    BY <2>1 DEF TurnRecord, Base
  <2>3. q.pc \notin {"refusing", "ingesting", "grading", "recording"}
    BY <2>1 DEF Placed
  <2>4. CASE q.pc = "saving"
    <3>1. q.path = "tutored"
      BY <2>1, <2>4 DEF Placed
    <3>2. Complete(q) \subseteq {"guardrail", "review_queue", "session"}
      BY <2>2, <3>1 DEF Complete
    <3>3. q.wrote \subseteq Complete(q)
      BY <2>1, <2>4 DEF Placed
    <3>4. q.path \in {"none", "tutored"}
          /\ q.wrote \subseteq {"guardrail", "review_queue", "session"}
      BY <3>1, <3>2, <3>3
    <3>5. Ladder!AdvanceSessionState(q.current, q.request.problem,
                                     q.result.intent, q.action) = q.current
      <4>1. /\ q.current \in [problem : ProblemIds, attempts : Nat,
                              level : 0..MaxHintLadderLevel]
            /\ q.request.problem \in {NoProblem, q.current.problem}
        BY <2>1, <2>4 DEF TurnRecord, OnProblem
      <4>2. QED
        BY <2>1, <4>1 DEF Ladder!AdvanceSessionState
    <3>6. QED
      BY <2>1, <3>4, <3>5 DEF q
  <2>5. CASE q.pc # "saving"
    <3>1. q.path \in {"none", "tutored"}
          /\ q.wrote \subseteq {"guardrail", "review_queue", "session"}
      BY <2>1, <2>2, <2>3, <2>5 DEF Placed, UngradedSteps, EarlySteps, Steps
    <3>2. QED
      BY <2>1, <2>5, <3>1 DEF q
  <2>6. QED
    BY <2>4, <2>5
<1>2. QED
  BY <1>1, Inductive, PTL

-----------------------------------------------------------------------------
\* What no step changes once it is read, and once the decision is taken.
SameSignals(q, r) ==
  /\ r.request = q.request /\ r.result = q.result /\ r.current = q.current
  /\ r.ghost = q.ghost /\ r.named = q.named /\ r.found = q.found
  /\ r.stage = q.stage

Kept(q, r) == SameSignals(q, r) /\ r.action = q.action

\* Steps at which a turn is being answered, or is being refused.
DecidedSteps == LateSteps \ {"disclosing"}

\* The turns and tables a step of turn t may change, and what it leaves.
Moves(t, r) ==
  /\ turn' = [turn EXCEPT ![t] = r]
  /\ turn[t] \in TurnRecord /\ r \in TurnRecord
  /\ TurnInv(turn[t]) /\ TurnInv(r)

LEMMA Moving ==
  ASSUME IInv, IInv', NEW t \in Turns,
         \A u \in Turns \ {t} : turn'[u] = turn[u]
  PROVE  Moves(t, turn'[t])
<1>1. turn \in [Turns -> TurnRecord] /\ turn' \in [Turns -> TurnRecord]
  BY DEF IInv, TypeOK
<1>2. TurnInv(turn[t]) /\ TurnInv(turn'[t])
  BY DEF IInv
<1>3. turn' = [turn EXCEPT ![t] = turn'[t]]
  BY <1>1
<1>4. QED
  BY <1>1, <1>2, <1>3 DEF Moves

\* The tables tell where a turn is.
LEMMA WroteTells ==
  ASSUME NEW r \in TurnRecord, TurnInv(r)
  PROVE  /\ "disclosure" \in r.wrote
              <=> r.result.intent = "ia_ee_help" /\ r.pc \in DecidedSteps
         /\ "project" \in r.wrote
              <=> /\ r.result.intent = "ia_ee_help"
                  /\ r.pc \in LateSteps \cup {"deciding"}
         /\ "session" \in r.wrote <=> r.pc = "saving" /\ r.fate = "delivered"
         /\ r.path = "refused" <=> r.pc = "refusing" /\ r.fate = "delivered"
<1> DEFINE noia == {"session", "guardrail"} \cup GradeTables
<1>1. Placed(r) /\ r.pc \in Steps
  BY DEF TurnInv, TurnRecord
<1>2. DueOnGrade(r) \subseteq GradeTables
  BY DueTables
<1>3. r.result.intent = "check_work" => Base(r) = {}
  BY DEF Base
<1>4. /\ r.result.intent # "ia_ee_help" => Base(r) = {}
      /\ r.result.intent = "ia_ee_help" => Base(r) = {"project", "disclosure"}
  BY DEF Base
<1>5. CASE r.pc \in EarlySteps \cup {"deciding", "disclosing"}
  BY <1>1, <1>4, <1>5
  DEF Placed, EarlySteps, UngradedSteps, LateSteps, DecidedSteps
<1>6. CASE r.pc \in {"ingesting", "grading"}
  BY <1>1, <1>6
  DEF Placed, EarlySteps, UngradedSteps, LateSteps, DecidedSteps
<1>7. CASE r.pc = "recording"
  <2>1. r.wrote \subseteq GradeTables /\ r.path = "none"
        /\ r.result.intent = "check_work"
    BY <1>1, <1>2, <1>7 DEF Placed
  <2>2. QED
    BY <1>7, <2>1 DEF GradeTables
<1>8. CASE r.pc \in {"refusing", "tutoring", "measuring", "queueing"}
  BY <1>1, <1>4, <1>8
  DEF Placed, EarlySteps, UngradedSteps, LateSteps, DecidedSteps, Steps
<1>9. CASE r.pc = "saving"
  <2>1. /\ r.path \in {"confirmation", "graded", "tutored"}
        /\ r.path = "graded" => r.result.intent = "check_work"
        /\ r.fate = "delivered" => r.wrote = Complete(r)
        /\ r.fate # "delivered" => r.wrote = Complete(r) \ {"session"}
    BY <1>1, <1>9 DEF Placed
  <2>2. /\ "session" \in Complete(r)
        /\ "disclosure" \in Complete(r) <=> "disclosure" \in Base(r)
        /\ "project" \in Complete(r) <=> "project" \in Base(r)
    BY <1>2, <2>1 DEF Complete, GradeTables
  <2>3. QED
    BY <1>4, <1>9, <2>1, <2>2
    DEF LateSteps, EarlySteps, DecidedSteps, Steps
<1>10. QED
  BY <1>1, <1>5, <1>6, <1>7, <1>8, <1>9 DEF Steps, EarlySteps

-----------------------------------------------------------------------------
\* A turn as the supervisor sees it: ProjectTurn, of a record.
UnreadSteps == {"classifying", "reading_session", "reading_project"}

ProjectView(r) ==
  LET seen(pc) ==
        [pc |-> pc, project |-> r.request.problem, ghost |-> r.ghost,
         named |-> r.named, found |-> r.found, stage |-> r.stage,
         action |-> IF "disclosure" \in r.wrote THEN r.action ELSE Undecided]
  IN IF r.result.intent # "ia_ee_help" \/ r.pc \in UnreadSteps
     THEN Supervisor!Unborn
     ELSE IF r.fate \in {"failed", "lost"} THEN seen("failed")
     ELSE IF r.path = "refused" THEN seen("refused")
     ELSE IF r.fate = "delivered" THEN seen("answered")
     ELSE IF "disclosure" \in r.wrote THEN seen("logged")
     ELSE IF "project" \in r.wrote THEN seen("saved") ELSE seen("loaded")

\* The supervisor's variables, named.
ProjectTurns == [t \in Turns |-> ProjectTurn(t)]

Entry(t, r) ==
  [turn |-> t, project |-> r.request.problem, stage |-> r.stage,
   assistance |-> Assistance(r.action)]

LEMMA ViewOfTurn ==
  ASSUME NEW t \in Turns
  PROVE  /\ ProjectTurn(t) = ProjectView(turn[t])
         /\ ProjectTurn(t)' = ProjectView(turn'[t])
BY Zenon DEF ProjectTurn, ProjectView, UnreadSteps, Supervisor!Unborn,
             Undecided, Supervisor!Undecided, Supervisor!Act, Act, NoStage,
             Supervisor!NoStage

LEMMA ViewMoves ==
  ASSUME NEW t \in Turns, NEW r, Moves(t, r),
         turn \in [Turns -> TurnRecord]
  PROVE  /\ ProjectTurns' = [ProjectTurns EXCEPT ![t] = ProjectView(r)]
         /\ ProjectTurns[t] = ProjectView(turn[t])
<1>1. ProjectTurns = [u \in Turns |-> ProjectView(turn[u])]
  BY ViewOfTurn DEF ProjectTurns
<1>2. ProjectTurns' = [u \in Turns |-> ProjectView(turn'[u])]
  BY ViewOfTurn DEF ProjectTurns
<1>3. turn'[t] = r /\ \A u \in Turns \ {t} : turn'[u] = turn[u]
  BY DEF Moves
<1>4. QED
  BY <1>1, <1>2, <1>3

\* What the disclosure log gains in a step of one turn.
LEMMA LogKept ==
  ASSUME NEW t \in Turns, NEW r, Moves(t, r),
         turn \in [Turns -> TurnRecord],
         "disclosure" \in r.wrote <=> "disclosure" \in turn[t].wrote,
         "disclosure" \in r.wrote => Entry(t, r) = Entry(t, turn[t])
  PROVE  DisclosureLog' = DisclosureLog
<1>1. turn'[t] = r /\ \A u \in Turns \ {t} : turn'[u] = turn[u]
  BY DEF Moves
<1>2. DisclosureLog = {Entry(u, turn[u]) :
                         u \in {v \in Turns : "disclosure" \in turn[v].wrote}}
  BY DEF DisclosureLog, Entry
<1>3. DisclosureLog' = {Entry(u, turn'[u]) :
                          u \in {v \in Turns : "disclosure" \in turn'[v].wrote}}
  BY DEF DisclosureLog, Entry
<1> HIDE DEF Entry
<1>4. \A u \in Turns :
        /\ "disclosure" \in turn'[u].wrote <=> "disclosure" \in turn[u].wrote
        /\ "disclosure" \in turn[u].wrote =>
             Entry(u, turn'[u]) = Entry(u, turn[u])
  BY <1>1
<1>5. QED
  BY <1>2, <1>3, <1>4

LEMMA LogGrows ==
  ASSUME NEW t \in Turns, NEW r, Moves(t, r),
         turn \in [Turns -> TurnRecord],
         "disclosure" \in r.wrote, "disclosure" \notin turn[t].wrote
  PROVE  DisclosureLog' = DisclosureLog \cup {Entry(t, r)}
<1>1. turn'[t] = r /\ \A u \in Turns \ {t} : turn'[u] = turn[u]
  BY DEF Moves
<1>2. DisclosureLog = {Entry(u, turn[u]) :
                         u \in {v \in Turns : "disclosure" \in turn[v].wrote}}
  BY DEF DisclosureLog, Entry
<1>3. DisclosureLog' = {Entry(u, turn'[u]) :
                          u \in {v \in Turns : "disclosure" \in turn'[v].wrote}}
  BY DEF DisclosureLog, Entry
<1> HIDE DEF Entry
<1>4. QED
  BY <1>1, <1>2, <1>3

-----------------------------------------------------------------------------
\* What the steps do to the parts of a turn that the two views show.
Others(t) == \A u \in Turns \ {t} : turn'[u] = turn[u]

\* A turn being answered stays one, and nothing changes that a view shows.
StaysAnswering(t) ==
  /\ Others(t) /\ Kept(turn[t], turn'[t])
  /\ turn[t].fate = "running" /\ turn'[t].fate = "running"
  /\ turn[t].pc \in AnsweringSteps /\ turn'[t].pc \in AnsweringSteps
  /\ UNCHANGED <<session, project>>

LEMMA Unshown ==
  ASSUME IInv, NEW t \in Turns, NEW r, turn' = [turn EXCEPT ![t] = r],
         Kept(turn[t], r), turn[t].fate = "running", r.fate = "running",
         turn[t].pc \in AnsweringSteps, r.pc \in AnsweringSteps,
         UNCHANGED <<session, project>>
  PROVE  StaysAnswering(t)
<1>1. turn'[t] = r /\ Others(t)
  BY DEF IInv, TypeOK, Others
<1>2. QED
  BY <1>1 DEF StaysAnswering

LEMMA AnsweringEffect ==
  ASSUME IInv, NEW t \in Turns,
         \/ Ingest(t) \/ Grade(t) \/ Diagnose(t) \/ Respond(t) \/ Tutor(t)
         \/ Measure(t) \/ Queue(t)
         \/ \E b \in GradeTables : StageEnds(t, b) \/ StageRaises(t, b)
  PROVE  StaysAnswering(t)
<1> DEFINE q == turn[t]
<1>1. q \in TurnRecord
  BY DEF IInv, TypeOK
<1>2. /\ q.fate = "running" /\ q.pc \in AnsweringSteps
      /\ UNCHANGED <<session, project>>
  BY Zenon DEF Ingest, Grade, Diagnose, Respond, Tutor, Measure, Queue,
               StageEnds, StageRaises, At, AnsweringSteps
<1>3. CASE Ingest(t)
  <2>1. ASSUME turn' = [turn EXCEPT ![t].pc = "grading"]
        PROVE  StaysAnswering(t)
    <3> DEFINE r == [q EXCEPT !.pc = "grading"]
    <3>1. turn' = [turn EXCEPT ![t] = r]
      BY <2>1, Zenon
    <3> HIDE DEF q
    <3>2. /\ Kept(q, r) /\ r.fate = q.fate
          /\ r.pc = q.pc \/ r.pc \in AnsweringSteps
      BY <1>1 DEF Kept, SameSignals, TurnRecord, AnsweringSteps
    <3> HIDE DEF r
    <3>3. QED
      BY <1>2, <3>1, <3>2, Unshown DEF q
  <2>2. ASSUME turn' = [turn EXCEPT ![t].pc = "saving",
                                    ![t].path = "confirmation"]
        PROVE  StaysAnswering(t)
    <3> DEFINE r == [q EXCEPT !.pc = "saving", !.path = "confirmation"]
    <3>1. turn' = [turn EXCEPT ![t] = r]
      BY <2>2, Zenon
    <3> HIDE DEF q
    <3>2. /\ Kept(q, r) /\ r.fate = q.fate
          /\ r.pc = q.pc \/ r.pc \in AnsweringSteps
      BY <1>1 DEF Kept, SameSignals, TurnRecord, AnsweringSteps
    <3> HIDE DEF r
    <3>3. QED
      BY <1>2, <3>1, <3>2, Unshown DEF q
  <2>3. QED
    BY <1>3, <2>1, <2>2, Zenon DEF Ingest
<1>4. CASE Grade(t)
  <2>1. ASSUME turn' = [turn EXCEPT ![t].pc = "tutoring"]
        PROVE  StaysAnswering(t)
    <3> DEFINE r == [q EXCEPT !.pc = "tutoring"]
    <3>1. turn' = [turn EXCEPT ![t] = r]
      BY <2>1, Zenon
    <3> HIDE DEF q
    <3>2. /\ Kept(q, r) /\ r.fate = q.fate
          /\ r.pc = q.pc \/ r.pc \in AnsweringSteps
      BY <1>1 DEF Kept, SameSignals, TurnRecord, AnsweringSteps
    <3> HIDE DEF r
    <3>3. QED
      BY <1>2, <3>1, <3>2, Unshown DEF q
  <2>2. ASSUME NEW m \in Marks,
               turn' = [turn EXCEPT ![t].pc = "recording", ![t].mark = m,
                                    ![t].todo = StagesOf(turn[t], m)]
        PROVE  StaysAnswering(t)
    <3> DEFINE r == [q EXCEPT !.pc = "recording", !.mark = m,
                              !.todo = StagesOf(q, m)]
    <3>1. turn' = [turn EXCEPT ![t] = r]
      BY <2>2, Zenon
    <3> HIDE DEF q
    <3>2. /\ Kept(q, r) /\ r.fate = q.fate
          /\ r.pc = q.pc \/ r.pc \in AnsweringSteps
      BY <1>1 DEF Kept, SameSignals, TurnRecord, AnsweringSteps
    <3> HIDE DEF r
    <3>3. QED
      BY <1>2, <3>1, <3>2, Unshown DEF q
  <2>3. QED
    BY <1>4, <2>1, <2>2, Zenon DEF Grade
<1>5. CASE Diagnose(t)
  <2>1. ASSUME NEW d,
               turn' = [turn EXCEPT ![t].todo = @ \ {"misconception"},
                                    ![t].diagnosis = d,
                                    ![t].wrote =
                                      IF d = "sure"
                                      THEN @ \cup {"misconception"} ELSE @]
        PROVE  StaysAnswering(t)
    <3> DEFINE r == [q EXCEPT !.todo = @ \ {"misconception"}, !.diagnosis = d,
                              !.wrote = IF d = "sure"
                                        THEN @ \cup {"misconception"} ELSE @]
    <3>1. turn' = [turn EXCEPT ![t] = r]
      BY <2>1, Zenon
    <3> HIDE DEF q
    <3>2. /\ Kept(q, r) /\ r.fate = q.fate
          /\ r.pc = q.pc \/ r.pc \in AnsweringSteps
      BY <1>1 DEF Kept, SameSignals, TurnRecord, AnsweringSteps
    <3> HIDE DEF r
    <3>3. QED
      BY <1>2, <3>1, <3>2, Unshown DEF q
  <2>2. ASSUME turn' = [turn EXCEPT ![t].todo = @ \ {"misconception"},
                                    ![t].dropped = @ \cup {"misconception"}]
        PROVE  StaysAnswering(t)
    <3> DEFINE r == [q EXCEPT !.todo = @ \ {"misconception"},
                              !.dropped = @ \cup {"misconception"}]
    <3>1. turn' = [turn EXCEPT ![t] = r]
      BY <2>2, Zenon
    <3> HIDE DEF q
    <3>2. /\ Kept(q, r) /\ r.fate = q.fate
          /\ r.pc = q.pc \/ r.pc \in AnsweringSteps
      BY <1>1 DEF Kept, SameSignals, TurnRecord, AnsweringSteps
    <3> HIDE DEF r
    <3>3. QED
      BY <1>2, <3>1, <3>2, Unshown DEF q
  <2>3. QED
    BY <1>5, <2>1, <2>2, Zenon DEF Diagnose
<1>6. CASE Respond(t)
  <2> DEFINE r == [q EXCEPT !.pc = "saving", !.path = "graded"]
  <2>1. turn' = [turn EXCEPT ![t] = r]
    BY <1>6, Zenon DEF Respond
  <2> HIDE DEF q
  <2>2. /\ Kept(q, r) /\ r.fate = q.fate
        /\ r.pc = q.pc \/ r.pc \in AnsweringSteps
    BY <1>1 DEF Kept, SameSignals, TurnRecord, AnsweringSteps
  <2> HIDE DEF r
  <2>3. QED
    BY <1>2, <2>1, <2>2, Unshown DEF q
<1>7. CASE Tutor(t)
  <2>1. PICK d \in BOOLEAN :
          turn' = [turn EXCEPT ![t].pc = "measuring", ![t].path = "tutored",
                               ![t].degraded = d]
    BY <1>7 DEF Tutor
  <2> DEFINE r == [q EXCEPT !.pc = "measuring", !.path = "tutored",
                            !.degraded = d]
  <2>2. turn' = [turn EXCEPT ![t] = r]
    BY <2>1, Zenon
  <2> HIDE DEF q
  <2>3. /\ Kept(q, r) /\ r.fate = q.fate
        /\ r.pc = q.pc \/ r.pc \in AnsweringSteps
    BY <1>1 DEF Kept, SameSignals, TurnRecord, AnsweringSteps
  <2> HIDE DEF r
  <2>4. QED
    BY <1>2, <2>2, <2>3, Unshown DEF q
<1>8. CASE Measure(t)
  <2> DEFINE r == [q EXCEPT !.pc = IF q.degraded THEN "queueing" ELSE "saving",
                        !.wrote = @ \cup {"guardrail"}]
  <2>1. turn' = [turn EXCEPT ![t] = r]
    BY <1>8, Zenon DEF Measure
  <2> HIDE DEF q
  <2>2. /\ Kept(q, r) /\ r.fate = q.fate
        /\ r.pc = q.pc \/ r.pc \in AnsweringSteps
    BY <1>1 DEF Kept, SameSignals, TurnRecord, AnsweringSteps
  <2> HIDE DEF r
  <2>3. QED
    BY <1>2, <2>1, <2>2, Unshown DEF q
<1>9. CASE Queue(t)
  <2> DEFINE r == [q EXCEPT !.pc = "saving", !.wrote = @ \cup {"review_queue"}]
  <2>1. turn' = [turn EXCEPT ![t] = r]
    BY <1>9, Zenon DEF Queue
  <2> HIDE DEF q
  <2>2. /\ Kept(q, r) /\ r.fate = q.fate
        /\ r.pc = q.pc \/ r.pc \in AnsweringSteps
    BY <1>1 DEF Kept, SameSignals, TurnRecord, AnsweringSteps
  <2> HIDE DEF r
  <2>3. QED
    BY <1>2, <2>1, <2>2, Unshown DEF q
<1>10. ASSUME NEW b \in GradeTables, StageEnds(t, b)
      PROVE  StaysAnswering(t)
  <2> DEFINE r == [q EXCEPT !.todo = @ \ {b},
                     !.wrote = IF Writes(q, b) THEN @ \cup {b} ELSE @]
  <2>1. turn' = [turn EXCEPT ![t] = r]
    BY <1>10, Zenon DEF StageEnds
  <2> HIDE DEF q
  <2>2. /\ Kept(q, r) /\ r.fate = q.fate
        /\ r.pc = q.pc \/ r.pc \in AnsweringSteps
    BY <1>1 DEF Kept, SameSignals, TurnRecord, AnsweringSteps
  <2> HIDE DEF r
  <2>3. QED
    BY <1>2, <2>1, <2>2, Unshown DEF q
<1>11. ASSUME NEW b \in GradeTables, StageRaises(t, b)
       PROVE  StaysAnswering(t)
  <2> DEFINE r == [q EXCEPT !.todo = @ \ {b}, !.dropped = @ \cup {b}]
  <2>1. turn' = [turn EXCEPT ![t] = r]
    BY <1>11, Zenon DEF StageRaises
  <2> HIDE DEF q
  <2>2. /\ Kept(q, r) /\ r.fate = q.fate
        /\ r.pc = q.pc \/ r.pc \in AnsweringSteps
    BY <1>1 DEF Kept, SameSignals, TurnRecord, AnsweringSteps
  <2> HIDE DEF r
  <2>3. QED
    BY <1>2, <2>1, <2>2, Unshown DEF q
<1>12. QED
  BY <1>3, <1>4, <1>5, <1>6, <1>7, <1>8, <1>9, <1>10, <1>11

LEMMA EndEffect ==
  ASSUME IInv, NEW t \in Turns, Refuse(t) \/ Raise(t) \/ Lose(t)
  PROVE  /\ Others(t) /\ Kept(turn[t], turn'[t])
         /\ turn'[t].pc = turn[t].pc
         /\ turn'[t].wrote = turn[t].wrote
         /\ turn[t].fate = "running"
         /\ Refuse(t) => turn[t].pc = "refusing" /\ turn'[t].fate = "delivered"
         /\ ~Refuse(t) => turn'[t].fate \in {"failed", "lost"}
         /\ UNCHANGED <<session, project>>
<1>1. turn \in [Turns -> TurnRecord]
  BY DEF IInv, TypeOK
<1>2. CASE Refuse(t)
  BY <1>1, <1>2 DEF Refuse, At, Others, Kept, SameSignals, TurnRecord
<1>3. CASE Raise(t)
  BY <1>1, <1>3
  DEF Raise, UnderWay, Others, Kept, SameSignals, TurnRecord, Refuse
<1>4. CASE Lose(t)
  BY <1>1, <1>4
  DEF Lose, UnderWay, Others, Kept, SameSignals, TurnRecord, Refuse
<1>5. QED
  BY <1>2, <1>3, <1>4

LEMMA SaveEffect ==
  ASSUME IInv, NEW t \in Turns, Save(t)
  PROVE  /\ Others(t) /\ Kept(turn[t], turn'[t])
         /\ turn'[t].pc = "saving" /\ turn[t].pc = "saving"
         /\ turn'[t].wrote = turn[t].wrote \cup {"session"}
         /\ turn[t].fate = "running" /\ turn'[t].fate = "delivered"
         /\ UNCHANGED project
<1>1. turn \in [Turns -> TurnRecord]
  BY DEF IInv, TypeOK
<1>2. QED
  BY <1>1 DEF Save, At, Others, Kept, SameSignals, TurnRecord

LEMMA DiscloseEffect ==
  ASSUME IInv, NEW t \in Turns, Disclose(t)
  PROVE  /\ Others(t) /\ Kept(turn[t], turn'[t])
         /\ turn[t].pc = "disclosing" /\ turn'[t].pc \in DecidedSteps
         /\ turn'[t].pc \in AnsweringSteps \cup {"refusing"}
         /\ turn[t].fate = "running" /\ turn'[t].fate = "running"
         /\ UNCHANGED <<session, project>>
<1>1. turn \in [Turns -> TurnRecord]
  BY DEF IInv, TypeOK
<1>2. Route(turn[t], turn[t].action)
        \in {"refusing", "tutoring", "ingesting", "grading"}
  BY DEF Route
<1>3. QED
  BY <1>1, <1>2
  DEF Disclose, At, Others, Kept, SameSignals, TurnRecord, DecidedSteps,
      LateSteps, Steps, EarlySteps, AnsweringSteps

LEMMA DecideEffect ==
  ASSUME IInv, NEW t \in Turns, Decide(t)
  PROVE  /\ Others(t)
         /\ SameSignals(turn[t], turn'[t])
         /\ turn[t].pc = "deciding"
         /\ turn'[t].wrote = turn[t].wrote
         /\ turn[t].result.intent = "ia_ee_help" => turn'[t].pc = "disclosing"
         /\ turn[t].result.intent # "ia_ee_help" =>
              turn'[t].pc \in {"refusing", "tutoring", "ingesting", "grading"}
         /\ turn[t].fate = "running" /\ turn'[t].fate = "running"
         /\ UNCHANGED <<session, project>>
<1>1. turn \in [Turns -> TurnRecord]
  BY DEF IInv, TypeOK
<1>2. PICK a \in Decisions(t) :
        turn' = [turn EXCEPT
                   ![t].pc = IF turn[t].result.intent = "ia_ee_help"
                             THEN "disclosing" ELSE Route(turn[t], a),
                   ![t].action = a]
  BY DEF Decide
<1>3. Route(turn[t], a) \in {"refusing", "tutoring", "ingesting", "grading"}
  BY DEF Route
<1>4. QED
  BY <1>1, <1>2, <1>3 DEF Decide, At, Others, Kept, SameSignals, TurnRecord

LEMMA SaveProjectEffect ==
  ASSUME IInv, NEW t \in Turns, SaveProject(t)
  PROVE  LET new == AdvanceStage(turn[t].found, turn[t].named)
             q == turn[t]
             r == turn'[t]
         IN /\ Others(t)
            /\ r.request = q.request /\ r.result = q.result
            /\ r.current = q.current /\ r.ghost = q.ghost
            /\ r.named = q.named /\ r.found = q.found
            /\ r.stage = new
            /\ q.pc = "saving_project" /\ r.pc = "deciding"
            /\ q.fate = "running" /\ r.fate = "running"
            /\ project' = [project EXCEPT ![q.request.problem] = new]
            /\ UNCHANGED session
<1>1. turn \in [Turns -> TurnRecord]
  BY DEF IInv, TypeOK
<1>2. QED
  BY <1>1 DEF SaveProject, At, Others, TurnRecord

LEMMA ReadProjectEffect ==
  ASSUME IInv, NEW t \in Turns, ReadProject(t)
  PROVE  LET q == turn[t]
             r == turn'[t]
         IN /\ Others(t)
            /\ r.request = q.request /\ r.result = q.result
            /\ r.current = q.current /\ r.ghost \in BOOLEAN
            /\ r.named \in TextStages \cup {NoStage}
            /\ r.found = project[q.request.problem]
            /\ q.pc = "reading_project" /\ r.pc = "saving_project"
            /\ q.fate = "running" /\ r.fate = "running"
            /\ UNCHANGED <<project, session>>
<1>1. turn \in [Turns -> TurnRecord]
  BY DEF IInv, TypeOK
<1>2. PICK gh \in BOOLEAN, st \in TextStages \cup {NoStage} :
        turn' = [turn EXCEPT ![t].pc = "saving_project", ![t].ghost = gh,
                             ![t].named = st,
                             ![t].found = project[turn[t].request.problem]]
  BY DEF ReadProject
<1>3. turn'[t].ghost = gh
  BY <1>1, <1>2 DEF TurnRecord
<1>4. QED
  BY <1>1, <1>2, <1>3 DEF ReadProject, At, Others, TurnRecord

LEMMA ReadSessionEffect ==
  ASSUME IInv, NEW t \in Turns, ReadSession(t)
  PROVE  LET q == turn[t]
             r == turn'[t]
         IN /\ Others(t)
            /\ r.request = q.request /\ r.result = q.result
            /\ r.current = Ladder!LoadState(q.request.session,
                                            q.request.problem)
            /\ q.pc = "reading_session"
            /\ r.pc \in {"reading_project", "deciding"}
            /\ r.pc = "deciding" => r.result.intent # "ia_ee_help"
            /\ q.fate = "running" /\ r.fate = "running"
            /\ UNCHANGED <<project, session>>
<1>1. turn \in [Turns -> TurnRecord]
  BY DEF IInv, TypeOK
<1>2. QED
  BY <1>1 DEF ReadSession, At, Others, TurnRecord

\* A turn that begins, or of which nobody has read anything yet.
LEMMA OpeningEffect ==
  ASSUME IInv, NEW t \in Turns,
         Classify(t) \/ Send(t) \/ \E u \in Turns : Resend(t, u)
  PROVE  /\ Others(t)
         /\ turn[t].pc = "classifying"
         /\ turn'[t].pc \in {"classifying", "reading_session"}
         /\ turn[t].fate # "delivered" /\ turn'[t].fate # "delivered"
         /\ UNCHANGED <<session, project>>
<1>1. turn \in [Turns -> TurnRecord]
  BY DEF IInv, TypeOK
<1>2. ASSUME Classify(t)
      PROVE  /\ Others(t)
             /\ turn[t].pc = "classifying" /\ turn'[t].pc = "reading_session"
             /\ turn[t].fate = "running" /\ turn'[t].fate = "running"
             /\ UNCHANGED <<session, project>>
  <2>1. PICK a \in Answers :
          turn' = [turn EXCEPT ![t].pc = "reading_session",
                               ![t].sure = Usable(a) /\ a.confident,
                               ![t].result = ClassifyIntent(a)]
    BY <1>2 DEF Classify
  <2> DEFINE q == turn[t]
             s == Usable(a) /\ a.confident
             c == ClassifyIntent(a)
             r == [q EXCEPT !.pc = "reading_session", !.sure = s, !.result = c]
  <2>2. turn' = [turn EXCEPT ![t] = r]
    BY <2>1, Zenon
  <2> HIDE DEF s, c
  <2>3. r.pc = "reading_session" /\ r.fate = q.fate
    BY <1>1 DEF TurnRecord
  <2> HIDE DEF r
  <2>4. Others(t) /\ turn'[t] = r
    BY <1>1, <2>2 DEF Others
  <2>5. /\ q.pc = "classifying" /\ q.fate = "running"
        /\ UNCHANGED <<session, project>>
    BY <1>2, Zenon DEF Classify, At
  <2>6. QED
    BY <2>3, <2>4, <2>5
<1>3. ASSUME NEW q, NEW u, Receive(t, q, u)
      PROVE  /\ Others(t)
             /\ turn[t].pc = "classifying"
             /\ turn'[t].pc \in {"classifying", "reading_session"}
             /\ turn[t].fate # "delivered" /\ turn'[t].fate # "delivered"
             /\ UNCHANGED <<session, project>>
  <2>1. turn[t].fate = "unborn" /\ turn[t].pc = "classifying"
    BY <1>3, Known DEF Receive, Placed
  <2>2. QED
    BY <1>1, <1>3, <2>1 DEF Receive, Others, Unborn
<1>4. QED
  BY <1>2, <1>3 DEF Send, Resend

-----------------------------------------------------------------------------
\* Lifts a step of one turn to the supervisor's variables.
LEMMA ProjectStutters ==
  ASSUME IInv, NEW t \in Turns, NEW r, Moves(t, r), UNCHANGED project,
         ProjectView(r) = ProjectView(turn[t]),
         "disclosure" \in r.wrote <=> "disclosure" \in turn[t].wrote,
         "disclosure" \in r.wrote => Entry(t, r) = Entry(t, turn[t])
  PROVE  UNCHANGED Supervisor!vars
<1>1. turn \in [Turns -> TurnRecord]
  BY DEF IInv, TypeOK
<1>2. DisclosureLog' = DisclosureLog
  BY <1>1, LogKept
<1>3. ProjectTurns' = ProjectTurns
  <2>1. /\ ProjectTurns' = [ProjectTurns EXCEPT ![t] = ProjectView(r)]
        /\ ProjectTurns[t] = ProjectView(turn[t])
    BY <1>1, ViewMoves
  <2>2. ProjectTurns = [u \in Turns |-> ProjectTurns[u]]
    BY DEF ProjectTurns
  <2>3. QED
    BY <2>1, <2>2
<1>4. QED
  BY <1>2, <1>3 DEF Supervisor!vars, ProjectTurns

\* What the view of a turn is at each step, where the invariant holds.
LEMMA ViewAt ==
  ASSUME NEW r \in TurnRecord, TurnInv(r)
  PROVE  LET seen(pc, action) ==
               [pc |-> pc, project |-> r.request.problem, ghost |-> r.ghost,
                named |-> r.named, found |-> r.found, stage |-> r.stage,
                action |-> action]
         IN /\ r.result.intent # "ia_ee_help" \/ r.pc \in UnreadSteps =>
                 ProjectView(r) = Supervisor!Unborn
            /\ r.result.intent = "ia_ee_help" =>
                 /\ r.pc = "saving_project" /\ r.fate = "running" =>
                      ProjectView(r) = seen("loaded", Undecided)
                 /\ r.pc \in {"deciding", "disclosing"} /\ r.fate = "running" =>
                      ProjectView(r) = seen("saved", Undecided)
                 /\ r.pc \in DecidedSteps /\ r.fate = "running" =>
                      ProjectView(r) = seen("logged", r.action)
                 /\ r.pc = "refusing" /\ r.fate = "delivered" =>
                      ProjectView(r) = seen("refused", r.action)
                 /\ r.pc = "saving" /\ r.fate = "delivered" =>
                      ProjectView(r) = seen("answered", r.action)
<1>1. /\ "disclosure" \in r.wrote
           <=> r.result.intent = "ia_ee_help" /\ r.pc \in DecidedSteps
      /\ "project" \in r.wrote
           <=> /\ r.result.intent = "ia_ee_help"
               /\ r.pc \in LateSteps \cup {"deciding"}
      /\ r.path = "refused" <=> r.pc = "refusing" /\ r.fate = "delivered"
  BY WroteTells
<1>2. r.result.intent # "ia_ee_help" \/ r.pc \in UnreadSteps =>
        ProjectView(r) = Supervisor!Unborn
  BY Zenon DEF ProjectView
<1>3. CASE r.result.intent = "ia_ee_help" /\ r.pc \notin UnreadSteps
  BY <1>1, <1>3
  DEF ProjectView, UnreadSteps, DecidedSteps, LateSteps, EarlySteps, Steps
<1>4. QED
  BY <1>2, <1>3 DEF UnreadSteps, DecidedSteps, LateSteps, EarlySteps, Steps

-----------------------------------------------------------------------------
\* The steps that are none of the supervisor's.
LEMMA UnreadStutters ==
  ASSUME IInv, IInv', NEW t \in Turns,
         \/ Classify(t) \/ Send(t) \/ \E u \in Turns : Resend(t, u)
         \/ ReadSession(t)
  PROVE  UNCHANGED Supervisor!vars
<1> DEFINE q == turn[t]
           r == turn'[t]
<1>1. /\ Others(t) /\ UNCHANGED project
      /\ q.pc \in UnreadSteps
      /\ r.pc \in UnreadSteps \/ r.result.intent # "ia_ee_help"
  <2>1. CASE ReadSession(t)
    BY <2>1, ReadSessionEffect DEF UnreadSteps
  <2>2. CASE Classify(t) \/ Send(t) \/ \E u \in Turns : Resend(t, u)
    BY <2>2, OpeningEffect DEF UnreadSteps
  <2>3. QED
    BY <2>1, <2>2
<1>2. Moves(t, r)
  BY <1>1, Moving DEF Others
<1>3. q \in TurnRecord /\ TurnInv(q) /\ r \in TurnRecord /\ TurnInv(r)
  BY <1>2 DEF Moves
<1> HIDE DEF r
<1>4. ProjectView(q) = Supervisor!Unborn /\ ProjectView(r) = Supervisor!Unborn
  BY <1>1, <1>3, ViewAt
<1>5. "disclosure" \notin q.wrote /\ "disclosure" \notin r.wrote
  BY <1>1, <1>3, WroteTells
  DEF UnreadSteps, DecidedSteps, LateSteps, EarlySteps
<1>6. QED
  BY <1>1, <1>2, <1>4, <1>5, ProjectStutters

LEMMA AnsweringStutters ==
  ASSUME IInv, IInv', NEW t \in Turns, StaysAnswering(t)
  PROVE  UNCHANGED Supervisor!vars
<1> DEFINE q == turn[t]
           r == turn'[t]
<1>1. /\ Others(t) /\ UNCHANGED project /\ Kept(q, r)
      /\ q.fate = "running" /\ r.fate = "running"
      /\ q.pc \in AnsweringSteps /\ r.pc \in AnsweringSteps
  BY DEF StaysAnswering
<1>2. Moves(t, r)
  BY <1>1, Moving DEF Others
<1>3. q \in TurnRecord /\ TurnInv(q) /\ r \in TurnRecord /\ TurnInv(r)
  BY <1>2 DEF Moves
<1> HIDE DEF r, q
<1>4. q.pc \in DecidedSteps /\ r.pc \in DecidedSteps
  BY <1>1 DEF AnsweringSteps, DecidedSteps, LateSteps, EarlySteps, Steps
<1>5. ProjectView(r) = ProjectView(q)
  <2>1. CASE r.result.intent = "ia_ee_help"
    BY <1>1, <1>3, <1>4, <2>1, ViewAt DEF Kept, SameSignals
  <2>2. CASE r.result.intent # "ia_ee_help"
    BY <1>1, <1>3, <1>4, <2>2, ViewAt DEF Kept, SameSignals
  <2>3. QED
    BY <2>1, <2>2
<1>6. "disclosure" \in r.wrote <=> "disclosure" \in q.wrote
  BY <1>1, <1>3, <1>4, WroteTells DEF Kept, SameSignals
<1>7. Entry(t, r) = Entry(t, q)
  BY <1>1 DEF Entry, Kept, SameSignals
<1>8. QED
  BY <1>1, <1>2, <1>5, <1>6, <1>7, ProjectStutters DEF q

LEMMA DecideStutters ==
  ASSUME IInv, IInv', NEW t \in Turns, Decide(t)
  PROVE  UNCHANGED Supervisor!vars
<1> DEFINE q == turn[t]
           r == turn'[t]
<1>1. /\ Others(t) /\ UNCHANGED project /\ SameSignals(q, r)
      /\ q.pc = "deciding" /\ r.wrote = q.wrote
      /\ q.fate = "running" /\ r.fate = "running"
      /\ q.result.intent = "ia_ee_help" => r.pc = "disclosing"
  BY DecideEffect
<1>2. Moves(t, r)
  BY <1>1, Moving DEF Others
<1>3. q \in TurnRecord /\ TurnInv(q) /\ r \in TurnRecord /\ TurnInv(r)
  BY <1>2 DEF Moves
<1> HIDE DEF r, q
<1>4. ProjectView(r) = ProjectView(q)
  <2>1. CASE r.result.intent = "ia_ee_help"
    BY <1>1, <1>3, <2>1, ViewAt DEF SameSignals
  <2>2. CASE r.result.intent # "ia_ee_help"
    BY <1>1, <1>3, <2>2, ViewAt DEF SameSignals
  <2>3. QED
    BY <2>1, <2>2
<1>5. "disclosure" \notin q.wrote
  BY <1>1, <1>3, WroteTells DEF DecidedSteps, LateSteps
<1>6. QED
  BY <1>1, <1>2, <1>4, <1>5, ProjectStutters DEF q

-----------------------------------------------------------------------------
\* The steps that are the supervisor's.
LEMMA SameProjectTurn ==
  ASSUME NEW a \in Supervisor!TurnRecord, NEW b \in Supervisor!TurnRecord,
         a.pc = b.pc, a.project = b.project, a.ghost = b.ghost,
         a.named = b.named, a.found = b.found, a.stage = b.stage,
         a.action = b.action
  PROVE  a = b
BY DEF Supervisor!TurnRecord

LEMMA SupervisorTypes ==
  /\ Supervisor!Stage = IAStage \cup {NoStage}
  /\ Supervisor!Action = Action
  /\ Supervisor!Undecided = Undecided /\ Undecided \in Action
  /\ Supervisor!NoStage = NoStage
<1>1. Supervisor!NoStage = NoStage /\ Supervisor!IAStage = IAStage
  BY DEF Supervisor!NoStage, NoStage, Supervisor!IAStage, IAStage
<1>2. Supervisor!Action = Action
  BY DEF Supervisor!Action, Action, Supervisor!ActionType, ActionType,
         Supervisor!MaxHintLadderLevel, MaxHintLadderLevel,
         Supervisor!Reason, Reason, Supervisor!GateReason, GateReason,
         Supervisor!IntentType, IntentType
<1>3. Supervisor!Undecided = Undecided
  BY DEF Undecided, Act, Supervisor!Undecided, Supervisor!Act
<1>4. Undecided \in Action
  BY DEF Undecided, Act, Action, ActionType, Reason, IntentType,
         MaxHintLadderLevel
<1>5. QED
  BY <1>1, <1>2, <1>3, <1>4 DEF Supervisor!Stage

LEMMA UnbornType ==
  /\ Supervisor!Unborn \in Supervisor!TurnRecord
  /\ Supervisor!Unborn.pc = "unborn"
  /\ Supervisor!Unborn.stage = NoStage
  /\ Supervisor!Unborn.action = Undecided
<1>1. (CHOOSE p \in Projects : TRUE) \in Projects
  BY DEF Projects, ProblemIds
<1>2. QED
  BY <1>1, SupervisorTypes DEF Supervisor!Unborn, Supervisor!TurnRecord

LEMMA ViewType ==
  ASSUME NEW r \in TurnRecord
  PROVE  ProjectView(r) \in Supervisor!TurnRecord
<1>1. ASSUME NEW pc \in {"loaded", "saved", "logged", "answered", "refused",
                         "failed"},
             NEW a \in Action
      PROVE  [pc |-> pc, project |-> r.request.problem, ghost |-> r.ghost,
              named |-> r.named, found |-> r.found, stage |-> r.stage,
              action |-> a] \in Supervisor!TurnRecord
  <2>1. /\ r.request.problem \in Projects /\ r.ghost \in BOOLEAN
        /\ r.named \in Supervisor!Stage /\ r.found \in Supervisor!Stage
        /\ r.stage \in Supervisor!Stage /\ a \in Supervisor!Action
    BY SupervisorTypes DEF TurnRecord, Request, Projects
  <2>2. QED
    BY <2>1 DEF Supervisor!TurnRecord
<1>2. r.action \in Action /\ Undecided \in Action
  BY SupervisorTypes DEF TurnRecord
<1> DEFINE a == IF "disclosure" \in r.wrote THEN r.action ELSE Undecided
<1>3. a \in Action
  BY <1>2
<1> HIDE DEF a
<1>4. QED
  BY <1>1, <1>3, UnbornType DEF ProjectView, a

LEMMA LoadStep ==
  ASSUME IInv, IInv', NEW t \in Turns, ReadProject(t)
  PROVE  Supervisor!Next
<1> DEFINE q == turn[t]
           r == turn'[t]
<1>1. /\ Others(t) /\ UNCHANGED project
      /\ r.request = q.request /\ r.result = q.result
      /\ r.ghost \in BOOLEAN /\ r.named \in TextStages \cup {NoStage}
      /\ r.found = project[q.request.problem]
      /\ q.pc = "reading_project" /\ r.pc = "saving_project"
      /\ r.fate = "running"
  BY ReadProjectEffect
<1>2. Moves(t, r)
  BY <1>1, Moving DEF Others
<1>3. /\ q \in TurnRecord /\ TurnInv(q) /\ r \in TurnRecord /\ TurnInv(r)
      /\ turn \in [Turns -> TurnRecord]
  BY <1>2 DEF Moves, IInv, TypeOK
<1> HIDE DEF r, q
<1>4. r.result.intent = "ia_ee_help" /\ r.stage = NoStage
  BY <1>1, <1>3 DEF TurnInv, Placed, Decided, EarlySteps
<1>5. /\ ProjectView(q) = Supervisor!Unborn
      /\ ProjectView(r) = [pc |-> "loaded", project |-> r.request.problem,
                           ghost |-> r.ghost, named |-> r.named,
                           found |-> r.found, stage |-> r.stage,
                           action |-> Undecided]
  BY <1>1, <1>3, <1>4, ViewAt DEF UnreadSteps
<1>6. /\ ProjectTurns' = [ProjectTurns EXCEPT ![t] = ProjectView(r)]
      /\ ProjectTurns[t] = Supervisor!Unborn
  BY <1>2, <1>3, <1>5, ViewMoves DEF q
<1>7. DisclosureLog' = DisclosureLog
  <2>1. "disclosure" \notin r.wrote /\ "disclosure" \notin q.wrote
    BY <1>1, <1>3, WroteTells DEF DecidedSteps, LateSteps, EarlySteps
  <2>2. QED
    BY <1>2, <1>3, <2>1, LogKept DEF q
<1>8. r.request.problem \in Projects
  BY <1>3, FlowConstants DEF TurnRecord, Request, Projects
<1>9. Supervisor!Load(t, r.request.problem, r.ghost, r.named)
  <2> DEFINE f == project[r.request.problem]
             v == [Supervisor!Unborn EXCEPT
                     !.pc = "loaded", !.project = r.request.problem,
                     !.ghost = r.ghost, !.named = r.named, !.found = f]
  <2>1. ProjectView(r) = v
    <3>1. /\ r.ghost \in BOOLEAN /\ r.named \in Supervisor!Stage
          /\ r.found = f /\ f \in Supervisor!Stage
          /\ r.request.problem \in Projects
      BY <1>1, <1>3, <1>8, SupervisorTypes DEF TurnRecord
    <3> HIDE DEF f
    <3>2. v \in Supervisor!TurnRecord
      BY <3>1, UnbornType, Zenon DEF Supervisor!TurnRecord
    <3>3. /\ v.pc = "loaded" /\ v.project = r.request.problem
          /\ v.named = r.named /\ v.found = f /\ v.stage = NoStage
          /\ v.action = Undecided
      BY UnbornType DEF Supervisor!TurnRecord
    <3>4. v.ghost = r.ghost
      BY UnbornType, Zenon DEF Supervisor!TurnRecord
    <3> HIDE DEF v
    <3>5. QED
      BY <1>3, <1>4, <1>5, <3>1, <3>2, <3>3, <3>4, ViewType, SameProjectTurn
  <2>2. ProjectTurns[t].pc = "unborn"
    BY <1>6 DEF Supervisor!Unborn
  <2>3. ProjectTurns' =
          [ProjectTurns EXCEPT ![t] =
             [Supervisor!Unborn EXCEPT
                !.pc = "loaded", !.project = r.request.problem,
                !.ghost = r.ghost, !.named = r.named,
                !.found = project[r.request.problem]]]
    BY <1>6, <2>1, Zenon
  <2>4. QED
    BY <1>1, <1>7, <2>2, <2>3, Zenon DEF Supervisor!Load, ProjectTurns
<1>10. QED
  BY <1>1, <1>8, <1>9
  DEF Supervisor!Next, NoStage, Supervisor!NoStage

\* The three ways in which the supervisor's steps change a turn.
ProjectSteps == {"unborn", "loaded", "saved", "logged", "answered", "refused",
                 "failed"}

LEMMA ViewMoved ==
  ASSUME NEW v \in Supervisor!TurnRecord, NEW w \in Supervisor!TurnRecord,
         NEW pc \in ProjectSteps, w.pc = pc,
         w.project = v.project, w.ghost = v.ghost, w.named = v.named,
         w.found = v.found, w.stage = v.stage, w.action = v.action
  PROVE  w = [v EXCEPT !.pc = pc]
<1> DEFINE x == [v EXCEPT !.pc = pc]
<1>1. x \in Supervisor!TurnRecord
  BY Zenon DEF Supervisor!TurnRecord, ProjectSteps
<1>2. /\ x.pc = pc /\ x.project = v.project /\ x.named = v.named
      /\ x.found = v.found /\ x.stage = v.stage /\ x.action = v.action
  BY DEF Supervisor!TurnRecord
<1>3. x.ghost = v.ghost
  BY Zenon DEF Supervisor!TurnRecord
<1> HIDE DEF x
<1>4. w = x
  BY <1>1, <1>2, <1>3, SameProjectTurn
<1>5. QED
  BY <1>4 DEF x

LEMMA ViewStaged ==
  ASSUME NEW v \in Supervisor!TurnRecord, NEW w \in Supervisor!TurnRecord,
         NEW pc \in ProjectSteps, NEW new \in Supervisor!Stage, w.pc = pc,
         w.project = v.project, w.ghost = v.ghost, w.named = v.named,
         w.found = v.found, w.stage = new, w.action = v.action
  PROVE  w = [v EXCEPT !.pc = pc, !.stage = new]
<1> DEFINE x == [v EXCEPT !.pc = pc, !.stage = new]
<1>1. x \in Supervisor!TurnRecord
  BY Zenon DEF Supervisor!TurnRecord, ProjectSteps
<1>2. /\ x.pc = pc /\ x.project = v.project /\ x.named = v.named
      /\ x.found = v.found /\ x.stage = new /\ x.action = v.action
  BY DEF Supervisor!TurnRecord
<1>3. x.ghost = v.ghost
  BY Zenon DEF Supervisor!TurnRecord
<1> HIDE DEF x
<1>4. w = x
  BY <1>1, <1>2, <1>3, SameProjectTurn
<1>5. QED
  BY <1>4 DEF x

LEMMA ViewDecided ==
  ASSUME NEW v \in Supervisor!TurnRecord, NEW w \in Supervisor!TurnRecord,
         NEW pc \in ProjectSteps, NEW a \in Supervisor!Action, w.pc = pc,
         w.project = v.project, w.ghost = v.ghost, w.named = v.named,
         w.found = v.found, w.stage = v.stage, w.action = a
  PROVE  w = [v EXCEPT !.pc = pc, !.action = a]
<1> DEFINE x == [v EXCEPT !.pc = pc, !.action = a]
<1>1. x \in Supervisor!TurnRecord
  BY Zenon DEF Supervisor!TurnRecord, ProjectSteps
<1>2. /\ x.pc = pc /\ x.project = v.project /\ x.named = v.named
      /\ x.found = v.found /\ x.stage = v.stage /\ x.action = a
  BY DEF Supervisor!TurnRecord
<1>3. x.ghost = v.ghost
  BY Zenon DEF Supervisor!TurnRecord
<1> HIDE DEF x
<1>4. w = x
  BY <1>1, <1>2, <1>3, SameProjectTurn
<1>5. QED
  BY <1>4 DEF x

LEMMA SaveStageStep ==
  ASSUME IInv, IInv', NEW t \in Turns, SaveProject(t)
  PROVE  Supervisor!SaveStage(t)
<1> DEFINE q == turn[t]
           r == turn'[t]
           new == AdvanceStage(q.found, q.named)
<1>1. /\ Others(t)
      /\ r.request = q.request /\ r.result = q.result
      /\ r.ghost = q.ghost /\ r.named = q.named /\ r.found = q.found
      /\ r.stage = new
      /\ q.pc = "saving_project" /\ r.pc = "deciding"
      /\ q.fate = "running" /\ r.fate = "running"
      /\ project' = [project EXCEPT ![q.request.problem] = new]
  BY SaveProjectEffect
<1>2. Moves(t, r)
  BY <1>1, Moving DEF Others
<1>3. /\ q \in TurnRecord /\ TurnInv(q) /\ r \in TurnRecord /\ TurnInv(r)
      /\ turn \in [Turns -> TurnRecord]
  BY <1>2 DEF Moves, IInv, TypeOK
<1>4. new = Supervisor!AdvanceStage(q.found, q.named)
  BY DEF AdvanceStage, Supervisor!AdvanceStage, NoStage, Supervisor!NoStage
<1> HIDE DEF r, q, new
<1>5. r.result.intent = "ia_ee_help"
  BY <1>1, <1>3 DEF TurnInv, Placed
<1> DEFINE v == ProjectView(q)
           w == ProjectView(r)
<1>6. /\ v = [pc |-> "loaded", project |-> q.request.problem,
              ghost |-> q.ghost, named |-> q.named, found |-> q.found,
              stage |-> q.stage, action |-> Undecided]
      /\ w = [pc |-> "saved", project |-> r.request.problem,
              ghost |-> r.ghost, named |-> r.named, found |-> r.found,
              stage |-> r.stage, action |-> Undecided]
  BY <1>1, <1>3, <1>5, ViewAt
<1>7. v \in Supervisor!TurnRecord /\ w \in Supervisor!TurnRecord
  BY <1>3, ViewType
<1>8. new \in Supervisor!Stage
  BY <1>1, <1>3, SupervisorTypes DEF TurnRecord
<1>9. w = [v EXCEPT !.pc = "saved", !.stage = new]
  <2> HIDE DEF v, w
  <2>1. /\ w.project = v.project /\ w.ghost = v.ghost /\ w.named = v.named
        /\ w.found = v.found /\ w.pc = "saved" /\ w.stage = new
        /\ w.action = v.action
    BY <1>1, <1>6
  <2>2. "saved" \in ProjectSteps
    BY DEF ProjectSteps
  <2>3. QED
    BY <1>7, <1>8, <2>1, <2>2, ViewStaged, Zenon
<1>10. ProjectTurns' = [ProjectTurns EXCEPT ![t] = w] /\ ProjectTurns[t] = v
  BY <1>2, <1>3, ViewMoves DEF q
<1>11. DisclosureLog' = DisclosureLog
  <2>1. "disclosure" \notin r.wrote /\ "disclosure" \notin q.wrote
    BY <1>1, <1>3, WroteTells DEF DecidedSteps, LateSteps, EarlySteps
  <2>2. QED
    BY <1>2, <1>3, <2>1, LogKept DEF q
<1>12. /\ v.pc = "loaded" /\ v.project = q.request.problem
       /\ v.found = q.found /\ v.named = q.named
  BY <1>6
<1> HIDE DEF v, w
<1>13. ProjectTurns' = [ProjectTurns EXCEPT ![t].pc = "saved", ![t].stage = new]
  BY <1>9, <1>10, Zenon
<1>14. QED
  BY <1>1, <1>4, <1>10, <1>11, <1>12, <1>13, Zenon
  DEF Supervisor!SaveStage, ProjectTurns

\* The policy is one and the same, whichever module calls it.
LEMMA SupervisorPolicy ==
  /\ \A sig : Supervisor!DecidePedagogicalAction(sig)
                = DecidePedagogicalAction(sig)
  /\ \A g, s : Supervisor!PossibleSignals("ia_ee_help", 0, 0, {FALSE}, {g}, {s})
                 = PossibleSignals("ia_ee_help", 0, 0, {FALSE}, {g}, {s})
  /\ \A a : Supervisor!Assistance(a) = Assistance(a)
<1>1. ASSUME NEW sig
      PROVE  Supervisor!DecidePedagogicalAction(sig)
               = DecidePedagogicalAction(sig)
  BY Zenon
  DEF Supervisor!DecidePedagogicalAction, DecidePedagogicalAction,
      Supervisor!HardGate, HardGate, Supervisor!RouteToIASupervisor,
      RouteToIASupervisor, Supervisor!SocraticLadder, SocraticLadder,
      Supervisor!ScheduleNextReviewItem, ScheduleNextReviewItem,
      Supervisor!Act, Act, Supervisor!LesserOf, LesserOf,
      Supervisor!MidAttemptHintCap, MidAttemptHintCap,
      Supervisor!MaxHintLadderLevel, MaxHintLadderLevel
<1>2. ASSUME NEW g, NEW s
      PROVE  Supervisor!PossibleSignals("ia_ee_help", 0, 0, {FALSE}, {g}, {s})
               = PossibleSignals("ia_ee_help", 0, 0, {FALSE}, {g}, {s})
  BY Zenon
  DEF Supervisor!PossibleSignals, PossibleSignals, Supervisor!AssessmentMode,
      AssessmentMode, Supervisor!EstimateSafetyResult, EstimateSafetyResult,
      Supervisor!Phrases, Phrases
<1>3. ASSUME NEW a
      PROVE  Supervisor!Assistance(a) = Assistance(a)
  BY DEF Supervisor!Assistance, Assistance
<1>4. QED
  BY <1>1, <1>2, <1>3

LEMMA LogDisclosureStep ==
  ASSUME IInv, IInv', NEW t \in Turns, Disclose(t)
  PROVE  Supervisor!LogDisclosure(t)
<1> DEFINE q == turn[t]
           r == turn'[t]
           v == ProjectView(q)
           w == ProjectView(r)
<1>1. /\ Others(t) /\ UNCHANGED project /\ Kept(q, r)
      /\ q.pc = "disclosing" /\ r.pc \in DecidedSteps
      /\ q.fate = "running" /\ r.fate = "running"
  BY DiscloseEffect
<1>2. Moves(t, r)
  BY <1>1, Moving DEF Others
<1>3. /\ q \in TurnRecord /\ TurnInv(q) /\ r \in TurnRecord /\ TurnInv(r)
      /\ turn \in [Turns -> TurnRecord]
  BY <1>2 DEF Moves, IInv, TypeOK
<1> HIDE DEF r, q
<1>4. /\ q.result.intent = "ia_ee_help" /\ r.result.intent = "ia_ee_help"
      /\ q.action \in IADecisions(q.ghost, q.stage)
      /\ q.action \in Supervisor!Action
  <2>1. q.result.intent = "ia_ee_help" /\ r.result.intent = "ia_ee_help"
    BY <1>1, <1>3 DEF TurnInv, Placed, Kept, SameSignals
  <2>2. q.action \in IADecisions(q.ghost, q.stage)
    BY <1>1, <1>3 DEF TurnInv, Decided
  <2>3. q.action \in Supervisor!Action
    BY <1>3, SupervisorTypes DEF TurnRecord
  <2>4. QED
    BY <2>1, <2>2, <2>3
<1>5. /\ v = [pc |-> "saved", project |-> q.request.problem,
              ghost |-> q.ghost, named |-> q.named, found |-> q.found,
              stage |-> q.stage, action |-> Undecided]
      /\ w = [pc |-> "logged", project |-> r.request.problem,
              ghost |-> r.ghost, named |-> r.named, found |-> r.found,
              stage |-> r.stage, action |-> r.action]
  BY <1>1, <1>3, <1>4, ViewAt
<1>6. v \in Supervisor!TurnRecord /\ w \in Supervisor!TurnRecord
  BY <1>3, ViewType
<1>7. ProjectTurns' = [ProjectTurns EXCEPT ![t] = w] /\ ProjectTurns[t] = v
  BY <1>2, <1>3, ViewMoves DEF q
<1>8. DisclosureLog' = DisclosureLog \cup {Entry(t, q)}
  <2>1. "disclosure" \in r.wrote /\ "disclosure" \notin q.wrote
    BY <1>1, <1>3, <1>4, WroteTells DEF DecidedSteps
  <2>2. DisclosureLog' = DisclosureLog \cup {Entry(t, r)}
    BY <1>2, <1>3, <2>1, LogGrows DEF q
  <2>3. QED
    BY <1>1, <2>2 DEF Entry, Kept, SameSignals
<1>9. /\ v.pc = "saved" /\ v.project = q.request.problem
      /\ v.stage = q.stage /\ v.ghost = q.ghost
  BY <1>5
<1>10. /\ w.project = v.project /\ w.ghost = v.ghost /\ w.named = v.named
       /\ w.found = v.found /\ w.pc = "logged" /\ w.stage = v.stage
       /\ w.action = q.action /\ "logged" \in ProjectSteps
  BY <1>1, <1>5 DEF Kept, SameSignals, ProjectSteps
<1> HIDE DEF v, w
<1>11. w = [v EXCEPT !.pc = "logged", !.action = q.action]
  <2>1. q.action \in Supervisor!Action
    BY <1>4
  <2>2. QED
    BY <1>6, <1>10, <2>1, ViewDecided, Zenon
<1>12. ProjectTurns' = [ProjectTurns EXCEPT ![t].pc = "logged",
                                            ![t].action = q.action]
  BY <1>7, <1>11, Zenon
<1>13. q.action \in Supervisor!Decisions(t)
  <2>1. PICK sig \in PossibleSignals("ia_ee_help", 0, 0, {FALSE}, {q.ghost},
                                     {q.stage}) :
          q.action = DecidePedagogicalAction(sig)
    BY <1>4 DEF IADecisions
  <2>2. /\ sig \in Supervisor!PossibleSignals(
                    "ia_ee_help", 0, 0, {FALSE}, {ProjectTurns[t].ghost},
                    {ProjectTurns[t].stage})
        /\ q.action = Supervisor!DecidePedagogicalAction(sig)
    BY <1>7, <1>9, <2>1, SupervisorPolicy
  <2>3. QED
    BY <2>2, Zenon DEF Supervisor!Decisions, ProjectTurns
<1>14. DisclosureLog' =
         DisclosureLog \cup
           {[turn |-> t, project |-> ProjectTurns[t].project,
             stage |-> ProjectTurns[t].stage,
             assistance |-> Supervisor!Assistance(q.action)]}
  BY <1>7, <1>8, <1>9, SupervisorPolicy DEF Entry
<1>15. QED
  BY <1>1, <1>7, <1>9, <1>12, <1>13, <1>14, Zenon
  DEF Supervisor!LogDisclosure, ProjectTurns

\* A turn that ends leaves the supervisor's tables as they are.
LEMMA EndingView ==
  ASSUME IInv, IInv', NEW t \in Turns,
         Others(t), UNCHANGED project, Kept(turn[t], turn'[t]),
         turn'[t].pc = turn[t].pc,
         NEW v, v = ProjectView(turn[t]), NEW w, w = ProjectView(turn'[t])
  PROVE  /\ ProjectTurns' = [ProjectTurns EXCEPT ![t] = w]
         /\ ProjectTurns[t] = v
         /\ v \in Supervisor!TurnRecord /\ w \in Supervisor!TurnRecord
         /\ DisclosureLog' = DisclosureLog
         /\ v = w => UNCHANGED Supervisor!vars
         /\ turn[t].result.intent # "ia_ee_help"
              \/ turn[t].pc \in UnreadSteps => v = w
         /\ "disclosure" \in turn'[t].wrote <=> "disclosure" \in turn[t].wrote
<1> DEFINE q == turn[t]
           r == turn'[t]
<1>1. Moves(t, r)
  BY Moving DEF Others
<1>2. /\ q \in TurnRecord /\ TurnInv(q) /\ r \in TurnRecord /\ TurnInv(r)
      /\ turn \in [Turns -> TurnRecord]
  BY <1>1 DEF Moves, IInv, TypeOK
<1>3. Kept(q, r) /\ r.pc = q.pc
  OBVIOUS
<1> HIDE DEF r, q
<1>4. "disclosure" \in r.wrote <=> "disclosure" \in q.wrote
  BY <1>2, <1>3, WroteTells DEF Kept, SameSignals
<1>5. Entry(t, r) = Entry(t, q)
  BY <1>3 DEF Entry, Kept, SameSignals
<1>6. DisclosureLog' = DisclosureLog
  BY <1>1, <1>2, <1>4, <1>5, LogKept DEF q
<1>7. v = w => UNCHANGED Supervisor!vars
  BY <1>1, <1>4, <1>5, ProjectStutters DEF q, r
<1>8. q.result.intent # "ia_ee_help" \/ q.pc \in UnreadSteps => v = w
  BY <1>2, <1>3, ViewAt DEF Kept, SameSignals, q, r
<1>9. /\ ProjectTurns' = [ProjectTurns EXCEPT ![t] = w]
      /\ ProjectTurns[t] = v
      /\ v \in Supervisor!TurnRecord /\ w \in Supervisor!TurnRecord
  BY <1>1, <1>2, ViewMoves, ViewType DEF q, r
<1>10. QED
  BY <1>4, <1>6, <1>7, <1>8, <1>9 DEF q, r

LEMMA RefuseStep ==
  ASSUME IInv, IInv', NEW t \in Turns, Refuse(t)
  PROVE  Supervisor!Refuse(t) \/ UNCHANGED Supervisor!vars
<1> DEFINE q == turn[t]
           r == turn'[t]
           v == ProjectView(q)
           w == ProjectView(r)
<1>1. /\ Others(t) /\ UNCHANGED project /\ Kept(q, r) /\ r.pc = q.pc
      /\ q.pc = "refusing" /\ q.fate = "running" /\ r.fate = "delivered"
  BY EndEffect
<1>2. /\ ProjectTurns' = [ProjectTurns EXCEPT ![t] = w] /\ ProjectTurns[t] = v
      /\ v \in Supervisor!TurnRecord /\ w \in Supervisor!TurnRecord
      /\ DisclosureLog' = DisclosureLog
      /\ v = w => UNCHANGED Supervisor!vars
      /\ q.result.intent # "ia_ee_help" => v = w
  BY <1>1, EndingView
<1>3. /\ q \in TurnRecord /\ TurnInv(q) /\ r \in TurnRecord /\ TurnInv(r)
  BY DEF IInv, TypeOK
<1> HIDE DEF q, r
<1>4. CASE q.result.intent # "ia_ee_help"
  BY <1>2, <1>4
<1>5. CASE q.result.intent = "ia_ee_help"
  <2>1. q.pc \in DecidedSteps /\ r.result.intent = "ia_ee_help"
    BY <1>1, <1>5
    DEF DecidedSteps, LateSteps, EarlySteps, Steps, Kept, SameSignals
  <2>2. /\ v = [pc |-> "logged", project |-> q.request.problem,
                ghost |-> q.ghost, named |-> q.named, found |-> q.found,
                stage |-> q.stage, action |-> q.action]
        /\ w = [pc |-> "refused", project |-> r.request.problem,
                ghost |-> r.ghost, named |-> r.named, found |-> r.found,
                stage |-> r.stage, action |-> r.action]
    BY <1>1, <1>3, <1>5, <2>1, ViewAt
  <2>3. q.action.type = "refuse"
    BY <1>1, <1>3 DEF TurnInv, Placed
  <2>4. /\ w.project = v.project /\ w.ghost = v.ghost /\ w.named = v.named
        /\ w.found = v.found /\ w.pc = "refused" /\ w.stage = v.stage
        /\ w.action = v.action /\ "refused" \in ProjectSteps
        /\ v.pc = "logged" /\ v.action.type = "refuse"
    BY <1>1, <2>2, <2>3 DEF Kept, SameSignals, ProjectSteps
  <2> HIDE DEF v, w
  <2>5. w = [v EXCEPT !.pc = "refused"]
    BY <1>2, <2>4, ViewMoved, Zenon
  <2>6. ProjectTurns' = [ProjectTurns EXCEPT ![t].pc = "refused"]
    BY <1>2, <2>5, Zenon
  <2>7. QED
    BY <1>1, <1>2, <2>4, <2>6, Zenon DEF Supervisor!Refuse, ProjectTurns
<1>6. QED
  BY <1>4, <1>5

LEMMA CoachStep ==
  ASSUME IInv, IInv', NEW t \in Turns, Save(t)
  PROVE  Supervisor!Coach(t) \/ UNCHANGED Supervisor!vars
<1> DEFINE q == turn[t]
           r == turn'[t]
           v == ProjectView(q)
           w == ProjectView(r)
<1>1. /\ Others(t) /\ UNCHANGED project /\ Kept(q, r) /\ r.pc = q.pc
      /\ q.pc = "saving" /\ q.fate = "running" /\ r.fate = "delivered"
  BY SaveEffect
<1>2. /\ ProjectTurns' = [ProjectTurns EXCEPT ![t] = w] /\ ProjectTurns[t] = v
      /\ v \in Supervisor!TurnRecord /\ w \in Supervisor!TurnRecord
      /\ DisclosureLog' = DisclosureLog
      /\ v = w => UNCHANGED Supervisor!vars
      /\ q.result.intent # "ia_ee_help" => v = w
  BY <1>1, EndingView
<1>3. /\ q \in TurnRecord /\ TurnInv(q) /\ r \in TurnRecord /\ TurnInv(r)
  BY DEF IInv, TypeOK
<1> HIDE DEF q, r
<1>4. CASE q.result.intent # "ia_ee_help"
  BY <1>2, <1>4
<1>5. CASE q.result.intent = "ia_ee_help"
  <2>1. q.pc \in DecidedSteps /\ r.result.intent = "ia_ee_help"
    BY <1>1, <1>5
    DEF DecidedSteps, LateSteps, EarlySteps, Steps, Kept, SameSignals
  <2>2. /\ v = [pc |-> "logged", project |-> q.request.problem,
                ghost |-> q.ghost, named |-> q.named, found |-> q.found,
                stage |-> q.stage, action |-> q.action]
        /\ w = [pc |-> "answered", project |-> r.request.problem,
                ghost |-> r.ghost, named |-> r.named, found |-> r.found,
                stage |-> r.stage, action |-> r.action]
    BY <1>1, <1>3, <1>5, <2>1, ViewAt
  <2>3. q.action.type # "refuse"
    BY <1>1, <1>3 DEF TurnInv, Placed
  <2>4. /\ w.project = v.project /\ w.ghost = v.ghost /\ w.named = v.named
        /\ w.found = v.found /\ w.pc = "answered" /\ w.stage = v.stage
        /\ w.action = v.action /\ "answered" \in ProjectSteps
        /\ v.pc = "logged" /\ v.action.type # "refuse"
    BY <1>1, <2>2, <2>3 DEF Kept, SameSignals, ProjectSteps
  <2> HIDE DEF v, w
  <2>5. w = [v EXCEPT !.pc = "answered"]
    BY <1>2, <2>4, ViewMoved, Zenon
  <2>6. ProjectTurns' = [ProjectTurns EXCEPT ![t].pc = "answered"]
    BY <1>2, <2>5, Zenon
  <2>7. QED
    BY <1>1, <1>2, <2>4, <2>6, Zenon DEF Supervisor!Coach, ProjectTurns
<1>6. QED
  BY <1>4, <1>5

LEMMA FailStep ==
  ASSUME IInv, IInv', NEW t \in Turns, Raise(t) \/ Lose(t)
  PROVE  Supervisor!Fail(t) \/ UNCHANGED Supervisor!vars
<1> DEFINE q == turn[t]
           r == turn'[t]
           v == ProjectView(q)
           w == ProjectView(r)
<1>1. /\ Others(t) /\ UNCHANGED project /\ Kept(q, r) /\ r.pc = q.pc
      /\ q.fate = "running"
  BY EndEffect
<1>2. r.fate \in {"failed", "lost"}
  <2>1. turn \in [Turns -> TurnRecord]
    BY DEF IInv, TypeOK
  <2>2. QED
    BY <2>1 DEF Raise, Lose, UnderWay, TurnRecord
<1>3. /\ ProjectTurns' = [ProjectTurns EXCEPT ![t] = w] /\ ProjectTurns[t] = v
      /\ v \in Supervisor!TurnRecord /\ w \in Supervisor!TurnRecord
      /\ DisclosureLog' = DisclosureLog
      /\ v = w => UNCHANGED Supervisor!vars
      /\ q.result.intent # "ia_ee_help" \/ q.pc \in UnreadSteps => v = w
      /\ "disclosure" \in r.wrote <=> "disclosure" \in q.wrote
  BY <1>1, EndingView
<1>4. /\ q \in TurnRecord /\ TurnInv(q) /\ r \in TurnRecord /\ TurnInv(r)
  BY DEF IInv, TypeOK
<1> HIDE DEF q, r
<1>5. CASE q.result.intent # "ia_ee_help" \/ q.pc \in UnreadSteps
  BY <1>3, <1>5
<1>6. CASE q.result.intent = "ia_ee_help" /\ q.pc \notin UnreadSteps
  <2> DEFINE a == IF "disclosure" \in q.wrote THEN q.action ELSE Undecided
  <2>1. /\ q.path # "refused" /\ q.fate \notin {"failed", "lost", "delivered"}
        /\ r.result.intent = "ia_ee_help" /\ r.pc \notin UnreadSteps
    BY <1>1, <1>4, <1>6, WroteTells DEF Kept, SameSignals
  <2>2. \E pc \in {"loaded", "saved", "logged"} :
          v = [pc |-> pc, project |-> q.request.problem,
               ghost |-> q.ghost, named |-> q.named, found |-> q.found,
               stage |-> q.stage, action |-> a]
    BY <1>6, <2>1 DEF ProjectView
  <2>3. w = [pc |-> "failed", project |-> r.request.problem,
             ghost |-> r.ghost, named |-> r.named, found |-> r.found,
             stage |-> r.stage, action |-> a]
    BY <1>1, <1>2, <1>3, <2>1 DEF ProjectView, Kept
  <2> HIDE DEF v, w, a
  <2>4. /\ w.project = v.project /\ w.ghost = v.ghost /\ w.named = v.named
        /\ w.found = v.found /\ w.pc = "failed" /\ w.stage = v.stage
        /\ w.action = v.action /\ "failed" \in ProjectSteps
    BY <1>1, <2>2, <2>3 DEF Kept, SameSignals, ProjectSteps
  <2>5. w = [v EXCEPT !.pc = "failed"]
    BY <1>3, <2>4, ViewMoved, Zenon
  <2>6. ProjectTurns' = [ProjectTurns EXCEPT ![t].pc = "failed"]
    BY <1>3, <2>5, Zenon
  <2>7. ProjectTurns[t].pc \in {"loaded", "saved", "logged"}
    BY <1>3, <2>2
  <2>8. QED
    BY <1>1, <1>3, <2>6, <2>7, Zenon
    DEF Supervisor!Fail, Supervisor!UnderWay, ProjectTurns
<1>7. QED
  BY <1>5, <1>6

-----------------------------------------------------------------------------
LEMMA SameTurns ==
  ASSUME UNCHANGED <<turn, project>>
  PROVE  UNCHANGED Supervisor!vars
<1>1. DisclosureLog' = DisclosureLog
  BY DEF DisclosureLog
<1>2. ProjectTurns' = ProjectTurns
  BY ViewOfTurn DEF ProjectTurns
<1>3. QED
  BY <1>1, <1>2 DEF Supervisor!vars, ProjectTurns

LEMMA SupervisorNext ==
  ASSUME IInv, IInv', [Next]_vars
  PROVE  [Supervisor!Next]_(Supervisor!vars)
<1>1. CASE UNCHANGED vars
  BY <1>1, SameTurns DEF vars
<1>2. ASSUME NEW t \in Turns,
             \/ Send(t)
             \/ \E u \in Turns : Resend(t, u)
             \/ GiveUp(t)
             \/ Proceed(t)
             \/ \E b \in GradeTables : StageRaises(t, b)
             \/ Raise(t)
             \/ Lose(t)
      PROVE  [Supervisor!Next]_(Supervisor!vars)
  <2>1. CASE \/ Classify(t) \/ Send(t) \/ \E u \in Turns : Resend(t, u)
             \/ ReadSession(t)
    BY <2>1, UnreadStutters
  <2>2. CASE GiveUp(t)
    BY <2>2, SameTurns DEF GiveUp
  <2>3. CASE \/ Ingest(t) \/ Grade(t) \/ Diagnose(t) \/ Respond(t) \/ Tutor(t)
             \/ Measure(t) \/ Queue(t)
             \/ \E b \in GradeTables : StageEnds(t, b) \/ StageRaises(t, b)
    BY <2>3, AnsweringEffect, AnsweringStutters
  <2>4. CASE ReadProject(t)
    BY <2>4, LoadStep
  <2>5. CASE SaveProject(t)
    BY <2>5, SaveStageStep DEF Supervisor!Next
  <2>6. CASE Decide(t)
    BY <2>6, DecideStutters
  <2>7. CASE Disclose(t)
    BY <2>7, LogDisclosureStep DEF Supervisor!Next
  <2>8. CASE Refuse(t)
    BY <2>8, RefuseStep DEF Supervisor!Next
  <2>9. CASE Save(t)
    BY <2>9, CoachStep DEF Supervisor!Next
  <2>10. CASE Raise(t) \/ Lose(t)
    BY <2>10, FailStep DEF Supervisor!Next
  <2>11. QED
    BY <1>2, <2>1, <2>2, <2>3, <2>4, <2>5, <2>6, <2>7, <2>8, <2>9, <2>10
    DEF Proceed
<1>3. QED
  BY <1>1, <1>2, Zenon DEF Next

LEMMA SupervisorInit == Init => Supervisor!Init
<1> SUFFICES ASSUME Init PROVE Supervisor!Init
  OBVIOUS
<1>1. \A t \in Turns : turn[t] = Unborn(t)
  BY DEF Init
<1>2. ASSUME NEW t \in Turns
      PROVE  turn[t].pc = "classifying" /\ turn[t].wrote = {}
  BY <1>1, UnbornOk
<1>3. \A t \in Turns : ProjectTurn(t) = Supervisor!Unborn
  <2>1. \A t \in Turns : turn[t].pc \in UnreadSteps
    BY <1>2 DEF UnreadSteps
  <2>2. QED
    BY <2>1, ViewOfTurn, Zenon DEF ProjectView
<1>4. DisclosureLog = {}
  BY <1>2 DEF DisclosureLog
<1>5. project = [p \in Projects |-> Supervisor!NoStage]
  BY SupervisorTypes DEF Init
<1>6. QED
  BY <1>3, <1>4, <1>5 DEF Supervisor!Init

\* The ia_ee_help turns of POST /turn, with resends, faults and clients that do
\* not wait, read, advance, disclose and refuse as IAProject says, so what is
\* proved of it holds of them (handle_turn.py:388-470).
THEOREM ProjectRefinement == Spec => ProjectOfTurns
<1>1. IInv /\ IInv' /\ [Next]_vars => [Supervisor!Next]_(Supervisor!vars)
  BY SupervisorNext
<1>2. QED
  BY <1>1, SupervisorInit, Inductive, PTL
  DEF ProjectOfTurns, Supervisor!Spec, Spec

-----------------------------------------------------------------------------
\* A turn as the session ladder sees it: LadderTurn, of a record.
LadderView(r) ==
  LET seen(pc, action) ==
        [pc |-> pc, session |-> r.request.session,
         problem |-> r.request.problem, intent |-> r.result.intent,
         current |-> r.current, action |-> action]
  IN IF r.fate # "running" THEN NoTurn
     ELSE IF r.pc \in LoadedSteps THEN seen("loaded", Undecided)
     ELSE IF r.pc \in AnsweringSteps THEN seen("answering", r.action)
     ELSE NoTurn

\* The ladder's variables, named.
LadderTurns == [t \in Turns |-> LadderTurn(t)]

AskedCounts ==
  [s \in Sessions |-> [p \in ProblemIds |-> Cardinality(Asked(s, p))]]

LEMMA LadderViewOfTurn ==
  ASSUME NEW t \in Turns
  PROVE  /\ LadderTurn(t) = LadderView(turn[t])
         /\ LadderTurn(t)' = LadderView(turn'[t])
BY Zenon DEF LadderTurn, LadderView

LEMMA LadderViewMoves ==
  ASSUME NEW t \in Turns, NEW r, Moves(t, r),
         turn \in [Turns -> TurnRecord]
  PROVE  /\ LadderTurns' = [LadderTurns EXCEPT ![t] = LadderView(r)]
         /\ LadderTurns[t] = LadderView(turn[t])
<1>1. LadderTurns = [u \in Turns |-> LadderView(turn[u])]
  BY LadderViewOfTurn DEF LadderTurns
<1>2. LadderTurns' = [u \in Turns |-> LadderView(turn'[u])]
  BY LadderViewOfTurn DEF LadderTurns
<1>3. turn'[t] = r /\ \A u \in Turns \ {t} : turn'[u] = turn[u]
  BY DEF Moves
<1>4. QED
  BY <1>1, <1>2, <1>3

\* The policy and the types are one and the same in both modules.
LEMMA LadderPolicy ==
  /\ Ladder!TurnState =
       [pc : {"loaded", "answering"}, session : Sessions, problem : ProblemIds,
        intent : IntentType,
        current : [problem : ProblemIds, attempts : Nat,
                   level : 0..MaxHintLadderLevel],
        action : Action]
  /\ Ladder!IntentType = IntentType /\ Ladder!Undecided = Undecided
  /\ Ladder!ProblemIds = ProblemIds
  /\ \A i, n, l : Ladder!PossibleDecisions(i, n, l) = PossibleDecisions(i, n, l)
<1>1. Ladder!Action = Action /\ Ladder!IntentType = IntentType
  BY DEF Ladder!Action, Action, Ladder!ActionType, ActionType,
         Ladder!MaxHintLadderLevel, MaxHintLadderLevel,
         Ladder!Reason, Reason, Ladder!GateReason, GateReason,
         Ladder!IntentType, IntentType
<1>2. Ladder!Undecided = Undecided /\ Ladder!ProblemIds = ProblemIds
  BY DEF Undecided, Act, Ladder!Undecided, Ladder!Act, ProblemIds,
         Ladder!ProblemIds
<1>3. ASSUME NEW i, NEW n, NEW l
      PROVE  Ladder!PossibleDecisions(i, n, l) = PossibleDecisions(i, n, l)
  <2>1. \A sig : Ladder!DecidePedagogicalAction(sig)
                   = DecidePedagogicalAction(sig)
    BY Zenon
    DEF Ladder!DecidePedagogicalAction, DecidePedagogicalAction,
        Ladder!HardGate, HardGate, Ladder!RouteToIASupervisor,
        RouteToIASupervisor, Ladder!SocraticLadder, SocraticLadder,
        Ladder!ScheduleNextReviewItem, ScheduleNextReviewItem,
        Ladder!Act, Act, Ladder!LesserOf, LesserOf,
        Ladder!MidAttemptHintCap, MidAttemptHintCap,
        Ladder!MaxHintLadderLevel, MaxHintLadderLevel
  <2>2. \A d, g, s : Ladder!PossibleSignals(i, n, l, d, g, s)
                       = PossibleSignals(i, n, l, d, g, s)
    BY Zenon
    DEF Ladder!PossibleSignals, PossibleSignals, Ladder!AssessmentMode,
        AssessmentMode, Ladder!EstimateSafetyResult, EstimateSafetyResult,
        Ladder!Phrases, Phrases
  <2>3. /\ Ladder!PossibleDues(i) = PossibleDues(i)
        /\ Ladder!PossibleGhosts(i) = PossibleGhosts(i)
        /\ Ladder!PossibleStages(i) = PossibleStages(i)
    BY Zenon
    DEF Ladder!PossibleDues, PossibleDues, Ladder!PossibleGhosts,
        PossibleGhosts, Ladder!PossibleStages, PossibleStages,
        Ladder!IAStage, IAStage, Ladder!NoStage, NoStage
  <2>4. QED
    BY <2>1, <2>2, <2>3 DEF Ladder!PossibleDecisions, PossibleDecisions
<1>4. QED
  BY <1>1, <1>2, <1>3, CurrentType DEF Ladder!TurnState

\* What the view of a turn is at each step.
LEMMA LadderViewAt ==
  ASSUME NEW r \in TurnRecord
  PROVE  LET seen(pc, action) ==
               [pc |-> pc, session |-> r.request.session,
                problem |-> r.request.problem, intent |-> r.result.intent,
                current |-> r.current, action |-> action]
         IN /\ r.fate # "running" => LadderView(r) = NoTurn
            /\ r.pc \in {"classifying", "reading_session"} =>
                 LadderView(r) = NoTurn
            /\ r.fate = "running" /\ r.pc \in LoadedSteps =>
                 /\ LadderView(r) = seen("loaded", Undecided)
                 /\ LadderView(r) # NoTurn
            /\ r.fate = "running" /\ r.pc \in AnsweringSteps =>
                 /\ LadderView(r) = seen("answering", r.action)
                 /\ LadderView(r) # NoTurn
<1> DEFINE seen(pc, action) ==
             [pc |-> pc, session |-> r.request.session,
              problem |-> r.request.problem, intent |-> r.result.intent,
              current |-> r.current, action |-> action]
<1>1. ASSUME NEW pc \in {"loaded", "answering"}, NEW a \in Action
      PROVE  seen(pc, a) # NoTurn
  <2>1. /\ r.request.session \in Sessions /\ r.request.problem \in ProblemIds
        /\ r.result.intent \in IntentType
        /\ r.current \in [problem : ProblemIds, attempts : Nat,
                          level : 0..MaxHintLadderLevel]
    BY DEF TurnRecord, Request, IntentResult
  <2>2. seen(pc, a) \in Ladder!TurnState
    BY <2>1, LadderPolicy
  <2>3. QED
    BY <2>2, FlowSlots
<1>2. r.action \in Action /\ Undecided \in Action
  BY SupervisorTypes DEF TurnRecord
<1>3. CASE r.fate # "running" \/ r.pc \in {"classifying", "reading_session"}
  BY <1>3 DEF LadderView, LoadedSteps, AnsweringSteps
<1>4. CASE r.fate = "running" /\ r.pc \in LoadedSteps
  BY <1>1, <1>2, <1>4 DEF LadderView, LoadedSteps, AnsweringSteps
<1>5. CASE r.fate = "running" /\ r.pc \in AnsweringSteps
  BY <1>1, <1>2, <1>5 DEF LadderView, LoadedSteps, AnsweringSteps
<1>6. QED
  BY <1>3, <1>4, <1>5 DEF TurnRecord, Steps, LoadedSteps, AnsweringSteps

-----------------------------------------------------------------------------
\* Whether an answered turn asked for a solution of problem p in session s.
Counts(r, s, p) ==
  /\ "session" \in r.wrote
  /\ r.result.intent = "solve_request"
  /\ r.request.session = s
  /\ r.current.problem = p

LEMMA AskedIs ==
  ASSUME NEW s, NEW p
  PROVE  /\ Asked(s, p) = {u \in Turns : Counts(turn[u], s, p)}
         /\ Asked(s, p)' = {u \in Turns : Counts(turn'[u], s, p)}
BY DEF Asked, Counts

LEMMA AskedKept ==
  ASSUME NEW t \in Turns, NEW r, Moves(t, r),
         turn \in [Turns -> TurnRecord],
         "session" \notin turn[t].wrote, "session" \notin r.wrote
  PROVE  AskedCounts' = AskedCounts
<1>1. turn'[t] = r /\ \A u \in Turns \ {t} : turn'[u] = turn[u]
  BY DEF Moves
<1>2. ASSUME NEW s, NEW p
      PROVE  Asked(s, p)' = Asked(s, p)
  <2>1. \A u \in Turns : Counts(turn'[u], s, p) <=> Counts(turn[u], s, p)
    <3> SUFFICES ASSUME NEW u \in Turns
                 PROVE  Counts(turn'[u], s, p) <=> Counts(turn[u], s, p)
      OBVIOUS
    <3>1. CASE u = t
      BY <1>1, <3>1, Zenon DEF Counts
    <3>2. CASE u # t
      <4>1. turn'[u] = turn[u]
        BY <1>1, <3>2
      <4>2. QED
        BY <4>1, Zenon
    <3>3. QED
      BY <3>1, <3>2
  <2>2. QED
    BY <2>1, AskedIs
<1>3. QED
  BY <1>2, Zenon DEF AskedCounts

LEMMA LadderStutters ==
  ASSUME IInv, NEW t \in Turns, NEW r, Moves(t, r), UNCHANGED session,
         LadderView(r) = LadderView(turn[t]),
         "session" \notin turn[t].wrote, "session" \notin r.wrote
  PROVE  UNCHANGED Ladder!vars
<1>1. turn \in [Turns -> TurnRecord]
  BY DEF IInv, TypeOK
<1>2. AskedCounts' = AskedCounts
  BY <1>1, AskedKept
<1>3. LadderTurns' = LadderTurns
  <2>1. /\ LadderTurns' = [LadderTurns EXCEPT ![t] = LadderView(r)]
        /\ LadderTurns[t] = LadderView(turn[t])
    BY <1>1, LadderViewMoves
  <2>2. LadderTurns = [u \in Turns |-> LadderTurns[u]]
    BY DEF LadderTurns
  <2>3. QED
    BY <2>1, <2>2
<1>4. QED
  BY <1>2, <1>3 DEF Ladder!vars, LadderTurns, AskedCounts

\* A step of one turn that is not its save, with what the ladder sees of it.
LEMMA LadderMove ==
  ASSUME IInv, IInv', NEW t \in Turns, Others(t), UNCHANGED session,
         turn[t].fate # "delivered",
         turn'[t].fate = "delivered" => turn'[t].pc # "saving"
  PROVE  /\ turn[t] \in TurnRecord /\ TurnInv(turn[t])
         /\ turn'[t] \in TurnRecord /\ TurnInv(turn'[t])
         /\ LadderTurns' = [LadderTurns EXCEPT ![t] = LadderView(turn'[t])]
         /\ LadderTurns[t] = LadderView(turn[t])
         /\ AskedCounts' = AskedCounts
         /\ LadderView(turn'[t]) = LadderView(turn[t]) =>
              UNCHANGED Ladder!vars
<1> DEFINE q == turn[t]
           r == turn'[t]
<1>1. Moves(t, r)
  BY Moving DEF Others
<1>2. /\ q \in TurnRecord /\ TurnInv(q) /\ r \in TurnRecord /\ TurnInv(r)
      /\ turn \in [Turns -> TurnRecord]
  BY <1>1 DEF Moves, IInv, TypeOK
<1>3. "session" \notin q.wrote /\ "session" \notin r.wrote
  BY <1>2, WroteTells
<1> HIDE DEF r
<1>4. QED
  BY <1>1, <1>2, <1>3, AskedKept, LadderViewMoves, LadderStutters DEF r

\* No problem of a session has more answered solve requests than turns.
LEMMA AskedBound ==
  ASSUME NEW s \in Sessions, NEW p \in ProblemIds
  PROVE  /\ IsFiniteSet(Asked(s, p))
         /\ AskedCounts[s][p] \in Nat
         /\ AskedCounts[s][p] < Cardinality(Turns) + 1
<1>1. Asked(s, p) \subseteq Turns
  BY DEF Asked
<1>2. /\ IsFiniteSet(Asked(s, p))
      /\ Cardinality(Asked(s, p)) <= Cardinality(Turns)
  BY <1>1, FS_Subset, FlowConstants
<1>3. Cardinality(Turns) \in Nat /\ Cardinality(Asked(s, p)) \in Nat
  BY <1>2, FS_CardinalityType, FlowConstants
<1>4. AskedCounts[s][p] = Cardinality(Asked(s, p))
  BY DEF AskedCounts
<1>5. QED
  BY <1>2, <1>3, <1>4

-----------------------------------------------------------------------------
LEMMA BeginStep ==
  ASSUME IInv, IInv', NEW t \in Turns, ReadSession(t)
  PROVE  Ladder!Next
<1> DEFINE q == turn[t]
           r == turn'[t]
           s == q.request.session
           p == q.request.problem
           i == q.result.intent
<1>1. /\ Others(t) /\ UNCHANGED session
      /\ r.request = q.request /\ r.result = q.result
      /\ r.current = Ladder!LoadState(s, p)
      /\ q.pc = "reading_session" /\ r.pc \in {"reading_project", "deciding"}
      /\ q.fate = "running" /\ r.fate = "running"
  BY ReadSessionEffect
<1>2. /\ q \in TurnRecord /\ r \in TurnRecord
      /\ LadderTurns' = [LadderTurns EXCEPT ![t] = LadderView(r)]
      /\ LadderTurns[t] = LadderView(q)
      /\ AskedCounts' = AskedCounts
  BY <1>1, LadderMove
<1> HIDE DEF q, r
<1>3. s \in Sessions /\ p \in ProblemIds /\ i \in IntentType
  BY <1>2 DEF TurnRecord, Request, IntentResult
<1>4. /\ LadderView(q) = NoTurn
      /\ LadderView(r) = [pc |-> "loaded", session |-> s, problem |-> p,
                          intent |-> i, current |-> Ladder!LoadState(s, p),
                          action |-> Ladder!Undecided]
  BY <1>1, <1>2, LadderViewAt, LadderPolicy DEF LoadedSteps
<1>5. \A x \in ProblemIds : AskedCounts[s][x] < Cardinality(Turns) + 1
  BY <1>3, AskedBound
<1> HIDE DEF s, p, i
<1>6. Ladder!Begin(t, s, p, i)
  BY <1>1, <1>2, <1>4, <1>5, LadderPolicy, Zenon
  DEF Ladder!Begin, Ladder!InFlight, LadderTurns, AskedCounts
<1>7. QED
  BY <1>3, <1>6, LadderPolicy, Zenon DEF Ladder!Next

LEMMA LadderViewDecided ==
  ASSUME NEW v \in Ladder!TurnState, NEW w \in Ladder!TurnState,
         NEW a \in Action, w.pc = "answering", w.action = a,
         w.session = v.session, w.problem = v.problem, w.intent = v.intent,
         w.current = v.current
  PROVE  w = [v EXCEPT !.pc = "answering", !.action = a]
<1> DEFINE x == [v EXCEPT !.pc = "answering", !.action = a]
<1>1. x \in Ladder!TurnState
  BY LadderPolicy
<1>2. /\ x.pc = "answering" /\ x.action = a /\ x.session = v.session
      /\ x.problem = v.problem /\ x.intent = v.intent
      /\ x.current = v.current
  BY LadderPolicy
<1> HIDE DEF x
<1>3. w = x
  BY <1>1, <1>2, LadderPolicy
<1>4. QED
  BY <1>3 DEF x

\* A decision shows on the ladder when the turn goes on to be answered.
LEMMA LadderDecides ==
  ASSUME IInv, IInv', NEW t \in Turns, Decide(t) \/ Disclose(t)
  PROVE  Ladder!Decide(t) \/ UNCHANGED Ladder!vars
<1> DEFINE q == turn[t]
           r == turn'[t]
<1>1. /\ Others(t) /\ UNCHANGED session /\ SameSignals(q, r)
      /\ q.pc \in LoadedSteps
      /\ r.pc \in AnsweringSteps \/ r.pc \in {"disclosing", "refusing"}
      /\ q.fate = "running" /\ r.fate = "running"
  <2>1. CASE Decide(t)
    BY <2>1, DecideEffect DEF LoadedSteps, AnsweringSteps
  <2>2. CASE Disclose(t)
    BY <2>2, DiscloseEffect DEF LoadedSteps, AnsweringSteps, Kept
  <2>3. QED
    BY <2>1, <2>2
<1>2. /\ q \in TurnRecord /\ r \in TurnRecord /\ TurnInv(r)
      /\ LadderTurns' = [LadderTurns EXCEPT ![t] = LadderView(r)]
      /\ LadderTurns[t] = LadderView(q)
      /\ AskedCounts' = AskedCounts
      /\ LadderView(r) = LadderView(q) => UNCHANGED Ladder!vars
  BY <1>1, LadderMove
<1> HIDE DEF q, r
<1>3. CASE r.pc \in {"disclosing", "refusing"}
  <2>1. r.pc \in LoadedSteps
    BY <1>3 DEF LoadedSteps
  <2>2. LadderView(r) = LadderView(q)
    BY <1>1, <1>2, <2>1, LadderViewAt DEF SameSignals
  <2>3. QED
    BY <1>2, <2>2
<1>4. CASE r.pc \in AnsweringSteps
  <2> DEFINE v == LadderView(q)
             w == LadderView(r)
  <2>1. /\ v = [pc |-> "loaded", session |-> q.request.session,
                problem |-> q.request.problem, intent |-> q.result.intent,
                current |-> q.current, action |-> Undecided]
        /\ w = [pc |-> "answering", session |-> q.request.session,
                problem |-> q.request.problem, intent |-> q.result.intent,
                current |-> q.current, action |-> r.action]
        /\ v # NoTurn
    BY <1>1, <1>2, <1>4, LadderViewAt DEF SameSignals
  <2>2. w = [v EXCEPT !.pc = "answering", !.action = r.action]
    <3>1. v \in Ladder!TurnState /\ w \in Ladder!TurnState
      BY <1>2, <2>1, LadderPolicy, SupervisorTypes
      DEF TurnRecord, Request, IntentResult
    <3>2. r.action \in Action
      BY <1>2 DEF TurnRecord
    <3>3. /\ w.pc = "answering" /\ w.action = r.action
          /\ w.session = v.session /\ w.problem = v.problem
          /\ w.intent = v.intent /\ w.current = v.current
      BY <2>1
    <3> HIDE DEF v, w
    <3>4. QED
      BY <3>1, <3>2, <3>3, LadderViewDecided
  <2>3. /\ r.action.type # "refuse"
        /\ r.action \in PossibleDecisions(q.result.intent, q.current.attempts,
                                          q.current.level)
    <3>1. r.pc \in LateSteps
      BY <1>4 DEF AnsweringSteps, LateSteps, EarlySteps, Steps
    <3>2. QED
      BY <1>1, <1>2, <1>4, <3>1
      DEF TurnInv, Decided, Placed, SameSignals, AnsweringSteps
  <2>4. /\ v.pc = "loaded" /\ v.intent = q.result.intent
        /\ v.current = q.current
    BY <2>1
  <2> HIDE DEF v, w
  <2>5. LadderTurns' = [LadderTurns EXCEPT ![t] =
                          [@ EXCEPT !.pc = "answering", !.action = r.action]]
    BY <1>2, <2>2, Zenon DEF v, w
  <2>6. /\ LadderTurns[t] # NoTurn /\ LadderTurns[t].pc = "loaded"
        /\ r.action \in Ladder!PossibleDecisions(
             LadderTurns[t].intent, LadderTurns[t].current.attempts,
             LadderTurns[t].current.level)
    BY <1>2, <2>1, <2>3, <2>4, LadderPolicy DEF v
  <2>7. Ladder!Decide(t)
    BY <1>1, <1>2, <2>3, <2>5, <2>6, Zenon
    DEF Ladder!Decide, Ladder!InFlight, LadderTurns, AskedCounts
  <2>8. QED
    BY <2>7
<1>5. QED
  BY <1>1, <1>3, <1>4

-----------------------------------------------------------------------------
\* The steps of which the ladder sees nothing.
LEMMA HiddenSteps ==
  ASSUME IInv, IInv', NEW t \in Turns,
         \/ Classify(t) \/ Send(t) \/ \E u \in Turns : Resend(t, u)
         \/ ReadProject(t) \/ SaveProject(t)
         \/ StaysAnswering(t)
  PROVE  UNCHANGED Ladder!vars
<1> DEFINE q == turn[t]
           r == turn'[t]
<1>1. CASE Classify(t) \/ Send(t) \/ \E u \in Turns : Resend(t, u)
  <2>1. /\ Others(t) /\ UNCHANGED session
        /\ q.pc \in {"classifying", "reading_session"}
        /\ r.pc \in {"classifying", "reading_session"}
        /\ q.fate # "delivered" /\ r.fate # "delivered"
    BY <1>1, OpeningEffect
  <2>2. /\ q \in TurnRecord /\ r \in TurnRecord
        /\ LadderView(r) = LadderView(q) => UNCHANGED Ladder!vars
    BY <2>1, LadderMove
  <2> HIDE DEF q, r
  <2>3. QED
    BY <2>1, <2>2, LadderViewAt
<1>2. CASE ReadProject(t) \/ SaveProject(t)
  <2>1. /\ Others(t) /\ UNCHANGED session
        /\ r.request = q.request /\ r.result = q.result
        /\ r.current = q.current
        /\ q.pc \in LoadedSteps /\ r.pc \in LoadedSteps
        /\ q.fate = "running" /\ r.fate = "running"
    BY <1>2, ReadProjectEffect, SaveProjectEffect DEF LoadedSteps
  <2>2. /\ q \in TurnRecord /\ r \in TurnRecord
        /\ LadderView(r) = LadderView(q) => UNCHANGED Ladder!vars
    BY <2>1, LadderMove
  <2> HIDE DEF q, r
  <2>3. LadderView(r) = LadderView(q)
    BY <2>1, <2>2, LadderViewAt
  <2>4. QED
    BY <2>2, <2>3
<1>3. CASE StaysAnswering(t)
  <2>1. /\ Others(t) /\ UNCHANGED session /\ Kept(q, r)
        /\ q.pc \in AnsweringSteps /\ r.pc \in AnsweringSteps
        /\ q.fate = "running" /\ r.fate = "running"
    BY <1>3 DEF StaysAnswering
  <2>2. /\ q \in TurnRecord /\ r \in TurnRecord
        /\ LadderView(r) = LadderView(q) => UNCHANGED Ladder!vars
    BY <2>1, LadderMove
  <2> HIDE DEF q, r
  <2>3. LadderView(r) = LadderView(q)
    BY <2>1, <2>2, LadderViewAt DEF Kept, SameSignals
  <2>4. QED
    BY <2>2, <2>3
<1>4. QED
  BY <1>1, <1>2, <1>3

LEMMA LadderRefuses ==
  ASSUME IInv, IInv', NEW t \in Turns, Refuse(t)
  PROVE  Ladder!Refuse(t)
<1> DEFINE q == turn[t]
           r == turn'[t]
<1>1. /\ Others(t) /\ UNCHANGED session
      /\ q.pc = "refusing" /\ r.pc = "refusing"
      /\ q.fate = "running" /\ r.fate = "delivered"
  BY EndEffect
<1>2. /\ q \in TurnRecord /\ TurnInv(q) /\ r \in TurnRecord
      /\ LadderTurns' = [LadderTurns EXCEPT ![t] = LadderView(r)]
      /\ LadderTurns[t] = LadderView(q)
      /\ AskedCounts' = AskedCounts
  BY <1>1, LadderMove
<1> HIDE DEF q, r
<1> DEFINE v == LadderView(q)
<1>3. LadderView(r) = NoTurn
  BY <1>1, <1>2, LadderViewAt
<1>4. /\ v # NoTurn /\ v.pc = "loaded"
      /\ v.intent = q.result.intent /\ v.current = q.current
  <2>1. q.pc \in LoadedSteps
    BY <1>1 DEF LoadedSteps
  <2>2. QED
    BY <1>1, <1>2, <2>1, LadderViewAt
<1>5. /\ q.action.type = "refuse"
      /\ q.action \in PossibleDecisions(q.result.intent, q.current.attempts,
                                        q.current.level)
  <2>1. q.pc \in LateSteps
    BY <1>1 DEF LateSteps, EarlySteps, Steps
  <2>2. QED
    BY <1>1, <1>2, <2>1 DEF TurnInv, Placed, Decided
<1> HIDE DEF v
<1>6. \E a \in Ladder!PossibleDecisions(v.intent, v.current.attempts,
                                        v.current.level) : a.type = "refuse"
  BY <1>4, <1>5, LadderPolicy
<1>7. LadderTurns[t] = v /\ LadderTurns' = [LadderTurns EXCEPT ![t] = NoTurn]
  BY <1>2, <1>3 DEF v
<1>8. QED
  BY <1>1, <1>2, <1>4, <1>6, <1>7, Zenon
  DEF Ladder!Refuse, Ladder!InFlight, LadderTurns, AskedCounts

LEMMA LadderAborts ==
  ASSUME IInv, IInv', NEW t \in Turns, Raise(t) \/ Lose(t)
  PROVE  Ladder!Abort(t) \/ UNCHANGED Ladder!vars
<1> DEFINE q == turn[t]
           r == turn'[t]
<1>1. /\ Others(t) /\ UNCHANGED session
      /\ q.fate = "running" /\ r.fate \in {"failed", "lost"}
  <2>1. turn \in [Turns -> TurnRecord]
    BY DEF IInv, TypeOK
  <2>2. r.fate \in {"failed", "lost"}
    BY <2>1 DEF Raise, Lose, UnderWay, TurnRecord
  <2>3. QED
    BY <2>2, EndEffect
<1>2. /\ r \in TurnRecord
      /\ LadderTurns' = [LadderTurns EXCEPT ![t] = LadderView(r)]
      /\ LadderTurns[t] = LadderView(q)
      /\ AskedCounts' = AskedCounts
      /\ LadderView(r) = LadderView(q) => UNCHANGED Ladder!vars
  BY <1>1, LadderMove
<1> HIDE DEF q, r
<1>3. LadderView(r) = NoTurn
  BY <1>1, <1>2, LadderViewAt
<1>4. CASE LadderView(q) = NoTurn
  BY <1>2, <1>3, <1>4
<1>5. CASE LadderView(q) # NoTurn
  BY <1>1, <1>2, <1>3, <1>5, Zenon
  DEF Ladder!Abort, Ladder!InFlight, LadderTurns, AskedCounts
<1>6. QED
  BY <1>4, <1>5

\* An answered solve request is one more for its session and problem.
LEMMA AskedGrows ==
  ASSUME NEW t \in Turns, NEW r, Moves(t, r),
         turn \in [Turns -> TurnRecord],
         "session" \notin turn[t].wrote, "session" \in r.wrote,
         NEW s \in Sessions, s = r.request.session,
         NEW p \in ProblemIds, p = r.current.problem
  PROVE  AskedCounts' = IF r.result.intent = "solve_request"
                        THEN [AskedCounts EXCEPT ![s][p] = @ + 1]
                        ELSE AskedCounts
<1>1. turn'[t] = r /\ \A u \in Turns \ {t} : turn'[u] = turn[u]
  BY DEF Moves
<1>2. ASSUME NEW x, NEW y, NEW u \in Turns \ {t}
      PROVE  Counts(turn'[u], x, y) <=> Counts(turn[u], x, y)
  <2>1. turn'[u] = turn[u]
    BY <1>1
  <2>2. QED
    BY <2>1, Zenon
<1>3. ASSUME NEW x, NEW y
      PROVE  /\ ~Counts(turn[t], x, y)
             /\ Counts(turn'[t], x, y) <=>
                  r.result.intent = "solve_request" /\ x = s /\ y = p
  BY <1>1, Zenon DEF Counts
<1>4. ASSUME NEW x, NEW y
      PROVE  /\ t \notin Asked(x, y)
             /\ Asked(x, y)' = IF r.result.intent = "solve_request"
                                  /\ x = s /\ y = p
                               THEN Asked(x, y) \cup {t} ELSE Asked(x, y)
  <2> DEFINE g == r.result.intent = "solve_request" /\ x = s /\ y = p
             A == Asked(x, y)
             B == Asked(x, y)'
  <2>1. /\ \A u : u \in A <=> u \in Turns /\ Counts(turn[u], x, y)
        /\ \A u : u \in B <=> u \in Turns /\ Counts(turn'[u], x, y)
    BY AskedIs
  <2>2. t \notin A /\ (t \in B <=> g)
    BY <1>3, <2>1
  <2>3. \A u : u # t => (u \in B <=> u \in A)
    BY <1>2, <2>1
  <2> HIDE DEF g, A, B
  <2>4. B = IF g THEN A \cup {t} ELSE A
    <3>1. CASE g
      BY <2>2, <2>3, <3>1
    <3>2. CASE ~g
      BY <2>2, <2>3, <3>2
    <3>3. QED
      BY <3>1, <3>2
  <2>5. QED
    BY <2>2, <2>4 DEF g, A, B
<1>5. ASSUME NEW x \in Sessions, NEW y \in ProblemIds
      PROVE  Cardinality(Asked(x, y)') =
               IF r.result.intent = "solve_request" /\ x = s /\ y = p
               THEN Cardinality(Asked(x, y)) + 1 ELSE Cardinality(Asked(x, y))
  <2> DEFINE A == Asked(x, y)
             B == Asked(x, y)'
  <2>1. t \notin A /\ IsFiniteSet(A)
    BY <1>4, AskedBound
  <2> HIDE DEF A
  <2>2. Cardinality(A \cup {t}) = Cardinality(A) + 1
    BY <2>1, FS_AddElement
  <2>3. B = IF r.result.intent = "solve_request" /\ x = s /\ y = p
            THEN A \cup {t} ELSE A
    BY <1>4 DEF A
  <2> HIDE DEF B
  <2>4. QED
    BY <2>2, <2>3 DEF A, B
<1>6. AskedCounts' =
        [x \in Sessions |-> [y \in ProblemIds |->
           IF r.result.intent = "solve_request" /\ x = s /\ y = p
           THEN Cardinality(Asked(x, y)) + 1 ELSE Cardinality(Asked(x, y))]]
  BY <1>5, Zenon DEF AskedCounts
<1> DEFINE n(x, y) == Cardinality(Asked(x, y))
<1>7. AskedCounts = [x \in Sessions |-> [y \in ProblemIds |-> n(x, y)]]
  BY DEF AskedCounts
<1> HIDE DEF n
<1>8. CASE r.result.intent = "solve_request"
  <2>1. AskedCounts' =
          [x \in Sessions |-> [y \in ProblemIds |->
             IF x = s /\ y = p THEN n(x, y) + 1 ELSE n(x, y)]]
    BY <1>6, <1>8, Zenon DEF n
  <2>2. QED
    BY <1>7, <1>8, <2>1
<1>9. CASE r.result.intent # "solve_request"
  BY <1>6, <1>7, <1>9 DEF n
<1>10. QED
  BY <1>8, <1>9

LEMMA LadderAnswers ==
  ASSUME IInv, IInv', NEW t \in Turns, Save(t)
  PROVE  Ladder!Answer(t)
<1> DEFINE q == turn[t]
           r == turn'[t]
           v == LadderView(q)
           s == q.request.session
           p == q.current.problem
           i == q.result.intent
           new == Ladder!AdvanceSessionState(q.current, q.request.problem, i,
                                             q.action)
<1>1. /\ Others(t) /\ Kept(q, r) /\ q.pc = "saving" /\ r.pc = "saving"
      /\ r.wrote = q.wrote \cup {"session"}
      /\ q.fate = "running" /\ r.fate = "delivered"
  BY SaveEffect
<1>2. session' = [session EXCEPT ![s] = new]
  BY Zenon DEF Save
<1>3. Moves(t, r)
  BY <1>1, Moving DEF Others
<1>4. /\ q \in TurnRecord /\ TurnInv(q) /\ r \in TurnRecord
      /\ turn \in [Turns -> TurnRecord]
  BY <1>3 DEF Moves, IInv, TypeOK
<1>5. LadderTurns' = [LadderTurns EXCEPT ![t] = LadderView(r)]
      /\ LadderTurns[t] = v
  BY <1>3, <1>4, LadderViewMoves
<1> HIDE DEF q, r
<1>6. LadderView(r) = NoTurn
  BY <1>1, <1>4, LadderViewAt
<1>7. /\ v # NoTurn /\ v.pc = "answering" /\ v.session = s
      /\ v.problem = q.request.problem /\ v.intent = i
      /\ v.current = q.current /\ v.action = q.action
  <2>1. q.pc \in AnsweringSteps
    BY <1>1 DEF AnsweringSteps
  <2>2. QED
    BY <1>1, <1>4, <2>1, LadderViewAt
<1>8. /\ s \in Sessions /\ p \in ProblemIds
      /\ q.current \in [problem : ProblemIds, attempts : Nat,
                        level : 0..MaxHintLadderLevel]
  BY <1>4 DEF TurnRecord, Request
<1>9. new.problem = p
  <2>1. q.request.problem \in {NoProblem, p}
    BY <1>1, <1>4 DEF TurnInv, OnProblem
  <2>2. QED
    BY <1>8, <2>1 DEF Ladder!AdvanceSessionState
<1>10. AskedCounts' = IF i = "solve_request"
                      THEN [AskedCounts EXCEPT ![s][p] = @ + 1]
                      ELSE AskedCounts
  <2>1. "session" \notin q.wrote /\ "session" \in r.wrote
    BY <1>1, <1>4, WroteTells
  <2>2. s = r.request.session /\ p = r.current.problem /\ i = r.result.intent
    BY <1>1 DEF Kept, SameSignals
  <2> HIDE DEF s, p, i
  <2>3. QED
    BY <1>3, <1>4, <1>8, <2>1, <2>2, AskedGrows DEF q
<1>11. LadderTurns' = [LadderTurns EXCEPT ![t] = NoTurn]
  BY <1>5, <1>6
<1>12. new = Ladder!AdvanceSessionState(v.current, v.problem, v.intent,
                                        v.action)
  BY <1>7
<1>13. LadderTurns[t] # NoTurn /\ LadderTurns[t].pc = "answering"
  BY <1>5, <1>7
<1> HIDE DEF v, s, p, i, new
<1>14. LET x == LadderTurns[t].session
           y == Ladder!AdvanceSessionState(
                  LadderTurns[t].current, LadderTurns[t].problem,
                  LadderTurns[t].intent, LadderTurns[t].action)
       IN /\ session' = [session EXCEPT ![x] = y]
          /\ AskedCounts' = IF LadderTurns[t].intent = "solve_request"
                            THEN [AskedCounts EXCEPT ![x][y.problem] = @ + 1]
                            ELSE AskedCounts
  BY <1>2, <1>5, <1>7, <1>9, <1>10, <1>12
<1>15. QED
  BY <1>11, <1>13, <1>14, Zenon
  DEF Ladder!Answer, Ladder!InFlight, LadderTurns, AskedCounts

-----------------------------------------------------------------------------
LEMMA LadderSame ==
  ASSUME UNCHANGED <<session, turn>>
  PROVE  UNCHANGED Ladder!vars
<1>1. LadderTurns' = LadderTurns
  BY LadderViewOfTurn DEF LadderTurns
<1>2. AskedCounts' = AskedCounts
  BY Zenon DEF AskedCounts, Asked
<1>3. QED
  BY <1>1, <1>2 DEF Ladder!vars, LadderTurns, AskedCounts

LEMMA LadderNext ==
  ASSUME IInv, IInv', [Next]_vars
  PROVE  [Ladder!Next]_(Ladder!vars)
<1>1. CASE UNCHANGED vars
  BY <1>1, LadderSame DEF vars
<1>2. ASSUME NEW t \in Turns,
             \/ Send(t)
             \/ \E u \in Turns : Resend(t, u)
             \/ GiveUp(t)
             \/ Proceed(t)
             \/ \E b \in GradeTables : StageRaises(t, b)
             \/ Raise(t)
             \/ Lose(t)
      PROVE  [Ladder!Next]_(Ladder!vars)
  <2>1. CASE \/ Classify(t) \/ Send(t) \/ \E u \in Turns : Resend(t, u)
             \/ ReadProject(t) \/ SaveProject(t)
    BY <2>1, HiddenSteps
  <2>2. CASE GiveUp(t)
    BY <2>2, LadderSame DEF GiveUp
  <2>3. CASE \/ Ingest(t) \/ Grade(t) \/ Diagnose(t) \/ Respond(t) \/ Tutor(t)
             \/ Measure(t) \/ Queue(t)
             \/ \E b \in GradeTables : StageEnds(t, b) \/ StageRaises(t, b)
    BY <2>3, AnsweringEffect, HiddenSteps
  <2>4. CASE ReadSession(t)
    BY <2>4, BeginStep
  <2>5. CASE Decide(t) \/ Disclose(t)
    BY <2>5, LadderDecides DEF Ladder!Next
  <2>6. CASE Refuse(t)
    BY <2>6, LadderRefuses DEF Ladder!Next
  <2>7. CASE Save(t)
    BY <2>7, LadderAnswers DEF Ladder!Next
  <2>8. CASE Raise(t) \/ Lose(t)
    BY <2>8, LadderAborts DEF Ladder!Next
  <2>9. QED
    BY <1>2, <2>1, <2>2, <2>3, <2>4, <2>5, <2>6, <2>7, <2>8 DEF Proceed
<1>3. QED
  BY <1>1, <1>2, Zenon DEF Next

LEMMA LadderInit == Init => Ladder!Init
<1> SUFFICES ASSUME Init PROVE Ladder!Init
  OBVIOUS
<1>1. ASSUME NEW t \in Turns
      PROVE  /\ turn[t] \in TurnRecord /\ turn[t].pc = "classifying"
             /\ turn[t].wrote = {}
  <2>1. turn[t] = Unborn(t)
    BY DEF Init
  <2>2. QED
    BY <2>1, UnbornOk
<1>2. ASSUME NEW t \in Turns
      PROVE  LadderTurn(t) = NoTurn
  BY <1>1, LadderViewOfTurn, LadderViewAt
<1>3. ASSUME NEW s \in Sessions, NEW p \in ProblemIds
      PROVE  Cardinality(Asked(s, p)) = 0
  <2>1. Asked(s, p) = {}
    BY <1>1 DEF Asked
  <2>2. QED
    BY <2>1, FS_EmptySet
<1>4. /\ LadderTurns = [t \in Turns |-> NoTurn]
      /\ AskedCounts = [s \in Sessions |-> [p \in ProblemIds |-> 0]]
  BY <1>2, <1>3 DEF LadderTurns, AskedCounts
<1>5. session = [s \in Sessions |-> NoRow]
  BY DEF Init
<1>6. QED
  BY <1>4, <1>5, LadderPolicy, Zenon
  DEF Ladder!Init, LadderTurns, AskedCounts

\* POST /turn on any path, with resends, faults and clients that do not wait,
\* does to the session ladder what HintLadder says: a refused or failed turn
\* never writes it, any other writes it once, from the record it read
\* (handle_turn.py:368-386, 473-475, 546-634).
THEOREM LadderRefinement == Spec => LadderOfTurns
<1>1. IInv /\ IInv' /\ [Next]_vars => [Ladder!Next]_(Ladder!vars)
  BY LadderNext
<1>2. QED
  BY <1>1, LadderInit, Inductive, PTL DEF LadderOfTurns, Ladder!Spec, Spec

-----------------------------------------------------------------------------
(***************************************************************************)
(* What TurnFlow assumes of its constants covers what HintLadder and       *)
(* IAProject assume of theirs (LadderConstants and IAConstants, under the  *)
(* substitutions of Ladder and Supervisor), so their theorems apply to the *)
(* views of the turns.                                                     *)
(***************************************************************************)
LEMMA ViewConstants ==
  /\ NoProblem \notin Problems
  /\ NoRow \notin Ladder!ProblemSessionState
  /\ NoTurn \notin Ladder!TurnState
  /\ FALSE \in BOOLEAN
  /\ IntentType \subseteq Ladder!IntentType
  /\ Cardinality(Turns) + 1 \in Nat
  /\ Projects # {}
  /\ TextStages \subseteq Supervisor!IAStage
<1>1. Cardinality(Turns) \in Nat
  BY FlowConstants, FS_CardinalityType
<1>2. Projects # {}
  BY DEF Projects, ProblemIds
<1>3. Supervisor!IAStage = IAStage
  BY DEF Supervisor!IAStage, IAStage
<1>4. QED
  BY <1>1, <1>2, <1>3, FlowConstants, FlowSlots, LadderPolicy

-----------------------------------------------------------------------------
(***************************************************************************)
(* A bound on the steps a turn still takes: the longest way is that of a   *)
(* photograph whose problem is graded by all five stages, or goes to the   *)
(* Tutor after all.                                                        *)
(***************************************************************************)
StepsFrom(pc) ==
  IF pc \in {"saving", "refusing"} THEN 1
  ELSE IF pc = "queueing" THEN 2
  ELSE IF pc = "measuring" THEN 3
  ELSE IF pc = "tutoring" THEN 4
  ELSE IF pc = "grading" THEN 8
  ELSE IF pc = "ingesting" THEN 9
  ELSE IF pc = "disclosing" THEN 10
  ELSE IF pc = "deciding" THEN 11
  ELSE IF pc = "saving_project" THEN 12
  ELSE IF pc = "reading_project" THEN 13
  ELSE IF pc = "reading_session" THEN 14 ELSE 15

StepsLeft(r) ==
  IF r.fate # "running" THEN 0
  ELSE IF r.pc = "recording" THEN 2 + Cardinality(r.todo) ELSE StepsFrom(r.pc)

LEMMA OneMore ==
  ASSUME NEW S, NEW x, IsFiniteSet(S)
  PROVE  /\ IsFiniteSet(S \cup {x})
         /\ Cardinality(S) \in Nat /\ Cardinality(S \cup {x}) \in Nat
         /\ Cardinality(S \cup {x}) <= Cardinality(S) + 1
<1>1. /\ IsFiniteSet(S \cup {x})
      /\ Cardinality(S \cup {x}) = IF x \in S THEN Cardinality(S)
                                   ELSE Cardinality(S) + 1
  BY FS_AddElement
<1>2. Cardinality(S) \in Nat
  BY FS_CardinalityType
<1>3. QED
  BY <1>1, <1>2

LEMMA FewStages ==
  ASSUME NEW S \in SUBSET GradeTables
  PROVE  IsFiniteSet(S) /\ Cardinality(S) \in 0..5
<1>1. IsFiniteSet(GradeTables) /\ Cardinality(GradeTables) <= 5
  <2> DEFINE a == {"mastery"}
             b == a \cup {"review"}
             c == b \cup {"misconception"}
             d == c \cup {"review_queue"}
             e == d \cup {"response_log"}
  <2>1. IsFiniteSet(a) /\ Cardinality(a) = 1
    BY FS_Singleton, Zenon
  <2> HIDE DEF a
  <2>2. /\ IsFiniteSet(b) /\ Cardinality(b) \in Nat
        /\ Cardinality(b) <= Cardinality(a) + 1
    BY <2>1, OneMore, Zenon
  <2> HIDE DEF b
  <2>3. /\ IsFiniteSet(c) /\ Cardinality(c) \in Nat
        /\ Cardinality(c) <= Cardinality(b) + 1
    BY <2>2, OneMore, Zenon
  <2> HIDE DEF c
  <2>4. /\ IsFiniteSet(d) /\ Cardinality(d) \in Nat
        /\ Cardinality(d) <= Cardinality(c) + 1
    BY <2>3, OneMore, Zenon
  <2> HIDE DEF d
  <2>5. /\ IsFiniteSet(e) /\ Cardinality(e) \in Nat
        /\ Cardinality(e) <= Cardinality(d) + 1
    BY <2>4, OneMore, Zenon
  <2>6. e = GradeTables
    BY DEF a, b, c, d, e, GradeTables
  <2> HIDE DEF e
  <2>7. QED
    BY <2>1, <2>2, <2>3, <2>4, <2>5, <2>6
<1>2. /\ IsFiniteSet(S)
      /\ Cardinality(S) <= Cardinality(GradeTables)
      /\ Cardinality(S) \in Nat /\ Cardinality(GradeTables) \in Nat
  BY <1>1, FS_Subset, FS_CardinalityType
<1>3. QED
  BY <1>1, <1>2

LEMMA StepsLeftBound ==
  ASSUME NEW r \in TurnRecord
  PROVE  /\ StepsLeft(r) \in 0..15
         /\ r.fate = "running" => StepsLeft(r) > 0
<1>1. Cardinality(r.todo) \in 0..5
  BY FewStages DEF TurnRecord
<1>2. StepsFrom(r.pc) \in 1..15
  BY DEF StepsFrom
<1>3. QED
  BY <1>1, <1>2 DEF StepsLeft

\* A step from one place of handle_turn to the next.
LEMMA NextPlace ==
  ASSUME NEW q \in TurnRecord, NEW r \in TurnRecord, q.fate = "running",
         \/ r.fate # "running"
         \/ q.pc # "recording" /\ r.pc # "recording"
              /\ StepsFrom(r.pc) < StepsFrom(q.pc)
         \/ q.pc = "grading" /\ r.pc = "recording"
         \/ q.pc = "recording" /\ r.pc = "saving"
         \/ /\ q.pc = "recording" /\ r.pc = "recording"
            /\ \E b \in q.todo : r.todo = q.todo \ {b}
  PROVE  StepsLeft(r) < StepsLeft(q)
<1>1. /\ IsFiniteSet(q.todo)
      /\ Cardinality(q.todo) \in 0..5 /\ Cardinality(r.todo) \in 0..5
  BY FewStages DEF TurnRecord
<1>2. CASE r.fate # "running"
  BY <1>2, StepsLeftBound DEF StepsLeft
<1>3. CASE r.fate = "running" /\ q.pc = "recording" /\ r.pc = "recording"
  <2>1. PICK b \in q.todo : r.todo = q.todo \ {b}
    BY <1>3
  <2>2. Cardinality(r.todo) = Cardinality(q.todo) - 1
    BY <1>1, <2>1, FS_RemoveElement
  <2>3. QED
    BY <1>1, <1>3, <2>2 DEF StepsLeft
<1>4. CASE r.fate = "running" /\ ~(q.pc = "recording" /\ r.pc = "recording")
  BY <1>1, <1>4 DEF StepsLeft, StepsFrom
<1>5. QED
  BY <1>2, <1>3, <1>4

LEMMA RaisesFewer ==
  ASSUME TypeOK, NEW t \in Turns, NEW b \in GradeTables, StageRaises(t, b)
  PROVE  /\ turn'[t].pc = turn[t].pc
         /\ b \in turn[t].todo
         /\ turn'[t].todo = turn[t].todo \ {b}
BY DEF TypeOK, TurnRecord, StageRaises

\* Whatever a turn does, or is done to it, ends it or brings it on.
LEMMA GoesOn ==
  ASSUME IInv, IInv', NEW t \in Turns,
         \/ Proceed(t)
         \/ \E b \in GradeTables : StageRaises(t, b)
         \/ Raise(t) \/ Lose(t)
  PROVE  StepsLeft(turn'[t]) < StepsLeft(turn[t])
<1>1. /\ turn \in [Turns -> TurnRecord] /\ turn'[t] \in TurnRecord
      /\ turn[t] \in TurnRecord
  BY DEF IInv, TypeOK
<1>2. turn[t].fate = "running"
  BY Zenon
  DEF Proceed, Classify, ReadSession, ReadProject, SaveProject, Decide,
      Disclose, Refuse, Ingest, Grade, StageEnds, Diagnose, Respond, Tutor,
      Measure, Queue, Save, StageRaises, Raise, Lose, At, UnderWay
<1>3. CASE Refuse(t) \/ Save(t) \/ Raise(t) \/ Lose(t)
  <2>1. turn'[t].fate # "running"
    BY <1>3, EndEffect, SaveEffect
  <2>2. QED
    BY <1>1, <1>2, <2>1, NextPlace
<1>4. CASE Classify(t)
  <2>1. turn[t].pc = "classifying" /\ turn'[t].pc = "reading_session"
    BY <1>1, <1>4 DEF Classify, At, TurnRecord
  <2>2. QED
    BY <1>1, <1>2, <2>1, NextPlace DEF StepsFrom
<1>5. CASE ReadSession(t) \/ ReadProject(t) \/ SaveProject(t)
  <2>1. \/ /\ turn[t].pc = "reading_session"
           /\ turn'[t].pc \in {"reading_project", "deciding"}
        \/ turn[t].pc = "reading_project" /\ turn'[t].pc = "saving_project"
        \/ turn[t].pc = "saving_project" /\ turn'[t].pc = "deciding"
    BY <1>5, ReadSessionEffect, ReadProjectEffect, SaveProjectEffect
  <2>2. QED
    BY <1>1, <1>2, <2>1, NextPlace DEF StepsFrom
<1>6. CASE Decide(t)
  <2>1. /\ turn[t].pc = "deciding"
        /\ turn'[t].pc \in {"disclosing", "refusing", "tutoring", "ingesting",
                            "grading"}
    BY <1>6, DecideEffect
  <2>2. QED
    BY <1>1, <1>2, <2>1, NextPlace DEF StepsFrom
<1>7. CASE Disclose(t)
  <2>1. /\ turn[t].pc = "disclosing"
        /\ turn'[t].pc = Route(turn[t], turn[t].action)
    BY <1>1, <1>7 DEF Disclose, At, TurnRecord
  <2>2. turn'[t].pc \in {"refusing", "tutoring", "ingesting", "grading"}
    BY <2>1 DEF Route
  <2>3. QED
    BY <1>1, <1>2, <2>1, <2>2, NextPlace DEF StepsFrom
<1>8. CASE Ingest(t) \/ Respond(t) \/ Tutor(t) \/ Measure(t) \/ Queue(t)
  <2>1. \/ turn[t].pc = "ingesting" /\ turn'[t].pc \in {"grading", "saving"}
        \/ turn[t].pc = "recording" /\ turn'[t].pc = "saving"
        \/ turn[t].pc = "tutoring" /\ turn'[t].pc = "measuring"
        \/ turn[t].pc = "measuring" /\ turn'[t].pc \in {"queueing", "saving"}
        \/ turn[t].pc = "queueing" /\ turn'[t].pc = "saving"
    BY <1>1, <1>8 DEF Ingest, Respond, Tutor, Measure, Queue, At, TurnRecord
  <2>2. QED
    BY <1>1, <1>2, <2>1, NextPlace DEF StepsFrom
<1>9. CASE Grade(t)
  <2>1. turn[t].pc = "grading"
    BY <1>9, Zenon DEF Grade, At
  <2>2. turn'[t].pc \in {"tutoring", "recording"}
    <3>1. CASE turn' = [turn EXCEPT ![t].pc = "tutoring"]
      BY <1>1, <3>1 DEF TurnRecord
    <3>2. ASSUME NEW m \in Marks,
                 turn' = [turn EXCEPT ![t].pc = "recording", ![t].mark = m,
                                      ![t].todo = StagesOf(turn[t], m)]
          PROVE  turn'[t].pc = "recording"
      BY <1>1, <3>2 DEF TurnRecord
    <3>3. QED
      BY <1>9, <3>1, <3>2, Zenon DEF Grade
  <2>3. QED
    BY <1>1, <1>2, <2>1, <2>2, NextPlace DEF StepsFrom
<1>10. CASE \/ Diagnose(t)
            \/ \E b \in GradeTables : StageEnds(t, b) \/ StageRaises(t, b)
  <2> DEFINE Fewer(b) ==
        /\ turn'[t].pc = turn[t].pc
        /\ b \in turn[t].todo
        /\ turn'[t].todo = turn[t].todo \ {b}
  <2>1. turn[t].pc = "recording"
    BY <1>10, Zenon DEF Diagnose, StageEnds, StageRaises, At
  <2>2. ASSUME Diagnose(t)
        PROVE  Fewer("misconception")
    <3>1. ASSUME NEW d \in {"none", "unsure", "sure"},
                 turn' = [turn EXCEPT
                   ![t].todo = @ \ {"misconception"},
                   ![t].diagnosis = d,
                   ![t].wrote = IF d = "sure"
                                THEN @ \cup {"misconception"} ELSE @]
          PROVE  /\ turn'[t].pc = turn[t].pc
                 /\ turn'[t].todo = turn[t].todo \ {"misconception"}
      BY <1>1, <3>1 DEF TurnRecord
    <3>2. ASSUME turn' = [turn EXCEPT
                   ![t].todo = @ \ {"misconception"},
                   ![t].dropped = @ \cup {"misconception"}]
          PROVE  /\ turn'[t].pc = turn[t].pc
                 /\ turn'[t].todo = turn[t].todo \ {"misconception"}
      BY <1>1, <3>2 DEF TurnRecord
    <3>3. QED
      BY <2>2, <3>1, <3>2, Zenon DEF Diagnose
  <2>3. ASSUME NEW b \in GradeTables, StageEnds(t, b)
        PROVE  Fewer(b)
    BY <1>1, <2>3 DEF StageEnds, TurnRecord
  <2>4. ASSUME NEW b \in GradeTables, StageRaises(t, b)
        PROVE  Fewer(b)
    BY <2>4, RaisesFewer DEF IInv
  <2>5. PICK b : Fewer(b)
    <3> HIDE DEF Fewer
    <3>1. QED
      BY <1>10, <2>2, <2>3, <2>4, Zenon
  <2>6. QED
    BY <1>1, <1>2, <2>1, <2>5, NextPlace
<1>11. QED
  BY <1>3, <1>4, <1>5, <1>6, <1>7, <1>8, <1>9, <1>10 DEF Proceed

(***************************************************************************)
(* handle_turn never goes round in circles, whatever its models answer,    *)
(* its stages raise or other turns do: a received turn is at most fifteen  *)
(* steps from its end, each of its steps brings it nearer, and a turn that *)
(* has ended never runs again (the safety half of WaitingAreAnswered).     *)
(***************************************************************************)
THEOREM TurnsAreShort ==
  Spec => /\ [](\A t \in Turns : StepsLeft(turn[t]) \in 0..15)
          /\ [][\A t \in Turns :
                  turn[t].fate # "unborn" =>
                    \/ turn'[t] = turn[t]
                    \/ StepsLeft(turn'[t]) < StepsLeft(turn[t])]_vars
<1>1. IInv => \A t \in Turns : StepsLeft(turn[t]) \in 0..15
  BY StepsLeftBound DEF IInv, TypeOK
<1>2. ASSUME IInv, IInv', [Next]_vars, NEW t \in Turns,
             turn[t].fate # "unborn"
      PROVE  turn'[t] = turn[t] \/ StepsLeft(turn'[t]) < StepsLeft(turn[t])
  <2>1. CASE UNCHANGED vars
    BY <2>1 DEF vars
  <2>2. ASSUME NEW u \in Turns,
               \/ Proceed(u)
               \/ \E b \in GradeTables : StageRaises(u, b)
               \/ Raise(u) \/ Lose(u)
        PROVE  turn'[t] = turn[t] \/ StepsLeft(turn'[t]) < StepsLeft(turn[t])
    <3>1. Others(u)
      BY <1>2, <2>2, AnsweringEffect, EndEffect, SaveEffect, DiscloseEffect,
         DecideEffect, SaveProjectEffect, ReadProjectEffect,
         ReadSessionEffect, OpeningEffect DEF Proceed, StaysAnswering
    <3>2. QED
      BY <1>2, <2>2, <3>1, GoesOn DEF Others
  <2>3. ASSUME NEW u \in Turns, Send(u) \/ \E v \in Turns : Resend(u, v)
        PROVE  turn'[t] = turn[t]
    <3>1. client[u] = "idle"
      BY <2>3, Zenon DEF Send, Resend, Receive
    <3>2. u # t
      BY <1>2, <3>1 DEF IInv
    <3>3. QED
      BY <1>2, <2>3, <3>2, OpeningEffect DEF Others
  <2>4. ASSUME NEW u \in Turns, GiveUp(u)
        PROVE  turn'[t] = turn[t]
    BY <2>4 DEF GiveUp
  <2>5. QED
    BY <1>2, <2>1, <2>2, <2>3, <2>4 DEF Next
<1>3. IInv /\ IInv' /\ [Next]_vars =>
        [\A t \in Turns :
           turn[t].fate # "unborn" =>
             \/ turn'[t] = turn[t]
             \/ StepsLeft(turn'[t]) < StepsLeft(turn[t])]_vars
  BY <1>2
<1>4. QED
  BY <1>1, <1>3, Inductive, PTL DEF Spec
=============================================================================
