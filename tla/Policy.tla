------------------------------- MODULE Policy -------------------------------
(***************************************************************************)
(* The pure functions that decide what one turn of the tutor may do: the   *)
(* integrity estimate (app/orchestrator/signals.py), the decision policy   *)
(* (app/policy/decision.py) and the stage machine of an IA/EE project      *)
(* (app/ia_supervisor/state_machine.py).  No state, no recursion: the      *)
(* modules that model turns apply these operators at the step where        *)
(* handle_turn calls the function.                                         *)
(***************************************************************************)
EXTENDS Integers

IntentType == {"solve_request", "check_work", "concept_explain",
               "exam_prep", "ia_ee_help", "general_chat"}

AssessmentMode == {"practice", "homework_ungraded", "graded_take_home",
                   "live_exam_simulation", "ia_ee"}

IntegrityRisk == {"low", "medium", "high"}

ActionType == {"explain", "hint", "question", "refuse", "challenge",
               "supportive_scaffold"}

IAStage == {"topic_selection", "research_question", "methodology",
            "analysis", "drafting", "revision", "complete"}

MaxHintLadderLevel == 4
MidAttemptHintCap == 2

\* None of the Optional[...] fields that are stages.
NoStage == "no_stage"

(***************************************************************************)
(* What the keyword scan of the raw text found: no risk phrase, a          *)
(* medium-risk phrase, or a high-risk phrase (which wins over medium).     *)
(***************************************************************************)
Phrases == {"none", "medium", "high"}

\* A high-risk phrase is HIGH only in a graded take-home, MEDIUM elsewhere.
EstimateSafetyResult(phrase, mode) ==
  IF phrase = "high" /\ mode = "graded_take_home" THEN "high"
  ELSE IF phrase = "none" THEN "low" ELSE "medium"

-----------------------------------------------------------------------------
(***************************************************************************)
(* The decision policy.  A DecisionSignals record keeps, of mastery and    *)
(* frustration, only the tier the policy branches on (>= 0.85, HIGH).      *)
(***************************************************************************)
DecisionSignals ==
  [intent : IntentType, highMastery : BOOLEAN, mode : AssessmentMode,
   risk : IntegrityRisk, attempts : Nat, frustrated : BOOLEAN,
   level : 0..MaxHintLadderLevel, dueReview : BOOLEAN,
   ghostwriting : BOOLEAN, stage : IAStage \cup {NoStage}]

\* The tag every branch of the policy leaves; the plain EXPLAIN branches are
\* tagged with the intent they answer.
GateReason == {"integrity_risk_high", "live_exam_simulation",
               "graded_take_home_elevated_risk"}
Reason == GateReason \cup IntentType \cup
          {"ia_ghostwriting_guard_tripped", "ia_project_already_complete",
           "ia_supervisor_coaching_allowed", "frustration_override",
           "high_mastery_shortcut", "first_attempt_socratic",
           "solve_request_ladder", "exam_prep_review_due",
           "exam_prep_no_review_due"}

\* level 0 stands for None: only HINT carries a level.
Action == [type : ActionType, level : 0..MaxHintLadderLevel, reason : Reason]

Act(type, reason) == [type |-> type, level |-> 0, reason |-> reason]

LesserOf(a, b) == IF a <= b THEN a ELSE b

\* The hard gates, in the order the function tests them.
HardGate(sig) ==
  IF sig.risk = "high" THEN "integrity_risk_high"
  ELSE IF sig.mode = "live_exam_simulation" THEN "live_exam_simulation"
  ELSE IF sig.mode = "graded_take_home" /\ sig.risk = "medium"
       THEN "graded_take_home_elevated_risk"
  ELSE "open"

\* Mutant: a closed project is coached like any other.
RouteIgnoringCompletion(sig) ==
  IF sig.ghostwriting THEN Act("refuse", "ia_ghostwriting_guard_tripped")
  ELSE Act("explain", "ia_supervisor_coaching_allowed")

RouteToIASupervisor(sig) ==
  IF sig.ghostwriting THEN Act("refuse", "ia_ghostwriting_guard_tripped")
  ELSE IF sig.stage = "complete"
       THEN Act("refuse", "ia_project_already_complete")
  ELSE Act("explain", "ia_supervisor_coaching_allowed")

\* Mutants: the probe only before the first attempt, and the mid-attempt cap
\* held one attempt too long.
HintOnSecondAttempt(attempts, level) ==
  IF attempts < 1 THEN Act("question", "first_attempt_socratic")
  ELSE [type |-> "hint",
        level |-> LesserOf(level + 1, IF attempts <= 3
                                      THEN MidAttemptHintCap
                                      ELSE MaxHintLadderLevel),
        reason |-> "solve_request_ladder"]

CapHeldTooLong(attempts, level) ==
  IF attempts <= 1 THEN Act("question", "first_attempt_socratic")
  ELSE [type |-> "hint",
        level |-> LesserOf(level + 1, IF attempts <= 4
                                      THEN MidAttemptHintCap
                                      ELSE MaxHintLadderLevel),
        reason |-> "solve_request_ladder"]

\* The Socratic ladder: probe, then hints one rung at a time under a cap
\* that depends on how many attempts were counted.
SocraticLadder(attempts, level) ==
  IF attempts <= 1 THEN Act("question", "first_attempt_socratic")
  ELSE [type |-> "hint",
        level |-> LesserOf(level + 1, IF attempts <= 3
                                      THEN MidAttemptHintCap
                                      ELSE MaxHintLadderLevel),
        reason |-> "solve_request_ladder"]

ScheduleNextReviewItem(sig) ==
  IF sig.dueReview THEN Act("question", "exam_prep_review_due")
                   ELSE Act("explain", "exam_prep_no_review_due")

DecidePedagogicalAction(sig) ==
  IF HardGate(sig) # "open" THEN Act("refuse", HardGate(sig))
  ELSE IF sig.intent = "ia_ee_help" THEN RouteToIASupervisor(sig)
  ELSE IF sig.frustrated THEN Act("supportive_scaffold", "frustration_override")
  ELSE IF sig.intent = "solve_request" /\ sig.highMastery /\ sig.attempts = 1
       THEN Act("challenge", "high_mastery_shortcut")
  ELSE IF sig.intent = "solve_request"
       THEN SocraticLadder(sig.attempts, sig.level)
  ELSE IF sig.intent = "exam_prep" THEN ScheduleNextReviewItem(sig)
  ELSE Act("explain", sig.intent)

(***************************************************************************)
(* Every signal record a turn can reach with the given intent and ladder   *)
(* state, over all texts, modes and masteries: the risk is the estimate    *)
(* for some text in that mode.  The last three arguments are the values    *)
(* the pre-resolved signals may have.                                      *)
(***************************************************************************)
PossibleSignals(intent, attempts, level, dues, ghosts, stages) ==
  UNION {[intent : {intent}, highMastery : BOOLEAN, mode : {mode},
          risk : {EstimateSafetyResult(ph, mode) : ph \in Phrases},
          attempts : {attempts}, frustrated : BOOLEAN, level : {level},
          dueReview : dues, ghostwriting : ghosts, stage : stages] :
           mode \in AssessmentMode}

(***************************************************************************)
(* A due review is looked up only on exam_prep turns, the guard and the    *)
(* project stage only on ia_ee_help turns.                                 *)
(***************************************************************************)
PossibleDues(intent) == IF intent = "exam_prep" THEN BOOLEAN ELSE {FALSE}
PossibleGhosts(intent) == IF intent = "ia_ee_help" THEN BOOLEAN ELSE {FALSE}
PossibleStages(intent) ==
  IF intent = "ia_ee_help" THEN IAStage ELSE {NoStage}

PossibleDecisions(intent, attempts, level) ==
  {DecidePedagogicalAction(sig) :
     sig \in PossibleSignals(intent, attempts, level, PossibleDues(intent),
                             PossibleGhosts(intent), PossibleStages(intent))}

-----------------------------------------------------------------------------
\* Mutants: a new project that defaults to the last stage, and a COMPLETE that
\* a later text reopens.
AdvanceToLastByDefault(current, classified) ==
  IF current = "complete" THEN "complete"
  ELSE IF classified # NoStage THEN classified
  ELSE IF current = NoStage THEN "complete" ELSE current

AdvanceOutOfComplete(current, classified) ==
  IF classified # NoStage THEN classified
  ELSE IF current = NoStage THEN "topic_selection" ELSE current

(***************************************************************************)
(* The stage of an IA/EE project: COMPLETE absorbs, a new project starts   *)
(* at the classified stage or TOPIC_SELECTION, any other project moves to  *)
(* the classified stage, if the text named one.                            *)
(***************************************************************************)
AdvanceStage(current, classified) ==
  IF current = "complete" THEN "complete"
  ELSE IF classified # NoStage THEN classified
  ELSE IF current = NoStage THEN "topic_selection" ELSE current
=============================================================================
