----------------------------- MODULE IAProject -----------------------------
(***************************************************************************)
(* The IA/EE supervisor's part of handle_turn: an ia_ee_help turn reads    *)
(* its project's stage, advances and saves it, decides, and logs one       *)
(* disclosure entry before it refuses or goes on to the Tutor.  Projects   *)
(* are rows of ia_project_state, entries rows of the append-only           *)
(* disclosure_log; each store call is one statement and turns of one       *)
(* project may interleave between them.  Erasure deletes project rows and  *)
(* keeps the log.                                                          *)
(***************************************************************************)
EXTENDS Policy, FiniteSets

CONSTANTS
  Projects,      \* project ids (problem_id, or the student's default)
  Turns,         \* turn ids; each turn happens once
  TextStages,    \* stages a text may name (all of IAStage, or fewer)
  SerialClient   \* TRUE: the student awaits each answer, nobody erases

ASSUME IAConstants == /\ Projects # {}
                      /\ TextStages \subseteq IAStage
                      /\ SerialClient \in BOOLEAN

AssistanceType == {"coaching", "ghostwriting_request_refused",
                   "project_already_complete"}

Stage == IAStage \cup {NoStage}

VARIABLES
  project,  \* ia_project_state: project id -> stage, NoStage without a row
  log,      \* disclosure_log: the entries, each with the turn that added it
  turn      \* what each turn knows and where it stands

vars == <<project, log, turn>>

TurnRecord ==
  [pc : {"unborn", "loaded", "saved", "logged", "answered", "refused",
         "failed"},
   project : Projects, ghost : BOOLEAN, named : Stage, found : Stage,
   stage : Stage, action : Action]

Undecided == Act("explain", "general_chat")

DisclosureEntry ==
  [turn : Turns, project : Projects, stage : IAStage,
   assistance : AssistanceType]

-----------------------------------------------------------------------------
\* A turn that has not been received.
Unborn == [pc |-> "unborn", project |-> CHOOSE p \in Projects : TRUE,
           ghost |-> FALSE, named |-> NoStage, found |-> NoStage,
           stage |-> NoStage, action |-> Undecided]

Init ==
  /\ project = [p \in Projects |-> NoStage]
  /\ log = {}
  /\ turn = [t \in Turns |-> Unborn]

UnderWay(t) == turn[t].pc \in {"loaded", "saved", "logged"}

\* The guard scans the text, ia_project_store.get reads the row; named is
\* the stage classify_stage will find in the text.
Load(t, p, ghost, named) ==
  /\ turn[t].pc = "unborn"
  /\ SerialClient => \A u \in Turns : ~UnderWay(u)
  /\ turn' = [turn EXCEPT ![t] =
                [Unborn EXCEPT !.pc = "loaded", !.project = p, !.ghost = ghost,
                               !.named = named, !.found = project[p]]]
  /\ UNCHANGED <<project, log>>

\* advance_stage and ia_project_store.save, an upsert.
SaveStage(t) ==
  /\ turn[t].pc = "loaded"
  /\ LET new == AdvanceStage(turn[t].found, turn[t].named)
     IN /\ turn' = [turn EXCEPT ![t].pc = "saved", ![t].stage = new]
        /\ project' = [project EXCEPT ![turn[t].project] = new]
  /\ UNCHANGED log

Assistance(action) ==
  CASE action.reason = "ia_ghostwriting_guard_tripped" ->
         "ghostwriting_request_refused"
    [] action.reason = "ia_project_already_complete" ->
         "project_already_complete"
    [] OTHER -> "coaching"

\* Every decision the policy may take in this turn, over modes and risks.
Decisions(t) ==
  {DecidePedagogicalAction(sig) :
     sig \in PossibleSignals("ia_ee_help", 0, 0, {FALSE}, {turn[t].ghost},
                             {turn[t].stage})}

\* Mutants: refusals are not logged; the entry names the stage found.
LogCoachingOnly(t) ==
  /\ turn[t].pc = "saved"
  /\ \E a \in Decisions(t) :
       /\ turn' = [turn EXCEPT ![t].pc = "logged", ![t].action = a]
       /\ log' = IF a.type = "refuse" THEN log
                 ELSE log \cup {[turn |-> t, project |-> turn[t].project,
                                 stage |-> turn[t].stage,
                                 assistance |-> Assistance(a)]}
  /\ UNCHANGED project

LogStageFound(t) ==
  /\ turn[t].pc = "saved"
  /\ \E a \in Decisions(t) :
       /\ turn' = [turn EXCEPT ![t].pc = "logged", ![t].action = a]
       /\ log' = log \cup {[turn |-> t, project |-> turn[t].project,
                            stage |-> turn[t].found,
                            assistance |-> Assistance(a)]}
  /\ UNCHANGED project

\* decide_pedagogical_action, then ia_disclosure_store.add.
LogDisclosure(t) ==
  /\ turn[t].pc = "saved"
  /\ \E a \in Decisions(t) :
       /\ turn' = [turn EXCEPT ![t].pc = "logged", ![t].action = a]
       /\ log' = log \cup {[turn |-> t, project |-> turn[t].project,
                            stage |-> turn[t].stage,
                            assistance |-> Assistance(a)]}
  /\ UNCHANGED project

\* The hard gate: the refusal is returned and the Tutor never called.
Refuse(t) ==
  /\ turn[t].pc = "logged"
  /\ turn[t].action.type = "refuse"
  /\ turn' = [turn EXCEPT ![t].pc = "refused"]
  /\ UNCHANGED <<project, log>>

\* The Tutor's coaching answer, whatever its guardrails made of it.
Coach(t) ==
  /\ turn[t].pc = "logged"
  /\ turn[t].action.type # "refuse"
  /\ turn' = [turn EXCEPT ![t].pc = "answered"]
  /\ UNCHANGED <<project, log>>

\* A store call raises or the process restarts: the turn is gone, what it
\* wrote stays.
Fail(t) ==
  /\ UnderWay(t)
  /\ turn' = [turn EXCEPT ![t].pc = "failed"]
  /\ UNCHANGED <<project, log>>

\* erase_student_data on the project table; the disclosure log is exempt.
EraseStudent ==
  /\ ~SerialClient
  /\ \E p \in Projects : project[p] # NoStage
  /\ project' = [p \in Projects |-> NoStage]
  /\ UNCHANGED <<log, turn>>

Next ==
  \/ \E t \in Turns :
       \/ \E p \in Projects, gh \in BOOLEAN, st \in TextStages \cup {NoStage} :
            Load(t, p, gh, st)
       \/ SaveStage(t)
       \/ LogDisclosure(t)
       \/ Refuse(t)
       \/ Coach(t)
       \/ Fail(t)
  \/ EraseStudent

Spec == Init /\ [][Next]_vars

(***************************************************************************)
(* The event loop keeps running a turn that was received; Fail is the      *)
(* environment's and carries no fairness.                                  *)
(***************************************************************************)
FairSpec ==
  /\ Spec
  /\ \A t \in Turns : WF_vars(SaveStage(t) \/ LogDisclosure(t)
                               \/ Refuse(t) \/ Coach(t))

-----------------------------------------------------------------------------
TypeOK ==
  /\ project \in [Projects -> Stage]
  /\ log \in SUBSET DisclosureEntry
  /\ turn \in [Turns -> TurnRecord]

EntriesOf(t) == {e \in log : e.turn = t}

(***************************************************************************)
(* Every ia_ee_help turn that ended normally left exactly one entry, one   *)
(* that is still before its log call or failed there left none, and no     *)
(* turn, not even a failed one, left two (handle_turn.py:429).             *)
(***************************************************************************)
OneEntryPerTurn ==
  \A t \in Turns :
    /\ \A e, f \in EntriesOf(t) : e = f
    /\ turn[t].pc \in {"logged", "answered", "refused"} => EntriesOf(t) # {}
    /\ turn[t].pc \in {"unborn", "loaded", "saved"} => EntriesOf(t) = {}

(***************************************************************************)
(* Help is given only on the record: an answered turn was disclosed as     *)
(* coaching, for the project and the stage that turn itself had saved,     *)
(* even if another turn has moved the project on since.                    *)
(***************************************************************************)
CoachingIsDisclosed ==
  \A t \in Turns :
    turn[t].pc = "answered" =>
      [turn |-> t, project |-> turn[t].project, stage |-> turn[t].stage,
       assistance |-> "coaching"] \in log

(***************************************************************************)
(* Never ghostwriting, never help on a project the turn found complete or  *)
(* made complete: such a turn is not answered by the Tutor, whatever other *)
(* turns of the project do between its steps.                              *)
(***************************************************************************)
NoHelpWhereClosed ==
  \A t \in Turns :
    turn[t].pc = "answered" =>
      ~turn[t].ghost /\ turn[t].found # "complete" /\ turn[t].stage # "complete"

(***************************************************************************)
(* A stored stage was put there by a turn of that project and a complete   *)
(* one by a text that said so, directly or through the row the turn found: *)
(* no project is closed without its student having said so.                *)
(***************************************************************************)
CompletionWasClaimed ==
  \A p \in Projects :
    project[p] = "complete" =>
      \E t \in Turns : /\ turn[t].project = p
                       /\ turn[t].named = "complete"
                       /\ turn[t].stage = "complete"

\* state_machine.py: COMPLETE is "a genuine terminal state: once reached, no
\* further transition is possible" (deleting the row is no transition).
CompleteIsTerminal ==
  [][\A p \in Projects :
       project[p] = "complete" => project'[p] \in {"complete", NoStage}]_vars

(***************************************************************************)
(* A project leaves COMPLETE for another stage only by a turn that read it *)
(* before it was completed: reading it complete never reopens it, and no   *)
(* other step, failure or erasure does (handle_turn.py:407-410).           *)
(***************************************************************************)
ReopenedOnlyByOverlap ==
  [][\A p \in Projects :
       project[p] = "complete" /\ project'[p] \notin {"complete", NoStage} =>
         \E t \in Turns : /\ turn[t].pc = "loaded" /\ turn'[t].pc = "saved"
                          /\ turn[t].project = p
                          /\ turn[t].found # "complete"]_vars

\* A received turn ends: answered, refused or failed.
TurnsEnd == \A t \in Turns : UnderWay(t) ~> ~UnderWay(t)

\* handle_turn.py:431 "the log documents what happened, including a refusal":
\* a refused turn is not on the record as coaching feedback provided.
RefusalsAreDocumented ==
  \A t \in Turns :
    turn[t].pc = "refused" => \A e \in EntriesOf(t) : e.assistance # "coaching"
=============================================================================
