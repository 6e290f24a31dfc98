-------------------------- MODULE IAProjectProofs --------------------------
(***************************************************************************)
(* Machine-checked proofs about the IA/EE supervisor's turns, for any      *)
(* number of projects and of interleaved turns, failures and erasures.     *)
(***************************************************************************)
EXTENDS IAProject, TLAPS

-----------------------------------------------------------------------------
(***************************************************************************)
(* advance_stage: the result is a stage; COMPLETE absorbs; a new COMPLETE  *)
(* was named by the text.                                                  *)
(***************************************************************************)
LEMMA AdvanceStageFacts ==
  ASSUME NEW current \in Stage, NEW named \in Stage
  PROVE  /\ AdvanceStage(current, named) \in IAStage
         /\ current = "complete" => AdvanceStage(current, named) = "complete"
         /\ AdvanceStage(current, named) = "complete" =>
              current = "complete" \/ named = "complete"
BY DEF AdvanceStage, Stage, IAStage, NoStage

(***************************************************************************)
(* What the policy may decide on an ia_ee_help turn: a well-formed action, *)
(* and one that is not a refusal only when the guard found nothing and the *)
(* project is open.  The entry type of a decision that is not a refusal is *)
(* coaching.                                                               *)
(***************************************************************************)
LEMMA IADecision ==
  ASSUME NEW t \in Turns, NEW a \in Decisions(t)
  PROVE  /\ a \in Action
         /\ a.type # "refuse" =>
              /\ ~turn[t].ghost
              /\ turn[t].stage # "complete"
              /\ Assistance(a) = "coaching"
         /\ Assistance(a) \in AssistanceType
<1>1. PICK sig \in PossibleSignals("ia_ee_help", 0, 0, {FALSE},
                                   {turn[t].ghost}, {turn[t].stage}) :
        a = DecidePedagogicalAction(sig)
  BY DEF Decisions
<1>2. /\ sig.intent = "ia_ee_help"
      /\ sig.ghostwriting = turn[t].ghost
      /\ sig.stage = turn[t].stage
  <2>1. PICK mode \in AssessmentMode :
          sig \in [intent : {"ia_ee_help"}, highMastery : BOOLEAN,
                   mode : {mode},
                   risk : {EstimateSafetyResult(ph, mode) : ph \in Phrases},
                   attempts : {0}, frustrated : BOOLEAN, level : {0},
                   dueReview : {FALSE}, ghostwriting : {turn[t].ghost},
                   stage : {turn[t].stage}]
    BY DEF PossibleSignals
  <2>2. QED
    BY <2>1
<1>3. HardGate(sig) \in GateReason \cup {"open"}
  BY DEF HardGate, GateReason
<1>4. CASE HardGate(sig) # "open"
  <2>1. a = Act("refuse", HardGate(sig))
    BY <1>1, <1>4 DEF DecidePedagogicalAction
  <2>2. QED
    BY <1>3, <1>4, <2>1
    DEF Act, Action, ActionType, Reason, GateReason, Assistance,
        AssistanceType, MaxHintLadderLevel
<1>5. CASE HardGate(sig) = "open"
  <2>1. a = RouteToIASupervisor(sig)
    BY <1>1, <1>2, <1>5 DEF DecidePedagogicalAction
  <2>2. QED
    BY <1>2, <2>1
    DEF RouteToIASupervisor, Act, Action, ActionType, Reason, Assistance,
        AssistanceType, MaxHintLadderLevel
<1>6. QED
  BY <1>4, <1>5

-----------------------------------------------------------------------------
(***************************************************************************)
(* The inductive invariant: TypeOK, and for each turn what it has done so  *)
(* far according to its pc.  A stage that was saved came from the stage    *)
(* that was found and the one the text named; an entry exists exactly from *)
(* the log call on, and is the one that call wrote.                        *)
(***************************************************************************)
Entry(t) == [turn |-> t, project |-> turn[t].project, stage |-> turn[t].stage,
             assistance |-> Assistance(turn[t].action)]

TurnInv(t) ==
  /\ turn[t].pc \in {"saved", "logged", "answered", "refused"} =>
       turn[t].stage = AdvanceStage(turn[t].found, turn[t].named)
  /\ turn[t].pc \in {"logged", "answered"} /\ turn[t].action.type # "refuse" =>
       /\ ~turn[t].ghost
       /\ turn[t].stage # "complete"
       /\ Assistance(turn[t].action) = "coaching"
  /\ turn[t].pc = "answered" => turn[t].action.type # "refuse"
  /\ turn[t].pc \in {"unborn", "loaded", "saved"} =>
       \A e \in log : e.turn # t
  /\ turn[t].pc \in {"logged", "answered", "refused"} => Entry(t) \in log
  /\ \A e \in log : e.turn = t => e = Entry(t)

Claims(t, p) == /\ turn[t].project = p
                /\ turn[t].named = "complete"
                /\ turn[t].stage = "complete"

ClaimInv ==
  /\ \A t \in Turns : turn[t].pc \in {"unborn", "loaded"} =>
                       turn[t].stage = NoStage
  /\ \A t \in Turns : turn[t].found = "complete" =>
                       \E u \in Turns : Claims(u, turn[t].project)
  /\ \A p \in Projects : project[p] = "complete" =>
                          \E u \in Turns : Claims(u, p)

IInv == TypeOK /\ (\A t \in Turns : TurnInv(t)) /\ ClaimInv

LEMMA UnbornTyped == Unborn \in TurnRecord
<1>1. Undecided \in Action
  BY DEF Undecided, Act, Action, ActionType, Reason, IntentType,
         MaxHintLadderLevel
<1>2. (CHOOSE p \in Projects : TRUE) \in Projects
  BY IAConstants
<1>3. QED
  BY <1>1, <1>2 DEF Unborn, TurnRecord, Stage

LEMMA InitIInv == Init => IInv
<1> SUFFICES ASSUME Init PROVE IInv
  OBVIOUS
<1>1. TypeOK
  BY UnbornTyped DEF Init, TypeOK, Stage, DisclosureEntry
<1>2. QED
  BY <1>1 DEF Init, IInv, TurnInv, ClaimInv, Unborn, NoStage

(***************************************************************************)
(* A step that changes only turn t, and of it not what it claims, keeps    *)
(* every other turn's part of the invariant.                               *)
(***************************************************************************)
LEMMA OtherTurns ==
  ASSUME IInv, NEW t \in Turns, NEW u \in Turns, u # t,
         turn'[u] = turn[u],
         \A e \in log : e \in log',
         \A e \in log' : e \in log \/ e.turn = t
  PROVE  TurnInv(u)'
BY DEF IInv, TurnInv, Entry

LEMMA NextIInv == IInv /\ [Next]_vars => IInv'
<1> SUFFICES ASSUME IInv, [Next]_vars PROVE IInv'
  OBVIOUS
<1>1. ASSUME NEW t \in Turns, NEW p \in Projects, NEW gh \in BOOLEAN,
             NEW st \in TextStages \cup {NoStage}, Load(t, p, gh, st)
      PROVE  IInv'
  <2> DEFINE new == [Unborn EXCEPT !.pc = "loaded", !.project = p,
                                   !.ghost = gh, !.named = st,
                                   !.found = project[p]]
  <2>1. /\ turn' = [turn EXCEPT ![t] = new]
        /\ turn[t].pc = "unborn"
        /\ project' = project
        /\ log' = log
    BY <1>1 DEF Load
  <2>2. /\ new \in TurnRecord
        /\ new.pc = "loaded"
        /\ new.project = p
        /\ new.found = project[p]
        /\ new.stage = NoStage
    BY UnbornTyped, IAConstants DEF IInv, TypeOK, TurnRecord, Stage, Unborn
  <2> HIDE DEF new
  <2>3. TypeOK'
    BY <2>1, <2>2 DEF IInv, TypeOK
  <2>4. turn'[t] = new
    BY <2>1 DEF IInv, TypeOK
  <2>5. ASSUME NEW u \in Turns PROVE TurnInv(u)'
    <3>1. CASE u = t
      BY <2>1, <2>2, <2>4, <3>1 DEF IInv, TurnInv
    <3>2. CASE u # t
      BY <2>1, <3>2, OtherTurns DEF IInv, TypeOK
    <3>3. QED
      BY <3>1, <3>2
  <2>6. ClaimInv'
    <3>1. \A u \in Turns, q \in Projects : Claims(u, q) => Claims(u, q)'
      BY <2>1 DEF IInv, TypeOK, ClaimInv, Claims, NoStage
    <3>2. \A u \in Turns : u # t => turn'[u] = turn[u]
      BY <2>1 DEF IInv, TypeOK
    <3>3. \A u \in Turns : turn[u].project \in Projects
      BY DEF IInv, TypeOK, TurnRecord
    <3>4. QED
      BY <2>1, <2>2, <2>4, <3>1, <3>2, <3>3 DEF IInv, ClaimInv
  <2>7. QED
    BY <2>3, <2>5, <2>6 DEF IInv
<1>2. ASSUME NEW t \in Turns, SaveStage(t)
      PROVE  IInv'
  <2> DEFINE st == AdvanceStage(turn[t].found, turn[t].named)
             new == [turn[t] EXCEPT !.pc = "saved", !.stage = st]
  <2>1. /\ turn' = [turn EXCEPT ![t].pc = "saved", ![t].stage = st]
        /\ project' = [project EXCEPT ![turn[t].project] = st]
        /\ turn[t].pc = "loaded"
        /\ log' = log
    BY <1>2 DEF SaveStage
  <2>2. turn[t] \in TurnRecord
    BY DEF IInv, TypeOK
  <2>3. /\ st \in IAStage
        /\ st = "complete" =>
             turn[t].found = "complete" \/ turn[t].named = "complete"
    BY <2>2, AdvanceStageFacts DEF TurnRecord
  <2> HIDE DEF st
  <2>4. /\ new \in TurnRecord
        /\ new.pc = "saved"
        /\ new.stage = st
        /\ new.project = turn[t].project
        /\ new.named = turn[t].named
        /\ new.found = turn[t].found
    BY <2>2, <2>3 DEF TurnRecord, Stage
  <2>5. turn' = [turn EXCEPT ![t] = new]
    BY <2>1 DEF IInv, TypeOK
  <2> HIDE DEF new
  <2>6. turn'[t] = new /\ \A u \in Turns : u # t => turn'[u] = turn[u]
    BY <2>5 DEF IInv, TypeOK
  <2>7. TypeOK'
    <3>1. turn' \in [Turns -> TurnRecord]
      BY <2>4, <2>5 DEF IInv, TypeOK
    <3>2. project' \in [Projects -> Stage]
      BY <2>1, <2>3 DEF IInv, TypeOK, Stage
    <3>3. QED
      BY <2>1, <3>1, <3>2 DEF IInv, TypeOK
  <2>8. ASSUME NEW u \in Turns PROVE TurnInv(u)'
    <3>1. CASE u = t
      BY <2>1, <2>4, <2>6, <3>1 DEF IInv, TurnInv, st
    <3>2. CASE u # t
      BY <2>1, <2>6, <3>2, OtherTurns
    <3>3. QED
      BY <3>1, <3>2
  <2>9. ClaimInv'
    <3>1. turn[t].stage = NoStage
      BY <2>1 DEF IInv, ClaimInv
    <3>2. \A u \in Turns, q \in Projects : Claims(u, q) => u # t
      BY <3>1 DEF Claims, NoStage
    <3>3. \A u \in Turns, q \in Projects : Claims(u, q) => Claims(u, q)'
      BY <2>6, <3>2 DEF Claims
    <3>4. st = "complete" =>
            \E u \in Turns : Claims(u, turn[t].project)'
      <4>1. CASE turn[t].named = "complete"
        BY <2>4, <2>6, <4>1 DEF Claims
      <4>2. CASE turn[t].found = "complete"
        <5>1. PICK u \in Turns : Claims(u, turn[t].project)
          BY <4>2 DEF IInv, ClaimInv
        <5>2. u # t
          BY <3>1, <5>1 DEF Claims, NoStage
        <5>3. turn'[u] = turn[u] /\ turn'[t].project = turn[t].project
          BY <2>4, <2>6, <5>2
        <5>4. QED
          BY <5>1, <5>3 DEF Claims
      <4>3. QED
        BY <2>3, <4>1, <4>2
    <3>5. \A u \in Turns : /\ turn[u].project \in Projects
                           /\ turn'[u].project = turn[u].project
                           /\ turn'[u].found = turn[u].found
      BY <2>4, <2>6 DEF IInv, TypeOK, TurnRecord
    <3>6. \A u \in Turns : turn'[u].pc \in {"unborn", "loaded"} =>
                           turn'[u].stage = NoStage
      BY <2>4, <2>6 DEF IInv, ClaimInv
    <3>7. \A u \in Turns : turn'[u].found = "complete" =>
                           \E v \in Turns : Claims(v, turn[u].project)'
      BY <2>4, <2>6, <3>3, <3>5 DEF IInv, ClaimInv, Claims
    <3>8. \A q \in Projects : project'[q] = "complete" =>
                              \E v \in Turns : Claims(v, q)'
      BY <2>1, <3>3, <3>4, <3>5 DEF IInv, TypeOK, ClaimInv, Claims
    <3>9. QED
      BY <3>5, <3>6, <3>7, <3>8 DEF ClaimInv, Claims
  <2>10. QED
    BY <2>7, <2>8, <2>9 DEF IInv
<1>3. ASSUME NEW t \in Turns, LogDisclosure(t)
      PROVE  IInv'
  <2>1. PICK a \in Decisions(t) :
          /\ turn' = [turn EXCEPT ![t].pc = "logged", ![t].action = a]
          /\ log' = log \cup {[turn |-> t, project |-> turn[t].project,
                               stage |-> turn[t].stage,
                               assistance |-> Assistance(a)]}
    BY <1>3 DEF LogDisclosure
  <2> DEFINE new == [turn[t] EXCEPT !.pc = "logged", !.action = a]
             entry == [turn |-> t, project |-> turn[t].project,
                       stage |-> turn[t].stage, assistance |-> Assistance(a)]
  <2>2. turn[t].pc = "saved" /\ project' = project
    BY <1>3 DEF LogDisclosure
  <2>3. turn[t] \in TurnRecord
    BY DEF IInv, TypeOK
  <2>4. /\ a \in Action
        /\ a.type # "refuse" => /\ ~turn[t].ghost
                                /\ turn[t].stage # "complete"
                                /\ Assistance(a) = "coaching"
        /\ Assistance(a) \in AssistanceType
    BY IADecision
  <2>5. /\ new \in TurnRecord
        /\ new.pc = "logged"
        /\ new.action = a
        /\ new.stage = turn[t].stage
        /\ new.project = turn[t].project
        /\ new.named = turn[t].named
        /\ new.found = turn[t].found
        /\ new.ghost = turn[t].ghost
    BY <2>3, <2>4 DEF TurnRecord
  <2>6. turn' = [turn EXCEPT ![t] = new]
    BY <2>1 DEF IInv, TypeOK
  <2> HIDE DEF new
  <2>7. turn'[t] = new /\ \A u \in Turns : u # t => turn'[u] = turn[u]
    BY <2>6 DEF IInv, TypeOK
  <2>8. turn[t].stage \in IAStage
    <3>1. turn[t].stage = AdvanceStage(turn[t].found, turn[t].named)
      BY <2>2 DEF IInv, TurnInv
    <3>2. QED
      BY <2>3, <3>1, AdvanceStageFacts DEF TurnRecord
  <2>9. entry \in DisclosureEntry /\ entry.turn = t
    BY <2>3, <2>4, <2>8 DEF DisclosureEntry, TurnRecord
  <2>10. TypeOK'
    BY <2>1, <2>2, <2>5, <2>6, <2>9 DEF IInv, TypeOK
  <2>11. ASSUME NEW u \in Turns PROVE TurnInv(u)'
    <3>1. CASE u = t
      <4>1. Entry(t)' = entry
        BY <2>5, <2>7 DEF Entry
      <4>2. \A e \in log : e.turn # t
        BY <2>2 DEF IInv, TurnInv
      <4>3. \A e \in log' : e.turn = t => e = entry
        BY <2>1, <4>2
      <4>4. entry \in log'
        BY <2>1
      <4>5. turn[t].stage = AdvanceStage(turn[t].found, turn[t].named)
        BY <2>2 DEF IInv, TurnInv
      <4> HIDE DEF entry
      <4>6. QED
        BY <2>4, <2>5, <2>7, <3>1, <4>1, <4>3, <4>4, <4>5 DEF TurnInv
    <3>2. CASE u # t
      <4>1. \A e \in log' : e \in log \/ e.turn = t
        BY <2>1, <2>9
      <4>2. QED
        BY <2>1, <2>7, <3>2, <4>1, OtherTurns
    <3>3. QED
      BY <3>1, <3>2
  <2>12. ClaimInv'
    <3>1. \A u \in Turns : /\ turn'[u].project = turn[u].project
                           /\ turn'[u].named = turn[u].named
                           /\ turn'[u].stage = turn[u].stage
                           /\ turn'[u].found = turn[u].found
                           /\ turn'[u].pc \in {"unborn", "loaded"} =>
                                turn'[u].pc = turn[u].pc
      BY <2>5, <2>7
    <3>2. QED
      BY <2>2, <3>1 DEF IInv, ClaimInv, Claims
  <2>13. QED
    BY <2>10, <2>11, <2>12 DEF IInv
<1>4. ASSUME NEW t \in Turns, NEW pc \in {"answered", "refused", "failed"},
             UnderWay(t), pc = "answered" => turn[t].action.type # "refuse",
             pc # "failed" => turn[t].pc = "logged",
             turn' = [turn EXCEPT ![t].pc = pc],
             UNCHANGED <<project, log>>
      PROVE  IInv'
  <2>1. turn[t] \in TurnRecord
    BY DEF IInv, TypeOK
  <2> DEFINE new == [turn[t] EXCEPT !.pc = pc]
  <2>2. /\ new \in TurnRecord
        /\ new.pc = pc
        /\ new.action = turn[t].action
        /\ new.stage = turn[t].stage
        /\ new.project = turn[t].project
        /\ new.named = turn[t].named
        /\ new.found = turn[t].found
        /\ new.ghost = turn[t].ghost
    BY <2>1 DEF TurnRecord
  <2>3. turn' = [turn EXCEPT ![t] = new]
    BY <1>4 DEF IInv, TypeOK
  <2> HIDE DEF new
  <2>4. turn'[t] = new /\ \A u \in Turns : u # t => turn'[u] = turn[u]
    BY <2>3 DEF IInv, TypeOK
  <2>5. TypeOK'
    BY <1>4, <2>2, <2>3 DEF IInv, TypeOK
  <2>6. ASSUME NEW u \in Turns PROVE TurnInv(u)'
    <3>1. CASE u = t
      <4>1. Entry(t)' = Entry(t)
        BY <2>2, <2>4 DEF Entry
      <4>2. TurnInv(t)
        BY DEF IInv
      <4>3. QED
        BY <1>4, <2>2, <2>4, <3>1, <4>1, <4>2 DEF TurnInv
    <3>2. CASE u # t
      BY <1>4, <2>4, <3>2, OtherTurns
    <3>3. QED
      BY <3>1, <3>2
  <2>7. ClaimInv'
    <3>1. \A u \in Turns : /\ turn'[u].project = turn[u].project
                           /\ turn'[u].named = turn[u].named
                           /\ turn'[u].stage = turn[u].stage
                           /\ turn'[u].found = turn[u].found
                           /\ turn'[u].pc \in {"unborn", "loaded"} =>
                                turn'[u].pc = turn[u].pc
      BY <2>2, <2>4
    <3>2. QED
      BY <1>4, <3>1 DEF IInv, ClaimInv, Claims
  <2>8. QED
    BY <2>5, <2>6, <2>7 DEF IInv
<1>5. CASE EraseStudent
  <2>1. project' = [p \in Projects |-> NoStage] /\ UNCHANGED <<log, turn>>
    BY <1>5 DEF EraseStudent
  <2>2. TypeOK'
    BY <2>1 DEF IInv, TypeOK, Stage
  <2>3. ASSUME NEW u \in Turns PROVE TurnInv(u)'
    BY <2>1 DEF IInv, TurnInv, Entry
  <2>4. ClaimInv'
    BY <2>1 DEF IInv, ClaimInv, Claims, NoStage
  <2>5. QED
    BY <2>2, <2>3, <2>4 DEF IInv
<1>6. CASE UNCHANGED vars
  BY <1>6 DEF IInv, TypeOK, TurnInv, Entry, ClaimInv, Claims, vars
<1>7. QED
  <2>1. ASSUME NEW t \in Turns, Refuse(t) \/ Coach(t) \/ Fail(t)
        PROVE  IInv'
    BY <1>4, <2>1 DEF Refuse, Coach, Fail, UnderWay
  <2>2. QED
    BY <1>1, <1>2, <1>3, <1>5, <1>6, <2>1 DEF Next

LEMMA Invariance == Spec => []IInv
BY InitIInv, NextIInv, PTL DEF Spec

-----------------------------------------------------------------------------
(***************************************************************************)
(* The project rows, the log and the turns keep their types.               *)
(***************************************************************************)
THEOREM TypeCorrect == Spec => []TypeOK
<1>1. IInv => TypeOK
  BY DEF IInv
<1>2. QED
  BY <1>1, Invariance, PTL

(***************************************************************************)
(* Exactly one disclosure entry per turn that ended normally, never two.   *)
(***************************************************************************)
THEOREM ExactlyOneEntry == Spec => []OneEntryPerTurn
<1>1. ASSUME IInv, NEW t \in Turns
      PROVE  /\ \A e, f \in EntriesOf(t) : e = f
             /\ turn[t].pc \in {"logged", "answered", "refused"} =>
                  EntriesOf(t) # {}
             /\ turn[t].pc \in {"unborn", "loaded", "saved"} =>
                  EntriesOf(t) = {}
  <2>1. TurnInv(t) /\ Entry(t).turn = t
    BY <1>1 DEF IInv, Entry
  <2>2. QED
    BY <2>1 DEF TurnInv, EntriesOf
<1>2. IInv => OneEntryPerTurn
  BY <1>1 DEF OneEntryPerTurn
<1>3. QED
  BY <1>2, Invariance, PTL

(***************************************************************************)
(* Coaching is on the record with the stage the turn itself saved.         *)
(***************************************************************************)
THEOREM CoachingOnRecord == Spec => []CoachingIsDisclosed
<1>1. IInv => CoachingIsDisclosed
  BY DEF IInv, TurnInv, CoachingIsDisclosed, Entry
<1>2. QED
  BY <1>1, Invariance, PTL

(***************************************************************************)
(* Ghostwriting and completed projects never reach the Tutor, whatever the *)
(* interleaving.                                                           *)
(***************************************************************************)
THEOREM ClosedMeansRefused == Spec => []NoHelpWhereClosed
<1>1. ASSUME IInv PROVE NoHelpWhereClosed
  <2>1. ASSUME NEW t \in Turns, turn[t].pc = "answered"
        PROVE  ~turn[t].ghost /\ turn[t].found # "complete"
               /\ turn[t].stage # "complete"
    <3>1. /\ ~turn[t].ghost
          /\ turn[t].stage # "complete"
          /\ turn[t].stage = AdvanceStage(turn[t].found, turn[t].named)
      BY <1>1, <2>1 DEF IInv, TurnInv
    <3>2. turn[t].found \in Stage /\ turn[t].named \in Stage
      BY <1>1 DEF IInv, TypeOK, TurnRecord
    <3>3. QED
      BY <3>1, <3>2, AdvanceStageFacts
  <2>2. QED
    BY <2>1 DEF NoHelpWhereClosed
<1>2. QED
  BY <1>1, Invariance, PTL

(***************************************************************************)
(* A project is complete only if a text of that project said so.           *)
(***************************************************************************)
THEOREM CompletionClaimed == Spec => []CompletionWasClaimed
<1>1. IInv => CompletionWasClaimed
  BY DEF IInv, ClaimInv, Claims, CompletionWasClaimed
<1>2. QED
  BY <1>1, Invariance, PTL

-----------------------------------------------------------------------------
(***************************************************************************)
(* The one step that moves a project on is SaveStage, from the stage its   *)
(* turn found, and COMPLETE absorbs there: so a complete project is moved  *)
(* to another stage only by a turn that found it otherwise, which is one   *)
(* that read the row before it was completed.                              *)
(***************************************************************************)
LEMMA MoveFromComplete ==
  ASSUME IInv, [Next]_vars, NEW p \in Projects,
         project[p] = "complete", project'[p] \notin {"complete", NoStage}
  PROVE  \E t \in Turns : /\ SaveStage(t)
                          /\ turn[t].pc = "loaded" /\ turn'[t].pc = "saved"
                          /\ turn[t].project = p
                          /\ turn[t].found # "complete"
<1>1. project'[p] # project[p]
  OBVIOUS
<1>2. PICK t \in Turns : SaveStage(t)
  BY <1>1 DEF Next, vars, Load, LogDisclosure, Refuse, Coach, Fail,
              EraseStudent
<1>3. /\ turn[t] \in TurnRecord
      /\ turn[t].pc = "loaded" /\ turn'[t].pc = "saved"
  BY <1>2 DEF SaveStage, IInv, TypeOK
<1>4. project' = [project EXCEPT ![turn[t].project] =
                    AdvanceStage(turn[t].found, turn[t].named)]
  BY <1>2 DEF SaveStage
<1>5. turn[t].project = p /\ turn[t].found # "complete"
  BY <1>1, <1>3, <1>4, AdvanceStageFacts DEF IInv, TypeOK, TurnRecord
<1>6. QED
  BY <1>2, <1>3, <1>5

(***************************************************************************)
(* ReopenedOnlyByOverlap, for any number of projects, turns, failures and  *)
(* erasures: a project leaves COMPLETE for another stage only by a turn    *)
(* that read it before it was completed.                                   *)
(***************************************************************************)
THEOREM ReopenedByOverlap == Spec => ReopenedOnlyByOverlap
<1>1. IInv /\ [Next]_vars =>
        [\A p \in Projects :
           project[p] = "complete" /\ project'[p] \notin {"complete", NoStage}
             => \E t \in Turns :
                  /\ turn[t].pc = "loaded" /\ turn'[t].pc = "saved"
                  /\ turn[t].project = p
                  /\ turn[t].found # "complete"]_vars
  BY MoveFromComplete
<1>2. QED
  BY <1>1, Invariance, PTL DEF Spec, ReopenedOnlyByOverlap

(***************************************************************************)
(* What a client that awaits each answer adds to the invariant: one turn   *)
(* is under way at a time, so the stage a loaded turn found is the stored  *)
(* one.                                                                    *)
(***************************************************************************)
FoundIsStored ==
  /\ \A t, u \in Turns : UnderWay(t) /\ UnderWay(u) => t = u
  /\ \A t \in Turns :
       turn[t].pc = "loaded" => turn[t].found = project[turn[t].project]

LEMMA StoredStep ==
  ASSUME SerialClient, IInv, FoundIsStored, [Next]_vars
  PROVE  FoundIsStored'
<1> USE DEF FoundIsStored, UnderWay
<1>1. \A u \in Turns : turn[u] \in TurnRecord
  BY DEF IInv, TypeOK
<1>2. ASSUME NEW t \in Turns, NEW p \in Projects, NEW gh \in BOOLEAN,
             NEW st \in TextStages \cup {NoStage}, Load(t, p, gh, st)
      PROVE  FoundIsStored'
  <2>1. /\ \A u \in Turns : ~UnderWay(u)
        /\ project' = project
        /\ \A u \in Turns : u # t => turn'[u] = turn[u]
    BY <1>2 DEF Load, IInv, TypeOK
  <2>2. turn'[t].project = p /\ turn'[t].found = project[p]
    <3>1. turn'[t] = [Unborn EXCEPT !.pc = "loaded", !.project = p,
                                    !.ghost = gh, !.named = st,
                                    !.found = project[p]]
      BY <1>2 DEF Load, IInv, TypeOK
    <3>2. QED
      BY <3>1 DEF Unborn
  <2>3. QED
    BY <2>1, <2>2
<1>3. ASSUME NEW t \in Turns,
             SaveStage(t) \/ LogDisclosure(t) \/ Refuse(t) \/ Coach(t)
               \/ Fail(t)
      PROVE  FoundIsStored'
  <2>1. /\ UnderWay(t) /\ turn'[t].pc # "loaded"
        /\ \A u \in Turns : u # t => turn'[u] = turn[u]
    BY <1>1, <1>3 DEF SaveStage, LogDisclosure, Refuse, Coach, Fail, IInv,
                      TypeOK, TurnRecord
  <2>2. \A u \in Turns : u # t => ~UnderWay(u)
    BY <2>1
  <2>3. QED
    BY <2>1, <2>2
<1>4. CASE EraseStudent
  BY <1>4 DEF EraseStudent
<1>5. CASE UNCHANGED vars
  BY <1>5 DEF vars
<1>6. QED
  BY <1>2, <1>3, <1>4, <1>5 DEF Next

(***************************************************************************)
(* For a student who awaits each answer, state_machine.py is right for     *)
(* every number of projects and turns and whatever fails: COMPLETE is a    *)
(* terminal state of the stored project too (CompleteIsTerminal).          *)
(***************************************************************************)
THEOREM TerminalWhenAwaited == SerialClient => (Spec => CompleteIsTerminal)
<1> SUFFICES ASSUME SerialClient PROVE Spec => CompleteIsTerminal
  OBVIOUS
<1>1. Init => FoundIsStored
  BY DEF Init, FoundIsStored, Unborn, UnderWay
<1>2. IInv /\ FoundIsStored /\ [Next]_vars => FoundIsStored'
  BY StoredStep
<1>3. IInv /\ FoundIsStored /\ [Next]_vars =>
        [\A p \in Projects :
           project[p] = "complete" => project'[p] \in {"complete", NoStage}]_vars
  BY MoveFromComplete DEF FoundIsStored
<1>4. QED
  BY <1>1, <1>2, <1>3, Invariance, PTL DEF Spec, CompleteIsTerminal
=============================================================================
