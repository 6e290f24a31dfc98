-------------------------- MODULE HintLadderProofs --------------------------
(***************************************************************************)
(* Machine-checked proofs about the hint ladder, for any sets of sessions, *)
(* problems and overlapping turns.                                         *)
(***************************************************************************)
EXTENDS HintLadder, TLAPS

-----------------------------------------------------------------------------
(***************************************************************************)
(* What the policy returns, whatever text, mode, mastery and stage: a      *)
(* well-formed Action, and a HINT only after two counted attempts, with    *)
(* the next rung cut at the cap of that attempt count                      *)
(* (decide_pedagogical_action).                                            *)
(***************************************************************************)
LEMMA DecisionShape ==
  ASSUME NEW i \in IntentType, NEW n \in Nat, NEW l \in 0..MaxHintLadderLevel,
         NEW a \in PossibleDecisions(i, n, l)
  PROVE  /\ a \in Action
         /\ a.type = "hint" =>
              /\ i = "solve_request"
              /\ n >= 2
              /\ a.level = LesserOf(l + 1, IF n <= 3 THEN MidAttemptHintCap
                                                     ELSE MaxHintLadderLevel)
<1>1. PICK sig \in PossibleSignals(i, n, l, PossibleDues(i), PossibleGhosts(i),
                                  PossibleStages(i)) :
             a = DecidePedagogicalAction(sig)
  BY DEF PossibleDecisions
<1>2. /\ sig.intent = i
      /\ sig.attempts = n
      /\ sig.level = l
  BY DEF PossibleSignals
<1>3. HardGate(sig) \in GateReason \cup {"open"}
  BY DEF HardGate, GateReason
<1>4. \/ \E r \in Reason, ty \in ActionType \ {"hint"} : a = Act(ty, r)
      \/ i = "solve_request" /\ n >= 2 /\ a = SocraticLadder(n, l)
  <2>1. CASE HardGate(sig) # "open"
    BY <1>1, <1>3, <2>1 DEF DecidePedagogicalAction, ActionType, Reason
  <2>2. CASE HardGate(sig) = "open"
    BY <1>1, <1>2, <2>2
    DEF DecidePedagogicalAction, RouteToIASupervisor, SocraticLadder,
        ScheduleNextReviewItem, ActionType, Reason
  <2>3. QED
    BY <2>1, <2>2
<1>5. CASE \E r \in Reason, ty \in ActionType \ {"hint"} : a = Act(ty, r)
  BY <1>5 DEF Act, Action, MaxHintLadderLevel
<1>6. CASE i = "solve_request" /\ n >= 2 /\ a = SocraticLadder(n, l)
  <2>1. a = [type |-> "hint",
             level |-> LesserOf(l + 1, IF n <= 3 THEN MidAttemptHintCap
                                                 ELSE MaxHintLadderLevel),
             reason |-> "solve_request_ladder"]
    BY <1>6 DEF SocraticLadder
  <2>2. a.level \in 0..MaxHintLadderLevel
    BY <2>1 DEF LesserOf, MidAttemptHintCap, MaxHintLadderLevel
  <2>3. QED
    BY <1>6, <2>1, <2>2 DEF Action, ActionType, Reason
<1>7. QED
  BY <1>4, <1>5, <1>6

(***************************************************************************)
(* An earned ladder stays earned when it is advanced by any decision the   *)
(* policy takes from it, and a hint is exactly the next rung: the mid      *)
(* cap is never below the next rung of an earned ladder.                   *)
(***************************************************************************)
LEMMA EarnedStep ==
  ASSUME NEW c \in ProblemSessionState, Earned(c), NEW i \in IntentType,
         NEW a \in PossibleDecisions(i, c.attempts, c.level),
         a.type = "hint"
  PROVE  /\ a.level = LesserOf(c.level + 1, MaxHintLadderLevel)
         /\ a.level <= c.attempts - 1
         /\ i = "solve_request"
<1>1. c.attempts \in Nat /\ c.level \in 0..MaxHintLadderLevel
  BY DEF ProblemSessionState
<1>2. /\ i = "solve_request"
      /\ c.attempts >= 2
      /\ a.level = LesserOf(c.level + 1, IF c.attempts <= 3
                                         THEN MidAttemptHintCap
                                         ELSE MaxHintLadderLevel)
  BY <1>1, DecisionShape
<1>3. QED
  BY <1>1, <1>2 DEF Earned, LesserOf, MidAttemptHintCap, MaxHintLadderLevel

-----------------------------------------------------------------------------
(***************************************************************************)
(* The inductive invariant.  The properties speak of stored records; a     *)
(* write copies a record that a turn read earlier, possibly overwritten    *)
(* since, so the invariant says the same of every record in flight.        *)
(***************************************************************************)
HintInv(t) ==
  turn[t].action.type = "hint" =>
    /\ turn[t].action.level =
         LesserOf(turn[t].current.level + 1, MaxHintLadderLevel)
    /\ turn[t].action.level <= turn[t].current.attempts - 1
    /\ turn[t].intent = "solve_request"

\* The switch to a named problem is already made in a loaded record.
OnProblem(t) ==
  turn[t].problem = NoProblem \/ turn[t].problem = turn[t].current.problem

Justified(s, state) == state.attempts <= answered[s][state.problem]

IInv ==
  /\ TypeOK
  /\ \A s \in Sessions :
       store[s] # NoRow => Earned(store[s]) /\ Justified(s, store[s])
  /\ \A t \in Turns :
       InFlight(t) => /\ Earned(turn[t].current)
                      /\ Justified(turn[t].session, turn[t].current)
                      /\ OnProblem(t)
                      /\ HintInv(t)

(***************************************************************************)
(* The record a turn loads is typed, earned and justified when the stored  *)
(* one is (session_store.get and the problem switch).                      *)
(***************************************************************************)
LEMMA LoadOK ==
  ASSUME IInv, NEW s \in Sessions, NEW p \in ProblemIds
  PROVE  /\ LoadState(s, p) \in ProblemSessionState
         /\ Earned(LoadState(s, p))
         /\ Justified(s, LoadState(s, p))
         /\ p = NoProblem \/ p = LoadState(s, p).problem
<1>1. /\ Fresh(p).problem = p
      /\ Fresh(p) \in ProblemSessionState
      /\ Earned(Fresh(p))
      /\ Justified(s, Fresh(p))
  BY DEF IInv, TypeOK, Fresh, ProblemSessionState, Earned, Justified,
         MaxHintLadderLevel
<1>2. store[s] # NoRow =>
        /\ store[s] \in ProblemSessionState
        /\ Earned(store[s])
        /\ Justified(s, store[s])
  BY DEF IInv, TypeOK
<1>3. QED
  BY <1>1, <1>2 DEF LoadState

(***************************************************************************)
(* The advanced record of an answered turn is typed and earned, stays on   *)
(* the problem of the record that was read, and counts one attempt exactly *)
(* for a solve request (advance_session_state).                            *)
(***************************************************************************)
LEMMA AdvanceOK ==
  ASSUME IInv, NEW t \in Turns, InFlight(t)
  PROVE  LET new == AdvanceSessionState(turn[t].current, turn[t].problem,
                                        turn[t].intent, turn[t].action)
         IN /\ new \in ProblemSessionState
            /\ Earned(new)
            /\ new.problem = turn[t].current.problem
            /\ new.attempts = IF turn[t].intent = "solve_request"
                              THEN turn[t].current.attempts + 1
                              ELSE turn[t].current.attempts
<1> DEFINE c == turn[t].current
           a == turn[t].action
           new == AdvanceSessionState(c, turn[t].problem, turn[t].intent, a)
<1>1. /\ turn[t] \in TurnState
      /\ Earned(c)
      /\ OnProblem(t)
      /\ HintInv(t)
  BY DEF IInv, TypeOK, InFlight
<1>2. /\ c \in ProblemSessionState
      /\ a \in Action
  BY <1>1 DEF TurnState
<1>3. new = [c EXCEPT
               !.attempts = IF turn[t].intent = "solve_request"
                            THEN @ + 1 ELSE @,
               !.level = IF a.type = "hint" THEN a.level ELSE @]
  BY <1>1 DEF AdvanceSessionState, OnProblem
<1>4. /\ new.problem = c.problem
      /\ new.attempts = IF turn[t].intent = "solve_request"
                        THEN c.attempts + 1 ELSE c.attempts
      /\ new.level = IF a.type = "hint" THEN a.level ELSE c.level
      /\ new \in ProblemSessionState
  <2>1. /\ c.attempts \in Nat
        /\ c.level \in 0..MaxHintLadderLevel
        /\ a.level \in 0..MaxHintLadderLevel
    BY <1>2 DEF ProblemSessionState, Action
  <2> DEFINE n == IF turn[t].intent = "solve_request"
                  THEN c.attempts + 1 ELSE c.attempts
             l == IF a.type = "hint" THEN a.level ELSE c.level
  <2>2. n \in Nat /\ l \in 0..MaxHintLadderLevel
    BY <2>1
  <2>3. new = [c EXCEPT !.attempts = n, !.level = l]
    BY <1>2, <1>3 DEF ProblemSessionState
  <2> HIDE DEF a, c, new, n, l
  <2>4. /\ new.problem = c.problem
        /\ new.attempts = n
        /\ new.level = l
        /\ new \in ProblemSessionState
    BY <1>2, <2>2, <2>3 DEF ProblemSessionState
  <2>5. QED
    BY <2>4 DEF n, l
<1>5. Earned(new)
  <2>1. CASE a.type = "hint"
    BY <1>1, <1>2, <1>4, <2>1
    DEF Earned, HintInv, ProblemSessionState, Action, MaxHintLadderLevel
  <2>2. CASE a.type # "hint"
    BY <1>1, <1>2, <1>4, <2>2
    DEF Earned, ProblemSessionState, MaxHintLadderLevel
  <2>3. QED
    BY <2>1, <2>2
<1>6. QED
  BY <1>4, <1>5

LEMMA InitIInv == Init => IInv
BY DEF Init, IInv, TypeOK, InFlight

(***************************************************************************)
(* Every step keeps the invariant: one step of the proof per action.       *)
(***************************************************************************)
LEMMA NextIInv == IInv /\ [Next]_vars => IInv'
<1> SUFFICES ASSUME IInv, [Next]_vars PROVE IInv'
  OBVIOUS
<1>1. ASSUME NEW t \in Turns, turn' = [turn EXCEPT ![t] = NoTurn],
             UNCHANGED <<store, answered>>
      PROVE  IInv'
  <2>1. TypeOK'
    BY <1>1 DEF IInv, TypeOK
  <2>2. QED
    BY <1>1, <2>1
    DEF IInv, TypeOK, InFlight, Justified, OnProblem, HintInv
<1>2. ASSUME NEW t \in Turns, NEW s \in Sessions, NEW p \in ProblemIds,
             NEW i \in Intents, Begin(t, s, p, i)
      PROVE  IInv'
  <2> DEFINE new == [pc |-> "loaded", session |-> s, problem |-> p,
                     intent |-> i, current |-> LoadState(s, p),
                     action |-> Undecided]
  <2>1. i \in IntentType
    BY LadderConstants
  <2>2. Undecided \in Action
    BY DEF Undecided, Act, Action, ActionType, Reason, IntentType,
           MaxHintLadderLevel
  <2>3. new \in TurnState
    BY <2>1, <2>2, LoadOK DEF TurnState
  <2>4. /\ turn' = [turn EXCEPT ![t] = new]
        /\ UNCHANGED <<store, answered>>
    BY <1>2 DEF Begin
  <2>5. TypeOK'
    BY <2>3, <2>4 DEF IInv, TypeOK
  <2>6. ASSUME NEW u \in Turns, InFlight(u)'
        PROVE  (/\ Earned(turn[u].current)
                /\ Justified(turn[u].session, turn[u].current)
                /\ OnProblem(u)
                /\ HintInv(u))'
    <3>1. CASE u = t
      <4>1. turn'[u] = new
        BY <2>4, <3>1 DEF IInv, TypeOK
      <4>2. QED
        BY <2>4, <4>1, LoadOK DEF Justified, OnProblem, HintInv, Undecided, Act,
                                     Earned
    <3>2. CASE u # t
      BY <2>4, <2>6, <3>2
      DEF IInv, TypeOK, InFlight, Justified, OnProblem, HintInv
    <3>3. QED
      BY <3>1, <3>2
  <2>7. QED
    BY <2>4, <2>5, <2>6 DEF IInv, Justified
<1>3. ASSUME NEW t \in Turns, Decide(t)
      PROVE  IInv'
  <2>1. /\ turn[t] \in TurnState
        /\ Earned(turn[t].current)
        /\ Justified(turn[t].session, turn[t].current)
        /\ OnProblem(t)
    BY <1>3 DEF IInv, TypeOK, Decide, InFlight
  <2>2. PICK a \in PossibleDecisions(turn[t].intent, turn[t].current.attempts,
                                     turn[t].current.level) :
          turn' = [turn EXCEPT ![t] = [@ EXCEPT !.pc = "answering",
                                                !.action = a]]
    BY <1>3 DEF Decide
  <2> DEFINE new == [turn[t] EXCEPT !.pc = "answering", !.action = a]
  <2>3. UNCHANGED <<store, answered>>
    BY <1>3 DEF Decide
  <2>4. /\ turn[t].intent \in IntentType
        /\ turn[t].current \in ProblemSessionState
        /\ turn[t].current.attempts \in Nat
        /\ turn[t].current.level \in 0..MaxHintLadderLevel
    BY <2>1 DEF TurnState, ProblemSessionState
  <2>5. a \in Action
    BY <2>2, <2>4, DecisionShape
  <2>6. /\ new \in TurnState
        /\ new.current = turn[t].current
        /\ new.problem = turn[t].problem
        /\ new.session = turn[t].session
        /\ new.intent = turn[t].intent
        /\ new.action = a
    BY <2>1, <2>5 DEF TurnState
  <2>7. TypeOK'
    BY <2>2, <2>3, <2>6 DEF IInv, TypeOK
  <2>8. ASSUME NEW u \in Turns, InFlight(u)'
        PROVE  (/\ Earned(turn[u].current)
                /\ Justified(turn[u].session, turn[u].current)
                /\ OnProblem(u)
                /\ HintInv(u))'
    <3>1. CASE u = t
      <4>1. turn'[u] = new
        BY <2>2, <3>1 DEF IInv, TypeOK
      <4>2. a.type = "hint" =>
              /\ a.level = LesserOf(turn[t].current.level + 1,
                                    MaxHintLadderLevel)
              /\ a.level <= turn[t].current.attempts - 1
              /\ turn[t].intent = "solve_request"
        BY <2>1, <2>2, <2>4, EarnedStep
      <4>3. QED
        BY <2>1, <2>3, <2>6, <4>1, <4>2
        DEF Justified, OnProblem, HintInv, Earned
    <3>2. CASE u # t
      BY <2>2, <2>3, <2>8, <3>2
      DEF IInv, TypeOK, InFlight, Justified, OnProblem, HintInv
    <3>3. QED
      BY <3>1, <3>2
  <2>9. QED
    BY <2>3, <2>7, <2>8 DEF IInv, Justified
<1>4. ASSUME NEW t \in Turns, Answer(t)
      PROVE  IInv'
  <2> DEFINE s == turn[t].session
             c == turn[t].current
             new == AdvanceSessionState(c, turn[t].problem, turn[t].intent,
                                        turn[t].action)
  <2>1. /\ InFlight(t)
        /\ turn[t] \in TurnState
        /\ s \in Sessions
        /\ c \in ProblemSessionState
    BY <1>4 DEF IInv, TypeOK, Answer, InFlight, TurnState
  <2>2. /\ new \in ProblemSessionState
        /\ Earned(new)
        /\ new.problem = c.problem
        /\ new.attempts = IF turn[t].intent = "solve_request"
                          THEN c.attempts + 1 ELSE c.attempts
    BY <2>1, AdvanceOK
  <2> HIDE DEF new
  <2>3. /\ store' = [store EXCEPT ![s] = new]
        /\ answered' = IF turn[t].intent = "solve_request"
                       THEN [answered EXCEPT ![s][new.problem] = @ + 1]
                       ELSE answered
        /\ turn' = [turn EXCEPT ![t] = NoTurn]
    BY <1>4 DEF Answer, new
  <2>4. /\ answered \in [Sessions -> [ProblemIds -> Nat]]
        /\ new.problem \in ProblemIds
    BY <2>2 DEF IInv, TypeOK, ProblemSessionState
  <2>5. /\ answered' \in [Sessions -> [ProblemIds -> Nat]]
        /\ \A r \in Sessions, q \in ProblemIds :
             answered'[r][q] >= answered[r][q]
        /\ turn[t].intent = "solve_request" =>
             answered'[s][new.problem] = answered[s][new.problem] + 1
    BY <2>1, <2>3, <2>4
  <2>6. TypeOK'
    BY <2>1, <2>2, <2>3, <2>5 DEF IInv, TypeOK
  <2>7. ASSUME NEW r \in Sessions, NEW st \in ProblemSessionState,
               Justified(r, st)
        PROVE  Justified(r, st)'
    BY <2>4, <2>5, <2>7 DEF Justified, ProblemSessionState
  <2>8. new.attempts <= answered'[s][new.problem]
    <3>1. c.attempts <= answered[s][c.problem]
      BY <2>1 DEF IInv, Justified
    <3>2. QED
      BY <2>1, <2>2, <2>4, <2>5, <3>1 DEF ProblemSessionState
  <2>9. ASSUME NEW r \in Sessions, store'[r] # NoRow
        PROVE  (Earned(store[r]) /\ Justified(r, store[r]))'
    <3>1. CASE r = s
      <4>1. store'[r] = new
        BY <2>1, <2>3, <3>1 DEF IInv, TypeOK
      <4>2. QED
        BY <2>2, <2>8, <3>1, <4>1 DEF Justified, Earned
    <3>2. CASE r # s
      <4>1. store'[r] = store[r]
        BY <2>3, <3>2 DEF IInv, TypeOK
      <4>2. /\ store[r] \in ProblemSessionState
            /\ Earned(store[r])
            /\ Justified(r, store[r])
        BY <2>9, <4>1 DEF IInv, TypeOK
      <4>3. QED
        BY <2>7, <4>1, <4>2 DEF Justified, Earned
    <3>3. QED
      BY <3>1, <3>2
  <2>10. ASSUME NEW u \in Turns, InFlight(u)'
         PROVE  (/\ Earned(turn[u].current)
                 /\ Justified(turn[u].session, turn[u].current)
                 /\ OnProblem(u)
                 /\ HintInv(u))'
    <3>1. u # t /\ turn'[u] = turn[u] /\ InFlight(u)
      BY <2>3, <2>10 DEF IInv, TypeOK, InFlight
    <3>2. /\ turn[u] \in TurnState
          /\ turn[u].session \in Sessions
          /\ turn[u].current \in ProblemSessionState
      BY <3>1 DEF IInv, TypeOK, InFlight, TurnState
    <3>3. Justified(turn[u].session, turn[u].current)
      BY <3>1 DEF IInv
    <3>4. QED
      BY <2>7, <3>1, <3>2, <3>3 DEF IInv, Justified, OnProblem, HintInv, Earned
  <2>11. QED
    BY <2>6, <2>9, <2>10 DEF IInv
<1>5. CASE UNCHANGED vars
  BY <1>5 DEF IInv, TypeOK, InFlight, Justified, OnProblem, HintInv, vars
<1>6. QED
  BY <1>1, <1>2, <1>3, <1>4, <1>5 DEF Next, Refuse, Abort

-----------------------------------------------------------------------------
\* Every reachable state satisfies the inductive invariant.
THEOREM Invariance == Spec => []IInv
BY InitIInv, NextIInv, PTL DEF Spec

(***************************************************************************)
(* Type correctness of the session records, turns and history.             *)
(***************************************************************************)
THEOREM TypeCorrect == Spec => []TypeOK
<1>1. IInv => TypeOK
  BY DEF IInv
<1>2. QED
  BY <1>1, Invariance, PTL

(***************************************************************************)
(* No interleaving of any number of turns, refusals and failures puts a    *)
(* session on a rung its counted attempts have not earned.                 *)
(***************************************************************************)
THEOREM LadderIsEarned == Spec => []LadderEarned
<1>1. IInv => LadderEarned
  BY DEF IInv, LadderEarned
<1>2. QED
  BY <1>1, Invariance, PTL

(***************************************************************************)
(* A hint is always the next rung of the record it was decided from, so    *)
(* the mid-attempt cap never hands out a weaker hint.                      *)
(***************************************************************************)
THEOREM HintsAreNextRungs == Spec => []HintIsNextRung
<1>1. IInv => HintIsNextRung
  BY DEF IInv, HintIsNextRung, HintInv
<1>2. QED
  BY <1>1, Invariance, PTL

(***************************************************************************)
(* Counted attempts never exceed the solve requests answered.              *)
(***************************************************************************)
THEOREM AttemptsAreJustified == Spec => []AttemptsJustified
<1>1. IInv => AttemptsJustified
  BY DEF IInv, AttemptsJustified, Justified
<1>2. QED
  BY <1>1, Invariance, PTL

-----------------------------------------------------------------------------
(***************************************************************************)
(* What a client that awaits each answer adds to the invariant.  The       *)
(* record a turn decides from is still the one its session stands on when  *)
(* the turn writes: no other turn of the session is in flight.             *)
(***************************************************************************)
ReadIsStored ==
  /\ \A t, u \in Turns :
       InFlight(t) /\ InFlight(u) /\ turn[t].session = turn[u].session => t = u
  /\ \A t \in Turns :
       InFlight(t) =>
         turn[t].current = LoadState(turn[t].session, turn[t].problem)

\* A hint is only ever chosen after two counted attempts.
HintAfterTwo ==
  \A t \in Turns :
    InFlight(t) /\ turn[t].action.type = "hint" => turn[t].current.attempts >= 2

LEMMA ReadIsStoredStep ==
  ASSUME SerialClient, IInv, ReadIsStored, [Next]_vars
  PROVE  ReadIsStored'
<1>1. ASSUME NEW t \in Turns, turn' = [turn EXCEPT ![t] = NoTurn],
             store' = store
      PROVE  ReadIsStored'
  <2>1. turn'[t] = NoTurn /\ \A u \in Turns : u # t => turn'[u] = turn[u]
    BY <1>1 DEF IInv, TypeOK
  <2>2. \A u \in Turns : InFlight(u)' => InFlight(u) /\ turn'[u] = turn[u]
    BY <2>1 DEF InFlight
  <2>3. QED
    BY <1>1, <2>2 DEF ReadIsStored, LoadState
<1>2. ASSUME NEW t \in Turns, NEW s \in Sessions, NEW p \in ProblemIds,
             NEW i \in Intents, Begin(t, s, p, i)
      PROVE  ReadIsStored'
  <2>1. /\ turn' = [turn EXCEPT ![t] =
                      [pc |-> "loaded", session |-> s, problem |-> p,
                       intent |-> i, current |-> LoadState(s, p),
                       action |-> Undecided]]
        /\ store' = store
        /\ \A u \in Turns : InFlight(u) => turn[u].session # s
    BY <1>2 DEF Begin
  <2>2. /\ turn'[t].session = s /\ turn'[t].problem = p
        /\ turn'[t].current = LoadState(s, p)
        /\ \A u \in Turns : u # t => turn'[u] = turn[u]
    BY <2>1 DEF IInv, TypeOK
  <2>3. QED
    BY <2>1, <2>2 DEF ReadIsStored, InFlight, LoadState
<1>3. ASSUME NEW t \in Turns, Decide(t)
      PROVE  ReadIsStored'
  <2>1. turn[t] \in TurnState /\ InFlight(t) /\ store' = store
    BY <1>3 DEF Decide, InFlight, IInv, TypeOK
  <2>2. PICK a : turn' = [turn EXCEPT ![t] = [@ EXCEPT !.pc = "answering",
                                                       !.action = a]]
    BY <1>3 DEF Decide
  <2>3. /\ turn'[t].session = turn[t].session
        /\ turn'[t].problem = turn[t].problem
        /\ turn'[t].current = turn[t].current
        /\ \A u \in Turns : u # t => turn'[u] = turn[u]
    BY <2>1, <2>2 DEF IInv, TypeOK, TurnState
  <2>4. \A u \in Turns : InFlight(u)' => InFlight(u)
    BY <2>1, <2>3 DEF InFlight
  <2>5. QED
    BY <2>1, <2>3, <2>4 DEF ReadIsStored, LoadState
<1>4. ASSUME NEW t \in Turns, Answer(t)
      PROVE  ReadIsStored'
  <2>1. /\ InFlight(t)
        /\ turn'[t] = NoTurn
        /\ \A u \in Turns : u # t => turn'[u] = turn[u]
        /\ \A r \in Sessions : r # turn[t].session => store'[r] = store[r]
    BY <1>4 DEF Answer, IInv, TypeOK
  <2>2. ASSUME NEW u \in Turns, InFlight(u)'
        PROVE  /\ InFlight(u) /\ turn'[u] = turn[u]
               /\ turn[u].session \in Sessions
               /\ store'[turn[u].session] = store[turn[u].session]
    <3>1. u # t /\ turn'[u] = turn[u] /\ InFlight(u)
      BY <2>1, <2>2 DEF InFlight
    <3>2. turn[u].session \in Sessions
      BY <3>1 DEF IInv, TypeOK, InFlight, TurnState
    <3>3. turn[u].session # turn[t].session
      BY <2>1, <3>1 DEF ReadIsStored
    <3>4. QED
      BY <2>1, <3>1, <3>2, <3>3
  <2>3. QED
    BY <2>2 DEF ReadIsStored, LoadState
<1>5. CASE UNCHANGED vars
  BY <1>5 DEF ReadIsStored, LoadState, InFlight, vars
<1>6. QED
  BY <1>1, <1>2, <1>3, <1>4, <1>5 DEF Next, Refuse, Abort

LEMMA HintAfterTwoStep ==
  ASSUME IInv, HintAfterTwo, [Next]_vars
  PROVE  HintAfterTwo'
<1>1. ASSUME NEW t \in Turns, turn' = [turn EXCEPT ![t] = NoTurn]
      PROVE  HintAfterTwo'
  BY <1>1 DEF HintAfterTwo, InFlight, IInv, TypeOK
<1>2. ASSUME NEW t \in Turns, NEW s \in Sessions, NEW p \in ProblemIds,
             NEW i \in Intents, Begin(t, s, p, i)
      PROVE  HintAfterTwo'
  BY <1>2 DEF Begin, Undecided, Act, HintAfterTwo, InFlight, IInv, TypeOK
<1>3. ASSUME NEW t \in Turns, Decide(t)
      PROVE  HintAfterTwo'
  <2>1. turn[t] \in TurnState /\ InFlight(t)
    BY <1>3 DEF Decide, InFlight, IInv, TypeOK
  <2>2. PICK a \in PossibleDecisions(turn[t].intent, turn[t].current.attempts,
                                     turn[t].current.level) :
          turn' = [turn EXCEPT ![t] = [@ EXCEPT !.pc = "answering",
                                                !.action = a]]
    BY <1>3 DEF Decide
  <2>3. a.type = "hint" => turn[t].current.attempts >= 2
    <3>1. /\ turn[t].intent \in IntentType
          /\ turn[t].current.attempts \in Nat
          /\ turn[t].current.level \in 0..MaxHintLadderLevel
      BY <2>1 DEF TurnState, ProblemSessionState
    <3>2. QED
      BY <2>2, <3>1, DecisionShape
  <2>4. /\ turn'[t].action = a
        /\ turn'[t].current = turn[t].current
        /\ \A u \in Turns : u # t => turn'[u] = turn[u]
    BY <2>1, <2>2 DEF IInv, TypeOK, TurnState
  <2>5. QED
    BY <2>3, <2>4 DEF HintAfterTwo, InFlight
<1>4. CASE UNCHANGED vars
  BY <1>4 DEF HintAfterTwo, InFlight, vars
<1>5. QED
  BY <1>1, <1>2, <1>3, <1>4 DEF Next, Refuse, Answer, Abort

-----------------------------------------------------------------------------
(***************************************************************************)
(* The refinement.  Standing is the mapped table: a session without a row  *)
(* stands on nothing, so the record a turn loads is the ladder it stands   *)
(* on in LadderSpec.                                                       *)
(***************************************************************************)
Mapped == [s \in Sessions |->
             IF store[s] = NoRow THEN Fresh(NoProblem) ELSE store[s]]

LEMMA LoadIsStanding ==
  ASSUME NEW s \in Sessions, NEW p \in ProblemIds
  PROVE  LoadState(s, p) = Ladder!Standing(s, p)
BY DEF LoadState, Fresh, Ladder!Standing, Ladder!Start

(***************************************************************************)
(* The write of an answered turn is one step of the abstract ladder: talk, *)
(* or one counted attempt that climbs at most one rung.                    *)
(***************************************************************************)
LEMMA AnswerClimbs ==
  ASSUME IInv, ReadIsStored, HintAfterTwo, NEW t \in Turns, Answer(t)
  PROVE  Ladder!Next
<1> DEFINE s == turn[t].session
           p == turn[t].problem
           c == turn[t].current
           a == turn[t].action
           new == AdvanceSessionState(c, p, turn[t].intent, a)
<1>1. /\ InFlight(t)
      /\ turn[t] \in TurnState
      /\ s \in Sessions /\ p \in ProblemIds
      /\ c \in ProblemSessionState /\ a \in Action
  BY DEF IInv, TypeOK, Answer, InFlight, TurnState
<1>2. c = Ladder!Standing(s, p)
  BY <1>1, LoadIsStanding DEF ReadIsStored
<1>3. c.attempts \in Nat /\ c.level \in 0..MaxHintLadderLevel
  BY <1>1 DEF ProblemSessionState
<1>4. /\ OnProblem(t) /\ HintInv(t)
      /\ a.type = "hint" => c.attempts >= 2
  BY <1>1 DEF IInv, HintAfterTwo
<1> DEFINE rung == IF a.type = "hint" THEN a.level ELSE c.level
<1>5. new = [c EXCEPT
               !.attempts = IF turn[t].intent = "solve_request"
                            THEN @ + 1 ELSE @,
               !.level = rung]
  BY <1>1, <1>4 DEF AdvanceSessionState, OnProblem, ProblemSessionState
<1>6. Mapped' = [Mapped EXCEPT ![s] = new]
  <2>1. store' = [store EXCEPT ![s] = new]
    BY DEF Answer
  <2>2. new # NoRow
    BY <1>1, AdvanceOK, LadderConstants
  <2> HIDE DEF new
  <2>3. QED
    BY <1>1, <2>1, <2>2 DEF Mapped, IInv, TypeOK
<1>7. CASE turn[t].intent # "solve_request"
  <2>1. new = c
    <3>1. a.type # "hint"
      BY <1>4, <1>7 DEF HintInv
    <3>2. QED
      BY <1>1, <1>5, <1>7, <3>1 DEF ProblemSessionState
  <2>2. answered' = answered
    BY <1>7 DEF Answer
  <2>3. Ladder!Talk(s, p)
    BY <1>2, <1>6, <2>1, <2>2 DEF Ladder!Talk, Mapped
  <2>4. QED
    BY <1>1, <2>3 DEF Ladder!Next, Ladder!Talk
<1>8. CASE turn[t].intent = "solve_request"
  <2>1. /\ rung \in 0..MaxHintLadderLevel
        /\ \/ rung = c.level
           \/ c.attempts >= 2 /\ rung = c.level + 1
    <3>1. a.type = "hint" => a.level = LesserOf(c.level + 1, MaxHintLadderLevel)
      BY <1>4 DEF HintInv
    <3>2. a.type = "hint" => c.attempts >= 2
      BY <1>4
    <3> HIDE DEF a, c
    <3>3. QED
      BY <1>3, <3>1, <3>2 DEF LesserOf, MaxHintLadderLevel
  <2>2. new = [c EXCEPT !.attempts = @ + 1, !.level = rung]
    BY <1>5, <1>8
  <2>3. answered' = [answered EXCEPT ![s][c.problem] = @ + 1]
    <3>1. new.problem = c.problem
      BY <1>1, <2>2 DEF ProblemSessionState
    <3>2. answered' = [answered EXCEPT ![s][new.problem] = @ + 1]
      BY <1>8 DEF Answer
    <3> HIDE DEF new, c
    <3>3. QED
      BY <3>1, <3>2
  <2>4. Ladder!Attempt(s, p)
    BY <1>2, <1>6, <2>1, <2>2, <2>3 DEF Ladder!Attempt, Mapped
  <2>5. QED
    BY <1>1, <2>4 DEF Ladder!Next, Ladder!Attempt
<1>9. QED
  BY <1>7, <1>8

(***************************************************************************)
(* LadderRefinement, for any sets of sessions, problems and turns: when    *)
(* each session's client awaits its answers, the split read, decision and  *)
(* write of handle_turn, with any refusals and failures between, is the    *)
(* one-step ladder of LadderSpec.                                          *)
(***************************************************************************)
THEOREM ImplementsLadderSpec == SerialClient => (Spec => LadderRefinement)
<1> SUFFICES ASSUME SerialClient PROVE Spec => LadderRefinement
  OBVIOUS
<1>1. Init => ReadIsStored /\ HintAfterTwo /\ Ladder!Init
  BY DEF Init, ReadIsStored, HintAfterTwo, InFlight, Ladder!Init, Fresh,
         Ladder!Start
<1>2. IInv /\ ReadIsStored /\ HintAfterTwo /\ [Next]_vars =>
        ReadIsStored' /\ HintAfterTwo'
  BY ReadIsStoredStep, HintAfterTwoStep
<1>3. IInv /\ ReadIsStored /\ HintAfterTwo /\ [Next]_vars =>
        [Ladder!Next]_<<Mapped, answered>>
  <2> SUFFICES ASSUME IInv, ReadIsStored, HintAfterTwo, [Next]_vars
               PROVE  \/ Ladder!Next
                      \/ <<Mapped, answered>>' = <<Mapped, answered>>
    OBVIOUS
  <2>1. CASE \E t \in Turns : Answer(t)
    BY <2>1, AnswerClimbs
  <2>2. CASE store' = store /\ answered' = answered
    BY <2>2 DEF Mapped
  <2>3. QED
    BY <2>1, <2>2 DEF Next, Begin, Refuse, Decide, Abort, vars
<1>4. QED
  BY <1>1, <1>2, <1>3, Invariance, PTL
  DEF Spec, LadderRefinement, Ladder!Spec, Ladder!vars, Mapped
=============================================================================
