----------------------------- MODULE HintLadder -----------------------------
(***************************************************************************)
(* The session-scoped hint ladder (app/session/state.py) as handle_turn    *)
(* uses it: a turn reads its session's record, decides an action from it,  *)
(* and, once the answer is built, writes the advanced record back.  Each   *)
(* store call is one atomic database statement and every await between     *)
(* them lets other turns run, so several turns of one session may be       *)
(* between their read and their write at the same time.                    *)
(***************************************************************************)
EXTENDS Policy

CONSTANTS
  Sessions,      \* session ids
  Problems,      \* problem ids a client may name
  NoProblem,     \* problem_id None
  Turns,         \* slots for turns in flight
  NoRow,         \* a session without a row in session_state
  NoTurn,        \* a free slot
  SerialClient,  \* TRUE: a session's client awaits each answer
  Intents,       \* intents of the turns (all of IntentType, or fewer)
  MaxAsks        \* bound: solve requests are begun below this many answers

ProblemIds == Problems \cup {NoProblem}

ProblemSessionState ==
  [problem : ProblemIds, attempts : Nat, level : 0..MaxHintLadderLevel]

\* What a turn in flight keeps: pc is "loaded" up to its decision.
TurnState ==
  [pc : {"loaded", "answering"}, session : Sessions, problem : ProblemIds,
   intent : IntentType, current : ProblemSessionState, action : Action]

ASSUME LadderConstants ==
  /\ NoProblem \notin Problems
  /\ NoRow \notin ProblemSessionState
  /\ NoTurn \notin TurnState
  /\ SerialClient \in BOOLEAN
  /\ Intents \subseteq IntentType
  /\ MaxAsks \in Nat

VARIABLES
  store,     \* the session_state table: session id -> record or NoRow
  turn,      \* the turn held by each slot
  answered   \* history: solve requests answered, per session and problem

vars == <<store, turn, answered>>

Fresh(p) == [problem |-> p, attempts |-> 0, level |-> 0]

\* Mutant: the problem switch is forgotten.
LoadSameProblem(s, p) ==
  IF store[s] = NoRow THEN Fresh(p) ELSE store[s]

\* SessionStateStore.get, then the problem switch of handle_turn.
LoadState(s, p) ==
  IF store[s] = NoRow \/ (p # NoProblem /\ p # store[s].problem)
  THEN Fresh(p) ELSE store[s]

\* Mutant: every turn counts as an attempt.
AdvanceOnAnyIntent(state, p, intent, action) ==
  LET base == IF p # NoProblem /\ p # state.problem THEN Fresh(p) ELSE state
  IN [base EXCEPT !.attempts = @ + 1,
                  !.level = IF action.type = "hint" THEN action.level ELSE @]

AdvanceSessionState(state, p, intent, action) ==
  LET base == IF p # NoProblem /\ p # state.problem THEN Fresh(p) ELSE state
  IN [base EXCEPT
        !.attempts = IF intent = "solve_request" THEN @ + 1 ELSE @,
        !.level = IF action.type = "hint" THEN action.level ELSE @]

\* Stands in a turn's record before the policy has run.
Undecided == Act("explain", "general_chat")

-----------------------------------------------------------------------------
Init ==
  /\ store = [s \in Sessions |-> NoRow]
  /\ turn = [t \in Turns |-> NoTurn]
  /\ answered = [s \in Sessions |-> [p \in ProblemIds |-> 0]]

InFlight(t) == turn[t] # NoTurn

\* POST /turn up to and including session_store.get.
Begin(t, s, p, intent) ==
  /\ ~InFlight(t)
  /\ intent = "solve_request" => \A q \in ProblemIds : answered[s][q] < MaxAsks
  /\ SerialClient => \A u \in Turns : InFlight(u) => turn[u].session # s
  /\ turn' = [turn EXCEPT ![t] =
                [pc |-> "loaded", session |-> s, problem |-> p,
                 intent |-> intent, current |-> LoadState(s, p),
                 action |-> Undecided]]
  /\ UNCHANGED <<store, answered>>

\* A REFUSE action returns at once: the session record is not written.
Refuse(t) ==
  /\ InFlight(t)
  /\ turn[t].pc = "loaded"
  /\ \E a \in PossibleDecisions(turn[t].intent, turn[t].current.attempts,
                                turn[t].current.level) : a.type = "refuse"
  /\ turn' = [turn EXCEPT ![t] = NoTurn]
  /\ UNCHANGED <<store, answered>>

\* Any other action goes on to grading or to the Tutor.
Decide(t) ==
  /\ InFlight(t)
  /\ turn[t].pc = "loaded"
  /\ \E a \in PossibleDecisions(turn[t].intent, turn[t].current.attempts,
                                turn[t].current.level) :
       /\ a.type # "refuse"
       /\ turn' = [turn EXCEPT ![t] = [@ EXCEPT !.pc = "answering",
                                                !.action = a]]
  /\ UNCHANGED <<store, answered>>

\* The answer is built: advance_session_state and session_store.save.
Answer(t) ==
  /\ InFlight(t)
  /\ turn[t].pc = "answering"
  /\ LET s == turn[t].session
         new == AdvanceSessionState(turn[t].current, turn[t].problem,
                                    turn[t].intent, turn[t].action)
     IN /\ store' = [store EXCEPT ![s] = new]
        /\ answered' = IF turn[t].intent = "solve_request"
                       THEN [answered EXCEPT ![s][new.problem] = @ + 1]
                       ELSE answered
  /\ turn' = [turn EXCEPT ![t] = NoTurn]

\* An await of the turn raises, or the process restarts: nothing is written.
Abort(t) ==
  /\ InFlight(t)
  /\ turn' = [turn EXCEPT ![t] = NoTurn]
  /\ UNCHANGED <<store, answered>>

Next ==
  \E t \in Turns :
    \/ \E s \in Sessions, p \in ProblemIds, i \in Intents : Begin(t, s, p, i)
    \/ Refuse(t)
    \/ Decide(t)
    \/ Answer(t)
    \/ Abort(t)

Spec == Init /\ [][Next]_vars

-----------------------------------------------------------------------------
\* Type invariant of the ladder's store, the turns and the history.
TypeOK ==
  /\ store \in [Sessions -> ProblemSessionState \cup {NoRow}]
  /\ turn \in [Turns -> TurnState \cup {NoTurn}]
  /\ answered \in [Sessions -> [ProblemIds -> Nat]]

\* A rung is earned: the first two counted attempts yield no hint, each
\* later one at most one rung more.
Earned(state) == state.level <= IF state.attempts <= 2 THEN 0
                                ELSE state.attempts - 2

(***************************************************************************)
(* However turns of a session overlap, fail or are refused, no stored      *)
(* ladder and no ladder a turn is deciding from is higher than its counted *)
(* attempts have earned: a student never reaches a more revealing hint     *)
(* early (decision.py, the Socratic ladder; state.py, the write-back).     *)
(***************************************************************************)
LadderEarned ==
  /\ \A s \in Sessions : store[s] # NoRow => Earned(store[s])
  /\ \A t \in Turns : InFlight(t) => Earned(turn[t].current)

(***************************************************************************)
(* The mid-attempt cap of 2 never makes a hint weaker than the rung the    *)
(* turn read: a chosen hint is always exactly the next rung, or the top    *)
(* rung again (min(level + 1, 2) alone would lower a level of 3).          *)
(***************************************************************************)
HintIsNextRung ==
  \A t \in Turns :
    InFlight(t) /\ turn[t].action.type = "hint" =>
      turn[t].action.level =
        LesserOf(turn[t].current.level + 1, MaxHintLadderLevel)

(***************************************************************************)
(* A counted attempt stands for an answered solve request on that problem: *)
(* refused turns, turns that failed before the write and turns of other    *)
(* intents or problems never raise the count.                              *)
(***************************************************************************)
AttemptsJustified ==
  \A s \in Sessions :
    store[s] # NoRow => store[s].attempts <= answered[s][store[s].problem]

\* The refinement mapping to LadderSpec: a session without a row stands on
\* nothing yet; what was answered is the same on both sides.
Ladder == INSTANCE LadderSpec WITH
  TopRung <- MaxHintLadderLevel,
  ladder <- [s \in Sessions |->
               IF store[s] = NoRow THEN Fresh(NoProblem) ELSE store[s]]

(***************************************************************************)
(* When each client awaits its answer, the split read-decide-write of      *)
(* handle_turn is the one-step ladder of LadderSpec: every solve request   *)
(* that is answered counts exactly one attempt on the problem it stands    *)
(* on, no other turn counts one, a rung is kept or climbed by one and only *)
(* after two attempts, and no ladder of an earlier problem is written      *)
(* back.  Whether an attempt gets a hint at all is left open.              *)
(***************************************************************************)
LadderRefinement == Ladder!Spec

-----------------------------------------------------------------------------
\* state.py:18 "a solve_request turn counts as another attempt": with no turn
\* in flight, the record of the problem being worked on counts every answered
\* solve request on it.
EveryAnsweredAttemptCounts ==
  (\A t \in Turns : ~InFlight(t)) =>
    \A s \in Sessions :
      store[s] # NoRow => store[s].attempts = answered[s][store[s].problem]
=============================================================================
