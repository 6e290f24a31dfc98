----------------------------- MODULE LadderSpec -----------------------------
(***************************************************************************)
(* What the hint ladder promises one student who awaits each answer        *)
(* (app/session/state.py, README "Session-scoped state"): per session one  *)
(* problem at a time; an answered turn happens at once; every answered     *)
(* solve request counts exactly one attempt on the problem it stands on    *)
(* and no other turn counts one; an attempt keeps its rung or climbs one,  *)
(* never down, and climbs only after two counted attempts; naming another  *)
(* problem starts again from nothing.  An attempt may keep its rung at any *)
(* time: a frustrated student gets a scaffold instead of a hint.           *)
(***************************************************************************)
EXTENDS Integers

CONSTANTS Sessions, ProblemIds, NoProblem, TopRung

VARIABLES
  ladder,    \* the record each session stands on
  answered   \* solve requests answered, per session and problem

vars == <<ladder, answered>>

Start(p) == [problem |-> p, attempts |-> 0, level |-> 0]

Init ==
  /\ ladder = [s \in Sessions |-> Start(NoProblem)]
  /\ answered = [s \in Sessions |-> [p \in ProblemIds |-> 0]]

\* The ladder a turn on p stands on.
Standing(s, p) ==
  IF p = NoProblem \/ p = ladder[s].problem THEN ladder[s] ELSE Start(p)

\* An answered turn that is no attempt moves no rung.
Talk(s, p) ==
  /\ ladder' = [ladder EXCEPT ![s] = Standing(s, p)]
  /\ UNCHANGED answered

\* An answered solve request, with or without a hint: one more attempt.
Attempt(s, p) ==
  \E rung \in 0..TopRung :
    LET before == Standing(s, p)
    IN /\ \/ rung = before.level
          \/ before.attempts >= 2 /\ rung = before.level + 1
       /\ ladder' = [ladder EXCEPT ![s] =
            [before EXCEPT !.attempts = @ + 1, !.level = rung]]
       /\ answered' = [answered EXCEPT ![s][before.problem] = @ + 1]

Next == \E s \in Sessions, p \in ProblemIds : Talk(s, p) \/ Attempt(s, p)

Spec == Init /\ [][Next]_vars
=============================================================================
