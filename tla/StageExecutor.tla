--------------------------- MODULE StageExecutor ---------------------------
(***************************************************************************)
(* run_plan (app/planner/executor.py): runs a graph of named async stages  *)
(* in batches.  Each round starts every stage whose dependencies have a    *)
(* result, awaits them all (asyncio.gather), and only then records their   *)
(* results; a stage that raises is recorded like one that returned.        *)
(***************************************************************************)
EXTENDS FiniteSets

CONSTANTS
  Stages,        \* the keys of the stage graph
  Unregistered   \* names a dependency list may hold that are no key

ASSUME StageNames == Stages \cap Unregistered = {}

VARIABLES
  deps,       \* dependency names of each stage, fixed by the caller
  pc,         \* where run_plan stands
  remaining,  \* stages not yet collected
  results,    \* names that have a result
  status      \* of each stage coroutine

vars == <<deps, pc, remaining, results, status>>

Ended(n) == status[n] \in {"returned", "raised"}
Running == {n \in Stages : status[n] = "running"}
\* Mutant: every remaining stage is ready.
ReadyAtOnce == remaining
Ready == {n \in remaining : deps[n] \subseteq results}

-----------------------------------------------------------------------------
Init ==
  /\ deps \in [Stages -> SUBSET (Stages \cup Unregistered)]
  /\ pc = "validating"
  /\ remaining = Stages
  /\ results = {}
  /\ status = [n \in Stages |-> "waiting"]

\* Mutant: an unregistered name is not looked for.
ValidateNothing ==
  /\ pc = "validating"
  /\ pc' = "looping"
  /\ UNCHANGED <<deps, remaining, results, status>>

\* Every dependency name must be a key, else PlanCycleError.
Validate ==
  /\ pc = "validating"
  /\ pc' = IF \A n \in Stages : deps[n] \subseteq Stages
           THEN "looping" ELSE "raised_unknown"
  /\ UNCHANGED <<deps, remaining, results, status>>

StartBatch ==
  /\ pc = "looping"
  /\ Ready # {}
  /\ status' = [n \in Stages |-> IF n \in Ready THEN "running" ELSE status[n]]
  /\ pc' = "gathering"
  /\ UNCHANGED <<deps, remaining, results>>

\* Mutant: no progress is not noticed.
NeverRaiseCycle == FALSE

\* No stage is ready although some remain: PlanCycleError.
RaiseCycle ==
  /\ pc = "looping"
  /\ remaining # {}
  /\ Ready = {}
  /\ pc' = "raised_cycle"
  /\ UNCHANGED <<deps, remaining, results, status>>

\* _run_one catches whatever the stage raises, so siblings go on.
StageEnds(n) ==
  /\ pc = "gathering"
  /\ status[n] = "running"
  /\ \E outcome \in {"returned", "raised"} :
       status' = [status EXCEPT ![n] = outcome]
  /\ UNCHANGED <<deps, pc, remaining, results>>

\* gather returns when the whole batch has ended.
Collect ==
  /\ pc = "gathering"
  /\ Running = {}
  /\ LET batch == {n \in remaining : Ended(n)}
     IN /\ remaining' = remaining \ batch
        /\ results' = results \cup batch
  /\ pc' = "looping"
  /\ UNCHANGED <<deps, status>>

Return ==
  /\ pc = "looping"
  /\ remaining = {}
  /\ pc' = "done"
  /\ UNCHANGED <<deps, remaining, results, status>>

Over == pc \in {"done", "raised_cycle", "raised_unknown"}

\* The call is over; nothing runs any more.
Stop == Over /\ UNCHANGED vars

Next ==
  \/ Validate
  \/ StartBatch
  \/ RaiseCycle
  \/ \E n \in Stages : StageEnds(n)
  \/ Collect
  \/ Return
  \/ Stop

Spec == Init /\ [][Next]_vars

(***************************************************************************)
(* run_plan is one coroutine the event loop keeps scheduling, and each     *)
(* stage ends: its model calls are under asyncio.wait_for and its store    *)
(* calls are single statements.                                            *)
(***************************************************************************)
FairSpec == Spec /\ WF_vars(Next)

-----------------------------------------------------------------------------
TypeOK ==
  /\ deps \in [Stages -> SUBSET (Stages \cup Unregistered)]
  /\ pc \in {"validating", "looping", "gathering", "done", "raised_cycle",
             "raised_unknown"}
  /\ remaining \in SUBSET Stages
  /\ results \in SUBSET Stages
  /\ status \in [Stages -> {"waiting", "running", "returned", "raised"}]

\* A set of stages each of which waits for another one of the set.
SelfSupporting(C) == C # {} /\ \A n \in C : deps[n] \cap C # {}

(***************************************************************************)
(* A stage that has been started had every dependency ended before, in     *)
(* whatever order the stages of a batch end and whichever of them raise.   *)
(***************************************************************************)
DependenciesEnded ==
  \A n \in Stages :
    status[n] # "waiting" => \A d \in deps[n] : d \in Stages /\ Ended(d)

(***************************************************************************)
(* The verdict is exact: a plan returns only if the graph has no cycle and *)
(* no unregistered name, and then every stage has ended, raising or not;   *)
(* the cycle error leaves exactly stages that wait on each other.          *)
(***************************************************************************)
VerdictIsExact ==
  /\ pc = "done" =>
       /\ \A n \in Stages : Ended(n)
       /\ ~ \E C \in SUBSET Stages : SelfSupporting(C)
  /\ pc = "raised_cycle" => SelfSupporting(remaining)
  /\ pc = "raised_unknown" => \E n \in Stages : deps[n] \cap Unregistered # {}

\* A stage function is called at most once: no step starts an ended or
\* running stage again (the retry of a write that was already made).
NeverRestarted ==
  [][\A n \in Stages : status[n] # "waiting" => status'[n] # "waiting" /\
       (Ended(n) => status'[n] = status[n])]_vars

\* run_plan never hangs: it returns or raises ("rather than hanging").
Terminates == <>Over

-----------------------------------------------------------------------------
\* run_plan is a topological execution of the graph (TopologicalRun).
Topological == INSTANCE TopologicalRun WITH
  done <- {n \in Stages : Ended(n)}

TopologicalRefinement == Topological!Spec
=============================================================================
