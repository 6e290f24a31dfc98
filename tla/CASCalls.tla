------------------------------ MODULE CASCalls ------------------------------
(***************************************************************************)
(* Turns that wait for the CAS, and for generated items, on the threads of *)
(* the event loop's default executor.  run_cas_operation_async gives its   *)
(* caller an answer in time; the thread that computes it goes on, because  *)
(* only a job that has not started can be cancelled.  generate_item_async  *)
(* has no timeout.  The executor is the library's: a first-in, first-out   *)
(* queue and a bounded number of threads.                                  *)
(***************************************************************************)
EXTENDS CAS, FiniteSets

CONSTANTS
  Calls,       \* bound: calls made, by any number of turns
  Slow,        \* calls whose computation may never end
  MaxWorkers,  \* threads of the default executor
  Texts,       \* sets of patterns found in what students write
  Authored,    \* operations of the problems a model authors
  Findings, Claims

ASSUME CallConstants ==
  /\ IsFiniteSet(Calls) /\ Slow \subseteq Calls
  /\ MaxWorkers \in Nat \ {0}
  /\ Texts \subseteq SUBSET Patterns /\ Authored \subseteq Operations
  /\ Findings \subseteq Finding /\ Claims \subseteq Claim

VARIABLES
  caller,   \* where each call's coroutine is
  request,  \* the task and what SymPy will find, or ItemJob
  job,      \* the executor's job for the call
  queue,    \* jobs not yet taken by a thread, cancelled ones included
  answer,   \* what the caller got back
  claim     \* the claim the answer confirmed, NoClaim if it did not

callVars == <<caller, request, job, queue, answer, claim>>

NoRequest == [task |-> NoTask]
ItemJob == [task |-> [operation |-> "generate_item"]]
NoAnswer == [status |-> "none"]
ItemAnswer == [status |-> "item"]
NoClaim == [parses |-> FALSE]

Request == [task : MathTask, finding : Finding]

RunningJobs == {c \in Calls : job[c] = "running"}

CallsInit ==
  /\ caller = [c \in Calls |-> "idle"]
  /\ request = [c \in Calls |-> NoRequest]
  /\ job = [c \in Calls |-> "none"]
  /\ queue = <<>>
  /\ answer = [c \in Calls |-> NoAnswer]
  /\ claim = [c \in Calls |-> NoClaim]

-----------------------------------------------------------------------------
\* loop.run_in_executor
Submit(c, r) ==
  /\ caller[c] = "idle"
  /\ caller' = [caller EXCEPT ![c] = "waiting"]
  /\ request' = [request EXCEPT ![c] = r]
  /\ job' = [job EXCEPT ![c] = "queued"]
  /\ queue' = Append(queue, c)
  /\ UNCHANGED <<answer, claim>>

\* Only an equation has several answers.
SubmitTask(c, task, finding) ==
  /\ task.operation # "solve" => \A v, w \in finding.values : v = w
  /\ Submit(c, [task |-> task, finding |-> finding])

\* A student's text: an explanation to ground, work to grade.  Without a
\* task the turn goes on without the CAS.
AskAboutText(c, patterns, finding) ==
  /\ ExtractMathTask(patterns) # NoTask
  /\ SubmitTask(c, ExtractMathTask(patterns), finding)

\* generate_llm_variant passes no bounds.
AskAboutAuthored(c, operation, finding) ==
  SubmitTask(c, Task(operation), finding)

AskForItem(c) == Submit(c, ItemJob)

\* A thread takes the next job, and skips a cancelled one.
Take ==
  /\ queue # <<>>
  /\ Cardinality(RunningJobs) < MaxWorkers
  /\ queue' = Tail(queue)
  /\ job' = IF job[Head(queue)] = "cancelled" THEN job
            ELSE [job EXCEPT ![Head(queue)] = "running"]
  /\ UNCHANGED <<caller, request, answer, claim>>

Finish(c) ==
  /\ job[c] = "running"
  /\ job' = [job EXCEPT ![c] = "ended"]
  /\ UNCHANGED <<caller, request, queue, answer, claim>>

Answer(c, a) ==
  /\ caller' = [caller EXCEPT ![c] = "answered"]
  /\ answer' = [answer EXCEPT ![c] = a]

\* The loop delivers the result of an ended job to a caller still waiting.
Deliver(c) ==
  /\ caller[c] = "waiting" /\ job[c] = "ended"
  /\ Answer(c, IF request[c] = ItemJob THEN ItemAnswer
               ELSE RunCasOperation(request[c].task, request[c].finding))
  /\ UNCHANGED <<request, job, queue, claim>>

\* asyncio.wait_for gives up: a job not yet started is cancelled, a running
\* one goes on without its caller.
\* Mutant: what has started is waited for.
TimeOutQueued(c) ==
  /\ caller[c] = "waiting" /\ request[c] # ItemJob
  /\ job[c] = "queued"
  /\ Answer(c, Unverifiable)
  /\ job' = [job EXCEPT ![c] = "cancelled"]
  /\ UNCHANGED <<request, queue, claim>>

TimeOut(c) ==
  /\ caller[c] = "waiting" /\ request[c] # ItemJob
  /\ Answer(c, Unverifiable)
  /\ job' = IF job[c] = "queued" THEN [job EXCEPT ![c] = "cancelled"] ELSE job
  /\ UNCHANGED <<request, queue, claim>>

\* The tutor's CAS gate or the author's loop checks a claim; anything else
\* is discarded for the CAS's own result.
Check(c, k) ==
  /\ caller[c] = "answered" /\ request[c] # ItemJob
  /\ caller' = [caller EXCEPT ![c] = "checked"]
  /\ claim' = IF VerifyClaim(answer[c], k) THEN [claim EXCEPT ![c] = k]
              ELSE claim
  /\ UNCHANGED <<request, job, queue, answer>>

-----------------------------------------------------------------------------
Ask ==
  \E c \in Calls :
    \/ \E patterns \in Texts, f \in Findings : AskAboutText(c, patterns, f)
    \/ \E op \in Authored, f \in Findings : AskAboutAuthored(c, op, f)
    \/ AskForItem(c)

CallsNext ==
  \/ Ask
  \/ Take
  \/ \E c \in Calls : Finish(c)
  \/ \E c \in Calls : Deliver(c)
  \/ \E c \in Calls : TimeOut(c)
  \/ \E c \in Calls, k \in Claims : Check(c, k)

\* Threads take jobs and the loop runs callbacks and timers; a computation
\* ends unless it is a slow one.  The samples of generate_item come from
\* the templates of the bank and are quick.  Each of these steps happens once
\* for a call and stays possible until then, so fairness to some call is
\* fairness to every call.
Ends(c) == c \notin Slow \/ request[c] = ItemJob

Fairness ==
  /\ WF_callVars(Take)
  /\ WF_callVars(\E c \in Calls : Ends(c) /\ Finish(c))
  /\ WF_callVars(\E c \in Calls : Deliver(c))
  /\ WF_callVars(\E c \in Calls : TimeOut(c))

CallsSpec == CallsInit /\ [][CallsNext]_callVars /\ Fairness

-----------------------------------------------------------------------------
\* The executor never runs more jobs than it has threads.
CallsTypeOK ==
  /\ caller \in [Calls -> {"idle", "waiting", "answered", "checked"}]
  /\ request \in [Calls -> Request \cup {NoRequest, ItemJob}]
  /\ job \in [Calls -> {"none", "queued", "running", "ended", "cancelled"}]
  /\ queue \in Seq(Calls)
  /\ answer \in [Calls -> CASResult \cup {NoAnswer, ItemAnswer}]
  /\ claim \in [Calls -> Claim \cup {NoClaim}]
  /\ Cardinality(RunningJobs) <= MaxWorkers

\* However timeouts, late results and other turns' jobs cross, a confirmed
\* claim is about the caller's own task, whose computation ended, and says
\* what SymPy found; of an equation with several roots no claim is confirmed
\* (run_cas_operation_async, verify_claim).
ConfirmedIsComputed ==
  \A c \in Calls : claim[c] # NoClaim =>
    LET task == request[c].task
        finding == request[c].finding
    IN /\ job[c] = "ended" /\ finding.found
       /\ finding.values = {claim[c].value}
       /\ claim[c].constant
            <=> task.operation = "integrate" /\ ~(task.at /\ task.upper)

\* A turn that asks the CAS is answered, even when every thread is held by a
\* computation that never ends; one that waits for an item is, while a thread
\* is left (run_cas_operation_async, generate_item_async).
CallsReturn ==
  \A c \in Calls :
    caller[c] = "waiting"
        /\ (request[c] # ItemJob \/ Cardinality(Slow) < MaxWorkers)
      ~> caller[c] # "waiting"

\* solver.py:47-51: the compute budget is there "so a pathological
\* expression can't hang a request indefinitely".
NoRequestHangs ==
  \A c \in Calls : caller[c] = "waiting" ~> caller[c] # "waiting"

\* solver.py:466-471: a claim is discarded "if it disagrees with the CAS
\* result".  A claim that agrees with it, on one of the roots, is confirmed.
AgreeingIsConfirmed ==
  [][\A c \in Calls, k \in Claims :
       Check(c, k) /\ answer[c].status = "ok" /\ k.parses /\ ~k.constant
         /\ answer[c].form # "plus_c" /\ k.value \in answer[c].values
       => claim'[c] = k]_callVars
=============================================================================
