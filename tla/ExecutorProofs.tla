--------------------------- MODULE ExecutorProofs ---------------------------
(***************************************************************************)
(* Machine-checked proofs about the two executors a turn relies on: the    *)
(* event loop's pool of threads behind CAS calls (CASCalls) for every      *)
(* number of calls and of threads and whatever is asked, and the planner's *)
(* run_plan (StageExecutor) for stage graphs of any size and shape.        *)
(***************************************************************************)
EXTENDS CASCalls, StageExecutor, FiniteSetTheorems, TLAPS

-----------------------------------------------------------------------------
\* Each operation answers with a result.
LEMMA ResultType ==
  ASSUME NEW task \in MathTask, NEW finding \in Finding
  PROVE  RunCasOperation(task, finding) \in CASResult
<1>1. /\ finding.values \in SUBSET Values
      /\ SingleNumber(finding.values) \in BOOLEAN
      /\ task.operation \in Operations
  BY DEF Finding, SingleNumber, MathTask
<1>2. Unverifiable \in CASResult
  BY DEF Unverifiable, CASResult
<1>3. ASSUME NEW d \in BOOLEAN, NEW f \in {"value", "plus_c", "roots", "rows"}
      PROVE  Ok(finding.values, d, f) \in CASResult
  BY <1>1 DEF Ok, CASResult
<1>4. QED
  BY <1>1, <1>2, <1>3
     DEF RunCasOperation, Operations, Differentiate, Integrate, SolveEquation,
         SimplifyExpr, Evaluate, Determinant, MatrixMultiply,
         EvaluatePiecewise

\* What a confirmed claim says of the task it was checked against.
LEMMA Confirmed ==
  ASSUME NEW task \in MathTask, NEW finding \in Finding, NEW k \in Claim,
         task.operation # "solve" => \A v, w \in finding.values : v = w,
         VerifyClaim(RunCasOperation(task, finding), k)
  PROVE  /\ finding.found
         /\ finding.values = {k.value}
         /\ k.constant
              <=> task.operation = "integrate" /\ ~(task.at /\ task.upper)
<1> DEFINE result == RunCasOperation(task, finding)
<1>1. /\ result.status = "ok" /\ k.value \in result.values
      /\ result.decimal \/ result.form \in {"value", "plus_c"}
      /\ k.constant <=> result.form = "plus_c"
  BY DEF VerifyClaim
<1>2. finding.found /\ task.operation \in Operations
  <2>1. Unverifiable.status # "ok"
    BY DEF Unverifiable
  <2>2. ~finding.found => result = Unverifiable
    BY DEF RunCasOperation
  <2>3. task.operation \in Operations
    BY DEF MathTask
  <2>4. finding.found \in BOOLEAN
    BY DEF Finding
  <2>5. QED
    BY <1>1, <2>1, <2>2, <2>3, <2>4
<1>3. /\ result.values = finding.values
      /\ result.decimal => SingleNumber(finding.values)
      /\ result.form = "plus_c"
           <=> task.operation = "integrate" /\ ~(task.at /\ task.upper)
      /\ task.operation = "solve" => result.form = "roots"
  BY <1>1, <1>2
     DEF RunCasOperation, Operations, Differentiate, Integrate, SolveEquation,
         SimplifyExpr, Evaluate, Determinant, MatrixMultiply,
         EvaluatePiecewise, Ok, Unverifiable
<1>4. \A v, w \in finding.values : v = w
  BY <1>1, <1>3 DEF SingleNumber
<1>5. QED
  BY <1>1, <1>2, <1>3, <1>4

\* Of a text in which some pattern is found a task is extracted.
LEMMA ExtractedType ==
  ASSUME NEW patterns, ExtractMathTask(patterns) # NoTask
  PROVE  ExtractMathTask(patterns) \in MathTask
<1> DEFINE hits ==
             {k \in DOMAIN Extractors : Extractors[k].pattern \in patterns}
<1>1. DOMAIN Extractors = {1, 2, 3, 4, 5, 6, 7}
  BY DEF Extractors
<1>2. \A k \in {1, 2, 3, 4, 5, 6, 7} : Extractors[k].task \in MathTask
  <2>1. ASSUME NEW op \in Operations
        PROVE  /\ Task(op) \in MathTask
               /\ At(Task(op)) \in MathTask
               /\ Between(Task(op)) \in MathTask
    BY DEF Task, At, Between, MathTask
  <2>2. {"solve", "evaluate", "determinant", "integrate", "differentiate",
         "simplify"} \subseteq Operations
    BY DEF Operations
  <2>3. /\ Extractors[1].task = Task("solve")
        /\ Extractors[2].task = At(Task("evaluate"))
        /\ Extractors[3].task = Task("determinant")
        /\ Extractors[4].task = Between(Task("integrate"))
        /\ Extractors[5].task = Task("differentiate")
        /\ Extractors[6].task = Task("integrate")
        /\ Extractors[7].task = Task("simplify")
    BY DEF Extractors
  <2>4. QED
    BY <2>1, <2>2, <2>3
<1>3. hits # {}
  BY DEF ExtractMathTask
<1>4. \E k \in hits : \A j \in hits : k <= j
  <2>1. hits \subseteq {1, 2, 3, 4, 5, 6, 7}
    BY <1>1
  <2> HIDE DEF hits
  <2>2. CASE 1 \in hits
    BY <2>1, <2>2
  <2>3. CASE 1 \notin hits /\ 2 \in hits
    BY <2>1, <2>3
  <2>4. CASE hits \subseteq {3, 4, 5, 6, 7} /\ 3 \in hits
    BY <2>4
  <2>5. CASE hits \subseteq {4, 5, 6, 7} /\ 4 \in hits
    BY <2>5
  <2>6. CASE hits \subseteq {5, 6, 7} /\ 5 \in hits
    BY <2>6
  <2>7. CASE hits \subseteq {6, 7}
    <3>1. CASE 6 \in hits
      BY <2>7, <3>1
    <3>2. CASE hits = {7}
      BY <3>2
    <3>3. QED
      BY <1>3, <2>7, <3>1, <3>2
  <2>8. QED
    BY <2>1, <2>2, <2>3, <2>4, <2>5, <2>6, <2>7
<1>5. (CHOOSE k \in hits : \A j \in hits : k <= j) \in hits
  BY <1>4
<1>6. QED
  BY <1>1, <1>2, <1>3, <1>5 DEF ExtractMathTask

-----------------------------------------------------------------------------
\* QueueInv: a job in the executor's queue was not taken yet, and is there
\* once.  CallInv: what a call holds at each place; an answer is the refusal
\* of a timeout or the result of the call's own job.
QueueInv ==
  /\ \A k \in 1..Len(queue) : job[queue[k]] \in {"queued", "cancelled"}
  /\ \A j, k \in 1..Len(queue) : queue[j] = queue[k] => j = k

OwnAnswer(c) ==
  \/ answer[c] = Unverifiable
  \/ /\ job[c] = "ended"
     /\ answer[c] = RunCasOperation(request[c].task, request[c].finding)

CallInv ==
  \A c \in Calls :
    /\ caller[c] = "idle" => job[c] = "none"
    /\ caller[c] # "idle" => request[c] \in Request \cup {ItemJob}
    /\ request[c] \in Request /\ request[c].task.operation # "solve"
         => \A v, w \in request[c].finding.values : v = w
    /\ caller[c] \in {"answered", "checked"} /\ request[c] # ItemJob
         => OwnAnswer(c)
    /\ claim[c] # NoClaim => /\ caller[c] = "checked" /\ request[c] # ItemJob
                             /\ claim[c] \in Claim
                             /\ VerifyClaim(answer[c], claim[c])

IInv == CallsTypeOK /\ QueueInv /\ CallInv

LEMMA ItemIsNoRequest == ItemJob \notin Request /\ NoRequest \notin Request
BY DEF ItemJob, NoRequest, Request, NoTask, MathTask

LEMMA InitInv == CallsInit => IInv
<1> SUFFICES ASSUME CallsInit PROVE IInv
  OBVIOUS
<1>1. RunningJobs = {}
  BY DEF RunningJobs, CallsInit
<1>2. Cardinality(RunningJobs) <= MaxWorkers
  BY <1>1, FS_EmptySet, CallConstants
<1>3. CallsTypeOK
  BY <1>2 DEF CallsInit, CallsTypeOK
<1>4. QueueInv
  BY DEF CallsInit, QueueInv
<1>5. CallInv
  BY ItemIsNoRequest DEF CallsInit, CallInv
<1>6. QED
  BY <1>3, <1>4, <1>5 DEF IInv

\* The number of running jobs grows by the one a thread takes, if at all.
LEMMA RunningBound ==
  ASSUME CallsTypeOK, NEW S, S \subseteq RunningJobs
  PROVE  Cardinality(S) <= MaxWorkers
<1>1. IsFiniteSet(RunningJobs)
  BY CallConstants, FS_Subset DEF RunningJobs
<1>2. /\ Cardinality(S) \in Nat /\ Cardinality(RunningJobs) \in Nat
      /\ Cardinality(S) <= Cardinality(RunningJobs)
  BY <1>1, FS_Subset, FS_CardinalityType
<1>3. QED
  BY <1>2, CallConstants DEF CallsTypeOK

-----------------------------------------------------------------------------
\* What is asked is a request.
LEMMA AskSubmits ==
  ASSUME Ask
  PROVE  \E c \in Calls, r \in Request \cup {ItemJob} :
           /\ Submit(c, r)
           /\ r \in Request /\ r.task.operation # "solve"
                => \A v, w \in r.finding.values : v = w
<1>1. PICK c \in Calls :
        \/ \E patterns \in Texts, f \in Findings : AskAboutText(c, patterns, f)
        \/ \E op \in Authored, f \in Findings : AskAboutAuthored(c, op, f)
        \/ AskForItem(c)
  BY DEF Ask
<1>2. ASSUME NEW task \in MathTask, NEW f \in Findings, SubmitTask(c, task, f)
      PROVE  \E r \in Request :
               /\ Submit(c, r)
               /\ r.task.operation # "solve"
                    => \A v, w \in r.finding.values : v = w
  <2> DEFINE r == [task |-> task, finding |-> f]
  <2>1. r \in Request
    BY CallConstants DEF Request
  <2>2. /\ Submit(c, r)
        /\ r.task.operation # "solve" => \A v, w \in r.finding.values : v = w
    BY <1>2 DEF SubmitTask
  <2> HIDE DEF r
  <2>3. QED
    BY <2>1, <2>2
<1>3. CASE \E patterns \in Texts, f \in Findings : AskAboutText(c, patterns, f)
  <2>1. PICK patterns \in Texts, f \in Findings : AskAboutText(c, patterns, f)
    BY <1>3
  <2>2. ExtractMathTask(patterns) \in MathTask
    BY <2>1, ExtractedType DEF AskAboutText
  <2>3. QED
    BY <1>2, <2>1, <2>2 DEF AskAboutText
<1>4. CASE \E op \in Authored, f \in Findings : AskAboutAuthored(c, op, f)
  <2>1. PICK op \in Authored, f \in Findings : AskAboutAuthored(c, op, f)
    BY <1>4
  <2>2. Task(op) \in MathTask
    BY CallConstants DEF Task, MathTask
  <2>3. QED
    BY <1>2, <2>1, <2>2 DEF AskAboutAuthored
<1>5. CASE AskForItem(c)
  BY <1>5, ItemIsNoRequest DEF AskForItem
<1>6. QED
  BY <1>1, <1>3, <1>4, <1>5

\* A call waiting for the CAS has asked it something.
LEMMA OwnRequest ==
  ASSUME CallInv, NEW c \in Calls, caller[c] # "idle", request[c] # ItemJob
  PROVE  /\ request[c] \in Request
         /\ request[c].task \in MathTask
         /\ request[c].finding \in Finding
BY DEF CallInv, Request

LEMMA UnverifiableType == Unverifiable \in CASResult
BY DEF Unverifiable, CASResult

LEMMA SubmitInv ==
  ASSUME IInv, NEW c \in Calls, NEW r \in Request \cup {ItemJob}, Submit(c, r),
         r \in Request /\ r.task.operation # "solve"
           => \A v, w \in r.finding.values : v = w
  PROVE  IInv'
<1> USE DEF IInv
<1>1. job[c] = "none"
  BY DEF Submit, CallInv
<1>2. CallsTypeOK'
  <2>1. RunningJobs' \subseteq RunningJobs
    BY DEF Submit, RunningJobs, CallsTypeOK
  <2>2. Cardinality(RunningJobs') <= MaxWorkers
    BY <2>1, RunningBound
  <2>3. queue' \in Seq(Calls)
    BY DEF Submit, CallsTypeOK
  <2>4. QED
    BY <2>2, <2>3 DEF Submit, CallsTypeOK
<1>3. QueueInv'
  <2>1. /\ Len(queue') = Len(queue) + 1
        /\ \A k \in 1..Len(queue) : queue'[k] = queue[k] /\ queue[k] \in Calls
        /\ queue'[Len(queue) + 1] = c
        /\ Len(queue) \in Nat
    BY DEF Submit, CallsTypeOK
  <2>2. \A k \in 1..Len(queue) : queue[k] # c
    BY <1>1 DEF QueueInv
  <2>3. \A x \in Calls : job'[x] = IF x = c THEN "queued" ELSE job[x]
    BY DEF Submit, CallsTypeOK
  <2>4. QED
    BY <2>1, <2>2, <2>3 DEF QueueInv
<1>4. CallInv'
  BY DEF Submit, CallsTypeOK, CallInv, OwnAnswer
<1>5. QED
  BY <1>2, <1>3, <1>4

LEMMA TakeInv ==
  ASSUME IInv, Take
  PROVE  IInv'
<1> USE DEF IInv
<1> DEFINE h == Head(queue)
<1>1. /\ h = queue[1] /\ h \in Calls
      /\ Len(queue) \in Nat /\ Len(queue) # 0
      /\ queue' \in Seq(Calls)
      /\ Len(queue') = Len(queue) - 1
      /\ \A k \in 1..Len(queue') : queue'[k] = queue[k + 1]
  BY DEF Take, CallsTypeOK
<1>2. job[h] \in {"queued", "cancelled"}
  BY <1>1 DEF QueueInv
<1> HIDE DEF h
<1>3. \A x \in Calls :
        job'[x] = IF x = h /\ job[h] = "queued" THEN "running" ELSE job[x]
  BY <1>1, <1>2 DEF Take, CallsTypeOK, h
<1>4. CallsTypeOK'
  <2>1. RunningJobs' \subseteq RunningJobs \cup {h}
    BY <1>3 DEF RunningJobs
  <2>2. IsFiniteSet(RunningJobs) /\ RunningJobs \subseteq Calls
    BY CallConstants, FS_Subset DEF RunningJobs
  <2>3. IsFiniteSet(RunningJobs \cup {h}) /\ Cardinality(RunningJobs) \in Nat
    BY <2>2, FS_AddElement, FS_CardinalityType
  <2>4. Cardinality(RunningJobs \cup {h}) <= Cardinality(RunningJobs) + 1
    BY <2>2, <2>3, FS_AddElement
  <2>5. /\ Cardinality(RunningJobs') <= Cardinality(RunningJobs \cup {h})
        /\ Cardinality(RunningJobs') \in Nat
        /\ Cardinality(RunningJobs \cup {h}) \in Nat
    BY <2>1, <2>3, FS_Subset, FS_CardinalityType
  <2>6. Cardinality(RunningJobs') <= MaxWorkers
    BY <2>3, <2>4, <2>5, CallConstants DEF Take
  <2>7. job' \in [Calls -> {"none", "queued", "running", "ended", "cancelled"}]
    BY <1>1 DEF Take, CallsTypeOK, h
  <2>8. QED
    BY <1>1, <2>6, <2>7 DEF Take, CallsTypeOK
<1>5. QueueInv'
  <2>1. \A k \in 1..Len(queue') :
          /\ k + 1 \in 1..Len(queue)
          /\ queue'[k] = queue[k + 1] /\ queue'[k] \in Calls
    BY <1>1 DEF CallsTypeOK
  <2>2. \A k \in 1..Len(queue') : queue'[k] # h
    BY <1>1, <2>1 DEF QueueInv
  <2>3. \A k \in 1..Len(queue') : job'[queue'[k]] \in {"queued", "cancelled"}
    BY <1>3, <2>1, <2>2 DEF QueueInv
  <2>4. ASSUME NEW j \in 1..Len(queue'), NEW k \in 1..Len(queue'),
               queue'[j] = queue'[k]
        PROVE  j = k
    <3>1. queue[j + 1] = queue[k + 1]
      BY <2>1, <2>4
    <3>2. j + 1 = k + 1
      BY <2>1, <3>1 DEF QueueInv
    <3>3. QED
      BY <1>1, <3>2
  <2>5. QED
    BY <2>3, <2>4 DEF QueueInv
<1>6. CallInv'
  <2>1. /\ caller' = caller /\ request' = request
        /\ answer' = answer /\ claim' = claim
    BY DEF Take
  <2>2. \A c \in Calls :
          /\ job[c] = "none" => job'[c] = "none"
          /\ job[c] = "ended" => job'[c] = "ended"
    BY <1>2, <1>3
  <2>3. QED
    BY <2>1, <2>2 DEF CallInv, OwnAnswer
<1>7. QED
  BY <1>4, <1>5, <1>6

\* What is left to a step that neither takes nor queues a job.
LEMMA JobStep ==
  ASSUME IInv, UNCHANGED queue, job' \in [Calls -> {"none", "queued", "running",
                                                    "ended", "cancelled"}],
         RunningJobs' \subseteq RunningJobs,
         \A c \in Calls : job[c] \in {"queued", "cancelled"}
                            => job'[c] \in {"queued", "cancelled"}
  PROVE  /\ QueueInv' /\ queue' \in Seq(Calls)
         /\ Cardinality(RunningJobs') <= MaxWorkers
<1>1. \A k \in 1..Len(queue) : queue[k] \in Calls
  BY DEF IInv, CallsTypeOK
<1>2. QueueInv'
  BY <1>1 DEF IInv, QueueInv
<1>3. QED
  BY <1>2, RunningBound DEF IInv, CallsTypeOK

\* Whatever a thread or the loop does, the invariants stay.
LEMMA NextInv == IInv /\ [CallsNext]_callVars => IInv'
<1> SUFFICES ASSUME IInv, [CallsNext]_callVars PROVE IInv'
  OBVIOUS
<1> USE DEF IInv
<1>1. CASE Ask
  BY <1>1, AskSubmits, SubmitInv
<1>2. CASE Take
  BY <1>2, TakeInv
<1>3. ASSUME NEW c \in Calls, Finish(c) PROVE IInv'
  <2>1. \A x \in Calls : job'[x] = IF x = c THEN "ended" ELSE job[x]
    BY <1>3 DEF Finish, CallsTypeOK
  <2>2. job' \in [Calls -> {"none", "queued", "running", "ended", "cancelled"}]
    BY <1>3 DEF Finish, CallsTypeOK
  <2>3. RunningJobs' \subseteq RunningJobs
    BY <2>1 DEF RunningJobs
  <2>4. /\ UNCHANGED <<caller, request, queue, answer, claim>>
        /\ job[c] = "running"
    BY <1>3 DEF Finish
  <2>5. QueueInv' /\ CallsTypeOK'
    BY <2>1, <2>2, <2>3, <2>4, JobStep DEF CallsTypeOK
  <2>6. CallInv'
    BY <2>1, <2>4 DEF CallInv, OwnAnswer
  <2>7. QED
    BY <2>5, <2>6
<1>4. ASSUME NEW c \in Calls, Deliver(c) PROVE IInv'
  <2> DEFINE a == IF request[c] = ItemJob THEN ItemAnswer
                  ELSE RunCasOperation(request[c].task, request[c].finding)
  <2>1. /\ caller' = [caller EXCEPT ![c] = "answered"]
        /\ answer' = [answer EXCEPT ![c] = a]
        /\ caller[c] = "waiting" /\ job[c] = "ended"
        /\ UNCHANGED <<request, job, queue, claim>>
    BY <1>4 DEF Deliver, Answer
  <2>2. a \in CASResult \cup {ItemAnswer}
    BY <2>1, OwnRequest, ResultType
  <2>3. request[c] # ItemJob
          => a = RunCasOperation(request[c].task, request[c].finding)
    OBVIOUS
  <2> HIDE DEF a
  <2>4. CallsTypeOK'
    BY <2>1, <2>2 DEF CallsTypeOK, RunningJobs
  <2>5. QueueInv'
    BY <2>1 DEF QueueInv
  <2>6. CallInv'
    BY <2>1, <2>3 DEF CallInv, OwnAnswer, CallsTypeOK
  <2>7. QED
    BY <2>4, <2>5, <2>6
<1>5. ASSUME NEW c \in Calls, TimeOut(c) PROVE IInv'
  <2>1. /\ caller' = [caller EXCEPT ![c] = "answered"]
        /\ answer' = [answer EXCEPT ![c] = Unverifiable]
        /\ caller[c] = "waiting"
        /\ job' = IF job[c] = "queued" THEN [job EXCEPT ![c] = "cancelled"]
                  ELSE job
        /\ UNCHANGED <<request, queue, claim>>
    BY <1>5 DEF TimeOut, Answer
  <2>2. \A x \in Calls : job'[x] = IF x = c /\ job[c] = "queued"
                                   THEN "cancelled" ELSE job[x]
    BY <2>1 DEF CallsTypeOK
  <2>3. job' \in [Calls -> {"none", "queued", "running", "ended", "cancelled"}]
    BY <2>1 DEF CallsTypeOK
  <2>4. RunningJobs' \subseteq RunningJobs
    BY <2>2 DEF RunningJobs
  <2>5. QueueInv' /\ CallsTypeOK'
    BY <2>1, <2>2, <2>3, <2>4, JobStep, UnverifiableType DEF CallsTypeOK
  <2>6. CallInv'
    BY <2>1, <2>2 DEF CallInv, OwnAnswer, CallsTypeOK
  <2>7. QED
    BY <2>5, <2>6
<1>6. ASSUME NEW c \in Calls, NEW k \in Claims, Check(c, k) PROVE IInv'
  <2>1. /\ caller' = [caller EXCEPT ![c] = "checked"]
        /\ claim' = IF VerifyClaim(answer[c], k) THEN [claim EXCEPT ![c] = k]
                    ELSE claim
        /\ caller[c] = "answered" /\ request[c] # ItemJob /\ k \in Claim
        /\ UNCHANGED <<request, job, queue, answer>>
    BY <1>6, CallConstants DEF Check
  <2>2. CallsTypeOK'
    BY <2>1 DEF CallsTypeOK, RunningJobs
  <2>3. QueueInv'
    BY <2>1 DEF QueueInv
  <2>4. CallInv'
    BY <2>1 DEF CallInv, OwnAnswer, CallsTypeOK
  <2>5. QED
    BY <2>2, <2>3, <2>4
<1>7. CASE UNCHANGED callVars
  <2>1. UNCHANGED <<caller, request, job, queue, answer, claim>>
    BY <1>7 DEF callVars
  <2>2. QED
    BY <2>1 DEF CallsTypeOK, RunningJobs, QueueInv, CallInv, OwnAnswer
<1>8. QED
  BY <1>1, <1>2, <1>3, <1>4, <1>5, <1>6, <1>7 DEF CallsNext

LEMMA Inductive == CallsSpec => []IInv
BY InitInv, NextInv, PTL DEF CallsSpec

-----------------------------------------------------------------------------
\* CallsTypeOK, with its bound: whatever times out and whoever asks, the
\* executor runs no more computations than it has threads (the default
\* executor that run_cas_operation_async and generate_item_async share).
THEOREM TypeCorrect == CallsSpec => []CallsTypeOK
BY Inductive, PTL DEF IInv

\* ConfirmedIsComputed: a claim that verify_claim confirms is what SymPy
\* computed for the caller's own task, for any number of calls and threads
\* and any extracted or authored task.
THEOREM ConfirmedComputed == CallsSpec => []ConfirmedIsComputed
<1>1. IInv => ConfirmedIsComputed
  <2> SUFFICES ASSUME IInv, NEW c \in Calls, claim[c] # NoClaim
               PROVE  LET task == request[c].task
                          finding == request[c].finding
                      IN /\ job[c] = "ended" /\ finding.found
                         /\ finding.values = {claim[c].value}
                         /\ claim[c].constant <=> task.operation = "integrate"
                                                    /\ ~(task.at /\ task.upper)
    BY DEF ConfirmedIsComputed
  <2>1. /\ caller[c] = "checked" /\ request[c] # ItemJob
        /\ claim[c] \in Claim /\ VerifyClaim(answer[c], claim[c])
        /\ OwnAnswer(c)
    BY DEF IInv, CallInv
  <2>2. /\ request[c] \in Request
        /\ request[c].task \in MathTask /\ request[c].finding \in Finding
    BY <2>1, OwnRequest DEF IInv
  <2>3. request[c].task.operation # "solve"
          => \A v, w \in request[c].finding.values : v = w
    BY <2>2 DEF IInv, CallInv
  <2>4. answer[c] # Unverifiable
    BY <2>1 DEF VerifyClaim, Unverifiable
  <2>5. /\ job[c] = "ended"
        /\ VerifyClaim(RunCasOperation(request[c].task, request[c].finding),
                       claim[c])
    BY <2>1, <2>4 DEF OwnAnswer
  <2>6. QED
    BY <2>1, <2>2, <2>3, <2>5, Confirmed
<1>2. QED
  BY <1>1, Inductive, PTL

-----------------------------------------------------------------------------
(***************************************************************************)
(* The inductive invariant: what is collected has ended; what was started  *)
(* had its dependencies collected; a self-supporting set of stages was     *)
(* never touched; and what each final pc was reached from.                 *)
(***************************************************************************)
Bookkeeping ==
  /\ results = Stages \ remaining
  /\ \A n \in results : Ended(n)
  /\ pc # "gathering" => \A n \in remaining : status[n] = "waiting"

Grounded == \A n \in Stages : status[n] # "waiting" => deps[n] \subseteq results

CyclesUntouched ==
  \A C \in SUBSET Stages :
    SelfSupporting(C) => \A n \in C : status[n] = "waiting"

Verdicts ==
  /\ pc \in {"looping", "gathering", "done", "raised_cycle"} =>
       \A n \in Stages : deps[n] \subseteq Stages
  /\ pc = "done" => remaining = {}
  /\ pc = "raised_cycle" => remaining # {} /\ Ready = {}
  /\ pc = "raised_unknown" => \E n \in Stages : deps[n] \cap Unregistered # {}

PlanInv == TypeOK /\ Bookkeeping /\ Grounded /\ CyclesUntouched /\ Verdicts

-----------------------------------------------------------------------------
LEMMA PlanInit == Init => PlanInv
BY DEF Init, PlanInv, TypeOK, Bookkeeping, Grounded, CyclesUntouched,
       Verdicts, Ended

(***************************************************************************)
(* The one step that starts stages: a member of a self-supporting set is   *)
(* never ready, because one of its dependencies is in the set and so has   *)
(* no result.                                                              *)
(***************************************************************************)
LEMMA ReadyNotInCycle ==
  ASSUME PlanInv, NEW C \in SUBSET Stages, SelfSupporting(C), NEW n \in C
  PROVE  n \notin Ready
<1>1. PICK d \in deps[n] : d \in C
  BY DEF SelfSupporting
<1>2. status[d] = "waiting"
  BY <1>1 DEF PlanInv, CyclesUntouched
<1>3. d \notin results
  BY <1>2 DEF PlanInv, Bookkeeping, Ended
<1>4. QED
  BY <1>1, <1>3 DEF Ready

LEMMA PlanStep == PlanInv /\ [Next]_vars => PlanInv'
<1> SUFFICES ASSUME PlanInv, [Next]_vars PROVE PlanInv'
  OBVIOUS
<1>1. CASE Validate
  <2>1. (\E n \in Stages : ~ (deps[n] \subseteq Stages)) =>
          \E n \in Stages : deps[n] \cap Unregistered # {}
    BY DEF PlanInv, TypeOK
  <2>2. QED
    BY <1>1, <2>1
    DEF PlanInv, TypeOK, Bookkeeping, Grounded, CyclesUntouched, Verdicts,
        Validate, Ended, SelfSupporting, Ready
<1>2. CASE StartBatch
  <2>1. /\ deps' = deps /\ remaining' = remaining /\ results' = results
        /\ pc = "looping" /\ pc' = "gathering"
        /\ status' = [n \in Stages |->
                        IF n \in Ready THEN "running" ELSE status[n]]
    BY <1>2 DEF StartBatch
  <2>2. TypeOK'
    BY <2>1 DEF PlanInv, TypeOK
  <2>3. Bookkeeping'
    BY <2>1 DEF PlanInv, TypeOK, Bookkeeping, Ready, Ended
  <2>4. Grounded'
    BY <2>1 DEF PlanInv, TypeOK, Grounded, Ready
  <2>5. CyclesUntouched'
    <3> SUFFICES ASSUME NEW C \in SUBSET Stages, SelfSupporting(C)',
                        NEW n \in C
                 PROVE  status'[n] = "waiting"
      BY DEF CyclesUntouched
    <3>1. SelfSupporting(C)
      BY <2>1 DEF SelfSupporting
    <3>2. n \notin Ready /\ status[n] = "waiting"
      BY <3>1, ReadyNotInCycle DEF PlanInv, CyclesUntouched
    <3>3. QED
      BY <2>1, <3>2
  <2>6. Verdicts'
    BY <2>1 DEF PlanInv, Verdicts
  <2>7. QED
    BY <2>2, <2>3, <2>4, <2>5, <2>6 DEF PlanInv
<1>3. CASE RaiseCycle
  BY <1>3
  DEF PlanInv, TypeOK, Bookkeeping, Grounded, CyclesUntouched, Verdicts,
      RaiseCycle, Ended, SelfSupporting, Ready
<1>4. ASSUME NEW n \in Stages, StageEnds(n)
      PROVE  PlanInv'
  <2>1. PICK outcome \in {"returned", "raised"} :
          status' = [status EXCEPT ![n] = outcome]
    BY <1>4 DEF StageEnds
  <2>2. /\ UNCHANGED <<deps, pc, remaining, results>>
        /\ pc = "gathering" /\ status[n] = "running"
    BY <1>4 DEF StageEnds
  <2>3. TypeOK'
    BY <2>1, <2>2 DEF PlanInv, TypeOK
  <2>4. Bookkeeping' /\ Grounded' /\ Verdicts'
    BY <2>1, <2>2
    DEF PlanInv, TypeOK, Bookkeeping, Grounded, Verdicts, Ended
  <2>5. CyclesUntouched'
    BY <2>1, <2>2 DEF PlanInv, TypeOK, CyclesUntouched, SelfSupporting
  <2>6. QED
    BY <2>3, <2>4, <2>5 DEF PlanInv
<1>5. CASE Collect
  <2> DEFINE batch == {n \in remaining : Ended(n)}
  <2>1. /\ UNCHANGED <<deps, status>> /\ Running = {}
        /\ remaining' = remaining \ batch
        /\ results' = results \cup batch
        /\ pc = "gathering" /\ pc' = "looping"
    BY <1>5 DEF Collect
  <2>2. TypeOK'
    BY <2>1 DEF PlanInv, TypeOK
  <2>3. Bookkeeping'
    <3>1. \A n \in remaining : Ended(n) \/ status[n] = "waiting"
      BY <2>1 DEF PlanInv, TypeOK, Running, Ended
    <3>2. QED
      BY <2>1, <3>1 DEF PlanInv, TypeOK, Bookkeeping, Ended
  <2>4. Grounded' /\ CyclesUntouched'
    BY <2>1 DEF PlanInv, Grounded, CyclesUntouched, SelfSupporting
  <2>5. Verdicts'
    BY <2>1 DEF PlanInv, Verdicts
  <2>6. QED
    BY <2>2, <2>3, <2>4, <2>5 DEF PlanInv
<1>6. CASE Return
  BY <1>6
  DEF PlanInv, TypeOK, Bookkeeping, Grounded, CyclesUntouched, Verdicts,
      Return, Ended, SelfSupporting, Ready
<1>7. CASE UNCHANGED vars
  BY <1>7
  DEF PlanInv, TypeOK, Bookkeeping, Grounded, CyclesUntouched, Verdicts,
      vars, Ended, SelfSupporting, Ready
<1>8. QED
  BY <1>1, <1>2, <1>3, <1>4, <1>5, <1>6, <1>7 DEF Next, Stop

LEMMA PlanInductive == Spec => []PlanInv
BY PlanInit, PlanStep, PTL DEF Spec

-----------------------------------------------------------------------------
(***************************************************************************)
(* run_plan's variables keep their types for every stage graph.            *)
(***************************************************************************)
THEOREM PlanTypeCorrect == Spec => []TypeOK
<1>1. PlanInv => TypeOK
  BY DEF PlanInv
<1>2. QED
  BY <1>1, PlanInductive, PTL

(***************************************************************************)
(* No stage of any graph is started before its dependencies have ended.    *)
(***************************************************************************)
THEOREM StartsAfterDependencies == Spec => []DependenciesEnded
<1>1. PlanInv => DependenciesEnded
  BY DEF PlanInv, TypeOK, Bookkeeping, Grounded, DependenciesEnded
<1>2. QED
  BY <1>1, PlanInductive, PTL

(***************************************************************************)
(* Returning and raising are exact for every graph: done means all stages  *)
(* ended and no cycle exists; a cycle error leaves a genuine cycle.        *)
(***************************************************************************)
THEOREM ExactVerdict == Spec => []VerdictIsExact
<1>1. ASSUME PlanInv PROVE VerdictIsExact
  <2>1. ASSUME pc = "done"
        PROVE  /\ \A n \in Stages : Ended(n)
               /\ ~ \E C \in SUBSET Stages : SelfSupporting(C)
    <3>1. \A n \in Stages : Ended(n)
      BY <1>1, <2>1 DEF PlanInv, Bookkeeping, Verdicts
    <3>2. ASSUME NEW C \in SUBSET Stages, SelfSupporting(C) PROVE FALSE
      <4>1. PICK n \in C : status[n] = "waiting"
        BY <1>1, <3>2 DEF PlanInv, CyclesUntouched, SelfSupporting
      <4>2. QED
        BY <3>1, <4>1 DEF Ended
    <3>3. QED
      BY <3>1, <3>2
  <2>2. ASSUME pc = "raised_cycle" PROVE SelfSupporting(remaining)
    <3>1. ASSUME NEW n \in remaining PROVE deps[n] \cap remaining # {}
      <4>1. n \in Stages /\ ~ (deps[n] \subseteq results)
        BY <1>1, <2>2 DEF PlanInv, TypeOK, Verdicts, Ready
      <4>2. deps[n] \subseteq Stages
        BY <1>1, <2>2, <4>1 DEF PlanInv, Verdicts
      <4>3. QED
        BY <1>1, <4>1, <4>2 DEF PlanInv, TypeOK, Bookkeeping
    <3>2. QED
      BY <1>1, <2>2, <3>1 DEF PlanInv, Verdicts, SelfSupporting
  <2>3. QED
    BY <1>1, <2>1, <2>2 DEF VerdictIsExact, PlanInv, Verdicts
<1>2. QED
  BY <1>1, PlanInductive, PTL

(***************************************************************************)
(* run_plan implements TopologicalRun: the batches, whatever the order in  *)
(* which their stages end, are steps of a one-stage-at-a-time topological  *)
(* execution.                                                              *)
(***************************************************************************)
THEOREM ImplementsTopologicalRun == Spec => TopologicalRefinement
<1> DEFINE done == {n \in Stages : Ended(n)}
<1>1. Init => Topological!Init
  BY DEF Init, Topological!Init, Ended
<1>2. ASSUME PlanInv, [Next]_vars
      PROVE  [Topological!Next]_<<deps, done>>
  <2>1. ASSUME NEW n \in Stages, StageEnds(n)
        PROVE  Topological!End(n)
    <3>1. PICK outcome \in {"returned", "raised"} :
            status' = [status EXCEPT ![n] = outcome]
      BY <2>1 DEF StageEnds
    <3>2. status[n] = "running" /\ deps' = deps
      BY <2>1 DEF StageEnds
    <3>3. n \notin done
      BY <3>2 DEF Ended
    <3>4. deps[n] \subseteq done
      BY <1>2, <3>2 DEF PlanInv, TypeOK, Bookkeeping, Grounded
    <3>5. {m \in Stages : Ended(m)'} = done \cup {n}
      BY <1>2, <3>1 DEF PlanInv, TypeOK, Ended
    <3>6. QED
      BY <3>2, <3>3, <3>4, <3>5 DEF Topological!End
  <2>2. ASSUME \/ Validate \/ RaiseCycle
               \/ Collect \/ Return
               \/ UNCHANGED vars
        PROVE  UNCHANGED <<deps, done>>
    BY <2>2 DEF Validate, RaiseCycle, Collect, Return,
                vars, Ended
  <2>3. ASSUME StartBatch
        PROVE  UNCHANGED <<deps, done>>
    <3>1. \A n \in Ready : status[n] = "waiting"
      BY <1>2, <2>3 DEF PlanInv, Bookkeeping, StartBatch, Ready
    <3>2. \A n \in Stages : Ended(n)' <=> Ended(n)
      BY <2>3, <3>1 DEF StartBatch, Ended
    <3>3. QED
      BY <2>3, <3>2 DEF StartBatch
  <2>4. QED
    BY <1>2, <2>1, <2>2, <2>3 DEF Next, Stop, Topological!Next
<1>3. QED
  BY <1>1, <1>2, PlanInductive, PTL
  DEF Spec, TopologicalRefinement, Topological!Spec

(***************************************************************************)
(* No stage of any graph is started twice, and what it ended with stays:   *)
(* no write of a stage is ever retried.                                    *)
(***************************************************************************)
THEOREM StartsOnce == Spec => NeverRestarted
<1>1. ASSUME PlanInv, [Next]_vars, NEW n \in Stages,
             status[n] # "waiting"
      PROVE  /\ status'[n] # "waiting"
             /\ Ended(n) => status'[n] = status[n]
  <2>1. CASE StartBatch
    <3>1. status' = [m \in Stages |->
                       IF m \in Ready THEN "running" ELSE status[m]]
      BY <2>1 DEF StartBatch
    <3>2. n \notin Ready
      <4>1. pc = "looping"
        BY <2>1 DEF StartBatch
      <4>2. n \notin remaining
        BY <1>1, <4>1 DEF PlanInv, Bookkeeping
      <4>3. QED
        BY <4>2 DEF Ready
    <3>3. QED
      BY <1>1, <3>1, <3>2
  <2>2. CASE \E m \in Stages : StageEnds(m)
    <3>1. PICK m \in Stages, outcome \in {"returned", "raised"} :
            status[m] = "running" /\ status' = [status EXCEPT ![m] = outcome]
      BY <2>2 DEF StageEnds
    <3>2. QED
      BY <1>1, <3>1 DEF PlanInv, TypeOK, Ended
  <2>3. CASE \/ Validate \/ RaiseCycle \/ Collect
             \/ Return \/ UNCHANGED vars
    BY <1>1, <2>3 DEF Validate, RaiseCycle, Collect,
                      Return, vars
  <2>4. QED
    BY <1>1, <2>1, <2>2, <2>3 DEF Next, Stop
<1>2. PlanInv /\ [Next]_vars =>
        [\A n \in Stages : status[n] # "waiting" =>
           status'[n] # "waiting" /\
           (Ended(n) => status'[n] = status[n])]_vars
  BY <1>1
<1>3. QED
  BY <1>2, PlanInductive, PTL DEF Spec, NeverRestarted

-----------------------------------------------------------------------------
(***************************************************************************)
(* A bound on what run_plan still does: each stage is started and ends     *)
(* once, and each batch is started and collected once.                     *)
(***************************************************************************)
Unstarted == {n \in Stages : status[n] = "waiting"}
Unended == {n \in Stages : ~Ended(n)}

StepsOfPc == IF pc \in {"validating", "gathering"} THEN 2
             ELSE IF pc = "looping" THEN 1 ELSE 0

StepsLeft == 2 * Cardinality(Unstarted) + Cardinality(Unended) + StepsOfPc

LEMMA SmallerSet ==
  ASSUME NEW S, IsFiniteSet(S), NEW T \in SUBSET S
  PROVE  /\ Cardinality(S) \in Nat /\ Cardinality(T) \in Nat
         /\ Cardinality(T) <= Cardinality(S)
         /\ T # S => Cardinality(T) < Cardinality(S)
<1>1. /\ IsFiniteSet(T)
      /\ Cardinality(T) <= Cardinality(S)
      /\ Cardinality(S) = Cardinality(T) => S = T
  BY FS_Subset
<1>2. Cardinality(S) \in Nat /\ Cardinality(T) \in Nat
  BY <1>1, FS_CardinalityType
<1>3. QED
  BY <1>1, <1>2

\* Stages are only ever started and ended, never put back.
LEMMA OnwardOnly ==
  ASSUME PlanInv, [Next]_vars
  PROVE  Unstarted' \subseteq Unstarted /\ Unended' \subseteq Unended
<1>1. CASE StartBatch
  <2>1. /\ status' = [n \in Stages |->
                        IF n \in Ready THEN "running" ELSE status[n]]
        /\ \A n \in Ready : status[n] = "waiting"
    BY <1>1 DEF StartBatch, PlanInv, Bookkeeping, Ready
  <2>2. QED
    BY <2>1 DEF Unstarted, Unended, Ended
<1>2. CASE \E n \in Stages : StageEnds(n)
  BY <1>2 DEF StageEnds, Unstarted, Unended, Ended, PlanInv, TypeOK
<1>3. CASE status' = status
  BY <1>3 DEF Unstarted, Unended, Ended
<1>4. QED
  BY <1>1, <1>2, <1>3
  DEF Next, Validate, RaiseCycle, Collect, Return, Stop, vars

(***************************************************************************)
(* run_plan never goes round in circles, whatever the graph, whichever     *)
(* stages raise and in whatever order a batch ends: each of its steps      *)
(* brings it nearer to its end, of which it is at most three steps a stage *)
(* and two more away (the safety half of Terminates).                      *)
(***************************************************************************)
THEOREM RunIsBounded ==
  IsFiniteSet(Stages) =>
    (Spec => /\ [](StepsLeft \in 0..(3 * Cardinality(Stages) + 2))
             /\ [][StepsLeft' < StepsLeft]_vars)
<1> SUFFICES ASSUME IsFiniteSet(Stages)
             PROVE  Spec => /\ [](StepsLeft
                                    \in 0..(3 * Cardinality(Stages) + 2))
                            /\ [][StepsLeft' < StepsLeft]_vars
  OBVIOUS
<1>1. StepsLeft \in 0..(3 * Cardinality(Stages) + 2)
  <2>1. /\ Cardinality(Stages) \in Nat
        /\ Cardinality(Unstarted) \in Nat /\ Cardinality(Unended) \in Nat
        /\ Cardinality(Unstarted) <= Cardinality(Stages)
        /\ Cardinality(Unended) <= Cardinality(Stages)
    BY SmallerSet DEF Unstarted, Unended
  <2>2. StepsOfPc \in 0..2
    BY DEF StepsOfPc
  <2>3. QED
    BY <2>1, <2>2 DEF StepsLeft
<1>2. ASSUME PlanInv, [Next]_vars, vars' # vars
      PROVE  StepsLeft' < StepsLeft
  <2>1. /\ IsFiniteSet(Unstarted) /\ IsFiniteSet(Unended)
        /\ Unstarted' \in SUBSET Unstarted /\ Unended' \in SUBSET Unended
    BY <1>2, OnwardOnly, FS_Subset DEF Unstarted, Unended
  <2>2. /\ Cardinality(Unstarted) \in Nat /\ Cardinality(Unstarted') \in Nat
        /\ Cardinality(Unended) \in Nat /\ Cardinality(Unended') \in Nat
        /\ Cardinality(Unstarted') <= Cardinality(Unstarted)
        /\ Cardinality(Unended') <= Cardinality(Unended)
        /\ Unstarted' # Unstarted =>
             Cardinality(Unstarted') < Cardinality(Unstarted)
        /\ Unended' # Unended => Cardinality(Unended') < Cardinality(Unended)
    BY <2>1, SmallerSet
  <2>3. StepsOfPc \in 0..2 /\ StepsOfPc' \in 0..2
    BY DEF StepsOfPc
  <2>4. CASE StartBatch
    <3>1. StepsOfPc = 1 /\ StepsOfPc' = 2
      BY <2>4 DEF StartBatch, StepsOfPc
    <3>2. PICK n \in Stages : n \in Ready /\ status[n] = "waiting"
      BY <1>2, <2>4 DEF StartBatch, Ready, PlanInv, TypeOK, Bookkeeping
    <3>3. n \in Unstarted /\ n \notin Unstarted'
      BY <2>4, <3>2 DEF StartBatch, Unstarted
    <3>4. QED
      BY <2>2, <3>1, <3>3 DEF StepsLeft
  <2>5. ASSUME NEW n \in Stages, StageEnds(n)
        PROVE  StepsLeft' < StepsLeft
    <3>1. StepsOfPc' = StepsOfPc
      BY <2>5 DEF StageEnds, StepsOfPc
    <3>2. n \in Unended /\ n \notin Unended'
      BY <1>2, <2>5 DEF StageEnds, Unended, Ended, PlanInv, TypeOK
    <3>3. QED
      BY <2>2, <2>3, <3>1, <3>2 DEF StepsLeft
  <2>6. CASE Validate \/ RaiseCycle \/ Collect \/ Return
    <3>1. StepsOfPc' < StepsOfPc
      BY <2>6 DEF Validate, RaiseCycle, Collect, Return, StepsOfPc
    <3>2. QED
      BY <2>2, <2>3, <3>1 DEF StepsLeft
  <2>7. QED
    BY <1>2, <2>4, <2>5, <2>6 DEF Next, Stop
<1>3. PlanInv /\ [Next]_vars => [StepsLeft' < StepsLeft]_vars
  BY <1>2
<1>4. QED
  BY <1>1, <1>3, PlanInductive, PTL DEF Spec
=============================================================================
