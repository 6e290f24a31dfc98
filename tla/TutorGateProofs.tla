-------------------------- MODULE TutorGateProofs --------------------------
(***************************************************************************)
(* Proofs about TutorGate.  ShownDraftIsClean and the telemetry facts are  *)
(* not inductive: they need what each stage of generate has established    *)
(* about the draft it works on, kept below as one fact per stage.          *)
(***************************************************************************)
EXTENDS TutorGate, TLAPS

Untouched == draft = NoDraft /\ critique = NoCritique /\ response = NoResponse

\* Before the first draft.
Idle ==
  pc \in {"preparing", "making_item", "drafting"} => calls = 0 /\ Untouched

\* The draft before the critic has passed the contract and the CAS gate.
UnderCritique ==
  pc = "critiquing" =>
    /\ calls = 1 /\ draft \in Draft /\ critique = NoCritique
    /\ response = NoResponse
    /\ ~ViolatesActionContract(draft, context)
    /\ ~CASReplaces(draft, context)

\* Only a real verdict sends a draft back, and never one without CAS.
UnderRevision ==
  pc = "redrafting" =>
    /\ calls = 1 /\ response = NoResponse
    /\ critique = [verdict |-> "revise", degraded |-> FALSE]
    /\ ~(context.type \in CASGated /\ context.cas = "unverifiable")

\* How a draft came to be shown.
ShownWell ==
  /\ draft \in Draft
  /\ critique \in Critique /\ critique.verdict # "block"
  /\ response = Approved(draft, context, critique)
  /\ ~ViolatesActionContract(draft, context)
  /\ ~CASReplaces(draft, context)
  /\ Grounded(draft, context)
  /\ critique.degraded => ~StaticallyBad(draft, context) /\ calls = 1

\* How a template came to be shown.
ReplacedWell ==
  /\ response \in {Fallback(r) : r \in FallbackReason \cup {"none"}}
  /\ response.reason = "leak_check" <=>
       calls = 1 /\ draft # NoDraft /\ ViolatesActionContract(draft, context)
  /\ response.reason = "model_call_failed" <=> calls = 1 /\ draft = NoDraft
  /\ response.reason = "regeneration_failed" <=>
       calls = 2 /\ ~PassesAgain(draft)

Outcome == response # NoResponse => ShownWell \/ ReplacedWell

\* The writes after generate come in their order.
Written ==
  /\ pc \in {"responding", "queueing", "saving", "delivered"} =>
       response # NoResponse
  /\ pc \in {"queueing", "saving", "delivered"} => signals # NoSignals
  /\ pc = "queueing" => response.degraded
  /\ pc \in {"saving", "delivered"} => (response.degraded <=> queued)
  /\ signals # NoSignals => /\ response # NoResponse
                            /\ signals = ExtractSignals(response)
  /\ queued => signals # NoSignals /\ response.degraded
  /\ pc \in {"preparing", "making_item", "drafting", "critiquing",
             "redrafting", "responding"} => signals = NoSignals /\ ~queued

IInv == /\ TypeOK
        /\ Idle
        /\ UnderCritique
        /\ UnderRevision
        /\ Outcome
        /\ Written

-----------------------------------------------------------------------------
USE DEF ActionKind, FallbackReason

LEMMA InitIInv == Init => IInv
<1> SUFFICES ASSUME Init PROVE IInv
  OBVIOUS
<1>1. PICK type \in ActionKind : context = Bare(type)
  BY DEF Init
<1>2. context \in Context
  BY <1>1 DEF Bare, Context
<1>3. /\ pc \in {"preparing", "making_item"}
      /\ draft = NoDraft /\ calls = 0
      /\ critique = NoCritique /\ response = NoResponse
      /\ signals = NoSignals /\ queued = FALSE
  BY DEF Init, Entry
<1>4. TypeOK
  <2>1. calls \in 0..2
    BY <1>3
  <2>2. queued \in BOOLEAN
    BY <1>3
  <2> QED
    BY <1>2, <1>3, <2>1, <2>2 DEF TypeOK
<1>5. Idle /\ UnderCritique /\ UnderRevision /\ Outcome
  BY <1>3 DEF Idle, Untouched, UnderCritique, UnderRevision, Outcome
<1>6. Written
  BY <1>3 DEF Written
<1> QED
  BY <1>4, <1>5, <1>6 DEF IInv

\* The three constructors yield records of the declared types.
LEMMA ResponsesTyped ==
  /\ \A r \in FallbackReason \cup {"none"} :
       Fallback(r) \in Response /\ Fallback(r).templated
  /\ \A d \in Draft, c \in Context, k \in Critique :
       Approved(d, c, k) \in Response /\ ~Approved(d, c, k).templated
  /\ \A r \in Response : ExtractSignals(r) \in Signals
  /\ \A d \in Draft, c \in Context : StaticCritique(d, c) \in Critique
<1>1. \A r \in FallbackReason \cup {"none"} :
        Fallback(r) \in Response /\ Fallback(r).templated
  BY DEF Fallback, Response
<1>2. \A d \in Draft, c \in Context, k \in Critique :
        Approved(d, c, k) \in Response /\ ~Approved(d, c, k).templated
  BY DEF Approved, Response, Critique
<1>3. \A r \in Response : ExtractSignals(r) \in Signals
  BY DEF ExtractSignals, Response, Signals
<1>4. \A d \in Draft, c \in Context : StaticCritique(d, c) \in Critique
  BY DEF StaticCritique, Critique
<1> QED
  BY <1>1, <1>2, <1>3, <1>4

\* One verdict of the critic, whoever gave it: a degraded one is the static
\* check's and never asks for a revision.
LEMMA JudgeIInv ==
  ASSUME IInv, NEW k \in Critique, Judge(k),
         k.degraded => k = StaticCritique(draft, context)
  PROVE  IInv'
<1> USE DEF IInv
<1>1. /\ pc = "critiquing" /\ calls = 1 /\ draft \in Draft /\ context \in Context
      /\ response = NoResponse /\ critique' = k
      /\ ~ViolatesActionContract(draft, context)
      /\ ~CASReplaces(draft, context)
      /\ UNCHANGED <<context, draft, calls, signals, queued>>
      /\ signals = NoSignals /\ ~queued
  BY DEF Judge, UnderCritique, TypeOK, Written
<1>2. k.verdict \in {"pass", "revise", "block"} /\ k.degraded \in BOOLEAN
  BY DEF Critique
<1>3. k.degraded => k.verdict # "revise" /\
                    (k.verdict = "pass" => ~StaticallyBad(draft, context))
  BY DEF StaticCritique
<1>a. CASE k.verdict = "block" /\ Respond(Fallback("critic_block"))
  <2>1. response' = Fallback("critic_block") /\ pc' = "responding"
    BY <1>a DEF Respond
  <2>2. /\ response' \in Response
        /\ response'.reason \notin {"leak_check", "model_call_failed",
                                    "regeneration_failed"}
    BY <2>1, ResponsesTyped DEF Fallback
  <2>3. ReplacedWell'
    BY <1>1, <2>1, <2>2, GateConstants DEF ReplacedWell
  <2> QED
    BY <1>1, <2>1, <2>2, <2>3, GateConstants
       DEF TypeOK, Idle, UnderCritique, UnderRevision, Outcome, Written
<1>b. CASE k.verdict # "block" /\ Respond(Fallback("grounding_failed"))
  <2>1. response' = Fallback("grounding_failed") /\ pc' = "responding"
    BY <1>b DEF Respond
  <2>2. /\ response' \in Response
        /\ response'.reason \notin {"leak_check", "model_call_failed",
                                    "regeneration_failed"}
    BY <2>1, ResponsesTyped DEF Fallback
  <2>3. ReplacedWell'
    BY <1>1, <2>1, <2>2, GateConstants DEF ReplacedWell
  <2> QED
    BY <1>1, <2>1, <2>2, <2>3, GateConstants
       DEF TypeOK, Idle, UnderCritique, UnderRevision, Outcome, Written
<1>c. CASE k.verdict = "revise" /\ pc' = "redrafting" /\ UNCHANGED response
  <2>1. k = [verdict |-> "revise", degraded |-> FALSE]
    BY <1>c, <1>2, <1>3 DEF Critique
  <2>2. UnderRevision'
    BY <1>1, <1>c, <2>1 DEF UnderRevision, CASReplaces
  <2> QED
    BY <1>1, <1>c, <2>2
       DEF TypeOK, Idle, UnderCritique, Outcome, Written
<1>d. CASE /\ k.verdict = "pass" /\ Grounded(draft, context)
           /\ Respond(Approved(draft, context, k))
  <2>1. response' = Approved(draft, context, k) /\ pc' = "responding"
    BY <1>d DEF Respond
  <2>2. response' \in Response
    BY <1>1, <2>1, ResponsesTyped
  <2>3. ShownWell'
    BY <1>1, <1>2, <1>3, <1>d, <2>1 DEF ShownWell
  <2> QED
    BY <1>1, <2>1, <2>2, <2>3, GateConstants
       DEF TypeOK, Idle, UnderCritique, UnderRevision, Outcome, Written
<1> QED
  BY <1>2, <1>a, <1>b, <1>c, <1>d DEF Judge

\* The first draft: one gate after the other, in the code's order.
LEMMA GenerateIInv ==
  ASSUME IInv, NEW d \in Draft \cup {NoDraft}, Generate(d)
  PROVE  IInv'
<1> USE DEF IInv
<1>1. /\ pc = "drafting" /\ calls = 0 /\ context \in Context
      /\ critique = NoCritique /\ response = NoResponse
      /\ draft' = d /\ calls' = 1
      /\ UNCHANGED <<context, critique, signals, queued>>
      /\ signals = NoSignals /\ ~queued
  BY DEF Generate, Idle, Untouched, TypeOK, Written
<1>2. ASSUME NEW r \in FallbackReason \cup {"none"}, Respond(Fallback(r)),
             r = "leak_check" <=>
               d # NoDraft /\ ViolatesActionContract(d, context),
             r = "model_call_failed" <=> d = NoDraft,
             r # "regeneration_failed"
      PROVE  IInv'
  <2>1. response' = Fallback(r) /\ pc' = "responding"
    BY <1>2 DEF Respond
  <2>2. response' \in Response /\ response'.reason = r
    BY <2>1, ResponsesTyped DEF Fallback
  <2>3. ReplacedWell'
    BY <1>1, <1>2, <2>1, <2>2 DEF ReplacedWell
  <2> QED
    BY <1>1, <2>1, <2>2, <2>3, GateConstants
       DEF TypeOK, Idle, UnderCritique, UnderRevision, Outcome, Written
<1>a. CASE d = NoDraft /\ Respond(Fallback("model_call_failed"))
  BY <1>a, <1>2
<1>b. CASE /\ d # NoDraft /\ ViolatesActionContract(d, context)
           /\ Respond(Fallback("leak_check"))
  BY <1>b, <1>2
<1>c. CASE /\ d # NoDraft /\ ~ViolatesActionContract(d, context)
           /\ Respond(Fallback("none"))
  BY <1>c, <1>2
<1>d. CASE /\ d # NoDraft /\ ~ViolatesActionContract(d, context)
           /\ ~CASReplaces(d, context)
           /\ pc' = "critiquing" /\ UNCHANGED response
  <2>1. UnderCritique'
    BY <1>1, <1>d DEF UnderCritique
  <2> QED
    BY <1>1, <1>d, <2>1
       DEF TypeOK, Idle, UnderRevision, Outcome, Written
<1> QED
  BY <1>a, <1>b, <1>c, <1>d DEF Generate

\* The regenerated draft, which the critic does not see.
LEMMA RegenerateIInv ==
  ASSUME IInv, NEW d \in Draft \cup {NoDraft}, Regenerate(d)
  PROVE  IInv'
<1> USE DEF IInv
<1>1. /\ pc = "redrafting" /\ calls = 1 /\ context \in Context
      /\ critique = [verdict |-> "revise", degraded |-> FALSE]
      /\ response = NoResponse
      /\ ~(context.type \in CASGated /\ context.cas = "unverifiable")
      /\ draft' = d /\ calls' = calls + 1
      /\ UNCHANGED <<context, critique, signals, queued>>
      /\ signals = NoSignals /\ ~queued
  BY DEF Regenerate, UnderRevision, TypeOK, Written
<1>0. calls' = 2 /\ critique \in Critique
  BY <1>1 DEF Critique
<1>2. ASSUME NEW r \in {"grounding_failed", "regeneration_failed"},
             Respond(Fallback(r)),
             r = "regeneration_failed" <=> ~PassesAgain(d)
      PROVE  IInv'
  <2>1. response' = Fallback(r) /\ pc' = "responding"
    BY <1>2 DEF Respond
  <2>2. response' \in Response /\ response'.reason = r
    BY <2>1, ResponsesTyped DEF Fallback
  <2>3. ReplacedWell'
    BY <1>0, <1>1, <1>2, <2>1, <2>2
       DEF ReplacedWell, PassesAgain, ViolatesActionContract, ContradictsCAS
  <2> QED
    BY <1>0, <1>1, <2>1, <2>2, <2>3, GateConstants
       DEF TypeOK, Idle, UnderCritique, UnderRevision, Outcome, Written
<1>a. CASE ~PassesAgain(d) /\ Respond(Fallback("regeneration_failed"))
  BY <1>a, <1>2
<1>b. CASE PassesAgain(d) /\ Respond(Fallback("grounding_failed"))
  BY <1>b, <1>2
<1>c. CASE /\ PassesAgain(d) /\ Grounded(d, context)
           /\ Respond(Approved(d, context, critique))
  <2>1. response' = Approved(d, context, critique) /\ pc' = "responding"
    BY <1>c DEF Respond
  <2>2. d \in Draft
    BY <1>c DEF PassesAgain
  <2>3. response' \in Response
    BY <1>0, <1>1, <2>1, <2>2, ResponsesTyped
  <2>4. ~ViolatesActionContract(d, context) /\ ~CASReplaces(d, context)
    BY <1>1, <1>c DEF PassesAgain, CASReplaces
  <2>5. ShownWell'
    BY <1>0, <1>1, <1>c, <2>1, <2>2, <2>4 DEF ShownWell
  <2> QED
    BY <1>0, <1>1, <2>1, <2>3, <2>5, GateConstants
       DEF TypeOK, Idle, UnderCritique, UnderRevision, Outcome, Written
<1> QED
  BY <1>a, <1>b, <1>c DEF Regenerate

LEMMA NextIInv == IInv /\ [Next]_vars => IInv'
<1> SUFFICES ASSUME IInv, [Next]_vars PROVE IInv'
  OBVIOUS
<1> USE DEF IInv
<1>1. ASSUME Prepare PROVE IInv'
  BY <1>1 DEF Prepare, TypeOK, Idle, Untouched, UnderCritique, UnderRevision,
              Outcome, Written
<1>11. ASSUME MakeItem PROVE IInv'
  <2>1. context' \in Context
    BY <1>11 DEF MakeItem, TypeOK, Context
  <2>2. QED
    BY <1>11, <2>1 DEF MakeItem, TypeOK, Idle, Untouched, UnderCritique,
                       UnderRevision, Outcome, Written
<1>2. ASSUME NEW d \in Draft \cup {NoDraft}, Generate(d) PROVE IInv'
  BY <1>2, GenerateIInv
<1>3. ASSUME CriticAnswers PROVE IInv'
  <2>1. PICK v \in {"pass", "revise", "block"} :
               Judge([verdict |-> v, degraded |-> FALSE])
    BY <1>3 DEF CriticAnswers
  <2> DEFINE k == [verdict |-> v, degraded |-> FALSE]
  <2>2. k \in Critique /\ ~k.degraded /\ Judge(k)
    BY <2>1 DEF Critique
  <2> HIDE DEF k
  <2> QED
    BY <2>2, JudgeIInv
<1>4. ASSUME CriticDegrades PROVE IInv'
  <2>1. draft \in Draft /\ context \in Context
    BY <1>4 DEF CriticDegrades, Judge, UnderCritique, TypeOK
  <2>2. StaticCritique(draft, context) \in Critique
    BY <2>1, ResponsesTyped
  <2> QED
    BY <1>4, <2>2, JudgeIInv DEF CriticDegrades
<1>5. ASSUME NEW d \in Draft \cup {NoDraft}, Regenerate(d) PROVE IInv'
  BY <1>5, RegenerateIInv
<1>6. ASSUME RecordSignals PROVE IInv'
  <2>1. response \in Response
    BY <1>6 DEF RecordSignals, Written, TypeOK
  <2>2. signals' \in Signals /\ signals' # NoSignals
    BY <1>6, <2>1, ResponsesTyped, GateConstants DEF RecordSignals
  <2>3. response.degraded \in BOOLEAN
    BY <2>1 DEF Response
  <2>4. Outcome'
    BY <1>6 DEF RecordSignals, generated, Outcome, ShownWell, ReplacedWell,
            PassesAgain
  <2>5. Written'
    BY <1>6, <2>1, <2>2, <2>3, GateConstants
    DEF RecordSignals, generated, Written
  <2> QED
    BY <1>6, <2>2, <2>3, <2>4, <2>5
       DEF RecordSignals, generated, TypeOK, Idle, UnderCritique, UnderRevision
<1>7. ASSUME EnqueueReview PROVE IInv'
  <2>1. Outcome'
    BY <1>7 DEF EnqueueReview, generated, Outcome, ShownWell, ReplacedWell,
            PassesAgain
  <2> QED
    BY <1>7, <2>1 DEF EnqueueReview, generated, TypeOK, Idle, UnderCritique,
                      UnderRevision, Written
<1>8. ASSUME SaveSession PROVE IInv'
  <2>1. Outcome'
    BY <1>8 DEF SaveSession, generated, Outcome, ShownWell, ReplacedWell,
            PassesAgain
  <2> QED
    BY <1>8, <2>1 DEF SaveSession, generated, TypeOK, Idle, UnderCritique,
                      UnderRevision, Written
<1>9. ASSUME Fail PROVE IInv'
  <2>1. Outcome'
    BY <1>9 DEF Fail, generated, Outcome, ShownWell, ReplacedWell,
            PassesAgain
  <2> QED
    BY <1>9, <2>1 DEF Fail, generated, TypeOK, Idle, UnderCritique,
                      UnderRevision, Written
<1>10. ASSUME UNCHANGED vars PROVE IInv'
  BY <1>10 DEF vars, TypeOK, Idle, Untouched, UnderCritique, UnderRevision,
               Outcome, ShownWell, ReplacedWell, PassesAgain, Written
<1> QED
  BY <1>1, <1>2, <1>3, <1>4, <1>5, <1>6, <1>7, <1>8, <1>9, <1>10,
     <1>11
     DEF Next, Step, Stop

\* The inductive invariant holds of every behaviour of the turn.
THEOREM Invariance == Spec => []IInv
  BY InitIInv, NextIInv, PTL DEF Spec

-----------------------------------------------------------------------------
\* Type correctness of one turn through the gates.
THEOREM TypeCorrect == Spec => []TypeOK
<1>1. IInv => TypeOK
  BY DEF IInv
<1> QED
  BY <1>1, Invariance, PTL

\* A model's draft reaches the student only past every gate, however many
\* drafts, failures and verdicts came before (tutor_agent.generate).
THEOREM DraftsAreClean == Spec => []ShownDraftIsClean
<1>1. IInv => ShownDraftIsClean
  <2> SUFFICES ASSUME IInv, ShowsDraft
               PROVE  /\ ~ViolatesActionContract(response.text, context)
                      /\ ~CASReplaces(response.text, context)
                      /\ Grounded(response.text, context)
                      /\ critique # NoCritique /\ critique.verdict # "block"
                      /\ calls <= 2
    BY DEF ShownDraftIsClean
  <2>1. ~ReplacedWell
    BY ResponsesTyped DEF ReplacedWell, ShowsDraft
  <2>2. ShownWell
    BY <2>1 DEF IInv, Outcome, ShowsDraft
  <2>3. response.text = draft
    BY <2>2 DEF ShownWell, Approved
  <2>4. calls <= 2
    BY DEF IInv, TypeOK
  <2> QED
    BY <2>2, <2>3, <2>4, GateConstants DEF ShownWell
<1> QED
  BY <1>1, Invariance, PTL

\* With the critic down, what is shown has passed the static check itself
\* (critic.py, _static_fallback_critique).
THEOREM DegradedDraftsAreChecked == Spec => []DegradedIsStaticallyClean
<1>1. IInv => DegradedIsStaticallyClean
  <2> SUFFICES ASSUME IInv, ShowsDraft, response.degraded
               PROVE  ~StaticallyBad(response.text, context) /\ calls = 1
    BY DEF DegradedIsStaticallyClean
  <2>1. ~ReplacedWell
    BY ResponsesTyped DEF ReplacedWell, ShowsDraft
  <2>2. ShownWell
    BY <2>1 DEF IInv, Outcome, ShowsDraft
  <2>3. response.text = draft /\ critique.degraded
    BY <2>2 DEF ShownWell, Approved
  <2> QED
    BY <2>2, <2>3 DEF ShownWell
<1> QED
  BY <1>1, Invariance, PTL

\* Every answer shown without a real critique is queued for a human, and
\* only those (handle_turn.py, the critic_degraded branch).
THEOREM DegradedAnswersAreQueued == Spec => []DegradedIsQueued
<1>1. IInv => DegradedIsQueued
  <2> SUFFICES ASSUME IInv PROVE DegradedIsQueued
    OBVIOUS
  <2>1. ASSUME response # NoResponse
        PROVE  /\ response.degraded <=> ShowsDraft /\ critique.degraded
               /\ ExtractSignals(response).degraded = response.degraded
    <3>1. CASE ShownWell
      BY <2>1, <3>1, ResponsesTyped
         DEF ShownWell, Approved, ShowsDraft, ExtractSignals, Critique
    <3>2. CASE ReplacedWell
      BY <2>1, <3>2, ResponsesTyped
         DEF ReplacedWell, Fallback, ShowsDraft, ExtractSignals
    <3> QED
      BY <2>1, <3>1, <3>2 DEF IInv, Outcome
  <2>2. signals \in Signals \cup {NoSignals} /\ queued \in BOOLEAN
    BY DEF IInv, TypeOK
  <2> QED
    BY <2>1, <2>2 DEF IInv, Written, DegradedIsQueued
<1> QED
  BY <1>1, Invariance, PTL

\* The telemetry of a turn names where its draft ended: a failed call, the
\* contract of the first draft, the checks of the regenerated one, or nowhere;
\* and no verdict but the critic's (guardrail_metrics/extraction.py).
THEOREM SignalsNameGate == Spec => []SignalsNameTheGate
<1>1. IInv => SignalsNameTheGate
  <2> SUFFICES ASSUME IInv, signals # NoSignals
               PROVE  /\ signals.leakCheck <=>
                           /\ calls = 1 /\ draft # NoDraft
                           /\ ViolatesActionContract(draft, context)
                      /\ signals.reason = "model_call_failed" <=>
                           calls = 1 /\ draft = NoDraft
                      /\ signals.reason = "regeneration_failed" <=>
                           calls = 2 /\ ~PassesAgain(draft)
                      /\ signals.fellBack <=> ~ShowsDraft
                      /\ signals.verdict # "none" =>
                           /\ critique # NoCritique
                           /\ signals.verdict = critique.verdict
    BY DEF SignalsNameTheGate
  <2>1. response # NoResponse /\ signals = ExtractSignals(response)
    BY DEF IInv, Written
  <2>2. CASE ShownWell
    <3>1. /\ ~response.templated /\ ShowsDraft
          /\ response.verdict = critique.verdict
      BY <2>1, <2>2 DEF ShownWell, Approved, ShowsDraft
    <3>2. /\ ~signals.leakCheck /\ ~signals.fellBack
          /\ signals.reason = "none"
          /\ signals.verdict = critique.verdict
      BY <2>1, <3>1 DEF ExtractSignals
    <3>3. draft # NoDraft /\ PassesAgain(draft)
      BY <2>2, GateConstants DEF ShownWell, PassesAgain, CASReplaces
    <3> QED
      BY <2>2, <3>1, <3>2, <3>3, GateConstants DEF ShownWell
  <2>3. CASE ReplacedWell
    <3>1. response.templated /\ response.verdict = "none" /\ ~ShowsDraft
      BY <2>3 DEF ReplacedWell, Fallback, ShowsDraft
    <3>2. /\ signals.leakCheck <=> response.reason = "leak_check"
          /\ signals.reason = response.reason
          /\ signals.fellBack /\ signals.verdict = "none"
      BY <2>1, <3>1 DEF ExtractSignals
    <3> QED
      BY <2>3, <3>1, <3>2 DEF ReplacedWell
  <2> QED
    BY <2>1, <2>2, <2>3 DEF IInv, Outcome
<1> QED
  BY <1>1, Invariance, PTL
=============================================================================
