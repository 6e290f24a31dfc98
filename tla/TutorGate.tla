----------------------------- MODULE TutorGate -----------------------------
(***************************************************************************)
(* One turn of handle_turn from a decided, not refused action to the saved *)
(* session: the context is prepared, tutor_agent.generate drafts an answer *)
(* and passes it through the action contract, the CAS gate, the grounding  *)
(* check, the critic and at most one regeneration, the turn's guardrail    *)
(* signals are recorded, a degraded critique is queued for review, and the *)
(* session is saved.  Turns share none of this state, so one is modelled.  *)
(***************************************************************************)
EXTENDS Policy

CONSTANTS NoDraft, NoCritique, NoResponse, NoSignals

ActionKind == ActionType \ {"refuse"}

LeakSensitive == {"hint", "question", "challenge"}
CASGated == {"explain"}
AnswerPermitted == {"explain"}

(***************************************************************************)
(* What the gates can tell about a model's draft.  leak: the text matches  *)
(* no leak pattern, the one only tutor_agent lists ("equals 5"), or one    *)
(* the critic's static list shares.  essay: too long or essay-like for IA  *)
(* coaching.  claim: the final value it states against the CAS result.     *)
(* supported: enough of its sentences overlap with the retrieved chunks.   *)
(***************************************************************************)
Draft == [leak : {"none", "tutor_only", "shared"}, itemAnswer : BOOLEAN,
          essay : BOOLEAN, claim : {"none", "agrees", "differs"},
          supported : BOOLEAN, latexOk : BOOLEAN]

\* What the turn brings along: an IA coaching move, the bound item (of a
\* challenge or a due review), the CAS result and groundable chunks.
Context == [type : ActionKind, ia : BOOLEAN, item : BOOLEAN,
            cas : {"none", "ok", "unverifiable"}, groundable : BOOLEAN]

Critique == [verdict : {"pass", "revise", "block"}, degraded : BOOLEAN]

FallbackReason == {"model_call_failed", "leak_check", "critic_block",
                   "grounding_failed", "regeneration_failed"}

\* A response and its ui_metadata; "cas" and "none" are templates and drafts
\* without a fallback_reason, score "assumed" is the 1.0 given without chunks.
Response == [templated : BOOLEAN, reason : FallbackReason \cup {"none"},
             text : Draft \cup {NoDraft},
             verdict : {"none", "pass", "revise", "block"},
             degraded : BOOLEAN, score : {"none", "assumed", "checked"}]

Signals == [leakCheck : BOOLEAN, verdict : {"none", "pass", "revise", "block"},
            degraded : BOOLEAN, score : {"none", "assumed", "checked"},
            fellBack : BOOLEAN, reason : FallbackReason \cup {"none"}]

ASSUME GateConstants == /\ NoDraft \notin Draft
                        /\ NoCritique \notin Critique
                        /\ NoResponse \notin Response
                        /\ NoSignals \notin Signals

VARIABLES
  pc,         \* where the turn stands
  context,    \* the decided action and what was prepared for it
  draft,      \* the draft last returned by the tutor model, or NoDraft
  calls,      \* history: calls of the tutor model
  critique,   \* the critic's result on the first draft
  response,   \* what generate returned
  signals,    \* the turn's guardrail_signals row
  queued      \* a CRITIC_DEGRADED entry of this turn is in the review queue

vars == <<pc, context, draft, calls, critique, response, signals, queued>>

generated == <<context, draft, calls, critique, response>>

-----------------------------------------------------------------------------
\* _violates_action_contract
ViolatesActionContract(d, c) ==
  \/ c.ia /\ d.essay
  \/ c.type \in LeakSensitive /\ d.leak # "none"
  \/ c.type \in {"challenge", "question"} /\ c.item /\ d.itemAnswer

\* The claimed value is not the CAS result.
ContradictsCAS(d, c) ==
  c.type \in CASGated /\ c.cas = "ok" /\ d.claim = "differs"

\* _apply_cas_gate: the draft is replaced by a CAS template.
CASReplaces(d, c) ==
  \/ c.type \in CASGated /\ c.cas = "unverifiable"
  \/ ContradictsCAS(d, c)

\* check_grounding on the chunks that clear the citation threshold.
Grounded(d, c) == c.groundable => d.supported

\* _static_fallback_critique
StaticallyBad(d, c) ==
  \/ c.type \notin AnswerPermitted /\ d.leak = "shared"
  \/ ~d.latexOk

\* Mutant: the static check asks for a revision where it should block.
StaticAsksToRevise(d, c) ==
  [verdict |-> IF StaticallyBad(d, c) THEN "revise" ELSE "pass",
   degraded |-> TRUE]

StaticCritique(d, c) ==
  [verdict |-> IF StaticallyBad(d, c) THEN "block" ELSE "pass",
   degraded |-> TRUE]

\* get_fallback_response, and with reason "none" the CAS templates.
Fallback(reason) ==
  [templated |-> TRUE, reason |-> reason, text |-> NoDraft,
   verdict |-> "none", degraded |-> FALSE, score |-> "none"]

Approved(d, c, crit) ==
  [templated |-> FALSE, reason |-> "none", text |-> d,
   verdict |-> crit.verdict, degraded |-> crit.degraded,
   score |-> IF c.groundable THEN "checked" ELSE "assumed"]

\* Mutant: every fallback is taken for a leak.
ExtractAnyFallback(r) ==
  [leakCheck |-> r.templated, verdict |-> r.verdict,
   degraded |-> r.degraded, score |-> r.score, fellBack |-> r.templated,
   reason |-> IF r.templated THEN r.reason ELSE "none"]

\* extract_guardrail_signals on the response's ui_metadata.
ExtractSignals(r) ==
  [leakCheck |-> r.templated /\ r.reason = "leak_check", verdict |-> r.verdict,
   degraded |-> r.degraded, score |-> r.score, fellBack |-> r.templated,
   reason |-> IF r.templated THEN r.reason ELSE "none"]

-----------------------------------------------------------------------------
Bare(type) == [type |-> type, ia |-> FALSE, item |-> FALSE, cas |-> "none",
               groundable |-> FALSE]

\* A challenge always asks for an item, a question if it is a due review.
Entry(type) == IF type = "challenge" THEN {"making_item"}
               ELSE IF type = "question" THEN {"preparing", "making_item"}
               ELSE {"preparing"}

Init ==
  /\ context \in {Bare(type) : type \in ActionKind}
  /\ pc \in Entry(context.type)
  /\ draft = NoDraft
  /\ calls = 0
  /\ critique = NoCritique
  /\ response = NoResponse
  /\ signals = NoSignals
  /\ queued = FALSE

\* _ground_explain_turn, if the action is an explanation.
Prepare ==
  /\ pc = "preparing"
  /\ context' \in
       {c \in Context :
          /\ c.type = context.type
          /\ ~c.item
          /\ c.type # "explain" => c.cas = "none" /\ ~c.groundable /\ ~c.ia}
  /\ pc' = "drafting"
  /\ UNCHANGED <<draft, calls, critique, response, signals, queued>>

\* _generate_challenge_item, which may find none.
MakeItem ==
  /\ pc = "making_item"
  /\ context' \in {[context EXCEPT !.item = found] : found \in BOOLEAN}
  /\ pc' = "drafting"
  /\ UNCHANGED <<draft, calls, critique, response, signals, queued>>

Respond(r) == pc' = "responding" /\ response' = r

\* The first call of the tutor model (NoDraft: it failed, timed out or was
\* blank) and the gates that need no second model.
Generate(d) ==
  /\ pc = "drafting"
  /\ draft' = d
  /\ calls' = calls + 1
  /\ \/ d = NoDraft /\ Respond(Fallback("model_call_failed"))
     \/ d # NoDraft /\ ViolatesActionContract(d, context)
          /\ Respond(Fallback("leak_check"))
     \/ d # NoDraft /\ ~ViolatesActionContract(d, context)
          /\ CASReplaces(d, context) /\ Respond(Fallback("none"))
     \/ d # NoDraft /\ ~ViolatesActionContract(d, context)
          /\ ~CASReplaces(d, context)
          /\ pc' = "critiquing" /\ UNCHANGED response
  /\ UNCHANGED <<context, critique, signals, queued>>

\* critique_draft and what generate does with its result: block or an
\* ungrounded draft falls back, revise regenerates, pass approves.
Judge(crit) ==
  /\ pc = "critiquing"
  /\ critique' = crit
  /\ \/ crit.verdict = "block" /\ Respond(Fallback("critic_block"))
     \/ crit.verdict # "block" /\ ~Grounded(draft, context)
          /\ Respond(Fallback("grounding_failed"))
     \/ crit.verdict = "revise" /\ Grounded(draft, context)
          /\ pc' = "redrafting" /\ UNCHANGED response
     \/ crit.verdict = "pass" /\ Grounded(draft, context)
          /\ Respond(Approved(draft, context, crit))
  /\ UNCHANGED <<context, draft, calls, signals, queued>>

\* The critic's model answered with a parseable verdict.
CriticAnswers ==
  \E v \in {"pass", "revise", "block"} :
    Judge([verdict |-> v, degraded |-> FALSE])

\* It failed, timed out or was unparseable: the static check decides.
CriticDegrades == Judge(StaticCritique(draft, context))

\* Mutant: only the claim is checked again.
PassesClaimAgain(d) == d # NoDraft /\ ~ContradictsCAS(d, context)

\* The regenerated draft passes the contract and the claim check again ...
PassesAgain(d) == /\ d # NoDraft
                  /\ ~ViolatesActionContract(d, context)
                  /\ ~ContradictsCAS(d, context)

\* Mutant: a good regeneration goes back to the critic.
RegenerateUntilPassed(d) ==
  /\ pc = "redrafting"
  /\ draft' = d
  /\ calls' = 2
  /\ IF PassesAgain(d) THEN pc' = "critiquing" /\ UNCHANGED response
                       ELSE Respond(Fallback("regeneration_failed"))
  /\ UNCHANGED <<context, critique, signals, queued>>

\* ... and is grounded again; it does not go back to the critic.
Regenerate(d) ==
  /\ pc = "redrafting"
  /\ draft' = d
  /\ calls' = calls + 1
  /\ \/ ~PassesAgain(d) /\ Respond(Fallback("regeneration_failed"))
     \/ PassesAgain(d) /\ ~Grounded(d, context)
          /\ Respond(Fallback("grounding_failed"))
     \/ PassesAgain(d) /\ Grounded(d, context)
          /\ Respond(Approved(d, context, critique))
  /\ UNCHANGED <<context, critique, signals, queued>>

\* guardrail_metrics_store.add
RecordSignals ==
  /\ pc = "responding"
  /\ signals' = ExtractSignals(response)
  /\ pc' = IF response.degraded THEN "queueing" ELSE "saving"
  /\ UNCHANGED <<generated, queued>>

\* enqueue_review with reason CRITIC_DEGRADED
EnqueueReview ==
  /\ pc = "queueing"
  /\ queued' = TRUE
  /\ pc' = "saving"
  /\ UNCHANGED <<generated, signals>>

\* session_store.save, and the response is delivered.
SaveSession ==
  /\ pc = "saving"
  /\ pc' = "delivered"
  /\ UNCHANGED <<generated, signals, queued>>

Over == pc \in {"delivered", "failed"}

\* A store call, the context's preparation or a model's client raises (see
\* Raise in TurnFlow), or the process stops: the student gets an error and
\* what was written stays.
Fail ==
  /\ ~Over
  /\ pc' = "failed"
  /\ UNCHANGED <<generated, signals, queued>>

Stop == Over /\ UNCHANGED vars

\* What the event loop goes on to do.
Step ==
  \/ Prepare
  \/ \E d \in Draft \cup {NoDraft} : Generate(d)
  \/ CriticAnswers
  \/ CriticDegrades
  \/ \E d \in Draft \cup {NoDraft} : Regenerate(d)
  \/ RecordSignals
  \/ EnqueueReview
  \/ SaveSession

Next == Step \/ MakeItem \/ Fail \/ Stop

Spec == Init /\ [][Next]_vars

(***************************************************************************)
(* Each model call is under asyncio.wait_for, the CAS call of a grounding  *)
(* has its timeout and each store call is one statement, so the            *)
(* coroutine's next step always comes, but for one: generate_item_async    *)
(* waits for a thread without a timeout (generator.py:373-384; CASCalls    *)
(* shows how it may wait for ever), so MakeItem is not fair.               *)
(***************************************************************************)
FairSpec == Spec /\ WF_vars(Step)

-----------------------------------------------------------------------------
TypeOK ==
  /\ pc \in {"preparing", "making_item", "drafting", "critiquing",
             "redrafting", "responding", "queueing", "saving", "delivered",
             "failed"}
  /\ context \in Context
  /\ draft \in Draft \cup {NoDraft}
  /\ calls \in 0..2
  /\ critique \in Critique \cup {NoCritique}
  /\ response \in Response \cup {NoResponse}
  /\ signals \in Signals \cup {NoSignals}
  /\ queued \in BOOLEAN

\* The student is shown (or about to be) a model's draft, not a template.
ShowsDraft == response # NoResponse /\ ~response.templated

(***************************************************************************)
(* Whichever draft is shown, the first or the regenerated one, it keeps    *)
(* the action's contract: no answer leaked on a hint, question or          *)
(* challenge, no bound item's answer, no essay on a coaching move; it      *)
(* never contradicts the CAS nor stands where the CAS could not verify;    *)
(* it is grounded in the chunks cited with it; no verdict blocked it; and  *)
(* it is no third draft (tutor_agent.py: generate,                         *)
(* _regenerate_with_stricter_constraints).                                 *)
(***************************************************************************)
ShownDraftIsClean ==
  ShowsDraft =>
    /\ ~ViolatesActionContract(response.text, context)
    /\ ~CASReplaces(response.text, context)
    /\ Grounded(response.text, context)
    /\ critique # NoCritique /\ critique.verdict # "block"
    /\ calls <= 2

(***************************************************************************)
(* Without a critic the static check is the last word: a draft shown under *)
(* a degraded critique is the very text that check passed, well-formed and *)
(* without an answer on any action but EXPLAIN; no regeneration slips in.  *)
(***************************************************************************)
DegradedIsStaticallyClean ==
  ShowsDraft /\ response.degraded =>
    ~StaticallyBad(response.text, context) /\ calls = 1

(***************************************************************************)
(* A delivered answer whose critic had degraded is in the review queue and *)
(* counted in the telemetry, and nothing else is queued for that reason,   *)
(* also when the turn fails between the two writes.                        *)
(***************************************************************************)
DegradedIsQueued ==
  /\ pc = "delivered" => /\ signals # NoSignals
                         /\ queued <=> ShowsDraft /\ critique.degraded
                         /\ signals.degraded <=> queued
  /\ queued => ShowsDraft /\ critique.degraded /\ signals # NoSignals

(***************************************************************************)
(* The signals row names the place where the draft ended, on every path    *)
(* of generate: no draft at all, a first draft that broke its contract, a  *)
(* regenerated one that failed any of its own checks (a leak in it is      *)
(* recorded as that, not as a leak: see LeakIsRecorded), no fallback       *)
(* exactly for a shown draft, and a critic verdict only if it is the one   *)
(* the critic gave (extraction.py, tutor_agent.py:355-429).                *)
(***************************************************************************)
SignalsNameTheGate ==
  signals # NoSignals =>
    /\ signals.leakCheck <=> /\ calls = 1
                             /\ draft # NoDraft
                             /\ ViolatesActionContract(draft, context)
    /\ signals.reason = "model_call_failed" <=> calls = 1 /\ draft = NoDraft
    /\ signals.reason = "regeneration_failed" <=>
         calls = 2 /\ ~PassesAgain(draft)
    /\ signals.fellBack <=> ~ShowsDraft
    /\ signals.verdict # "none" => critique # NoCritique
                                   /\ signals.verdict = critique.verdict

(***************************************************************************)
(* Every turn ends with an answer or an error, however the models fail, or *)
(* waits for an item; if whoever waits for an item gets one (or none),     *)
(* every turn ends.                                                        *)
(***************************************************************************)
TurnEnds ==
  /\ pc # "making_item" ~> Over
  /\ WF_vars(MakeItem) => <>Over

\* models.py:23-25 of guardrail_metrics: leak_check_triggered is "True when
\* app.agents.tutor_agent's leak-check (_violates_action_contract) discarded
\* the draft for this turn".  The check of the regenerated draft does not show.
LeakIsRecorded ==
  signals # NoSignals /\ draft # NoDraft
    /\ ViolatesActionContract(draft, context) => signals.leakCheck

\* models.py:27-29 of guardrail_metrics: critic_verdict is "the
\* Verifier/Critic's verdict for this turn, when the critic ran at all".
VerdictIsRecorded ==
  signals # NoSignals /\ critique # NoCritique =>
    signals.verdict = critique.verdict
=============================================================================
