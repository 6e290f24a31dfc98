--------------------------- MODULE ItemGeneration ---------------------------
(***************************************************************************)
(* A turn that serves a practice item: an LLM-authored variant when the    *)
(* topic has no template, else (or when that fails) bounded resampling of  *)
(* a parametric template.  The orchestrator passes no set of instances or  *)
(* stems to avoid, so those two gates of generate_item always let a sample *)
(* through and are left out.                                               *)
(***************************************************************************)
EXTENDS Integers, FiniteSets

CONSTANTS
  Topics, Templates, DefaultTemplate,
  NoTemplate,
  TemplateFor,     \* [Topics -> Templates \cup {NoTemplate}]
  LLMVariant,      \* the template_id of an authored item
  MaxAuthorAttempts, MaxResampleAttempts, MinResponses,
  NoItem

ASSUME ItemConstants ==
  /\ Topics # {}
  /\ DefaultTemplate \in Templates
  /\ NoTemplate \notin Templates /\ LLMVariant \notin Templates
  /\ NoTemplate # LLMVariant
  /\ TemplateFor \in [Topics -> Templates \cup {NoTemplate}]
  /\ MaxAuthorAttempts \in Nat \ {0}
  /\ MaxResampleAttempts \in Nat \ {0}
  /\ MinResponses \in Nat \ {0}

\* How the CAS and the gates find one sampled instance; distractor is how
\* the generated distractor compares with the answer.
Candidate == [constraints : BOOLEAN, cas : {"ok", "unverifiable"},
              friendly : BOOLEAN, distractor : {"none", "differs", "equals"}]

\* The outcomes of one authoring call.
AuthorOutcome == {"unavailable", "malformed", "unverifiable", "mismatch",
                  "verified"}

Gates == {"solvability", "uniqueness", "number_friendliness"}

Item == [template : Templates \cup {LLMVariant},
         difficulty : {"template_prior", "recalibrated", "llm_estimated"},
         failed : SUBSET Gates]

ASSUME NoItemIsNoItem == NoItem \notin Item

-----------------------------------------------------------------------------
TopicHasKnownTemplate(topic) == TemplateFor[topic] # NoTemplate

SelectTemplate(topic) ==
  IF TopicHasKnownTemplate(topic) THEN TemplateFor[topic] ELSE DefaultTemplate

\* The checks of generate_item's loop: anything else is resampled.
\* Mutant: a number is taken as it comes.
AcceptsAnyNumber(c) == c.constraints /\ c.cas = "ok"

Accepts(c) == c.constraints /\ c.cas = "ok" /\ c.friendly

\* generate_distractors drops one that equals the answer.
DistractorsOf(c) == IF c.distractor = "differs" THEN {"differs"} ELSE {}

\* run_quality_gates, after the item is built; the report changes nothing.
\* The gates that only look at the template hold for the whole bank.
FailedGates(c) ==
  {g \in Gates :
     \/ g = "solvability" /\ c.cas # "ok"
     \/ g = "uniqueness" /\ "equals" \in DistractorsOf(c)
     \/ g = "number_friendliness" /\ ~c.friendly}

\* recalibrate_template_difficulty
Recalibrates(responses) == responses >= MinResponses

ParametricItem(template, recalibrated, c) ==
  [template |-> template,
   difficulty |-> IF recalibrated THEN "recalibrated" ELSE "template_prior",
   failed |-> FailedGates(c)]

AuthoredItem ==
  [template |-> LLMVariant, difficulty |-> "llm_estimated", failed |-> {}]
=============================================================================
