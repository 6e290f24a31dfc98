--------------------------- MODULE Diagnostician ---------------------------
(***************************************************************************)
(* The Misconception Diagnostician on work that missed marks: the final    *)
(* line is compared with the answers that catalogued errors produce for    *)
(* the very task (detectors.py); if none fits, a model is asked to choose  *)
(* from the catalog; and the write gate decides what is kept.  Confidences *)
(* are in hundredths.                                                      *)
(***************************************************************************)
EXTENDS Examiner, Functions

CONSTANTS
  Catalog, NoMisconception,
  NamedError,    \* task -> the one error its shape has a detector for
  WrongAnswers,  \* task -> the answers that error produces, {} if none:
                 \* one value, or the two roots of a quadratic
  Confidences,   \* what a model may call its confidence, in hundredths
  NotANumber     \* JSON's NaN, which json.loads and float accept

ASSUME DiagnosticianConstants ==
  /\ NoMisconception \notin Catalog
  /\ Confidences \subseteq Int \cup {NotANumber} /\ NotANumber \notin Int

Threshold == 60
Unlisted == "unlisted"

\* What the model call comes to: an outage; text that is no JSON or has no
\* number for a confidence; JSON that is no object; or an answer, which may
\* name nothing or something that is not in the catalog.
ModelReply ==
  [kind : {"unavailable", "unparseable", "no_object", "answer"},
   id : Catalog \cup {NoMisconception, Unlisted}, confidence : Confidences]

DiagnosisResult ==
  [id : Catalog \cup {NoMisconception}, confidence : 0..100,
   method : {"none", "pattern_match", "model_inference"}]

NoDiagnosis == [id |-> NoMisconception, confidence |-> 0, method |-> "none"]

-----------------------------------------------------------------------------
\* Mutant: the number of roots is not compared.
ValuesInclude(answer, step) ==
  IF Len(answer) = 1 THEN Equivalent(Normalized(step), answer[1])
  ELSE /\ ~step.latex
       /\ \A k \in DOMAIN answer : \E j \in DOMAIN step.values :
            step.values[j] = answer[k]

\* _values_match: the value after the last "=", or the same number of roots
\* of which each finds its own.
ValuesMatch(answer, step) ==
  IF Len(answer) = 1 THEN Equivalent(Normalized(step), answer[1])
  ELSE /\ ~step.latex
       /\ Len(step.values) = Len(answer)
       /\ \E f \in Injection(DOMAIN answer, DOMAIN step.values) :
            \A k \in DOMAIN answer : step.values[f[k]] = answer[k]

\* detect_pattern_misconception on the final line.
PatternFits(task, step) ==
  \E answer \in WrongAnswers[task] : ValuesMatch(answer, step)

\* max(0.0, min(1.0, confidence)), which makes 1.0 of NaN.
Clamped(confidence) ==
  IF confidence = NotANumber \/ confidence > 100 THEN 100
  ELSE IF confidence < 0 THEN 0 ELSE confidence

\* diagnose_via_model.  JSON that is no object raises, which run_plan drops:
\* no diagnosis either.
DiagnoseViaModel(reply) ==
  IF reply.kind = "answer" /\ reply.id \in Catalog
  THEN [id |-> reply.id, confidence |-> Clamped(reply.confidence),
        method |-> "model_inference"]
  ELSE NoDiagnosis

\* diagnose_misconception of work the CAS has a verified solution for.
DiagnoseMisconception(task, work, reply) ==
  IF FinalAnswer(task, work) = {} THEN NoDiagnosis
  ELSE IF PatternFits(task, work[Len(work)])
  THEN [id |-> NamedError[task], confidence |-> 100,
        method |-> "pattern_match"]
  ELSE DiagnoseViaModel(reply)

\* should_write_diagnosis
ShouldWriteDiagnosis(diagnosis) ==
  diagnosis.id # NoMisconception /\ diagnosis.confidence >= Threshold
=============================================================================
