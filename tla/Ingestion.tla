----------------------------- MODULE Ingestion -----------------------------
(***************************************************************************)
(* ingest_image: what becomes of a photograph of the student's work.  The  *)
(* image is abstracted to how each stage fares on it and to the lines that *)
(* the vision model transcribes.                                           *)
(***************************************************************************)
EXTENDS Examiner

\* Transcriptions this long have the full length credit.
FullCreditChars == 20

Photo ==
  [accepted : BOOLEAN,      \* validate_intake and preprocess_image succeed
   answered : BOOLEAN,      \* the vision model answers
   chars : 0..FullCreditChars,  \* length of the normalized text, capped
   balanced : BOOLEAN,      \* raw text not blank, delimiters balanced
   lines : Seq(WorkStep),   \* the normalized text
   other : BOOLEAN]         \* something parses besides the stated values: an
                            \* expression, the left side of an equation

\* parse_expression: some candidate parses once LaTeX is made plain.
Parseable(photo) ==
  \/ photo.other
  \/ \E i \in DOMAIN photo.lines :
       LET values == photo.lines[i].values
       IN values # <<>> /\ values[Len(values)] # Unreadable

\* Mutant: a lower bar for HIGH.
TierBelowBar(photo) ==
  LET composite == photo.chars
                     + (IF Parseable(photo) THEN 50 ELSE 0)
                     + (IF photo.balanced THEN 30 ELSE 0)
  IN IF composite >= 70 THEN "high"
     ELSE IF composite >= 45 THEN "medium" ELSE "low"

\* score_confidence, in hundredths: 0.2 for length, 0.5 for a parse, 0.3 for
\* balanced LaTeX; HIGH from 0.75, MEDIUM from 0.45.
Tier(photo) ==
  LET composite == photo.chars
                     + (IF Parseable(photo) THEN 50 ELSE 0)
                     + (IF photo.balanced THEN 30 ELSE 0)
  IN IF composite >= 75 THEN "high"
     ELSE IF composite >= 45 THEN "medium" ELSE "low"

IngestionResult == {"rejected", "unavailable", "low", "medium", "high"}

IngestImage(photo) ==
  IF ~photo.accepted THEN "rejected"
  ELSE IF ~photo.answered THEN "unavailable"
  ELSE Tier(photo)

\* handle_turn goes on with the transcription, or asks the student to
\* confirm, retype or retake it.  A MEDIUM result carries student_work but
\* requires confirmation.
UsableWork(photo) == IngestImage(photo) = "high" /\ photo.lines # <<>>
=============================================================================
