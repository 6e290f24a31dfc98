------------------------- MODULE MCLearnerRecords -------------------------
EXTENDS LearnerRecords, TLC

G(topic, correct, confidence, template, diagnosis) ==
  [topic |-> topic, correct |-> correct, confidence |-> confidence,
   template |-> template, diagnosis |-> diagnosis]

\* Wrong with a diagnosis, trusted or not; wrong in another way; right, on a
\* served template; and right but unsupported, without a topic.
MCGrades == {G("calculus", FALSE, "medium", FALSE, "chain_rule"),
             G("calculus", FALSE, "low", FALSE, "chain_rule"),
             G("calculus", FALSE, "medium", FALSE, "sign_error"),
             G("calculus", TRUE, "high", TRUE, NoMisconception),
             G(NoTopic, TRUE, "low", FALSE, NoMisconception)}

Symmetry == Permutations(Turns)
=============================================================================
