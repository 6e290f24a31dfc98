----------------------------- MODULE MCTurnFlow -----------------------------
EXTENDS TurnFlow, TLC

Ask(problem, work, template) ==
  [session |-> "s1", problem |-> problem, work |-> work,
   template |-> template]

Model(outcome, valid, confident, intent, mode, topic) ==
  [outcome |-> outcome, valid |-> valid, confident |-> confident,
   result |-> [intent |-> intent, mode |-> mode, topic |-> topic]]

Sure(intent, mode, topic) == Model("text", TRUE, TRUE, intent, mode, topic)
UnsureOfExam ==
  Model("text", TRUE, FALSE, "solve_request", "live_exam_simulation", TRUE)

\* Every way not to answer; what the text would have said does not matter.
NoAnswers == {Model(o, FALSE, TRUE, "solve_request", "practice", TRUE) :
                o \in CallOutcome}

\* A typed solution of a served item, without a problem id; a photographed
\* solution, whose photograph other intents ignore; a broken upload.
WorkRequests == {Ask(NoProblem, "typed", TRUE), Ask("p1", "photo", FALSE),
                 Ask("p1", "broken_photo", FALSE)}

\* Outages and unsure answers, an exam, a project and graded work with a topic.
WorkAnswers == NoAnswers \cup {UnsureOfExam,
                Sure("solve_request", "live_exam_simulation", FALSE),
                Sure("ia_ee_help", "ia_ee", FALSE),
                Sure("check_work", "practice", TRUE)}

\* Missed marks of LOW confidence are not written to mastery, full ones are.
WorkMarks ==
  {[missed |-> TRUE, low |-> TRUE], [missed |-> FALSE, low |-> FALSE]}

\* Two turns, each about the project (and then perhaps refused), typed work or
\* a solution; or the model fails or is late.
OrderRequests == {Ask("p1", "typed", FALSE)}
OrderAnswers == {a \in NoAnswers : a.outcome \in {"raised", "late"}} \cup
                {Sure("check_work", "practice", FALSE),
                 Sure("solve_request", "practice", TRUE),
                 Sure("ia_ee_help", "ia_ee", FALSE)}
OrderMarks == {NoMark}

Symmetry == Permutations(Turns)
=============================================================================
