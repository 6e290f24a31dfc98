CONSTANTS
  Sessions = {s1}
  Problems = {p1}
  NoProblem = NoProblem
  Turns = {t1, t2}
  NoRow = NoRow
  NoTurn = NoTurn
  SerialClient = FALSE
  Intents = {"solve_request", "concept_explain"}
  MaxAsks = 6
SYMMETRY Symmetry
SPECIFICATION Spec
INVARIANTS LadderEarned HintIsNextRung AttemptsJustified
