CONSTANTS
  Sessions = {s1}
  Problems = {p1, p2}
  NoProblem = NoProblem
  Turns = {t1}
  NoRow = NoRow
  NoTurn = NoTurn
  SerialClient = TRUE
  Intents = {"solve_request", "check_work", "exam_prep", "ia_ee_help"}
  MaxAsks = 7
SPECIFICATION Spec
PROPERTIES LadderRefinement
