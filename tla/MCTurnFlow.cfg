CONSTANTS
  Sessions = {"s1"}
  Problems = {"p1"}
  NoProblem = "no_problem"
  Turns = {t1, t2}
  NoRow = NoRow
  NoTurn = NoTurn
  Requests <- WorkRequests
  Answers <- WorkAnswers
  Marks <- WorkMarks
  TextStages = {}
  MaxFaults = 1
SYMMETRY Symmetry
SPECIFICATION Spec
INVARIANTS AnswersAreRecorded ErrorsLeaveNoGrade UnsureLeavesNoMark
CHECK_DEADLOCK FALSE
