CONSTANTS
  Sessions = {"s1"}
  Problems = {"p1"}
  NoProblem = "no_problem"
  Turns = {t1, t2}
  NoRow = NoRow
  NoTurn = NoTurn
  Requests <- OrderRequests
  Answers <- OrderAnswers
  Marks <- OrderMarks
  TextStages = {"complete"}
  MaxFaults = 1
SPECIFICATION FairSpec
PROPERTIES LadderOfTurns ProjectOfTurns WaitingAreAnswered
CHECK_DEADLOCK FALSE
