CONSTANTS
  Turns = {t1, t2}
  Topics = {"calculus"}
  NoTopic = NoTopic
  Misconceptions = {"chain_rule", "sign_error"}
  NoMisconception = NoMisconception
  Grades <- MCGrades
  NoRow = NoRow
  MaxActive = 1
  MaxFailures = 1
  MaxBackground = 1
SYMMETRY Symmetry
SPECIFICATION Spec
INVARIANTS TypeOK RecordsAreEarned ExactWhenAlone AppendsAreKept FirstDiagnosisSurfaces
CHECK_DEADLOCK FALSE
