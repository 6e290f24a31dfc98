CONSTANTS
  Projects = {"ia"}
  Turns = {t1}
  TextStages = {"methodology"}
  SerialClient = TRUE
SPECIFICATION Spec
INVARIANTS RefusalsAreDocumented
CHECK_DEADLOCK FALSE
