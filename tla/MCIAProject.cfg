CONSTANTS
  Projects = {"ia"}
  Turns = {t1, t2}
  TextStages = {"methodology", "complete"}
  SerialClient = FALSE
SPECIFICATION FairSpec
INVARIANTS OneEntryPerTurn CoachingIsDisclosed NoHelpWhereClosed CompletionWasClaimed
PROPERTIES ReopenedOnlyByOverlap
CHECK_DEADLOCK FALSE
