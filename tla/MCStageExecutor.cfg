CONSTANTS
  Stages = {"a", "b", "c"}
  Unregistered = {"ghost"}
SPECIFICATION FairSpec
INVARIANTS VerdictIsExact
PROPERTIES Terminates TopologicalRefinement
