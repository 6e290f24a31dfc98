CONSTANTS
  Turns = {t1, t2}
  Jobs = {j1}
  Works <- MCWorks
  MaxErasures = 1
SYMMETRY Symmetry
SPECIFICATION Spec
INVARIANTS ErasedReturnsOnlyByOverlap ExportShowsDelivered
CHECK_DEADLOCK FALSE
