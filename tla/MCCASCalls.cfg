SPECIFICATION CallsSpec
CONSTANTS
  Values <- MCValues
  Numbers <- MCNumbers
  Calls = {c1, c2, c3}
  Slow = {c1}
  MaxWorkers = 2
  Texts <- MCTexts
  Authored <- MCAuthored
  Findings <- MCFindings
  Claims <- MCClaims
CHECK_DEADLOCK FALSE
INVARIANTS
  ConfirmedIsComputed
PROPERTIES
  CallsReturn
