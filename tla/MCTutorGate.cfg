CONSTANTS
  NoDraft = NoDraft
  NoCritique = NoCritique
  NoResponse = NoResponse
  NoSignals = NoSignals
SPECIFICATION FairSpec
INVARIANTS ShownDraftIsClean DegradedIsStaticallyClean SignalsNameTheGate
PROPERTIES TurnEnds
