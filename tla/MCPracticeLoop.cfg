SPECIFICATION Spec
CONSTANTS
  Values <- MCValues
  Unreadable = Unreadable
  Topics <- MCTopics
  Templates <- MCTemplates
  DefaultTemplate = "power"
  NoTemplate = NoTemplate
  TemplateFor <- MCTemplateFor
  LLMVariant = "LLM-VARIANT"
  MaxAuthorAttempts = 2
  MaxResampleAttempts = 2
  MinResponses = 1
  NoItem = NoItem
  Catalog <- MCCatalog
  NoMisconception = NoMisconception
  NamedError <- MCNamedError
  WrongAnswers <- MCWrongAnswers
  Confidences <- MCConfidences
  NotANumber = NotANumber
  Tasks <- MCTasks
  TypedWork <- MCTypedWork
  Photos <- MCPhotos
  Candidates <- Candidate
  Named <- MCNamed
  Reviewers = {r1, r2}
  NoEntry = NoEntry
  NoPhoto = NoPhoto
  MaxTurns = 2
  known = known
  other = other
  MaxLines = 2
  MaxPhotoLines = 2
CHECK_DEADLOCK FALSE
INVARIANTS
  HighIsSupported
  GradedPhotoIsWellRead
  RightPlainAnswerIsAwarded
  DiagnosisIsWarranted
  PendingMeansUnreviewed
  ErasedStaysErased
  ServedItemIsSound
PROPERTIES
  DoubtfulIsQueued
  TurnsEnd
