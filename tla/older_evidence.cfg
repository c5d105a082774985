SPECIFICATION Spec
CONSTANTS
  NoValue = NoValue
  Turns = {t}
  AttemptLimit = 2
  ResolutionLimit = 2
  MaxClock = 3
  Vocabularies <- MCVocabularies
  Extractions <- MCExtractions
  Edits <- MCEdits
  ActiveFields <- MCActive
INVARIANT OlderEvidenceNeverWins
CHECK_DEADLOCK FALSE
