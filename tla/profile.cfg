SPECIFICATION Spec
CONSTANTS
  NoValue = NoValue
  Turns = {t}
  AttemptLimit = 2
  ResolutionLimit = 2
  MaxClock = 3
  Vocabularies <- MCVocabularies
  Extractions <- MCExtractions
  Edits <- MCEdits
  ActiveFields <- MCActive
INVARIANTS
  EvidenceIffCompleted
  RunEndsWithJob
  OneAppliedClaim
  NothingRefillsAClear
  AgentIsToldOfDisputes
PROPERTIES
  RevisionCoversChange
CHECK_DEADLOCK FALSE
