SPECIFICATION FairTurnSpec
CONSTANTS
  Turns = {a, b}
  NoTurn = NoTurn
  AttemptLimit = 2
  MaxEvents = 2
  MaxFaults = 1
  c = c
  Codes = {c}
  Concerns <- SomeConcerns
INVARIANTS
  ErrorPairedWithCompletion
  DeadTurnHadNoEffects
  OneCompletionUnlessCommitLost
  NeverStuckRunning
  PendingRequestIsLatest
PROPERTIES
  NothingAfterSettlement
  SafetyOnlyRises
  JobIsDurable
  EveryTurnCompletes
CHECK_DEADLOCK FALSE
