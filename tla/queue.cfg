SPECIFICATION FairQueueSpec
CONSTANTS
  Jobs = {j}
  DiagnosticJobs = {j}
  Publishers = {p, q}
  NoClaim = NoClaim
  AttemptLimit = 2
  Workers = {v, w}
  MaxFaults = 1
INVARIANTS
  RowConstraints
  EffectsNeverReplayed
  OutcomeMatchesCompletion
  NoStrandedJob
  ReservedAlone
  SettledMeansCompleted
PROPERTIES
  TriggerAccepts
  ImplementsDurableJob
  EventuallySettled
  EventuallyForgotten
CHECK_DEADLOCK FALSE
