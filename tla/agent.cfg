SPECIFICATION AgentSpec
CONSTANTS
  Turns = {1, 2}
  Photos = {x}
  Modes = {"off", "pixels_only", "shadow", "enabled"}
  Recoveries = {r, s}
  MaxText = 2
SYMMETRY RecoverySymmetry
INVARIANTS
  OneCallAtATime
  EveryCallRecorded
  MessageIsWholeText
PROPERTIES
  AmbiguousCallNotRepeated
  RedactedReachesNoOther
CHECK_DEADLOCK FALSE
