SPECIFICATION TurnSpec
CONSTANTS
  Turns = {a}
  NoTurn = NoTurn
  AttemptLimit = 1
  MaxEvents = 1
  MaxFaults = 1
  c = c
  Codes = {c}
  Concerns <- SomeConcerns
INVARIANT CompletedExactlyOnce
CHECK_DEADLOCK FALSE
