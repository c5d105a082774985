SPECIFICATION TurnSpec
CONSTANTS
  Turns = {a}
  NoTurn = NoTurn
  AttemptLimit = 1
  MaxEvents = 4
  MaxFaults = 0
  c = c
  Codes = {c}
  Concerns <- SomeConcerns
INVARIANT AppendsSerialized
CHECK_DEADLOCK FALSE
