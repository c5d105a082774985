-------------------------- MODULE MCDiagnosticTurn --------------------------
EXTENDS DiagnosticTurn, TLC

CONSTANT c

\* An advisory block, a graver concern without one, and a blocking one.
SomeConcerns ==
  {[code |-> c, severity |-> "caution", blocks |-> TRUE],
   [code |-> c, severity |-> "warning", blocks |-> FALSE],
   [code |-> c, severity |-> "blocking", blocks |-> TRUE]}

\* Turns are interchangeable; their names are compared for equality only.
TurnSymmetry == Permutations(Turns)
=============================================================================
