------------------------- MODULE MCDiagnosticAgent -------------------------
(* DiagnosticAgent with callers of the recovery that are interchangeable. *)
EXTENDS DiagnosticAgent, TLC

RecoverySymmetry == Permutations(Recoveries)
=============================================================================
