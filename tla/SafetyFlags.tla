----------------------------- MODULE SafetyFlags -----------------------------
(***************************************************************************)
(* The active safety flags of a repair session: what services/safety.py    *)
(* accepts of the flags an agent proposes, how it merges them with the     *)
(* flags of the session, what safety state follows and whether the change  *)
(* is announced.                                                           *)
(*                                                                         *)
(* A flag of another phase than "diagnostic" is refused, so a code alone   *)
(* identifies an active flag and the active flags are one level per code.  *)
(* Messages are left out.                                                  *)
(***************************************************************************)
EXTENDS Integers

CONSTANT Codes  \* DIAGNOSTIC_V1_SAFETY_CODES

Severity == {"info", "caution", "warning", "blocking"}

\* "none" is a code without an active flag.
Rank == [s \in Severity \cup {"none"} |->
           CASE s = "none" -> 0 [] s = "info" -> 1 [] s = "caution" -> 2
             [] s = "warning" -> 3 [] s = "blocking" -> 4]

Level == [severity : Severity \cup {"none"}, blocks : BOOLEAN]
Flag == [code : Codes, severity : Severity, blocks : BOOLEAN]

NoFlags == [c \in Codes |-> [severity |-> "none", blocks |-> FALSE]]

\* A blocking flag that does not block repair instructions is a policy
\* violation.
Acceptable(f) == f \in Flag /\ (f.severity = "blocking" => f.blocks)

\* One report may not name a code at two severities.
Consistent(F) ==
  /\ \A f \in F : Acceptable(f)
  /\ \A f, g \in F : f.code = g.code => f.severity = g.severity

Instances(active, F, c) ==
  {active[c]} \cup {[severity |-> f.severity, blocks |-> f.blocks] :
                      f \in {g \in F : g.code = c}}

Highest(levels) ==
  CHOOSE l \in levels : \A m \in levels : Rank[m.severity] <= Rank[l.severity]

\* Faulty: the flag seen last replaces the one before it.
MergedLast(active, F) ==
  [c \in Codes |->
     IF \E f \in F : f.code = c
     THEN LET f == CHOOSE g \in F : g.code = c
          IN [severity |-> f.severity, blocks |-> f.blocks]
     ELSE active[c]]

\* _deduplicate_active_flags: the highest severity of a code stays, with the
\* block that any instance of that severity asks for.  A block of a lesser
\* instance is dropped.
Merged(active, F) ==
  [c \in Codes |->
     LET levels == Instances(active, F, c)
         severity == Highest(levels).severity
     IN [severity |-> severity,
         blocks |-> \E l \in levels : l.severity = severity /\ l.blocks]]

SafetyState(active) ==
  CASE \E c \in Codes : active[c].severity = "blocking" -> "blocked"
    [] /\ \A c \in Codes : active[c].severity # "blocking"
       /\ \E c \in Codes : active[c].severity = "warning" -> "shop_recommended"
    [] /\ \A c \in Codes : active[c].severity \notin {"blocking", "warning"}
       /\ \E c \in Codes : active[c].severity = "caution" -> "caution"
    [] OTHER -> "ok"

\* _should_emit_safety_escalated
Escalates(previous, active) ==
  \/ SafetyState(previous) # SafetyState(active)
  \/ \E c \in Codes :
       \/ Rank[active[c].severity] > Rank[previous[c].severity]
       \/ /\ active[c].severity \in {"warning", "blocking"}
          /\ active[c].blocks
          /\ ~previous[c].blocks

\* Whether repair guidance is blocked, as the orchestrator reads a tool's
\* answer: an advisory block of a caution counts.
BlocksGuidance(active) ==
  \/ SafetyState(active) = "blocked"
  \/ \E c \in Codes : active[c].blocks
=============================================================================
