----------------------------- MODULE DurableJob -----------------------------
(***************************************************************************)
(* What a durable job promises its producer, whatever the brokers,         *)
(* publishers and workers do: it is accepted once, started at most a       *)
(* limited number of times and one start at a time, settled once and only  *)
(* then forgotten.  A start may reserve the job's external effects; from   *)
(* then on the job is never started again.                                 *)
(***************************************************************************)
EXTENDS Integers

CONSTANTS Jobs, AttemptLimit

VARIABLES
  phase,     \* unknown, accepted, executing, settled or forgotten
  starts,    \* how often the job was started
  reserved   \* the start that reserved the external effects, 0 for none

durableVars == <<phase, starts, reserved>>

Init ==
  /\ phase = [j \in Jobs |-> "unknown"]
  /\ starts = [j \in Jobs |-> 0]
  /\ reserved = [j \in Jobs |-> 0]

Accept(j) ==
  /\ phase[j] = "unknown"
  /\ phase' = [phase EXCEPT ![j] = "accepted"]
  /\ UNCHANGED <<starts, reserved>>

Start(j) ==
  /\ phase[j] = "accepted"
  /\ reserved[j] = 0
  /\ starts[j] < AttemptLimit
  /\ phase' = [phase EXCEPT ![j] = "executing"]
  /\ starts' = [starts EXCEPT ![j] = @ + 1]
  /\ UNCHANGED reserved

Reserve(j) ==
  /\ phase[j] = "executing"
  /\ reserved[j] = 0
  /\ reserved' = [reserved EXCEPT ![j] = starts[j]]
  /\ UNCHANGED <<phase, starts>>

\* The start is given up and another one may follow.
Retry(j) ==
  /\ phase[j] = "executing"
  /\ reserved[j] = 0
  /\ starts[j] < AttemptLimit
  /\ phase' = [phase EXCEPT ![j] = "accepted"]
  /\ UNCHANGED <<starts, reserved>>

\* A job that was never startable is settled without having executed.
Settle(j) ==
  /\ phase[j] \in {"accepted", "executing"}
  /\ phase' = [phase EXCEPT ![j] = "settled"]
  /\ UNCHANGED <<starts, reserved>>

Forget(j) ==
  /\ phase[j] = "settled"
  /\ phase' = [phase EXCEPT ![j] = "forgotten"]
  /\ UNCHANGED <<starts, reserved>>

Next ==
  \E j \in Jobs :
    \/ Accept(j) \/ Start(j) \/ Reserve(j)
    \/ Retry(j) \/ Settle(j) \/ Forget(j)

Spec == Init /\ [][Next]_durableVars
=============================================================================
