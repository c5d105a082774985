---------------------------- MODULE EventDelivery ----------------------------
(***************************************************************************)
(* What the event stream of a repair session promises its client: from the *)
(* sequence it starts after, every committed event, each once, in order.   *)
(***************************************************************************)
EXTENDS Integers, Sequences

CONSTANT Readers

VARIABLES
  published,  \* events committed so far
  start,      \* the sequence each reader starts after
  got         \* the sequences each reader was handed

deliveryVars == <<published, start, got>>

DeliveryInit ==
  /\ published = 0
  /\ start \in [Readers -> Nat]
  /\ got = [r \in Readers |-> <<>>]

Publish ==
  /\ published' \in Nat
  /\ published' > published
  /\ UNCHANGED <<start, got>>

Deliver(r) ==
  LET next == start[r] + Len(got[r]) + 1
  IN /\ next <= published
     /\ got' = [got EXCEPT ![r] = Append(@, next)]
     /\ UNCHANGED <<published, start>>

DeliveryNext == Publish \/ \E r \in Readers : Deliver(r)

DeliverySpec == DeliveryInit /\ [][DeliveryNext]_deliveryVars
=============================================================================
