------------------------------ MODULE JobQueue ------------------------------
(***************************************************************************)
(* The durable queue: the job table together with everything that carries  *)
(* hints about it.  Publication tasks (maintenance/runtime.py) copy the    *)
(* row's notification intent to a broker, the broker delivers it at least  *)
(* once or loses it, pull workers (workers/runtime.py) resolve deliveries  *)
(* against the row and execute them, and reconciliation, reconstruction    *)
(* and cleanup repair what the others left behind.                         *)
(*                                                                         *)
(* Every step on the table is an action of BackgroundJobs; this module     *)
(* adds what its callers remember between two transactions.  A fault (a    *)
(* crash, a loss, a timeout, an operator's intervention, a clock that      *)
(* outruns healthy work) draws on a budget, so that a behaviour has        *)
(* finitely many of them.                                                  *)
(***************************************************************************)
EXTENDS BackgroundJobs

CONSTANTS
  Workers,   \* delivery tasks of the worker processes
  MaxFaults  \* budget of faults

ASSUME QueueAssumption == MaxFaults \in Nat

VARIABLES
  stream,    \* wake-ups the broker stores: [job, gen]
  accepted,  \* wake-ups the broker ever acknowledged or stored
  lost,      \* wake-ups it dropped unacknowledged
  pub,       \* what each publication task holds
  worker,    \* what each delivery task holds
  faults     \* faults so far

broker == <<stream, accepted, lost>>
queueVars == <<jobVars, broker, pub, worker, faults>>

Idle == [phase |-> "idle"]

QueueInit ==
  /\ Init
  /\ stream = {} /\ accepted = {} /\ lost = {}
  /\ pub = [p \in Publishers |-> Idle]
  /\ worker = [w \in Workers |-> Idle]
  /\ faults = 0

Fault ==
  /\ faults < MaxFaults
  /\ faults' = faults + 1

Wakeup(holder) == [job |-> holder.job, gen |-> holder.gen]

\* The wake-up that would start job j.
Wanted(j) == [job |-> j, gen |-> desired[j]]

-----------------------------------------------------------------------------
(* Publication tasks: claim, publish outside any transaction, then confirm  *)
(* or fail the claim in a second one.                                       *)

ClaimIntent(p) ==
  /\ pub[p] = Idle
  /\ \E j \in Jobs :
       /\ ClaimPublication(j, p)
       /\ pub' = [pub EXCEPT ![p] = [phase |-> "publishing", job |-> j,
                                     gen |-> desired[j]]]
  /\ UNCHANGED <<broker, worker, faults>>

Publish(p) ==
  /\ pub[p].phase = "publishing"
  /\ LET m == Wakeup(pub[p])
     IN \/ /\ stream' = stream \cup {m}
           /\ accepted' = accepted \cup {m}
        \/ /\ m \in accepted \ stream \* the message id is in the broker's
           /\ UNCHANGED <<stream, accepted>> \* duplicate window
  /\ pub' = [pub EXCEPT ![p].phase = "acked"]
  /\ UNCHANGED <<jobVars, lost, worker, faults>>

\* Refused or timed out; a timed out message may have been stored all the same.
PublishFails(p) ==
  /\ pub[p].phase = "publishing"
  /\ Fault
  /\ \E stored \in SUBSET {Wakeup(pub[p])} :
       /\ stream' = stream \cup stored
       /\ accepted' = accepted \cup stored
  /\ pub' = [pub EXCEPT ![p].phase = "refused"]
  /\ UNCHANGED <<jobVars, lost, worker>>

\* The second transaction; it changes nothing when the claim no longer matches.
Conclude(p) ==
  /\ pub[p].phase \in {"acked", "refused"}
  /\ LET j == pub[p].job
         g == pub[p].gen
     IN IF ~MatchesPublication(j, p, g) THEN UNCHANGED jobVars
        ELSE IF pub[p].phase = "acked" THEN ConfirmPublication(j, p, g)
        ELSE FailPublication(j, p, g)
  /\ pub' = [pub EXCEPT ![p] = Idle]
  /\ UNCHANGED <<broker, worker, faults>>

\* Shutdown, crash or a failed transaction: the durable claim stays behind.
AbandonPublication(p) ==
  /\ pub[p] # Idle
  /\ Fault
  /\ pub' = [pub EXCEPT ![p] = Idle]
  /\ UNCHANGED <<jobVars, broker, worker>>

-----------------------------------------------------------------------------
(* The broker redelivers whatever is not acknowledged, and may drop it: the *)
(* age limit, the delivery limit, a lost volume.                            *)

Fetch(w) ==
  /\ worker[w] = Idle
  /\ \E m \in stream :
       worker' = [worker EXCEPT ![w] = [phase |-> "resolving", job |-> m.job,
                                        gen |-> m.gen, token |-> 0]]
  /\ UNCHANGED <<jobVars, broker, pub, faults>>

Lose(m) ==
  /\ Fault
  /\ stream' = stream \ {m}
  /\ lost' = lost \cup {m}
  /\ UNCHANGED <<jobVars, accepted, pub, worker>>

-----------------------------------------------------------------------------
(* Delivery tasks. *)

\* Faulty: an early delivery is taken for a duplicate.
ClassifiedEarly(j, g) ==
  IF state[j] \notin Live \/ g > desired[j] THEN "terminate"
  ELSE IF state[j] # "running" THEN "ack" ELSE "nak"

\* How a delivery is settled that changes nothing in the row.
Classified(j, g) ==
  IF state[j] \notin Live \/ g > desired[j] THEN "terminate"
  ELSE IF state[j] \in Terminal \/ g < desired[j] THEN "ack"
  ELSE "nak" \* early, running, or waiting for recovery

Resolve(w) ==
  /\ worker[w].phase = "resolving"
  /\ LET j == worker[w].job
         g == worker[w].gen
     IN \/ /\ ResolveExecutable(j, g)
           /\ worker' = [worker EXCEPT ![w].phase = "executing",
                                       ![w].token = attemptCount[j] + 1]
        \/ /\ ResolveDead(j, g, TRUE)
           /\ worker' = [worker EXCEPT ![w].phase = "terminate"]
        \/ /\ Deliverable(j, g) => ~eligible[j]
           /\ worker' = [worker EXCEPT ![w].phase = Classified(j, g)]
           /\ UNCHANGED jobVars
  /\ UNCHANGED <<broker, pub, faults>>

\* A prepared diagnostic execution reserves its effects before it runs.
Reserve(w) ==
  /\ worker[w].phase = "executing"
  /\ CrossBoundary(worker[w].job, worker[w].token)
  /\ worker' = [worker EXCEPT ![w].phase = "reserved"]
  /\ UNCHANGED <<broker, pub, faults>>

\* Orchestration commits turn.completed through the fenced product session.
Complete(w) ==
  /\ worker[w].phase = "reserved"
  /\ CompleteTurn(worker[w].job, worker[w].token)
  /\ worker' = [worker EXCEPT ![w].phase = "completed"]
  /\ UNCHANGED <<broker, pub, faults>>

\* The fence refuses an expired or replaced execution: the delivery stays
\* unsettled and recovery owns the job.
FencedOut(w) ==
  /\ \/ worker[w].phase = "executing"
     \/ worker[w].phase = "reserved"
  /\ worker[w].job \in DiagnosticJobs
  /\ ~Current(worker[w].job, worker[w].token)
  /\ worker' = [worker EXCEPT ![w] = Idle]
  /\ UNCHANGED <<jobVars, broker, pub, faults>>

\* What a handler may report: a diagnostic one succeeds only after its turn
\* was completed, a failure it cannot classify is "dead", and a preparation
\* failure or the handler timeout is "retrying", whatever was reserved.
Reports(w) ==
  IF worker[w].phase = "completed" \/ worker[w].job \notin DiagnosticJobs
  THEN {"succeeded", "retrying", "dead"}
  ELSE {"retrying", "dead"}

Report(w) ==
  /\ worker[w].phase \in {"executing", "reserved", "completed"}
  /\ LET j == worker[w].job
         t == worker[w].token
     IN \E outcome \in Reports(w) :
          IF Current(j, t) /\ (outcome = "retrying" => effectBoundary[j] = 0)
          THEN /\ ApplyOutcome(j, t, outcome)
               /\ worker' = [worker EXCEPT
                    ![w].phase = IF state'[j] = "retrying" THEN "nak"
                                 ELSE "ack"]
          ELSE /\ worker' = [worker EXCEPT ![w] = Idle]
               /\ UNCHANGED jobVars
  /\ UNCHANGED <<broker, pub, faults>>

\* A negative acknowledgement only delays the redelivery.
Settle(w) ==
  /\ worker[w].phase \in {"ack", "nak", "terminate"}
  /\ stream' = IF worker[w].phase = "nak" THEN stream
               ELSE stream \ {Wakeup(worker[w])}
  /\ worker' = [worker EXCEPT ![w] = Idle]
  /\ UNCHANGED <<jobVars, accepted, lost, pub, faults>>

\* A crash, a cancellation, a commit whose answer never arrived or a lost
\* acknowledgement: whatever was committed stays, the delivery is unsettled.
AbandonDelivery(w) ==
  /\ worker[w] # Idle
  /\ Fault
  /\ worker' = [worker EXCEPT ![w] = Idle]
  /\ UNCHANGED <<jobVars, broker, pub>>

-----------------------------------------------------------------------------
(* Maintenance. *)

\* The recovery policies of both workloads; a profile job never crosses.
ExpiredOutcome(j) ==
  IF effectBoundary[j] # 0 THEN "interrupted"
  ELSE IF attemptCount[j] >= AttemptLimit THEN "dead"
  ELSE "retrying"

Recover(j) ==
  /\ RecoverExpired(j, executionToken[j], ExpiredOutcome(j))
  /\ UNCHANGED <<broker, pub, worker, faults>>

RepairNotification(j) ==
  /\ AdvancePublication(j, desired[j], TRUE)
  /\ UNCHANGED <<broker, pub, worker, faults>>

\* An operator restores the topology and walks the table once.
Reconstruct(j) ==
  /\ Fault
  /\ AdvancePublication(j, desired[j], FALSE)
  /\ UNCHANGED <<broker, pub, worker>>

Cleanup(j) ==
  /\ DeleteRetained(j)
  /\ UNCHANGED <<broker, pub, worker, faults>>

-----------------------------------------------------------------------------
(* The clock.  The retention horizon exceeds the age limit of the stream    *)
(* and the publish timeout, so that a settled row outlives its wake-ups.    *)

Stranded(j) == desired[j] = confirmed[j] /\ Wanted(j) \notin stream

Publishing(j) ==
  \E p \in Publishers : pub[p] # Idle /\ pub[p].job = j

Held(j) ==
  /\ claimToken[j] # NoClaim
  /\ pub[claimToken[j]] # Idle
  /\ pub[claimToken[j]].job = j

HorizonReached(j) ==
  /\ HorizonPasses(j)
  /\ state[j] # "running" \* any later use of a running row's age is reset
  /\ state[j] \in Terminal => ~Publishing(j) /\ \A m \in stream : m.job # j
  /\ IF state[j] \in Terminal \/ Stranded(j) THEN UNCHANGED faults ELSE Fault
  /\ UNCHANGED <<broker, pub, worker>>

LeaseLapses(j) ==
  /\ ClaimLapses(j)
  /\ IF Held(j) THEN Fault ELSE UNCHANGED faults
  /\ UNCHANGED <<broker, pub, worker>>

InstantPasses(j) ==
  /\ BecomeEligible(j) \/ DeadlinePasses(j) \/ PublicationBecomesDue(j)
  /\ UNCHANGED <<broker, pub, worker, faults>>

-----------------------------------------------------------------------------

Accept(j) == Record(j) /\ UNCHANGED <<broker, pub, worker, faults>>

PublisherStep(p) == ClaimIntent(p) \/ Publish(p) \/ Conclude(p)

WorkerStep(w) ==
  \/ Fetch(w) \/ Resolve(w) \/ Reserve(w) \/ Complete(w)
  \/ FencedOut(w) \/ Report(w) \/ Settle(w)

ClockStep(j) == HorizonReached(j) \/ LeaseLapses(j) \/ InstantPasses(j)

QueueNext ==
  \/ \E j \in Jobs :
       \/ Accept(j) \/ Recover(j) \/ RepairNotification(j)
       \/ Reconstruct(j) \/ Cleanup(j) \/ ClockStep(j)
  \/ \E p \in Publishers :
       PublisherStep(p) \/ PublishFails(p) \/ AbandonPublication(p)
  \/ \E w \in Workers : WorkerStep(w) \/ AbandonDelivery(w)
  \/ \E m \in stream : Lose(m)

QueueSpec == QueueInit /\ [][QueueNext]_queueVars

\* The polling loops and the workers keep running and clocks advance; nothing
\* forces a fault, and nothing forces a producer.
Fairness ==
  /\ \A p \in Publishers : WF_queueVars(PublisherStep(p))
  /\ \A w \in Workers : WF_queueVars(WorkerStep(w))
  /\ \A j \in Jobs :
       /\ WF_queueVars(Recover(j))
       /\ WF_queueVars(RepairNotification(j))
       /\ WF_queueVars(Cleanup(j))
       /\ WF_queueVars(HorizonReached(j))
       /\ WF_queueVars(LeaseLapses(j))
       /\ WF_queueVars(InstantPasses(j))

FairQueueSpec == QueueSpec /\ Fairness

-----------------------------------------------------------------------------
(* Properties. *)

\* A job that waits to run always has its wake-up owed by the row or stored
\* by the broker, unless the broker itself dropped it: no acknowledgement,
\* crash, lapsed claim or stale delivery consumes the last wake-up.
NoStrandedJob ==
  \A j \in Jobs :
    state[j] \in Waiting =>
      desired[j] > confirmed[j] \/ Wanted(j) \in stream \cup lost

\* At most one execution ever runs a job's external effects, and it is the one
\* the row's boundary names, however late, redelivered or abandoned the others.
ReservedAlone ==
  \A w \in Workers :
    worker[w].phase \in {"reserved", "completed"} =>
      /\ effectBoundary[worker[w].job] = worker[w].token
      /\ \A v \in Workers \ {w} :
           worker[v].phase \in {"executing", "reserved", "completed"} =>
             \/ worker[v].job # worker[w].job
             \/ worker[v].phase = "executing" /\ worker[v].token < worker[w].token

\* A diagnostic job is never settled with its turn left open, so the session
\* that waits for turn.completed is never left waiting for it.
SettledMeansCompleted ==
  \A j \in DiagnosticJobs :
    state[j] \in Terminal => completion[j] # "none"

\* Every accepted job is settled, and its row is eventually removed.
EventuallySettled ==
  \A j \in Jobs : state[j] = "queued" ~> state[j] \in Terminal \cup {"deleted"}

EventuallyForgotten ==
  \A j \in Jobs : state[j] \in Terminal ~> state[j] = "deleted"
=============================================================================
