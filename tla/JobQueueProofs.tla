--------------------------- MODULE JobQueueProofs ---------------------------
(***************************************************************************)
(* What the durable queue guarantees for any number of jobs, publishers    *)
(* and workers and any number of faults: every step of the queue is a      *)
(* transaction the job table accepts, so that the queue inherits what      *)
(* BackgroundJobsProofs proves of the table under arbitrary callers, and   *)
(* the safety properties that relate the row to the broker and to the      *)
(* executions hold.  The proofs are about QueueSpec, without fairness.     *)
(***************************************************************************)
EXTENDS JobQueue, BackgroundJobsProofs, TLAPS

-----------------------------------------------------------------------------
(* The inductive invariant of the queue: that of the table and, for every  *)
(* hint that is in flight, why the row justifies it.                       *)

Wakeups == [job : Jobs, gen : Nat]

Publication ==
  [phase : {"publishing", "acked", "refused"}, job : Jobs, gen : Nat]

Active == {"executing", "reserved", "completed"}

Phases == Active \cup {"resolving", "ack", "nak", "terminate"}

Delivery == [phase : Phases, job : Jobs, gen : Nat, token : Nat]

HintsTyped ==
  /\ stream \subseteq accepted
  /\ accepted \subseteq Wakeups
  /\ pub \in [Publishers -> {Idle} \cup Publication]
  /\ worker \in [Workers -> {Idle} \cup Delivery]

Unsettled == Waiting \cup {"running"}
Over == Terminal \cup {"deleted"}

\* A hint names a generation that its row, once recorded, has reached.
Reached(m) ==
  /\ m.gen >= 1 /\ m.gen <= desired[m.job]
  /\ state[m.job] # "absent"

AcceptedReached == \A m \in accepted : Reached(m)

\* A publication task holds such a hint, accepted if the broker said so.
Publishes(p) ==
  pub[p] # Idle =>
    /\ Reached(pub[p])
    /\ pub[p].phase = "acked" => Wakeup(pub[p]) \in accepted

\* A delivery task holds such a hint; it settles one no execution needs any
\* more, and it executes as one of the attempts the row counted.
Delivers(w) ==
  worker[w] # Idle =>
    LET j == worker[w].job
        t == worker[w].token
    IN /\ Reached(worker[w])
       /\ worker[w].phase \in {"ack", "terminate"} =>
            state[j] \in Over \/ worker[w].gen < desired[j]
       /\ worker[w].phase \in Active => t >= 1 /\ t <= attemptCount[j]
       /\ worker[w].phase \in {"reserved", "completed"} => effectBoundary[j] = t
       /\ worker[w].phase = "completed" => completion[j] # "none"

\* No two executions are the same attempt of a job.
Apart(v, w) ==
  /\ worker[v].phase \in Active
  /\ worker[w].phase \in Active
  /\ worker[v].job = worker[w].job
  => worker[v].token # worker[w].token

\* The boundary names the last attempt.
Latest(j) == effectBoundary[j] # 0 => effectBoundary[j] = attemptCount[j]

\* What the row says was published, the broker accepted.
Confirms(j) ==
  confirmed[j] # 0 => [job |-> j, gen |-> confirmed[j]] \in accepted

\* The broker keeps or lost the wake-up it accepted and the row still wants.
Kept(j) ==
  /\ state[j] \in Unsettled
  /\ Wanted(j) \in accepted
  => Wanted(j) \in stream \cup lost

\* A diagnostic job has succeeded only if its turn was completed.
Succeeds(j) ==
  j \in DiagnosticJobs /\ state[j] = "succeeded" => completion[j] # "none"

RowHints(j) == Latest(j) /\ Confirms(j) /\ Kept(j) /\ Succeeds(j)

Holders ==
  /\ \A p \in Publishers : Publishes(p)
  /\ \A w \in Workers : Delivers(w)
  /\ \A v, w \in Workers : v # w => Apart(v, w)

QueueIInv ==
  /\ IInv
  /\ HintsTyped
  /\ AcceptedReached
  /\ Holders
  /\ \A j \in Jobs : RowHints(j)

-----------------------------------------------------------------------------
(* Every step of the queue is a step the table accepts. *)

\* The execution a running row is current for is one of its attempts.
LEMMA CurrentToken ==
  ASSUME IInv, NEW j \in Jobs, NEW t, state[j] = "running", executionToken[j] = t
  PROVE  t \in 1..AttemptLimit /\ t = attemptCount[j]
BY ConstantsAssumption DEF IInv, TypeOK, Consistent, Owned

\* What producers, maintenance and the clock do is a step of one row.
LEMMA RowActionsRefine ==
  ASSUME IInv, NEW j \in Jobs,
         \/ Accept(j) \/ Recover(j) \/ RepairNotification(j)
         \/ Reconstruct(j) \/ Cleanup(j) \/ ClockStep(j)
  PROVE  RowStep(j)
<1>1. CASE Accept(j) \/ Cleanup(j)
  BY <1>1 DEF Accept, Cleanup, RowStep
<1>2. CASE Recover(j)
  <2>1. executionToken[j] \in 1..AttemptLimit
    BY <1>2, CurrentToken DEF Recover, RecoverExpired
  <2>2. ExpiredOutcome(j) \in Outcomes
    BY DEF ExpiredOutcome, Outcomes
  <2> QED
    BY <1>2, <2>1, <2>2 DEF Recover, RowStep
<1>3. CASE RepairNotification(j) \/ Reconstruct(j)
  <2>1. PICK horizon \in BOOLEAN : AdvancePublication(j, desired[j], horizon)
    BY <1>3 DEF RepairNotification, Reconstruct
  <2>2. desired[j] \in 1..desired[j]
    BY <2>1 DEF AdvancePublication, Live, IInv, TypeOK, Consistent, Published
  <2> QED
    BY <2>1, <2>2 DEF RowStep
<1>4. CASE ClockStep(j)
  BY <1>4 DEF ClockStep, HorizonReached, LeaseLapses, InstantPasses, RowStep,
       TimePasses
<1> QED
  BY <1>1, <1>2, <1>3, <1>4

\* What a publication task does to the table is a step of the row it claimed.
LEMMA PublisherRefines ==
  ASSUME IInv, HintsTyped, NEW p \in Publishers, Publishes(p),
         PublisherStep(p) \/ PublishFails(p) \/ AbandonPublication(p)
  PROVE  [Next]_jobVars
<1>1. CASE ClaimIntent(p)
  BY <1>1 DEF ClaimIntent, Next, RowStep
<1>2. CASE Conclude(p)
  <2>1. pub[p] # Idle /\ pub[p].job \in Jobs
    BY <1>2 DEF Conclude, Idle, HintsTyped, Publication
  <2>2. pub[p].gen \in 1..desired[pub[p].job]
    BY <2>1 DEF Publishes, Reached, HintsTyped, Publication, IInv, TypeOK
  <2>3. \/ UNCHANGED jobVars
        \/ ConfirmPublication(pub[p].job, p, pub[p].gen)
        \/ FailPublication(pub[p].job, p, pub[p].gen)
    BY <1>2 DEF Conclude
  <2> QED
    BY <2>1, <2>2, <2>3 DEF Next, RowStep
<1>3. CASE Publish(p) \/ PublishFails(p) \/ AbandonPublication(p)
  BY <1>3 DEF Publish, PublishFails, AbandonPublication
<1> QED
  BY <1>1, <1>2, <1>3 DEF PublisherStep

\* What a delivery task does to the table is a step of its job's row.
LEMMA WorkerRefines ==
  ASSUME IInv, HintsTyped, NEW w \in Workers, WorkerStep(w) \/ AbandonDelivery(w)
  PROVE  \/ UNCHANGED jobVars
         \/ worker[w].job \in Jobs /\ RowStep(worker[w].job)
<1> DEFINE j == worker[w].job
           t == worker[w].token
<1>1. worker[w] # Idle => j \in Jobs
  BY DEF HintsTyped, Delivery
<1>2. CASE Resolve(w)
  <2>1. j \in Jobs
    BY <1>1, <1>2 DEF Resolve, Idle
  <2>2. CASE UNCHANGED jobVars
    BY <2>2
  <2>3. CASE ResolveExecutable(j, worker[w].gen)
             \/ ResolveDead(j, worker[w].gen, TRUE)
    <3>1. worker[w].gen = desired[j] /\ state[j] \in Waiting
      BY <2>3 DEF ResolveExecutable, ResolveDead, Deliverable
    <3>2. worker[w].gen \in 1..desired[j]
      BY <2>1, <3>1 DEF Live, IInv, TypeOK, Consistent, Published
    <3> QED
      BY <2>1, <2>3, <3>2 DEF RowStep
  <2> QED
    BY <1>2, <2>2, <2>3 DEF Resolve
<1>3. CASE Reserve(w) \/ Complete(w)
  <2>1. j \in Jobs
    BY <1>1, <1>3 DEF Reserve, Complete, Idle
  <2>2. CrossBoundary(j, t) \/ CompleteTurn(j, t)
    BY <1>3 DEF Reserve, Complete
  <2>3. t \in 1..AttemptLimit
    BY <2>1, <2>2, CurrentToken DEF CrossBoundary, CompleteTurn, Fenced, Current
  <2> QED
    BY <2>1, <2>2, <2>3 DEF RowStep
<1>4. CASE Report(w)
  <2>1. j \in Jobs
    BY <1>1, <1>4 DEF Report, Idle
  <2>2. \/ UNCHANGED jobVars
        \/ \E outcome \in Outcomes : ApplyOutcome(j, t, outcome)
    BY <1>4 DEF Report, Reports, Outcomes
  <2>3. ASSUME NEW outcome \in Outcomes, ApplyOutcome(j, t, outcome)
        PROVE  RowStep(j)
    <3>1. t \in 1..AttemptLimit
      BY <2>1, <2>3, CurrentToken DEF ApplyOutcome, Current
    <3> QED
      BY <2>3, <3>1 DEF RowStep
  <2> QED
    BY <2>1, <2>2, <2>3
<1>5. CASE Fetch(w) \/ FencedOut(w) \/ Settle(w) \/ AbandonDelivery(w)
  BY <1>5 DEF Fetch, FencedOut, Settle, AbandonDelivery
<1> QED
  BY <1>2, <1>3, <1>4, <1>5 DEF WorkerStep

\* So every step of the queue is a step of the table or leaves it alone.
LEMMA QueueRefines ==
  ASSUME QueueIInv, [QueueNext]_queueVars
  PROVE  [Next]_jobVars
<1>1. CASE UNCHANGED queueVars
  BY <1>1 DEF queueVars
<1>2. ASSUME NEW j \in Jobs,
             \/ Accept(j) \/ Recover(j) \/ RepairNotification(j)
             \/ Reconstruct(j) \/ Cleanup(j) \/ ClockStep(j)
      PROVE  [Next]_jobVars
  BY <1>2, RowActionsRefine DEF QueueIInv, Next
<1>3. ASSUME NEW p \in Publishers,
             PublisherStep(p) \/ PublishFails(p) \/ AbandonPublication(p)
      PROVE  [Next]_jobVars
  BY <1>3, PublisherRefines DEF QueueIInv, Holders
<1>4. ASSUME NEW w \in Workers, WorkerStep(w) \/ AbandonDelivery(w)
      PROVE  [Next]_jobVars
  BY <1>4, WorkerRefines DEF QueueIInv, Next
<1>5. ASSUME NEW m \in stream, Lose(m)
      PROVE  [Next]_jobVars
  BY <1>5 DEF Lose
<1> QED
  BY <1>1, <1>2, <1>3, <1>4, <1>5 DEF QueueNext

-----------------------------------------------------------------------------
(* What no step of the table takes back. *)

\* Rows only advance: generations and attempts grow, a boundary and a
\* completion stay, a row that is over stays over, and only the producer
\* brings a row to life.
LEMMA RowsAdvance ==
  ASSUME IInv, [Next]_jobVars, NEW k \in Jobs
  PROVE  /\ desired'[k] >= desired[k]
         /\ attemptCount'[k] >= attemptCount[k]
         /\ effectBoundary[k] # 0 => effectBoundary'[k] = effectBoundary[k]
         /\ completion[k] # "none" => completion'[k] # "none"
         /\ state[k] # "absent" => state'[k] # "absent"
         /\ state[k] \in Over => state'[k] \in Over
         /\ state'[k] \in Unsettled =>
              \/ state[k] \in Unsettled
              \/ state[k] = "absent" /\ confirmed[k] = 0
<1> USE DEF lifecycle, effects, publication, claims
<1>1. TypeOK /\ TypeOK' /\ Consistent(k)
  BY InvariantStep DEF IInv
<1>2. CASE UNCHANGED jobVars
  BY <1>1, <1>2 DEF jobVars, TypeOK
<1>3. ASSUME NEW j \in Jobs, RowStep(j), k # j
      PROVE  /\ desired'[k] = desired[k]
             /\ attemptCount'[k] = attemptCount[k]
             /\ effectBoundary'[k] = effectBoundary[k]
             /\ completion'[k] = completion[k]
             /\ state'[k] = state[k]
  BY <1>1, <1>3, OthersKept
<1>4. ASSUME RowStep(k)
      PROVE  /\ desired'[k] >= desired[k]
             /\ attemptCount'[k] >= attemptCount[k]
             /\ effectBoundary[k] # 0 => effectBoundary'[k] = effectBoundary[k]
    BY <1>4, StepAccepted DEF Accepted
<1>5. ASSUME RowStep(k)
      PROVE  completion[k] # "none" => completion'[k] # "none"
  BY <1>1, <1>5
     DEF RowStep, TypeOK, Record, ClaimPublication, ConfirmPublication,
         FailPublication, ResolveExecutable, ResolveDead, AdvancePublication,
         CrossBoundary, CompleteTurn, ApplyOutcome, RecoverExpired,
         DeleteRetained, TimePasses, BecomeEligible, DeadlinePasses,
         PublicationBecomesDue, ClaimLapses, HorizonPasses, Finish, Terminalize
<1>6. ASSUME RowStep(k)
      PROVE  \/ state'[k] = state[k]
             \/ Record(k)
             \/ state[k] \in Unsettled /\ state'[k] \in Unsettled \cup Terminal
             \/ state[k] \in Terminal /\ state'[k] = "deleted"
  BY <1>1, <1>6
     DEF RowStep, TypeOK, Record, ClaimPublication, ConfirmPublication,
         FailPublication, ResolveExecutable, ResolveDead, AdvancePublication,
         CrossBoundary, CompleteTurn, ApplyOutcome, RecoverExpired,
         DeleteRetained, TimePasses, BecomeEligible, DeadlinePasses,
         PublicationBecomesDue, ClaimLapses, HorizonPasses, Finish, Persisted,
         Requested, Outcomes, Deliverable, Current, Unsettled, Waiting, Terminal
<1>7. ASSUME RowStep(k)
      PROVE  /\ state[k] # "absent" => state'[k] # "absent"
             /\ state[k] \in Over => state'[k] \in Over
             /\ state'[k] \in Unsettled =>
                  \/ state[k] \in Unsettled
                  \/ state[k] = "absent" /\ confirmed[k] = 0
  BY <1>1, <1>6, <1>7
     DEF Record, Over, Unsettled, Waiting, Terminal, TypeOK, Consistent,
         Published
<1> QED
  BY <1>1, <1>2, <1>3, <1>4, <1>5, <1>7 DEF Next, TypeOK, Over, Unsettled,
     Waiting, Terminal

\* A hint that its row has reached stays reached.
LEMMA ReachedKept ==
  ASSUME IInv, [Next]_jobVars, NEW m, m.job \in Jobs, m.gen \in Nat, Reached(m)
  PROVE  Reached(m)'
<1>1. desired[m.job] \in Nat /\ desired'[m.job] \in Nat
  BY InvariantStep DEF IInv, TypeOK
<1> QED
  BY <1>1, RowsAdvance DEF Reached

\* What justifies a delivery that the step does not touch still justifies it.
LEMMA DeliveryKept ==
  ASSUME IInv, HintsTyped, [Next]_jobVars, NEW w \in Workers, Delivers(w),
         worker'[w] = worker[w]
  PROVE  Delivers(w)'
<1> SUFFICES ASSUME worker[w] # Idle PROVE Delivers(w)'
  BY DEF Delivers
<1> DEFINE j == worker[w].job
<1>1. j \in Jobs /\ worker[w].gen \in Nat /\ worker[w].token \in Nat
  BY DEF HintsTyped, Delivery
<1>2. Reached(worker[w])'
  BY <1>1, ReachedKept DEF Delivers, Reached
<1>3. /\ desired[j] \in Nat /\ desired'[j] \in Nat
      /\ attemptCount[j] \in Nat /\ attemptCount'[j] \in Nat
  BY <1>1, InvariantStep DEF IInv, TypeOK
<1>4. /\ desired'[j] >= desired[j] /\ attemptCount'[j] >= attemptCount[j]
      /\ effectBoundary[j] # 0 => effectBoundary'[j] = effectBoundary[j]
      /\ completion[j] # "none" => completion'[j] # "none"
      /\ state[j] \in Over => state'[j] \in Over
  BY <1>1, RowsAdvance
<1>5. ASSUME worker[w].phase \in {"reserved", "completed"}
      PROVE  effectBoundary[j] # 0
  BY <1>1, <1>5 DEF Delivers, Active
<1> QED
  BY <1>1, <1>2, <1>3, <1>4, <1>5 DEF Delivers

\* What justifies a publication that the step does not touch still does.
LEMMA PublicationKept ==
  ASSUME IInv, HintsTyped, [Next]_jobVars, accepted \subseteq accepted',
         NEW p \in Publishers, Publishes(p), pub'[p] = pub[p]
  PROVE  Publishes(p)'
<1> SUFFICES ASSUME pub[p] # Idle PROVE Publishes(p)'
  BY DEF Publishes
<1>1. pub[p].job \in Jobs /\ pub[p].gen \in Nat
  BY DEF HintsTyped, Publication
<1>2. Reached(pub[p])'
  BY <1>1, ReachedKept DEF Publishes, Reached
<1> QED
  BY <1>2 DEF Publishes, Wakeup

\* The boundary names the last attempt: it is crossed by the attempt that runs,
\* and a row whose boundary was crossed is not started again.
LEMMA LatestKept ==
  ASSUME IInv, [Next]_jobVars, NEW k \in Jobs, Latest(k)
  PROVE  Latest(k)'
<1> USE DEF lifecycle, effects, publication, claims
<1>1. TypeOK /\ Consistent(k)
  BY DEF IInv
<1>2. CASE UNCHANGED jobVars
  BY <1>2 DEF jobVars, Latest
<1>3. ASSUME NEW j \in Jobs, RowStep(j), k # j PROVE Latest(k)'
  BY <1>1, <1>3, OthersKept DEF Latest
<1>4. CASE RowStep(k)
  <2>1. CASE \E t \in 1..AttemptLimit : CrossBoundary(k, t)
    BY <1>1, <2>1 DEF CrossBoundary, Current, Latest, Consistent, Owned, TypeOK
  <2>2. CASE \E g \in 1..desired[k] : ResolveExecutable(k, g)
    BY <1>1, <2>2 DEF ResolveExecutable, Deliverable, Waiting, Latest,
       Consistent, Reserved, TypeOK
  <2>3. CASE UNCHANGED <<attemptCount, effectBoundary>>
    BY <2>3 DEF Latest
  <2> QED
    BY <1>4, <2>1, <2>2, <2>3
       DEF RowStep, Record, ClaimPublication, ConfirmPublication,
         FailPublication, ResolveDead, AdvancePublication, CompleteTurn,
         ApplyOutcome, RecoverExpired, DeleteRetained, TimePasses,
         BecomeEligible, DeadlinePasses, PublicationBecomesDue, ClaimLapses,
         HorizonPasses
<1> QED
  BY <1>2, <1>3, <1>4 DEF Next

\* Whatever the broker accepted before, or accepts of hints rows have reached,
\* names reached generations.
LEMMA AcceptedKept ==
  ASSUME IInv, HintsTyped, AcceptedReached, [Next]_jobVars,
         \A m \in accepted' \ accepted : m \in Wakeups /\ Reached(m)
  PROVE  AcceptedReached'
<1> SUFFICES ASSUME NEW m \in accepted' PROVE Reached(m)'
  BY DEF AcceptedReached
<1>1. m \in Wakeups /\ Reached(m)
  BY DEF HintsTyped, AcceptedReached
<1>2. m.job \in Jobs /\ m.gen \in Nat
  BY <1>1 DEF Wakeups
<1> QED
  BY <1>1, <1>2, ReachedKept

\* The broker may forget only what no row wants any more: a wake-up of a row
\* that is over or of a generation it has left behind.
LEMMA WakeupKept ==
  ASSUME IInv, HintsTyped, AcceptedReached, [Next]_jobVars,
         NEW k \in Jobs, Kept(k),
         accepted' \subseteq accepted \cup stream',
         \A m \in stream \cup lost :
           \/ m \in stream' \cup lost'
           \/ state[m.job] \in Over
           \/ m.gen < desired[m.job]
  PROVE  Kept(k)'
<1> SUFFICES ASSUME state'[k] \in Unsettled, Wanted(k)' \in accepted'
             PROVE  Wanted(k)' \in stream' \cup lost'
  BY DEF Kept
<1>1. CASE Wanted(k)' \in stream'
  BY <1>1
<1>2. CASE Wanted(k)' \in accepted
  <2>1. desired[k] \in Nat /\ desired'[k] \in Nat
    BY InvariantStep DEF IInv, TypeOK
  <2>2. desired'[k] <= desired[k] /\ state[k] # "absent"
    BY <1>2 DEF AcceptedReached, Reached, Wanted
  <2>3. desired'[k] = desired[k] /\ state[k] \in Unsettled
    BY <2>1, <2>2, RowsAdvance
  <2>4. Wanted(k)' = Wanted(k)
    BY <2>3 DEF Wanted
  <2>5. Wanted(k) \in stream \cup lost
    BY <1>2, <2>3, <2>4 DEF Kept
  <2>6. /\ Wanted(k).job = k /\ Wanted(k).gen = desired[k]
        /\ state[k] \notin Over
    BY <2>3 DEF Wanted, Unsettled, Over, Waiting, Terminal
  <2> QED
    BY <2>1, <2>4, <2>5, <2>6
<1> QED
  BY <1>1, <1>2

\* Finishing a job makes it succeed only if that was asked for or its turn was
\* completed.
LEMMA FinishSucceeds ==
  ASSUME TypeOK, NEW j \in Jobs, NEW outcome \in Outcomes, Finish(j, outcome),
         \/ outcome # "succeeded"
         \/ completion[j] # "none"
         \/ j \notin DiagnosticJobs
  PROVE  Succeeds(j)'
<1>1. /\ state'[j] = Persisted(j, Requested(j, outcome))
      /\ completion[j] # "none" => completion'[j] # "none"
  BY DEF Finish, Terminalize, TypeOK
<1> QED
  BY <1>1 DEF Succeeds, Persisted, Requested, Outcomes

\* A row that the step leaves alone, or that it does not settle, is no exception.
LEMMA SucceedsKept ==
  ASSUME IInv, [Next]_jobVars, NEW k \in Jobs, Succeeds(k),
         state'[k] = state[k] \/ state'[k] # "succeeded"
  PROVE  Succeeds(k)'
BY RowsAdvance DEF Succeeds

-----------------------------------------------------------------------------
(* Each group of steps preserves the invariant. *)

\* A step that touches no hint keeps what is said of the hints.
LEMMA HintsUntouched ==
  ASSUME QueueIInv, [Next]_jobVars, UNCHANGED <<broker, pub, worker>>
  PROVE  /\ HintsTyped' /\ AcceptedReached' /\ Holders'
         /\ \A k \in Jobs : Latest(k)' /\ Kept(k)'
<1> USE DEF QueueIInv, broker
<1>1. HintsTyped'
  BY DEF HintsTyped
<1>2. AcceptedReached'
  BY AcceptedKept
<1>3. Holders'
  BY DeliveryKept, PublicationKept DEF Holders, Apart
<1>4. ASSUME NEW k \in Jobs PROVE Latest(k)' /\ Kept(k)'
  BY LatestKept, WakeupKept DEF RowHints
<1> QED
  BY <1>1, <1>2, <1>3, <1>4

\* Producers, maintenance and the clock.
LEMMA RowActionsKeep ==
  ASSUME QueueIInv, NEW j \in Jobs,
         \/ Accept(j) \/ Recover(j) \/ RepairNotification(j)
         \/ Reconstruct(j) \/ Cleanup(j) \/ ClockStep(j)
  PROVE  QueueIInv'
<1> USE DEF lifecycle, effects, publication, claims
<1>1. RowStep(j) /\ [Next]_jobVars
  BY RowActionsRefine DEF QueueIInv, Next
<1>2. IInv /\ TypeOK /\ IInv'
  BY <1>1, InvariantStep DEF QueueIInv, IInv
<1>3. UNCHANGED <<broker, pub, worker>>
  BY DEF Accept, Recover, RepairNotification, Reconstruct, Cleanup, ClockStep,
     HorizonReached, LeaseLapses, InstantPasses
<1>4. confirmed' = confirmed
  BY DEF Accept, Recover, RepairNotification, Reconstruct, Cleanup, ClockStep,
     HorizonReached, LeaseLapses, InstantPasses, Record, RecoverExpired,
     AdvancePublication, DeleteRetained, BecomeEligible, DeadlinePasses,
     PublicationBecomesDue, ClaimLapses, HorizonPasses
<1>5. ASSUME NEW k \in Jobs PROVE Confirms(k)'
  BY <1>3, <1>4 DEF QueueIInv, RowHints, Confirms, broker
<1>6. ASSUME NEW k \in Jobs PROVE Succeeds(k)'
  <2>1. Succeeds(k)
    BY DEF QueueIInv, RowHints
  <2>2. CASE k # j
    BY <1>1, <1>2, <2>1, <2>2, OthersKept, SucceedsKept
  <2>3. CASE k = j /\ Recover(j)
    <3>1. ExpiredOutcome(j) \in Outcomes \ {"succeeded"}
      BY DEF ExpiredOutcome, Outcomes
    <3> QED
      BY <1>2, <2>3, <3>1, FinishSucceeds DEF Recover, RecoverExpired
  <2>4. CASE k = j /\ ~Recover(j)
    <3>1. state'[j] = state[j] \/ state'[j] # "succeeded"
      BY <1>2, <2>4 DEF TypeOK, Accept, RepairNotification, Reconstruct, Cleanup,
         ClockStep, HorizonReached, LeaseLapses, InstantPasses, Record,
         AdvancePublication, DeleteRetained, BecomeEligible, DeadlinePasses,
         PublicationBecomesDue, ClaimLapses, HorizonPasses
    <3> QED
      BY <1>1, <1>2, <2>1, <2>4, <3>1, SucceedsKept
  <2> QED
    BY <2>2, <2>3, <2>4
<1> QED
  BY <1>1, <1>2, <1>3, <1>5, <1>6, HintsUntouched DEF QueueIInv, RowHints

\* Publication tasks: the wake-up is stored before the row confirms it, and is
\* one the row had reached when it was claimed.
LEMMA PublishersKeep ==
  ASSUME QueueIInv, NEW p \in Publishers,
         PublisherStep(p) \/ PublishFails(p) \/ AbandonPublication(p)
  PROVE  QueueIInv'
<1> USE DEF lifecycle, effects, publication, claims, broker
<1>1. IInv /\ HintsTyped /\ AcceptedReached /\ Publishes(p)
  BY DEF QueueIInv, Holders
<1>2. [Next]_jobVars
  BY <1>1, PublisherRefines
<1>3. IInv' /\ TypeOK
  BY <1>1, <1>2, InvariantStep DEF IInv
<1>4. /\ worker' = worker /\ lost' = lost /\ stream \subseteq stream'
      /\ state' = state /\ completion' = completion
      /\ \A q \in Publishers \ {p} : pub'[q] = pub[q]
  BY <1>1 DEF PublisherStep, ClaimIntent, Publish, Conclude, PublishFails,
     AbandonPublication, ClaimPublication, ConfirmPublication, FailPublication,
     HintsTyped, jobVars
<1>5. ASSUME pub[p] # Idle
      PROVE  /\ pub[p] \in Publication
             /\ Wakeup(pub[p]) \in Wakeups /\ Reached(Wakeup(pub[p]))
             /\ Wakeup(pub[p]).job = pub[p].job
             /\ Wakeup(pub[p]).gen = pub[p].gen
  BY <1>1, <1>5 DEF HintsTyped, Publishes, Reached, Wakeup, Wakeups, Publication
<1>6. /\ accepted \subseteq accepted'
      /\ accepted' \subseteq accepted \cup stream'
      /\ stream' \subseteq accepted'
      /\ \A m \in accepted' \ accepted : m \in Wakeups /\ Reached(m)
  BY <1>1, <1>5 DEF PublisherStep, ClaimIntent, Publish, Conclude, PublishFails,
     AbandonPublication, HintsTyped, Idle
<1>7. AcceptedReached'
  BY <1>1, <1>2, <1>6, AcceptedKept
<1>8. /\ pub' \in [Publishers -> {Idle} \cup Publication]
      /\ Publishes(p)'
  <2>1. CASE Conclude(p) \/ AbandonPublication(p)
    BY <1>1, <2>1 DEF Conclude, AbandonPublication, HintsTyped, Publishes
  <2>2. CASE ClaimIntent(p)
    <3>1. PICK j \in Jobs :
            /\ ClaimPublication(j, p)
            /\ pub' = [pub EXCEPT ![p] = [phase |-> "publishing", job |-> j,
                                          gen |-> desired[j]]]
      BY <2>2 DEF ClaimIntent
    <3>2. /\ desired[j] \in Nat /\ desired[j] >= 1 /\ state[j] # "absent"
          /\ desired' = desired
      BY <1>1, <1>3, <3>1 DEF ClaimPublication, TypeOK, Live, Waiting, Terminal,
         IInv, Consistent, Published
    <3>3. /\ pub'[p] = [phase |-> "publishing", job |-> j, gen |-> desired[j]]
          /\ pub' \in [Publishers -> {Idle} \cup Publication]
      BY <1>1, <3>1, <3>2 DEF HintsTyped, Publication
    <3> QED
      BY <1>4, <3>2, <3>3 DEF Publishes, Reached
  <2>3. ASSUME NEW s \in {"acked", "refused"},
               pub[p].phase = "publishing",
               pub' = [pub EXCEPT ![p].phase = s],
               s = "acked" => Wakeup(pub[p]) \in accepted',
               UNCHANGED jobVars
        PROVE  /\ pub' \in [Publishers -> {Idle} \cup Publication]
               /\ Publishes(p)'
    <3>1. pub[p] # Idle /\ pub[p] \in Publication
      BY <1>5, <2>3 DEF Idle
    <3>2. /\ pub'[p] \in Publication /\ pub'[p].phase = s
          /\ pub'[p].job = pub[p].job /\ pub'[p].gen = pub[p].gen
          /\ pub' \in [Publishers -> {Idle} \cup Publication]
      BY <1>1, <2>3, <3>1 DEF HintsTyped, Publication
    <3>3. Reached(pub[p]) /\ UNCHANGED <<desired, state>>
      BY <1>1, <2>3, <3>1 DEF Publishes, jobVars
    <3>4. Wakeup(pub[p])' = Wakeup(pub[p])
      BY <3>2 DEF Wakeup
    <3> QED
      BY <2>3, <3>2, <3>3, <3>4 DEF Publishes, Reached
  <2>4. CASE Publish(p)
    <3>1. /\ pub[p].phase = "publishing"
          /\ pub' = [pub EXCEPT ![p].phase = "acked"]
          /\ Wakeup(pub[p]) \in accepted'
          /\ UNCHANGED jobVars
      BY <2>4 DEF Publish
    <3> QED
      BY <2>3, <3>1
  <2>5. CASE PublishFails(p)
    <3>1. /\ pub[p].phase = "publishing"
          /\ pub' = [pub EXCEPT ![p].phase = "refused"]
          /\ UNCHANGED jobVars
      BY <2>5 DEF PublishFails
    <3> QED
      BY <2>3, <3>1
  <2> QED
    BY <2>1, <2>2, <2>4, <2>5 DEF PublisherStep
<1>9. HintsTyped'
  BY <1>1, <1>4, <1>6, <1>8 DEF HintsTyped
<1>10. Holders'
  <2>1. \A q \in Publishers : Publishes(q)'
    BY <1>1, <1>2, <1>4, <1>6, <1>8, PublicationKept DEF QueueIInv, Holders
  <2>2. \A w \in Workers : Delivers(w)'
    BY <1>1, <1>2, <1>4, DeliveryKept DEF QueueIInv, Holders
  <2> QED
    BY <1>4, <2>1, <2>2 DEF QueueIInv, Holders, Apart
<1>11. ASSUME NEW k \in Jobs PROVE RowHints(k)'
  <2>1. RowHints(k)
    BY DEF QueueIInv
  <2>2. Latest(k)'
    BY <1>1, <1>2, <2>1, LatestKept DEF RowHints
  <2>3. Kept(k)'
    BY <1>1, <1>2, <1>4, <1>6, <2>1, WakeupKept DEF RowHints
  <2>4. Succeeds(k)'
    BY <1>4, <2>1 DEF RowHints, Succeeds
  <2>5. Confirms(k)'
    <3>1. CASE confirmed'[k] = confirmed[k]
      BY <1>6, <2>1, <3>1 DEF RowHints, Confirms
    <3>2. CASE confirmed'[k] # confirmed[k]
      <4>1. /\ Conclude(p) /\ pub[p].phase = "acked"
            /\ ConfirmPublication(pub[p].job, p, pub[p].gen)
        BY <3>2 DEF PublisherStep, ClaimIntent, Publish, Conclude,
           PublishFails, AbandonPublication, ClaimPublication, FailPublication,
           jobVars
      <4>2. k = pub[p].job /\ confirmed'[k] = pub[p].gen
        BY <1>3, <3>2, <4>1 DEF ConfirmPublication, TypeOK
      <4>3. Wakeup(pub[p]) \in accepted
        BY <1>1, <4>1 DEF Publishes, Idle
      <4> QED
        BY <1>6, <4>2, <4>3 DEF Confirms, Wakeup
    <3> QED
      BY <3>1, <3>2
  <2> QED
    BY <2>2, <2>3, <2>4, <2>5 DEF RowHints
<1> QED
  BY <1>3, <1>7, <1>9, <1>10, <1>11 DEF QueueIInv

\* A wake-up the broker drops is remembered as lost.
LEMMA LossKeeps ==
  ASSUME QueueIInv, NEW m \in stream, Lose(m)
  PROVE  QueueIInv'
<1>1. /\ UNCHANGED <<jobVars, accepted, pub, worker>> /\ [Next]_jobVars
      /\ stream' \cup lost' = stream \cup lost
      /\ stream' \subseteq stream
  BY DEF Lose
<1>2. IInv /\ IInv' /\ HintsTyped /\ AcceptedReached
  BY <1>1, InvariantStep DEF QueueIInv
<1>3. HintsTyped'
  BY <1>1, <1>2 DEF HintsTyped
<1>4. AcceptedReached'
  BY <1>1, <1>2, AcceptedKept
<1>5. Holders'
  BY <1>1, <1>2, DeliveryKept, PublicationKept DEF QueueIInv, Holders, Apart
<1>6. ASSUME NEW k \in Jobs PROVE RowHints(k)'
  <2>1. UNCHANGED <<state, attemptCount, effectBoundary, completion, confirmed>>
    BY <1>1 DEF jobVars, lifecycle, effects, publication
  <2>2. Kept(k)'
    BY <1>1, <1>2, WakeupKept DEF QueueIInv, RowHints
  <2> QED
    BY <1>1, <2>1, <2>2
       DEF QueueIInv, RowHints, Latest, Confirms, Succeeds
<1> QED
  BY <1>2, <1>3, <1>4, <1>5, <1>6 DEF QueueIInv

\* A delivery task moves to another phase with the hint it holds.
LEMMA PhaseChange ==
  ASSUME HintsTyped, NEW w \in Workers, worker[w] # Idle, NEW s \in Phases,
         worker' = [worker EXCEPT ![w].phase = s]
  PROVE  /\ worker' \in [Workers -> {Idle} \cup Delivery]
         /\ worker'[w] # Idle
         /\ worker'[w].phase = s /\ worker'[w].job = worker[w].job
         /\ worker'[w].gen = worker[w].gen /\ worker'[w].token = worker[w].token
<1>1. worker[w] \in Delivery
  BY DEF HintsTyped
<1>2. worker'[w] = [worker[w] EXCEPT !.phase = s]
  BY DEF HintsTyped
<1>3. /\ worker'[w] \in Delivery
      /\ worker'[w].phase = s /\ worker'[w].job = worker[w].job
      /\ worker'[w].gen = worker[w].gen /\ worker'[w].token = worker[w].token
  BY <1>1, <1>2 DEF Delivery
<1>4. worker'[w] # Idle
  BY <1>3 DEF Idle, Phases, Active
<1> QED
  BY <1>3, <1>4 DEF HintsTyped

\* A job that is finished waits for a retry or is over.
LEMMA FinishEnds ==
  ASSUME TypeOK, NEW j \in Jobs, NEW outcome \in Outcomes, Finish(j, outcome)
  PROVE  /\ state'[j] \in Terminal \cup {"retrying"}
         /\ outcome = "dead" => state'[j] \in Terminal
BY DEF Finish, Persisted, Requested, Outcomes, Terminal, TypeOK

\* Starting an execution writes the phase and the token of a delivery.
LEMMA StartRecord ==
  ASSUME HintsTyped, NEW w \in Workers, worker[w] # Idle, NEW n \in Nat,
         worker' = [worker EXCEPT ![w].phase = "executing", ![w].token = n]
  PROVE  /\ worker'[w] \in Delivery
         /\ worker'[w].phase = "executing" /\ worker'[w].token = n
         /\ worker'[w].job = worker[w].job /\ worker'[w].gen = worker[w].gen
<1> DEFINE r == worker[w]
           e == [r EXCEPT !.phase = "executing"]
           d == worker'[w]
<1>1. r \in Delivery
  BY DEF HintsTyped
<1>2. d = [e EXCEPT !.token = n]
  BY DEF HintsTyped
<1> HIDE DEF r, d
<1>3. /\ e \in Delivery /\ e.phase = "executing"
      /\ e.job = r.job /\ e.gen = r.gen
  BY <1>1 DEF Delivery, Phases, Active
<1> HIDE DEF e
<1>4. /\ d \in Delivery /\ d.token = n /\ d.phase = e.phase
      /\ d.job = e.job /\ d.gen = e.gen
  BY <1>2, <1>3 DEF Delivery
<1> QED
  BY <1>3, <1>4 DEF d, r

\* A delivery that starts an execution starts the next attempt of its job.
LEMMA StartDelivers ==
  ASSUME QueueIInv, IInv', NEW w \in Workers, worker[w].phase = "resolving",
         ResolveExecutable(worker[w].job, worker[w].gen),
         worker' = [worker EXCEPT
           ![w].phase = "executing",
           ![w].token = attemptCount[worker[w].job] + 1]
  PROVE  /\ worker' \in [Workers -> {Idle} \cup Delivery]
         /\ Delivers(w)'
         /\ worker'[w].job = worker[w].job
         /\ worker'[w].token = attemptCount[worker[w].job] + 1
<1> DEFINE j == worker[w].job
           t == attemptCount[worker[w].job] + 1
<1>1. worker[w] # Idle /\ worker[w] \in Delivery
  BY DEF Idle, QueueIInv, HintsTyped
<1>2. j \in Jobs /\ t \in Nat
  BY <1>1 DEF Delivery, QueueIInv, IInv, TypeOK
<1>3. /\ worker'[w] \in Delivery
      /\ worker'[w].phase = "executing" /\ worker'[w].job = j
      /\ worker'[w].gen = worker[w].gen /\ worker'[w].token = t
  BY <1>1, <1>2, StartRecord DEF QueueIInv
<1>4. worker' \in [Workers -> {Idle} \cup Delivery]
  BY <1>3 DEF QueueIInv, HintsTyped
<1>5. Reached(worker[w])
  BY <1>1 DEF QueueIInv, Holders, Delivers
<1>6. /\ t >= 1 /\ t <= attemptCount'[j]
      /\ desired'[j] = desired[j] /\ state'[j] # "absent"
  BY <1>2 DEF ResolveExecutable, publication, QueueIInv, IInv, TypeOK
<1>7. Delivers(w)'
  BY <1>3, <1>5, <1>6 DEF Delivers, Reached, Active
<1> QED
  BY <1>3, <1>4, <1>7

\* A delivery that is resolved without starting an execution is settled only if
\* its row is over or has left its generation behind.
LEMMA ResolveDelivers ==
  ASSUME QueueIInv, [Next]_jobVars, IInv', NEW w \in Workers,
         worker[w].phase = "resolving", NEW s \in Phases \ Active,
         worker' = [worker EXCEPT ![w].phase = s],
         \/ s = "terminate" /\ ResolveDead(worker[w].job, worker[w].gen, TRUE)
         \/ /\ s = Classified(worker[w].job, worker[w].gen)
            /\ UNCHANGED jobVars
  PROVE  Delivers(w)'
<1> DEFINE j == worker[w].job
           g == worker[w].gen
<1>1. worker[w] # Idle /\ worker[w] \in Delivery
  BY DEF Idle, QueueIInv, HintsTyped
<1>2. j \in Jobs /\ g \in Nat /\ TypeOK /\ TypeOK'
  BY <1>1 DEF Delivery, QueueIInv, IInv
<1>3. /\ worker'[w].phase = s /\ worker'[w].job = j /\ worker'[w].gen = g
  BY <1>1, PhaseChange DEF QueueIInv
<1>4. Reached(worker[w])
  BY <1>1 DEF QueueIInv, Holders, Delivers
<1>5. Reached(worker[w])'
  BY <1>2, <1>3, <1>4, RowsAdvance DEF QueueIInv, Reached, TypeOK
<1>6. s \in {"ack", "terminate"} => state'[j] \in Over \/ g < desired'[j]
  <2>1. CASE ResolveDead(j, g, TRUE)
    BY <1>2, <2>1, FinishEnds DEF ResolveDead, Outcomes, Over
  <2>2. CASE s = Classified(j, g) /\ UNCHANGED jobVars
    <3>1. UNCHANGED <<state, desired>>
      BY <2>2 DEF jobVars, lifecycle, publication
    <3>2. /\ state[j] \in Live \cup {"deleted"}
          /\ g <= desired[j] /\ desired[j] \in Nat
      BY <1>2, <1>4 DEF Reached, TypeOK
    <3> QED
      BY <1>2, <2>2, <3>1, <3>2 DEF Classified, Over
  <2> QED
    BY <2>1, <2>2
<1> QED
  BY <1>3, <1>5, <1>6 DEF Delivers, Active

\* An execution advances, or reports, as the attempt it is.
LEMMA ExecutionDelivers ==
  ASSUME QueueIInv, [Next]_jobVars, IInv', NEW w \in Workers,
         NEW s \in Phases, worker[w].phase \in Active,
         worker' = [worker EXCEPT ![w].phase = s],
         \/ /\ s = "reserved"
            /\ CrossBoundary(worker[w].job, worker[w].token)
         \/ /\ s = "completed" /\ worker[w].phase = "reserved"
            /\ CompleteTurn(worker[w].job, worker[w].token)
         \/ s = "nak"
         \/ s = "ack" /\ state'[worker[w].job] \in Over
  PROVE  Delivers(w)'
<1> DEFINE j == worker[w].job
           t == worker[w].token
<1>1. worker[w] # Idle /\ worker[w] \in Delivery
  BY DEF Idle, Active, QueueIInv, HintsTyped
<1>2. j \in Jobs /\ worker[w].gen \in Nat /\ t \in Nat /\ TypeOK /\ TypeOK'
  BY <1>1 DEF Delivery, QueueIInv, IInv
<1>3. /\ worker'[w].phase = s /\ worker'[w].job = j
      /\ worker'[w].gen = worker[w].gen /\ worker'[w].token = t
  BY <1>1, PhaseChange DEF QueueIInv
<1>4. /\ Reached(worker[w]) /\ t >= 1 /\ t <= attemptCount[j]
      /\ worker[w].phase = "reserved" => effectBoundary[j] = t
  BY <1>1 DEF QueueIInv, Holders, Delivers
<1>5. Reached(worker[w])'
  BY <1>2, <1>3, <1>4, RowsAdvance DEF QueueIInv, Reached, TypeOK
<1>6. t <= attemptCount'[j]
  BY <1>2, <1>4, RowsAdvance DEF QueueIInv, TypeOK
<1>7. s \in {"reserved", "completed"} => effectBoundary'[j] = t
  BY <1>2, <1>4 DEF CrossBoundary, CompleteTurn, TypeOK
<1>8. s = "completed" => completion'[j] # "none"
  BY <1>2 DEF CompleteTurn, TypeOK
<1> QED
  BY <1>3, <1>4, <1>5, <1>6, <1>7, <1>8 DEF Delivers

\* What a step of a delivery task makes of what it holds: nothing, a hint the
\* broker stores, the same execution, or the next attempt of the job.
LEMMA WorkerChanges ==
  ASSUME QueueIInv, [Next]_jobVars, IInv', NEW w \in Workers,
         WorkerStep(w) \/ AbandonDelivery(w)
  PROVE  /\ worker' \in [Workers -> {Idle} \cup Delivery]
         /\ Delivers(w)'
         /\ worker'[w].phase \in Active =>
              \/ /\ worker[w].phase \in Active
                 /\ worker'[w].job = worker[w].job
                 /\ worker'[w].token = worker[w].token
              \/ /\ worker'[w].job \in Jobs
                 /\ worker'[w].token = attemptCount[worker'[w].job] + 1
<1> USE DEF QueueIInv
<1> DEFINE j == worker[w].job
           t == worker[w].token
<1>1. worker[w].phase # "idle" => worker[w] # Idle /\ j \in Jobs
  BY DEF Idle, HintsTyped, Delivery
<1>2. ASSUME worker' = [worker EXCEPT ![w] = Idle]
      PROVE  /\ worker' \in [Workers -> {Idle} \cup Delivery]
             /\ Delivers(w)' /\ worker'[w].phase \notin Active
  BY <1>2 DEF HintsTyped, Delivers, Idle, Active
<1>3. CASE FencedOut(w) \/ Settle(w) \/ AbandonDelivery(w)
  BY <1>2, <1>3 DEF FencedOut, Settle, AbandonDelivery
<1>4. CASE Fetch(w)
  <2>1. PICK m \in stream :
          worker' = [worker EXCEPT ![w] = [phase |-> "resolving", job |-> m.job,
                                           gen |-> m.gen, token |-> 0]]
    BY <1>4 DEF Fetch
  <2>2. m \in Wakeups /\ Reached(m) /\ UNCHANGED <<desired, state>>
    BY <1>4, <2>1 DEF HintsTyped, AcceptedReached, Fetch, jobVars, lifecycle,
       publication
  <2>3. /\ worker'[w] = [phase |-> "resolving", job |-> m.job, gen |-> m.gen,
                         token |-> 0]
        /\ worker'[w] \in Delivery
        /\ worker' \in [Workers -> {Idle} \cup Delivery]
    BY <2>1, <2>2 DEF HintsTyped, Wakeups, Delivery, Phases
  <2> QED
    BY <2>2, <2>3 DEF Delivers, Reached, Active
<1>5. CASE Resolve(w)
  <2>1. worker[w].phase = "resolving" /\ worker[w] # Idle /\ j \in Jobs
    BY <1>1, <1>5 DEF Resolve
  <2>2. CASE /\ ResolveExecutable(j, worker[w].gen)
             /\ worker' = [worker EXCEPT ![w].phase = "executing",
                                         ![w].token = attemptCount[j] + 1]
    BY <2>1, <2>2, StartDelivers
  <2>3. ASSUME NEW s \in Phases \ Active,
               worker' = [worker EXCEPT ![w].phase = s],
               \/ s = "terminate" /\ ResolveDead(j, worker[w].gen, TRUE)
               \/ s = Classified(j, worker[w].gen) /\ UNCHANGED jobVars
        PROVE  /\ worker' \in [Workers -> {Idle} \cup Delivery]
               /\ Delivers(w)' /\ worker'[w].phase \notin Active
    BY <2>1, <2>3, ResolveDelivers, PhaseChange
  <2>4. /\ Classified(j, worker[w].gen) \in Phases \ Active
        /\ "terminate" \in Phases \ Active
    BY DEF Classified, Phases, Active
  <2> QED
    BY <1>5, <2>2, <2>3, <2>4 DEF Resolve
<1>6. CASE Reserve(w) \/ Complete(w) \/ Report(w)
  <2>1. worker[w].phase \in Active /\ worker[w] # Idle /\ j \in Jobs
    BY <1>1, <1>6 DEF Reserve, Complete, Report, Active
  <2>2. ASSUME NEW s \in Phases,
               worker' = [worker EXCEPT ![w].phase = s],
               \/ s = "reserved" /\ CrossBoundary(j, t)
               \/ /\ s = "completed" /\ worker[w].phase = "reserved"
                  /\ CompleteTurn(j, t)
               \/ s = "nak"
               \/ s = "ack" /\ state'[j] \in Over
        PROVE  /\ worker' \in [Workers -> {Idle} \cup Delivery]
               /\ Delivers(w)'
               /\ worker'[w].job = j /\ worker'[w].token = t
    BY <2>1, <2>2, ExecutionDelivers, PhaseChange
  <2>3. {"reserved", "completed", "nak", "ack"} \subseteq Phases
    BY DEF Phases, Active
  <2>4. CASE Reserve(w) \/ Complete(w)
    BY <2>1, <2>2, <2>3, <2>4 DEF Reserve, Complete
  <2>5. CASE Report(w)
    <3>1. CASE worker' = [worker EXCEPT ![w] = Idle]
      BY <1>2, <3>1
    <3>2. ASSUME NEW outcome \in Outcomes, ApplyOutcome(j, t, outcome),
                 worker' = [worker EXCEPT
                   ![w].phase = IF state'[j] = "retrying" THEN "nak" ELSE "ack"]
          PROVE  /\ worker' \in [Workers -> {Idle} \cup Delivery]
                 /\ Delivers(w)'
                 /\ worker'[w].job = j /\ worker'[w].token = t
      <4>1. state'[j] # "retrying" => state'[j] \in Over
        BY <2>1, <3>2, FinishEnds DEF ApplyOutcome, Over, IInv
      <4>2. CASE state'[j] = "retrying"
        BY <2>2, <2>3, <3>2, <4>2
      <4>3. CASE state'[j] # "retrying"
        BY <2>2, <2>3, <3>2, <4>1, <4>3
      <4> QED
        BY <4>2, <4>3
    <3>3. Reports(w) \subseteq Outcomes
      BY DEF Reports, Outcomes
    <3> QED
      BY <2>1, <2>5, <3>1, <3>2, <3>3 DEF Report
  <2> QED
    BY <1>6, <2>4, <2>5
<1> QED
  BY <1>3, <1>4, <1>5, <1>6 DEF WorkerStep

\* Delivery tasks.
LEMMA WorkersKeep ==
  ASSUME QueueIInv, NEW w \in Workers, WorkerStep(w) \/ AbandonDelivery(w)
  PROVE  QueueIInv'
<1> USE DEF lifecycle, effects, publication, claims, broker
<1>1. IInv /\ TypeOK /\ HintsTyped /\ AcceptedReached /\ Delivers(w)
  BY DEF QueueIInv, IInv, Holders
<1>2. [Next]_jobVars
  BY <1>1, WorkerRefines DEF Next
<1>3. IInv'
  BY <1>1, <1>2, InvariantStep
<1>4. /\ worker' \in [Workers -> {Idle} \cup Delivery]
      /\ Delivers(w)'
      /\ worker'[w].phase \in Active =>
           \/ /\ worker[w].phase \in Active
              /\ worker'[w].job = worker[w].job
              /\ worker'[w].token = worker[w].token
           \/ /\ worker'[w].job \in Jobs
              /\ worker'[w].token = attemptCount[worker'[w].job] + 1
  BY <1>2, <1>3, WorkerChanges
<1>5. /\ UNCHANGED <<accepted, lost, pub>> /\ confirmed' = confirmed
      /\ stream' \subseteq stream
      /\ \A v \in Workers \ {w} : worker'[v] = worker[v]
  BY <1>1 DEF WorkerStep, Fetch, Resolve, Reserve, Complete, FencedOut, Report,
     Settle, AbandonDelivery, HintsTyped, ResolveExecutable, ResolveDead,
     CrossBoundary, CompleteTurn, ApplyOutcome, jobVars
<1>6. HintsTyped' /\ AcceptedReached'
  BY <1>1, <1>2, <1>4, <1>5, AcceptedKept DEF HintsTyped
<1>7. Holders'
  <2>1. \A p \in Publishers : Publishes(p)'
    BY <1>1, <1>2, <1>5, PublicationKept DEF QueueIInv, Holders
  <2>2. \A v \in Workers : Delivers(v)'
    BY <1>1, <1>2, <1>4, <1>5, DeliveryKept DEF QueueIInv, Holders
  <2>3. ASSUME NEW v \in Workers, v # w PROVE Apart(v, w)' /\ Apart(w, v)'
    <3>1. Apart(v, w) /\ worker'[v] = worker[v]
      BY <1>5, <2>3 DEF QueueIInv, Holders
    <3>2. worker[v].phase \in Active =>
            /\ worker[v].token <= attemptCount[worker[v].job]
            /\ worker[v].token \in Nat /\ worker[v].job \in Jobs
      BY <1>1 DEF QueueIInv, Holders, Delivers, Idle, Active, HintsTyped, Delivery
    <3>3. \A j \in Jobs : attemptCount[j] \in Nat
      BY <1>1 DEF TypeOK
    <3> QED
      BY <1>4, <3>1, <3>2, <3>3 DEF Apart
  <2>4. ASSUME NEW u \in Workers, NEW v \in Workers, u # v PROVE Apart(u, v)'
    BY <1>5, <2>3, <2>4 DEF QueueIInv, Holders, Apart
  <2> QED
    BY <2>1, <2>2, <2>4 DEF Holders
<1>8. \A m \in stream \cup lost :
        \/ m \in stream' \cup lost'
        \/ state[m.job] \in Over
        \/ m.gen < desired[m.job]
  <2>1. CASE stream' = stream
    BY <1>5, <2>1
  <2>2. CASE stream' # stream
    <3>1. /\ worker[w].phase \in {"ack", "terminate"}
          /\ stream' = stream \ {Wakeup(worker[w])}
      BY <2>2 DEF WorkerStep, Fetch, Resolve, Reserve, Complete, FencedOut,
         Report, Settle, AbandonDelivery
    <3>2. \/ state[worker[w].job] \in Over
          \/ worker[w].gen < desired[worker[w].job]
      BY <1>1, <3>1 DEF Delivers, Idle
    <3>3. /\ Wakeup(worker[w]).job = worker[w].job
          /\ Wakeup(worker[w]).gen = worker[w].gen
      BY DEF Wakeup
    <3> QED
      BY <1>5, <3>1, <3>2, <3>3
  <2> QED
    BY <2>1, <2>2
<1>9. ASSUME NEW k \in Jobs PROVE Succeeds(k)'
  <2>1. Succeeds(k)
    BY DEF QueueIInv, RowHints
  <2>2. CASE state'[k] = state[k] \/ state'[k] # "succeeded"
    BY <1>1, <1>2, <2>1, <2>2, SucceedsKept
  <2>3. CASE k = worker[w].job /\ ResolveDead(k, worker[w].gen, TRUE)
    BY <1>1, <2>3, FinishSucceeds DEF ResolveDead, Outcomes
  <2>4. ASSUME k = worker[w].job, NEW outcome \in Reports(w),
               worker[w].phase \in Active,
               ApplyOutcome(k, worker[w].token, outcome)
        PROVE  Succeeds(k)'
    <3>1. /\ outcome \in Outcomes
          /\ \/ outcome # "succeeded"
             \/ worker[w].phase = "completed"
             \/ k \notin DiagnosticJobs
      BY <2>4 DEF Reports, Outcomes
    <3>2. worker[w].phase = "completed" => completion[k] # "none"
      BY <1>1, <2>4 DEF Delivers, Idle
    <3> QED
      BY <1>1, <2>4, <3>1, <3>2, FinishSucceeds DEF ApplyOutcome
  <2>5. \/ state'[k] = state[k] \/ state'[k] # "succeeded"
        \/ k = worker[w].job /\ ResolveDead(k, worker[w].gen, TRUE)
        \/ /\ k = worker[w].job /\ worker[w].phase \in Active
           /\ \E outcome \in Reports(w) :
                ApplyOutcome(k, worker[w].token, outcome)
    BY <1>1 DEF TypeOK, WorkerStep, Fetch, Resolve, Reserve, Complete, FencedOut,
       Report, Settle, AbandonDelivery, ResolveExecutable, ResolveDead,
       CrossBoundary, CompleteTurn, ApplyOutcome, Finish, jobVars, Active
  <2> QED
    BY <2>2, <2>3, <2>4, <2>5
<1>10. ASSUME NEW k \in Jobs PROVE Latest(k)' /\ Confirms(k)' /\ Kept(k)'
  <2>1. RowHints(k)
    BY DEF QueueIInv
  <2>2. Latest(k)'
    BY <1>1, <1>2, <2>1, LatestKept DEF RowHints
  <2>3. Kept(k)'
    BY <1>1, <1>2, <1>5, <1>8, <2>1, WakeupKept DEF RowHints
  <2>4. Confirms(k)'
    BY <1>5, <2>1 DEF RowHints, Confirms
  <2> QED
    BY <2>2, <2>3, <2>4
<1> QED
  BY <1>3, <1>6, <1>7, <1>9, <1>10 DEF QueueIInv, RowHints

-----------------------------------------------------------------------------
(* The invariant and what follows from it. *)

\* The invariant holds before the first job is accepted.
LEMMA QueueInvariantInit == QueueInit => QueueIInv
<1> SUFFICES ASSUME QueueInit PROVE QueueIInv
  OBVIOUS
<1>1. IInv
  BY InvariantInit DEF QueueInit
<1>2. HintsTyped /\ AcceptedReached
  BY DEF QueueInit, HintsTyped, AcceptedReached
<1>3. Holders
  BY DEF QueueInit, Holders, Publishes, Delivers, Apart, Idle, Active
<1>4. ASSUME NEW j \in Jobs PROVE RowHints(j)
  BY DEF QueueInit, Init, RowHints, Latest, Confirms, Kept, Succeeds
<1> QED
  BY <1>1, <1>2, <1>3, <1>4 DEF QueueIInv

\* Every step of the queue preserves it.
LEMMA QueueInvariantStep == QueueIInv /\ [QueueNext]_queueVars => QueueIInv'
<1> SUFFICES ASSUME QueueIInv, [QueueNext]_queueVars PROVE QueueIInv'
  OBVIOUS
<1>1. CASE UNCHANGED queueVars
  <2>1. UNCHANGED <<jobVars, broker, pub, worker>> /\ [Next]_jobVars
    BY <1>1 DEF queueVars
  <2>2. IInv'
    BY <2>1, InvariantStep DEF QueueIInv
  <2>3. ASSUME NEW k \in Jobs PROVE Confirms(k)' /\ Succeeds(k)'
    BY <2>1 DEF QueueIInv, RowHints, Confirms, Succeeds, jobVars, lifecycle,
       effects, publication, broker
  <2> QED
    BY <2>1, <2>2, <2>3, HintsUntouched DEF QueueIInv, RowHints
<1> QED
  BY <1>1, RowActionsKeep, PublishersKeep, WorkersKeep, LossKeeps DEF QueueNext

\* Whatever faults occur, every hint in flight is justified by its row.
THEOREM HintsJustified == QueueSpec => []QueueIInv
  BY QueueInvariantInit, QueueInvariantStep, PTL DEF QueueSpec

\* The queue is one of the callers the table was proved correct under: what
\* publishers, workers, maintenance and faults do to the table is a behaviour
\* of the table's own specification.
THEOREM QueueImplementsTable == QueueSpec => Spec
<1>1. QueueInit => Init
  BY DEF QueueInit
<1>2. QueueIInv /\ [QueueNext]_queueVars => [Next]_jobVars
  BY QueueRefines
<1> QED
  BY <1>1, <1>2, HintsJustified, PTL DEF QueueSpec, Spec

\* Hence the queue implements the durable job.
THEOREM QueueImplementsJobs == QueueSpec => ImplementsDurableJob
  BY QueueImplementsTable, Implements, PTL

\* A job that waits to run has its wake-up owed by its row, stored by the broker
\* or dropped by the broker itself.
THEOREM NeverStranded == QueueSpec => []NoStrandedJob
<1>1. QueueIInv => NoStrandedJob
  <2> SUFFICES ASSUME QueueIInv, NEW j \in Jobs, state[j] \in Waiting,
                      ~(desired[j] > confirmed[j])
               PROVE  Wanted(j) \in stream \cup lost
    BY DEF NoStrandedJob
  <2>1. confirmed[j] = desired[j] /\ desired[j] # 0
    BY DEF QueueIInv, IInv, TypeOK, Consistent, Published, Live
  <2>2. Wanted(j) \in accepted
    BY <2>1 DEF QueueIInv, RowHints, Confirms, Wanted
  <2> QED
    BY <2>2 DEF QueueIInv, RowHints, Kept, Unsettled
<1> QED
  BY <1>1, HintsJustified, PTL

\* The execution that reserved a job's effects is the only one that may run
\* them, whatever deliveries of the job are in flight.
THEOREM ReservedExecutionAlone == QueueSpec => []ReservedAlone
<1>1. QueueIInv => ReservedAlone
  <2> SUFFICES ASSUME QueueIInv, NEW w \in Workers,
                      worker[w].phase \in {"reserved", "completed"}
               PROVE  /\ effectBoundary[worker[w].job] = worker[w].token
                      /\ \A v \in Workers \ {w} :
                           worker[v].phase \in Active =>
                             \/ worker[v].job # worker[w].job
                             \/ /\ worker[v].phase = "executing"
                                /\ worker[v].token < worker[w].token
    BY DEF ReservedAlone, Active
  <2> DEFINE j == worker[w].job
  <2>1. /\ worker[w].phase \in Active /\ j \in Jobs
        /\ worker[w].token \in Nat /\ worker[w].token # 0
        /\ effectBoundary[j] = worker[w].token
    BY DEF QueueIInv, Holders, Delivers, HintsTyped, Delivery, Idle, Active
  <2>2. worker[w].token = attemptCount[j]
    BY <2>1 DEF QueueIInv, RowHints, Latest
  <2>3. ASSUME NEW v \in Workers \ {w}, worker[v].phase \in Active,
               worker[v].job = j
        PROVE  worker[v].phase = "executing" /\ worker[v].token < worker[w].token
    <3>1. /\ worker[v].token \in Nat /\ worker[v].token <= attemptCount[j]
          /\ worker[v].phase \in {"reserved", "completed"} =>
               effectBoundary[j] = worker[v].token
      BY <2>3 DEF QueueIInv, Holders, Delivers, HintsTyped, Delivery, Idle, Active
    <3>2. worker[v].token # worker[w].token
      BY <2>1, <2>3 DEF QueueIInv, Holders, Apart
    <3> QED
      BY <2>1, <2>2, <2>3, <3>1, <3>2 DEF Active
  <2> QED
    BY <2>1, <2>3
<1> QED
  BY <1>1, HintsJustified, PTL

\* A diagnostic job is settled only with its turn completed.
THEOREM SettledTurnsCompleted == QueueSpec => []SettledMeansCompleted
<1>1. QueueIInv => SettledMeansCompleted
  BY ConstantsAssumption
     DEF QueueIInv, IInv, Consistent, Closed, RowHints, Succeeds,
         SettledMeansCompleted, Terminal
<1> QED
  BY <1>1, HintsJustified, PTL
=============================================================================
