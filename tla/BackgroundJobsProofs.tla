------------------------ MODULE BackgroundJobsProofs ------------------------
(***************************************************************************)
(* What the job table guarantees for any number of jobs, publishers and    *)
(* attempts, under any callers: proofs about the specification of          *)
(* BackgroundJobs.                                                         *)
(***************************************************************************)
EXTENDS BackgroundJobs, TLAPS

-----------------------------------------------------------------------------
(* Type correctness. *)

\* Finish, whoever calls it, writes values of the columns' types.
LEMMA FinishType ==
  ASSUME TypeOK, NEW j \in Jobs, NEW outcome \in Outcomes, Finish(j, outcome)
  PROVE  /\ state' \in [Jobs -> Live \cup {"absent", "deleted"}]
         /\ executionToken' \in [Jobs -> 0..AttemptLimit]
         /\ overdue' \in [Jobs -> BOOLEAN]
         /\ eligible' \in [Jobs -> BOOLEAN]
         /\ completion' \in [Jobs -> {"none", "execution", "repair"}]
         /\ quiet' \in [Jobs -> BOOLEAN]
<1>1. Requested(j, outcome) \in Outcomes
  BY DEF Requested, Outcomes
<1>2. Persisted(j, Requested(j, outcome)) \in Live
  BY <1>1 DEF Persisted, Outcomes, Live, Waiting, Terminal
<1>3. 0 \in 0..AttemptLimit
  BY ConstantsAssumption
<1> QED
  BY <1>1, <1>2, <1>3 DEF TypeOK, Finish, Terminalize, Touch

\* Releasing a claim leaves the claim columns empty.
LEMMA ClearType ==
  ASSUME TypeOK, NEW j \in Jobs, ClearPublicationClaim(j)
  PROVE  /\ claimToken' \in [Jobs -> Publishers \cup {NoClaim}]
         /\ claimGeneration' \in [Jobs -> Nat]
         /\ claimLapsed' \in [Jobs -> BOOLEAN]
  BY DEF TypeOK, ClearPublicationClaim

\* Every transaction and every tick of the clock preserves the types.
LEMMA TypeStep == TypeOK /\ [Next]_jobVars => TypeOK'
<1> SUFFICES ASSUME TypeOK, [Next]_jobVars PROVE TypeOK'
  OBVIOUS
<1> USE DEF lifecycle, effects, publication, claims
<1>1. CASE UNCHANGED jobVars
  BY <1>1 DEF jobVars, TypeOK
<1>2. CASE Next
  <2> PICK j \in Jobs : RowStep(j)
    BY <1>2 DEF Next
  <2>1. CASE Record(j)
    BY <2>1 DEF Record, Touch, TypeOK, Live, Waiting
  <2>2. ASSUME NEW p \in Publishers, ClaimPublication(j, p) PROVE TypeOK'
    BY <2>2 DEF ClaimPublication, Touch, TypeOK
  <2>3. ASSUME NEW p \in Publishers, NEW g \in 1..desired[j],
               ConfirmPublication(j, p, g)
        PROVE  TypeOK'
    <3>1. g \in Nat
      BY DEF TypeOK
    <3> QED
      BY <2>3, <3>1, ClearType DEF ConfirmPublication, Touch, TypeOK
  <2>4. ASSUME NEW p \in Publishers, NEW g \in 1..desired[j],
               FailPublication(j, p, g)
        PROVE  TypeOK'
    BY <2>4, ClearType DEF FailPublication, Touch, TypeOK
  <2>5. ASSUME NEW g \in 1..desired[j], ResolveExecutable(j, g)
        PROVE  TypeOK'
    <3>1. attemptCount[j] + 1 \in 0..AttemptLimit
      BY <2>5, ConstantsAssumption DEF ResolveExecutable, TypeOK
    <3> QED
      BY <2>5, <3>1 DEF ResolveExecutable, Touch, TypeOK, Live
  <2>6. ASSUME NEW g \in 1..desired[j], NEW invalid \in BOOLEAN,
               ResolveDead(j, g, invalid)
        PROVE  TypeOK'
    <3>1. "dead" \in Outcomes
      BY DEF Outcomes
    <3> QED
      BY <2>6, <3>1, FinishType DEF ResolveDead, TypeOK
  <2>7. ASSUME NEW g \in 1..desired[j], NEW horizon \in BOOLEAN,
               AdvancePublication(j, g, horizon)
        PROVE  TypeOK'
    BY <2>7 DEF AdvancePublication, Touch, TypeOK
  <2>8. ASSUME NEW t \in 1..AttemptLimit, CrossBoundary(j, t) PROVE TypeOK'
    BY <2>8 DEF CrossBoundary, TypeOK
  <2>9. ASSUME NEW t \in 1..AttemptLimit, CompleteTurn(j, t) PROVE TypeOK'
    BY <2>9 DEF CompleteTurn, TypeOK
  <2>10. ASSUME NEW t \in 1..AttemptLimit, NEW outcome \in Outcomes,
                ApplyOutcome(j, t, outcome)
         PROVE  TypeOK'
    BY <2>10, FinishType DEF ApplyOutcome, TypeOK
  <2>11. ASSUME NEW t \in 1..AttemptLimit, NEW outcome \in Outcomes,
                RecoverExpired(j, t, outcome)
         PROVE  TypeOK'
    BY <2>11, FinishType DEF RecoverExpired, TypeOK
  <2>12. CASE DeleteRetained(j)
    BY <2>12 DEF DeleteRetained, TypeOK
  <2>13. CASE TimePasses(j)
    BY <2>13 DEF TimePasses, BecomeEligible, DeadlinePasses,
         PublicationBecomesDue, ClaimLapses, HorizonPasses, TypeOK
  <2> QED
    BY <2>1, <2>2, <2>3, <2>4, <2>5, <2>6, <2>7, <2>8, <2>9, <2>10, <2>11,
       <2>12, <2>13 DEF RowStep
<1> QED
  BY <1>1, <1>2

\* The initial table, without rows, has the columns' types.
LEMMA TypeInit == Init => TypeOK
  BY ConstantsAssumption DEF Init, TypeOK

\* Every column of every row keeps its type, whoever calls the transactions;
\* in particular no job is started more than AttemptLimit times.
THEOREM TypeCorrect == Spec => []TypeOK
  BY TypeInit, TypeStep, PTL DEF Spec

-----------------------------------------------------------------------------
(* The inductive invariant.  The properties alone are not inductive: that   *)
(* no second execution holds a reserved job needs the owner of the boundary *)
(* and the absence of a boundary on a waiting row, and that a failed turn   *)
(* has been closed needs that an unsettled one was not closed by a repair.  *)

\* A row is running exactly while an execution owns it, the owner is the latest
\* attempt, and only an owned row has a deadline.
Owned(j) ==
  /\ (state[j] = "running") = (executionToken[j] # 0)
  /\ executionToken[j] # 0 => executionToken[j] = attemptCount[j]
  /\ overdue[j] => state[j] = "running"

\* A crossed boundary belongs to the execution that holds the row, or to a
\* settled row that does not deny the effects.
Reserved(j) ==
  effectBoundary[j] # 0 =>
    /\ j \in DiagnosticJobs
    /\ attemptCount[j] > 0
    /\ state[j] \in {"running", "succeeded", "interrupted", "deleted"}
    /\ state[j] = "running" => executionToken[j] = effectBoundary[j]

\* Only a reserved execution completes a turn, and the repair closes the turns
\* of the failed rows and no other.
Closed(j) ==
  /\ completion[j] = "execution" => effectBoundary[j] # 0
  /\ completion[j] = "repair" => state[j] \in {"interrupted", "dead", "deleted"}
  /\ j \in DiagnosticJobs /\ state[j] \in {"interrupted", "dead"} =>
       completion[j] = "repair"

\* The generations are ordered, a claim names one of them, and an absent row
\* has none.
Published(j) ==
  /\ confirmed[j] <= desired[j]
  /\ claimGeneration[j] <= desired[j]
  /\ (claimToken[j] = NoClaim) = (claimGeneration[j] = 0)
  /\ state[j] \in Live => desired[j] >= 1
  /\ state[j] = "absent" => desired[j] = 0

Consistent(j) == Owned(j) /\ Reserved(j) /\ Closed(j) /\ Published(j)

IInv == TypeOK /\ \A j \in Jobs : Consistent(j)

\* Finish, called on a row that is not settled and with no retry of reserved
\* effects, preserves what the lifecycle columns guarantee.
LEMMA FinishConsistent ==
  ASSUME TypeOK, NEW j \in Jobs, Consistent(j), NEW outcome \in Outcomes,
         state[j] \in Waiting \cup {"running"},
         outcome = "retrying" => effectBoundary[j] = 0,
         Finish(j, outcome),
         UNCHANGED <<attemptCount, effectBoundary>>
  PROVE  Owned(j)' /\ Reserved(j)' /\ Closed(j)'
<1> DEFINE s == Requested(j, outcome)
<1>1. s \in Outcomes /\ (s = "retrying" => effectBoundary[j] = 0)
  BY DEF Requested, Outcomes
<1>2. completion[j] \in {"none", "execution"}
  BY DEF TypeOK, Consistent, Closed, Waiting
<1>3. /\ state'[j] = Persisted(j, s)
      /\ executionToken'[j] = 0 /\ ~overdue'[j]
      /\ completion'[j] = IF /\ j \in DiagnosticJobs
                             /\ s \in {"interrupted", "dead"}
                             /\ completion[j] = "none"
                          THEN "repair" ELSE completion[j]
  BY DEF Finish, Terminalize, TypeOK
<1> HIDE DEF s
<1>4. state'[j] \in Outcomes
  BY <1>1, <1>2, <1>3 DEF Persisted, Outcomes
<1>5. Owned(j)'
  BY <1>3, <1>4 DEF Owned, Outcomes
<1>6. Reserved(j)'
  <2>1. effectBoundary[j] # 0 =>
          j \in DiagnosticJobs /\ attemptCount[j] > 0
    BY DEF Consistent, Reserved
  <2>2. effectBoundary[j] # 0 => state'[j] \in {"succeeded", "interrupted"}
    BY <1>1, <1>2, <1>3, <2>1 DEF Persisted, Outcomes
  <2> QED
    BY <2>1, <2>2 DEF Reserved
<1>7. Closed(j)'
  <2>1. completion[j] = "execution" => effectBoundary[j] # 0
    BY DEF Consistent, Closed
  <2>2. CASE completion[j] = "none"
    BY <1>1, <1>3, <2>2 DEF Persisted, Closed, Outcomes
  <2>3. CASE completion[j] = "execution"
    BY <1>1, <1>3, <2>1, <2>3 DEF Persisted, Closed, Outcomes
  <2> QED
    BY <1>2, <2>2, <2>3
<1> QED
  BY <1>5, <1>6, <1>7

\* A step of one row leaves the columns of every other row alone.
LEMMA OthersKept ==
  ASSUME TypeOK, NEW j \in Jobs, RowStep(j), NEW k \in Jobs, k # j
  PROVE  /\ state'[k] = state[k] /\ attemptCount'[k] = attemptCount[k]
         /\ eligible'[k] = eligible[k] /\ overdue'[k] = overdue[k]
         /\ executionToken'[k] = executionToken[k]
         /\ effectBoundary'[k] = effectBoundary[k]
         /\ completion'[k] = completion[k]
         /\ desired'[k] = desired[k] /\ confirmed'[k] = confirmed[k]
         /\ claimToken'[k] = claimToken[k]
         /\ claimGeneration'[k] = claimGeneration[k]
BY DEF RowStep, TypeOK, Record, ClaimPublication, ConfirmPublication,
   FailPublication, ResolveExecutable, ResolveDead, AdvancePublication,
   CrossBoundary, CompleteTurn, ApplyOutcome, RecoverExpired, DeleteRetained,
   TimePasses, BecomeEligible, DeadlinePasses, PublicationBecomesDue,
   ClaimLapses, HorizonPasses, Finish, Terminalize, Touch,
   ClearPublicationClaim, lifecycle, effects, publication, claims

\* A step of a row keeps that row consistent.
LEMMA RowConsistent ==
  ASSUME TypeOK, TypeOK', NEW j \in Jobs, Consistent(j), RowStep(j)
  PROVE  Consistent(j)'
<1> USE DEF lifecycle, effects, publication, claims
<1>1. CASE Record(j)
  BY <1>1 DEF Record, Touch, Consistent, Owned, Reserved, Closed, Published,
       TypeOK
<1>2. ASSUME NEW p \in Publishers, ClaimPublication(j, p)
      PROVE  Consistent(j)'
  <2>1. /\ claimToken'[j] = p /\ claimGeneration'[j] = desired[j]
        /\ p # NoClaim /\ desired[j] >= 1
    BY <1>2, ConstantsAssumption
       DEF ClaimPublication, Consistent, Published, TypeOK
  <2> QED
    BY <1>2, <2>1 DEF ClaimPublication, Consistent, Owned, Reserved, Closed,
         Published, TypeOK
<1>3. ASSUME NEW p \in Publishers, NEW g \in 1..desired[j],
             ConfirmPublication(j, p, g) \/ FailPublication(j, p, g)
      PROVE  Consistent(j)'
  <2>1. /\ claimToken'[j] = NoClaim /\ claimGeneration'[j] = 0
        /\ confirmed'[j] <= desired[j]
    BY <1>3 DEF ConfirmPublication, FailPublication, ClearPublicationClaim,
         Consistent, Published, TypeOK
  <2> QED
    BY <1>3, <2>1 DEF ConfirmPublication, FailPublication, Consistent, Owned,
         Reserved, Closed, Published, TypeOK
<1>4. ASSUME NEW g \in 1..desired[j], ResolveExecutable(j, g)
      PROVE  Consistent(j)'
  <2>1. effectBoundary[j] = 0 /\ completion[j] = "none"
    BY <1>4 DEF ResolveExecutable, Deliverable, Waiting, Consistent, Reserved,
         Closed, TypeOK
  <2> QED
    BY <1>4, <2>1 DEF ResolveExecutable, Deliverable, Waiting, Live, Consistent,
         Owned, Reserved, Closed, Published, TypeOK
<1>5. ASSUME NEW g \in 1..desired[j], NEW invalid \in BOOLEAN,
             ResolveDead(j, g, invalid)
      PROVE  Consistent(j)'
  <2>1. Owned(j)' /\ Reserved(j)' /\ Closed(j)'
    BY <1>5, FinishConsistent DEF ResolveDead, Deliverable, Outcomes
  <2>2. state[j] \in Live /\ state'[j] # "absent"
    BY <1>5 DEF ResolveDead, Deliverable, Live, Waiting, Finish, Persisted,
         Requested, TypeOK
  <2> QED
    BY <1>5, <2>1, <2>2 DEF ResolveDead, Consistent, Published, TypeOK, Live,
         Waiting
<1>6. ASSUME NEW g \in 1..desired[j], NEW horizon \in BOOLEAN,
             AdvancePublication(j, g, horizon)
      PROVE  Consistent(j)'
  BY <1>6 DEF AdvancePublication, Waiting, Consistent, Owned, Reserved, Closed,
       Published, TypeOK
<1>7. ASSUME NEW t \in 1..AttemptLimit, CrossBoundary(j, t)
      PROVE  Consistent(j)'
  BY <1>7 DEF CrossBoundary, Current, Consistent, Owned, Reserved, Closed,
       Published, TypeOK
<1>8. ASSUME NEW t \in 1..AttemptLimit, CompleteTurn(j, t)
      PROVE  Consistent(j)'
  BY <1>8 DEF CompleteTurn, Fenced, Current, Consistent, Owned, Reserved,
       Closed, Published, TypeOK
<1>9. ASSUME NEW t \in 1..AttemptLimit, NEW outcome \in Outcomes,
             ApplyOutcome(j, t, outcome) \/ RecoverExpired(j, t, outcome)
      PROVE  Consistent(j)'
  <2>1. Owned(j)' /\ Reserved(j)' /\ Closed(j)'
    BY <1>9, FinishConsistent DEF ApplyOutcome, RecoverExpired, Current
  <2>2. state[j] \in Live /\ state'[j] # "absent"
    BY <1>9 DEF ApplyOutcome, RecoverExpired, Current, Live, Finish, Persisted,
         Requested, Outcomes, TypeOK
  <2>3. /\ desired'[j] >= desired[j]
        /\ UNCHANGED <<confirmed, claimToken, claimGeneration>>
    BY <1>9 DEF ApplyOutcome, RecoverExpired, TypeOK
  <2> QED
    BY <2>1, <2>2, <2>3 DEF Consistent, Published, TypeOK
<1>10. CASE DeleteRetained(j)
  BY <1>10 DEF DeleteRetained, Terminal, Live, Consistent, Owned, Reserved,
       Closed, Published, TypeOK
<1>11. CASE TimePasses(j)
  BY <1>11 DEF TimePasses, BecomeEligible, DeadlinePasses,
       PublicationBecomesDue, ClaimLapses, HorizonPasses, Consistent, Owned,
       Reserved, Closed, Published
<1> QED
  BY <1>1, <1>2, <1>3, <1>4, <1>5, <1>6, <1>7, <1>8, <1>9, <1>10, <1>11
     DEF RowStep

\* The inductive invariant holds of the empty table.
LEMMA InvariantInit == Init => IInv
  BY TypeInit DEF IInv, Init, Consistent, Owned, Reserved, Closed, Published,
     Live, Waiting, Terminal

\* Every step preserves the inductive invariant.
LEMMA InvariantStep == IInv /\ [Next]_jobVars => IInv'
<1> SUFFICES ASSUME IInv, [Next]_jobVars PROVE IInv'
  OBVIOUS
<1>1. TypeOK'
  BY TypeStep DEF IInv
<1>2. CASE UNCHANGED jobVars
  BY <1>1, <1>2 DEF jobVars, lifecycle, effects, publication, claims, IInv,
       Consistent, Owned, Reserved, Closed, Published
<1>3. ASSUME NEW j \in Jobs, RowStep(j), NEW k \in Jobs PROVE Consistent(k)'
  <2>1. CASE k = j
    BY <1>1, <1>3, <2>1, RowConsistent DEF IInv
  <2>2. CASE k # j
    BY <1>3, <2>2, OthersKept DEF IInv, Consistent, Owned, Reserved, Closed,
         Published
  <2> QED
    BY <2>1, <2>2
<1> QED
  BY <1>1, <1>2, <1>3 DEF Next, IInv

\* Every reachable table satisfies the inductive invariant.
THEOREM Consistency == Spec => []IInv
  BY InvariantInit, InvariantStep, PTL DEF Spec

-----------------------------------------------------------------------------
(* What follows from it. *)

\* Whatever deliveries, reports and recoveries the callers present, a job
\* whose effects are reserved is never executed again nor settled as if it had
\* had none.
THEOREM EffectsSafe == Spec => []EffectsNeverReplayed
<1>1. IInv => EffectsNeverReplayed
  BY DEF IInv, Consistent, Reserved, EffectsNeverReplayed, Waiting
<1> QED
  BY <1>1, Consistency, PTL

\* No transaction is ever refused by a CHECK constraint of the table.
THEOREM ConstraintsHold == Spec => []RowConstraints
<1>1. IInv => RowConstraints
  <2> SUFFICES ASSUME IInv, NEW j \in Jobs PROVE RowConstraints!(j)
    BY DEF RowConstraints
  <2>1. Owned(j) /\ Reserved(j) /\ Published(j)
    BY DEF IInv, Consistent
  <2>2. executionToken[j] \in Nat /\ attemptCount[j] \in Nat
    BY DEF IInv, TypeOK
  <2> QED
    BY <2>1, <2>2 DEF Owned, Reserved, Published
<1> QED
  BY <1>1, Consistency, PTL

\* A diagnostic job's outcome and its turn's completion always agree.
THEOREM OutcomesAgree == Spec => []OutcomeMatchesCompletion
<1>1. IInv => OutcomeMatchesCompletion
  BY ConstantsAssumption
     DEF IInv, Consistent, Closed, OutcomeMatchesCompletion
<1> QED
  BY <1>1, Consistency, PTL

\* The triggers accept every step, of the row it changes and of the others.
LEMMA StepAccepted ==
  ASSUME IInv, NEW j \in Jobs, RowStep(j), NEW k \in Jobs
  PROVE  Accepted(k)
<1> USE DEF lifecycle, effects, publication, claims
<1>1. TypeOK /\ Owned(j) /\ Published(j)
  BY DEF IInv, Consistent
<1>2. CASE k # j
  <2>1. /\ desired[k] \in Nat /\ confirmed[k] \in Nat
        /\ attemptCount[k] \in Nat
    BY <1>1 DEF TypeOK
  <2> QED
    BY <1>1, <1>2, <2>1, OthersKept DEF Accepted
<1>3. CASE k = j /\ state[j] \in Terminal
  <2>1. /\ \/ \E p \in Publishers :
                \/ ClaimPublication(j, p)
                \/ \E g \in 1..desired[j] :
                     ConfirmPublication(j, p, g) \/ FailPublication(j, p, g)
           \/ DeleteRetained(j)
           \/ PublicationBecomesDue(j) \/ ClaimLapses(j) \/ HorizonPasses(j)
    BY <1>3
       DEF RowStep, Record, ResolveExecutable, ResolveDead, Deliverable,
         AdvancePublication, CrossBoundary, CompleteTurn, Fenced, Current,
         ApplyOutcome, RecoverExpired, TimePasses, BecomeEligible,
         DeadlinePasses, Waiting, Terminal, Owned
  <2>2. UNCHANGED <<attemptCount, eligible, executionToken, overdue,
                    effectBoundary, desired>>
    BY <2>1 DEF ClaimPublication, ConfirmPublication, FailPublication,
         DeleteRetained, PublicationBecomesDue, ClaimLapses, HorizonPasses
  <2>3. /\ state'[j] \in {state[j], "deleted"}
        /\ confirmed'[j] >= confirmed[j]
    BY <1>1, <2>1
       DEF ClaimPublication, ConfirmPublication, FailPublication, TypeOK,
         DeleteRetained, PublicationBecomesDue, ClaimLapses, HorizonPasses
  <2> QED
    BY <1>1, <1>3, <2>2, <2>3 DEF Accepted, TypeOK
<1>4. CASE k = j /\ state[j] \notin Terminal
  <2>1. /\ desired'[j] >= desired[j] /\ attemptCount'[j] >= attemptCount[j]
        /\ confirmed'[j] >= confirmed[j]
    BY <1>1
       DEF RowStep, TypeOK, Record, ClaimPublication, ConfirmPublication,
         FailPublication, ResolveExecutable, ResolveDead, AdvancePublication,
         CrossBoundary, CompleteTurn, ApplyOutcome, RecoverExpired,
         DeleteRetained, TimePasses, BecomeEligible, DeadlinePasses,
         PublicationBecomesDue, ClaimLapses, HorizonPasses, Published
  <2>2. effectBoundary[j] # 0 => effectBoundary'[j] = effectBoundary[j]
    BY <1>1
       DEF RowStep, TypeOK, Record, ClaimPublication, ConfirmPublication,
         FailPublication, ResolveExecutable, ResolveDead, AdvancePublication,
         CrossBoundary, CompleteTurn, ApplyOutcome, RecoverExpired,
         DeleteRetained, TimePasses, BecomeEligible, DeadlinePasses,
         PublicationBecomesDue, ClaimLapses, HorizonPasses
  <2>3. overdue[j] /\ executionToken'[j] = executionToken[j] => overdue'[j]
    BY <1>1, ConstantsAssumption
       DEF RowStep, TypeOK, Record, ClaimPublication, ConfirmPublication,
         FailPublication, ResolveExecutable, ResolveDead, AdvancePublication,
         CrossBoundary, CompleteTurn, ApplyOutcome, RecoverExpired,
         DeleteRetained, TimePasses, BecomeEligible, DeadlinePasses,
         PublicationBecomesDue, ClaimLapses, HorizonPasses, Finish, Owned,
         Current, Deliverable, Waiting
  <2> QED
    BY <1>4, <2>1, <2>2, <2>3 DEF Accepted
<1> QED
  BY <1>2, <1>3, <1>4

\* The row triggers never reject a transaction: counters only grow, a settled
\* row keeps its outcome and the boundary and its owner are written once.
THEOREM TriggersHold == Spec => TriggerAccepts
<1>1. IInv /\ [Next]_jobVars => [\A j \in Jobs : Accepted(j)]_jobVars
  BY StepAccepted DEF Next
<1> QED
  BY <1>1, Consistency, PTL DEF Spec, TriggerAccepts

-----------------------------------------------------------------------------
(* The table implements the durable job. *)

\* A row's new state is its durable job's new phase.
LEMMA PhaseUpdate ==
  ASSUME TypeOK, NEW j \in Jobs, NEW s, state' = [state EXCEPT ![j] = s]
  PROVE  phaseOf' = [phaseOf EXCEPT ![j] = Phase(s)]
BY DEF TypeOK, phaseOf, Phase

\* A transaction that finishes an execution, or a job that was never started,
\* settles the durable job or hands it back to be started again.
LEMMA FinishRefines ==
  ASSUME TypeOK, NEW j \in Jobs, Consistent(j), NEW outcome \in Outcomes,
         state[j] \in Waiting \cup {"running"},
         outcome = "retrying" => state[j] = "running" /\ effectBoundary[j] = 0,
         Finish(j, outcome),
         UNCHANGED <<attemptCount, effectBoundary>>
  PROVE  Durable!Settle(j) \/ Durable!Retry(j)
<1> DEFINE s == Persisted(j, Requested(j, outcome))
<1>1. state' = [state EXCEPT ![j] = s]
  BY DEF Finish
<1>2. phaseOf[j] = IF state[j] = "running" THEN "executing" ELSE "accepted"
  BY DEF phaseOf, Phase, Waiting
<1>3. \/ s \in Terminal
      \/ /\ s = "retrying" /\ state[j] = "running"
         /\ effectBoundary[j] = 0 /\ attemptCount[j] < AttemptLimit
  BY ConstantsAssumption
     DEF Requested, Persisted, Outcomes, Terminal, TypeOK
<1> HIDE DEF s
<1>4. phaseOf' = [phaseOf EXCEPT ![j] = Phase(s)]
  BY <1>1, PhaseUpdate
<1>5. CASE s \in Terminal
  <2>1. Phase(s) = "settled"
    BY <1>5 DEF Phase, Terminal, Waiting
  <2> QED
    BY <1>2, <1>4, <2>1 DEF Durable!Settle
<1>6. CASE s = "retrying"
  <2>1. Phase(s) = "accepted"
    BY <1>6 DEF Phase, Waiting
  <2> QED
    BY <1>2, <1>3, <1>4, <1>6, <2>1 DEF Durable!Retry, Terminal
<1> QED
  BY <1>3, <1>5, <1>6

\* A step of one row is a step of its durable job or leaves it alone.
LEMMA RowStepRefines ==
  ASSUME IInv, NEW j \in Jobs, RowStep(j)
  PROVE  Durable!Next \/ UNCHANGED Durable!durableVars
<1> USE DEF lifecycle, effects, publication, claims
<1>1. TypeOK /\ Consistent(j)
  BY DEF IInv
<1>2. CASE Record(j)
  <2>1. phaseOf[j] = "unknown" /\ Phase("queued") = "accepted"
    BY <1>2 DEF Record, phaseOf, Phase, Waiting
  <2>2. Durable!Accept(j)
    BY <1>1, <1>2, <2>1, PhaseUpdate DEF Record, Durable!Accept
  <2> QED
    BY <2>2 DEF Durable!Next
<1>3. ASSUME NEW g \in 1..desired[j], ResolveExecutable(j, g)
      PROVE  Durable!Next
  <2>1. phaseOf[j] = "accepted" /\ Phase("running") = "executing"
    BY <1>3 DEF ResolveExecutable, Deliverable, phaseOf, Phase, Waiting
  <2>2. effectBoundary[j] = 0
    BY <1>1, <1>3
       DEF ResolveExecutable, Deliverable, Waiting, Consistent, Reserved
  <2>3. Durable!Start(j)
    BY <1>1, <1>3, <2>1, <2>2, PhaseUpdate
       DEF ResolveExecutable, Durable!Start
  <2> QED
    BY <2>3 DEF Durable!Next
<1>4. ASSUME NEW t \in 1..AttemptLimit, CrossBoundary(j, t)
      PROVE  Durable!Next
  <2>1. phaseOf[j] = "executing" /\ phaseOf' = phaseOf
    BY <1>4 DEF CrossBoundary, Current, phaseOf, Phase, Waiting
  <2>2. t = attemptCount[j]
    BY <1>1, <1>4 DEF CrossBoundary, Current, Consistent, Owned, TypeOK
  <2>3. Durable!Reserve(j)
    BY <1>4, <2>1, <2>2 DEF CrossBoundary, Durable!Reserve
  <2> QED
    BY <2>3 DEF Durable!Next
<1>5. ASSUME NEW g \in 1..desired[j], NEW invalid \in BOOLEAN,
             ResolveDead(j, g, invalid)
      PROVE  Durable!Next
  BY <1>1, <1>5, FinishRefines
     DEF ResolveDead, Deliverable, Outcomes, Durable!Next
<1>6. ASSUME NEW t \in 1..AttemptLimit, NEW outcome \in Outcomes,
             ApplyOutcome(j, t, outcome) \/ RecoverExpired(j, t, outcome)
      PROVE  Durable!Next
  BY <1>1, <1>6, FinishRefines
     DEF ApplyOutcome, RecoverExpired, Current, Durable!Next
<1>7. CASE DeleteRetained(j)
  <2>1. phaseOf[j] = "settled" /\ Phase("deleted") = "forgotten"
    BY <1>7 DEF DeleteRetained, phaseOf, Phase, Waiting, Terminal
  <2>2. Durable!Forget(j)
    BY <1>1, <1>7, <2>1, PhaseUpdate DEF DeleteRetained, Durable!Forget
  <2> QED
    BY <2>2 DEF Durable!Next
<1>8. CASE UNCHANGED <<state, attemptCount, effectBoundary>>
  BY <1>8 DEF phaseOf, Durable!durableVars
<1>9. CASE \E p \in Publishers :
             \/ ClaimPublication(j, p)
             \/ \E g \in 1..desired[j] :
                  ConfirmPublication(j, p, g) \/ FailPublication(j, p, g)
  BY <1>8, <1>9 DEF ClaimPublication, ConfirmPublication, FailPublication
<1>10. ASSUME NEW g \in 1..desired[j], NEW horizon \in BOOLEAN,
              AdvancePublication(j, g, horizon)
       PROVE  Durable!Next \/ UNCHANGED Durable!durableVars
  BY <1>8, <1>10 DEF AdvancePublication
<1>11. ASSUME NEW t \in 1..AttemptLimit, CompleteTurn(j, t)
       PROVE  Durable!Next \/ UNCHANGED Durable!durableVars
  BY <1>8, <1>11 DEF CompleteTurn
<1>12. CASE TimePasses(j)
  BY <1>8, <1>12 DEF TimePasses, BecomeEligible, DeadlinePasses,
       PublicationBecomesDue, ClaimLapses, HorizonPasses
<1> QED
  BY <1>2, <1>3, <1>4, <1>5, <1>6, <1>7, <1>9, <1>10, <1>11, <1>12
     DEF RowStep

\* The rows implement the durable job: accepted once, started at most
\* AttemptLimit times and never after a reservation, settled once, then
\* forgotten.
THEOREM Implements == Spec => ImplementsDurableJob
<1>1. Init => Durable!Init
  BY DEF Init, Durable!Init, phaseOf, Phase
<1>2. IInv /\ [Next]_jobVars => [Durable!Next]_(Durable!durableVars)
  <2> SUFFICES ASSUME IInv, [Next]_jobVars
               PROVE  Durable!Next \/ UNCHANGED Durable!durableVars
    OBVIOUS
  <2>1. CASE UNCHANGED jobVars
    BY <2>1 DEF jobVars, lifecycle, effects, Durable!durableVars, phaseOf
  <2>2. CASE Next
    BY <2>2, RowStepRefines DEF Next
  <2> QED
    BY <2>1, <2>2
<1> QED
  BY <1>1, <1>2, Consistency, PTL DEF Spec, ImplementsDurableJob, Durable!Spec

=============================================================================
