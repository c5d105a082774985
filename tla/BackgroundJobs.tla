--------------------------- MODULE BackgroundJobs ---------------------------
(***************************************************************************)
(* The durable job table: the background_jobs row and every transaction    *)
(* that repositories/background_jobs.py, the diagnostic execution fence    *)
(* and the product hooks run on it.  The row is the authority of the       *)
(* queue: brokers, publishers and workers only carry hints about it.       *)
(*                                                                         *)
(* One action is one database transaction.  Each locks the row before it   *)
(* reads, so the transactions on a row are serial and atomic.  The module  *)
(* leaves open who calls them: its callers may present any claim, token,   *)
(* generation or outcome, in any order.  JobQueue constrains them.         *)
(*                                                                         *)
(* A timestamp is compared with the clock and nothing else, so each is     *)
(* kept as the one bit those comparisons can see, and the clock is the     *)
(* five actions that let a bit flip.                                       *)
(***************************************************************************)
EXTENDS Integers

CONSTANTS
  Jobs,            \* identities of job rows
  DiagnosticJobs,  \* those that name an existing diagnostic turn; the rest infer
                   \* profiles (or name no turn, which the hook passes over)
  Publishers,      \* publication tasks; a task's name is its claim token
  NoClaim,         \* NULL in publication_claim_token
  AttemptLimit     \* attempt_limit, fixed when the row is recorded

ASSUME ConstantsAssumption ==
  /\ DiagnosticJobs \subseteq Jobs
  /\ NoClaim \notin Publishers
  /\ AttemptLimit \in Nat \ {0}

VARIABLES
  state,           \* the row's state, "absent" before and "deleted" after it
  attemptCount,    \* attempt_count
  eligible,        \* eligible_at <= now
  executionToken,  \* execution_token: the attempt that owns it, 0 for NULL
  overdue,         \* execution_deadline <= now
  effectBoundary,  \* effect_boundary_token: an attempt, 0 for NULL
  desired,         \* desired_generation
  confirmed,       \* confirmed_generation
  publicationDue,  \* publication_eligible_at <= now
  claimToken,      \* publication_claim_token
  claimGeneration, \* publication_claim_generation, 0 for NULL
  claimLapsed,     \* publication_claim_until <= now
  quiet,           \* updated_at is older than the no-progress (for a terminal
                   \* row, the retention) horizon
  completion       \* who appended the turn's turn.completed event

lifecycle == <<state, attemptCount, eligible, executionToken, overdue>>
effects == <<effectBoundary, completion>>
publication == <<desired, confirmed, publicationDue>>
claims == <<claimToken, claimGeneration, claimLapsed>>
jobVars == <<lifecycle, effects, publication, claims, quiet>>

Terminal == {"succeeded", "interrupted", "dead"}
Waiting == {"queued", "retrying"}
Outcomes == {"succeeded", "retrying", "interrupted", "dead"}
Live == Waiting \cup {"running"} \cup Terminal

TypeOK ==
  /\ state \in [Jobs -> Live \cup {"absent", "deleted"}]
  /\ attemptCount \in [Jobs -> 0..AttemptLimit]
  /\ eligible \in [Jobs -> BOOLEAN]
  /\ executionToken \in [Jobs -> 0..AttemptLimit]
  /\ overdue \in [Jobs -> BOOLEAN]
  /\ effectBoundary \in [Jobs -> 0..AttemptLimit]
  /\ desired \in [Jobs -> Nat]
  /\ confirmed \in [Jobs -> Nat]
  /\ publicationDue \in [Jobs -> BOOLEAN]
  /\ claimToken \in [Jobs -> Publishers \cup {NoClaim}]
  /\ claimGeneration \in [Jobs -> Nat]
  /\ claimLapsed \in [Jobs -> BOOLEAN]
  /\ quiet \in [Jobs -> BOOLEAN]
  /\ completion \in [Jobs -> {"none", "execution", "repair"}]

Init ==
  /\ state = [j \in Jobs |-> "absent"]
  /\ attemptCount = [j \in Jobs |-> 0]
  /\ eligible = [j \in Jobs |-> FALSE]
  /\ executionToken = [j \in Jobs |-> 0]
  /\ overdue = [j \in Jobs |-> FALSE]
  /\ effectBoundary = [j \in Jobs |-> 0]
  /\ desired = [j \in Jobs |-> 0]
  /\ confirmed = [j \in Jobs |-> 0]
  /\ publicationDue = [j \in Jobs |-> FALSE]
  /\ claimToken = [j \in Jobs |-> NoClaim]
  /\ claimGeneration = [j \in Jobs |-> 0]
  /\ claimLapsed = [j \in Jobs |-> FALSE]
  /\ quiet = [j \in Jobs |-> FALSE]
  /\ completion = [j \in Jobs |-> "none"]

-----------------------------------------------------------------------------
(* Conditions the transactions test under the row lock. *)

\* The execution that holds token t is the row's current and unexpired one.
Current(j, t) ==
  /\ state[j] = "running"
  /\ executionToken[j] = t
  /\ ~overdue[j]

\* The fence around a diagnostic execution: Current and owner of the boundary.
Fenced(j, t) ==
  /\ j \in DiagnosticJobs
  /\ Current(j, t)
  /\ effectBoundary[j] = t

\* publication_claim_token, generation and unexpired lease all match.
MatchesPublication(j, p, g) ==
  /\ state[j] \in Live
  /\ claimToken[j] = p
  /\ claimGeneration[j] = g
  /\ ~claimLapsed[j]

\* A delivery of generation g that may change the row.
Deliverable(j, g) ==
  /\ g = desired[j]
  /\ state[j] \in Waiting

-----------------------------------------------------------------------------
(* Writes shared by several transactions. *)

ClearPublicationClaim(j) ==
  /\ claimToken' = [claimToken EXCEPT ![j] = NoClaim]
  /\ claimGeneration' = [claimGeneration EXCEPT ![j] = 0]
  /\ claimLapsed' = [claimLapsed EXCEPT ![j] = FALSE]

Touch(j) == quiet' = [quiet EXCEPT ![j] = FALSE]

\* A retry of the last permitted attempt is a death.
Requested(j, outcome) ==
  IF outcome = "retrying" /\ attemptCount[j] >= AttemptLimit
  THEN "dead" ELSE outcome

\* Faulty: the hook does not look for the turn's completion.
PersistRequested(j, s) == s

\* What the diagnostic hook makes of the state about to be persisted: a turn
\* that completed has succeeded, and reserved effects are never "dead".
Persisted(j, s) ==
  IF j \notin DiagnosticJobs \/ s \notin {"interrupted", "dead"} THEN s
  ELSE IF completion[j] # "none" THEN "succeeded"
  ELSE IF effectBoundary[j] # 0 THEN "interrupted" ELSE s

\* Faulty: interruptions close no turn.
TerminalizeDead(j, s) ==
  completion' =
    [completion EXCEPT ![j] = IF j \in DiagnosticJobs /\ s = "dead" /\ @ = "none"
                              THEN "repair" ELSE @]

\* A terminal failure of a diagnostic turn appends the missing completion.
Terminalize(j, s) ==
  completion' =
    [completion EXCEPT ![j] = IF /\ j \in DiagnosticJobs
                                 /\ s \in {"interrupted", "dead"}
                                 /\ completion[j] = "none"
                              THEN "repair" ELSE @]

\* Faulty: the execution's token survives its outcome.
FinishKeepingToken(j, outcome) ==
  LET requested == Requested(j, outcome)
  IN /\ state' = [state EXCEPT ![j] = Persisted(j, requested)]
     /\ UNCHANGED <<executionToken, overdue>>
     /\ eligible' = [eligible EXCEPT ![j] = @ /\ requested # "retrying"]
     /\ Terminalize(j, requested)
     /\ Touch(j)

Finish(j, outcome) ==
  LET requested == Requested(j, outcome)
  IN /\ state' = [state EXCEPT ![j] = Persisted(j, requested)]
     /\ executionToken' = [executionToken EXCEPT ![j] = 0]
     /\ overdue' = [overdue EXCEPT ![j] = FALSE]
     /\ eligible' = [eligible EXCEPT ![j] = @ /\ requested # "retrying"]
     /\ Terminalize(j, requested)
     /\ Touch(j)

-----------------------------------------------------------------------------
(* Transactions of the producer and of the publication loop. *)

Record(j) ==
  /\ state[j] = "absent"
  /\ state' = [state EXCEPT ![j] = "queued"]
  /\ eligible' = [eligible EXCEPT ![j] = TRUE]
  /\ desired' = [desired EXCEPT ![j] = 1]
  /\ publicationDue' = [publicationDue EXCEPT ![j] = TRUE]
  /\ Touch(j)
  /\ UNCHANGED <<attemptCount, executionToken, overdue, effects, confirmed,
                 claims>>

ClaimPublication(j, p) ==
  /\ state[j] \in Live
  /\ desired[j] > confirmed[j]
  /\ publicationDue[j]
  /\ claimToken[j] = NoClaim \/ claimLapsed[j]
  /\ claimToken' = [claimToken EXCEPT ![j] = p]
  /\ claimGeneration' = [claimGeneration EXCEPT ![j] = desired[j]]
  /\ claimLapsed' = [claimLapsed EXCEPT ![j] = FALSE]
  /\ Touch(j)
  /\ UNCHANGED <<lifecycle, effects, publication>>

\* Faulty: leaves the claim on the confirmed row.
ConfirmKeepingClaim(j, p, g) ==
  /\ MatchesPublication(j, p, g)
  /\ confirmed' = [confirmed EXCEPT ![j] = IF g > @ THEN g ELSE @]
  /\ Touch(j)
  /\ UNCHANGED <<lifecycle, effects, desired, publicationDue, claims>>

ConfirmPublication(j, p, g) ==
  /\ MatchesPublication(j, p, g)
  /\ confirmed' = [confirmed EXCEPT ![j] = IF g > @ THEN g ELSE @]
  /\ ClearPublicationClaim(j)
  /\ Touch(j)
  /\ UNCHANGED <<lifecycle, effects, desired, publicationDue>>

FailPublication(j, p, g) ==
  /\ MatchesPublication(j, p, g)
  /\ publicationDue' = [publicationDue EXCEPT ![j] = FALSE]
  /\ ClearPublicationClaim(j)
  /\ Touch(j)
  /\ UNCHANGED <<lifecycle, effects, desired, confirmed>>

-----------------------------------------------------------------------------
(* Transactions of a worker.  A resolution that only classifies the        *)
(* delivery (terminal, stale, early, running, ...) leaves the row alone.   *)

ResolveExecutable(j, g) ==
  /\ Deliverable(j, g)
  /\ eligible[j]
  /\ attemptCount[j] < AttemptLimit
  /\ state' = [state EXCEPT ![j] = "running"]
  /\ attemptCount' = [attemptCount EXCEPT ![j] = @ + 1]
  /\ executionToken' = [executionToken EXCEPT ![j] = attemptCount[j] + 1]
  /\ overdue' = [overdue EXCEPT ![j] = FALSE]
  /\ Touch(j)
  /\ UNCHANGED <<eligible, effects, publication, claims>>

\* The registry rejects the stored definition, or no attempt is left.
ResolveDead(j, g, definitionInvalid) ==
  /\ Deliverable(j, g)
  /\ ~definitionInvalid => eligible[j] /\ attemptCount[j] >= AttemptLimit
  /\ Finish(j, "dead")
  /\ UNCHANGED <<attemptCount, effectBoundary, publication, claims>>

\* Faulty: a replaced execution may cross for its successor.
CrossReplaced(j, t) ==
  /\ j \in DiagnosticJobs
  /\ state[j] = "running" /\ t <= executionToken[j]
  /\ effectBoundary[j] = 0
  /\ effectBoundary' = [effectBoundary EXCEPT ![j] = t]
  /\ UNCHANGED <<lifecycle, completion, publication, claims, quiet>>

CrossBoundary(j, t) ==
  /\ j \in DiagnosticJobs
  /\ Current(j, t)
  /\ effectBoundary[j] = 0
  /\ effectBoundary' = [effectBoundary EXCEPT ![j] = t]
  /\ UNCHANGED <<lifecycle, completion, publication, claims, quiet>>

\* The product transaction that appends turn.completed; the job row is only
\* locked and checked.
CompleteTurn(j, t) ==
  /\ Fenced(j, t)
  /\ completion' = [completion EXCEPT ![j] = "execution"]
  /\ UNCHANGED <<lifecycle, effectBoundary, publication, claims, quiet>>

ApplyOutcome(j, t, outcome) ==
  /\ Current(j, t)
  /\ outcome = "retrying" => effectBoundary[j] = 0
  /\ Finish(j, outcome)
  /\ UNCHANGED <<attemptCount, effectBoundary, publication, claims>>

-----------------------------------------------------------------------------
(* Transactions of reconciliation, reconstruction and cleanup. *)

\* Faulty: recovery retries whatever the policy or the boundary says.
RecoverReplaying(j, t, outcome) ==
  /\ state[j] = "running"
  /\ executionToken[j] = t
  /\ overdue[j]
  /\ attemptCount[j] < AttemptLimit
  /\ Finish(j, "retrying")
  /\ desired' = [desired EXCEPT ![j] = @ + 1]
  /\ publicationDue' = [publicationDue EXCEPT ![j] = FALSE]
  /\ UNCHANGED <<attemptCount, effectBoundary, confirmed, claims>>

RecoverExpired(j, t, outcome) ==
  /\ outcome # "succeeded"
  /\ state[j] = "running"
  /\ executionToken[j] = t
  /\ overdue[j]
  /\ outcome = "retrying" => effectBoundary[j] = 0
  /\ Finish(j, outcome)
  /\ LET again == Requested(j, outcome) = "retrying"
     IN /\ desired' = [desired EXCEPT ![j] = IF again THEN @ + 1 ELSE @]
        /\ publicationDue' =
             [publicationDue EXCEPT ![j] = @ /\ ~again]
  /\ UNCHANGED <<attemptCount, effectBoundary, confirmed, claims>>

\* Faulty: settled rows are republished too.
AdvanceSettled(j, observed, horizon) ==
  /\ state[j] \in Terminal
  /\ desired[j] = observed
  /\ desired' = [desired EXCEPT ![j] = @ + 1]
  /\ publicationDue' = [publicationDue EXCEPT ![j] = TRUE]
  /\ Touch(j)
  /\ UNCHANGED <<lifecycle, effects, confirmed, claims>>

\* Faulty: the repair reuses the generation that was already confirmed.
AdvanceNothing(j, observed, horizon) ==
  /\ state[j] \in Waiting
  /\ desired[j] = observed
  /\ horizon => quiet[j]
  /\ publicationDue' = [publicationDue EXCEPT ![j] = TRUE]
  /\ Touch(j)
  /\ UNCHANGED <<lifecycle, effects, desired, confirmed, claims>>

\* horizon: whether the caller passes no_progress_before (reconciliation) or
\* coalesce_pending (reconstruction).
AdvancePublication(j, observed, horizon) ==
  /\ state[j] \in Waiting
  /\ effectBoundary[j] = 0
  /\ eligible[j]
  /\ attemptCount[j] < AttemptLimit
  /\ ~horizon => \/ confirmed[j] = desired[j]
                 \/ claimGeneration[j] = desired[j]
  /\ desired[j] = observed
  /\ horizon => quiet[j]
  /\ desired' = [desired EXCEPT ![j] = @ + 1]
  /\ publicationDue' = [publicationDue EXCEPT ![j] = TRUE]
  /\ Touch(j)
  /\ UNCHANGED <<lifecycle, effects, confirmed, claims>>

DeleteRetained(j) ==
  /\ state[j] \in Terminal
  /\ quiet[j]
  /\ desired[j] = confirmed[j]
  /\ claimToken[j] = NoClaim
  /\ state' = [state EXCEPT ![j] = "deleted"]
  /\ UNCHANGED <<attemptCount, eligible, executionToken, overdue, effects,
                 publication, claims, quiet>>

-----------------------------------------------------------------------------
(* The clock passes eligible_at, a deadline, a due time, a lease, a horizon. *)

BecomeEligible(j) ==
  /\ state[j] = "retrying" /\ ~eligible[j]
  /\ eligible' = [eligible EXCEPT ![j] = TRUE]
  /\ UNCHANGED <<state, attemptCount, executionToken, overdue, effects,
                 publication, claims, quiet>>

DeadlinePasses(j) ==
  /\ state[j] = "running" /\ ~overdue[j]
  /\ overdue' = [overdue EXCEPT ![j] = TRUE]
  /\ UNCHANGED <<state, attemptCount, eligible, executionToken, effects,
                 publication, claims, quiet>>

PublicationBecomesDue(j) ==
  /\ state[j] \in Live /\ ~publicationDue[j]
  /\ publicationDue' = [publicationDue EXCEPT ![j] = TRUE]
  /\ UNCHANGED <<lifecycle, effects, desired, confirmed, claims, quiet>>

ClaimLapses(j) ==
  /\ claimToken[j] # NoClaim /\ ~claimLapsed[j]
  /\ claimLapsed' = [claimLapsed EXCEPT ![j] = TRUE]
  /\ UNCHANGED <<lifecycle, effects, publication, claimToken,
                 claimGeneration, quiet>>

HorizonPasses(j) ==
  /\ state[j] \in Live /\ ~quiet[j]
  /\ quiet' = [quiet EXCEPT ![j] = TRUE]
  /\ UNCHANGED <<lifecycle, effects, publication, claims>>

TimePasses(j) ==
  \/ BecomeEligible(j) \/ DeadlinePasses(j) \/ PublicationBecomesDue(j)
  \/ ClaimLapses(j) \/ HorizonPasses(j)

-----------------------------------------------------------------------------
(* The table under arbitrary callers. *)

RowStep(j) ==
  \/ Record(j)
  \/ \E p \in Publishers :
       \/ ClaimPublication(j, p)
       \/ \E g \in 1..desired[j] :
            ConfirmPublication(j, p, g) \/ FailPublication(j, p, g)
  \/ \E g \in 1..desired[j] :
       \/ ResolveExecutable(j, g)
       \/ \E invalid \in BOOLEAN : ResolveDead(j, g, invalid)
       \/ \E horizon \in BOOLEAN : AdvancePublication(j, g, horizon)
  \/ \E t \in 1..AttemptLimit :
       \/ CrossBoundary(j, t)
       \/ CompleteTurn(j, t)
       \/ \E outcome \in Outcomes :
            ApplyOutcome(j, t, outcome) \/ RecoverExpired(j, t, outcome)
  \/ DeleteRetained(j)
  \/ TimePasses(j)

Next == \E j \in Jobs : RowStep(j)

Spec == Init /\ [][Next]_jobVars

-----------------------------------------------------------------------------
(* Properties. *)

\* The CHECK constraints of models/background_job.py that relate columns: no
\* transaction is ever refused by the table it writes.
RowConstraints ==
  \A j \in Jobs :
    /\ confirmed[j] <= desired[j]
    /\ (state[j] \in Live) => desired[j] >= 1
    /\ (claimToken[j] = NoClaim) = (claimGeneration[j] = 0)
    /\ claimGeneration[j] <= desired[j]
    /\ (state[j] = "running") = (executionToken[j] # 0)
    /\ executionToken[j] # 0 => attemptCount[j] > 0
    /\ effectBoundary[j] # 0 => attemptCount[j] > 0

\* What the row triggers require of an update of row j.
Accepted(j) ==
  /\ desired'[j] >= desired[j]
  /\ confirmed'[j] >= confirmed[j]
  /\ attemptCount'[j] >= attemptCount[j]
  /\ state[j] \in Terminal =>
       /\ state'[j] \in {state[j], "deleted"}
       /\ attemptCount'[j] = attemptCount[j]
       /\ eligible'[j] = eligible[j]
       /\ executionToken'[j] = executionToken[j]
       /\ effectBoundary'[j] = effectBoundary[j]
       /\ desired'[j] = desired[j]
  /\ effectBoundary[j] # 0 => effectBoundary'[j] = effectBoundary[j]
  /\ overdue[j] /\ executionToken'[j] = executionToken[j] => overdue'[j]

\* The triggers protect_background_job and protect_diagnostic_effect_token:
\* counters never decrease, a settled row keeps its outcome, the boundary and
\* its owner are written once, and a deadline is not renewed under one token.
TriggerAccepts == [][\A j \in Jobs : Accepted(j)]_jobVars

\* Once an execution has crossed the effect boundary, no other execution ever
\* holds the job: it is that execution's, or it is settled, and a diagnostic
\* job is not settled as "dead", which would deny that effects took place.
EffectsNeverReplayed ==
  \A j \in Jobs :
    effectBoundary[j] # 0 =>
      /\ state[j] \notin Waiting
      /\ state[j] # "dead"
      /\ state[j] = "running" => executionToken[j] = effectBoundary[j]

\* The job's outcome and the turn's events never contradict one another: a
\* failed diagnostic job has had its turn closed by the repair, a repair is
\* made only for a failed one, and no execution completes a turn that another
\* execution reserved.
OutcomeMatchesCompletion ==
  \A j \in DiagnosticJobs :
    /\ state[j] \in {"interrupted", "dead"} => completion[j] = "repair"
    /\ completion[j] = "repair" =>
         state[j] \in {"interrupted", "dead", "deleted"}
    /\ completion[j] = "execution" => effectBoundary[j] # 0

\* The rows implement the durable job: the row's state is its phase, the
\* attempts are its starts and the boundary is its reservation.
Phase(s) ==
  IF s = "absent" THEN "unknown"
  ELSE IF s \in Waiting THEN "accepted"
  ELSE IF s = "running" THEN "executing"
  ELSE IF s = "deleted" THEN "forgotten"
  ELSE "settled"

phaseOf == [j \in Jobs |-> Phase(state[j])]

Durable == INSTANCE DurableJob
             WITH phase <- phaseOf, starts <- attemptCount,
                  reserved <- effectBoundary

ImplementsDurableJob == Durable!Spec
=============================================================================
