----------------------- MODULE ProfileInferenceProofs -----------------------
(***************************************************************************)
(* Proofs about ProfileInference and the ledger it writes, for any turns,  *)
(* attempts, policies, extractions and edits.                              *)
(*                                                                         *)
(* First the control: what an inference run, the job that carries it and   *)
(* the attempts of that job know of one another.  Then the ledger: an      *)
(* invariant of it, which every single write preserves, a manual edit or   *)
(* the resolution of one finding, and then every sequence of writes that   *)
(* one transaction makes.  Last the bike: both together, and the           *)
(* properties of ProfileInference that follow.                             *)
(***************************************************************************)
EXTENDS ProfileInference, TLAPS, NaturalsInduction, SequenceTheorems,
        FiniteSetTheorems

-----------------------------------------------------------------------------
(* The inductive invariant.  That a settled job's run is over is not        *)
(* inductive: it rests on what the attempt that settles the job reports,    *)
(* and that an attempt the fence refuses no longer changes the run.         *)

Statuses == TerminalRuns \cup {"started", "retryable_failure"}

ControlTyped ==
  /\ clock \in Nat
  /\ created \in [Turns -> Nat]
  /\ job \in [Turns -> {"absent", "ready", "running", "succeeded", "dead"}]
  /\ attempts \in [Turns -> 0 .. AttemptLimit]
  /\ run \in [Turns -> Statuses \cup {"none"}]

\* What an attempt is about to do is known for each one.
AttemptsKnown ==
  /\ DOMAIN exec = Turns
  /\ \A t \in Turns : DOMAIN exec[t] = Attempts

\* A turn not accepted has no job, and without a job there is no run.
Unstarted(t) ==
  /\ created[t] = 0 => job[t] = "absent"
  /\ job[t] = "absent" => run[t] = "none"

\* The attempt that may still write reports the status its run has; one that
\* skipped its turn did so because the bike is gone.
Reported(t) ==
  \A a \in Attempts : exec[t][a].step = "settle" =>
    /\ exec[t][a].outcome \in Statuses \cup {"skipped"}
    /\ exec[t][a].outcome = "skipped" => deleted = "deleted"
    /\ Fenced(t, a) /\ exec[t][a].outcome # "skipped" =>
         run[t] = exec[t][a].outcome

\* A run of a settled job is over; it ended well if the job did and the bike is
\* still there.
Ended(t) ==
  /\ job[t] \in {"succeeded", "dead"} => run[t] \in TerminalRuns \cup {"none"}
  /\ job[t] = "succeeded" /\ deleted # "deleted" =>
       run[t] \in {"completed", "abstained"}

ControlIInv ==
  /\ ControlTyped
  /\ AttemptsKnown
  /\ \A t \in Turns : Unstarted(t) /\ Reported(t) /\ Ended(t)

-----------------------------------------------------------------------------
(* Every step preserves it. *)

\* A settling or retrying job leaves its run over, or open for another attempt.
LEMMA RunCarriedAlong ==
  ASSUME NEW t \in Turns, run[t] \in Statuses \cup {"none"},
         NEW s \in {"ready", "succeeded", "dead"}, NEW error
  PROVE  LET r == RunAfterTransition(t, s, error)
         IN  /\ r \in Statuses \cup {"none"}
             /\ s # "ready" => r \in TerminalRuns \cup {"none"}
             /\ run[t] \in {"completed", "abstained"} => r = run[t]
BY DEF RunAfterTransition, Statuses, TerminalRuns

\* A step that gives attempt a of turn t something else to do, and no outcome to
\* report, keeps what is said of every attempt.
LEMMA NothingToReport ==
  ASSUME ControlIInv, NEW t \in Turns, NEW a \in Attempts, NEW e,
         e.step # "settle", Goes(t, a, e),
         UNCHANGED <<clock, created, job, attempts, run, deleted>>
  PROVE  ControlIInv'
<1>1. ControlTyped' /\ AttemptsKnown'
  BY DEF ControlIInv, ControlTyped, AttemptsKnown, Goes
<1>2. ASSUME NEW u \in Turns PROVE Reported(u)'
  <2>1. \A b \in Attempts : exec'[u][b] \in {exec[u][b], e}
    BY DEF ControlIInv, AttemptsKnown, Goes
  <2>2. \A b \in Attempts : exec'[u][b].step = "settle" => exec'[u][b] = exec[u][b]
    BY <2>1
  <2> QED
    BY <2>2 DEF ControlIInv, Reported, Fenced
<1> QED
  BY <1>1, <1>2 DEF ControlIInv, Unstarted, Ended

\* The current attempt writes the run's status and, if it is to report, that one.
LEMMA CurrentWrites ==
  ASSUME ControlIInv, NEW t \in Turns, NEW a \in Attempts, Fenced(t, a),
         NEW e, NEW status \in Statuses, Goes(t, a, e),
         run' = [run EXCEPT ![t] = status],
         e.step = "settle" => e.outcome = status,
         UNCHANGED <<clock, created, job, attempts, deleted>>
  PROVE  ControlIInv'
<1>1. ControlTyped' /\ AttemptsKnown'
  BY DEF ControlIInv, ControlTyped, AttemptsKnown, Goes
<1>2. run'[t] = status /\ \A u \in Turns \ {t} : run'[u] = run[u]
  BY DEF ControlIInv, ControlTyped
<1>3. ASSUME NEW u \in Turns PROVE Reported(u)'
  <2>1. CASE u # t
    <3>1. exec'[u] = exec[u]
      BY <2>1 DEF ControlIInv, AttemptsKnown, Goes
    <3> QED
      BY <1>2, <2>1, <3>1 DEF ControlIInv, Reported, Fenced
  <2>2. CASE u = t
    <3>1. /\ exec'[t][a] = e
          /\ \A b \in Attempts \ {a} : exec'[t][b] = exec[t][b] /\ ~Fenced(t, b)
      BY DEF ControlIInv, AttemptsKnown, Goes, Fenced
    <3>2. status # "skipped"
      BY DEF Statuses, TerminalRuns
    <3> QED
      BY <1>2, <2>2, <3>1, <3>2 DEF ControlIInv, Reported, Fenced
  <2> QED
    BY <2>1, <2>2
<1>4. ASSUME NEW u \in Turns PROVE Unstarted(u)' /\ Ended(u)'
  BY <1>2 DEF ControlIInv, Unstarted, Ended, Fenced
<1> QED
  BY <1>1, <1>3, <1>4 DEF ControlIInv

\* An attempt that is to report what its run already says, or that it skipped
\* the turn of a bike that is gone.
LEMMA ReportsWhatIs ==
  ASSUME ControlIInv, NEW t \in Turns, NEW a \in Attempts,
         NEW status \in Statuses \cup {"skipped"}, Goes(t, a, ToSettle(status)),
         \/ status # "skipped" /\ status = run[t]
         \/ status = "skipped" /\ deleted = "deleted",
         UNCHANGED <<clock, created, job, attempts, run, deleted>>
  PROVE  ControlIInv'
<1>1. ControlTyped' /\ AttemptsKnown'
  BY DEF ControlIInv, ControlTyped, AttemptsKnown, Goes
<1>2. ToSettle(status).outcome = status
  BY DEF ToSettle, Idle
<1>3. ASSUME NEW u \in Turns PROVE Reported(u)'
  <2>1. \A b \in Attempts :
          \/ exec'[u][b] = exec[u][b]
          \/ u = t /\ b = a /\ exec'[u][b] = ToSettle(status)
    BY DEF ControlIInv, AttemptsKnown, Goes
  <2> QED
    BY <1>2, <2>1 DEF ControlIInv, Reported, Fenced
<1> QED
  BY <1>1, <1>3 DEF ControlIInv, Unstarted, Ended

\* The job of a turn that ran becomes ready or settles: no attempt is current
\* any more.
LEMMA JobMoves ==
  ASSUME ControlIInv, NEW t \in Turns, job[t] = "running",
         NEW s \in {"ready", "succeeded", "dead"}, NEW error,
         Transition(t, s, error),
         s = "succeeded" =>
           deleted = "deleted" \/ run[t] \in {"completed", "abstained"},
         AttemptsKnown',
         \A u \in Turns : \A b \in Attempts :
           exec'[u][b].step = "settle" => exec'[u][b] = exec[u][b],
         UNCHANGED <<clock, created, attempts, deleted>>
  PROVE  ControlIInv'
<1> DEFINE r == RunAfterTransition(t, s, error)
<1>1. /\ r \in Statuses \cup {"none"}
      /\ s # "ready" => r \in TerminalRuns \cup {"none"}
      /\ run[t] \in {"completed", "abstained"} => r = run[t]
  BY RunCarriedAlong DEF ControlIInv, ControlTyped
<1>2. /\ job' = [job EXCEPT ![t] = s] /\ run' = [run EXCEPT ![t] = r]
  BY DEF Transition
<1> HIDE DEF r
<1>3. ControlTyped'
  BY <1>1, <1>2 DEF ControlIInv, ControlTyped
<1>4. ASSUME NEW u \in Turns
      PROVE  /\ u # t => job'[u] = job[u] /\ run'[u] = run[u]
             /\ u = t => job'[u] = s /\ run'[u] = r
  BY <1>2 DEF ControlIInv, ControlTyped
<1>5. ASSUME NEW u \in Turns PROVE Reported(u)'
  BY <1>4 DEF ControlIInv, Reported, Fenced
<1>6. ASSUME NEW u \in Turns PROVE Unstarted(u)' /\ Ended(u)'
  BY <1>1, <1>4 DEF ControlIInv, Unstarted, Ended
<1> QED
  BY <1>3, <1>5, <1>6 DEF ControlIInv

\* What an attempt does preserves the invariant.
LEMMA AttemptKeeps ==
  ASSUME ControlIInv, NEW t \in Turns, NEW a \in Attempts, Attempt(t, a)
  PROVE  ControlIInv'
<1> USE DEF bikeVars, jobVars
<1> DEFINE e == exec[t][a]
<1>1. CASE Expelled(t, a) \/ (BikeUnavailable(t, a) /\ Gone(t, a))
  BY <1>1, NothingToReport DEF Expelled, Gone, Idle
<1>2. CASE Skip(t, a)
  BY <1>2, ReportsWhatIs DEF Skip
<1>3. CASE Begin(t, a)
  <2>1. CASE run[t] \in TerminalRuns
    BY <1>3, <2>1, ReportsWhatIs DEF Begin, Statuses, TerminalRuns
  <2>2. CASE run[t] \notin TerminalRuns
    BY <1>3, <2>2, CurrentWrites DEF Begin, Statuses, Idle
  <2> QED
    BY <2>1, <2>2
<1>4. ASSUME NEW status \in Statuses, Fenced(t, a), Finish(t, a, status),
             UNCHANGED <<clock, created, job, attempts, deleted>>
      PROVE  ControlIInv'
  BY <1>4, CurrentWrites DEF Finish, ToSettle, Idle
<1>5. /\ RetryableStatus(a) \in Statuses
      /\ {"terminal_failure", "abstained", "completed"} \subseteq Statuses
  BY DEF RetryableStatus, Statuses, TerminalRuns
<1>6. CASE PhotosFail(t, a) \/ ProviderFails(t, a)
  BY <1>4, <1>5, <1>6 DEF PhotosFail, ProviderFails
<1>7. CASE Extract(t, a)
  <2>1. CASE run[t] \in TerminalRuns
    BY <1>7, <2>1, ReportsWhatIs DEF Extract, Statuses, TerminalRuns
  <2>2. CASE \E status \in Statuses : Finish(t, a, status)
    BY <1>4, <1>7, <2>2 DEF Extract
  <2>3. ASSUME NEW findings,
               Goes(t, a, [Idle EXCEPT !.step = "resolve", !.findings = findings]),
               UNCHANGED run
        PROVE  ControlIInv'
    <3>1. [Idle EXCEPT !.step = "resolve", !.findings = findings].step # "settle"
      BY DEF Idle
    <3> QED
      BY <1>7, <2>3, <3>1, NothingToReport DEF Extract
  <2> QED
    BY <1>5, <1>7, <2>1, <2>2, <2>3 DEF Extract
<1>8. CASE ResolveEvidence(t, a)
  BY <1>4, <1>5, <1>8 DEF ResolveEvidence
<1>9. CASE ResolutionFails(t, a)
  <2>1. CASE Finish(t, a, RetryableStatus(a))
    BY <1>4, <1>5, <1>9, <2>1 DEF ResolutionFails
  <2>2. CASE Goes(t, a, [e EXCEPT !.tries = @ + 1]) /\ UNCHANGED run
    <3>1. [e EXCEPT !.tries = @ + 1].step # "settle"
      BY <1>9 DEF ResolutionFails, At
    <3> QED
      BY <1>9, <2>2, <3>1, NothingToReport DEF ResolutionFails
  <2> QED
    BY <1>9, <2>1, <2>2 DEF ResolutionFails
<1>10. CASE BikeUnavailable(t, a) /\ Finish(t, a, "terminal_failure")
  BY <1>4, <1>5, <1>10 DEF BikeUnavailable, Gone, Finish, Goes, ToSettle, Idle
<1>11. CASE SettleJob(t, a)
  <2>1. /\ job[t] = "running" /\ e.outcome \in Statuses \cup {"skipped"}
        /\ e.outcome = "skipped" => deleted = "deleted"
        /\ e.outcome # "skipped" => run[t] = e.outcome
    BY <1>11 DEF SettleJob, At, Fenced, ControlIInv, Reported
  <2>2. PICK s \in {"ready", "succeeded", "dead"},
             error \in {"none", "attempts_exhausted", "permanent_failure",
                        "provider_unavailable"} :
          /\ Transition(t, s, error)
          /\ s = "succeeded" => e.outcome \in {"completed", "abstained", "skipped"}
    BY <1>11, <2>1 DEF SettleJob, Statuses, TerminalRuns
  <2>3. /\ AttemptsKnown'
        /\ \A u \in Turns : \A b \in Attempts :
             exec'[u][b].step = "settle" => exec'[u][b] = exec[u][b]
    BY <1>11 DEF SettleJob, Goes, Idle, ControlIInv, AttemptsKnown
  <2>4. UNCHANGED <<clock, created, attempts, deleted>>
    BY <1>11 DEF SettleJob
  <2> QED
    BY <2>1, <2>2, <2>3, <2>4, JobMoves
<1> QED
  BY <1>1, <1>2, <1>3, <1>6, <1>7, <1>8, <1>9, <1>10, <1>11
     DEF Attempt, BikeUnavailable

\* So does what riders, turns and the job table do.
LEMMA OthersKeep ==
  ASSUME ControlIInv,
         \/ UpdateBike \/ CheckHistory \/ SoftDelete
         \/ \E t \in Turns : AcceptTurn(t) \/ StartAttempt(t) \/ Recover(t)
  PROVE  ControlIInv'
<1> USE DEF bikeVars, jobVars
<1>1. CASE UpdateBike \/ CheckHistory \/ SoftDelete
  <2>1. /\ UNCHANGED <<created, job, attempts, run, exec>>
        /\ clock' \in {clock, clock + 1}
        /\ deleted = "deleted" => deleted' = "deleted"
    BY <1>1 DEF UpdateBike, CheckHistory, SoftDelete
  <2> QED
    BY <2>1 DEF ControlIInv, ControlTyped, AttemptsKnown, Unstarted, Reported,
       Ended, Fenced
<1>2. ASSUME NEW t \in Turns, AcceptTurn(t) PROVE ControlIInv'
  <2>1. /\ job' = [job EXCEPT ![t] = "ready"]
        /\ created' = [created EXCEPT ![t] = clock + 1] /\ clock' = clock + 1
        /\ UNCHANGED <<attempts, run, exec, deleted>>
        /\ clock \in Nat /\ job[t] = "absent"
    BY <1>2 DEF AcceptTurn, ControlIInv, ControlTyped, Unstarted
  <2> QED
    BY <2>1 DEF ControlIInv, ControlTyped, AttemptsKnown, Unstarted, Reported,
       Ended, Fenced
<1>3. ASSUME NEW t \in Turns, StartAttempt(t) PROVE ControlIInv'
  <2> DEFINE n == attempts[t] + 1
  <2>1. n \in Attempts /\ n \in 0 .. AttemptLimit
    BY <1>3, ProfileAssumption
       DEF StartAttempt, Attempts, ControlIInv, ControlTyped
  <2>2. /\ job[t] = "ready" /\ job' = [job EXCEPT ![t] = "running"]
        /\ attempts' = [attempts EXCEPT ![t] = n]
        /\ exec' = [exec EXCEPT ![t][n] = [Idle EXCEPT !.step = "begin"]]
        /\ UNCHANGED <<clock, created, run, deleted>>
    BY <1>3 DEF StartAttempt
  <2> HIDE DEF n
  <2>3. ControlTyped' /\ AttemptsKnown'
    BY <2>1, <2>2 DEF ControlIInv, ControlTyped, AttemptsKnown
  <2>4. ASSUME NEW u \in Turns, NEW b \in Attempts, exec'[u][b].step = "settle"
        PROVE  exec'[u][b] = exec[u][b] /\ (Fenced(u, b)' => Fenced(u, b))
    <3>1. exec'[u][b] = exec[u][b] /\ ~(u = t /\ b = n)
      BY <2>1, <2>2, <2>4 DEF ControlIInv, AttemptsKnown, Idle
    <3> QED
      BY <2>2, <3>1 DEF ControlIInv, ControlTyped, Fenced
  <2>5. ASSUME NEW u \in Turns PROVE Reported(u)'
    BY <2>2, <2>4 DEF ControlIInv, Reported
  <2>6. ASSUME NEW u \in Turns PROVE Unstarted(u)' /\ Ended(u)'
    BY <2>2 DEF ControlIInv, ControlTyped, Unstarted, Ended
  <2> QED
    BY <2>3, <2>5, <2>6 DEF ControlIInv
<1>4. ASSUME NEW t \in Turns, Recover(t) PROVE ControlIInv'
  <2>1. PICK s \in {"ready", "dead"},
             error \in {"attempts_exhausted", "execution_lost"} :
          Transition(t, s, error)
    BY <1>4 DEF Recover
  <2>2. job[t] = "running" /\ UNCHANGED <<clock, created, attempts, deleted, exec>>
    BY <1>4 DEF Recover
  <2>3. AttemptsKnown'
    BY <2>2 DEF ControlIInv, AttemptsKnown
  <2> QED
    BY <2>1, <2>2, <2>3, JobMoves
<1> QED
  BY <1>1, <1>2, <1>3, <1>4

\* Initially no turn is accepted.
LEMMA ControlInit == Init => ControlIInv
<1> SUFFICES ASSUME Init PROVE ControlIInv
  OBVIOUS
<1>1. ControlTyped /\ AttemptsKnown
  BY ProfileAssumption DEF Init, ControlTyped, AttemptsKnown
<1>2. ASSUME NEW t \in Turns PROVE Unstarted(t) /\ Reported(t) /\ Ended(t)
  BY DEF Init, Unstarted, Reported, Ended, Idle
<1> QED
  BY <1>1, <1>2 DEF ControlIInv

\* What runs, jobs and attempts know of one another, whatever the evidence is.
THEOREM ControlInvariant == Spec => []ControlIInv
<1>1. ControlIInv /\ [Next]_profileVars => ControlIInv'
  <2> SUFFICES ASSUME ControlIInv, [Next]_profileVars PROVE ControlIInv'
    OBVIOUS
  <2>1. CASE UNCHANGED profileVars
    BY <2>1 DEF profileVars, ControlIInv, ControlTyped, AttemptsKnown,
       Unstarted, Reported, Ended, Fenced
  <2> QED
    BY <2>1, AttemptKeeps, OthersKeep DEF Next
<1> QED
  BY <1>1, ControlInit, PTL DEF Spec

\* A settled job leaves no run open, and a job that succeeded no failed run,
\* however many attempts outlived their deadlines and whenever the bike went.
THEOREM RunsEndWithTheirJobs == Spec => []RunEndsWithJob
<1>1. ControlIInv => RunEndsWithJob
  BY DEF ControlIInv, Unstarted, Ended, RunEndsWithJob
<1> QED
  BY <1>1, ControlInvariant, PTL

-----------------------------------------------------------------------------
(* Folds.  What a fold computes is shown step by step: the library's folds     *)
(* recurse over the sets of places still to come.                              *)

\* A set of numbers has a least element.
LEMMA LeastNat ==
  ASSUME NEW T \in SUBSET Nat, T # {}
  PROVE  \E x \in T : \A y \in T : ~ (y < x)
<1> DEFINE R == {ss \in Nat \X Nat : ss[1] < ss[2]}
<1>1. IsWellFoundedOn(R, Nat)
  BY NatLessThanWellFounded DEF OpToRel
<1>2. \E x \in T : \A y \in T : ~ (<<y, x>> \in R)
  BY <1>1, WFMin
<1> QED
  BY <1>2

\* Induction up to n, over a set instead of a predicate.
LEMMA CountUp ==
  ASSUME NEW n \in Nat, NEW T, 0 \in T,
         \A i \in 1 .. n : i - 1 \in T => i \in T
  PROVE  \A i \in 0 .. n : i \in T
<1> DEFINE U == {i \in 0 .. n : i \notin T}
<1>1. SUFFICES ASSUME U # {} PROVE FALSE
  OBVIOUS
<1>2. U \in SUBSET Nat
  OBVIOUS
<1> HIDE DEF U
<1>3. PICK x \in U : \A y \in U : ~ (y < x)
  BY <1>1, <1>2, LeastNat
<1>4. x \in 1 .. n /\ x - 1 \notin U
  BY <1>3 DEF U
<1> QED
  BY <1>3, <1>4 DEF U

\* The greatest element of a set of places.
LEMMA MaxOf ==
  ASSUME NEW n \in Nat, NEW s \in SUBSET (1 .. n), s # {}
  PROVE  Max(s) \in s /\ \A y \in s : Max(s) >= y
<1> DEFINE U == {u \in Nat : n - u \in s}
<1>1. \A x \in s : x \in Int /\ n - x \in U
  <2> SUFFICES ASSUME NEW x \in s PROVE x \in Int /\ n - x \in U
    OBVIOUS
  <2>1. x \in 1 .. n
    OBVIOUS
  <2>2. n - x \in Nat /\ n - (n - x) = x
    BY <2>1
  <2> QED
    BY <2>1, <2>2
<1>2. U \in SUBSET Nat /\ U # {}
  BY <1>1
<1>3. \A u \in U : n - u \in s
  OBVIOUS
<1> HIDE DEF U
<1>4. PICK u \in U : \A y \in U : ~ (y < u)
  BY <1>2, LeastNat
<1>5. \A y \in s : n - u >= y
  BY <1>1, <1>2, <1>4
<1> QED
  BY <1>3, <1>4, <1>5 DEF Max

\* A set of places up to m that has m has it as its greatest.
LEMMA MaxIs ==
  ASSUME NEW n \in Nat, NEW m \in 1 .. n, NEW s \in SUBSET (1 .. m), m \in s
  PROVE  Max(s) = m
<1>1. m \in Nat
  OBVIOUS
<1>2. Max(s) \in s /\ Max(s) >= m
  BY <1>1, MaxOf
<1>3. Max(s) \in 1 .. m
  BY <1>2
<1> QED
  BY <1>2, <1>3

\* g tabulates a fold of the steps F over the sets of places in 1 .. m.
Tabulates(g, P, b, m, F) ==
  /\ g \in [SUBSET (1 .. m) -> P]
  /\ \A s \in SUBSET (1 .. m) :
       g[s] = IF s = {} THEN b ELSE F[Max(s)][g[s \ {Max(s)}]]

\* Every fold can be tabulated: the table is built by induction on m.
LEMMA FoldTable ==
  ASSUME NEW P, NEW b \in P, NEW n \in Nat, NEW F \in [1 .. n -> [P -> P]]
  PROVE  \E g : Tabulates(g, P, b, n, F)
<1> DEFINE T == {m \in 0 .. n : \E g : Tabulates(g, P, b, m, F)}
<1>1. 0 \in T
  <2> DEFINE g == [s \in SUBSET (1 .. 0) |-> b]
  <2>1. \A s \in SUBSET (1 .. 0) : s = {}
    OBVIOUS
  <2>2. Tabulates(g, P, b, 0, F)
    BY <2>1 DEF Tabulates
  <2> QED
    BY <2>2
<1>2. ASSUME NEW m \in 1 .. n, m - 1 \in T
      PROVE  m \in T
  <2>1. PICK g : Tabulates(g, P, b, m - 1, F)
    BY <1>2
  <2> DEFINE G == [s \in SUBSET (1 .. m) |->
                     IF m \in s THEN F[m][g[s \ {m}]] ELSE g[s]]
  <2>2. \A s \in SUBSET (1 .. m) :
          /\ m \in s => s \ {m} \in SUBSET (1 .. m - 1)
          /\ m \notin s => s \in SUBSET (1 .. m - 1)
    OBVIOUS
  <2>3. \A s \in SUBSET (1 .. m - 1) : g[s] \in P
    BY <2>1 DEF Tabulates
  <2>4. G \in [SUBSET (1 .. m) -> P]
    BY <2>2, <2>3
  <2>5. ASSUME NEW s \in SUBSET (1 .. m)
        PROVE  G[s] = IF s = {} THEN b ELSE F[Max(s)][G[s \ {Max(s)}]]
    <3>1. CASE m \in s
      <4>1. G[s] = F[m][g[s \ {m}]] /\ Max(s) = m
        BY <3>1, MaxIs
      <4>2. s \ {m} \in SUBSET (1 .. m) /\ m \notin s \ {m}
        OBVIOUS
      <4>3. G[s \ {m}] = g[s \ {m}]
        BY <4>2
      <4> QED
        BY <3>1, <4>1, <4>3
    <3>2. CASE m \notin s
      <4>1. s \in SUBSET (1 .. m - 1) /\ G[s] = g[s]
        BY <2>2, <3>2
      <4>2. s \ {Max(s)} \in SUBSET (1 .. m) /\ m \notin s \ {Max(s)}
        BY <3>2
      <4>3. G[s \ {Max(s)}] = g[s \ {Max(s)}]
        BY <4>2
      <4>4. g[s] = IF s = {} THEN b ELSE F[Max(s)][g[s \ {Max(s)}]]
        BY <2>1, <4>1 DEF Tabulates
      <4> QED
        BY <4>1, <4>3, <4>4
    <3> QED
      BY <3>1, <3>2
  <2>6. Tabulates(G, P, b, m, F)
    BY <2>4, <2>5 DEF Tabulates
  <2> QED
    BY <2>6
<1> HIDE DEF T
<1>3. \A i \in 0 .. n : i \in T
  BY <1>1, <1>2, CountUp
<1> QED
  BY <1>3 DEF T

\* The values on the way of a fold, h, start with the base and go on by F.
Trace(h, P, b, n, F) ==
  /\ h \in [0 .. n -> P]
  /\ h[0] = b
  /\ \A i \in 1 .. n : h[i] = F[i][h[i - 1]]

\* it follows the steps F as long as it stays in P.
Follows(it, P, b, n, F) ==
  /\ it[{}] = b
  /\ \A s \in SUBSET (1 .. n) :
       s # {} /\ it[s \ {Max(s)}] \in P => it[s] = F[Max(s)][it[s \ {Max(s)}]]

\* Whatever is tabulated by the steps of a fold has its values on the way.
LEMMA FoldTrace ==
  ASSUME NEW P, NEW b \in P, NEW n \in Nat, NEW F \in [1 .. n -> [P -> P]],
         NEW it, Follows(it, P, b, n, F)
  PROVE  \E h : Trace(h, P, b, n, F) /\ it[1 .. n] = h[n]
<1> DEFINE h == [i \in 0 .. n |-> it[1 .. i]]
<1>1. h[0] = b
  <2>1. 1 .. 0 = {}
    OBVIOUS
  <2> QED
    BY <2>1 DEF Follows
<1>2. \A i \in 1 .. n : h[i - 1] \in P => h[i] = F[i][h[i - 1]]
  <2> SUFFICES ASSUME NEW i \in 1 .. n, it[1 .. (i - 1)] \in P
               PROVE  it[1 .. i] = F[i][it[1 .. (i - 1)]]
    OBVIOUS
  <2> DEFINE s == 1 .. i
  <2>1. s \in SUBSET (1 .. i) /\ s \in SUBSET (1 .. n) /\ i \in s /\ s # {}
    OBVIOUS
  <2>2. Max(s) = i
    BY <2>1, MaxIs
  <2>3. s \ {i} = 1 .. (i - 1)
    OBVIOUS
  <2> QED
    BY <2>1, <2>2, <2>3 DEF Follows
<1> DEFINE T == {i \in 0 .. n : h[i] \in P}
<1>3. 0 \in T
  BY <1>1
<1>4. ASSUME NEW i \in 1 .. n, i - 1 \in T PROVE i \in T
  <2>1. h[i] = F[i][h[i - 1]] /\ h[i - 1] \in P
    BY <1>2, <1>4
  <2> HIDE DEF h
  <2> QED
    BY <2>1
<1> HIDE DEF T
<1>5. \A i \in 0 .. n : i \in T
  BY <1>3, <1>4, CountUp
<1>6. \A i \in 0 .. n : h[i] \in P
  BY <1>5 DEF T
<1>7. h \in [0 .. n -> P] /\ h[n] = it[1 .. n]
  BY <1>6
<1>8. \A i \in 1 .. n : i - 1 \in 0 .. n
  OBVIOUS
<1>9. Trace(h, P, b, n, F)
  BY <1>1, <1>2, <1>6, <1>7, <1>8 DEF Trace
<1> QED
  BY <1>7, <1>9

\* A sequence of manual claims, one ledger after the other.
LEMMA AppliedSteps ==
  ASSUME NEW P, NEW b \in P, NEW E, NEW patch \in Seq(E), NEW now,
         \A l \in P : \A i \in 1 .. Len(patch) :
           ApplyManual(l, patch[i][1], patch[i][2], now) \in P
  PROVE  Applied(b, patch, now) \in P
<1> DEFINE n == Len(patch)
           Op(l, p) == ApplyManual(l, p[1], p[2], now)
           F == [i \in 1 .. n |-> [l \in P |-> Op(l, patch[i])]]
           iter[s \in SUBSET (DOMAIN patch)] ==
             IF s = {} THEN b ELSE Op(iter[s \ {Max(s)}], patch[Max(s)])
<1>1. n \in Nat /\ DOMAIN patch = 1 .. n
  BY LenProperties
<1>2. F \in [1 .. n -> [P -> P]] /\ \A i \in 1 .. n, l \in P : F[i][l] = Op(l, patch[i])
  OBVIOUS
<1>3. Applied(b, patch, now) = iter[DOMAIN patch]
  BY DEF Applied, FoldLeft, MapThenFoldSet
<1> HIDE DEF F, Op
<1>4. PICK g : Tabulates(g, P, b, n, F)
  BY <1>1, <1>2, FoldTable
<1>5. \A s \in SUBSET (1 .. n) :
        s # {} => Max(s) \in 1 .. n /\ s \ {Max(s)} \in SUBSET (1 .. n)
  BY <1>1, MaxOf
<1>6. g = [s \in SUBSET (DOMAIN patch) |->
             IF s = {} THEN b ELSE Op(g[s \ {Max(s)}], patch[Max(s)])]
  BY <1>1, <1>2, <1>4, <1>5 DEF Tabulates
<1>7. iter = [s \in SUBSET (DOMAIN patch) |->
                IF s = {} THEN b ELSE Op(iter[s \ {Max(s)}], patch[Max(s)])]
  BY <1>6
<1> HIDE DEF iter
<1>8. Follows(iter, P, b, n, F)
  <2>1. iter[{}] = b
    BY <1>7
  <2>2. \A s \in SUBSET (1 .. n) :
          s # {} /\ iter[s \ {Max(s)}] \in P =>
            iter[s] = F[Max(s)][iter[s \ {Max(s)}]]
    BY <1>1, <1>2, <1>5, <1>7
  <2> QED
    BY <2>1, <2>2 DEF Follows
<1>9. n \in Nat /\ F \in [1 .. n -> [P -> P]]
  BY <1>1, <1>2
<1> HIDE DEF n
<1>10. PICK h : Trace(h, P, b, n, F) /\ iter[1 .. n] = h[n]
  BY <1>8, <1>9, FoldTrace
<1> QED
  BY <1>1, <1>3, <1>10 DEF Trace
-----------------------------------------------------------------------------
(* The ledger's types. *)

Values == {NoValue} \cup Summaries \cup UNION {ValuesOf(f) : f \in Fields}

Sources == {"image", "manual", "clear", "derived", "none"}

Dispositions ==
  {"pending", "applied", "supporting", "superseded", "conflict", "rejected"}

RowStates == {"none", "unknown", "resolved", "cleared", "disputed"}

Claims ==
  [field : Fields, value : Values, source : Sources, run : Turns \cup {NoClaim},
   observed : Nat, disposition : Dispositions]

Rows ==
  [value : Values, state : RowStates, claim : Nat, source : Sources,
   observed : Nat, barrier : Nat, supporting : SUBSET Nat,
   conflicting : SUBSET Nat]

Histories == Seq(Claims)
Resolutions == [Fields -> Rows]
Projections == [Fields -> Values]

Ledgers ==
  [claims : Histories, res : Resolutions, proj : Projections, revision : Nat]

Places(b) == 1 .. Len(b.claims)

-----------------------------------------------------------------------------
(* What the writes to a ledger leave alone. *)

\* Of the claims of b nothing but dispositions has changed in r.
SameContent(b, r) ==
  \A i \in Places(b) :
    /\ r.claims[i].field = b.claims[i].field
    /\ r.claims[i].value = b.claims[i].value
    /\ r.claims[i].source = b.claims[i].source
    /\ r.claims[i].run = b.claims[i].run
    /\ r.claims[i].observed = b.claims[i].observed

\* The parts of a ledger have their types.
LEMMA LedgerParts ==
  ASSUME NEW b \in Ledgers
  PROVE  /\ b.claims \in Seq(Claims) /\ Len(b.claims) \in Nat
         /\ DOMAIN b.claims = Places(b)
         /\ \A i \in Places(b) : b.claims[i] \in Claims
         /\ b.res \in Resolutions /\ b.proj \in Projections /\ b.revision \in Nat
<1>1. b.claims \in Seq(Claims)
  BY DEF Ledgers, Histories
<1> QED
  BY <1>1, LenProperties, ElementOfSeq DEF Ledgers, Places

\* A ledger that differs from b by its claims.
LEMMA Reclaimed ==
  ASSUME NEW b \in Ledgers, NEW claims \in Seq(Claims)
  PROVE  LET r == [b EXCEPT !.claims = claims]
         IN  /\ r \in Ledgers /\ r.claims = claims
             /\ r.res = b.res /\ r.proj = b.proj /\ r.revision = b.revision
BY DEF Ledgers, Histories

\* A claim given another disposition: nothing else moves.
LEMMA Disposed ==
  ASSUME NEW b \in Ledgers, NEW id \in Places(b), NEW d \in Dispositions,
         NEW r, r = Dispose(b, id, d)
  PROVE  /\ r \in Ledgers
         /\ r.res = b.res /\ r.proj = b.proj /\ r.revision = b.revision
         /\ Len(r.claims) = Len(b.claims)
         /\ SameContent(b, r)
         /\ r.claims[id].disposition = d
         /\ \A i \in Places(b) :
              i # id => r.claims[i].disposition = b.claims[i].disposition
<1> DEFINE c == [b.claims[id] EXCEPT !.disposition = d]
           claims == [b.claims EXCEPT ![id] = c]
<1>1. /\ b.claims \in Seq(Claims) /\ Len(b.claims) \in Nat
      /\ DOMAIN b.claims = Places(b)
      /\ \A i \in Places(b) : b.claims[i] \in Claims
  BY LedgerParts
<1>2. /\ c \in Claims /\ c.disposition = d
      /\ c.field = b.claims[id].field /\ c.value = b.claims[id].value
      /\ c.source = b.claims[id].source /\ c.run = b.claims[id].run
      /\ c.observed = b.claims[id].observed
  BY <1>1 DEF Claims
<1> HIDE DEF c
<1>3. /\ claims \in Seq(Claims) /\ Len(claims) = Len(b.claims)
      /\ claims[id] = c
      /\ \A i \in Places(b) : i # id => claims[i] = b.claims[i]
  BY <1>1, <1>2, ExceptSeq DEF Places
<1>4. r = [b EXCEPT !.claims = claims]
  BY DEF Dispose, c, Ledgers
<1> HIDE DEF claims
<1>5. /\ r \in Ledgers /\ r.claims = claims
      /\ r.res = b.res /\ r.proj = b.proj /\ r.revision = b.revision
  BY <1>3, <1>4, Reclaimed
<1>6. SameContent(b, r)
  BY <1>2, <1>3, <1>5 DEF SameContent
<1> QED
  BY <1>2, <1>3, <1>5, <1>6

\* A claim appended: the ones before it stay as they are.
LEMMA ClaimAdded ==
  ASSUME NEW b \in Ledgers, NEW c \in Claims, NEW r, r = AddClaim(b, c)
  PROVE  /\ r \in Ledgers
         /\ r.res = b.res /\ r.proj = b.proj /\ r.revision = b.revision
         /\ Len(r.claims) = Len(b.claims) + 1
         /\ r.claims[Len(b.claims) + 1] = c
         /\ \A i \in Places(b) : r.claims[i] = b.claims[i]
         /\ SameContent(b, r)
<1> DEFINE claims == Append(b.claims, c)
<1>1. /\ b.claims \in Seq(Claims) /\ Len(b.claims) \in Nat
  BY LedgerParts
<1>2. /\ claims \in Seq(Claims) /\ Len(claims) = Len(b.claims) + 1
      /\ claims[Len(b.claims) + 1] = c
      /\ \A i \in Places(b) : claims[i] = b.claims[i]
  BY <1>1, AppendProperties DEF Places
<1>3. r = [b EXCEPT !.claims = claims]
  BY DEF AddClaim, Ledgers
<1> HIDE DEF claims
<1>4. /\ r \in Ledgers /\ r.claims = claims
      /\ r.res = b.res /\ r.proj = b.proj /\ r.revision = b.revision
  BY <1>2, <1>3, Reclaimed
<1> QED
  BY <1>2, <1>4 DEF SameContent

\* The row of one field replaced.
LEMMA RowChanged ==
  ASSUME NEW b \in Ledgers, NEW f \in Fields, NEW row \in Rows,
         NEW r, r = Resolve(b, f, row)
  PROVE  /\ r \in Ledgers
         /\ r.claims = b.claims /\ r.proj = b.proj /\ r.revision = b.revision
         /\ r.res[f] = row
         /\ \A g \in Fields : g # f => r.res[g] = b.res[g]
BY DEF Resolve, Ledgers, Resolutions

\* In r the current claims of fs have left their disposition, if it was in from.
LeftBehind(b, r, fs, from) ==
  /\ r.res = b.res /\ r.proj = b.proj /\ r.revision = b.revision
  /\ Len(r.claims) = Len(b.claims)
  /\ SameContent(b, r)
  /\ \A i \in Places(b) :
       r.claims[i].disposition =
         IF (\E f \in fs : b.res[f].claim = i) /\ b.claims[i].disposition \in from
           THEN "superseded" ELSE b.claims[i].disposition

\* Current claims are superseded, other claims stay as they are.
LEMMA Superseded ==
  ASSUME NEW b \in Ledgers, NEW fs \in SUBSET Fields, NEW from,
         NEW r, r = SupersedeCurrent(b, fs, from)
  PROVE  r \in Ledgers /\ LeftBehind(b, r, fs, from)
<1> DEFINE left == {i \in {b.res[f].claim : f \in fs} \ {NoClaim} :
                      b.claims[i].disposition \in from}
           c(i) == IF i \in left
                     THEN [b.claims[i] EXCEPT !.disposition = "superseded"]
                     ELSE b.claims[i]
           claims == [i \in 1 .. Len(b.claims) |-> c(i)]
<1>1. /\ Len(b.claims) \in Nat
      /\ \A i \in Places(b) : b.claims[i] \in Claims
  BY LedgerParts
<1>2. \A i \in Places(b) :
        i \in left <=> /\ \E f \in fs : b.res[f].claim = i
                       /\ b.claims[i].disposition \in from
  BY <1>1 DEF Places, NoClaim
<1> HIDE DEF left
<1>3. ASSUME NEW i \in Places(b)
      PROVE  /\ c(i) \in Claims
             /\ c(i).field = b.claims[i].field /\ c(i).value = b.claims[i].value
             /\ c(i).source = b.claims[i].source /\ c(i).run = b.claims[i].run
             /\ c(i).observed = b.claims[i].observed
             /\ c(i).disposition =
                  IF i \in left THEN "superseded" ELSE b.claims[i].disposition
  BY <1>1 DEF Claims, Dispositions
<1>4. r = [b EXCEPT !.claims = claims]
  BY DEF SupersedeCurrent, left
<1> HIDE DEF c
<1>5. claims \in Seq(Claims) /\ Len(claims) = Len(b.claims)
  BY <1>1, <1>3 DEF Places
<1>6. \A i \in Places(b) : claims[i] = c(i)
  BY DEF Places
<1> HIDE DEF claims
<1>7. /\ r \in Ledgers /\ r.claims = claims
      /\ r.res = b.res /\ r.proj = b.proj /\ r.revision = b.revision
  BY <1>4, <1>5, Reclaimed
<1>8. SameContent(b, r)
  BY <1>3, <1>6, <1>7 DEF SameContent
<1> QED
  BY <1>2, <1>3, <1>5, <1>6, <1>7, <1>8 DEF LeftBehind

\* A claim has the parts it was made of.
LEMMA ClaimType ==
  ASSUME NEW f \in Fields, NEW v \in Values, NEW source \in Sources,
         NEW t \in Turns \cup {NoClaim}, NEW observed \in Nat,
         NEW d \in Dispositions, NEW c, c = Claim(f, v, source, t, observed, d)
  PROVE  /\ c \in Claims
         /\ c.field = f /\ c.value = v /\ c.source = source /\ c.run = t
         /\ c.observed = observed /\ c.disposition = d
BY DEF Claim, Claims

\* The row of a field whose current claim has become id.
LEMMA CurrentRow ==
  ASSUME NEW old \in Rows, NEW id \in Nat, NEW c \in Claims,
         NEW row, row = Current(old, id, c)
  PROVE  /\ row \in Rows
         /\ row.value = c.value /\ row.state = "resolved" /\ row.claim = id
         /\ row.source = c.source /\ row.observed = c.observed
         /\ row.barrier = old.barrier
         /\ row.supporting = {} /\ row.conflicting = {}
<1> DEFINE x == [old EXCEPT !.value = c.value, !.state = "resolved"]
           y == [x EXCEPT !.claim = id, !.source = c.source]
           z == [y EXCEPT !.observed = c.observed]
<1>1. x \in Rows /\ x.value = c.value /\ x.state = "resolved" /\ x.barrier = old.barrier
  BY DEF Rows, Claims, RowStates
<1>2. row = [z EXCEPT !.supporting = {}, !.conflicting = {}]
  BY DEF Current, Rows
<1> HIDE DEF x
<1>3. y \in Rows /\ y.value = x.value /\ y.state = x.state /\ y.barrier = x.barrier
      /\ y.claim = id /\ y.source = c.source
  BY <1>1 DEF Rows, Claims
<1> HIDE DEF y
<1>4. z \in Rows /\ z.value = y.value /\ z.state = y.state /\ z.barrier = y.barrier
      /\ z.claim = y.claim /\ z.source = y.source /\ z.observed = c.observed
  BY <1>3 DEF Rows, Claims
<1> HIDE DEF z
<1> QED
  BY <1>1, <1>2, <1>3, <1>4 DEF Rows
-----------------------------------------------------------------------------
(* The invariant of a ledger. *)

\* A field's current claim is its only applied one, and says its value.
CurrentApplied(b) ==
  /\ \A f \in Fields : b.res[f].claim \in 0 .. Len(b.claims)
  /\ \A f \in Fields : b.res[f].claim # NoClaim =>
       /\ b.claims[b.res[f].claim].field = f
       /\ b.claims[b.res[f].claim].value = b.res[f].value
  /\ \A i \in Places(b) :
       b.claims[i].disposition = "applied" <=> b.res[b.claims[i].field].claim = i

StatesAgree(b) ==
  \A f \in Fields :
    /\ b.res[f].state \in {"none", "unknown", "cleared"} => b.res[f].value = NoValue
    /\ b.res[f].state = "resolved" =>
         b.res[f].claim # NoClaim /\ b.res[f].value # NoValue

\* A dispute names a claim of another value; and only claims of a value
\* contradict what is not derived.
DisputesNamed(b) ==
  \A f \in Fields :
    /\ b.res[f].state = "disputed" =>
         \E i \in b.res[f].conflicting :
           i \in Places(b) /\ b.claims[i].value # b.res[f].value
    /\ f \notin DerivedFields =>
         \A i \in b.res[f].conflicting :
           i \in Places(b) /\ b.claims[i].value # NoValue

\* The barrier of a field is its last clear that took effect, and a current
\* claim from an image is newer.
ClearsHeld(b, now) ==
  /\ \A i \in Places(b) : b.claims[i].source = "clear" =>
       /\ b.claims[i].observed # 0
       /\ b.claims[i].disposition # "supporting" =>
            b.claims[i].observed <= b.res[b.claims[i].field].barrier
  /\ \A f \in Fields :
       /\ b.res[f].barrier <= now
       /\ b.res[f].claim # NoClaim /\ b.claims[b.res[f].claim].source = "image" =>
            \/ b.res[f].barrier = 0
            \/ b.claims[b.res[f].claim].observed > b.res[f].barrier

\* Images say something, and the projection shows the derived values.
ImagesSpeak(b) ==
  \A i \in Places(b) : b.claims[i].source = "image" => b.claims[i].value # NoValue

DerivedShown(b) == \A d \in DerivedFields : b.res[d].value = b.proj[d]

LedgerInv(b, now) ==
  /\ b \in Ledgers
  /\ CurrentApplied(b)
  /\ StatesAgree(b)
  /\ DisputesNamed(b)
  /\ ClearsHeld(b, now)
  /\ ImagesSpeak(b)
  /\ DerivedShown(b)

-----------------------------------------------------------------------------
(* Claims that become current, and claims that are added beside them. *)

\* Claim id of r takes the place of the current claim of f in b.
TakesOver(b, r, f, id) ==
  /\ Len(b.claims) <= Len(r.claims) /\ Places(r) \subseteq Places(b) \cup {id}
  /\ id \in Places(r) /\ r.claims[id].field = f
  /\ r.claims[id].value = r.res[f].value
  /\ r.res[f].claim = id
  /\ id \in Places(b) => b.claims[id].disposition # "applied"
  /\ SameContent(b, r)
  /\ \A g \in Fields : g # f => r.res[g] = b.res[g]
  /\ \A i \in Places(r) :
       r.claims[i].disposition =
         IF i = id THEN "applied"
         ELSE IF i = b.res[f].claim THEN "superseded"
         ELSE b.claims[i].disposition

\* A new current claim is again the only applied one of its field.
LEMMA TakenOver ==
  ASSUME NEW b \in Ledgers, NEW r \in Ledgers, NEW f \in Fields, NEW id,
         CurrentApplied(b), TakesOver(b, r, f, id)
  PROVE  CurrentApplied(r)
<1>1. /\ Len(b.claims) \in Nat /\ Len(r.claims) \in Nat
      /\ \A i \in Places(b) : b.claims[i] \in Claims /\ b.claims[i].field \in Fields
      /\ \A i \in Places(r) : r.claims[i] \in Claims /\ r.claims[i].field \in Fields
  BY LedgerParts DEF Claims
<1>2. \A g \in Fields : r.res[g].claim \in 0 .. Len(r.claims)
  BY <1>1 DEF CurrentApplied, TakesOver, Places
<1>3. ASSUME NEW g \in Fields, r.res[g].claim # NoClaim
      PROVE  /\ r.claims[r.res[g].claim].field = g
             /\ r.claims[r.res[g].claim].value = r.res[g].value
  <2>1. CASE g = f
    BY <2>1 DEF TakesOver
  <2>2. CASE g # f
    <3>1. r.res[g] = b.res[g] /\ b.res[g].claim \in Places(b)
      BY <1>1, <1>3, <2>2 DEF CurrentApplied, TakesOver, Places, NoClaim
    <3> DEFINE c == b.res[g].claim
    <3>2. b.claims[c].field = g /\ b.claims[c].value = b.res[g].value
      BY <1>3, <3>1 DEF CurrentApplied
    <3>3. r.claims[c].field = b.claims[c].field /\ r.claims[c].value = b.claims[c].value
      BY <3>1 DEF TakesOver, SameContent
    <3> QED
      BY <3>1, <3>2, <3>3
  <2> QED
    BY <2>1, <2>2
<1>4. ASSUME NEW i \in Places(r)
      PROVE  r.claims[i].disposition = "applied" <=> r.res[r.claims[i].field].claim = i
  <2>1. CASE i = id
    BY <2>1 DEF TakesOver
  <2>2. CASE i # id
    <3>1. i \in Places(b) /\ r.claims[i].field = b.claims[i].field
      BY <2>2 DEF TakesOver, SameContent
    <3>2. CASE b.claims[i].field = f
      <4>1. r.res[f].claim # i /\ (b.claims[i].disposition = "applied" <=> b.res[f].claim = i)
        BY <2>2, <3>1, <3>2 DEF CurrentApplied, TakesOver
      <4> QED
        BY <2>2, <3>1, <3>2, <4>1 DEF TakesOver
    <3>3. CASE b.claims[i].field # f
      <4>1. b.res[f].claim # i
        BY <1>1, <3>1, <3>3 DEF CurrentApplied, Places, NoClaim
      <4> QED
        BY <1>1, <2>2, <3>1, <3>3, <4>1 DEF CurrentApplied, TakesOver
    <3> QED
      BY <3>2, <3>3
  <2> QED
    BY <2>1, <2>2
<1> QED
  BY <1>2, <1>3, <1>4 DEF CurrentApplied

\* The claims of r are those of b and one more that is not current.
Notes(b, r) ==
  /\ Len(r.claims) = Len(b.claims) + 1
  /\ \A i \in Places(b) : r.claims[i] = b.claims[i]
  /\ r.claims[Len(r.claims)].disposition # "applied"
  /\ r.claims[Len(r.claims)].source = "clear" =>
       /\ r.claims[Len(r.claims)].observed # 0
       /\ r.claims[Len(r.claims)].disposition = "supporting"
  /\ r.claims[Len(r.claims)].source = "image" =>
       r.claims[Len(r.claims)].value # NoValue
  /\ r.proj = b.proj
  /\ \A f \in Fields :
       /\ r.res[f].value = b.res[f].value /\ r.res[f].state = b.res[f].state
       /\ r.res[f].claim = b.res[f].claim /\ r.res[f].barrier = b.res[f].barrier
       /\ r.res[f].conflicting = b.res[f].conflicting

\* A claim that only stands beside the current ones keeps the invariant.
LEMMA Noted ==
  ASSUME NEW b, NEW now, LedgerInv(b, now), NEW r \in Ledgers, Notes(b, r)
  PROVE  LedgerInv(r, now)
<1> DEFINE n == Len(b.claims)
<1>1. /\ n \in Nat /\ Len(r.claims) = n + 1
      /\ Places(b) = 1 .. n /\ Places(r) = 1 .. (n + 1)
      /\ \A i \in Places(b) : b.claims[i].field \in Fields
      /\ r.claims[n + 1].field \in Fields
  BY LedgerParts DEF Claims, LedgerInv, Notes, Places
<1>2. CurrentApplied(r)
  <2>1. \A f \in Fields : r.res[f].claim = b.res[f].claim /\ b.res[f].claim \in 0 .. n
    BY DEF LedgerInv, CurrentApplied, Notes
  <2>2. \A f \in Fields : b.res[f].claim # NoClaim =>
          b.res[f].claim \in Places(b) /\ b.res[f].claim # n + 1
    BY <1>1, <2>1 DEF NoClaim
  <2>3. \A f \in Fields : r.res[f].claim # NoClaim =>
          /\ r.claims[r.res[f].claim].field = f
          /\ r.claims[r.res[f].claim].value = r.res[f].value
    <3> SUFFICES ASSUME NEW f \in Fields, b.res[f].claim # NoClaim
                 PROVE  /\ r.claims[b.res[f].claim].field = f
                        /\ r.claims[b.res[f].claim].value = r.res[f].value
      BY <2>1
    <3>1. r.claims[b.res[f].claim] = b.claims[b.res[f].claim]
      BY <2>2 DEF Notes
    <3>2. /\ b.claims[b.res[f].claim].field = f
          /\ b.claims[b.res[f].claim].value = b.res[f].value
      BY DEF LedgerInv, CurrentApplied
    <3>3. r.res[f].value = b.res[f].value
      BY DEF Notes
    <3> QED
      BY <3>1, <3>2, <3>3
  <2>4. \A i \in Places(r) :
          r.claims[i].disposition = "applied" <=> r.res[r.claims[i].field].claim = i
    <3> SUFFICES ASSUME NEW i \in Places(r)
                 PROVE  r.claims[i].disposition = "applied" <=>
                          r.res[r.claims[i].field].claim = i
      OBVIOUS
    <3>1. CASE i \in Places(b)
      <4>1. r.claims[i] = b.claims[i]
        BY <3>1 DEF Notes
      <4>2. b.claims[i].disposition = "applied" <=> b.res[b.claims[i].field].claim = i
        BY <3>1 DEF LedgerInv, CurrentApplied
      <4> QED
        BY <1>1, <2>1, <3>1, <4>1, <4>2
    <3>2. CASE i = n + 1
      BY <1>1, <2>1, <3>2 DEF Notes
    <3> QED
      BY <1>1, <3>1, <3>2
  <2> QED
    BY <1>1, <2>1, <2>3, <2>4 DEF CurrentApplied
<1>3. StatesAgree(r) /\ DerivedShown(r)
  BY DEF LedgerInv, StatesAgree, DerivedShown, Notes, DerivedFields, Fields
<1>4. DisputesNamed(r)
  <2> SUFFICES ASSUME NEW f \in Fields
               PROVE  /\ r.res[f].state = "disputed" =>
                           \E i \in r.res[f].conflicting :
                             i \in Places(r) /\ r.claims[i].value # r.res[f].value
                      /\ f \notin DerivedFields =>
                           \A i \in r.res[f].conflicting :
                             i \in Places(r) /\ r.claims[i].value # NoValue
    BY DEF DisputesNamed
  <2>1. /\ r.res[f].value = b.res[f].value /\ r.res[f].state = b.res[f].state
        /\ r.res[f].conflicting = b.res[f].conflicting
    BY DEF Notes
  <2>2. \A i \in Places(b) : i \in Places(r) /\ r.claims[i] = b.claims[i]
    BY <1>1 DEF Notes
  <2>3. /\ b.res[f].state = "disputed" =>
             \E i \in b.res[f].conflicting :
               i \in Places(b) /\ b.claims[i].value # b.res[f].value
        /\ f \notin DerivedFields =>
             \A i \in b.res[f].conflicting :
               i \in Places(b) /\ b.claims[i].value # NoValue
    BY DEF LedgerInv, DisputesNamed
  <2> QED
    BY <2>1, <2>2, <2>3
<1>5. ClearsHeld(r, now)
  <2>1. \A f \in Fields : b.res[f].claim # NoClaim => b.res[f].claim \in Places(b)
    BY <1>1 DEF LedgerInv, CurrentApplied, NoClaim
  <2>2. \A i \in Places(r) : i \in Places(b) \/ i = n + 1
    BY <1>1
  <2>3. ASSUME NEW i \in Places(r), r.claims[i].source = "clear"
        PROVE  /\ r.claims[i].observed # 0
               /\ r.claims[i].disposition # "supporting" =>
                    r.claims[i].observed <= r.res[r.claims[i].field].barrier
    <3>1. CASE i \in Places(b)
      <4>1. r.claims[i] = b.claims[i] /\ b.claims[i].field \in Fields
        BY <1>1, <3>1 DEF Notes
      <4>2. r.res[b.claims[i].field].barrier = b.res[b.claims[i].field].barrier
        BY <4>1 DEF Notes
      <4> QED
        BY <2>3, <3>1, <4>1, <4>2 DEF LedgerInv, ClearsHeld
    <3>2. CASE i = n + 1
      BY <1>1, <2>3, <3>2 DEF Notes
    <3> QED
      BY <2>2, <3>1, <3>2
  <2>4. ASSUME NEW f \in Fields
        PROVE  /\ r.res[f].barrier <= now
               /\ /\ r.res[f].claim # NoClaim
                  /\ r.claims[r.res[f].claim].source = "image"
                  => \/ r.res[f].barrier = 0
                     \/ r.claims[r.res[f].claim].observed > r.res[f].barrier
    <3>1. r.res[f].claim = b.res[f].claim /\ r.res[f].barrier = b.res[f].barrier
      BY DEF Notes
    <3>2. b.res[f].claim # NoClaim => r.claims[b.res[f].claim] = b.claims[b.res[f].claim]
      BY <2>1 DEF Notes
    <3> QED
      BY <3>1, <3>2 DEF LedgerInv, ClearsHeld
  <2> QED
    BY <2>3, <2>4 DEF ClearsHeld
<1>6. ImagesSpeak(r)
  <2>1. \A i \in Places(r) : i \in Places(b) \/ i = n + 1
    BY <1>1
  <2> QED
    BY <1>1, <2>1 DEF LedgerInv, ImagesSpeak, Notes
<1> QED
  BY <1>2, <1>3, <1>4, <1>5, <1>6 DEF LedgerInv

\* What the new row of f says, of a claim made or found in time.
Stands(b, r, f, id, now) ==
  /\ r.res[f].conflicting = {}
  /\ \/ r.res[f].state = "resolved" /\ r.res[f].value # NoValue
     \/ r.res[f].state = "cleared" /\ r.res[f].value = NoValue
  /\ b.res[f].barrier <= r.res[f].barrier /\ r.res[f].barrier <= now
  /\ r.claims[id].source = "clear" =>
       r.claims[id].observed # 0 /\ r.claims[id].observed <= r.res[f].barrier
  /\ r.claims[id].source = "image" =>
       /\ r.claims[id].value # NoValue
       /\ r.res[f].barrier = 0 \/ r.claims[id].observed > r.res[f].barrier
  /\ \A d \in DerivedFields : r.proj[d] = IF d = f THEN r.res[f].value ELSE b.proj[d]

\* So does a claim that becomes current and may: it is newer than the barrier.
LEMMA NewCurrent ==
  ASSUME NEW b, NEW now \in Nat, LedgerInv(b, now), NEW r \in Ledgers,
         NEW f \in Fields, NEW id, id # NoClaim,
         TakesOver(b, r, f, id), Stands(b, r, f, id, now)
  PROVE  LedgerInv(r, now)
<1>1. /\ b \in Ledgers /\ Len(b.claims) \in Nat /\ Len(r.claims) \in Nat
      /\ \A i \in Places(b) : b.claims[i].field \in Fields
                              /\ b.claims[i].observed \in Nat
      /\ \A g \in Fields : b.res[g] \in Rows /\ r.res[g] \in Rows
      /\ \A g \in Fields : b.res[g].barrier \in Nat /\ r.res[g].barrier \in Nat
  BY LedgerParts DEF Claims, LedgerInv, Resolutions, Rows
<1>2. CurrentApplied(r)
  BY <1>1, TakenOver DEF LedgerInv
<1>3. \A i \in Places(r) : i = id \/ i \in Places(b)
  BY DEF TakesOver
<1>4. \A i \in Places(b) : i \in Places(r)
  BY <1>1 DEF TakesOver, Places
<1>5. StatesAgree(r)
  BY DEF LedgerInv, StatesAgree, TakesOver, Stands
<1>6. DisputesNamed(r)
  <2> SUFFICES ASSUME NEW g \in Fields
               PROVE  /\ r.res[g].state = "disputed" =>
                           \E i \in r.res[g].conflicting :
                             i \in Places(r) /\ r.claims[i].value # r.res[g].value
                      /\ g \notin DerivedFields =>
                           \A i \in r.res[g].conflicting :
                             i \in Places(r) /\ r.claims[i].value # NoValue
    BY DEF DisputesNamed
  <2>1. CASE g = f
    BY <2>1 DEF Stands
  <2>2. CASE g # f
    <3>1. r.res[g] = b.res[g] /\ \A i \in Places(b) : r.claims[i].value = b.claims[i].value
      BY <2>2 DEF TakesOver, SameContent
    <3> QED
      BY <1>4, <3>1 DEF LedgerInv, DisputesNamed
  <2> QED
    BY <2>1, <2>2
<1>7. ASSUME NEW i \in Places(r), r.claims[i].source = "clear"
      PROVE  /\ r.claims[i].observed # 0
             /\ r.claims[i].disposition # "supporting" =>
                  r.claims[i].observed <= r.res[r.claims[i].field].barrier
  <2>1. CASE i = id
    BY <1>7, <2>1 DEF TakesOver, Stands
  <2>2. CASE i # id
    <3>1. /\ i \in Places(b)
          /\ r.claims[i].field = b.claims[i].field
          /\ r.claims[i].source = b.claims[i].source
          /\ r.claims[i].observed = b.claims[i].observed
      BY <1>3, <2>2 DEF TakesOver, SameContent
    <3>2. b.claims[i].disposition = "supporting" => r.claims[i].disposition = "supporting"
      <4>1. ASSUME i = b.res[f].claim PROVE b.claims[i].disposition = "applied"
        BY <3>1, <4>1 DEF LedgerInv, CurrentApplied, NoClaim, Places
      <4> QED
        BY <2>2, <3>1, <4>1 DEF TakesOver
    <3>3. b.res[b.claims[i].field].barrier <= r.res[b.claims[i].field].barrier
      BY <1>1, <3>1 DEF TakesOver, Stands
    <3>4. /\ b.claims[i].observed # 0
          /\ b.claims[i].disposition # "supporting" =>
               b.claims[i].observed <= b.res[b.claims[i].field].barrier
      BY <1>7, <3>1 DEF LedgerInv, ClearsHeld
    <3> QED
      BY <1>1, <3>1, <3>2, <3>3, <3>4
  <2> QED
    BY <2>1, <2>2
<1>8. ASSUME NEW g \in Fields
      PROVE  /\ r.res[g].barrier <= now
             /\ r.res[g].claim # NoClaim /\ r.claims[r.res[g].claim].source = "image"
                => \/ r.res[g].barrier = 0
                   \/ r.claims[r.res[g].claim].observed > r.res[g].barrier
  <2>1. CASE g = f
    BY <2>1 DEF TakesOver, Stands
  <2>2. CASE g # f
    <3>1. r.res[g] = b.res[g]
      BY <2>2 DEF TakesOver
    <3>2. ASSUME r.res[g].claim # NoClaim
          PROVE  /\ b.res[g].claim \in Places(b)
                 /\ r.claims[b.res[g].claim].source = b.claims[b.res[g].claim].source
                 /\ r.claims[b.res[g].claim].observed = b.claims[b.res[g].claim].observed
      <4>1. b.res[g].claim \in Places(b)
        BY <1>1, <3>1, <3>2 DEF LedgerInv, CurrentApplied, NoClaim, Places
      <4> QED
        BY <4>1 DEF TakesOver, SameContent
    <3> QED
      BY <3>1, <3>2 DEF LedgerInv, ClearsHeld
  <2> QED
    BY <2>1, <2>2
<1>9. ClearsHeld(r, now)
  BY <1>7, <1>8 DEF ClearsHeld
<1>10. ImagesSpeak(r)
  BY <1>3 DEF LedgerInv, ImagesSpeak, TakesOver, Stands, SameContent
<1>11. DerivedShown(r)
  BY DEF LedgerInv, DerivedShown, TakesOver, Stands, DerivedFields, Fields
<1> QED
  BY <1>2, <1>5, <1>6, <1>9, <1>10, <1>11 DEF LedgerInv

\* The fields gone lose their claims, and are unknown or in dispute.
Vacates(b, r, gone) ==
  /\ Len(r.claims) = Len(b.claims) /\ SameContent(b, r)
  /\ \A i \in Places(b) :
       r.claims[i].disposition =
         IF \E f \in gone : b.res[f].claim = i THEN "superseded"
         ELSE b.claims[i].disposition
  /\ \A g \in Fields \ gone : r.res[g] = b.res[g]
  /\ \A g \in gone :
       /\ r.res[g].claim = NoClaim /\ r.res[g].value = NoValue
       /\ r.res[g].barrier = b.res[g].barrier
       /\ \/ r.res[g].state = "unknown" /\ r.res[g].conflicting = {}
          \/ /\ r.res[g].state = "disputed" /\ g \in DerivedFields
             /\ \E i \in r.res[g].conflicting :
                  i \in Places(b) /\ b.claims[i].value # NoValue
  /\ \A d \in DerivedFields : r.proj[d] = IF d \in gone THEN NoValue ELSE b.proj[d]

\* And so do fields that give up their current claims and become unknown.
LEMMA Vacated ==
  ASSUME NEW b, NEW now \in Nat, LedgerInv(b, now), NEW r \in Ledgers,
         NEW gone \in SUBSET Fields, Vacates(b, r, gone)
  PROVE  LedgerInv(r, now)
<1>1. /\ b \in Ledgers /\ Len(b.claims) \in Nat /\ Places(r) = Places(b)
      /\ \A i \in Places(b) : b.claims[i].field \in Fields
      /\ \A g \in Fields : b.res[g] \in Rows /\ r.res[g] \in Rows
  BY LedgerParts DEF Claims, LedgerInv, Resolutions, Vacates, Places
<1>2. \A i \in Places(b) :
        /\ r.claims[i].field = b.claims[i].field
        /\ r.claims[i].value = b.claims[i].value
        /\ r.claims[i].source = b.claims[i].source
        /\ r.claims[i].observed = b.claims[i].observed
  BY DEF Vacates, SameContent
<1>3. \A g \in Fields : b.res[g].claim # NoClaim =>
        /\ b.res[g].claim \in Places(b)
        /\ b.claims[b.res[g].claim].field = g
        /\ b.claims[b.res[g].claim].disposition = "applied"
  BY <1>1 DEF LedgerInv, CurrentApplied, NoClaim, Places
<1>4. CurrentApplied(r)
  <2>1. ASSUME NEW g \in Fields
        PROVE  /\ r.res[g].claim \in 0 .. Len(r.claims)
               /\ r.res[g].claim # NoClaim =>
                    /\ r.claims[r.res[g].claim].field = g
                    /\ r.claims[r.res[g].claim].value = r.res[g].value
    <3>1. CASE g \in gone
      BY <1>1, <3>1 DEF Vacates, NoClaim
    <3>2. CASE g \notin gone
      <4>1. r.res[g] = b.res[g] /\ Len(r.claims) = Len(b.claims)
        BY <3>2 DEF Vacates
      <4> QED
        BY <1>2, <1>3, <4>1 DEF LedgerInv, CurrentApplied
    <3> QED
      BY <3>1, <3>2
  <2>2. ASSUME NEW i \in Places(r)
        PROVE  r.claims[i].disposition = "applied" <=> r.res[r.claims[i].field].claim = i
    <3> DEFINE f == b.claims[i].field
    <3>1. i \in Places(b) /\ f \in Fields /\ r.claims[i].field = f /\ i # NoClaim
      BY <1>1, <1>2 DEF NoClaim, Places
    <3>2. \A g \in gone : b.res[g].claim = i => g = f
      BY <1>3, <3>1
    <3>3. b.claims[i].disposition = "applied" <=> b.res[f].claim = i
      BY <3>1 DEF LedgerInv, CurrentApplied
    <3>4. CASE f \in gone
      <4>1. r.res[f].claim = NoClaim
        BY <3>4 DEF Vacates
      <4>2. r.claims[i].disposition # "applied"
        BY <3>1, <3>3, <3>4 DEF Vacates
      <4> QED
        BY <3>1, <4>1, <4>2
    <3>5. CASE f \notin gone
      <4>1. r.res[f] = b.res[f] /\ r.claims[i].disposition = b.claims[i].disposition
        BY <3>1, <3>2, <3>5 DEF Vacates
      <4> QED
        BY <3>1, <3>3, <4>1
    <3> QED
      BY <3>4, <3>5
  <2> QED
    BY <2>1, <2>2 DEF CurrentApplied
<1>5. StatesAgree(r)
  BY DEF LedgerInv, StatesAgree, Vacates
<1>6. DisputesNamed(r)
  <2> SUFFICES ASSUME NEW g \in Fields
               PROVE  /\ r.res[g].state = "disputed" =>
                           \E i \in r.res[g].conflicting :
                             i \in Places(r) /\ r.claims[i].value # r.res[g].value
                      /\ g \notin DerivedFields =>
                           \A i \in r.res[g].conflicting :
                             i \in Places(r) /\ r.claims[i].value # NoValue
    BY DEF DisputesNamed
  <2>1. CASE g \in gone
    BY <1>1, <1>2, <2>1 DEF Vacates
  <2>2. CASE g \notin gone
    <3>1. r.res[g] = b.res[g]
      BY <2>2 DEF Vacates
    <3> QED
      BY <1>1, <1>2, <3>1 DEF LedgerInv, DisputesNamed
  <2> QED
    BY <2>1, <2>2
<1>7. ASSUME NEW i \in Places(r), r.claims[i].source = "clear"
      PROVE  /\ r.claims[i].observed # 0
             /\ r.claims[i].disposition # "supporting" =>
                  r.claims[i].observed <= r.res[r.claims[i].field].barrier
  <2>1. i \in Places(b) /\ b.claims[i].source = "clear"
    BY <1>1, <1>2, <1>7
  <2>2. b.claims[i].disposition = "supporting" => r.claims[i].disposition = "supporting"
    BY <1>1, <1>3, <2>1 DEF Vacates, NoClaim, Places
  <2>3. b.res[b.claims[i].field].barrier = r.res[b.claims[i].field].barrier
    BY <1>1, <2>1 DEF Vacates
  <2> QED
    BY <1>2, <2>1, <2>2, <2>3 DEF LedgerInv, ClearsHeld
<1>8. ASSUME NEW g \in Fields
      PROVE  /\ r.res[g].barrier <= now
             /\ r.res[g].claim # NoClaim /\ r.claims[r.res[g].claim].source = "image"
                => \/ r.res[g].barrier = 0
                   \/ r.claims[r.res[g].claim].observed > r.res[g].barrier
  <2>1. r.res[g].barrier = b.res[g].barrier
    BY DEF Vacates
  <2>2. r.res[g].claim # NoClaim => r.res[g].claim = b.res[g].claim
    BY DEF Vacates
  <2> QED
    BY <1>2, <1>3, <2>1, <2>2 DEF LedgerInv, ClearsHeld
<1>9. ClearsHeld(r, now)
  BY <1>7, <1>8 DEF ClearsHeld
<1>10. ImagesSpeak(r)
  BY <1>1, <1>2 DEF LedgerInv, ImagesSpeak
<1>11. DerivedShown(r)
  BY DEF LedgerInv, DerivedShown, Vacates, DerivedFields, Fields
<1> QED
  BY <1>4, <1>5, <1>6, <1>9, <1>10, <1>11 DEF LedgerInv
-----------------------------------------------------------------------------
(* The projection, and the fields that are derived from others. *)

\* What a value written to the projection takes along: nothing derived.
LEMMA TechnicalValue ==
  ASSUME NEW proj \in Projections, NEW f \in Fields, NEW v \in Values,
         NEW next, next = WithTechnicalValue(proj, f, v)
  PROVE  /\ next \in Projections
         /\ next[f] = v
         /\ \A d \in DerivedFields : d # f => next[d] = proj[d]
         /\ \A g \in Fields : g # f => next[g] \in {proj[g], NoValue}
         /\ f \in DerivedFields => \A g \in Fields : g # f => next[g] = proj[g]
<1>1. /\ ClearedBy(f, v) \cap DerivedFields = {}
      /\ f \in DerivedFields => ClearedBy(f, v) = {}
      /\ f \notin ClearedBy(f, v)
  BY DEF ClearedBy, DerivedFields
<1>2. \A g \in Fields : next[g] = IF g = f THEN v
                                  ELSE IF g \in ClearedBy(f, v) THEN NoValue
                                  ELSE proj[g]
  BY <1>1 DEF WithTechnicalValue
<1>3. next \in Projections
  <2>1. NoValue \in Values
    BY DEF Values
  <2>2. DOMAIN next = Fields /\ next = [g \in Fields |-> next[g]]
    BY DEF WithTechnicalValue
  <2>3. \A g \in Fields : next[g] \in Values
    BY <1>2, <2>1 DEF Projections
  <2> QED
    BY <2>2, <2>3 DEF Projections
<1> QED
  BY <1>1, <1>2, <1>3 DEF DerivedFields, Fields

\* A ledger that differs from b by its projection, or by its revision.
LEMMA Reprojected ==
  ASSUME NEW b \in Ledgers, NEW next \in Projections,
         NEW r, r = [b EXCEPT !.proj = next]
  PROVE  /\ r \in Ledgers /\ r.proj = next
         /\ r.claims = b.claims /\ r.res = b.res /\ r.revision = b.revision
BY DEF Ledgers

\* A raised revision changes nothing else.
LEMMA RevisionRaised ==
  ASSUME NEW b \in Ledgers, NEW r, r = [b EXCEPT !.revision = @ + 1]
  PROVE  /\ r \in Ledgers /\ r.revision = b.revision + 1
         /\ r.proj = b.proj /\ r.claims = b.claims /\ r.res = b.res
BY DEF Ledgers

\* r differs from b by derived fields only, which come with derived claims.
DerivedOnly(b, r) ==
  /\ r.revision = b.revision
  /\ Len(b.claims) <= Len(r.claims)
  /\ SameContent(b, r)
  /\ \A i \in Places(r) : i \notin Places(b) => r.claims[i].source = "derived"
  /\ \A f \in Fields \ DerivedFields :
       r.res[f] = b.res[f] /\ r.proj[f] = b.proj[f]

\* Where a derived field is disputed, some source has a claim to show.
DisputeShown(b, sources, disputed) ==
  disputed => \E i \in ConflictsOf(b, sources) :
                i \in Places(b) /\ b.claims[i].value # NoValue

\* Writing a derived value, or that it is disputed or unknown, keeps the
\* invariant, and touches that field alone.
LEMMA Projected ==
  ASSUME NEW b, NEW now \in Nat, LedgerInv(b, now),
         NEW d \in DerivedFields, NEW v \in Values,
         NEW disputed, NEW keepsNoRow, NEW sources \in SUBSET Fields,
         DisputeShown(b, sources, disputed),
         NEW r, r = Project(b, d, v, disputed, sources, keepsNoRow)
  PROVE  /\ LedgerInv(r, now) /\ DerivedOnly(b, r) /\ r.proj[d] = v
         /\ \A g \in Fields \ {d} : r.proj[g] = b.proj[g] /\ r.res[g] = b.res[g]
<1> DEFINE old == b.res[d]
           conflicts == IF disputed THEN ConflictsOf(b, sources) ELSE {}
           state == IF disputed THEN "disputed" ELSE "unknown"
           c == Claim(d, v, "derived", NoClaim, 0, "applied")
           n == Len(b.claims)
           moved == SupersedeCurrent(b, {d}, {"applied", "supporting"})
           blank == [old EXCEPT !.value = NoValue, !.state = state,
                                !.claim = NoClaim, !.source = "derived",
                                !.supporting = {}, !.conflicting = conflicts]
<1>1. /\ b \in Ledgers /\ n \in Nat /\ d \in Fields /\ old \in Rows
      /\ \A f \in Fields : b.res[f] \in Rows
      /\ b.proj \in Projections /\ old.value = b.proj[d]
  BY LedgerParts DEF LedgerInv, Resolutions, DerivedFields, Fields, DerivedShown
<1>2. \/ r = b /\ b.proj[d] = v
      \/ /\ v # NoValue
         /\ r = [Resolve(AddClaim(moved, c), d, Current(old, n + 1, c))
                   EXCEPT !.proj = WithTechnicalValue(@, d, v)]
      \/ /\ v = NoValue
         /\ r = [Resolve(moved, d, blank) EXCEPT !.proj = WithTechnicalValue(@, d, v)]
  BY <1>1 DEF Project
<1>3. /\ moved \in Ledgers
      /\ moved.res = b.res /\ moved.proj = b.proj /\ moved.revision = b.revision
      /\ Len(moved.claims) = n /\ SameContent(b, moved)
      /\ \A i \in Places(b) :
           moved.claims[i].disposition =
             IF b.res[d].claim = i THEN "superseded" ELSE b.claims[i].disposition
  <2> DEFINE m == moved
  <2>1. /\ m \in Ledgers
        /\ m.res = b.res /\ m.proj = b.proj /\ m.revision = b.revision
        /\ Len(m.claims) = n /\ SameContent(b, m)
        /\ \A i \in Places(b) :
             m.claims[i].disposition =
               IF /\ \E f \in {d} : b.res[f].claim = i
                  /\ b.claims[i].disposition \in {"applied", "supporting"}
                 THEN "superseded" ELSE b.claims[i].disposition
    <3> DEFINE fs == {d}
               from == {"applied", "supporting"}
    <3>1. b \in Ledgers /\ fs \in SUBSET Fields /\ m = SupersedeCurrent(b, fs, from)
      BY <1>1
    <3> HIDE DEF m, fs, from
    <3>2. m \in Ledgers /\ LeftBehind(b, m, fs, from)
      BY <3>1, Superseded
    <3> QED
      BY <3>2 DEF fs, from, LeftBehind
  <2>2. \A i \in Places(b) : b.res[d].claim = i => b.claims[i].disposition = "applied"
    BY <1>1 DEF LedgerInv, CurrentApplied, NoClaim, Places
  <2> HIDE DEF moved
  <2> QED
    BY <2>1, <2>2
<1> HIDE DEF moved
<1>4. CASE r = b /\ b.proj[d] = v
  BY <1>1, <1>4 DEF DerivedOnly, SameContent
<1>5. CASE v # NoValue /\ r = [Resolve(AddClaim(moved, c), d, Current(old, n + 1, c))
                                 EXCEPT !.proj = WithTechnicalValue(@, d, v)]
  <2> DEFINE added == AddClaim(moved, c)
             row == Current(old, n + 1, c)
             placed == Resolve(added, d, row)
             next == WithTechnicalValue(b.proj, d, v)
  <2>1. /\ c \in Claims
        /\ c.field = d /\ c.value = v /\ c.source = "derived" /\ c.disposition = "applied"
    <3>1. "derived" \in Sources /\ "applied" \in Dispositions /\ 0 \in Nat
      BY DEF Sources, Dispositions
    <3> QED
      BY <1>1, <3>1, ClaimType
  <2> HIDE DEF c
  <2>2. /\ added \in Ledgers
        /\ added.res = b.res /\ added.proj = b.proj /\ added.revision = b.revision
        /\ Len(added.claims) = n + 1 /\ added.claims[n + 1] = c
        /\ \A i \in Places(b) : added.claims[i] = moved.claims[i]
    BY <1>3, <2>1, ClaimAdded DEF Places
  <2> HIDE DEF added
  <2>3. /\ row \in Rows /\ row.value = v /\ row.state = "resolved"
        /\ row.claim = n + 1 /\ row.barrier = old.barrier /\ row.conflicting = {}
    <3>1. n + 1 \in Nat /\ old \in Rows
      BY <1>1
    <3> HIDE DEF n, old
    <3> QED
      BY <2>1, <3>1, CurrentRow
  <2> HIDE DEF row
  <2>4. /\ placed \in Ledgers /\ placed.claims = added.claims
        /\ placed.proj = b.proj /\ placed.revision = b.revision
        /\ placed.res[d] = row
        /\ \A g \in Fields : g # d => placed.res[g] = b.res[g]
    BY <1>1, <2>2, <2>3, RowChanged
  <2>5. r = [placed EXCEPT !.proj = next]
    BY <1>5, <2>4 DEF added, row, Ledgers
  <2> HIDE DEF placed
  <2>6. /\ next \in Projections /\ next[d] = v
        /\ \A g \in Fields : g # d => next[g] = b.proj[g]
    BY <1>1, TechnicalValue
  <2> HIDE DEF next
  <2>7. /\ r \in Ledgers /\ r.proj = next /\ r.claims = added.claims
        /\ r.res = placed.res /\ r.revision = b.revision
    BY <2>4, <2>5, <2>6, Reprojected
  <2>8. Places(r) = 1 .. (n + 1) /\ Places(b) = 1 .. n
    BY <1>1, <2>2, <2>7 DEF Places
  <2>9. /\ SameContent(b, r)
        /\ \A i \in Places(b) : r.claims[i] = moved.claims[i]
    BY <1>3, <2>2, <2>7 DEF SameContent
  <2>10. TakesOver(b, r, d, n + 1)
    <3>1. \A i \in Places(r) :
            r.claims[i].disposition =
              IF i = n + 1 THEN "applied"
              ELSE IF i = b.res[d].claim THEN "superseded"
              ELSE b.claims[i].disposition
      BY <1>1, <1>3, <2>1, <2>2, <2>7, <2>8, <2>9
    <3>2. n + 1 \notin Places(b) /\ n + 1 \in Places(r)
      BY <1>1, <2>8
    <3>3. /\ r.claims[n + 1].field = d /\ r.claims[n + 1].value = r.res[d].value
          /\ r.res[d].claim = n + 1
      BY <2>1, <2>2, <2>3, <2>4, <2>7
    <3>4. \A g \in Fields : g # d => r.res[g] = b.res[g]
      BY <2>4, <2>7
    <3>5. Len(b.claims) <= Len(r.claims) /\ Places(r) \subseteq Places(b) \cup {n + 1}
      BY <1>1, <2>2, <2>7, <2>8
    <3> QED
      BY <2>9, <3>1, <3>2, <3>3, <3>4, <3>5 DEF TakesOver
  <2>11. Stands(b, r, d, n + 1, now)
    <3>1. r.res[d] = row /\ r.claims[n + 1] = c
      BY <2>2, <2>4, <2>7
    <3>2. row.barrier = b.res[d].barrier /\ row.barrier \in Nat /\ row.barrier <= now
      BY <1>1, <2>3 DEF LedgerInv, ClearsHeld, Rows
    <3>3. \A e \in DerivedFields : r.proj[e] = IF e = d THEN v ELSE b.proj[e]
      BY <2>6, <2>7 DEF DerivedFields, Fields
    <3> QED
      BY <1>5, <2>1, <2>3, <3>1, <3>2, <3>3 DEF Stands
  <2>12. LedgerInv(r, now)
    BY <1>1, <2>7, <2>10, <2>11, NewCurrent DEF NoClaim
  <2>13. DerivedOnly(b, r)
    <3>1. \A i \in Places(r) : i \notin Places(b) => r.claims[i].source = "derived"
      BY <1>1, <2>1, <2>2, <2>7, <2>8
    <3>2. \A f \in Fields \ DerivedFields :
            r.res[f] = b.res[f] /\ r.proj[f] = b.proj[f]
      BY <2>4, <2>6, <2>7
    <3> QED
      BY <1>1, <2>2, <2>7, <2>9, <3>1, <3>2 DEF DerivedOnly
  <2> QED
    BY <2>4, <2>6, <2>7, <2>12, <2>13
<1>6. CASE v = NoValue /\ r = [Resolve(moved, d, blank)
                                 EXCEPT !.proj = WithTechnicalValue(@, d, v)]
  <2> DEFINE placed == Resolve(moved, d, blank)
             next == WithTechnicalValue(b.proj, d, v)
             x == [old EXCEPT !.value = NoValue, !.state = state]
             y == [x EXCEPT !.claim = NoClaim, !.source = "derived"]
  <2>1. conflicts \in SUBSET Nat
    BY <1>1 DEF ConflictsOf, Rows
  <2> HIDE DEF conflicts
  <2>2. /\ x \in Rows /\ x.value = NoValue /\ x.state = state /\ x.barrier = old.barrier
    BY <1>1 DEF Rows, Values, RowStates
  <2>3. blank = [y EXCEPT !.supporting = {}, !.conflicting = conflicts]
    BY <1>1 DEF Rows
  <2> HIDE DEF x
  <2>4. /\ y \in Rows /\ y.value = x.value /\ y.state = x.state
        /\ y.barrier = x.barrier /\ y.claim = NoClaim
    BY <2>2 DEF Rows, Sources, NoClaim
  <2> HIDE DEF y
  <2>5. /\ blank \in Rows /\ blank.value = NoValue /\ blank.state = state
        /\ blank.barrier = old.barrier /\ blank.claim = NoClaim
        /\ blank.conflicting = conflicts
    <3> HIDE DEF blank
    <3> QED
      BY <2>1, <2>2, <2>3, <2>4 DEF Rows
  <2> HIDE DEF blank
  <2>6. /\ placed \in Ledgers /\ placed.claims = moved.claims
        /\ placed.proj = b.proj /\ placed.revision = b.revision
        /\ placed.res[d] = blank
        /\ \A g \in Fields : g # d => placed.res[g] = b.res[g]
    BY <1>1, <1>3, <2>5, RowChanged
  <2>7. r = [placed EXCEPT !.proj = next]
    BY <1>6, <2>6 DEF Ledgers
  <2> HIDE DEF placed
  <2>8. /\ next \in Projections /\ next[d] = v
        /\ \A g \in Fields : g # d => next[g] = b.proj[g]
    BY <1>1, TechnicalValue
  <2> HIDE DEF next
  <2>9. /\ r \in Ledgers /\ r.proj = next /\ r.claims = moved.claims
        /\ r.res = placed.res /\ r.revision = b.revision
    BY <2>6, <2>7, <2>8, Reprojected
  <2>10. SameContent(b, r) /\ Len(r.claims) = n
    BY <1>3, <2>9 DEF SameContent
  <2>11. Vacates(b, r, {d})
    <3>1. \A i \in Places(b) :
            r.claims[i].disposition =
              IF \E f \in {d} : b.res[f].claim = i THEN "superseded"
              ELSE b.claims[i].disposition
      BY <1>3, <2>9
    <3>2. \A g \in Fields \ {d} : r.res[g] = b.res[g]
      BY <2>6, <2>9
    <3>3. /\ r.res[d].claim = NoClaim /\ r.res[d].value = NoValue
          /\ r.res[d].barrier = b.res[d].barrier
      BY <2>5, <2>6, <2>9
    <3>4. \/ r.res[d].state = "unknown" /\ r.res[d].conflicting = {}
          \/ /\ r.res[d].state = "disputed"
             /\ \E i \in r.res[d].conflicting :
                  i \in Places(b) /\ b.claims[i].value # NoValue
      BY <2>5, <2>6, <2>9 DEF conflicts, DisputeShown
    <3>5. \A e \in DerivedFields : r.proj[e] = IF e \in {d} THEN NoValue ELSE b.proj[e]
      BY <1>6, <2>8, <2>9 DEF DerivedFields, Fields
    <3> QED
      BY <2>10, <3>1, <3>2, <3>3, <3>4, <3>5 DEF Vacates
  <2>12. LedgerInv(r, now)
    <3>1. {d} \in SUBSET Fields
      BY <1>1
    <3> QED
      BY <2>9, <2>11, <3>1, Vacated
  <2>13. DerivedOnly(b, r)
    <3>1. Places(r) = Places(b) /\ Len(b.claims) <= Len(r.claims)
      BY <1>1, <2>10 DEF Places
    <3>2. \A f \in Fields \ DerivedFields :
            r.res[f] = b.res[f] /\ r.proj[f] = b.proj[f]
      BY <2>6, <2>8, <2>9
    <3> QED
      BY <2>9, <2>10, <3>1, <3>2 DEF DerivedOnly
  <2> QED
    BY <2>6, <2>8, <2>9, <2>12, <2>13
<1> QED
  BY <1>2, <1>4, <1>5, <1>6

\* A source that is disputed, or resolved, has a claim to show.
LEMMA ConflictNamed ==
  ASSUME NEW b, NEW now, LedgerInv(b, now), NEW sources, NEW f \in sources,
         f \in Fields \ DerivedFields,
         b.res[f].state = "disputed" \/ ResolvedValue(b, f) # NoValue
  PROVE  \E i \in ConflictsOf(b, sources) :
           i \in Places(b) /\ b.claims[i].value # NoValue
<1>1. CASE b.res[f].state = "disputed"
  <2>1. PICK i \in b.res[f].conflicting : i \in Places(b) /\ b.claims[i].value # NoValue
    BY <1>1 DEF LedgerInv, DisputesNamed
  <2> QED
    BY <2>1 DEF ConflictsOf
<1>2. CASE ResolvedValue(b, f) # NoValue
  <2> DEFINE i == b.res[f].claim
  <2>1. b.res[f].value # NoValue /\ i # NoClaim
    BY <1>2 DEF ResolvedValue, LedgerInv, StatesAgree
  <2>2. i \in Places(b) /\ b.claims[i].value # NoValue
    <3>1. Len(b.claims) \in Nat /\ i \in 0 .. Len(b.claims)
      BY LedgerParts DEF LedgerInv, CurrentApplied
    <3> QED
      BY <2>1, <3>1 DEF LedgerInv, CurrentApplied, NoClaim, Places
  <2>3. i \in ConflictsOf(b, sources)
    BY <2>1 DEF ConflictsOf
  <2> QED
    BY <2>2, <2>3
<1> QED
  BY <1>1, <1>2

\* The brake summary recomputed.
LEMMA BrakeRecomputed ==
  ASSUME NEW b, NEW now \in Nat, LedgerInv(b, now),
         NEW r, r = RecomputeBrakeSummary(b)
  PROVE  /\ LedgerInv(r, now) /\ DerivedOnly(b, r)
         /\ r.proj["rear.speeds"] = b.proj["rear.speeds"]
<1> DEFINE mechanisms == {ResolvedValue(b, f) : f \in MechanismFields}
           disputed == Disputed(b, BrakeFields)
           summary == IF disputed THEN NoValue
                      ELSE BrakeSummary(ResolvedValue(b, "front.mechanism"),
                                        ResolvedValue(b, "front.actuation"),
                                        ResolvedValue(b, "rear.mechanism"),
                                        ResolvedValue(b, "rear.actuation"))
           unsure == disputed \/ (summary = NoValue /\ NoValue \notin mechanisms)
<1>1. CASE r = b
  <2>1. Len(b.claims) \in Nat
    BY LedgerParts DEF LedgerInv
  <2> QED
    BY <1>1, <2>1 DEF DerivedOnly, SameContent
<1>2. CASE r = Project(b, "brake.summary", summary, unsure, BrakeFields, TRUE)
  <2>1. summary \in Values
    BY DEF BrakeSummary, Summaries, Values
  <2>2. ASSUME unsure
        PROVE  \E i \in ConflictsOf(b, BrakeFields) :
                 i \in Places(b) /\ b.claims[i].value # NoValue
    <3>1. \A f \in BrakeFields : f \in Fields \ DerivedFields
      BY DEF BrakeFields, MechanismFields, Fields, DerivedFields
    <3>2. CASE disputed
      <4>1. PICK f \in BrakeFields : b.res[f].state = "disputed"
        BY <3>2 DEF Disputed
      <4> HIDE DEF disputed
      <4> QED
        BY <3>1, <4>1, ConflictNamed
    <3>3. CASE NoValue \notin mechanisms
      <4>1. "front.mechanism" \in BrakeFields /\ "front.mechanism" \in MechanismFields
        BY DEF BrakeFields, MechanismFields
      <4>2. ResolvedValue(b, "front.mechanism") # NoValue
        BY <3>3, <4>1
      <4> QED
        BY <3>1, <4>1, <4>2, ConflictNamed
    <3> QED
      BY <2>2, <3>2, <3>3
  <2>3. DisputeShown(b, BrakeFields, unsure)
    BY <2>2 DEF DisputeShown
  <2> HIDE DEF summary, unsure
  <2>4. /\ "brake.summary" \in DerivedFields
        /\ BrakeFields \in SUBSET Fields
        /\ "rear.speeds" \in Fields \ {"brake.summary"}
    BY DEF BrakeFields, MechanismFields, Fields, DerivedFields
  <2> DEFINE d == "brake.summary"
             k == TRUE
  <2>5. r = Project(b, d, summary, unsure, BrakeFields, k) /\ d \in DerivedFields
    BY <1>2, <2>4
  <2> HIDE DEF d, k
  <2>6. /\ LedgerInv(r, now) /\ DerivedOnly(b, r) /\ r.proj[d] = summary
        /\ \A g \in Fields \ {d} : r.proj[g] = b.proj[g] /\ r.res[g] = b.res[g]
    BY <2>1, <2>3, <2>4, <2>5, Projected
  <2> QED
    BY <2>4, <2>6 DEF d
<1> QED
  BY <1>1, <1>2 DEF RecomputeBrakeSummary

-----------------------------------------------------------------------------
(* The rear speed count. *)

CountSources(b) == {f \in CountFields : b.res[f].state # "none"}

CountValues(b) == {ResolvedValue(b, f) : f \in CountSources(b)} \ {NoValue}

\* A count is shown only if its sources agree on it.
RearSpeedsAgree(b) ==
  b.proj["rear.speeds"] # NoValue =>
    /\ \A f \in CountFields : b.res[f].state # "disputed"
    /\ CountValues(b) = {b.proj["rear.speeds"]}

\* A set of one element is that element.
LEMMA OnlyElement ==
  ASSUME NEW S, IsFiniteSet(S), Cardinality(S) = 1
  PROVE  S = {CHOOSE x \in S : TRUE}
<1>1. PICK x : S = {x}
  BY FS_Singleton
<1>2. (CHOOSE y \in S : TRUE) \in S
  BY <1>1
<1> QED
  BY <1>1, <1>2

\* The rear speed count recomputed: after it a count is shown only if its
\* sources agree, whatever the write before it did to them.
LEMMA RearRecomputed ==
  ASSUME NEW b, NEW now \in Nat, LedgerInv(b, now),
         CountSources(b) = {} => b.proj["rear.speeds"] = NoValue,
         NEW r, r = RecomputeRearSpeeds(b)
  PROVE  LedgerInv(r, now) /\ DerivedOnly(b, r) /\ RearSpeedsAgree(r)
<1> DEFINE sources == CountSources(b)
           values == CountValues(b)
           v == IF Cardinality(values) = 1 /\ ~Disputed(b, sources)
                  THEN CHOOSE x \in values : TRUE ELSE NoValue
           unsure == Disputed(b, sources) \/ Cardinality(values) > 1
<1>1. CASE sources = {}
  <2>1. r = b /\ Len(b.claims) \in Nat
    BY <1>1, LedgerParts DEF RecomputeRearSpeeds, CountSources, LedgerInv
  <2>2. RearSpeedsAgree(r)
    BY <1>1, <2>1 DEF RearSpeedsAgree
  <2> QED
    BY <2>1, <2>2 DEF DerivedOnly, SameContent
<1>2. CASE sources # {}
  <2>1. r = Project(b, "rear.speeds", v, unsure, sources, FALSE)
    BY <1>2 DEF RecomputeRearSpeeds, CountSources, CountValues
  <2>2. /\ \A f \in sources : f \in Fields \ DerivedFields /\ b.res[f].value \in Values
        /\ sources \in SUBSET Fields
    BY LedgerParts DEF CountSources, CountFields, Fields, DerivedFields, LedgerInv,
       Resolutions, Rows
  <2>3. IsFiniteSet(values)
    <3> DEFINE two == {ResolvedValue(b, "cluster.speeds"), ResolvedValue(b, "shifter.speeds")}
    <3>1. values \subseteq two
      BY DEF CountValues, CountSources, CountFields
    <3>2. IsFiniteSet({ResolvedValue(b, "cluster.speeds")}
                         \cup {ResolvedValue(b, "shifter.speeds")})
      BY FS_Singleton, FS_AddElement
    <3>3. IsFiniteSet(two)
      <4>1. two = {ResolvedValue(b, "cluster.speeds")}
                    \cup {ResolvedValue(b, "shifter.speeds")}
        OBVIOUS
      <4> QED
        BY <3>2, <4>1
    <3> HIDE DEF two
    <3> QED
      BY <3>1, <3>3, FS_Subset
  <2>4. \A x \in values : x \in Values /\ x # NoValue
    BY <2>2 DEF CountValues, ResolvedValue, Values
  <2>5. v \in Values
    <3>1. Cardinality(values) = 1 => (CHOOSE x \in values : TRUE) \in values
      BY <2>3, OnlyElement
    <3> QED
      BY <2>4, <3>1 DEF Values
  <2>6. ASSUME unsure
        PROVE  \E i \in ConflictsOf(b, sources) :
                 i \in Places(b) /\ b.claims[i].value # NoValue
    <3>1. CASE Disputed(b, sources)
      <4>1. PICK f \in sources : b.res[f].state = "disputed"
        BY <3>1 DEF Disputed
      <4> QED
        BY <2>2, <4>1, ConflictNamed
    <3>2. CASE Cardinality(values) > 1
      <4>1. values # {}
        BY <3>2, FS_EmptySet
      <4>2. PICK f \in sources : ResolvedValue(b, f) # NoValue
        BY <4>1 DEF CountValues
      <4> QED
        BY <2>2, <4>2, ConflictNamed
    <3> QED
      BY <2>6, <3>1, <3>2
  <2>7. DisputeShown(b, sources, unsure)
    BY <2>6 DEF DisputeShown
  <2>8. v # NoValue => ~Disputed(b, sources) /\ values = {v}
    BY <2>3, OnlyElement
  <2> HIDE DEF v, unsure
  <2>9. "rear.speeds" \in DerivedFields
    BY DEF DerivedFields
  <2>10. /\ LedgerInv(r, now) /\ DerivedOnly(b, r) /\ r.proj["rear.speeds"] = v
         /\ \A g \in Fields \ {"rear.speeds"} : r.res[g] = b.res[g]
    <3> DEFINE d == "rear.speeds"
               k == FALSE
    <3>1. /\ r = Project(b, d, v, unsure, sources, k) /\ d \in DerivedFields
          /\ sources \in SUBSET Fields
      BY <2>1, <2>2, <2>9
    <3> HIDE DEF sources, d, k
    <3>2. /\ LedgerInv(r, now) /\ DerivedOnly(b, r) /\ r.proj[d] = v
          /\ \A g \in Fields \ {d} : r.proj[g] = b.proj[g] /\ r.res[g] = b.res[g]
      BY <2>5, <2>7, <3>1, Projected
    <3> QED
      BY <3>2 DEF d
  <2>11. RearSpeedsAgree(r)
    <3>1. \A f \in CountFields : r.res[f] = b.res[f]
      BY <2>10 DEF CountFields, Fields
    <3>2. CountValues(r) = CountValues(b)
      BY <3>1 DEF CountValues, CountSources, ResolvedValue
    <3>3. ~Disputed(b, sources) => \A f \in CountFields : b.res[f].state # "disputed"
      BY DEF Disputed, CountSources
    <3> QED
      BY <2>8, <2>10, <3>1, <3>2, <3>3 DEF RearSpeedsAgree
  <2> QED
    BY <2>10, <2>11
<1> QED
  BY <1>1, <1>2

-----------------------------------------------------------------------------
(* A write as a whole. *)

\* What a write keeps of the ledger b it started from.
WrittenFrom(b, r) ==
  /\ r.revision = b.revision
  /\ Len(b.claims) <= Len(r.claims)
  /\ SameContent(b, r)
  /\ \A f \in Fields : r.res[f].state = "none" => b.res[f].state = "none"
  /\ \A d \in DerivedFields : r.proj[d] = b.proj[d]

\* A write ends by recomputing what is derived and by raising the revision if
\* anything but claims changed: then both invariants hold again.
LEMMA Rewritten ==
  ASSUME NEW b0, RearSpeedsAgree(b0), NEW b, NEW now \in Nat, LedgerInv(b, now),
         WrittenFrom(b0, b), NEW changed \in BOOLEAN,
         NEW r, r = Revised(b, changed)
  PROVE  /\ LedgerInv(r, now) /\ RearSpeedsAgree(r)
         /\ Len(b.claims) <= Len(r.claims) /\ SameContent(b, r)
         /\ \A i \in Places(r) : i \notin Places(b) => r.claims[i].source = "derived"
         /\ r.revision > b.revision \/ (~changed /\ r = b)
<1> DEFINE c == RecomputeBrakeSummary(b)
           d == RecomputeRearSpeeds(c)
<1>1. /\ LedgerInv(c, now) /\ DerivedOnly(b, c)
      /\ c.proj["rear.speeds"] = b.proj["rear.speeds"]
  BY BrakeRecomputed
<1>2. r = IF changed \/ d # b THEN [d EXCEPT !.revision = @ + 1] ELSE d
  BY DEF Revised, RecomputeDerived
<1> HIDE DEF c
<1>3. CountSources(c) = {} => c.proj["rear.speeds"] = NoValue
  <2> SUFFICES ASSUME CountSources(c) = {} PROVE c.proj["rear.speeds"] = NoValue
    OBVIOUS
  <2>1. \A f \in CountFields : b.res[f].state = "none"
    BY <1>1 DEF CountSources, DerivedOnly, CountFields, Fields, DerivedFields
  <2>2. CountSources(b0) = {}
    BY <2>1 DEF CountSources, WrittenFrom, CountFields, Fields
  <2>3. b0.proj["rear.speeds"] = NoValue
    BY <2>2 DEF RearSpeedsAgree, CountValues
  <2> QED
    BY <1>1, <2>3 DEF WrittenFrom, DerivedFields
<1>4. LedgerInv(d, now) /\ DerivedOnly(c, d) /\ RearSpeedsAgree(d)
  BY <1>1, <1>3, RearRecomputed
<1> HIDE DEF d
<1>5. /\ Len(b.claims) \in Nat /\ Len(c.claims) \in Nat /\ Len(d.claims) \in Nat
      /\ b.revision \in Nat /\ d.revision = b.revision
  BY <1>1, <1>4, LedgerParts DEF LedgerInv, DerivedOnly
<1>6. /\ Len(b.claims) <= Len(d.claims) /\ SameContent(b, d)
      /\ \A i \in Places(d) : i \notin Places(b) => d.claims[i].source = "derived"
  <2>1. \A i \in Places(b) : i \in Places(c)
    BY <1>1, <1>5 DEF DerivedOnly, Places
  <2>2. SameContent(b, d)
    BY <1>1, <1>4, <2>1 DEF DerivedOnly, SameContent
  <2>3. \A i \in Places(d) : i \notin Places(b) => d.claims[i].source = "derived"
    BY <1>1, <1>4, <1>5, <2>1 DEF DerivedOnly, SameContent
  <2> QED
    BY <1>1, <1>4, <1>5, <2>2, <2>3 DEF DerivedOnly
<1>7. CASE ~changed /\ d = b
  BY <1>2, <1>4, <1>5, <1>6, <1>7
<1>8. CASE changed \/ d # b
  <2>1. /\ r \in Ledgers /\ r.revision = d.revision + 1
        /\ r.proj = d.proj /\ r.claims = d.claims /\ r.res = d.res
    BY <1>2, <1>4, <1>8, RevisionRaised DEF LedgerInv
  <2>2. CurrentApplied(r) /\ StatesAgree(r)
    BY <1>4, <2>1 DEF LedgerInv, CurrentApplied, StatesAgree, Places
  <2>3. DisputesNamed(r) /\ ImagesSpeak(r) /\ DerivedShown(r)
    BY <1>4, <2>1 DEF LedgerInv, DisputesNamed, ImagesSpeak, DerivedShown, Places
  <2>4. ClearsHeld(r, now)
    BY <1>4, <2>1 DEF LedgerInv, ClearsHeld, Places
  <2>5. RearSpeedsAgree(r)
    BY <1>4, <2>1 DEF RearSpeedsAgree, CountValues, CountSources, ResolvedValue
  <2>6. LedgerInv(r, now)
    BY <2>1, <2>2, <2>3, <2>4 DEF LedgerInv
  <2> QED
    BY <1>5, <1>6, <2>1, <2>5, <2>6 DEF SameContent, Places
<1> QED
  BY <1>7, <1>8

-----------------------------------------------------------------------------
(* Manual edits and clears. *)

\* What manual claims keep of the ledger b they started from: a field that has
\* still its claim is as it was, and the projection if that is so of every one.
EditedFrom(b, r) ==
  /\ WrittenFrom(b, r)
  /\ \A i \in Places(r) : i \notin Places(b) => r.claims[i].source # "image"
  /\ \A f \in Fields :
       \/ r.res[f].claim > Len(b.claims)
       \/ /\ r.res[f].claim = b.res[f].claim /\ r.res[f].value = b.res[f].value
          /\ r.res[f].state = b.res[f].state /\ r.res[f].barrier = b.res[f].barrier
          /\ r.res[f].conflicting = b.res[f].conflicting
  /\ r.proj = b.proj \/ \E f \in Fields : r.res[f].claim > Len(b.claims)

\* One manual claim: a clear, an edit that wins or one that only supports.
LEMMA ManualKeeps ==
  ASSUME NEW b0, Len(b0.claims) \in Nat, NEW now \in Nat \ {0},
         NEW b, LedgerInv(b, now), EditedFrom(b0, b),
         NEW f \in Fields \ DerivedFields, NEW v \in ValuesOf(f) \cup {NoValue},
         NEW r, r = ApplyManual(b, f, v, now)
  PROVE  LedgerInv(r, now) /\ EditedFrom(b0, r)
<1> DEFINE old == b.res[f]
           clear == v = NoValue
           matches == IF clear THEN old.state = "cleared"
                               ELSE old.value = v /\ old.state = "resolved"
           source == IF clear THEN "clear" ELSE "manual"
           disposition == IF matches THEN "supporting" ELSE "applied"
           c == Claim(f, v, source, NoClaim, now, disposition)
           n == Len(b.claims)
           added == AddClaim(b, c)
           row == IF clear
                    THEN [Current(old, n + 1, c) EXCEPT !.state = "cleared", !.barrier = now]
                    ELSE Current(old, n + 1, c)
<1>1. /\ b \in Ledgers /\ n \in Nat /\ old \in Rows /\ f \in Fields
      /\ b.proj \in Projections /\ v \in Values
      /\ Places(b) = 1 .. n /\ Len(b0.claims) <= n
  BY LedgerParts DEF LedgerInv, Resolutions, Values, Places, EditedFrom, WrittenFrom
<1>2. \/ matches /\ clear /\ r = added
      \/ /\ matches /\ ~clear
         /\ r = Resolve(added, f, [old EXCEPT !.supporting = @ \cup {n + 1}])
      \/ /\ ~matches
         /\ r = [Resolve(SupersedeCurrent(added, {f}, {"applied"}), f, row)
                   EXCEPT !.proj = WithTechnicalValue(@, f, v)]
  BY DEF ApplyManual
<1>3. /\ c \in Claims
      /\ c.field = f /\ c.value = v /\ c.source = source /\ c.observed = now
      /\ c.disposition = disposition
  <2>1. source \in Sources /\ disposition \in Dispositions
    BY DEF Sources, Dispositions
  <2>2. now \in Nat /\ NoClaim \in Turns \cup {NoClaim} /\ f \in Fields /\ v \in Values
    BY <1>1
  <2>3. c = Claim(f, v, source, NoClaim, now, disposition)
    OBVIOUS
  <2> HIDE DEF source, disposition, c
  <2> QED
    BY <2>1, <2>2, <2>3, ClaimType
<1> HIDE DEF c
<1>4. /\ added \in Ledgers
      /\ added.res = b.res /\ added.proj = b.proj /\ added.revision = b.revision
      /\ Len(added.claims) = n + 1 /\ added.claims[n + 1] = c
      /\ \A i \in Places(b) : added.claims[i] = b.claims[i]
      /\ SameContent(b, added)
  BY <1>1, <1>3, ClaimAdded
<1> HIDE DEF added
\* A claim that only supports what is there.
<1>5. ASSUME matches, r \in Ledgers, r.claims = added.claims, r.proj = b.proj,
             r.revision = b.revision,
             \A g \in Fields :
               /\ r.res[g].value = b.res[g].value /\ r.res[g].state = b.res[g].state
               /\ r.res[g].claim = b.res[g].claim /\ r.res[g].barrier = b.res[g].barrier
               /\ r.res[g].conflicting = b.res[g].conflicting
      PROVE  LedgerInv(r, now) /\ EditedFrom(b0, r)
  <2>1. Notes(b, r)
    BY <1>3, <1>4, <1>5 DEF Notes
  <2>2. Places(r) = 1 .. (n + 1) /\ Len(r.claims) = n + 1
    BY <1>4, <1>5 DEF Places
  <2>3. SameContent(b0, r)
    BY <1>1, <1>4, <1>5 DEF EditedFrom, WrittenFrom, SameContent, Places
  <2>4. WrittenFrom(b0, r)
    BY <1>1, <1>5, <2>2, <2>3 DEF EditedFrom, WrittenFrom
  <2>5. \A i \in Places(r) : i \notin Places(b0) => r.claims[i].source # "image"
    BY <1>1, <1>3, <1>4, <1>5, <2>2 DEF EditedFrom
  <2>6. EditedFrom(b0, r)
    BY <1>5, <2>4, <2>5 DEF EditedFrom
  <2> QED
    BY <1>5, <2>1, <2>6, Noted
<1>6. CASE matches /\ clear /\ r = added
  BY <1>4, <1>5, <1>6
<1>7. CASE /\ matches /\ ~clear
           /\ r = Resolve(added, f, [old EXCEPT !.supporting = @ \cup {n + 1}])
  <2> DEFINE next == [old EXCEPT !.supporting = @ \cup {n + 1}]
  <2>1. /\ next \in Rows /\ next.value = old.value /\ next.state = old.state
        /\ next.claim = old.claim /\ next.barrier = old.barrier
        /\ next.conflicting = old.conflicting
    BY <1>1 DEF Rows
  <2>2. r = Resolve(added, f, next)
    BY <1>7
  <2> HIDE DEF next
  <2>3. /\ r \in Ledgers
        /\ r.claims = added.claims /\ r.proj = added.proj /\ r.revision = added.revision
        /\ r.res[f] = next
        /\ \A g \in Fields : g # f => r.res[g] = added.res[g]
    <3>1. added \in Ledgers /\ f \in Fields /\ next \in Rows
      BY <1>4, <2>1
    <3> QED
      BY <2>2, <3>1, RowChanged
  <2> QED
    BY <1>4, <1>5, <1>7, <2>1, <2>3
\* A claim that wins.
<1>8. CASE /\ ~matches
           /\ r = [Resolve(SupersedeCurrent(added, {f}, {"applied"}), f, row)
                     EXCEPT !.proj = WithTechnicalValue(@, f, v)]
  <2> DEFINE fs == {f}
             from == {"applied"}
             moved == SupersedeCurrent(added, fs, from)
             placed == Resolve(moved, f, row)
             next == WithTechnicalValue(b.proj, f, v)
             x == Current(old, n + 1, c)
  <2>1. moved \in Ledgers /\ LeftBehind(added, moved, fs, from)
    <3>1. fs \in SUBSET Fields
      BY <1>1
    <3> HIDE DEF fs, from
    <3> QED
      BY <1>4, <3>1, Superseded
  <2>2. /\ moved.res = b.res /\ moved.proj = b.proj /\ moved.revision = b.revision
        /\ Len(moved.claims) = n + 1 /\ SameContent(added, moved)
        /\ \A i \in Places(added) :
             moved.claims[i].disposition =
               IF b.res[f].claim = i /\ added.claims[i].disposition = "applied"
                 THEN "superseded" ELSE added.claims[i].disposition
    <3> HIDE DEF moved
    <3> QED
      BY <1>4, <2>1 DEF LeftBehind, fs, from
  <2> HIDE DEF moved
  <2>3. /\ x \in Rows /\ x.value = v /\ x.state = "resolved"
        /\ x.claim = n + 1 /\ x.barrier = old.barrier /\ x.conflicting = {}
    <3>1. n + 1 \in Nat /\ old \in Rows /\ c \in Claims /\ c.value = v
      BY <1>1, <1>3
    <3>2. x = Current(old, n + 1, c)
      OBVIOUS
    <3> HIDE DEF n, old, x
    <3> QED
      BY <3>1, <3>2, CurrentRow
  <2>4. row = IF clear THEN [x EXCEPT !.state = "cleared", !.barrier = now] ELSE x
    OBVIOUS
  <2> HIDE DEF x, row
  <2>5. /\ row \in Rows /\ row.value = v /\ row.claim = n + 1 /\ row.conflicting = {}
        /\ row.state = IF clear THEN "cleared" ELSE "resolved"
        /\ row.barrier = IF clear THEN now ELSE old.barrier
    BY <2>3, <2>4 DEF Rows, RowStates
  <2>6. /\ placed \in Ledgers /\ placed.claims = moved.claims
        /\ placed.proj = b.proj /\ placed.revision = b.revision
        /\ placed.res[f] = row
        /\ \A g \in Fields : g # f => placed.res[g] = b.res[g]
    BY <1>1, <2>1, <2>2, <2>5, RowChanged
  <2>7. r = [placed EXCEPT !.proj = next]
    BY <1>8, <2>6 DEF moved, Ledgers
  <2> HIDE DEF placed
  <2>8. /\ next \in Projections
        /\ \A d \in DerivedFields : next[d] = b.proj[d]
    BY <1>1, TechnicalValue
  <2> HIDE DEF next
  <2>9. /\ r \in Ledgers /\ r.proj = next /\ r.claims = moved.claims
        /\ r.res = placed.res /\ r.revision = b.revision
    BY <2>6, <2>7, <2>8, Reprojected
  <2>10. Places(r) = 1 .. (n + 1) /\ Places(added) = 1 .. (n + 1)
    BY <1>4, <2>2, <2>9 DEF Places
  <2>11. /\ r.claims[n + 1].field = f /\ r.claims[n + 1].value = v
         /\ r.claims[n + 1].source = source /\ r.claims[n + 1].observed = now
         /\ r.claims[n + 1].disposition = "applied"
         /\ old.claim # n + 1
    <3>1. old.claim # n + 1 /\ n + 1 \in Places(added)
      BY <1>1, <2>10 DEF LedgerInv, CurrentApplied
    <3> QED
      BY <1>3, <1>4, <1>8, <2>2, <2>9, <3>1 DEF SameContent
  <2>12. SameContent(b, r)
    BY <1>1, <1>4, <2>2, <2>9, <2>10 DEF SameContent
  <2>13. \A i \in Places(b) :
           r.claims[i].disposition =
             IF i = b.res[f].claim THEN "superseded" ELSE b.claims[i].disposition
    <3>1. \A i \in Places(b) : i = b.res[f].claim => b.claims[i].disposition = "applied"
      BY <1>1 DEF LedgerInv, CurrentApplied, NoClaim
    <3> QED
      BY <1>1, <1>4, <2>2, <2>9, <2>10, <3>1
  <2>14. TakesOver(b, r, f, n + 1)
    <3>1. n + 1 \in Places(r) /\ n + 1 \notin Places(b) /\ Len(r.claims) = n + 1
      BY <1>1, <2>2, <2>9, <2>10
    <3>2. Places(r) \subseteq Places(b) \cup {n + 1} /\ n <= Len(r.claims)
      BY <1>1, <2>10, <3>1
    <3>3. r.res[f].claim = n + 1 /\ r.res[f].value = v
      BY <2>5, <2>6, <2>9
    <3>4. \A g \in Fields : g # f => r.res[g] = b.res[g]
      BY <2>6, <2>9
    <3>5. \A i \in Places(r) :
            r.claims[i].disposition =
              IF i = n + 1 THEN "applied"
              ELSE IF i = b.res[f].claim THEN "superseded"
              ELSE b.claims[i].disposition
      BY <2>11, <2>13, <3>2
    <3> QED
      BY <2>11, <2>12, <3>1, <3>2, <3>3, <3>4, <3>5 DEF TakesOver
  <2>15. Stands(b, r, f, n + 1, now)
    <3>1. r.res[f] = row
      BY <2>6, <2>9
    <3>2. old.barrier \in Nat /\ old.barrier <= now
      BY <1>1 DEF LedgerInv, ClearsHeld, Rows
    <3>3. \A d \in DerivedFields : r.proj[d] = b.proj[d] /\ d # f
      BY <2>8, <2>9
    <3> QED
      BY <2>5, <2>11, <3>1, <3>2, <3>3 DEF Stands
  <2>16. LedgerInv(r, now)
    BY <1>1, <2>9, <2>14, <2>15, NewCurrent DEF NoClaim
  <2>17. Len(r.claims) = n + 1 /\ SameContent(b0, r)
    BY <1>1, <2>2, <2>9, <2>12 DEF EditedFrom, WrittenFrom, SameContent, Places
  <2>18. WrittenFrom(b0, r)
    <3>1. \A d \in DerivedFields : r.proj[d] = b.proj[d]
      BY <2>8, <2>9
    <3>2. \A g \in Fields : r.res[g].state = "none" => b.res[g].state = "none"
      BY <2>5, <2>6, <2>9
    <3> QED
      BY <1>1, <2>9, <2>17, <3>1, <3>2 DEF EditedFrom, WrittenFrom
  <2>19. \A i \in Places(r) : i \notin Places(b0) => r.claims[i].source # "image"
    BY <1>1, <2>10, <2>11, <2>12 DEF EditedFrom, SameContent
  <2>20. r.res[f].claim > Len(b0.claims)
    BY <1>1, <2>5, <2>6, <2>9
  <2>21. EditedFrom(b0, r)
    BY <1>1, <2>6, <2>9, <2>18, <2>19, <2>20 DEF EditedFrom
  <2> QED
    BY <2>16, <2>21
<1> QED
  BY <1>2, <1>6, <1>7, <1>8

\* Time passes.
LEMMA LaterInv ==
  ASSUME NEW b, NEW m \in Nat, NEW now \in Nat, m <= now, LedgerInv(b, m)
  PROVE  LedgerInv(b, now)
<1>1. \A f \in Fields : b.res[f].barrier \in Nat
  BY LedgerParts DEF LedgerInv, Resolutions, Rows
<1>2. ClearsHeld(b, now)
  BY <1>1 DEF LedgerInv, ClearsHeld
<1> QED
  BY <1>2 DEF LedgerInv

\* The images that speak in r are those of b.
SameImages(b, r) ==
  /\ Len(b.claims) <= Len(r.claims)
  /\ SameContent(b, r)
  /\ \A i \in Places(r) : i \notin Places(b) => r.claims[i].source # "image"

\* Nothing that a reader could notice differs.
LooksSame(b, r) ==
  /\ r.proj = b.proj
  /\ \A f \in Fields :
       /\ r.res[f].value = b.res[f].value /\ r.res[f].state = b.res[f].state
       /\ r.res[f].conflicting = b.res[f].conflicting
       /\ r.res[f].barrier = b.res[f].barrier

\* A whole patch: its claims in order, then what is derived from them.
LEMMA PatchKeeps ==
  ASSUME NEW m \in Nat, NEW b, LedgerInv(b, m), RearSpeedsAgree(b),
         NEW patch \in Edits, FieldsOf(patch) \subseteq Fields \ DerivedFields,
         NEW r, r = ApplyPatch(b, patch, m + 1)
  PROVE  /\ LedgerInv(r, m + 1) /\ RearSpeedsAgree(r) /\ SameImages(b, r)
         /\ r.revision > b.revision \/ (r.revision = b.revision /\ LooksSame(b, r))
<1> DEFINE now == m + 1
           E == UNION {{f} \X (ValuesOf(f) \cup {NoValue}) : f \in Fields}
           P == {l \in Ledgers : LedgerInv(l, now) /\ EditedFrom(b, l)}
           applied == Applied(b, patch, now)
           changed == \E f \in Fields : b.res[f].claim # applied.res[f].claim
<1>1. /\ now \in Nat /\ now \in Nat \ {0} /\ patch \in Seq(E)
      /\ b \in Ledgers /\ Len(b.claims) \in Nat
      /\ \A f \in Fields : b.res[f].claim \in 0 .. Len(b.claims)
  BY LedgerParts, ProfileAssumption DEF LedgerInv, CurrentApplied
<1>2. b \in P
  <2>1. LedgerInv(b, now)
    BY <1>1, LaterInv
  <2>2. EditedFrom(b, b)
    BY <1>1 DEF EditedFrom, WrittenFrom, SameContent
  <2> QED
    BY <1>1, <2>1, <2>2
<1>3. ASSUME NEW l \in P, NEW i \in 1 .. Len(patch)
      PROVE  ApplyManual(l, patch[i][1], patch[i][2], now) \in P
  <2> DEFINE f == patch[i][1]
             v == patch[i][2]
             s == ApplyManual(l, f, v, now)
  <2>1. patch[i] \in E
    BY <1>1, ElementOfSeq
  <2>2. PICK g \in Fields : patch[i] \in {g} \X (ValuesOf(g) \cup {NoValue})
    BY <2>1
  <2>3. f \in FieldsOf(patch)
    BY DEF FieldsOf
  <2>4. f \in Fields \ DerivedFields /\ v \in ValuesOf(f) \cup {NoValue}
    BY <2>2, <2>3
  <2> HIDE DEF f, v, now
  <2>5. LedgerInv(s, now) /\ EditedFrom(b, s)
    BY <1>1, <2>4, ManualKeeps
  <2>6. s \in Ledgers
    BY <2>5 DEF LedgerInv
  <2> QED
    BY <2>5, <2>6 DEF f, v
<1> HIDE DEF E, now
<1>4. applied \in P
  <2> HIDE DEF P
  <2> QED
    BY <1>1, <1>2, <1>3, AppliedSteps
<1>5. r = Revised(applied, changed)
  BY DEF ApplyPatch, now
<1>6. LedgerInv(applied, now) /\ EditedFrom(b, applied) /\ WrittenFrom(b, applied)
  BY <1>4 DEF EditedFrom
<1> HIDE DEF applied
<1>7. changed \in BOOLEAN
  OBVIOUS
<1>8. ~changed => LooksSame(b, applied)
  BY <1>1, <1>6 DEF EditedFrom, LooksSame
<1> HIDE DEF changed
<1>9. /\ LedgerInv(r, now) /\ RearSpeedsAgree(r)
      /\ Len(applied.claims) <= Len(r.claims) /\ SameContent(applied, r)
      /\ \A i \in Places(r) : i \notin Places(applied) => r.claims[i].source = "derived"
      /\ r.revision > applied.revision \/ (~changed /\ r = applied)
  BY <1>1, <1>5, <1>6, <1>7, Rewritten
<1>10. /\ Len(applied.claims) \in Nat /\ Len(r.claims) \in Nat
       /\ applied.revision = b.revision /\ Len(b.claims) <= Len(applied.claims)
  BY <1>6, <1>9, LedgerParts DEF LedgerInv, EditedFrom, WrittenFrom
<1>11. SameImages(b, r)
  <2>1. \A i \in Places(b) : i \in Places(applied)
    BY <1>1, <1>10 DEF Places
  <2>2. SameContent(b, r)
    BY <1>6, <1>9, <2>1 DEF WrittenFrom, SameContent
  <2>3. \A i \in Places(r) : i \notin Places(b) => r.claims[i].source # "image"
    BY <1>6, <1>9 DEF EditedFrom, SameContent
  <2> QED
    BY <1>1, <1>9, <1>10, <2>2, <2>3 DEF SameImages
<1> QED
  BY <1>8, <1>9, <1>10, <1>11 DEF now

-----------------------------------------------------------------------------
(* Claims of an image. *)

\* What a write that adds no claim keeps.
SameLength(b, r) ==
  /\ r.revision = b.revision
  /\ Len(r.claims) = Len(b.claims)
  /\ SameContent(b, r)

\* Claim id made current in its field, before anything is retired.
Placed(b, id) ==
  LET f == b.claims[id].field
  IN  Resolve(SupersedeCurrent(Dispose(b, id, "applied"), {f}, {"applied", "supporting"}),
              f, Current(b.res[f], id, b.claims[id]))

\* What that has done to the ledger.
PlacedIn(b, r, f, id) ==
  /\ SameLength(b, r) /\ r.proj = b.proj
  /\ r.res[f].value = b.claims[id].value /\ r.res[f].state = "resolved"
  /\ r.res[f].claim = id /\ r.res[f].barrier = b.res[f].barrier
  /\ r.res[f].conflicting = {}
  /\ \A g \in Fields : g # f => r.res[g] = b.res[g]
  /\ \A i \in Places(b) :
       /\ i = id /\ b.res[f].claim # id => r.claims[i].disposition = "applied"
       /\ i # id => r.claims[i].disposition =
                      IF /\ b.res[f].claim = i
                         /\ b.claims[i].disposition \in {"applied", "supporting"}
                        THEN "superseded" ELSE b.claims[i].disposition

\* What placing claim id as the current one of its field does.
LEMMA Placing ==
  ASSUME NEW b \in Ledgers, NEW id \in Places(b), NEW r, r = Placed(b, id)
  PROVE  r \in Ledgers /\ PlacedIn(b, r, b.claims[id].field, id)
<1> DEFINE f == b.claims[id].field
           taken == Dispose(b, id, "applied")
           fs == {f}
           from == {"applied", "supporting"}
           moved == SupersedeCurrent(taken, fs, from)
           c == b.claims[id]
           old == b.res[f]
           row == Current(old, id, c)
<1>1. /\ Len(b.claims) \in Nat /\ id \in Nat /\ c \in Claims /\ old \in Rows
      /\ f \in Fields /\ fs \in SUBSET Fields /\ "applied" \in Dispositions
  BY LedgerParts DEF Resolutions, Dispositions, Places, Claims
<1>2. r = Resolve(moved, f, row)
  BY DEF Placed
<1> HIDE DEF f, row, fs, from, moved
<1>3. /\ taken \in Ledgers
      /\ taken.res = b.res /\ taken.proj = b.proj /\ taken.revision = b.revision
      /\ Len(taken.claims) = Len(b.claims)
      /\ SameContent(b, taken)
      /\ taken.claims[id].disposition = "applied"
      /\ \A i \in Places(b) :
           i # id => taken.claims[i].disposition = b.claims[i].disposition
  <2> DEFINE s == "applied"
             t == Dispose(b, id, s)
  <2>1. s \in Dispositions
    BY <1>1
  <2> HIDE DEF s
  <2>2. /\ t \in Ledgers
        /\ t.res = b.res /\ t.proj = b.proj /\ t.revision = b.revision
        /\ Len(t.claims) = Len(b.claims)
        /\ SameContent(b, t)
        /\ t.claims[id].disposition = s
        /\ \A i \in Places(b) :
             i # id => t.claims[i].disposition = b.claims[i].disposition
    <3> HIDE DEF t
    <3> QED
      BY <2>1, Disposed DEF t
  <2> QED
    BY <2>2 DEF s
<1> HIDE DEF taken
<1>4. moved \in Ledgers /\ LeftBehind(taken, moved, fs, from)
  <2>1. moved = SupersedeCurrent(taken, fs, from)
    BY DEF moved
  <2> QED
    BY <1>1, <1>3, <2>1, Superseded
<1>5. /\ row \in Rows /\ row.value = c.value /\ row.state = "resolved"
      /\ row.claim = id /\ row.barrier = old.barrier /\ row.conflicting = {}
  <2>1. row = Current(old, id, c)
    BY DEF row
  <2> HIDE DEF old, c
  <2> QED
    BY <1>1, <2>1, CurrentRow
<1>6. /\ r \in Ledgers
      /\ r.claims = moved.claims /\ r.proj = moved.proj /\ r.revision = moved.revision
      /\ r.res[f] = row
      /\ \A g \in Fields : g # f => r.res[g] = moved.res[g]
  <2>1. moved \in Ledgers /\ row \in Rows /\ f \in Fields
    BY <1>1, <1>4, <1>5
  <2> QED
    BY <1>2, <2>1, RowChanged
<1>7. SameLength(b, r) /\ r.proj = b.proj
  <2>1. Places(taken) = Places(b)
    BY <1>3 DEF Places
  <2> QED
    BY <1>3, <1>4, <1>6, <2>1 DEF SameLength, LeftBehind, SameContent
<1>8. \A i \in Places(b) :
        r.claims[i].disposition =
          IF b.res[f].claim = i /\ taken.claims[i].disposition \in {"applied", "supporting"}
            THEN "superseded" ELSE taken.claims[i].disposition
  BY <1>3, <1>4, <1>6 DEF LeftBehind, Places, fs, from
<1>9. \A g \in Fields : g # f => r.res[g] = b.res[g]
  BY <1>3, <1>4, <1>6 DEF LeftBehind
<1> QED
  BY <1>3, <1>5, <1>6, <1>7, <1>8, <1>9 DEF PlacedIn, f

\* The fields whose facts the projection next no longer carries.
Invalidated(b, next, kept) ==
  {g \in Fields \ {kept} : b.proj[g] # NoValue /\ next[g] = NoValue
                             /\ b.res[g].value # NoValue}

Retire(b, next, kept) == [RetireInvalidated(b, next, kept) EXCEPT !.proj = next]

\* The fields gone have lost their facts.
RetiredIn(b, r, next, gone) ==
  /\ SameLength(b, r) /\ r.proj = next
  /\ \A g \in Fields \ gone : r.res[g] = b.res[g]
  /\ \A g \in gone :
       /\ r.res[g].claim = NoClaim /\ r.res[g].value = NoValue
       /\ r.res[g].barrier = b.res[g].barrier
       /\ r.res[g].state = "unknown" /\ r.res[g].conflicting = {}
  /\ \A i \in Places(b) :
       r.claims[i].disposition =
         IF /\ \E g \in gone : b.res[g].claim = i
            /\ b.claims[i].disposition \in {"applied", "supporting"}
           THEN "superseded" ELSE b.claims[i].disposition

\* What retiring the fields that a new projection invalidates does.
LEMMA Retired ==
  ASSUME NEW b \in Ledgers, NEW next \in Projections, NEW kept,
         NEW r, r = Retire(b, next, kept)
  PROVE  r \in Ledgers /\ RetiredIn(b, r, next, Invalidated(b, next, kept))
<1> DEFINE gone == Invalidated(b, next, kept)
           from == {"applied", "supporting"}
           moved == SupersedeCurrent(b, gone, from)
           blank(g) == [NoResolution EXCEPT !.state = "unknown", !.barrier = b.res[g].barrier]
           rows == [g \in Fields |-> IF g \in gone THEN blank(g) ELSE b.res[g]]
           emptied == [moved EXCEPT !.res = rows]
<1>1. gone \in SUBSET Fields /\ next \in Projections /\ \A g \in Fields : b.res[g] \in Rows
  BY LedgerParts DEF Invalidated, Resolutions
<1>2. r = [emptied EXCEPT !.proj = next]
  BY DEF Retire, RetireInvalidated, Invalidated
<1> HIDE DEF gone
<1>3. moved \in Ledgers /\ LeftBehind(b, moved, gone, from)
  <2> DEFINE m == moved
  <2>1. m = SupersedeCurrent(b, gone, from)
    OBVIOUS
  <2> HIDE DEF m, from
  <2>2. m \in Ledgers /\ LeftBehind(b, m, gone, from)
    BY <1>1, <2>1, Superseded
  <2> QED
    BY <2>2 DEF m
<1> HIDE DEF moved
<1>4. \A g \in gone :
        /\ blank(g) \in Rows
        /\ blank(g).claim = NoClaim /\ blank(g).value = NoValue
        /\ blank(g).barrier = b.res[g].barrier
        /\ blank(g).state = "unknown" /\ blank(g).conflicting = {}
  BY <1>1 DEF NoResolution, Rows, RowStates, Sources, Values, NoClaim
<1> HIDE DEF blank
<1>5. rows \in Resolutions
  BY <1>1, <1>4 DEF Resolutions
<1>6. \A g \in Fields : rows[g] = IF g \in gone THEN blank(g) ELSE b.res[g]
  OBVIOUS
<1> HIDE DEF rows
<1>7. /\ emptied \in Ledgers /\ emptied.res = rows /\ emptied.claims = moved.claims
      /\ emptied.revision = moved.revision
  BY <1>3, <1>5 DEF Ledgers
<1> HIDE DEF emptied
<1>8. /\ r \in Ledgers /\ r.proj = next /\ r.claims = moved.claims
      /\ r.res = rows /\ r.revision = moved.revision
  BY <1>1, <1>2, <1>7, Reprojected
<1>9. SameLength(b, r)
  BY <1>3, <1>8 DEF LeftBehind, SameLength, SameContent
<1> QED
  BY <1>1, <1>3, <1>4, <1>6, <1>8, <1>9 DEF LeftBehind, RetiredIn, gone

\* Making a claim current, whatever the ledger says.
LEMMA TakenTyped ==
  ASSUME NEW b \in Ledgers, NEW id \in Places(b), NEW r, r = TakeCurrent(b, id)
  PROVE  r \in Ledgers /\ SameLength(b, r)
<1> DEFINE f == b.claims[id].field
           next == WithTechnicalValue(b.proj, f, b.claims[id].value)
           placed == Placed(b, id)
<1>1. f \in Fields /\ b.claims[id].value \in Values /\ b.proj \in Projections
  BY LedgerParts DEF Claims
<1>2. r = Retire(placed, next, f)
  BY DEF TakeCurrent, Placed, Retire
<1>3. placed \in Ledgers /\ SameLength(b, placed)
  BY <1>1, Placing DEF PlacedIn
<1> HIDE DEF placed
<1>4. next \in Projections
  BY <1>1, TechnicalValue
<1> HIDE DEF next
<1>5. r \in Ledgers /\ SameLength(placed, r)
  BY <1>2, <1>3, <1>4, Retired DEF RetiredIn
<1> QED
  BY <1>3, <1>5 DEF SameLength, SameContent, Places

\* What a step of the resolution does to the ledger b.
ResolvedIn(b, r, id) ==
  /\ SameLength(b, r)
  /\ \A f \in Fields : r.res[f].state = "none" => b.res[f].state = "none"
  /\ \A d \in DerivedFields : r.proj[d] = b.proj[d]
  /\ \A g \in Fields : \/ r.res[g].claim \in {b.res[g].claim, NoClaim}
                       \/ g = b.claims[id].field /\ r.res[g].claim = id
  /\ \/ \E g \in Fields : r.res[g].claim = id
     \/ r.proj = b.proj /\ \A g \in Fields : r.res[g].claim = b.res[g].claim

\* A claim of an image that may become current: it is not yet, and is not
\* older than a clear.
MayBeCurrent(b, id) ==
  /\ b.claims[id].source = "image"
  /\ b.claims[id].disposition # "applied"
  /\ b.claims[id].field \notin DerivedFields
  /\ ~BlockedByClear(b.res[b.claims[id].field], b.claims[id].observed)

\* An image that may become current does so within the invariant.
LEMMA TakenKeeps ==
  ASSUME NEW b, NEW now \in Nat, LedgerInv(b, now), NEW id \in Places(b),
         MayBeCurrent(b, id), NEW r, r = TakeCurrent(b, id)
  PROVE  LedgerInv(r, now) /\ ResolvedIn(b, r, id)
<1> DEFINE f == b.claims[id].field
           next == WithTechnicalValue(b.proj, f, b.claims[id].value)
           placed == Placed(b, id)
           gone == Invalidated(placed, next, f)
<1>1. /\ b \in Ledgers /\ Len(b.claims) \in Nat /\ id \in Nat /\ id # NoClaim
      /\ f \in Fields /\ f \notin DerivedFields
      /\ b.claims[id].value \in Values /\ b.claims[id].value # NoValue
      /\ b.claims[id].observed \in Nat
      /\ b.proj \in Projections /\ b.res[f].barrier \in Nat
      /\ b.res[f].claim # id
  <2>1. b.claims[id].field \in Fields /\ b \in Ledgers
    BY LedgerParts DEF Claims, LedgerInv
  <2>2. b.claims[id].value # NoValue /\ b.res[b.claims[id].field].claim # id
    BY DEF LedgerInv, ImagesSpeak, CurrentApplied, MayBeCurrent
  <2>3. /\ Len(b.claims) \in Nat /\ b.proj \in Projections
        /\ b.claims[id] \in Claims /\ b.res[f] \in Rows
    BY <2>1, LedgerParts DEF Resolutions
  <2>4. id \in Nat /\ id # NoClaim
    BY <2>3 DEF NoClaim, Places
  <2>5. /\ b.claims[id].value \in Values /\ b.claims[id].observed \in Nat
        /\ b.res[f].barrier \in Nat
    BY <2>3 DEF Claims, Rows
  <2>6. f \notin DerivedFields
    BY DEF MayBeCurrent
  <2> QED
    BY <2>1, <2>2, <2>3, <2>4, <2>5, <2>6
<1>2. r = Retire(placed, next, f)
  BY DEF TakeCurrent, Placed, Retire
<1>3. placed \in Ledgers /\ PlacedIn(b, placed, f, id)
  BY <1>1, Placing
<1>4. /\ next \in Projections
      /\ \A d \in DerivedFields : next[d] = b.proj[d]
  BY <1>1, TechnicalValue
<1>5. f \notin gone /\ gone \in SUBSET Fields
  BY DEF Invalidated
<1>6. \A d \in DerivedFields : d \notin gone
  BY <1>3, <1>4 DEF Invalidated, PlacedIn
<1>7. BlockedByClear(b.res[f], b.claims[id].observed) = FALSE
  BY DEF MayBeCurrent
<1>8. b.claims[id].source = "image" /\ b.claims[id].disposition # "applied"
  BY DEF MayBeCurrent
<1> HIDE DEF f, next, placed
<1>9. r \in Ledgers /\ RetiredIn(placed, r, next, gone)
  BY <1>2, <1>3, <1>4, Retired
<1> HIDE DEF gone
<1>10. /\ Places(placed) = Places(b) /\ Len(placed.claims) = Len(b.claims)
       /\ Places(r) = Places(b) /\ Len(r.claims) = Len(b.claims)
  BY <1>3, <1>9 DEF PlacedIn, RetiredIn, SameLength, Places
<1>11. LedgerInv(placed, now)
  <2>1. TakesOver(b, placed, f, id)
    <3>1. /\ SameContent(b, placed) /\ placed.claims[id].field = f
          /\ placed.claims[id].value = placed.res[f].value
          /\ placed.res[f].claim = id
          /\ \A g \in Fields : g # f => placed.res[g] = b.res[g]
      BY <1>3 DEF PlacedIn, SameLength, SameContent, f
    <3>2. \A i \in Places(placed) :
            placed.claims[i].disposition =
              IF i = id THEN "applied"
              ELSE IF i = b.res[f].claim THEN "superseded"
              ELSE b.claims[i].disposition
      <4>1. \A i \in Places(b) : i = b.res[f].claim => b.claims[i].disposition = "applied"
        BY <1>1 DEF LedgerInv, CurrentApplied, NoClaim, Places
      <4> QED
        BY <1>1, <1>3, <1>10, <4>1 DEF PlacedIn
    <3> QED
      BY <1>1, <1>8, <1>10, <3>1, <3>2 DEF TakesOver
  <2>2. Stands(b, placed, f, id, now)
    <3>1. /\ placed.res[f].conflicting = {} /\ placed.res[f].state = "resolved"
          /\ placed.res[f].value # NoValue
          /\ placed.res[f].barrier = b.res[f].barrier
          /\ placed.claims[id].value # NoValue
          /\ placed.claims[id].source = "image"
          /\ placed.claims[id].observed = b.claims[id].observed
      BY <1>1, <1>3, <1>8 DEF PlacedIn, SameLength, SameContent
    <3>2. b.res[f].barrier <= now
      BY <1>1 DEF LedgerInv, ClearsHeld
    <3>3. b.res[f].barrier = 0 \/ b.claims[id].observed > b.res[f].barrier
      BY <1>1, <1>7 DEF BlockedByClear
    <3>4. \A d \in DerivedFields : placed.proj[d] = b.proj[d] /\ d # f
      BY <1>1, <1>3 DEF PlacedIn
    <3> QED
      BY <1>1, <3>1, <3>2, <3>3, <3>4 DEF Stands
  <2> QED
    BY <1>1, <1>3, <2>1, <2>2, NewCurrent
<1>12. LedgerInv(r, now)
  <2>1. \A i \in Places(placed) :
          r.claims[i].disposition =
            IF \E g \in gone : placed.res[g].claim = i THEN "superseded"
            ELSE placed.claims[i].disposition
    <3>1. \A i \in Places(placed), g \in gone :
            placed.res[g].claim = i => placed.claims[i].disposition = "applied"
      <4>1. placed.claims \in Seq(Claims) /\ NoClaim \notin Places(placed)
        BY <1>3, LedgerParts DEF NoClaim, Places
      <4> QED
        BY <1>5, <1>11, <4>1 DEF LedgerInv, CurrentApplied
    <3> QED
      BY <1>9, <3>1 DEF RetiredIn
  <2>2. /\ \A g \in Fields \ gone : r.res[g] = placed.res[g]
        /\ \A g \in gone :
             /\ r.res[g].claim = NoClaim /\ r.res[g].value = NoValue
             /\ r.res[g].barrier = placed.res[g].barrier
             /\ r.res[g].state = "unknown" /\ r.res[g].conflicting = {}
        /\ SameContent(placed, r)
    BY <1>9 DEF RetiredIn, SameLength
  <2>3. \A d \in DerivedFields : r.proj[d] = placed.proj[d]
    BY <1>3, <1>4, <1>9 DEF RetiredIn, PlacedIn
  <2>4. Vacates(placed, r, gone)
    BY <1>6, <1>10, <2>1, <2>2, <2>3 DEF Vacates
  <2> QED
    BY <1>5, <1>9, <1>11, <2>4, Vacated
<1>13. ResolvedIn(b, r, id)
  <2>1. SameLength(b, r)
    BY <1>3, <1>9, <1>10 DEF PlacedIn, RetiredIn, SameLength, SameContent
  <2>2. \A d \in DerivedFields : r.proj[d] = b.proj[d]
    BY <1>4, <1>9 DEF RetiredIn
  <2>3. r.res[f].claim = id
    BY <1>1, <1>3, <1>5, <1>9 DEF RetiredIn, PlacedIn
  <2>4. \A g \in Fields : g # f => r.res[g].claim \in {b.res[g].claim, NoClaim}
    BY <1>3, <1>9 DEF RetiredIn, PlacedIn
  <2>5. \A g \in Fields : r.res[g].state = "none" => b.res[g].state = "none"
    BY <1>3, <1>9 DEF RetiredIn, PlacedIn
  <2> QED
    BY <1>1, <2>1, <2>2, <2>3, <2>4, <2>5 DEF ResolvedIn, f
<1> QED
  BY <1>12, <1>13

\* Claim id, of an image, is taken note of: its disposition is not that of a
\* current claim unless it is one, and it may contradict its field.
Marks(b, r, id) ==
  /\ SameLength(b, r) /\ r.proj = b.proj
  /\ \A i \in Places(b) :
       /\ r.claims[i].disposition = "applied" <=> b.claims[i].disposition = "applied"
       /\ b.claims[i].source = "clear" =>
            r.claims[i].disposition = b.claims[i].disposition
  /\ \A f \in Fields :
       /\ r.res[f].value = b.res[f].value /\ r.res[f].claim = b.res[f].claim
       /\ r.res[f].barrier = b.res[f].barrier
       /\ \/ r.res[f].state = b.res[f].state /\ r.res[f].conflicting = b.res[f].conflicting
          \/ /\ r.res[f].state = "disputed"
             /\ r.res[f].conflicting = b.res[f].conflicting \cup {id}
             /\ b.claims[id].value # b.res[f].value
             /\ b.claims[id].value # NoValue

\* So is it with an image that is only marked, as waiting, in support, in
\* dispute or rejected.
LEMMA Marked ==
  ASSUME NEW b, NEW now \in Nat, LedgerInv(b, now), NEW id \in Places(b),
         NEW r \in Ledgers, Marks(b, r, id)
  PROVE  LedgerInv(r, now) /\ ResolvedIn(b, r, id)
<1>1. /\ Places(r) = Places(b) /\ Len(r.claims) = Len(b.claims)
      /\ Len(b.claims) \in Nat
      /\ \A i \in Places(b) : b.claims[i].field \in Fields
  BY LedgerParts DEF LedgerInv, Claims, Marks, SameLength, Places
<1>2. \A i \in Places(b) :
        /\ r.claims[i].field = b.claims[i].field
        /\ r.claims[i].value = b.claims[i].value
        /\ r.claims[i].source = b.claims[i].source
        /\ r.claims[i].observed = b.claims[i].observed
  BY DEF Marks, SameLength, SameContent
<1>3. \A f \in Fields : b.res[f].claim # NoClaim => b.res[f].claim \in Places(b)
  BY <1>1 DEF LedgerInv, CurrentApplied, NoClaim, Places
<1>4. CurrentApplied(r)
  <2>1. \A f \in Fields : r.res[f].claim = b.res[f].claim /\ r.res[f].value = b.res[f].value
    BY DEF Marks
  <2>2. \A f \in Fields : r.res[f].claim # NoClaim =>
          /\ r.claims[r.res[f].claim].field = f
          /\ r.claims[r.res[f].claim].value = r.res[f].value
    <3> SUFFICES ASSUME NEW f \in Fields, b.res[f].claim # NoClaim
                 PROVE  /\ r.claims[b.res[f].claim].field = f
                        /\ r.claims[b.res[f].claim].value = b.res[f].value
      BY <2>1
    <3>1. /\ b.claims[b.res[f].claim].field = f
          /\ b.claims[b.res[f].claim].value = b.res[f].value
      BY DEF LedgerInv, CurrentApplied
    <3> QED
      BY <1>2, <1>3, <3>1
  <2>3. \A i \in Places(r) :
          r.claims[i].disposition = "applied" <=> r.res[r.claims[i].field].claim = i
    BY <1>1, <1>2, <2>1 DEF LedgerInv, CurrentApplied, Marks
  <2> QED
    BY <1>1, <2>1, <2>2, <2>3 DEF LedgerInv, CurrentApplied
<1>5. StatesAgree(r)
  BY DEF LedgerInv, StatesAgree, Marks
<1>6. DisputesNamed(r)
  <2> SUFFICES ASSUME NEW f \in Fields
               PROVE  /\ r.res[f].state = "disputed" =>
                           \E i \in r.res[f].conflicting :
                             i \in Places(r) /\ r.claims[i].value # r.res[f].value
                      /\ f \notin DerivedFields =>
                           \A i \in r.res[f].conflicting :
                             i \in Places(r) /\ r.claims[i].value # NoValue
    BY DEF DisputesNamed
  <2>1. /\ b.res[f].state = "disputed" =>
             \E i \in b.res[f].conflicting :
               i \in Places(b) /\ b.claims[i].value # b.res[f].value
        /\ f \notin DerivedFields =>
             \A i \in b.res[f].conflicting :
               i \in Places(b) /\ b.claims[i].value # NoValue
    BY DEF LedgerInv, DisputesNamed
  <2>2. r.res[f].value = b.res[f].value
    BY DEF Marks
  <2>3. CASE r.res[f].state = b.res[f].state /\ r.res[f].conflicting = b.res[f].conflicting
    BY <1>1, <1>2, <2>1, <2>2, <2>3
  <2>4. CASE /\ r.res[f].conflicting = b.res[f].conflicting \cup {id}
             /\ b.claims[id].value # b.res[f].value
             /\ b.claims[id].value # NoValue
    BY <1>1, <1>2, <2>1, <2>2, <2>4
  <2> QED
    BY <2>3, <2>4 DEF Marks
<1>7. ClearsHeld(r, now)
  <2>1. \A i \in Places(r) : r.claims[i].source = "clear" =>
          /\ r.claims[i].observed # 0
          /\ r.claims[i].disposition # "supporting" =>
               r.claims[i].observed <= r.res[r.claims[i].field].barrier
    BY <1>1, <1>2 DEF LedgerInv, ClearsHeld, Marks
  <2>2. \A f \in Fields :
          /\ r.res[f].barrier <= now
          /\ r.res[f].claim # NoClaim /\ r.claims[r.res[f].claim].source = "image" =>
               \/ r.res[f].barrier = 0
               \/ r.claims[r.res[f].claim].observed > r.res[f].barrier
    BY <1>2, <1>3 DEF LedgerInv, ClearsHeld, Marks
  <2> QED
    BY <2>1, <2>2 DEF ClearsHeld
<1>8. ImagesSpeak(r) /\ DerivedShown(r)
  BY <1>1, <1>2 DEF LedgerInv, ImagesSpeak, DerivedShown, Marks, DerivedFields, Fields
<1>9. ResolvedIn(b, r, id)
  <2>1. \A f \in Fields : r.res[f].state = "none" => b.res[f].state = "none"
    BY DEF Marks
  <2>2. \A f \in Fields : r.res[f].claim = b.res[f].claim
    BY DEF Marks
  <2> QED
    BY <2>1, <2>2 DEF Marks, ResolvedIn
<1> QED
  BY <1>4, <1>5, <1>6, <1>7, <1>8, <1>9 DEF LedgerInv

\* Support and Dispute, whatever the ledger says.
LEMMA SupportTyped ==
  ASSUME NEW b \in Ledgers, NEW id \in Places(b), NEW r, r = Support(b, id)
  PROVE  /\ r \in Ledgers /\ SameLength(b, r) /\ r.proj = b.proj
         /\ \A i \in Places(b) : r.claims[i].disposition =
              IF i = id THEN "supporting" ELSE b.claims[i].disposition
         /\ \A f \in Fields :
              /\ r.res[f].value = b.res[f].value /\ r.res[f].claim = b.res[f].claim
              /\ r.res[f].barrier = b.res[f].barrier /\ r.res[f].state = b.res[f].state
              /\ r.res[f].conflicting = b.res[f].conflicting
<1> DEFINE s == "supporting"
           m == Dispose(b, id, s)
           f == b.claims[id].field
           old == b.res[f]
           row == [old EXCEPT !.supporting = @ \cup {id}]
<1>1. /\ b.claims[id] \in Claims /\ f \in Fields /\ old \in Rows /\ id \in Nat
      /\ s \in Dispositions
  <2>1. f \in Fields /\ b.claims[id] \in Claims
    BY LedgerParts DEF Claims
  <2> QED
    BY <2>1, LedgerParts DEF Resolutions, Dispositions, Places
<1>2. r = Resolve(m, f, row)
  BY DEF Support
<1> HIDE DEF f, s
<1>3. /\ m \in Ledgers
      /\ m.res = b.res /\ m.proj = b.proj /\ m.revision = b.revision
      /\ Len(m.claims) = Len(b.claims)
      /\ SameContent(b, m)
      /\ m.claims[id].disposition = s
      /\ \A i \in Places(b) : i # id => m.claims[i].disposition = b.claims[i].disposition
  <2>1. m = Dispose(b, id, s)
    OBVIOUS
  <2> HIDE DEF m
  <2> QED
    BY <1>1, <2>1, Disposed
<1> HIDE DEF m
<1>4. /\ row \in Rows
      /\ row.value = old.value /\ row.claim = old.claim /\ row.barrier = old.barrier
      /\ row.state = old.state /\ row.conflicting = old.conflicting
  BY <1>1 DEF Rows
<1> HIDE DEF row
<1>5. /\ r \in Ledgers
      /\ r.claims = m.claims /\ r.proj = m.proj /\ r.revision = m.revision
      /\ r.res[f] = row
      /\ \A g \in Fields : g # f => r.res[g] = m.res[g]
  <2>1. m \in Ledgers /\ f \in Fields /\ row \in Rows
    BY <1>1, <1>3, <1>4
  <2> QED
    BY <1>2, <2>1, RowChanged
<1>6. SameLength(b, r)
  BY <1>3, <1>5 DEF SameLength, SameContent
<1> QED
  BY <1>3, <1>4, <1>5, <1>6 DEF s

\* Claim id contradicts its field from now on.
DisputedIn(b, r, id) ==
  /\ SameLength(b, r) /\ r.proj = b.proj
  /\ \A i \in Places(b) : r.claims[i].disposition =
       IF i = id THEN "conflict" ELSE b.claims[i].disposition
  /\ \A f \in Fields :
       /\ r.res[f].value = b.res[f].value /\ r.res[f].claim = b.res[f].claim
       /\ r.res[f].barrier = b.res[f].barrier
       /\ r.res[f].state =
            IF f = b.claims[id].field THEN "disputed" ELSE b.res[f].state
       /\ r.res[f].conflicting =
            IF f = b.claims[id].field THEN b.res[f].conflicting \cup {id}
            ELSE b.res[f].conflicting

\* What disputing a field does.
LEMMA DisputeTyped ==
  ASSUME NEW b \in Ledgers, NEW id \in Places(b), NEW r, r = Dispute(b, id)
  PROVE  r \in Ledgers /\ DisputedIn(b, r, id)
<1> DEFINE s == "conflict"
           m == Dispose(b, id, s)
           f == b.claims[id].field
           old == b.res[f]
           row == [old EXCEPT !.conflicting = @ \cup {id}, !.state = "disputed"]
<1>1. /\ b.claims[id] \in Claims /\ f \in Fields /\ old \in Rows /\ id \in Nat
      /\ s \in Dispositions
  <2>1. f \in Fields /\ b.claims[id] \in Claims
    BY LedgerParts DEF Claims
  <2> QED
    BY <2>1, LedgerParts DEF Resolutions, Dispositions, Places
<1>2. r = Resolve(m, f, row)
  BY DEF Dispute
<1> HIDE DEF f, s
<1>3. /\ m \in Ledgers
      /\ m.res = b.res /\ m.proj = b.proj /\ m.revision = b.revision
      /\ Len(m.claims) = Len(b.claims)
      /\ SameContent(b, m)
      /\ m.claims[id].disposition = s
      /\ \A i \in Places(b) : i # id => m.claims[i].disposition = b.claims[i].disposition
  <2>1. m = Dispose(b, id, s)
    OBVIOUS
  <2> HIDE DEF m
  <2> QED
    BY <1>1, <2>1, Disposed
<1> HIDE DEF m
<1>4. /\ row \in Rows
      /\ row.value = old.value /\ row.claim = old.claim /\ row.barrier = old.barrier
      /\ row.state = "disputed" /\ row.conflicting = old.conflicting \cup {id}
  BY <1>1 DEF Rows, RowStates
<1> HIDE DEF row
<1>5. /\ r \in Ledgers
      /\ r.claims = m.claims /\ r.proj = m.proj /\ r.revision = m.revision
      /\ r.res[f] = row
      /\ \A g \in Fields : g # f => r.res[g] = m.res[g]
  <2>1. m \in Ledgers /\ f \in Fields /\ row \in Rows
    BY <1>1, <1>3, <1>4
  <2> QED
    BY <1>2, <2>1, RowChanged
<1>6. SameLength(b, r)
  BY <1>3, <1>5 DEF SameLength, SameContent
<1> QED
  BY <1>3, <1>4, <1>5, <1>6 DEF s, f, DisputedIn

\* The outcomes of the resolver for one claim.
LEMMA ResolveCases ==
  ASSUME NEW b, NEW id, NEW fd, NEW r, r = ResolveClaim(b, id, fd)
  PROVE  LET c == b.claims[id]
             old == b.res[c.field]
         IN  \/ \E d \in {"pending", "rejected", "conflict"} : r = Dispose(b, id, d)
             \/ /\ old.claim = id /\ r = Dispose(b, id, "applied")
             \/ /\ c.field \notin DerivedFields
                /\ ~BlockedByClear(old, c.observed)
                /\ Unknown(old) \/ old.claim # id
                /\ r = TakeCurrent(b, id)
             \/ old.claim # id /\ r = Support(b, id)
             \/ old.claim # id /\ c.value # old.value /\ r = Dispute(b, id)
BY DEF ResolveClaim

\* Whatever the resolver does with a claim, it adds and rewrites none.
LEMMA ResolveTyped ==
  ASSUME NEW b \in Ledgers, NEW id \in Places(b), NEW fd,
         NEW r, r = ResolveClaim(b, id, fd)
  PROVE  r \in Ledgers /\ SameLength(b, r)
<1>1. ASSUME NEW d \in Dispositions, r = Dispose(b, id, d)
      PROVE  r \in Ledgers /\ SameLength(b, r)
  BY <1>1, Disposed DEF SameLength
<1>2. {"pending", "rejected", "conflict", "applied"} \subseteq Dispositions
  BY DEF Dispositions
<1>3. CASE \E d \in {"pending", "rejected", "conflict", "applied"} : r = Dispose(b, id, d)
  BY <1>1, <1>2, <1>3
<1>4. CASE r = TakeCurrent(b, id)
  BY <1>4, TakenTyped
<1>5. CASE r = Support(b, id)
  BY <1>5, SupportTyped
<1>6. CASE r = Dispute(b, id)
  BY <1>6, DisputeTyped DEF DisputedIn
<1> QED
  BY <1>3, <1>4, <1>5, <1>6, ResolveCases

\* The resolution of one claim of an image, whatever it comes to.
LEMMA ResolveKeeps ==
  ASSUME NEW b, NEW now \in Nat, LedgerInv(b, now), NEW id \in Places(b), NEW fd,
         b.claims[id].source = "image",
         b.claims[id].disposition # "applied",
         NEW r, r = ResolveClaim(b, id, fd)
  PROVE  LedgerInv(r, now) /\ ResolvedIn(b, r, id)
<1> DEFINE c == b.claims[id]
           old == b.res[c.field]
<1>1. /\ b \in Ledgers /\ c \in Claims /\ c.field \in Fields
      /\ c.value # NoValue /\ old.claim # id
  BY LedgerParts DEF LedgerInv, Claims, ImagesSpeak, CurrentApplied
<1>2. r \in Ledgers /\ SameLength(b, r)
  BY <1>1, ResolveTyped
<1>3. CASE \E d \in {"pending", "rejected", "conflict"} : r = Dispose(b, id, d)
  <2>1. PICK d \in {"pending", "rejected", "conflict"} : r = Dispose(b, id, d)
    BY <1>3
  <2>2. d \in Dispositions /\ d # "applied"
    BY DEF Dispositions
  <2>3. /\ r.res = b.res /\ r.proj = b.proj
        /\ r.claims[id].disposition = d
        /\ \A i \in Places(b) : i # id => r.claims[i].disposition = b.claims[i].disposition
    BY <1>1, <2>1, <2>2, Disposed
  <2>4. \A i \in Places(b) :
          /\ r.claims[i].disposition = "applied" <=> b.claims[i].disposition = "applied"
          /\ b.claims[i].source = "clear" =>
               r.claims[i].disposition = b.claims[i].disposition
    BY <2>2, <2>3
  <2>5. Marks(b, r, id)
    BY <1>2, <2>3, <2>4 DEF Marks
  <2> QED
    BY <1>2, <2>5, Marked
<1>4. CASE r = Support(b, id)
  <2>1. /\ r.proj = b.proj
        /\ \A i \in Places(b) : r.claims[i].disposition =
             IF i = id THEN "supporting" ELSE b.claims[i].disposition
        /\ \A f \in Fields :
             /\ r.res[f].value = b.res[f].value /\ r.res[f].claim = b.res[f].claim
             /\ r.res[f].barrier = b.res[f].barrier /\ r.res[f].state = b.res[f].state
             /\ r.res[f].conflicting = b.res[f].conflicting
    BY <1>1, <1>4, SupportTyped
  <2>2. \A i \in Places(b) :
          /\ r.claims[i].disposition = "applied" <=> b.claims[i].disposition = "applied"
          /\ b.claims[i].source = "clear" =>
               r.claims[i].disposition = b.claims[i].disposition
    BY <2>1
  <2>3. Marks(b, r, id)
    BY <1>2, <2>1, <2>2 DEF Marks
  <2> QED
    BY <1>2, <2>3, Marked
<1>5. CASE c.value # old.value /\ r = Dispute(b, id)
  <2>1. /\ r.proj = b.proj
        /\ \A i \in Places(b) : r.claims[i].disposition =
             IF i = id THEN "conflict" ELSE b.claims[i].disposition
        /\ \A f \in Fields :
             /\ r.res[f].value = b.res[f].value /\ r.res[f].claim = b.res[f].claim
             /\ r.res[f].barrier = b.res[f].barrier
             /\ r.res[f].state =
                  IF f = b.claims[id].field THEN "disputed" ELSE b.res[f].state
             /\ r.res[f].conflicting =
                  IF f = b.claims[id].field THEN b.res[f].conflicting \cup {id}
                  ELSE b.res[f].conflicting
    <3>1. DisputedIn(b, r, id)
      BY <1>1, <1>5, DisputeTyped
    <3> QED
      BY <3>1 DEF DisputedIn
  <2>2. \A i \in Places(b) :
          /\ r.claims[i].disposition = "applied" <=> b.claims[i].disposition = "applied"
          /\ b.claims[i].source = "clear" =>
               r.claims[i].disposition = b.claims[i].disposition
    BY <2>1
  <2>3. Marks(b, r, id)
    BY <1>1, <1>2, <1>5, <2>1, <2>2 DEF Marks
  <2> QED
    BY <1>2, <2>3, Marked
<1>6. CASE /\ c.field \notin DerivedFields /\ ~BlockedByClear(old, c.observed)
           /\ r = TakeCurrent(b, id)
  <2>1. MayBeCurrent(b, id)
    BY <1>6 DEF MayBeCurrent
  <2> QED
    BY <1>6, <2>1, TakenKeeps
<1> QED
  BY <1>1, <1>3, <1>4, <1>5, <1>6, ResolveCases

-----------------------------------------------------------------------------
(* The claims of a run, persisted and resolved one after the other. *)

\* What is persisted for one finding.
PersistOne(b, t, fd, observed) ==
  IF SameClaim(b, t, fd) # {} THEN b
  ELSE AddClaim(b, Claim(fd.field, fd.value, "image", t, observed, "pending"))

\* Findings that speak of the registry's fields, each of another one.
Findings(q) ==
  /\ Len(q) \in Nat /\ DOMAIN q = 1 .. Len(q)
  /\ \A i \in 1 .. Len(q) : q[i].field \in Fields /\ q[i].value \in ValuesOf(q[i].field)
  /\ \A i, k \in 1 .. Len(q) : q[i].field = q[k].field => i = k

\* The claim that a finding is persisted as.
LEMMA FindingClaim ==
  ASSUME NEW q, Findings(q), NEW i \in 1 .. Len(q), NEW t \in Turns,
         NEW observed \in Nat,
         NEW c, c = Claim(q[i].field, q[i].value, "image", t, observed, "pending")
  PROVE  /\ c \in Claims
         /\ c.field = q[i].field /\ c.value = q[i].value /\ c.source = "image"
         /\ c.run = t /\ c.observed = observed /\ c.disposition = "pending"
         /\ c.value # NoValue
<1>1. /\ q[i].field \in Fields /\ q[i].value \in Values /\ q[i].value # NoValue
  BY LedgerAssumption DEF Findings, Values
<1>2. "image" \in Sources /\ "pending" \in Dispositions
  BY DEF Sources, Dispositions
<1> QED
  BY <1>1, <1>2, ClaimType

\* The ledgers on the way of persisting q.
PersistTrace(h, b, t, q, observed) ==
  /\ h[0] = b /\ h[Len(q)] = PersistClaims(b, t, q, observed)
  /\ \A i \in 1 .. Len(q) : h[i] = PersistOne(h[i - 1], t, q[i], observed)

\* Persisting a run's findings is a sequence of single steps.
LEMMA PersistSteps ==
  ASSUME NEW b \in Ledgers, NEW q, Findings(q), NEW t \in Turns, NEW observed \in Nat
  PROVE  \E h : PersistTrace(h, b, t, q, observed)
<1> DEFINE n == Len(q)
           P == Ledgers
           Op(l, fd) == PersistOne(l, t, fd, observed)
           F == [i \in 1 .. n |-> [l \in P |-> Op(l, q[i])]]
           iter[s \in SUBSET (DOMAIN q)] ==
             IF s = {} THEN b ELSE Op(iter[s \ {Max(s)}], q[Max(s)])
<1>1. n \in Nat /\ DOMAIN q = 1 .. n
  BY DEF Findings
<1>2. \A i \in 1 .. n, l \in P : Op(l, q[i]) \in P
  <2> SUFFICES ASSUME NEW i \in 1 .. n, NEW l \in Ledgers
               PROVE  PersistOne(l, t, q[i], observed) \in Ledgers
    OBVIOUS
  <2> DEFINE c == Claim(q[i].field, q[i].value, "image", t, observed, "pending")
  <2>1. c \in Claims
    BY FindingClaim
  <2> HIDE DEF c
  <2>2. AddClaim(l, c) \in Ledgers
    BY <2>1, ClaimAdded
  <2> QED
    BY <2>2 DEF PersistOne, c
<1>3. PersistClaims(b, t, q, observed) = iter[DOMAIN q]
  BY DEF PersistClaims, PersistOne, FoldLeft, MapThenFoldSet
<1>4. F \in [1 .. n -> [P -> P]] /\ \A i \in 1 .. n, l \in P : F[i][l] = Op(l, q[i])
  BY <1>2
<1> HIDE DEF F, Op, P
<1>5. b \in P
  BY DEF P
<1>6. PICK g : Tabulates(g, P, b, n, F)
  BY <1>1, <1>4, <1>5, FoldTable
<1>7. \A s \in SUBSET (1 .. n) :
        s # {} => Max(s) \in 1 .. n /\ s \ {Max(s)} \in SUBSET (1 .. n)
  BY <1>1, MaxOf
<1>8. g = [s \in SUBSET (DOMAIN q) |->
             IF s = {} THEN b ELSE Op(g[s \ {Max(s)}], q[Max(s)])]
  BY <1>1, <1>4, <1>6, <1>7 DEF Tabulates
<1>9. iter = [s \in SUBSET (DOMAIN q) |->
                IF s = {} THEN b ELSE Op(iter[s \ {Max(s)}], q[Max(s)])]
  BY <1>8
<1> HIDE DEF iter
<1>10. Follows(iter, P, b, n, F)
  <2>1. iter[{}] = b
    BY <1>9
  <2>2. \A s \in SUBSET (1 .. n) :
          s # {} /\ iter[s \ {Max(s)}] \in P =>
            iter[s] = F[Max(s)][iter[s \ {Max(s)}]]
    BY <1>1, <1>4, <1>7, <1>9
  <2> QED
    BY <2>1, <2>2 DEF Follows
<1> HIDE DEF n
<1>11. PICK h : Trace(h, P, b, n, F) /\ iter[1 .. n] = h[n]
  BY <1>1, <1>4, <1>5, <1>10, FoldTrace
<1>12. \A i \in 1 .. n : h[i] = Op(h[i - 1], q[i])
  <2> SUFFICES ASSUME NEW i \in 1 .. n PROVE h[i] = Op(h[i - 1], q[i])
    OBVIOUS
  <2>1. i - 1 \in 0 .. n
    BY <1>1
  <2> QED
    BY <1>4, <1>11, <2>1 DEF Trace
<1> QED
  BY <1>1, <1>3, <1>11, <1>12 DEF Trace, PersistTrace, Op, n

\* The first i findings of q have been persisted, and nothing else was done.
PersistedIn(b, r, t, q, observed, i) ==
  /\ r.res = b.res /\ r.proj = b.proj /\ r.revision = b.revision
  /\ Len(r.claims) = Len(b.claims) + i
  /\ \A k \in Places(b) : r.claims[k] = b.claims[k]
  /\ \A j \in 1 .. i :
       r.claims[Len(b.claims) + j]
         = Claim(q[j].field, q[j].value, "image", t, observed, "pending")

\* A run that has no claims yet.
Silent(b, t) == \A k \in Places(b) : ~ (b.claims[k].source = "image" /\ b.claims[k].run = t)

\* A place after the first n is n and something.
LEMMA Beyond ==
  ASSUME NEW n \in Nat, NEW m \in Nat, NEW k \in 1 .. (n + m), k \notin 1 .. n
  PROVE  k - n \in 1 .. m /\ k = n + (k - n)
OBVIOUS

\* One finding persisted: the run had no claim for it, so it gets one.
LEMMA PersistStep ==
  ASSUME NEW b, NEW now \in Nat, LedgerInv(b, now),
         NEW q, Findings(q), NEW t \in Turns, NEW observed \in Nat, Silent(b, t),
         NEW i \in 1 .. Len(q), NEW l, LedgerInv(l, now),
         PersistedIn(b, l, t, q, observed, i - 1),
         NEW r, r = PersistOne(l, t, q[i], observed)
  PROVE  LedgerInv(r, now) /\ PersistedIn(b, r, t, q, observed, i)
<1> DEFINE n == Len(b.claims)
           c == Claim(q[i].field, q[i].value, "image", t, observed, "pending")
<1>1. n \in Nat /\ i \in Nat /\ l \in Ledgers /\ Len(l.claims) = n + (i - 1)
  BY LedgerParts DEF LedgerInv, Findings, PersistedIn
<1>2. SameClaim(l, t, q[i]) = {}
  <2> SUFFICES ASSUME NEW k \in 1 .. Len(l.claims), l.claims[k].source = "image",
                      l.claims[k].run = t, l.claims[k].field = q[i].field
               PROVE  FALSE
    BY DEF SameClaim
  <2>1. CASE k \in Places(b)
    BY <2>1 DEF PersistedIn, Silent
  <2>2. CASE k \notin Places(b)
    <3>1. PICK j \in 1 .. (i - 1) : k = n + j
      <4>1. k \in 1 .. (n + (i - 1)) /\ k \notin 1 .. n
        BY <1>1, <2>2 DEF Places
      <4>2. i - 1 \in Nat
        BY <1>1
      <4> HIDE DEF n
      <4>3. k - n \in 1 .. (i - 1) /\ k = n + (k - n)
        BY <1>1, <4>1, <4>2, Beyond
      <4> QED
        BY <4>3
    <3>2. j \in 1 .. Len(q) /\ j # i
      BY <1>1, <3>1 DEF Findings
    <3>3. l.claims[k].field = q[j].field
      BY <3>1, <3>2, FindingClaim DEF PersistedIn
    <3> QED
      BY <3>2, <3>3 DEF Findings
  <2> QED
    BY <2>1, <2>2
<1>3. r = AddClaim(l, c)
  BY <1>2 DEF PersistOne
<1>4. /\ c \in Claims /\ c.source = "image" /\ c.disposition = "pending"
      /\ c.value # NoValue
  BY FindingClaim
<1> HIDE DEF c
<1>5. /\ r \in Ledgers
      /\ r.res = l.res /\ r.proj = l.proj /\ r.revision = l.revision
      /\ Len(r.claims) = Len(l.claims) + 1
      /\ r.claims[Len(l.claims) + 1] = c
      /\ \A k \in Places(l) : r.claims[k] = l.claims[k]
  BY <1>1, <1>3, <1>4, ClaimAdded
<1>6. Notes(l, r)
  BY <1>4, <1>5 DEF Notes
<1>7. LedgerInv(r, now)
  BY <1>5, <1>6, Noted
<1>8. ASSUME NEW k \in Places(b) PROVE r.claims[k] = b.claims[k]
  <2>1. k \in 1 .. (n + (i - 1))
    <3>1. k \in 1 .. n
      BY DEF Places
    <3> HIDE DEF n
    <3> QED
      BY <1>1, <3>1
  <2>2. k \in Places(l)
    BY <1>1, <2>1 DEF Places
  <2> QED
    BY <1>5, <2>2 DEF PersistedIn
<1>9. ASSUME NEW j \in 1 .. i
      PROVE  r.claims[n + j] = Claim(q[j].field, q[j].value, "image", t, observed, "pending")
  <2>1. CASE j = i
    <3>1. Len(l.claims) + 1 = n + j
      BY <1>1, <2>1
    <3> QED
      BY <1>5, <2>1, <3>1 DEF c
  <2>2. CASE j # i
    <3>1. j \in 1 .. (i - 1) /\ n + j \in Places(l)
      BY <1>1, <2>2 DEF Places
    <3> QED
      BY <1>5, <3>1 DEF PersistedIn
  <2> QED
    BY <2>1, <2>2
<1> QED
  BY <1>1, <1>5, <1>7, <1>8, <1>9 DEF PersistedIn

\* All findings persisted: each has its claim, at its place after those of b.
LEMMA Persisting ==
  ASSUME NEW b, NEW now \in Nat, LedgerInv(b, now),
         NEW q, Findings(q), NEW t \in Turns, NEW observed \in Nat, Silent(b, t),
         NEW r, r = PersistClaims(b, t, q, observed)
  PROVE  LedgerInv(r, now) /\ PersistedIn(b, r, t, q, observed, Len(q))
<1>1. b \in Ledgers /\ Len(q) \in Nat
  BY DEF LedgerInv, Findings
<1>2. PICK h : PersistTrace(h, b, t, q, observed)
  BY <1>1, PersistSteps
<1> DEFINE T == {i \in 0 .. Len(q) : /\ LedgerInv(h[i], now)
                                     /\ PersistedIn(b, h[i], t, q, observed, i)}
<1>3. 0 \in T
  <2>1. Len(b.claims) \in Nat
    BY <1>1, LedgerParts
  <2> QED
    BY <1>1, <1>2, <2>1 DEF PersistedIn, PersistTrace
<1>4. ASSUME NEW i \in 1 .. Len(q), i - 1 \in T PROVE i \in T
  <2> DEFINE l == h[i - 1]
             s == h[i]
  <2>1. LedgerInv(l, now) /\ PersistedIn(b, l, t, q, observed, i - 1)
    BY <1>4
  <2>2. s = PersistOne(l, t, q[i], observed)
    BY <1>2 DEF PersistTrace
  <2> HIDE DEF l, s
  <2>3. LedgerInv(s, now) /\ PersistedIn(b, s, t, q, observed, i)
    BY <2>1, <2>2, PersistStep
  <2>4. i \in 0 .. Len(q)
    BY <1>1
  <2> QED
    BY <2>3, <2>4 DEF s
<1> HIDE DEF T
<1>5. \A i \in 0 .. Len(q) : i \in T
  BY <1>1, <1>3, <1>4, CountUp
<1>6. Len(q) \in T
  BY <1>1, <1>5
<1> QED
  BY <1>2, <1>6 DEF T, PersistTrace

\* One finding resolved, once all are persisted.
ResolveOne(b, t, fd) ==
  ResolveClaim(b, CHOOSE i \in SameClaim(b, t, fd) : TRUE, fd)

\* The ledgers on the way of resolving q, from p where all of q is persisted.
ResolveTrace(h, p, t, q, r) ==
  /\ h[0] = p /\ h[Len(q)] = r
  /\ \A i \in 1 .. Len(q) : h[i] = ResolveOne(h[i - 1], t, q[i])

\* Claim id of l is the one that run t has for the finding fd.
ClaimIs(l, t, fd, id) ==
  /\ id \in Places(l)
  /\ l.claims[id].source = "image" /\ l.claims[id].run = t
  /\ l.claims[id].field = fd.field
  /\ (CHOOSE k \in SameClaim(l, t, fd) : TRUE) = id

\* In a ledger with the content of p, the claim of q[i] is the one persisted for it.
LEMMA ClaimOfFinding ==
  ASSUME NEW b \in Ledgers, NEW q, Findings(q), NEW t \in Turns, NEW observed \in Nat,
         Silent(b, t), NEW p \in Ledgers, PersistedIn(b, p, t, q, observed, Len(q)),
         NEW l, SameLength(p, l), NEW i \in 1 .. Len(q)
  PROVE  ClaimIs(l, t, q[i], Len(b.claims) + i)
<1> DEFINE n == Len(b.claims)
<1>1. n \in Nat /\ Len(q) \in Nat /\ Len(p.claims) = n + Len(q) /\ Len(l.claims) = n + Len(q)
  BY LedgerParts DEF Findings, PersistedIn, SameLength
<1> HIDE DEF n
<1>2. ASSUME NEW j \in 1 .. Len(q)
      PROVE  /\ n + j \in Places(l)
             /\ l.claims[n + j].source = "image" /\ l.claims[n + j].run = t
             /\ l.claims[n + j].field = q[j].field
             /\ l.claims[n + j].value = q[j].value
  <2>1. n + j \in Places(p) /\ n + j \in Places(l)
    BY <1>1 DEF Places
  <2>2. /\ p.claims[n + j].source = "image" /\ p.claims[n + j].run = t
        /\ p.claims[n + j].field = q[j].field
        /\ p.claims[n + j].value = q[j].value
    <3> DEFINE c == Claim(q[j].field, q[j].value, "image", t, observed, "pending")
    <3>1. p.claims[n + j] = c
      BY DEF PersistedIn, n
    <3>2. c.source = "image" /\ c.run = t /\ c.field = q[j].field /\ c.value = q[j].value
      BY FindingClaim
    <3> HIDE DEF c
    <3> QED
      BY <3>1, <3>2
  <2> QED
    BY <2>1, <2>2 DEF SameLength, SameContent
<1>3. ASSUME NEW k \in SameClaim(l, t, q[i]) PROVE k = n + i
  <2>1. /\ k \in 1 .. (n + Len(q)) /\ l.claims[k].source = "image"
        /\ l.claims[k].run = t /\ l.claims[k].field = q[i].field
    BY <1>1 DEF SameClaim
  <2>2. k \notin 1 .. n
    <3> SUFFICES ASSUME k \in 1 .. n PROVE FALSE
      OBVIOUS
    <3>1. k \in Places(b) /\ k \in Places(p)
      BY <1>1 DEF Places, n
    <3>2. l.claims[k].source = b.claims[k].source /\ l.claims[k].run = b.claims[k].run
      BY <3>1 DEF SameLength, SameContent, PersistedIn
    <3> QED
      BY <2>1, <3>1, <3>2 DEF Silent
  <2>3. k - n \in 1 .. Len(q) /\ k = n + (k - n)
    BY <1>1, <2>1, <2>2
  <2>4. l.claims[k].field = q[k - n].field
    BY <1>2, <2>3
  <2>5. k - n = i
    BY <2>1, <2>3, <2>4 DEF Findings
  <2> QED
    BY <2>3, <2>5
<1>4. n + i \in SameClaim(l, t, q[i])
  BY <1>2 DEF SameClaim, Places
<1>5. (CHOOSE k \in SameClaim(l, t, q[i]) : TRUE) = n + i
  <2>1. (CHOOSE k \in SameClaim(l, t, q[i]) : TRUE) \in SameClaim(l, t, q[i])
    BY <1>4
  <2> QED
    BY <1>3, <2>1
<1> QED
  BY <1>2, <1>5 DEF n, ClaimIs

\* Resolving a run's findings is a sequence of single steps.
LEMMA ResolveSteps ==
  ASSUME NEW b \in Ledgers, NEW q, Findings(q), NEW t \in Turns, NEW observed \in Nat,
         Silent(b, t), NEW E, q \in Seq(E),
         PersistClaims(b, t, q, observed) \in Ledgers,
         PersistedIn(b, PersistClaims(b, t, q, observed), t, q, observed, Len(q))
  PROVE  \E h : ResolveTrace(h, PersistClaims(b, t, q, observed), t, q,
                            ResolveFirst(b, t, q, observed, Len(q)))
<1> DEFINE p == PersistClaims(b, t, q, observed)
           n == Len(q)
           P == {l \in Ledgers : SameLength(p, l)}
           Op(l, fd) == ResolveOne(l, t, fd)
           F == [i \in 1 .. n |-> [l \in P |-> Op(l, q[i])]]
           list == SubSeq(q, 1, Len(q))
           iter[s \in SUBSET (DOMAIN list)] ==
             IF s = {} THEN p ELSE Op(iter[s \ {Max(s)}], list[Max(s)])
<1>1. n \in Nat /\ DOMAIN q = 1 .. n
  BY DEF Findings
<1>2. ResolveFirst(b, t, q, observed, Len(q)) = iter[DOMAIN list]
  BY DEF ResolveFirst, ResolveOne, FoldLeft, MapThenFoldSet
<1>3. list = q
  BY SubSeqFull
<1> HIDE DEF list
<1>4. p \in Ledgers /\ PersistedIn(b, p, t, q, observed, Len(q))
  OBVIOUS
<1> HIDE DEF p
<1>5. \A i \in 1 .. n, l \in P : Op(l, q[i]) \in P
  <2> SUFFICES ASSUME NEW i \in 1 .. Len(q), NEW l \in Ledgers, SameLength(p, l)
               PROVE  /\ ResolveOne(l, t, q[i]) \in Ledgers
                      /\ SameLength(p, ResolveOne(l, t, q[i]))
    OBVIOUS
  <2> DEFINE id == Len(b.claims) + i
             s == ResolveClaim(l, id, q[i])
  <2>1. id \in Places(l) /\ ResolveOne(l, t, q[i]) = s
    <3>1. ClaimIs(l, t, q[i], Len(b.claims) + i)
      BY <1>4, ClaimOfFinding
    <3> QED
      BY <3>1 DEF ClaimIs, ResolveOne
  <2> HIDE DEF id
  <2>2. s \in Ledgers /\ SameLength(l, s)
    BY <2>1, ResolveTyped
  <2>3. SameLength(p, s)
    BY <2>2 DEF SameLength, SameContent, Places
  <2> QED
    BY <2>1, <2>2, <2>3
<1>6. F \in [1 .. n -> [P -> P]] /\ \A i \in 1 .. n, l \in P : F[i][l] = Op(l, q[i])
  BY <1>5
<1>7. p \in P
  <2>1. Len(p.claims) \in Nat
    BY <1>4, LedgerParts
  <2> QED
    BY <1>4, <2>1 DEF SameLength, SameContent
<1> HIDE DEF F, Op, P
<1>8. PICK g : Tabulates(g, P, p, n, F)
  BY <1>1, <1>6, <1>7, FoldTable
<1>9. \A s \in SUBSET (1 .. n) :
        s # {} => Max(s) \in 1 .. n /\ s \ {Max(s)} \in SUBSET (1 .. n)
  BY <1>1, MaxOf
<1>10. g = [s \in SUBSET (DOMAIN list) |->
             IF s = {} THEN p ELSE Op(g[s \ {Max(s)}], list[Max(s)])]
  BY <1>1, <1>6, <1>8, <1>9, <1>3 DEF Tabulates
<1>11. iter = [s \in SUBSET (DOMAIN list) |->
                IF s = {} THEN p ELSE Op(iter[s \ {Max(s)}], list[Max(s)])]
  BY <1>10
<1> HIDE DEF iter
<1>12. Follows(iter, P, p, n, F)
  <2>1. iter[{}] = p
    BY <1>11
  <2>2. \A s \in SUBSET (1 .. n) :
          s # {} /\ iter[s \ {Max(s)}] \in P =>
            iter[s] = F[Max(s)][iter[s \ {Max(s)}]]
    BY <1>1, <1>6, <1>9, <1>11, <1>3
  <2> QED
    BY <2>1, <2>2 DEF Follows
<1> HIDE DEF n
<1>13. PICK h : Trace(h, P, p, n, F) /\ iter[1 .. n] = h[n]
  BY <1>1, <1>6, <1>7, <1>12, FoldTrace
<1>14. \A i \in 1 .. n : h[i] = Op(h[i - 1], q[i])
  <2> SUFFICES ASSUME NEW i \in 1 .. n PROVE h[i] = Op(h[i - 1], q[i])
    OBVIOUS
  <2>1. i - 1 \in 0 .. n
    BY <1>1
  <2> QED
    BY <1>6, <1>13, <2>1 DEF Trace
<1> QED
  BY <1>1, <1>2, <1>13, <1>14, <1>3 DEF Trace, ResolveTrace, Op, n, p

\* The first i findings of q, persisted in p after the claims of b, are resolved.
ResolvedUpTo(b, p, r, q, i) ==
  /\ SameLength(p, r)
  /\ \A f \in Fields : r.res[f].state = "none" => p.res[f].state = "none"
  /\ \A d \in DerivedFields : r.proj[d] = p.proj[d]
  /\ \A f \in Fields : r.res[f].claim > Len(b.claims) =>
       \E j \in 1 .. i : f = q[j].field
  /\ r.proj = p.proj \/ \E f \in Fields : r.res[f].claim > Len(b.claims)

\* One finding resolved: its claim was not current before, for no two findings
\* of a run are of one field.
LEMMA ResolveStep ==
  ASSUME NEW b, NEW now \in Nat, LedgerInv(b, now), NEW q, Findings(q),
         NEW t \in Turns, NEW observed \in Nat, Silent(b, t),
         NEW p \in Ledgers, PersistedIn(b, p, t, q, observed, Len(q)),
         NEW i \in 1 .. Len(q), NEW l, LedgerInv(l, now),
         ResolvedUpTo(b, p, l, q, i - 1),
         NEW r, r = ResolveOne(l, t, q[i])
  PROVE  LedgerInv(r, now) /\ ResolvedUpTo(b, p, r, q, i)
<1> DEFINE n == Len(b.claims)
           id == n + i
<1>1. /\ b \in Ledgers /\ n \in Nat /\ i \in Nat /\ l \in Ledgers
      /\ \A f \in Fields : l.res[f].claim \in Nat
  BY LedgerParts DEF LedgerInv, Findings, Resolutions, Rows
<1>2. /\ id \in Places(l) /\ l.claims[id].source = "image"
      /\ l.claims[id].field = q[i].field
      /\ r = ResolveClaim(l, id, q[i])
  <2>1. SameLength(p, l)
    BY DEF ResolvedUpTo
  <2>2. ClaimIs(l, t, q[i], Len(b.claims) + i)
    BY <1>1, <2>1, ClaimOfFinding
  <2> QED
    BY <2>2 DEF ClaimIs, ResolveOne
<1>3. l.claims[id].disposition # "applied"
  <2> SUFFICES ASSUME l.claims[id].disposition = "applied" PROVE FALSE
    OBVIOUS
  <2>1. q[i].field \in Fields /\ l.res[q[i].field].claim = id
    BY <1>2 DEF LedgerInv, CurrentApplied, Findings
  <2>2. PICK j \in 1 .. (i - 1) : q[i].field = q[j].field
    <3>1. l.res[q[i].field].claim > n
      BY <1>1, <2>1
    <3> QED
      BY <2>1, <3>1 DEF ResolvedUpTo
  <2>3. j \in 1 .. Len(q) /\ j # i
    BY <1>1, <2>2 DEF Findings
  <2> QED
    BY <2>2, <2>3 DEF Findings
<1>4. LedgerInv(r, now) /\ ResolvedIn(l, r, id)
  <2> HIDE DEF id
  <2> QED
    BY <1>2, <1>3, ResolveKeeps
<1>5. SameLength(p, r)
  BY <1>4 DEF ResolvedIn, ResolvedUpTo, SameLength, SameContent, Places
<1>6. ASSUME NEW f \in Fields, r.res[f].claim > n
      PROVE  \E j \in 1 .. i : f = q[j].field
  <2>1. \/ r.res[f].claim = l.res[f].claim
        \/ r.res[f].claim = NoClaim
        \/ f = q[i].field
    BY <1>2, <1>4 DEF ResolvedIn
  <2>2. CASE r.res[f].claim = l.res[f].claim
    <3>1. PICK j \in 1 .. (i - 1) : f = q[j].field
      BY <1>6, <2>2 DEF ResolvedUpTo
    <3> QED
      BY <1>1, <3>1
  <2>3. CASE f = q[i].field
    BY <1>1, <2>3
  <2> QED
    BY <1>1, <1>6, <2>1, <2>2, <2>3 DEF NoClaim
<1>7. r.proj = p.proj \/ \E f \in Fields : r.res[f].claim > n
  <2>1. CASE \E f \in Fields : r.res[f].claim = id
    BY <1>1, <2>1
  <2>2. CASE r.proj = l.proj /\ \A g \in Fields : r.res[g].claim = l.res[g].claim
    BY <2>2 DEF ResolvedUpTo
  <2> QED
    BY <1>4, <2>1, <2>2 DEF ResolvedIn
<1> QED
  BY <1>4, <1>5, <1>6, <1>7 DEF ResolvedIn, ResolvedUpTo

\* All findings resolved.
LEMMA Resolving ==
  ASSUME NEW b, NEW now \in Nat, LedgerInv(b, now), NEW q, Findings(q),
         NEW t \in Turns, NEW observed \in Nat, Silent(b, t),
         NEW E, q \in Seq(E)
  PROVE  LET p == PersistClaims(b, t, q, observed)
             r == ResolveFirst(b, t, q, observed, Len(q))
         IN  /\ LedgerInv(p, now) /\ PersistedIn(b, p, t, q, observed, Len(q))
             /\ LedgerInv(r, now) /\ ResolvedUpTo(b, p, r, q, Len(q))
<1> DEFINE p == PersistClaims(b, t, q, observed)
           r == ResolveFirst(b, t, q, observed, Len(q))
<1>1. LedgerInv(p, now) /\ PersistedIn(b, p, t, q, observed, Len(q))
  BY Persisting
<1>2. b \in Ledgers /\ p \in Ledgers
  BY <1>1 DEF LedgerInv
<1>3. PICK h : ResolveTrace(h, p, t, q, r)
  BY <1>1, <1>2, ResolveSteps
<1> SUFFICES LedgerInv(r, now) /\ ResolvedUpTo(b, p, r, q, Len(q))
  BY <1>1
<1> HIDE DEF p, r
<1>4. b \in Ledgers /\ p \in Ledgers /\ Len(q) \in Nat /\ Len(b.claims) \in Nat
      /\ Len(p.claims) \in Nat
  BY <1>2, LedgerParts DEF Findings
<1> DEFINE T == {i \in 0 .. Len(q) : LedgerInv(h[i], now) /\ ResolvedUpTo(b, p, h[i], q, i)}
<1>5. 0 \in T
  <2>1. \A f \in Fields : p.res[f].claim <= Len(b.claims)
    BY <1>4, <1>1 DEF PersistedIn, LedgerInv, CurrentApplied
  <2>2. \A f \in Fields : ~ (p.res[f].claim > Len(b.claims))
    <3>1. \A f \in Fields : p.res[f].claim \in Nat
      BY <1>4, LedgerParts DEF Resolutions, Rows
    <3> QED
      BY <1>4, <2>1, <3>1
  <2>3. ResolvedUpTo(b, p, p, q, 0)
    BY <1>4, <2>2 DEF ResolvedUpTo, SameLength, SameContent
  <2> QED
    BY <1>4, <1>3, <1>1, <2>3 DEF ResolveTrace
<1>6. ASSUME NEW i \in 1 .. Len(q), i - 1 \in T PROVE i \in T
  <2> DEFINE l == h[i - 1]
             s == h[i]
  <2>1. LedgerInv(l, now) /\ ResolvedUpTo(b, p, l, q, i - 1)
    BY <1>6
  <2>2. s = ResolveOne(l, t, q[i])
    BY <1>3 DEF ResolveTrace
  <2> HIDE DEF l, s
  <2>3. LedgerInv(s, now) /\ ResolvedUpTo(b, p, s, q, i)
    BY <1>4, <1>1, <2>1, <2>2, ResolveStep
  <2>4. i \in 0 .. Len(q)
    BY <1>4
  <2> QED
    BY <2>3, <2>4 DEF s
<1> HIDE DEF T
<1>7. \A i \in 0 .. Len(q) : i \in T
  BY <1>4, <1>5, <1>6, CountUp
<1>8. Len(q) \in T
  BY <1>4, <1>7
<1> QED
  BY <1>3, <1>8 DEF T, ResolveTrace

\* The list of an extractor's findings, which is never empty.
LEMMA OrderedFindings ==
  ASSUME NEW o \in Extractions, NEW q \in InOrder(o)
  PROVE  Findings(q) /\ q \in Seq(o) /\ Len(q) >= 1
<1> DEFINE n == Cardinality(o)
<1>1. /\ o # {} /\ IsFiniteSet(o)
      /\ \A fd \in o : fd.field \in Fields /\ fd.value \in ValuesOf(fd.field)
  BY ProfileAssumption
<1>2. n \in Nat /\ n # 0
  BY <1>1, FS_CardinalityType, FS_EmptySet
<1>3. /\ q \in [1 .. n -> o]
      /\ \A i, k \in 1 .. n :
           i < k => ResolutionOrder(q[i].field) < ResolutionOrder(q[k].field)
  BY DEF InOrder
<1> HIDE DEF n
<1>4. q \in Seq(o) /\ Len(q) = n
  BY <1>2, <1>3
<1>5. \A f \in Fields : ResolutionOrder(f) \in 1 .. 9
  BY DEF ResolutionOrder, Fields, BrakeFields, MechanismFields, CountFields, DerivedFields
<1>6. \A i \in 1 .. n : q[i].field \in Fields /\ q[i].value \in ValuesOf(q[i].field)
  BY <1>1, <1>3
<1>7. ASSUME NEW i \in 1 .. n, NEW k \in 1 .. n, q[i].field = q[k].field
      PROVE  i = k
  <2>1. ResolutionOrder(q[i].field) \in 1 .. 9
    BY <1>5, <1>6
  <2>2. ~ (i < k) /\ ~ (k < i)
    BY <1>3, <1>7, <2>1
  <2> QED
    BY <1>2, <2>2
<1> QED
  BY <1>2, <1>3, <1>4, <1>6, <1>7 DEF Findings

\* The images that speak in r are those of b and some of run t, one per field.
EvidenceIn(b, r, t) ==
  /\ Len(b.claims) <= Len(r.claims)
  /\ SameContent(b, r)
  /\ \A i \in Places(r) :
       i \notin Places(b) /\ r.claims[i].source = "image" => r.claims[i].run = t
  /\ \E i \in Places(r) : r.claims[i].source = "image" /\ r.claims[i].run = t
  /\ \A i, k \in Places(r) :
       /\ r.claims[i].source = "image" /\ r.claims[i].run = t
       /\ r.claims[k].source = "image" /\ r.claims[k].run = t
       /\ r.claims[i].field = r.claims[k].field
       => i = k

\* The resolution of a whole run, with what is derived from it: it leaves one
\* claim for each of its findings and none for another run.
LEMMA RunKeeps ==
  ASSUME NEW now \in Nat, NEW b, LedgerInv(b, now), RearSpeedsAgree(b),
         NEW t \in Turns, NEW observed \in Nat, Silent(b, t),
         NEW o \in Extractions, NEW q \in InOrder(o),
         NEW r, r = ResolveRun(b, t, q, observed)
  PROVE  /\ LedgerInv(r, now) /\ RearSpeedsAgree(r) /\ EvidenceIn(b, r, t)
         /\ r.revision > b.revision \/ (r.revision = b.revision /\ LooksSame(b, r))
<1> DEFINE n == Len(b.claims)
           p == PersistClaims(b, t, q, observed)
           s == ResolveFirst(b, t, q, observed, Len(q))
           changed == s.res # b.res
<1>1. Findings(q) /\ q \in Seq(o) /\ Len(q) >= 1 /\ Len(q) \in Nat
  BY OrderedFindings DEF Findings
<1>2. /\ LedgerInv(p, now) /\ PersistedIn(b, p, t, q, observed, Len(q))
      /\ LedgerInv(s, now) /\ ResolvedUpTo(b, p, s, q, Len(q))
  BY <1>1, Resolving
<1>3. r = Revised(s, changed)
  BY DEF ResolveRun
<1> HIDE DEF p, s
<1>4. /\ b \in Ledgers /\ n \in Nat /\ s.revision = b.revision
      /\ Len(p.claims) = n + Len(q) /\ Len(s.claims) = n + Len(q)
      /\ \A f \in Fields : b.res[f].claim \in 0 .. n
      /\ p.res = b.res /\ p.proj = b.proj
  BY <1>2, LedgerParts DEF LedgerInv, CurrentApplied, PersistedIn, ResolvedUpTo, SameLength
<1> HIDE DEF n
<1>5. \A k \in Places(b) : k \in Places(p) /\ p.claims[k] = b.claims[k]
  BY <1>1, <1>2, <1>4 DEF PersistedIn, Places, n
<1>6. SameContent(b, s)
  BY <1>2, <1>5 DEF ResolvedUpTo, SameLength, SameContent
<1>7. WrittenFrom(b, s)
  BY <1>1, <1>2, <1>4, <1>6 DEF WrittenFrom, ResolvedUpTo, n
<1>8. s.res = b.res => s.proj = b.proj
  BY <1>2, <1>4 DEF ResolvedUpTo, n
<1>9. ~changed => LooksSame(b, s)
  BY <1>8 DEF LooksSame
<1>10. changed \in BOOLEAN
  OBVIOUS
<1> HIDE DEF changed
<1>11. /\ LedgerInv(r, now) /\ RearSpeedsAgree(r)
       /\ Len(s.claims) <= Len(r.claims) /\ SameContent(s, r)
       /\ \A i \in Places(r) : i \notin Places(s) => r.claims[i].source = "derived"
       /\ r.revision > s.revision \/ (~changed /\ r = s)
  BY <1>2, <1>3, <1>7, <1>10, Rewritten
<1>12. ASSUME NEW j \in 1 .. Len(q)
       PROVE  /\ n + j \in Places(r) /\ r.claims[n + j].source = "image"
              /\ r.claims[n + j].run = t /\ r.claims[n + j].field = q[j].field
  <2> DEFINE c == Claim(q[j].field, q[j].value, "image", t, observed, "pending")
  <2>1. c.source = "image" /\ c.run = t /\ c.field = q[j].field
    BY <1>1, FindingClaim
  <2>2. p.claims[n + j] = c
    BY <1>2 DEF PersistedIn, n
  <2> HIDE DEF c
  <2>3. Len(r.claims) \in Nat
    BY <1>11, LedgerParts DEF LedgerInv
  <2>4. n + j \in Places(p) /\ n + j \in Places(s) /\ n + j \in Places(r)
    BY <1>1, <1>4, <1>11, <2>3 DEF Places
  <2>5. SameContent(p, s)
    BY <1>2 DEF ResolvedUpTo, SameLength
  <2> QED
    BY <1>11, <2>1, <2>2, <2>4, <2>5 DEF SameContent
<1>13. ASSUME NEW i \in Places(r), i \notin Places(b), r.claims[i].source = "image"
       PROVE  \E j \in 1 .. Len(q) : i = n + j
  <2>1. i \in Places(s)
    BY <1>11, <1>13
  <2>2. i \in 1 .. (n + Len(q)) /\ i \notin 1 .. n
    BY <1>4, <1>13, <2>1 DEF Places, n
  <2>3. i - n \in 1 .. Len(q) /\ i = n + (i - n)
    BY <1>1, <1>4, <2>2
  <2> QED
    BY <2>3
<1>14. \A i \in Places(b) : /\ i \in Places(r)
                            /\ ~ (r.claims[i].source = "image" /\ r.claims[i].run = t)
  <2>1. \A i \in Places(b) : i \in Places(s)
    BY <1>4, <1>1 DEF Places, n
  <2>2. \A i \in Places(s) : i \in Places(r)
    <3>1. Len(r.claims) \in Nat /\ Len(s.claims) \in Nat
      BY <1>2, <1>11, LedgerParts DEF LedgerInv
    <3> QED
      BY <1>11, <3>1 DEF Places
  <2> QED
    BY <1>6, <1>11, <2>1, <2>2 DEF SameContent, Silent
<1>15. SameContent(b, r)
  <2>1. \A i \in Places(b) : i \in Places(s)
    BY <1>4, <1>1 DEF Places, n
  <2> QED
    BY <1>6, <1>11, <2>1 DEF SameContent
<1>16. EvidenceIn(b, r, t)
  <2>1. Len(b.claims) <= Len(r.claims)
    <3>1. Len(r.claims) \in Nat
      BY <1>11, LedgerParts DEF LedgerInv
    <3> QED
      BY <1>1, <1>4, <1>11, <3>1 DEF n
  <2>2. \A i \in Places(r) :
          i \notin Places(b) /\ r.claims[i].source = "image" => r.claims[i].run = t
    BY <1>12, <1>13
  <2>3. \E i \in Places(r) : r.claims[i].source = "image" /\ r.claims[i].run = t
    <3>1. 1 \in 1 .. Len(q)
      BY <1>1
    <3> QED
      BY <1>12, <3>1
  <2>4. ASSUME NEW i \in Places(r), NEW k \in Places(r),
               r.claims[i].source = "image", r.claims[i].run = t,
               r.claims[k].source = "image", r.claims[k].run = t,
               r.claims[i].field = r.claims[k].field
        PROVE  i = k
    <3>1. PICK j \in 1 .. Len(q) : i = n + j
      BY <1>13, <1>14, <2>4
    <3>2. PICK m \in 1 .. Len(q) : k = n + m
      BY <1>13, <1>14, <2>4
    <3>3. q[j].field = q[m].field
      BY <1>12, <2>4, <3>1, <3>2
    <3> QED
      BY <1>1, <3>1, <3>2, <3>3 DEF Findings
  <2> QED
    BY <1>15, <2>1, <2>2, <2>3, <2>4 DEF EvidenceIn
<1> QED
  BY <1>4, <1>9, <1>11, <1>16

-----------------------------------------------------------------------------
(* The bike.  An attempt writes the ledger only from a started run, which has  *)
(* no claims yet: so a run's evidence is whole and there once, and what holds  *)
(* of one write to the ledger holds of every history of them.                  *)

\* The attempt that may still write, having begun, has a started run; what it is
\* about to resolve is an answer of the extractor.
Begun(t) ==
  \A a \in Attempts :
    Fenced(t, a) /\ exec[t][a].step \in {"extract", "resolve"} =>
      /\ run[t] = "started"
      /\ exec[t][a].step = "resolve" => exec[t][a].findings \in Extractions

LedgerIInv ==
  /\ ControlIInv
  /\ touched \in Vocabularies
  /\ \A t \in Turns : Begun(t)
  /\ EvidenceIffCompleted
  /\ LedgerInv(ledger, clock)
  /\ RearSpeedsAgree(ledger)

\* A step of attempt a of turn t, which is the only one that may write.
LEMMA BegunGoesOn ==
  ASSUME ControlIInv, \A u \in Turns : Begun(u),
         NEW t \in Turns, NEW a \in Attempts, NEW e, Goes(t, a, e),
         UNCHANGED <<job, attempts>>,
         \A u \in Turns \ {t} : run'[u] = run[u],
         run'[t] = run[t] \/ Fenced(t, a),
         e.step \in {"extract", "resolve"} => run'[t] = "started",
         e.step = "resolve" => e.findings \in Extractions
  PROVE  \A u \in Turns : Begun(u)'
<1> SUFFICES ASSUME NEW u \in Turns, NEW b \in Attempts, Fenced(u, b),
                    exec'[u][b].step \in {"extract", "resolve"}
             PROVE  /\ run'[u] = "started"
                    /\ exec'[u][b].step = "resolve" => exec'[u][b].findings \in Extractions
  BY DEF Begun, Fenced
<1>1. CASE u = t /\ b = a
  <2>1. exec'[u][b] = e
    BY <1>1 DEF ControlIInv, AttemptsKnown, Goes
  <2> QED
    BY <1>1, <2>1
<1>2. CASE ~ (u = t /\ b = a)
  <2>1. exec'[u][b] = exec[u][b]
    BY <1>2 DEF ControlIInv, AttemptsKnown, Goes
  <2>2. run'[u] = run[u]
    BY <1>2 DEF Fenced
  <2> QED
    BY <2>1, <2>2 DEF Begun
<1> QED
  BY <1>1, <1>2

\* The job of turn t moves: an attempt that may write has begun no work yet.
LEMMA BegunElsewhere ==
  ASSUME \A u \in Turns : Begun(u), NEW t \in Turns,
         \A u \in Turns \ {t} : /\ job'[u] = job[u] /\ attempts'[u] = attempts[u]
                                /\ run'[u] = run[u] /\ exec'[u] = exec[u],
         \A b \in Attempts :
           job'[t] = "running" /\ attempts'[t] = b =>
             exec'[t][b].step \notin {"extract", "resolve"}
  PROVE  \A u \in Turns : Begun(u)'
BY DEF Begun, Fenced

\* Runs keep their evidence as long as none is completed or was.
SameCompleted == \A u \in Turns : run'[u] = "completed" <=> run[u] = "completed"

\* Without a write to the ledger evidence stays what it is.
LEMMA EvidenceKept ==
  ASSUME EvidenceIffCompleted, UNCHANGED ledger, SameCompleted
  PROVE  EvidenceIffCompleted'
BY DEF EvidenceIffCompleted, ImageClaims, SameCompleted

\* What a step outside the ledger preserves.
LEMMA AsideKeeps ==
  ASSUME LedgerIInv, ControlIInv', \A u \in Turns : Begun(u)', SameCompleted,
         clock' \in {clock, clock + 1}, UNCHANGED <<ledger, touched>>
  PROVE  LedgerIInv'
<1>1. clock \in Nat /\ clock' \in Nat /\ clock <= clock'
  BY DEF LedgerIInv, ControlIInv, ControlTyped
<1>2. EvidenceIffCompleted'
  BY EvidenceKept DEF LedgerIInv
<1>3. LedgerInv(ledger, clock')
  BY <1>1, LaterInv DEF LedgerIInv
<1>4. LedgerInv(ledger', clock')
  BY <1>3
<1>5. RearSpeedsAgree(ledger')
  BY DEF LedgerIInv
<1> QED
  BY <1>2, <1>4, <1>5 DEF LedgerIInv

\* A job's transition completes no run, and undoes no completed one.
LEMMA TransitionsCompleteNothing ==
  ASSUME ControlIInv, NEW t \in Turns, NEW s, NEW error, Transition(t, s, error)
  PROVE  /\ SameCompleted
         /\ \A u \in Turns \ {t} : run'[u] = run[u] /\ job'[u] = job[u]
         /\ job'[t] = s
<1>1. /\ run' = [run EXCEPT ![t] = RunAfterTransition(t, s, error)]
      /\ job' = [job EXCEPT ![t] = s]
  BY DEF Transition
<1>2. RunAfterTransition(t, s, error) = "completed" <=> run[t] = "completed"
  BY DEF RunAfterTransition
<1> QED
  BY <1>1, <1>2 DEF SameCompleted, ControlIInv, ControlTyped

\* What an attempt does, its resolution apart.
LEMMA AttemptAside ==
  ASSUME LedgerIInv, NEW t \in Turns, NEW a \in Attempts, Attempt(t, a),
         ~ ResolveEvidence(t, a)
  PROVE  LedgerIInv'
<1> USE DEF bikeVars, jobVars
<1>1. ControlIInv /\ ControlIInv' /\ (\A u \in Turns : Begun(u))
  BY AttemptKeeps DEF LedgerIInv
<1>2. UNCHANGED <<ledger, clock, touched>>
  BY DEF Attempt, Expelled, Skip, Begin, PhotosFail, ProviderFails, Extract,
     ResolutionFails, BikeUnavailable, Gone, SettleJob
<1>3. SUFFICES (\A u \in Turns : Begun(u)') /\ SameCompleted
  BY <1>1, <1>2, AsideKeeps
<1>4. ASSUME NEW e, Goes(t, a, e), e.step \notin {"extract", "resolve"},
             UNCHANGED <<job, attempts, run>>
      PROVE  (\A u \in Turns : Begun(u)') /\ SameCompleted
  BY <1>1, <1>4, BegunGoesOn DEF SameCompleted
<1>5. ASSUME NEW status \in Statuses, run' = [run EXCEPT ![t] = status],
             run[t] # "completed", status # "completed"
      PROVE  SameCompleted /\ run'[t] = status /\ \A u \in Turns \ {t} : run'[u] = run[u]
  BY <1>1, <1>5 DEF SameCompleted, ControlIInv, ControlTyped
<1>6. ASSUME NEW status \in Statuses, Fenced(t, a), Finish(t, a, status),
             exec[t][a].step \in {"extract", "resolve"},
             status # "completed", UNCHANGED <<job, attempts>>
      PROVE  (\A u \in Turns : Begun(u)') /\ SameCompleted
  <2>1. run[t] = "started"
    BY <1>1, <1>6 DEF Begun
  <2>2. Goes(t, a, ToSettle(status)) /\ run' = [run EXCEPT ![t] = status]
    BY <1>6 DEF Finish
  <2>3. ToSettle(status).step = "settle"
    BY DEF ToSettle, Idle
  <2>4. SameCompleted /\ \A u \in Turns \ {t} : run'[u] = run[u]
    BY <1>5, <1>6, <2>1, <2>2
  <2> QED
    BY <1>1, <1>6, <2>2, <2>3, <2>4, BegunGoesOn
<1>7. /\ RetryableStatus(a) \in Statuses /\ RetryableStatus(a) # "completed"
      /\ {"terminal_failure", "abstained", "started"} \subseteq Statuses
  BY DEF RetryableStatus, Statuses, TerminalRuns
<1>8. CASE Expelled(t, a) \/ (BikeUnavailable(t, a) /\ Gone(t, a))
  BY <1>4, <1>8 DEF Expelled, Gone, Idle
<1>9. CASE Skip(t, a)
  BY <1>4, <1>9 DEF Skip, ToSettle, Idle
<1>10. CASE Begin(t, a)
  <2>1. CASE run[t] \in TerminalRuns
    BY <1>4, <1>10, <2>1 DEF Begin, ToSettle, Idle
  <2>2. CASE run[t] \notin TerminalRuns
    <3> DEFINE e == [Idle EXCEPT !.step = "extract"]
    <3>1. /\ Fenced(t, a) /\ Goes(t, a, e) /\ UNCHANGED <<job, attempts>>
          /\ run' = [run EXCEPT ![t] = "started"] /\ run[t] # "completed"
      BY <1>10, <2>2 DEF Begin, TerminalRuns
    <3>2. e.step = "extract"
      BY DEF Idle
    <3>3. SameCompleted /\ run'[t] = "started" /\ \A u \in Turns \ {t} : run'[u] = run[u]
      BY <1>5, <1>7, <3>1
    <3> HIDE DEF e
    <3> QED
      BY <1>1, <3>1, <3>2, <3>3, BegunGoesOn
  <2> QED
    BY <2>1, <2>2
<1>11. CASE PhotosFail(t, a) \/ ProviderFails(t, a)
  BY <1>6, <1>7, <1>11 DEF PhotosFail, ProviderFails, At
<1>12. CASE Extract(t, a)
  <2>1. Fenced(t, a) /\ exec[t][a].step = "extract" /\ UNCHANGED <<job, attempts>>
    BY <1>12 DEF Extract, At
  <2>2. run[t] = "started"
    BY <1>1, <2>1 DEF Begun
  <2>3. CASE \E status \in {"abstained", "terminal_failure"} : Finish(t, a, status)
    BY <1>6, <1>7, <2>1, <2>3
  <2>4. ASSUME NEW findings \in Outputs,
               Goes(t, a, [Idle EXCEPT !.step = "resolve", !.findings = findings]),
               UNCHANGED run
        PROVE  (\A u \in Turns : Begun(u)') /\ SameCompleted
    <3> DEFINE e == [Idle EXCEPT !.step = "resolve", !.findings = findings]
    <3>1. e.findings \in Extractions
      BY DEF Idle, Outputs
    <3> HIDE DEF e
    <3>2. Goes(t, a, e)
      BY <2>4 DEF e
    <3> QED
      BY <1>1, <2>1, <2>2, <2>4, <3>1, <3>2, BegunGoesOn DEF SameCompleted
  <2>5. run[t] \notin TerminalRuns
    BY <2>2 DEF TerminalRuns
  <2> QED
    BY <1>12, <2>3, <2>4, <2>5 DEF Extract
<1>13. CASE ResolutionFails(t, a)
  <2>1. /\ Fenced(t, a) /\ exec[t][a].step = "resolve" /\ UNCHANGED <<job, attempts>>
    BY <1>13 DEF ResolutionFails, At
  <2>2. run[t] = "started" /\ exec[t][a].findings \in Extractions
    BY <1>1, <2>1 DEF Begun
  <2>3. CASE Finish(t, a, RetryableStatus(a))
    BY <1>6, <1>7, <2>1, <2>3
  <2>4. CASE Goes(t, a, [exec[t][a] EXCEPT !.tries = @ + 1]) /\ UNCHANGED run
    <3> DEFINE e == [exec[t][a] EXCEPT !.tries = @ + 1]
    <3>1. e.findings = exec[t][a].findings
      OBVIOUS
    <3>2. Goes(t, a, e)
      BY <2>4
    <3> HIDE DEF e
    <3> QED
      BY <1>1, <2>1, <2>2, <2>4, <3>1, <3>2, BegunGoesOn DEF SameCompleted
  <2> QED
    BY <1>13, <2>3, <2>4 DEF ResolutionFails
<1>14. CASE BikeUnavailable(t, a) /\ Finish(t, a, "terminal_failure")
  <2>1. /\ Fenced(t, a) /\ exec[t][a].step = "resolve" /\ UNCHANGED <<job, attempts>>
    BY <1>14 DEF BikeUnavailable, At, Gone
  <2> QED
    BY <1>6, <1>7, <1>14, <2>1
<1>15. CASE SettleJob(t, a)
  <2>1. PICK s \in {"ready", "succeeded", "dead"},
             error \in {"none", "attempts_exhausted", "permanent_failure",
                        "provider_unavailable"} : Transition(t, s, error)
    BY <1>15 DEF SettleJob
  <2>2. /\ SameCompleted /\ job'[t] = s
        /\ \A u \in Turns \ {t} : run'[u] = run[u] /\ job'[u] = job[u]
    BY <1>1, <2>1, TransitionsCompleteNothing
  <2>3. attempts' = attempts /\ \A u \in Turns \ {t} : exec'[u] = exec[u]
    BY <1>1, <1>15 DEF SettleJob, Goes, ControlIInv, AttemptsKnown
  <2>4. s # "running"
    OBVIOUS
  <2> QED
    BY <1>1, <2>2, <2>3, <2>4, BegunElsewhere
<1> QED
  BY <1>8, <1>9, <1>10, <1>11, <1>12, <1>13, <1>14, <1>15
     DEF Attempt, BikeUnavailable

\* So does what riders, turns and the job table do, a rider's edits apart.
LEMMA OthersAside ==
  ASSUME LedgerIInv,
         \/ CheckHistory \/ SoftDelete
         \/ \E t \in Turns : AcceptTurn(t) \/ StartAttempt(t) \/ Recover(t)
  PROVE  LedgerIInv'
<1> USE DEF bikeVars, jobVars
<1>1. ControlIInv /\ ControlIInv' /\ (\A u \in Turns : Begun(u))
  BY OthersKeep DEF LedgerIInv
<1>2. UNCHANGED <<ledger, touched>> /\ clock' \in {clock, clock + 1}
  BY DEF CheckHistory, SoftDelete, AcceptTurn, StartAttempt, Recover
<1>3. SUFFICES (\A u \in Turns : Begun(u)') /\ SameCompleted
  BY <1>1, <1>2, AsideKeeps
<1>4. CASE CheckHistory \/ SoftDelete
  BY <1>1, <1>4 DEF CheckHistory, SoftDelete, SameCompleted, Begun, Fenced
<1>5. ASSUME NEW t \in Turns, AcceptTurn(t)
      PROVE  (\A u \in Turns : Begun(u)') /\ SameCompleted
  <2>1. /\ \A u \in Turns \ {t} : job'[u] = job[u]
        /\ job'[t] = "ready" /\ UNCHANGED <<attempts, run, exec>>
    BY <1>1, <1>5 DEF AcceptTurn, ControlIInv, ControlTyped
  <2> QED
    BY <1>1, <2>1, BegunElsewhere DEF SameCompleted
<1>6. ASSUME NEW t \in Turns, StartAttempt(t)
      PROVE  (\A u \in Turns : Begun(u)') /\ SameCompleted
  <2> DEFINE n == attempts[t] + 1
             e == [Idle EXCEPT !.step = "begin"]
  <2>1. n \in Attempts
    BY <1>1, <1>6, ProfileAssumption
       DEF StartAttempt, Attempts, ControlIInv, ControlTyped
  <2>2. /\ job' = [job EXCEPT ![t] = "running"]
        /\ attempts' = [attempts EXCEPT ![t] = n]
        /\ exec' = [exec EXCEPT ![t][n] = e] /\ UNCHANGED run
    BY <1>6 DEF StartAttempt
  <2>3. e.step = "begin"
    BY DEF Idle
  <2> HIDE DEF n, e
  <2>4. /\ \A u \in Turns \ {t} : /\ job'[u] = job[u] /\ attempts'[u] = attempts[u]
                                  /\ exec'[u] = exec[u]
        /\ attempts'[t] = n /\ exec'[t][n] = e
    BY <1>1, <2>1, <2>2 DEF ControlIInv, ControlTyped, AttemptsKnown
  <2> QED
    BY <1>1, <2>2, <2>3, <2>4, BegunElsewhere DEF SameCompleted
<1>7. ASSUME NEW t \in Turns, Recover(t)
      PROVE  (\A u \in Turns : Begun(u)') /\ SameCompleted
  <2>1. PICK s \in {"ready", "dead"},
             error \in {"attempts_exhausted", "execution_lost"} :
          Transition(t, s, error)
    BY <1>7 DEF Recover
  <2>2. /\ SameCompleted /\ job'[t] = s
        /\ \A u \in Turns \ {t} : run'[u] = run[u] /\ job'[u] = job[u]
    BY <1>1, <2>1, TransitionsCompleteNothing
  <2>3. UNCHANGED <<attempts, exec>> /\ s # "running"
    BY <1>7 DEF Recover
  <2> QED
    BY <1>1, <2>2, <2>3, BegunElsewhere
<1> QED
  BY <1>4, <1>5, <1>6, <1>7

\* What a step promises a reader of the profile who compares revisions.
LedgerMoves ==
  \/ ledger'.revision > ledger.revision
  \/ ledger'.revision = ledger.revision /\ LooksSame(ledger, ledger')

\* A rider's edits leave every image's claim.
LEMMA UpdateKeeps ==
  ASSUME LedgerIInv, UpdateBike
  PROVE  LedgerIInv' /\ LedgerMoves
<1> USE DEF jobVars
<1>1. ControlIInv /\ ControlIInv' /\ (\A u \in Turns : Begun(u)) /\ clock \in Nat
  BY OthersKeep DEF LedgerIInv, ControlIInv, ControlTyped
<1>2. PICK patch \in Edits :
        /\ FieldsOf(patch) \subseteq touched
        /\ ledger' = ApplyPatch(ledger, patch, clock + 1)
  BY DEF UpdateBike
<1>3. clock' = clock + 1 /\ UNCHANGED <<touched, job, attempts, run, exec>>
  BY DEF UpdateBike
<1>4. FieldsOf(patch) \subseteq Fields \ DerivedFields
  BY <1>2, ProfileAssumption DEF LedgerIInv
<1>5. LedgerInv(ledger, clock) /\ RearSpeedsAgree(ledger)
  BY DEF LedgerIInv
<1>6. /\ LedgerInv(ledger', clock + 1) /\ RearSpeedsAgree(ledger')
      /\ SameImages(ledger, ledger') /\ LedgerMoves
  BY <1>1, <1>2, <1>4, <1>5, PatchKeeps DEF LedgerMoves
<1>7. \A u \in Turns : Begun(u)'
  BY <1>1, <1>3 DEF Begun, Fenced
<1>8. ledger \in Ledgers /\ ledger' \in Ledgers
  BY <1>5, <1>6 DEF LedgerInv
<1>9. Len(ledger.claims) \in Nat /\ Len(ledger'.claims) \in Nat
  BY <1>8, LedgerParts
<1>10. EvidenceIffCompleted'
  <2>1. \A t \in Turns : ImageClaims(t)' = ImageClaims(t)
    BY <1>6, <1>9 DEF ImageClaims, SameImages, SameContent, Places
  <2>2. \A t \in Turns : \A i \in ImageClaims(t) :
          ledger'.claims[i].field = ledger.claims[i].field
    BY <1>6 DEF ImageClaims, SameImages, SameContent, Places
  <2> QED
    BY <1>3, <2>1, <2>2 DEF LedgerIInv, EvidenceIffCompleted
<1>11. LedgerInv(ledger', clock')
  BY <1>3, <1>6
<1> QED
  BY <1>1, <1>3, <1>6, <1>7, <1>10, <1>11 DEF LedgerIInv

\* The resolution of a run gives it all of its evidence, for the first time.
LEMMA ResolutionKeeps ==
  ASSUME LedgerIInv, NEW t \in Turns, NEW a \in Attempts, ResolveEvidence(t, a)
  PROVE  LedgerIInv' /\ LedgerMoves
<1> USE DEF jobVars
<1>1. /\ ControlIInv /\ ControlIInv' /\ (\A u \in Turns : Begun(u))
      /\ clock \in Nat /\ created[t] \in Nat
  BY AttemptKeeps DEF LedgerIInv, ControlIInv, ControlTyped, Attempt
<1>2. PICK q \in InOrder(exec[t][a].findings) :
        ledger' = ResolveRun(ledger, t, q, created[t])
  BY DEF ResolveEvidence
<1>3. /\ Fenced(t, a) /\ exec[t][a].step = "resolve"
      /\ Goes(t, a, ToSettle("completed"))
      /\ run' = [run EXCEPT ![t] = "completed"]
      /\ UNCHANGED <<clock, touched, job, attempts>>
  BY DEF ResolveEvidence, At, Finish
<1>4. run[t] = "started" /\ exec[t][a].findings \in Extractions
  BY <1>1, <1>3 DEF Begun
<1>5. LedgerInv(ledger, clock) /\ RearSpeedsAgree(ledger)
  BY DEF LedgerIInv
<1>6. Silent(ledger, t)
  <2>1. ImageClaims(t) = {}
    BY <1>4 DEF LedgerIInv, EvidenceIffCompleted
  <2> QED
    BY <2>1 DEF ImageClaims, Silent, Places
<1>7. /\ LedgerInv(ledger', clock) /\ RearSpeedsAgree(ledger')
      /\ EvidenceIn(ledger, ledger', t) /\ LedgerMoves
  BY <1>1, <1>2, <1>4, <1>5, <1>6, RunKeeps DEF LedgerMoves
<1>8. run'[t] = "completed" /\ \A u \in Turns \ {t} : run'[u] = run[u]
  BY <1>1, <1>3 DEF ControlIInv, ControlTyped
<1>9. \A u \in Turns : Begun(u)'
  <2>1. ToSettle("completed").step = "settle"
    BY DEF ToSettle, Idle
  <2> QED
    BY <1>1, <1>3, <1>8, <2>1, BegunGoesOn
<1>10. ledger \in Ledgers /\ ledger' \in Ledgers
  BY <1>5, <1>7 DEF LedgerInv
<1>11. Len(ledger.claims) \in Nat /\ Len(ledger'.claims) \in Nat
  BY <1>10, LedgerParts
<1>12. EvidenceIffCompleted'
  <2>1. ASSUME NEW u \in Turns \ {t} PROVE ImageClaims(u)' = ImageClaims(u)
    BY <1>7, <1>11 DEF ImageClaims, EvidenceIn, SameContent, Places
  <2>2. \A u \in Turns : \A i \in ImageClaims(u) :
          ledger'.claims[i].field = ledger.claims[i].field
    BY <1>7 DEF ImageClaims, EvidenceIn, SameContent, Places
  <2>3. /\ ImageClaims(t)' # {}
        /\ \A i, k \in ImageClaims(t)' :
             ledger'.claims[i].field = ledger'.claims[k].field => i = k
    BY <1>7 DEF ImageClaims, EvidenceIn, Places
  <2>4. ASSUME NEW u \in Turns
        PROVE  /\ run'[u] = "completed" <=> ImageClaims(u)' # {}
               /\ \A i, k \in ImageClaims(u)' :
                    ledger'.claims[i].field = ledger'.claims[k].field => i = k
    BY <1>8, <2>1, <2>2, <2>3 DEF LedgerIInv, EvidenceIffCompleted
  <2> QED
    BY <2>4 DEF EvidenceIffCompleted
<1>13. LedgerInv(ledger', clock')
  BY <1>3, <1>7
<1> QED
  BY <1>1, <1>3, <1>7, <1>9, <1>12, <1>13 DEF LedgerIInv

\* An empty ledger is in order.
LEMMA LedgerInit == Init => LedgerIInv
<1> SUFFICES ASSUME Init PROVE LedgerIInv
  OBVIOUS
<1> DEFINE b == EmptyLedger
<1>1. ControlIInv /\ touched \in Vocabularies
  BY ControlInit DEF Init
<1>2. \A t \in Turns : Begun(t)
  BY DEF Init, Begun, Idle
<1>3. /\ b.claims = <<>> /\ Places(b) = {} /\ b.revision = 0
      /\ b.proj = [f \in Fields |-> NoValue]
      /\ b.res = [f \in Fields |-> NoResolution]
  BY DEF EmptyLedger, Places
<1>4. EvidenceIffCompleted
  <2>1. Len(ledger.claims) = 0
    BY <1>3 DEF Init
  <2>2. \A t \in Turns : ImageClaims(t) = {}
    BY <2>1 DEF ImageClaims
  <2> QED
    BY <2>2 DEF EvidenceIffCompleted, Init
<1>5. b \in Ledgers
  <2>1. NoResolution \in Rows
    BY DEF NoResolution, Rows, Values, RowStates, Sources, NoClaim
  <2>2. /\ [f \in Fields |-> NoValue] \in Projections
        /\ [f \in Fields |-> NoResolution] \in Resolutions
    BY <2>1 DEF Projections, Resolutions, Values
  <2>3. <<>> \in Histories
    BY DEF Histories
  <2> QED
    BY <2>2, <2>3 DEF EmptyLedger, Ledgers
<1>6. LedgerInv(b, 0)
  <2> USE DEF NoResolution, NoClaim
  <2>1. \A f \in Fields :
          /\ b.res[f].value = NoValue /\ b.res[f].state = "none"
          /\ b.res[f].claim = 0 /\ b.res[f].barrier = 0
          /\ b.res[f].conflicting = {} /\ b.proj[f] = NoValue
    BY <1>3
  <2>2. CurrentApplied(b) /\ ClearsHeld(b, 0)
    BY <1>3, <2>1 DEF CurrentApplied, ClearsHeld
  <2>3. StatesAgree(b) /\ DisputesNamed(b) /\ ImagesSpeak(b)
    BY <1>3, <2>1 DEF StatesAgree, DisputesNamed, ImagesSpeak
  <2>4. DerivedShown(b)
    BY <2>1 DEF DerivedShown, Fields
  <2> QED
    BY <1>5, <2>2, <2>3, <2>4 DEF LedgerInv
<1>7. RearSpeedsAgree(b)
  <2>1. b.proj["rear.speeds"] = NoValue
    BY <1>3 DEF Fields, DerivedFields
  <2> QED
    BY <2>1 DEF RearSpeedsAgree
<1> QED
  BY <1>1, <1>2, <1>4, <1>6, <1>7 DEF Init, LedgerIInv

\* Every step of the specification preserves the invariant.
LEMMA LedgerSteps ==
  ASSUME LedgerIInv, [Next]_profileVars
  PROVE  /\ LedgerIInv'
         /\ LedgerMoves \/ UNCHANGED ledger
<1>1. CASE UNCHANGED profileVars
  <2> USE DEF profileVars
  <2>1. ControlIInv'
    BY <1>1 DEF LedgerIInv, ControlIInv, ControlTyped, AttemptsKnown,
       Unstarted, Reported, Ended, Fenced
  <2>2. (\A u \in Turns : Begun(u)') /\ SameCompleted
    BY <1>1 DEF LedgerIInv, Begun, Fenced, SameCompleted
  <2> QED
    BY <1>1, <2>1, <2>2, AsideKeeps
<1>2. CASE UpdateBike
  BY <1>2, UpdateKeeps
<1>3. CASE \E t \in Turns : \E a \in Attempts : ResolveEvidence(t, a)
  BY <1>3, ResolutionKeeps
<1>4. CASE \/ CheckHistory \/ SoftDelete
           \/ \E t \in Turns : AcceptTurn(t) \/ StartAttempt(t) \/ Recover(t)
  BY <1>4, OthersAside
     DEF CheckHistory, SoftDelete, AcceptTurn, StartAttempt, Recover, bikeVars
<1>5. ASSUME NEW t \in Turns, NEW a \in Attempts, Attempt(t, a),
             ~ ResolveEvidence(t, a)
      PROVE  LedgerIInv' /\ UNCHANGED ledger
  BY <1>5, AttemptAside
     DEF Attempt, Expelled, Skip, Begin, PhotosFail, ProviderFails, Extract,
         ResolutionFails, BikeUnavailable, Gone, SettleJob, bikeVars
<1> QED
  BY <1>1, <1>2, <1>3, <1>4, <1>5 DEF Next

\* The ledger of a bike, whatever riders and images said of it and in whatever
\* order: for any fields' policies, turns, attempts, extractions and edits.
THEOREM LedgerInvariant == Spec => []LedgerIInv
<1>1. LedgerIInv /\ [Next]_profileVars => LedgerIInv'
  BY LedgerSteps
<1> QED
  BY <1>1, LedgerInit, PTL DEF Spec

\* A run has evidence exactly when it completed, and one claim per field,
\* whatever crashed, was retried or outlived its deadline in between.
THEOREM EvidenceIsWhole == Spec => []EvidenceIffCompleted
<1>1. LedgerIInv => EvidenceIffCompleted
  BY DEF LedgerIInv
<1> QED
  BY <1>1, LedgerInvariant, PTL

\* Of the claims of a field, only the current one is applied.
THEOREM OneClaimApplies == Spec => []OneAppliedClaim
<1>1. LedgerIInv => OneAppliedClaim
  <2> SUFFICES ASSUME LedgerIInv, NEW f \in Fields
               PROVE  {i \in 1 .. Len(ledger.claims) :
                         ledger.claims[i].field = f /\ ledger.claims[i].disposition = "applied"}
                        = {ledger.res[f].claim} \ {NoClaim}
    BY DEF OneAppliedClaim
  <2>1. CurrentApplied(ledger) /\ Len(ledger.claims) \in Nat
    BY LedgerParts DEF LedgerIInv, LedgerInv
  <2>2. ledger.res[f].claim # NoClaim =>
          /\ ledger.res[f].claim \in Places(ledger)
          /\ ledger.claims[ledger.res[f].claim].field = f
    BY <2>1 DEF CurrentApplied, Places, NoClaim
  <2>3. \A i \in Places(ledger) :
          /\ i # NoClaim
          /\ ledger.claims[i].disposition = "applied" <=>
               ledger.res[ledger.claims[i].field].claim = i
    BY <2>1 DEF CurrentApplied, Places, NoClaim
  <2> QED
    BY <2>2, <2>3 DEF Places
<1> QED
  BY <1>1, LedgerInvariant, PTL

\* An image from before a clear that took effect is never what a field shows.
THEOREM ClearsHold == Spec => []NothingRefillsAClear
<1>1. LedgerIInv => NothingRefillsAClear
  <2> SUFFICES ASSUME LedgerIInv, NEW f \in Fields,
                      NEW i \in 1 .. Len(ledger.claims), NEW k \in 1 .. Len(ledger.claims),
                      ledger.claims[i].field = f, ledger.claims[i].source = "clear",
                      ledger.claims[i].disposition # "supporting",
                      ledger.res[f].claim = k, ledger.claims[k].source = "image"
               PROVE  ledger.claims[k].observed > ledger.claims[i].observed
    BY DEF NothingRefillsAClear
  <2>1. ClearsHeld(ledger, clock) /\ ledger \in Ledgers /\ Len(ledger.claims) \in Nat
    BY LedgerParts DEF LedgerIInv, LedgerInv
  <2>2. i \in Places(ledger) /\ k \in Places(ledger) /\ k # NoClaim
    BY <2>1 DEF Places, NoClaim
  <2>3. /\ ledger.claims[i].observed \in Nat /\ ledger.claims[k].observed \in Nat
        /\ ledger.res[f].barrier \in Nat
    BY <2>1, <2>2, LedgerParts DEF Claims, Resolutions, Rows
  <2>4. ledger.claims[i].observed # 0 /\ ledger.claims[i].observed <= ledger.res[f].barrier
    BY <2>1, <2>2 DEF ClearsHeld
  <2>5. ledger.res[f].barrier = 0 \/ ledger.claims[k].observed > ledger.res[f].barrier
    BY <2>1, <2>2 DEF ClearsHeld
  <2> QED
    BY <2>3, <2>4, <2>5
<1> QED
  BY <1>1, LedgerInvariant, PTL

\* What an agent is told of a bike hides no dispute about its rear speeds, and
\* names another candidate in every conflict.
THEOREM DisputesAreTold == Spec => []AgentIsToldOfDisputes
<1>1. LedgerIInv => AgentIsToldOfDisputes
  <2> SUFFICES ASSUME LedgerIInv PROVE AgentIsToldOfDisputes
    OBVIOUS
  <2> DEFINE told == DiagnosticProfile(ledger)
             v == ledger.proj["rear.speeds"]
  <2>1. /\ StatesAgree(ledger) /\ DisputesNamed(ledger) /\ RearSpeedsAgree(ledger)
        /\ ledger \in Ledgers /\ CountFields \subseteq Fields
    BY DEF LedgerIInv, LedgerInv, Fields
  <2>2. /\ told.values = ledger.proj
        /\ \A f \in Fields : told.states[f] = ledger.res[f].state
        /\ \A c \in told.conflicts :
             \E f \in Fields : ledger.res[f].state = "disputed" /\ c = Conflict(ledger, f)
    BY DEF DiagnosticProfile
  <2> HIDE DEF told
  <2>3. ASSUME v # NoValue
        PROVE  /\ \A f \in CountFields :
                    /\ told.states[f] # "disputed"
                    /\ ledger.res[f].value \in {NoValue, v}
               /\ \E f \in CountFields : ledger.res[f].value = v
    <3>1. /\ \A f \in CountFields : ledger.res[f].state # "disputed"
          /\ CountValues(ledger) = {v}
      BY <2>1, <2>3 DEF RearSpeedsAgree
    <3>2. \A f \in CountFields :
            /\ ledger.res[f].state \in {"none", "unknown", "cleared", "resolved"}
            /\ ledger.res[f].state # "resolved" => ledger.res[f].value = NoValue
            /\ ledger.res[f].state = "resolved" =>
                 ledger.res[f].value \in CountValues(ledger)
      <4>1. \A f \in CountFields : ledger.res[f].state \in RowStates
        BY <2>1, LedgerParts DEF Resolutions, Rows
      <4>2. \A f \in CountFields :
              /\ ledger.res[f].state # "resolved" => ledger.res[f].value = NoValue
              /\ ledger.res[f].state = "resolved" => ledger.res[f].value # NoValue
        BY <2>1, <3>1, <4>1 DEF StatesAgree, RowStates
      <4> QED
        BY <3>1, <4>1, <4>2 DEF CountValues, CountSources, ResolvedValue, RowStates
    <3>3. \E f \in CountFields : ledger.res[f].value = v
      BY <2>3, <3>1 DEF CountValues, CountSources, ResolvedValue
    <3> QED
      BY <2>1, <2>2, <3>1, <3>2, <3>3
  <2>4. ASSUME NEW c \in told.conflicts PROVE c.candidates \ {c.current} # {}
    <3>1. PICK f \in Fields : ledger.res[f].state = "disputed" /\ c = Conflict(ledger, f)
      BY <2>2
    <3>2. PICK i \in ledger.res[f].conflicting :
            ledger.claims[i].value # ledger.res[f].value
      BY <2>1, <3>1 DEF DisputesNamed
    <3>3. ledger.claims[i].value \in c.candidates /\ c.current = ledger.res[f].value
      BY <3>1 DEF Conflict
    <3> QED
      BY <3>2, <3>3
  <2> QED
    BY <2>2, <2>3, <2>4 DEF AgentIsToldOfDisputes, told
<1> QED
  BY <1>1, LedgerInvariant, PTL

\* Two readers of one revision have seen the same profile: a step that changes
\* a value, a state, a conflict, a barrier or the projection raises it.
THEOREM ReadersSeeChanges == Spec => RevisionCoversChange
<1>1. LedgerIInv /\ [Next]_profileVars =>
        [\/ ledger'.revision > ledger.revision
         \/ /\ ledger'.proj = ledger.proj
            /\ \A f \in Fields :
                 /\ ledger'.res[f].value = ledger.res[f].value
                 /\ ledger'.res[f].state = ledger.res[f].state
                 /\ ledger'.res[f].conflicting = ledger.res[f].conflicting
                 /\ ledger'.res[f].barrier = ledger.res[f].barrier]_profileVars
  BY LedgerSteps DEF LedgerMoves, LooksSame
<1> QED
  BY <1>1, LedgerInvariant, PTL DEF Spec, RevisionCoversChange
=============================================================================
