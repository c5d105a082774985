-------------------------- MODULE ProfileInference --------------------------
(***************************************************************************)
(* Photos of accepted turns become claims about the bike.  Each turn with  *)
(* photos has one inference run and one durable job; an attempt of the job *)
(* starts or resumes the run, calls the extractor outside any transaction, *)
(* then persists and resolves the findings under the lock of the profile.  *)
(* The rider edits the same profile meanwhile.  An attempt whose deadline  *)
(* passed may still be alive: it acts on until it meets the execution      *)
(* fence, which every transaction of it takes.                             *)
(***************************************************************************)
EXTENDS ProfileLedger

CONSTANTS
  Turns,          \* accepted turns that carry photos; also name their runs
  AttemptLimit,   \* attempts of a job, profile_inference_max_attempts
  ResolutionLimit,\* tries of one resolution within an attempt
  MaxClock,       \* bound on the rider's writes and turns together
  Vocabularies,   \* sets of fields; one is what rider and photos talk about
  Extractions,    \* sets of findings an extractor may return
  Edits           \* patches the rider may send

ASSUME ProfileAssumption ==
  /\ AttemptLimit \in Nat \ {0}
  /\ ResolutionLimit \in Nat \ {0}
  /\ \A v \in Vocabularies : v \subseteq Fields \ DerivedFields
  /\ \A o \in Extractions :
       /\ o # {} /\ IsFiniteSet(o)
       /\ \A fd \in o : fd.field \in Fields /\ fd.value \in ValuesOf(fd.field)
  /\ \A patch \in Edits :
       patch \in Seq(UNION {{f} \X (ValuesOf(f) \cup {NoValue}) : f \in Fields})

VARIABLES
  ledger,    \* the claims, resolutions and projection of the bike
  deleted,   \* "active", "checked" (delete_bike found no history) or "deleted"
  clock,     \* timestamps of turns and manual writes
  touched,   \* the vocabulary of this behaviour
  created,   \* when each turn was accepted, 0 before
  job,       \* absent, ready, running, succeeded or dead
  attempts,  \* starts of each job
  run,       \* status of the profile inference run, "none" without a row
  exec       \* what each attempt is about to do

jobVars == <<job, attempts>>
bikeVars == <<ledger, deleted>>
profileVars == <<ledger, deleted, clock, touched, created, job, attempts, run, exec>>

Attempts == 1 .. AttemptLimit

TerminalRuns == {"completed", "abstained", "terminal_failure", "exhausted"}

Idle == [step |-> "none", findings |-> {}, tries |-> 0, outcome |-> "none"]

Init ==
  /\ ledger = EmptyLedger
  /\ deleted = "active"
  /\ clock = 0
  /\ touched \in Vocabularies
  /\ created = [t \in Turns |-> 0]
  /\ job = [t \in Turns |-> "absent"]
  /\ attempts = [t \in Turns |-> 0]
  /\ run = [t \in Turns |-> "none"]
  /\ exec = [t \in Turns |-> [a \in Attempts |-> Idle]]

-----------------------------------------------------------------------------
(* The rider. *)

FieldsOf(patch) == {patch[i][1] : i \in 1 .. Len(patch)}

\* One PATCH: its manual claims are applied in order, or none of them.
UpdateBike ==
  /\ deleted # "deleted"
  /\ clock < MaxClock
  /\ \E patch \in Edits :
       /\ FieldsOf(patch) \subseteq touched
       /\ PatchFits(ledger, patch)
       /\ ledger' = ApplyPatch(ledger, patch, clock + 1)
  /\ clock' = clock + 1
  /\ UNCHANGED <<deleted, touched, created, jobVars, run, exec>>

\* delete_bike looks for repair history, then deletes; nothing holds the answer.
CheckHistory ==
  /\ deleted = "active"
  /\ \A t \in Turns : created[t] = 0
  /\ deleted' = "checked"
  /\ UNCHANGED <<ledger, clock, touched, created, jobVars, run, exec>>

SoftDelete ==
  /\ deleted = "checked"
  /\ deleted' = "deleted"
  /\ UNCHANGED <<ledger, clock, touched, created, jobVars, run, exec>>

\* create_session needs an active bike; a session outlives it.  The first
\* accepted turn stands for the session.
HasSession == deleted # "deleted" \/ \E t \in Turns : created[t] # 0

\* A turn with photos is accepted and its job recorded in the same transaction.
AcceptTurn(t) ==
  /\ created[t] = 0
  /\ clock < MaxClock
  /\ HasSession
  /\ clock' = clock + 1
  /\ created' = [created EXCEPT ![t] = clock + 1]
  /\ job' = [job EXCEPT ![t] = "ready"]
  /\ UNCHANGED <<bikeVars, touched, attempts, run, exec>>

-----------------------------------------------------------------------------
(* The job. *)

\* Faulty: the job's transition leaves the run as it is.
RunKept(t, state, error) == run[t]

\* Terminal and retrying transitions of the job carry an unfinished run along.
RunAfterTransition(t, state, error) ==
  IF run[t] \notin {"started", "retryable_failure"} THEN run[t]
  ELSE CASE state = "ready" -> "retryable_failure"
         [] state = "succeeded" -> "abstained"
         [] error = "attempts_exhausted" -> "exhausted"
         [] OTHER -> "terminal_failure"

Transition(t, state, error) ==
  /\ job' = [job EXCEPT ![t] = state]
  /\ run' = [run EXCEPT ![t] = RunAfterTransition(t, state, error)]

StartAttempt(t) ==
  /\ job[t] = "ready"
  /\ attempts[t] < AttemptLimit
  /\ job' = [job EXCEPT ![t] = "running"]
  /\ attempts' = [attempts EXCEPT ![t] = @ + 1]
  /\ exec' = [exec EXCEPT ![t][attempts[t] + 1] = [Idle EXCEPT !.step = "begin"]]
  /\ UNCHANGED <<bikeVars, clock, touched, created, run>>

\* The deadline passes, whether or not the attempt still lives.
Recover(t) ==
  /\ job[t] = "running"
  /\ IF attempts[t] >= AttemptLimit
       THEN Transition(t, "dead", "attempts_exhausted")
       ELSE Transition(t, "ready", "execution_lost")
  /\ UNCHANGED <<bikeVars, clock, touched, created, attempts, exec>>

-----------------------------------------------------------------------------
(* An attempt. *)

\* Faulty: an attempt is taken to be current while its job runs.
FencedByState(t, a) == job[t] = "running"

\* require_execution: only the job's current execution may write.
Fenced(t, a) == job[t] = "running" /\ attempts[t] = a

Goes(t, a, e) == exec' = [exec EXCEPT ![t][a] = e]

Gone(t, a) ==
  /\ Goes(t, a, [Idle EXCEPT !.step = "gone"])
  /\ UNCHANGED <<bikeVars, clock, touched, created, jobVars, run>>

At(t, a, step) == exec[t][a].step = step

\* The fence turned the attempt away: its error leaves the delivery unsettled.
Expelled(t, a) ==
  /\ exec[t][a].step \in {"begin", "extract", "resolve", "settle"}
  /\ ~Fenced(t, a)
  /\ Gone(t, a)

ToSettle(outcome) == [Idle EXCEPT !.step = "settle", !.outcome = outcome]

\* Persist the run's status and hand it to the handler.
Finish(t, a, status) ==
  /\ run' = [run EXCEPT ![t] = status]
  /\ Goes(t, a, ToSettle(status))

RetryableStatus(a) == IF a >= AttemptLimit THEN "exhausted" ELSE "retryable_failure"

\* Without an active bike the turn is skipped, before any fence is taken.
Skip(t, a) ==
  /\ At(t, a, "begin")
  /\ deleted = "deleted"
  /\ Goes(t, a, ToSettle("skipped"))
  /\ UNCHANGED <<bikeVars, clock, touched, created, jobVars, run>>

\* A finished run is reported again, any other one is started or resumed.
Begin(t, a) ==
  /\ At(t, a, "begin")
  /\ deleted # "deleted"
  /\ Fenced(t, a)
  /\ IF run[t] \in TerminalRuns
       THEN /\ Goes(t, a, ToSettle(run[t]))
            /\ UNCHANGED run
       ELSE /\ Goes(t, a, [Idle EXCEPT !.step = "extract"])
            /\ run' = [run EXCEPT ![t] = "started"]
  /\ UNCHANGED <<bikeVars, clock, touched, created, jobVars>>

\* The photos are looked at again: one that is not the session's, or no image,
\* ends the run; one that is not ready or cannot be read is a retryable failure.
PhotosFail(t, a) ==
  /\ At(t, a, "extract")
  /\ Fenced(t, a)
  /\ \E status \in {RetryableStatus(a), "terminal_failure"} : Finish(t, a, status)
  /\ UNCHANGED <<bikeVars, clock, touched, created, jobVars>>

\* Whatever the extractor raises, its timeout included.
ProviderFails(t, a) ==
  /\ At(t, a, "extract")
  /\ Fenced(t, a)
  /\ Finish(t, a, RetryableStatus(a))
  /\ UNCHANGED <<bikeVars, clock, touched, created, jobVars>>

\* The one JSON object the extractor's answer must be.
Outputs == {o \in Extractions : \A fd \in o : fd.field \in touched}

\* One claim per field, and no actuation that the claimed mechanism excludes.
ValidOutput(findings) ==
  LET value(f) == {fd.value : fd \in {x \in findings : x.field = f}}
  IN  /\ \A fd, gd \in findings : fd.field = gd.field => fd = gd
      /\ "coaster" \in value("rear.mechanism") => value("rear.actuation") \subseteq {"none"}
      /\ "none" \in value("rear.actuation") => value("rear.mechanism") \subseteq {"coaster"}

\* The run is read again after the call.  Output that breaks the schema ends
\* the run, output without claims abstains.
Extract(t, a) ==
  /\ At(t, a, "extract")
  /\ Fenced(t, a)
  /\ IF run[t] \in TerminalRuns
       THEN /\ Goes(t, a, ToSettle(run[t]))
            /\ UNCHANGED run
       ELSE \/ Finish(t, a, "abstained")
            \/ \E findings \in Outputs :
                 IF ValidOutput(findings)
                   THEN /\ Goes(t, a, [Idle EXCEPT !.step = "resolve",
                                                   !.findings = findings])
                        /\ UNCHANGED run
                   ELSE Finish(t, a, "terminal_failure")
  /\ UNCHANGED <<bikeVars, clock, touched, created, jobVars>>

\* Claims, resolution and the completed run are one transaction.
ResolveEvidence(t, a) ==
  /\ At(t, a, "resolve")
  /\ Fenced(t, a)
  /\ deleted # "deleted"
  /\ \E ordered \in InOrder(exec[t][a].findings) :
       /\ RunFits(ledger, t, ordered, created[t])
       /\ ledger' = ResolveRun(ledger, t, ordered, created[t])
  /\ Finish(t, a, "completed")
  /\ UNCHANGED <<deleted, clock, touched, created, jobVars>>

\* The transaction fails and is tried again; it need not be for a lasting reason.
ResolutionFails(t, a) ==
  LET e == exec[t][a]
  IN  /\ At(t, a, "resolve")
      /\ Fenced(t, a)
      /\ deleted # "deleted"
      /\ IF e.tries + 1 < ResolutionLimit
           THEN /\ Goes(t, a, [e EXCEPT !.tries = @ + 1])
                /\ UNCHANGED run
           ELSE Finish(t, a, RetryableStatus(a))
      /\ UNCHANGED <<bikeVars, clock, touched, created, jobVars>>

\* The bike is gone: the first try ends the run, a later one cannot even load
\* its context and fails with an error that leaves the delivery unsettled.
BikeUnavailable(t, a) ==
  /\ At(t, a, "resolve")
  /\ Fenced(t, a)
  /\ deleted = "deleted"
  /\ \/ /\ exec[t][a].tries = 0
        /\ Finish(t, a, "terminal_failure")
        /\ UNCHANGED <<bikeVars, clock, touched, created, jobVars>>
     \/ exec[t][a].tries > 0 /\ Gone(t, a)

\* The handler turns the run's outcome into the job's.
SettleJob(t, a) ==
  LET status == exec[t][a].outcome
  IN  /\ At(t, a, "settle")
      /\ Fenced(t, a)
      /\ CASE status \in {"completed", "abstained", "skipped"} -> Transition(t, "succeeded", "none")
           [] status = "exhausted" -> Transition(t, "dead", "attempts_exhausted")
           [] status = "terminal_failure" -> Transition(t, "dead", "permanent_failure")
           [] OTHER -> Transition(t, "ready", "provider_unavailable")
      /\ Goes(t, a, [Idle EXCEPT !.step = "gone"])
      /\ UNCHANGED <<bikeVars, clock, touched, created, attempts>>

Attempt(t, a) ==
  \/ Expelled(t, a) \/ Skip(t, a) \/ Begin(t, a) \/ PhotosFail(t, a)
  \/ ProviderFails(t, a)
  \/ Extract(t, a) \/ ResolveEvidence(t, a) \/ ResolutionFails(t, a)
  \/ BikeUnavailable(t, a) \/ SettleJob(t, a)

Next ==
  \/ UpdateBike \/ CheckHistory \/ SoftDelete
  \/ \E t \in Turns : \/ AcceptTurn(t) \/ StartAttempt(t) \/ Recover(t)
                      \/ \E a \in Attempts : Attempt(t, a)

Spec == Init /\ [][Next]_profileVars

-----------------------------------------------------------------------------

ImageClaims(t) ==
  {i \in 1 .. Len(ledger.claims) : ledger.claims[i].source = "image" /\ ledger.claims[i].run = t}

\* A run has claims exactly when it completed, and one per field at most: no
\* crash, retry, lost deadline or late attempt leaves partial or double evidence.
EvidenceIffCompleted ==
  \A t \in Turns :
    /\ run[t] = "completed" <=> ImageClaims(t) # {}
    /\ \A i, k \in ImageClaims(t) :
         ledger.claims[i].field = ledger.claims[k].field => i = k

\* When the job is over so is the run, and a job that succeeded left no failed run.
RunEndsWithJob ==
  \A t \in Turns :
    /\ job[t] \in {"succeeded", "dead"} => run[t] \in TerminalRuns \cup {"none"}
    /\ job[t] = "succeeded" /\ deleted # "deleted" =>
         run[t] \in {"completed", "abstained"}
    /\ job[t] = "absent" => run[t] = "none"

\* A field's current claim is the only applied one among its claims.
OneAppliedClaim ==
  \A f \in Fields :
    {i \in 1 .. Len(ledger.claims) :
       ledger.claims[i].field = f /\ ledger.claims[i].disposition = "applied"}
      = {ledger.res[f].claim} \ {NoClaim}

\* Evidence from before a manual clear that took effect never becomes current.
NothingRefillsAClear ==
  \A f \in Fields :
    \A i, k \in 1 .. Len(ledger.claims) :
      /\ ledger.claims[i].field = f /\ ledger.claims[i].source = "clear"
      /\ ledger.claims[i].disposition # "supporting"
      /\ ledger.res[f].claim = k /\ ledger.claims[k].source = "image"
      => ledger.claims[k].observed > ledger.claims[i].observed

\* bike-profile-inference.md, 12.5: "The same image, content hash, inference
\* run, or older evidence must never flip a field back after a later manual
\* edit or clear."
OlderEvidenceNeverWins ==
  \A f \in Fields :
    \A i \in 1 .. Len(ledger.claims) :
      /\ ledger.claims[i].field = f
      /\ ledger.claims[i].source \in {"manual", "clear"}
      /\ ledger.res[f].source = "image"
      /\ ledger.res[f].value # ledger.claims[i].value
      => ledger.res[f].observed > ledger.claims[i].observed

\* What the agent is told does not hide a dispute: a rear speed count is among
\* the values only if no component contradicts it, and then it is theirs, and
\* every conflict comes with a candidate other than the value that was kept.
AgentIsToldOfDisputes ==
  LET told == DiagnosticProfile(ledger)
  IN  /\ told.values["rear.speeds"] # NoValue =>
           /\ \A f \in CountFields :
                /\ told.states[f] # "disputed"
                /\ ledger.res[f].value \in {NoValue, told.values["rear.speeds"]}
           /\ \E f \in CountFields : ledger.res[f].value = told.values["rear.speeds"]
      /\ \A c \in told.conflicts : c.candidates \ {c.current} # {}

\* Whatever a reader could notice raises the revision.
RevisionCoversChange ==
  [][\/ ledger'.revision > ledger.revision
     \/ /\ ledger'.proj = ledger.proj
        /\ \A f \in Fields :
             /\ ledger'.res[f].value = ledger.res[f].value
             /\ ledger'.res[f].state = ledger.res[f].state
             /\ ledger'.res[f].conflicting = ledger.res[f].conflicting
             /\ ledger'.res[f].barrier = ledger.res[f].barrier]_profileVars

=============================================================================
