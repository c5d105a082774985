--------------------------- MODULE DiagnosticTurn ---------------------------
(***************************************************************************)
(* One repair session and the diagnostic turns its user submits: the       *)
(* session row, its event log, each turn's background job and the worker   *)
(* execution that runs the agent behind the fence.                         *)
(*                                                                         *)
(* Every transaction locks the session row (and, in a worker, the job row  *)
(* before it), so one transaction is one action.  An execution is many     *)
(* transactions; between two of them requests, heartbeats, other turns     *)
(* and recovery go on.  The queue that brings a job to a worker is         *)
(* JobQueue's; here a waiting job is simply claimed.                       *)
(***************************************************************************)
EXTENDS SafetyFlags, Sequences, FiniteSets

CONSTANTS
  Turns,         \* the client_turn_ids the user submits
  NoTurn,        \* NULL in an event's turn_id
  AttemptLimit,  \* attempt_limit of a turn's job
  MaxEvents,     \* bound: no optional event once the log is this long
  MaxFaults,     \* bound on crashes and on commits whose outcome is lost
  Concerns       \* bound: the safety flags an agent may propose

ASSUME TurnAssumption ==
  /\ NoTurn \notin Turns
  /\ AttemptLimit \in Nat \ {0}
  /\ MaxEvents \in Nat
  /\ MaxFaults \in Nat
  /\ Concerns \subseteq Flag

VARIABLES
  status,        \* repair_sessions.status
  flags,         \* active_safety_flags; safety_state is SafetyState(flags)
  inputRequest,  \* current_input_request, as its event's sequence; 0 for NULL
  log,           \* repair_session_events; its length is latest_event_sequence
  job,           \* state of each turn's diagnostic_turn row
  attempts,      \* its attempt_count
  reserved,      \* its effect_boundary_token, as an attempt; 0 for NULL
  overdue,       \* its execution_deadline has passed
  run,           \* the execution a worker makes of the turn
  faults         \* count: faults so far; unanswered: turns whose first completion
                 \* was committed and reported as failed

sessionRow == <<status, flags, inputRequest, log>>
jobRow == <<job, attempts, reserved, overdue>>
turnVars == <<sessionRow, jobRow, run, faults>>

Settled == {"succeeded", "interrupted", "dead"}
Accepting == {"created", "awaiting_user"}

\* step: where process_turn is.  view: the latest_event_sequence its ORM
\* session remembers, 0 when expired.  facts: what the runner's events told
\* the telemetry state, of "input", "report", "blocked", "fatal" and
\* "processing".  unnoted: committed by a tool, not yet such an event.
\* frozen: the terminal status finalize() fixed.  cause: what raised.
NoRun == [step |-> "none", view |-> 0, facts |-> {}, unnoted |-> {},
          frozen |-> "none", cause |-> "none"]

Init ==
  /\ status = "created"
  /\ flags = NoFlags
  /\ inputRequest = 0
  /\ log = <<>>
  /\ job = [t \in Turns |-> "absent"]
  /\ attempts = [t \in Turns |-> 0]
  /\ reserved = [t \in Turns |-> 0]
  /\ overdue = [t \in Turns |-> FALSE]
  /\ run = [t \in Turns |-> NoRun]
  /\ faults = [count |-> 0, unanswered |-> {}]

-----------------------------------------------------------------------------
(* Conditions and writes the transactions share. *)

Event(kind, t) == [kind |-> kind, turn |-> t]

\* A turn's events, each at its sequence.
EventsOf(t) == {<<i, log[i].kind>> : i \in {j \in DOMAIN log : log[j].turn = t}}
Completions(t) == {i \in DOMAIN log : log[i] = Event("completed", t)}
Completed(t) == Completions(t) # {}

Current(t) == job[t] = "running" /\ ~overdue[t]

\* Faulty: owning the boundary is enough, whatever became of the job.
FencedByBoundary(t) == reserved[t] = attempts[t] /\ reserved[t] # 0

\* DiagnosticExecutionFence._require
Fenced(t) == Current(t) /\ reserved[t] = attempts[t]

Working(t) == run[t].step = "streaming" /\ Fenced(t)
Room == Len(log) < MaxEvents

Fault(unanswered) ==
  /\ faults.count < MaxFaults
  /\ faults' = [count |-> faults.count + 1,
                unanswered |-> faults.unanswered \cup unanswered]

\* turn_telemetry_state._terminal_status over the outcome finalize() derives.
TerminalStatus(facts) ==
  CASE "blocked" \in facts -> "blocked_safety"
    [] "blocked" \notin facts /\ "report" \in facts -> "awaiting_decision"
    [] facts \cap {"blocked", "report", "input"} = {} /\ "fatal" \in facts ->
         "failed"
    [] OTHER -> "awaiting_user"

\* Faulty: the error follows the completion it explains.
CompletionBeforeError(t, s, processingError) ==
  /\ status' = s
  /\ log' = Append(log, Event("completed", t)) \o
            IF processingError THEN <<Event("processing_error", t)>> ELSE <<>>

\* append_diagnostic_completion
AppendCompletion(t, s, processingError) ==
  /\ status' = s
  /\ log' = log \o (IF processingError THEN <<Event("processing_error", t)>>
                    ELSE <<>>)
                \o <<Event("completed", t)>>

\* Faulty: a failed job's turn is closed a second time.
FinishClosingAgain(t, outcome) ==
  /\ job' = [job EXCEPT ![t] = outcome]
  /\ overdue' = [overdue EXCEPT ![t] = FALSE]
  /\ IF outcome \in {"interrupted", "dead"}
     THEN AppendCompletion(t, "awaiting_user", TRUE)
     ELSE UNCHANGED <<status, log>>
  /\ UNCHANGED <<flags, inputRequest, attempts, reserved>>

\* Faulty: only an interruption closes the turn.
FinishDeadSilently(t, outcome) ==
  /\ job' = [job EXCEPT ![t] = outcome]
  /\ overdue' = [overdue EXCEPT ![t] = FALSE]
  /\ IF outcome = "interrupted" /\ ~Completed(t)
     THEN AppendCompletion(t, "awaiting_user", TRUE)
     ELSE UNCHANGED <<status, log>>
  /\ UNCHANGED <<flags, inputRequest, attempts, reserved>>

\* Faulty: a failure after the boundary may be called "dead".
FinishIgnoringBoundary(t, outcome) ==
  /\ job' = [job EXCEPT ![t] =
               CASE outcome = "retrying" /\ attempts[t] < AttemptLimit ->
                      "waiting"
                 [] outcome # "succeeded" /\ Completed(t) -> "succeeded"
                 [] outcome \in {"retrying", "dead"} -> "dead"
                 [] OTHER -> outcome]
  /\ overdue' = [overdue EXCEPT ![t] = FALSE]
  /\ IF job'[t] \in {"interrupted", "dead"}
     THEN AppendCompletion(t, "awaiting_user", TRUE)
     ELSE UNCHANGED <<status, log>>
  /\ UNCHANGED <<flags, inputRequest, attempts, reserved>>

\* The job's transition with the product hook: a terminal failure closes the
\* turn, a turn that completed has succeeded, reserved effects are not "dead".
Finish(t, outcome) ==
  LET requested == IF outcome = "retrying" /\ attempts[t] >= AttemptLimit
                   THEN "dead" ELSE outcome
      failing == requested \in {"interrupted", "dead"}
  IN /\ job' = [job EXCEPT ![t] =
                  CASE requested = "retrying" -> "waiting"
                    [] failing /\ Completed(t) -> "succeeded"
                    [] failing /\ ~Completed(t) /\ reserved[t] # 0 ->
                         "interrupted"
                    [] OTHER -> requested]
     /\ overdue' = [overdue EXCEPT ![t] = FALSE]
     /\ IF failing /\ ~Completed(t)
        THEN AppendCompletion(t, "awaiting_user", TRUE)
        ELSE UNCHANGED <<status, log>>
     /\ UNCHANGED <<flags, inputRequest, attempts, reserved>>

-----------------------------------------------------------------------------
(* The API: accepting a turn, and the heartbeat of an open event stream. *)

\* Faulty: the request the turn answers stays pending.
AcceptKeepingRequest(t) ==
  /\ job[t] = "absent"
  /\ status \in Accepting
  /\ status' = "running"
  /\ log' = Append(log, Event("started", t))
  /\ job' = [job EXCEPT ![t] = "waiting"]
  /\ UNCHANGED <<flags, inputRequest, attempts, reserved, overdue, run,
                 faults>>

\* A repeated client_turn_id is answered from the stored turn and changes
\* nothing, so a turn is accepted once.
Accept(t) ==
  /\ job[t] = "absent"
  /\ status \in Accepting
  /\ status' = "running"
  /\ inputRequest' = 0
  /\ log' = Append(log, Event("started", t))
  /\ job' = [job EXCEPT ![t] = "waiting"]
  /\ UNCHANGED <<flags, attempts, reserved, overdue, run, faults>>

Heartbeat ==
  /\ Room
  /\ log' = Append(log, Event("heartbeat", NoTurn))
  /\ UNCHANGED <<status, flags, inputRequest, jobRow, run, faults>>

-----------------------------------------------------------------------------
(* A worker's execution up to the effect boundary. *)

\* An older attempt may still be preparing; it can no longer pass the fence
\* and is forgotten here.
Claim(t) ==
  /\ job[t] = "waiting"
  /\ attempts[t] < AttemptLimit
  /\ job' = [job EXCEPT ![t] = "running"]
  /\ attempts' = [attempts EXCEPT ![t] = @ + 1]
  /\ run' = [run EXCEPT ![t] = [NoRun EXCEPT !.step = "claimed"]]
  /\ UNCHANGED <<sessionRow, reserved, overdue, faults>>

\* The registry rejects the stored input before any attempt is made.
RejectDefinition(t) ==
  /\ job[t] = "waiting"
  /\ Finish(t, "dead")
  /\ UNCHANGED <<run, faults>>

\* The execution loads the session row, which its ORM session then keeps.
Prepare(t) ==
  /\ run[t].step = "claimed"
  /\ run' = [run EXCEPT ![t].step = "prepared", ![t].view = Len(log)]
  /\ UNCHANGED <<sessionRow, jobRow, faults>>

PrepareFails(t) ==
  /\ run[t].step = "claimed"
  /\ Current(t)
  /\ \E outcome \in {"retrying", "dead"} : Finish(t, outcome)
  /\ run' = [run EXCEPT ![t] = NoRun]
  /\ UNCHANGED faults

CrossBoundary(t) ==
  /\ run[t].step = "prepared"
  /\ Current(t)
  /\ reserved[t] = 0
  /\ reserved' = [reserved EXCEPT ![t] = attempts[t]]
  /\ run' = [run EXCEPT ![t].step = "streaming"]
  /\ UNCHANGED <<sessionRow, job, attempts, overdue, faults>>

-----------------------------------------------------------------------------
(* The agent at work. *)

\* What process_turn's exception handler still uses of an execution.
Raising(r, cause) ==
  [NoRun EXCEPT !.step = "raised", !.facts = r.facts, !.frozen = r.frozen,
                !.cause = cause]

\* append_for_session selects the row FOR UPDATE but does not refresh an
\* object its session holds, so it allocates from the remembered sequence.
\* The unique index refuses a sequence in use; the transaction rolls back,
\* the object expires and the error is raised in process_turn.
AppendForSession(t, kind, noted) ==
  LET latest == IF run[t].view = 0 THEN Len(log) ELSE run[t].view
  IN IF latest = Len(log)
     THEN /\ log' = Append(log, Event(kind, t))
          /\ run' = [run EXCEPT ![t].view = latest + 1,
                                ![t].facts = @ \cup noted]
     ELSE /\ run' = [run EXCEPT ![t] = Raising(@, "sequence")]
          /\ UNCHANGED log

\* Assistant text, artifact references and runner errors other than the
\* processing error.  Of the errors only one that cannot be retried is told
\* apart: it may decide the terminal status.
Stream(t) ==
  /\ Working(t)
  /\ Room
  /\ \/ AppendForSession(t, "assistant", {})
     \/ AppendForSession(t, "error", {"fatal"})
  /\ UNCHANGED <<status, flags, inputRequest, jobRow, faults>>

\* A processing error of the runner is only noted: it is appended together
\* with the completion.
NoteProcessingError(t) ==
  /\ Working(t)
  /\ run' = [run EXCEPT ![t].facts = @ \cup {"processing"}]
  /\ UNCHANGED <<sessionRow, jobRow, faults>>

\* What the telemetry state makes of new facts: the last answer of a tool that
\* names the active flags decides whether guidance is blocked.
Noted(facts, new) ==
  (IF new \cap {"blocked", "clear"} = {} THEN facts
   ELSE facts \ {"blocked", "clear"}) \cup new

\* The tools refresh the locked row (populate_existing).  Their events, but
\* for a report's, name no turn.
ToolCommitted(t, noted) ==
  run' = [run EXCEPT ![t].view = Len(log'),
                     ![t].unnoted = Noted(@, noted)]

RequestInput(t) ==
  /\ Working(t)
  /\ Room
  /\ log' = Append(log, Event("input_requested", NoTurn))
  /\ inputRequest' = Len(log')
  /\ status' = "awaiting_user"
  /\ ToolCommitted(t, {"input"})
  /\ UNCHANGED <<flags, jobRow, faults>>

\* The event of _apply_active_flags, in the transaction that merges the flags.
Announcement(turn) ==
  IF Escalates(flags, flags') THEN <<Event("safety_escalated", turn)>>
  ELSE <<>>

Guidance == IF BlocksGuidance(flags') THEN "blocked" ELSE "clear"

\* Bound: a further concern may be raised in a log that is full by one event.
RaiseFlag(t) ==
  /\ Working(t)
  /\ Room \/ (flags # NoFlags /\ Len(log) <= MaxEvents)
  /\ \E f \in Concerns : Acceptable(f) /\ flags' = Merged(flags, {f})
  /\ log' = log \o Announcement(NoTurn)
  /\ ToolCommitted(t, {Guidance})
  /\ UNCHANGED <<status, inputRequest, jobRow, faults>>

SaveReport(t) ==
  /\ Working(t)
  /\ Room
  /\ \E F \in SUBSET Concerns : Consistent(F) /\ flags' = Merged(flags, F)
  /\ log' = log \o Announcement(t) \o <<Event("report", t)>>
  /\ status' = IF SafetyState(flags') = "blocked" THEN "blocked_safety"
               ELSE "awaiting_decision"
  /\ ToolCommitted(t, {"report", Guidance})
  /\ UNCHANGED <<inputRequest, jobRow, faults>>

\* The tool's response reaches process_turn as a runner event.
NoteTool(t) ==
  /\ Working(t)
  /\ run[t].unnoted # {}
  /\ run' = [run EXCEPT ![t].facts = Noted(@, run[t].unnoted) \ {"clear"},
                        ![t].unnoted = {}]
  /\ UNCHANGED <<sessionRow, jobRow, faults>>

\* A tool's error reaches process_turn as an error that cannot be retried.
\* The rollback before it expired the session row, so the append finds a free
\* sequence.
ToolError(t, unnoted) ==
  /\ log' = Append(log, Event("error", t))
  /\ run' = [run EXCEPT ![t].view = Len(log'), ![t].unnoted = unnoted,
                        ![t].facts = @ \cup {"fatal"}]

\* The service refuses the call under the row lock: artifacts that are not
\* ready, a phase that is over, a flag against the policy.
RefuseTool(t) ==
  /\ Working(t)
  /\ Room
  /\ ToolError(t, run[t].unnoted)
  /\ UNCHANGED <<status, flags, inputRequest, jobRow, faults>>

\* The tool's commit took effect but reported an error: the agent and
\* process_turn are told of a tool error.
LoseToolAnswer(t) ==
  /\ Working(t)
  /\ run[t].unnoted # {}
  /\ Fault({})
  /\ ToolError(t, {})
  /\ UNCHANGED <<status, flags, inputRequest, jobRow>>

Raise(t) ==
  /\ Working(t)
  /\ run' = [run EXCEPT ![t] = Raising(@, "runner")]
  /\ UNCHANGED <<sessionRow, jobRow, faults>>

-----------------------------------------------------------------------------
(* The end of an execution.  process_turn finalizes when the stream ends,   *)
(* and once more from its exception handler; what that raises leaves it.    *)

Ending(t) ==
  /\ \/ run[t].step = "streaming" /\ run[t].unnoted = {}
     \/ run[t].step = "raised"
  /\ Fenced(t)

\* finalize() freezes its result: a second call returns the first status.
Frozen(t) ==
  IF run[t].frozen = "none" THEN TerminalStatus(run[t].facts)
  ELSE run[t].frozen

ProcessingError(t) ==
  run[t].step = "raised" \/ "processing" \in run[t].facts

FinalizeTurn(t) ==
  /\ Ending(t)
  /\ AppendCompletion(t, Frozen(t), ProcessingError(t))
  /\ run' = [run EXCEPT ![t] = [NoRun EXCEPT !.step = "returned"]]
  /\ UNCHANGED <<flags, inputRequest, jobRow, faults>>

\* Finalizing raises: its commit took effect, or it did not.
FinalizeRaises(t) ==
  /\ Ending(t)
  /\ run' = [run EXCEPT ![t] =
       IF @.step = "streaming"
       THEN Raising([@ EXCEPT !.frozen = Frozen(t)], "commit")
       ELSE [NoRun EXCEPT !.step = "failed"]]
  /\ \/ /\ AppendCompletion(t, Frozen(t), ProcessingError(t))
        /\ Fault(IF run[t].step = "streaming" THEN {t} ELSE {})
     \/ /\ UNCHANGED <<status, log>>
        /\ Fault({})
  /\ UNCHANGED <<flags, inputRequest, jobRow>>

\* DiagnosticTurnHandler's outcome, persisted under the execution's token.
Report(t) ==
  /\ run[t].step \in {"returned", "failed"}
  /\ Current(t)
  /\ Finish(t, IF run[t].step = "returned" THEN "succeeded" ELSE "dead")
  /\ run' = [run EXCEPT ![t] = NoRun]
  /\ UNCHANGED faults

\* The next statement of a lost execution raises StaleDiagnosticExecutionError
\* and nothing of it is written.
FencedOut(t) ==
  /\ run[t].step # "none"
  /\ ~Current(t)
  /\ run' = [run EXCEPT ![t] = NoRun]
  /\ UNCHANGED <<sessionRow, jobRow, faults>>

\* The process dies, or the handler timeout cancels the execution.
Crash(t) ==
  /\ run[t].step # "none"
  /\ Fault({})
  /\ run' = [run EXCEPT ![t] = NoRun]
  /\ UNCHANGED <<sessionRow, jobRow>>

DeadlinePasses(t) ==
  /\ Current(t)
  /\ overdue' = [overdue EXCEPT ![t] = TRUE]
  /\ UNCHANGED <<sessionRow, job, attempts, reserved, run, faults>>

\* Faulty: recovery does not ask whether effects were reserved.
RecoverReplaying(t) ==
  /\ job[t] = "running" /\ overdue[t]
  /\ Finish(t, "retrying")
  /\ UNCHANGED <<run, faults>>

\* Reconciliation under DiagnosticRecoveryPolicy.
Recover(t) ==
  /\ job[t] = "running" /\ overdue[t]
  /\ Finish(t, IF reserved[t] # 0 THEN "interrupted" ELSE "retrying")
  /\ UNCHANGED <<run, faults>>

-----------------------------------------------------------------------------
Preparation(t) ==
  \/ Claim(t) \/ RejectDefinition(t) \/ Prepare(t) \/ PrepareFails(t)
  \/ CrossBoundary(t)

AgentStep(t) ==
  \/ Stream(t) \/ NoteProcessingError(t) \/ Raise(t)
  \/ RequestInput(t) \/ RaiseFlag(t) \/ SaveReport(t)
  \/ NoteTool(t) \/ RefuseTool(t) \/ LoseToolAnswer(t)

Closing(t) ==
  \/ FinalizeTurn(t) \/ FinalizeRaises(t) \/ Report(t)
  \/ FencedOut(t) \/ Crash(t) \/ DeadlinePasses(t) \/ Recover(t)

TurnNext ==
  \/ Heartbeat
  \/ \E t \in Turns :
       Accept(t) \/ Preparation(t) \/ AgentStep(t) \/ Closing(t)

TurnSpec == Init /\ [][TurnNext]_turnVars

\* A recorded job is claimed again and again (JobQueue), time passes and
\* reconciliation runs.  Nothing is assumed of the executions themselves.
FairTurnSpec ==
  /\ TurnSpec
  /\ \A t \in Turns :
       /\ WF_turnVars(Claim(t))
       /\ WF_turnVars(DeadlinePasses(t))
       /\ WF_turnVars(Recover(t))

-----------------------------------------------------------------------------
(* Properties. *)

\* A session is never stuck in "running": as long as it says so, some turn is
\* not completed and its job, still unsettled, will see to it.  Statuses are
\* overwritten by every turn and by recovery, in any order.
NeverStuckRunning ==
  status = "running" =>
    \E t \in Turns : job[t] \in {"waiting", "running"} /\ ~Completed(t)

\* Safety knowledge only grows: no flag's severity falls, so that the session's
\* safety state never relaxes (DiagnosticTurnProofs!StateNeverRelaxes), whatever
\* turns, reports and recoveries do; and a rise is announced in the transaction
\* that makes it, so that no client shows a lesser concern than the one stored.
SafetyOnlyRises ==
  [][\A c \in Codes :
       /\ Rank[flags'[c].severity] >= Rank[flags[c].severity]
       /\ Rank[flags'[c].severity] > Rank[flags[c].severity] =>
            \E i \in (Len(log) + 1)..Len(log') :
              log'[i].kind = "safety_escalated"]_turnVars

\* Once its job is settled a turn's events are final: a lost execution that is
\* still running cannot add to what recovery told the user.
NothingAfterSettlement ==
  [][\A t \in Turns : job[t] \in Settled => EventsOf(t)' = EventsOf(t)]_turnVars

\* The processing error is never seen without the completion that follows it,
\* so that a client which stops at the error is not left waiting.
ErrorPairedWithCompletion ==
  \A i \in DOMAIN log :
    log[i].kind = "processing_error" =>
      /\ i < Len(log)
      /\ log[i + 1] = Event("completed", log[i].turn)

\* The pending input request is the last thing asked, and no turn has been
\* accepted since: what the user answers is what the agent wants to know.
PendingRequestIsLatest ==
  inputRequest # 0 =>
    /\ log[inputRequest].kind = "input_requested"
    /\ \A i \in (inputRequest + 1)..Len(log) :
         log[i].kind \notin {"started", "input_requested"}

\* A turn whose job is "dead" left nothing but its beginning and its error, so
\* that the user can safely submit it again.
DeadTurnHadNoEffects ==
  \A t \in Turns :
    job[t] = "dead" =>
      \E i, j \in DOMAIN log :
        /\ i < j
        /\ EventsOf(t) = {<<i, "started">>, <<j, "processing_error">>,
                          <<j + 1, "completed">>}

\* A turn completes once, whatever crashes, retries, recovery and stale
\* executions do.  Only a turn whose own completion was committed and reported as
\* failed may complete a second time: its exception handler finalizes again.
OneCompletionUnlessCommitLost ==
  \A t \in Turns :
    Cardinality(Completions(t)) <= IF t \in faults.unanswered THEN 2 ELSE 1

\* CAPACITY.md:152: every turn must have exactly one completion.
CompletedExactlyOnce == \A t \in Turns : Cardinality(Completions(t)) <= 1

Phase(state) ==
  CASE state = "absent" -> "unknown"
    [] state = "waiting" -> "accepted"
    [] state = "running" -> "executing"
    [] state \in Settled -> "settled"

phaseOf == [t \in Turns |-> Phase(job[t])]

\* A turn's job keeps the promises of a durable job.
Durable == INSTANCE DurableJob
  WITH Jobs <- Turns, phase <- phaseOf, starts <- attempts

JobIsDurable == Durable!Spec

\* Every accepted turn is completed in the end, even if each of its executions
\* is lost, and so the session leaves "running".
EveryTurnCompletes ==
  \A t \in Turns : (job[t] # "absent") ~> Completed(t)

\* api-events-diagnostic.md:63: the row lock serializes appends, so none is
\* ever allocated a sequence that is taken.
AppendsSerialized == \A t \in Turns : run[t].cause # "sequence"
=============================================================================
