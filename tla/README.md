# Bike-doc: a TLA+ model of the repair assistant's core

Bike-doc is a backend (FastAPI, PostgreSQL, NATS JetStream, an LLM agent run by
Google ADK) and an Android client. A rider submits *turns* to a *repair session*;
each accepted turn becomes a durable *background job*; a worker claims it, runs
a diagnostic agent whose tools write to the session, and closes the turn with a
`turn.completed` event that the client reads from an event stream. Profile
inference is a second kind of job on the same queue.

All paths below are under `src/apps/api/src/bike_doc_api/` unless they start
with `src/`, `docs/` or `deploy/`.

## Inventory

| Part | State | Operations | What is hard |
|---|---|---|---|
| Durable job table: `repositories/background_jobs.py`, `diagnostic_jobs.py`, `diagnostic_execution.py`, `diagnostic_terminalization.py` | one `background_jobs` row per job: state, attempts, execution token and deadline, effect boundary, desired and confirmed generation, publication claim | `record`, `claim/confirm/fail_publication`, `resolve_delivery`, `cross_boundary`, `apply_outcome`, `recover_expired`, `advance_publication`, `delete_retained` | late callers with old tokens, claims or generations; effects that must not be replayed; the product hook that closes the turn |
| Maintenance: `maintenance/runtime.py`, `nats_publisher.py` | claims held in memory between two transactions | `publish_once`, `reconcile_once`, `cleanup_once` | crash between publish and confirm, lost acknowledgements, lapsed claims |
| Reconstruction: `maintenance/reconstruction.py` | a page cursor | walk the table after the broker lost its stream | overlaps publication in flight |
| Workers: `workers/runtime.py`, `adapters.py`, `registry.py` | deliveries in progress, active and orphaned handlers | pull, resolve, execute, settle, close | redelivery, timeout racing the outcome, crash, capacity |
| Work broker: `core/nats.py` | stored wake-ups, duplicate window | publish, deliver, acknowledge | at least once, loss by age or delivery limit |
| Diagnostic execution: `workers/diagnostic*.py` | an ORM session with its fence | prepare, cross the boundary, run, report | everything may be lost at every statement |
| Turns: `services/turns.py` | session status, pending input request | `accept_turn`, `request_diagnostic_input` | double submission; a turn accepted while an agent still runs |
| Orchestration: `adk/orchestration.py`, `adk/turn_telemetry_state.py`, `adk/runner.py` | facts about the turn, frozen terminal status | `process_turn`, `_finalize_turn` | an exception in any place, after a commit too |
| Safety: `services/safety.py` | active flags, safety state | `raise_safety_flag`, the flags of a report | severities by the order in which they come; announcement and state must agree |
| Reports: `services/reports.py`, `repositories/reports.py`, `schemas/report.py`, `services/diagnostic_evidence_invalidation.py` | one `phase_reports` row per saved report, with the artifacts it cites | `save_diagnostic_report`, `get_report`, `list_reports`, invalidation of an artifact | a payload is validated, normalized, completed, priced, stored and validated again when read; an artifact is lost in between |
| Cost estimates: `services/cost_estimates.py`, `providers/price/gemini.py` | none; computed in a save and again in a GET | search per item, result per item, totals | a search that fails or is vague between others that succeed |
| Event log and stream: `repositories/events.py`, `services/events.py`, `core/event_wakeups.py`, `core/event_notifications.py` | events with session-wide sequences; per-reader hints | `append_event`, `stream_sse_frames` | sequence allocation across processes; replay, subscribe and poll |
| Profile inference: `services/profile_inference*.py`, `services/profile_resolution.py`, `repositories/profile_jobs.py` | runs and their jobs | start or resume, extract, persist claims, resolve, close | an attempt that outlived its deadline beside its successor |
| Bikes and the claim ledger: `services/bikes.py`, `services/profile_registry.py` | claims with dispositions, one resolution per field, projection, revision | edit, clear, delete; what the agent is told | evidence that arrives after an edit or clear it is older than |
| Visual context: `services/diagnostic_visual_context.py`, `repositories/observation_extraction.py` | extraction runs and their attempts | prepare, reserve, call, complete, fail, recover, redact | an external call reserved before it is made; row objects read before a lock |
| Agent's text: `adk/runner.py` | text buffer and parts of a message | flush a delta, complete the message | final responses that repeat what was streamed |
| ADK sessions: `adk/sessions.py` | `adk_session_id` of a phase | bind if null | two first attempts |
| Repair sessions, artifacts, configuration, security | rows and external stores | request-scoped reads and writes | little interleaving |
| Android client: `src/apps/android` | screen state, photos, cursors, a bounded channel | load, replay, stream, submit, retry, upload, leave | answers and events that overtake each other; events without room |

They interact through the database and through hints. The API records a job in
the transaction that accepts the turn. The maintenance loops, which live in the
API process, publish a wake-up for the row's *desired generation*; the broker
delivers it to a worker; the worker asks the row what the delivery means. The
row is the only authority: no wake-up carries work, and each of them may be
lost, late or doubled. A diagnostic execution *crosses the effect boundary*
before it runs the agent; every later statement of its ORM session locks the
job row first and checks that the execution still owns the boundary. Whoever
settles a failed diagnostic job - worker, recovery, or delivery resolution -
closes the turn in the same transaction.

What makes each part correct:

* job table - no CHECK constraint or trigger ever refuses a transaction, effects
  are reserved once and never replayed, outcome and turn agree;
* queue - no job loses its last wake-up, none is settled with an open turn,
  every job ends and its row goes away;
* turn - one completion (two where a commit that took effect was reported as
  failed), nothing after the job is settled, an error only together with its
  completion, a session that never stays `running`;
* stream - every committed event once, in order, without relying on
  hints;
* safety flags - severities only rise within a session, and a rise is announced;
* profile inference - a run's evidence is stored once and whole, its end agrees
  with its job's, one claim stands for a field, a clear holds against what was
  seen before it, and no change a reader could notice goes without a revision;
* chat - one turn per `clientTurnId`, an answer that goes to the question the
  rider saw, a message shown as sent that is stored, a transcript that misses
  only what the channel refused or a write of an older copy erased;
* visual context and text - an extractor that is called once at a time and never
  again after an ambiguous end, redacted evidence that no other turn is given, a message
  that is all the agent said;
* reports and costs - what was saved can be read until an artifact it cites is
  lost, and no total passes for a complete one while a price is missing.

## Modules

| Module | Models | State and actions |
|---|---|---|
| `DurableJob` | what a job promises its producer | phase, starts, reservation: accepted once, started at most `AttemptLimit` times, never after a reservation, settled once, forgotten |
| `BackgroundJobs` | the job row and every transaction on it | one variable per column the code decides on; one action per repository method, for callers with arbitrary claims, tokens and outcomes; refines `DurableJob` |
| `BackgroundJobsProofs` | proofs about `BackgroundJobs` for any constants | |
| `JobQueue` | table, publishers, broker, workers and maintenance together | `pub` and `worker` hold what a task remembers between two transactions; each step on the table is an action of `BackgroundJobs` |
| `JobQueueProofs` | proofs about `JobQueue` for any constants, on top of the table's | |
| `SafetyFlags` | validation, contradiction, merging and announcement of flags, the derived state | operators; no state of its own |
| `DiagnosticTurn` | a session, its event log and its turns' executions | session row, log, job row in brief, and per turn the execution with what its ORM session and telemetry remember; each turn's job refines `DurableJob` |
| `DiagnosticTurnProofs` | proofs about `SafetyFlags` and `DiagnosticTurn` for any constants | |
| `EventDelivery` | what a session's event stream promises a client | published log, first cursor, sequences handed over: each committed event after the cursor, once, in order |
| `EventStream` | writers, hints, the stream in the server and its reconnecting client | the committed rows and each process's open transaction; hints from the commit hook over the broker to a reader's queue of one; the stream's reads, waits, polls, heartbeats and deadline; refines `EventDelivery` |
| `EventStreamProofs` | proofs about `EventStream` for any constants | |
| `ProfileLedger` | the claims, resolutions and projection of one bike, with policies, clears, supersession, disputes and the derived fields | a record and operators from ledger to ledger: each is one transaction under the profile's lock |
| `ProfileInference` | turns with photos, their runs and jobs, each attempt, and the rider beside them | `ledger`, `run`, `job`, and per attempt what it is about to do; one action per transaction or external answer |
| `ProfileInferenceProofs` | proofs about runs, jobs, attempts and the ledger for any constants | |
| `ChatSession` | the chat screen, its requests, uploads and stream, and the API that accepts turns | the session row, log, accepted turns and artifacts of the server; `ui` with the copy of it a handler may hold (`held`) and what was lost (`missed`), `uploads`, `posts`, `stream` of the client; a handler is an action that may begin with an older copy |
| `ChatSessionProofs` | proofs about `ChatSession` for any constants | |
| `VisualContext` | preparation of a turn's photos, extraction runs, explicit recovery, redaction | `row` per turn, `prep` per caller with the row object it remembers |
| `RunnerText` | partial texts, deltas and the completed message | the coalescer's buffer and parts |
| `DiagnosticAgent` | a turn from its photos to the end of its agent's text | `VisualContext` and `RunnerText` together |
| `DiagnosticAgentProofs` | proofs about both parts for any constants | |
| `CostEstimates` | the result of an item from an answer of the search, totals from the results | operators; no state of its own |
| `DiagnosticReports` | the reports of a session: save, GET, listing, invalidation | `reports`, the save and the GET that wait for prices, a client that pages |
| `DiagnosticReportsProofs` | proofs about `DiagnosticReports` and totals for any constants | |
| `MC*` | instances for TLC | bounds, symmetry, vocabularies of inputs |

`JobQueue` extends `BackgroundJobs`. `DiagnosticTurn` is its counterpart on the
product side: there a waiting job is simply claimed, and how it comes to a
worker is `JobQueue`'s matter; both carry the same boundary and hook.
`EventStream` takes the writers of the log as given: any process may append any
number of events in a transaction that locks the session row. Where
`DiagnosticTurn` finds that an allocation can collide, the unique index refuses
it, and for the stream that is one more rollback.

`DiagnosticTurn` and `DiagnosticReports` both extend `SafetyFlags`: the first has what
a flag does to the session and its log, the second whether the flags of a report
are accepted at all. `DiagnosticReports` extends `CostEstimates` for the search
a save and a GET make. `ProfileInference` extends `ProfileLedger`, on which
runs and riders meet. `DiagnosticAgent` extends `VisualContext` and `RunnerText`;
what the agent's tools write is `DiagnosticTurn`'s. `ChatSession` has both sides
of a submission, and of a worker only the events its screen can tell apart.

How the data is abstracted:

* A timestamp is compared with the clock and with nothing else, so it is one
  bit (`eligible`, `overdue`, `publicationDue`, `claimLapsed`, `quiet`), and time
  is the actions that flip such a bit. `quiet` is `updated_at` against the
  no-progress horizon or, for a settled row, the retention horizon.
* An execution token is the number of its attempt, a claim token the publisher
  that drew it. A publisher therefore confirms with a claim of its own that
  lapsed and was taken over, but two claims of one publisher for the same
  generation are not told apart; they publish the same message.
* A transaction that locks a row before it reads is one action. Batches
  (`claim_publications`, `reconcile_once`, `cleanup_once`) are one action per
  row. What can couple the rows of a batch is a row whose update is refused,
  and `RowConstraints` and `TriggerAccepts` say there is none.
* Events keep their kind and turn; the latest sequence is the length of the log.
* In `EventStream` an event is its sequence, and the database snapshot of a query
  is the committed rows at that moment (READ COMMITTED, PostgreSQL's default). A
  process's tasks share its open transaction: two transactions of one process
  exclude each other by the row lock as those of two processes do. Hints of one
  session are alike, so a queue, a task set or the broker holds at most one of
  them per place and `again` says that another is still under way. The stream's
  clock is three bits: poll, heartbeat and deadline have come due.
* The client of `EventStream` is the event loop of the Android chat view model: it
  resumes after the last event it handled and connects again only when it has
  handled what it received. The bounded channel between OkHttp and that loop, on
  which `trySend` can drop an event, is in `ChatSession`.
* In `ProfileLedger` ten fields and their values stand for the classes of the
  registry: those that interact (mechanism, actuation, rotor, diameter), two
  counts and the two derived summaries. A field that interacts with no other
  behaves as a count does. Timestamps are a clock of the rider's writes and
  accepted turns.
* The handlers of the chat screen run on the main thread and on `Dispatchers.IO`
  (`di/CoreModule.kt:36`), and each does `_uiState.value = _uiState.value.copy(...)`
  without synchronisation. `ReadScreen` takes the copy of one handler early; its
  write then undoes what others wrote in between. One handler at a time holds such
  a copy. A handler that reads the state twice in one expression
  (`DiagnosticChatViewModel.kt:554-562, 624-632`) reads it once here.
* In `ChatSession` an assistant message is the sequence of its event, a rider's
  message its place, a photo its number; the photos of a request are a set, whose order
  decides nothing. In `RunnerText` a piece of text is its
  place in what the model says, and when a buffer is long or old enough is open.
* In `VisualContext` a photo loads or does not; what was seen on it is whether it
  may be used. In `DiagnosticReports` a report is what its checks look at:
  findings with their source, relevance and photos, references, flags, and how
  many parts and tools it names. `created_at` follows the order of the saves.
* In `CostEstimates` amounts are cents and NULL is the empty set.
* The agent is any sequence of the effects its tools and the runner can have.
* Rows that are read only, telemetry, spans and payloads are left out.
  `DEFINITION_FAILURE` is a choice of the environment; `EXHAUSTED` needs a
  waiting row without an attempt left, which `BackgroundJobs` allows its callers
  to ask for and which never arises in `JobQueue`.

## Runs

| Run | Instance | Shows |
|---|---|---|
| `queue` | 1 diagnostic job, 2 publishers, 2 delivery tasks, 2 attempts, 1 fault | no constraint or trigger refuses a transaction, the row refines `DurableJob`, outcome and completion agree; no job loses its last wake-up, runs its effects twice or is settled with an open turn; every job is settled and forgotten |
| `turn` | 2 turns, 2 attempts, 1 fault, 1 safety code, optional events up to a log of 2 | the log agrees with the jobs, overlapping or not; flags only rise; each job refines `DurableJob`; every accepted turn completes |
| `stream` | 1 client, 1 API process, 1 worker process, batches of 2, 2 events and the heartbeats due, 1 fault | no hint is missed silently, refinement of `EventDelivery`, every event is delivered |
| `profile` | 1 turn with photos, 2 attempts, 2 tries of a resolution, 3 instants, 3 vocabularies | evidence stored once, run and job agree, one applied claim, clears hold, disputes are told, revisions cover changes |
| `chat` | a channel of 2, 1 photo, optional events up to a log of 2, effort 3 | no doubled turn, answers reach their question, messages shown as sent are stored, the transcript misses only what was refused or erased |
| `agent` | 2 turns, 1 photo, 4 modes, 2 explicit recoveries, 2 pieces of text | one call at a time, each recorded, none repeated after an ambiguous end, redacted evidence kept from other turns, complete messages |
| `reports` | 3 artifacts of which 2 photos, 1 safety code, 2 reports, pages of 1, 3 answers of a search and its failures | saved reports read back, invalidation hides them, missing prices show |
| `older_evidence`, `stuck_in_flight`, `report_paging`, `stale_sequence`, `double_completion` | small instances | the five findings below |

Why the bounds suffice.

* *Jobs.* Rows share no state, so one job shows every behaviour of a job;
  interference comes from several tasks on one row, and there are two of each. Two
  attempts give a first or retried and a last one. The fault budget bounds the
  generations. The table is checked under the callers the queue gives it; that
  callers with any token, claim and outcome do no harm either is proved
  (`BackgroundJobsProofs`). `MaxFaults` is a budget for crashes, losses, timeouts,
  reconstructions and clocks that outrun healthy work.
* *Turns.* `faults` counts the faults and remembers the turns whose completion was
  committed and reported as failed; only those may have a second one. `MaxEvents` stops optional events only; started, error and completion
  events are always possible. Two turns are enough because only the latest
  accepted turn can set a status that matters to the next; the proofs lift the
  main properties to any number of turns, attempts and faults.
* *Stream.* Clients do not influence one another except through heartbeats, which
  `Commit` with `quiet` stands for. Two events and a heartbeat make a full page
  followed by another query, a partial page and an event committed between two
  reads, with a writer on either side of the broker.
* *Profile.* Two attempts of one turn are the overlap the fence is for, and three
  instants put the turn between two of the rider's writes. A behaviour draws one
  vocabulary: a brake and its rotor, two counts and the sum they must agree on, or
  the four facts of the legacy brake type. Fields of different vocabularies share
  only the revision. Two tries are a failed and a second resolution.
* *Chat.* Effort is a budget for requests, photos picked and faults; three allow a
  submission, a lost answer and its retry, or two submissions with a broken
  stream between them. A copy of the screen taken early counts as two, so it
  comes with one of the others. A channel of two overflows while the screen
  is busy. The screen opens with a first message to send.
* *Agent.* A second turn is what reads the first one's observations; two recoveries
  race each other and the turn. An agent's text is followed only where no recovery
  runs beside it (`Alone`): the two read and write nothing in common.
* *Reports.* Proposals are well-formed or malformed in any combination of places. A second report is
  what a page of one leaves over.

Deadlock is not checked in any run: a session whose turns are done, a deleted row,
a deleted bike and a screen nobody touches rest for ever.

**Fairness.** `JobQueue` assumes weak fairness of each publisher (its loop polls
again after every failure, `maintenance/runtime.py:322-332`), each delivery task
(`workers/runtime.py:150-203`), recovery, notification repair and cleanup
(`maintenance/runtime.py:334-384`) and the clock. No fault is forced and the
producer is not obliged to accept. `DiagnosticTurn` assumes only that waiting
jobs are claimed - which `JobQueue` shows - that deadlines pass and that recovery
runs; an execution may stop anywhere. `EventStream` assumes that open transactions
end, that the client connects and reads again, and that the stream's loop and its
clock go on; strong fairness of the heartbeat's append stands for PostgreSQL
queueing those who wait for a row lock. No hint is ever obliged to arrive, so what
is delivered in the end is delivered by the poll. Two assumptions come from the
configuration: the no-progress horizon exceeds the publication timings, so a
horizon that passes while a publication is under way counts as a fault, and the
retention horizon exceeds the broker's age limit (`core/config.py:338-371`), so a
settled row reaches it only when no wake-up of it is left. The other
specifications state no fairness and only safety is checked of them: a rider, a
provider and a screen owe nobody a next step.

## Proofs

`BackgroundJobsProofs` proves, for any jobs, publishers and attempt limit:

* `TypeCorrect` - `TypeOK`;
* `Consistency` - the inductive invariant `IInv`;
* `EffectsSafe`, `ConstraintsHold`, `OutcomesAgree` - the invariants
  `EffectsNeverReplayed`, `RowConstraints` and `OutcomeMatchesCompletion`;
* `TriggersHold` - the action property `TriggerAccepts`;
* `Implements` - the refinement of `DurableJob`.

The only assumptions are `ConstantsAssumption`: diagnostic jobs are jobs, NULL is
no publisher and an attempt limit is positive.

None of the invariants is inductive alone. That a reserved job is never executed
again rests on its boundary belonging to the present owner and on no waiting row
having one; that a failed job's turn is closed rests on the fact that no
unsettled row was closed by a repair. `IInv` is the type invariant and, for each
row, four parts: `Owned` (running exactly while an execution owns the row, the
owner is the latest attempt, only an owned row has a deadline), `Reserved` (a
boundary belongs to the owner or to a settled row that is not dead), `Closed`
(who completes turns) and `Published` (order of generations and claims).
`OthersKept` shows that a step touches one row, `RowConsistent` that it keeps that
row consistent; every transaction that ends an execution goes through
`FinishConsistent` and, for the refinement, `FinishRefines`, because they all share
`_finish` and the hook.

`JobQueueProofs` stands on them and proves, for any jobs, publishers, workers and
number of faults:

* `HintsJustified` - the inductive invariant `QueueIInv`;
* `QueueImplementsTable` - each step of the queue is a step of the table's `Spec` or
  leaves the table alone, so everything above holds of the queue, and
  `QueueImplementsJobs` that the queue refines `DurableJob`;
* `NeverStranded`, `ReservedExecutionAlone`, `SettledTurnsCompleted` -
  `NoStrandedJob`, `ReservedAlone` and `SettledMeansCompleted` of the `queue` run.

`Spec` takes any claim, token and generation within bounds, so `QueueImplementsTable`
has to show that what tasks remember stays within them. `QueueIInv` says, of
everything in flight, why the row justifies it: `Publishes` and `Delivers` (a hint
names a generation its row has reached; it is settled only when the row is over
or has left that generation behind; an execution is one of the attempts the row
counted), `Apart` (no two executions are the same attempt), `Latest` (the boundary
names the last attempt), `Confirms` (what the row calls published was accepted),
`Kept` (the broker keeps or lost an accepted wake-up the row still wants) and
`Succeeds`. `NoStrandedJob` needs `Confirms` and `Kept` together; `ReservedAlone`
needs `Apart` and `Latest`. `RowsAdvance` says what no step of the table takes back,
so a hint the step does not touch stays justified (`DeliveryKept`,
`PublicationKept`, `WakeupKept`); `WorkerChanges` is the part with the work.

`EventStreamProofs` proves, for any clients, processes and batch size:

* `StreamInvariant` - the inductive invariant `StreamIInv`;
* `StreamImplements` - the refinement of `EventDelivery`, the property
  `ImplementsEventDelivery` of the `stream` run;
* `HintsNotMissed` - the invariant `NoMissedHint`.

The assumptions are `StreamAssumption`: API and worker processes differ, a batch is
not empty, the bounds are naturals. The theorems do not depend on the values of
the bounds `MaxEvents` and `MaxFaults`. The invariant has three parts. `Serialized`:
the committed rows are `1..latest` and one transaction at most holds the run that
follows - without the row lock a stream could read past an uncommitted event.
`Unbroken`: what a client was handed, what is under way to it and the cursor of its
stream continue one another. `PageComplete`: a page leaves out no committed event
below one it holds, which `LowestClosed` shows of `ORDER BY ... LIMIT`. Most steps
move no stream (`CalmSteps`, `HintSteps`, `WriterSteps`, by `CalmKeeps`); the others
move one (`QueryStep`, `YieldStep`, `OpenStep`, `HandleStep`, `DisconnectStep`, by
`OneReader`). `NoMissedHint` speaks of a stream that waits; its inductive form
`Watchful` follows the stream from its subscription on: whatever it is behind by
is on its page, about to be asked for or announced (`Alerted`). It holds across the
commit of another process because the hint is due before the row is visible.

`DiagnosticTurnProofs` proves first, for any codes and proposed flags, of the merge in
`services/safety.py`: `MergedType` (one level per code), `MergedRises` (no code ends
below where it was or below what was proposed), `StateNeverRelaxes` (nor does the
safety state) and `SilentIsUnchanged` (a merge without an announcement changed no
severity and, from a warning on, not whether the code blocks). This needs no
assumption. Then it proves, for any turns, attempts, codes and bounds
(`TurnAssumption`: an attempt limit is positive, NULL is no turn, the concerns are
flags):

* `TurnInvariant` - the inductive invariant `TurnIInv`;
* `ErrorsPaired`, `RequestLatest`, `NeverStuck` - the invariants
  `ErrorPairedWithCompletion`, `PendingRequestIsLatest` and `NeverStuckRunning`;
* `SafetyRises` - the action property `SafetyOnlyRises`, from the lemmas about
  merging;
* `SettlementIsFinal` - the action property `NothingAfterSettlement`;
* `EndInvariant`, `DeadHadNoEffects`, `CompletedOnce` - a second inductive invariant,
  and the invariants `DeadTurnHadNoEffects` and `OneCompletionUnlessCommitLost`;
* `TurnJobIsDurable` - each turn's job refines `DurableJob`.

None of these invariants is inductive. `TurnIInv` adds the types of session
row, jobs and executions (`Recorded`, `JobTyped`), that a waiting job and an
execution before the boundary have reserved nothing (`Unreserved`), that a turn not
accepted has no completion while one whose handler returned has
(`CompletionsKnown`), and that the pending request is an event of the log
(`RequestInLog`). `Unreserved` is what keeps a retry from leaving a session
`running` behind a settled job; `CompletionsKnown` is what lets a job that succeeds
be settled without another completion. `EndIInv` holds on top of it: a turn before its
boundary has only begun (`QuietBeforeBoundary`), which is what dies without effects,
and an execution still at work has completed nothing, while one whose commit raised
has done so only if its turn is one of `faults.unanswered` (`CompletesOnce`). A crash or
another turn's lost answer therefore allows no second completion.

`DiagnosticReportsProofs` proves, for any artifacts, codes, proposals, answers and
number of reports (`ReportAssumption`: photos are artifacts, proposals are calls of
the tool, pages are not empty):

* `UnpricedLowersTotals` - of any list of lookups: an item without a price makes
  the total of its type and the DIY total uncertain;
* `ReportInvariant` - the inductive invariant `ReportIInv`;
* `SavedReportsReadBack`, `InvalidatedStaysUnread`, `UnpricedStaysUncertain` - the
  three invariants of the `reports` run.

`ReportIInv` has a part for each place a payload can be: `ReportsOK` (a row passes the
checks of a read, cites the artifacts it rests on and is hidden if one was lost),
`SavingOK` (what waits for prices passed the checks of the save) and `ReadingOK` (the
shape of a GET under way). That a
stored report validates when read rests on `SavingOK`, because the read
applies the checks to a payload that was normalized, completed and priced since.

`DiagnosticAgentProofs` proves, for any turns, photos, modes, recoveries, texts and
model calls (`VisualAssumption`, `TextAssumption`: turns are numbered, modes are the
four settings, a recovery is not a turn, the bound on the text is a natural):

* `VisualInvariant` - the inductive invariant `VisualIInv`;
* `CalledOnceAtATime`, `CallsAreRecorded` - the invariants `OneCallAtATime` and
  `EveryCallRecorded`;
* `NoneCalledAgain`, `RedactionHolds` - the action properties
  `AmbiguousCallNotRepeated` and `RedactedReachesNoOther`: what a preparation gives the
  agent of other turns was not redacted when it was read. Of its own turn's run a
  preparation reads the remembered row without that check
  (`CurrentObservations`), so nothing of the kind holds of it;
* `TextInvariant`, `MessagesAreWhole` - the inductive invariant `TextIInv` and
  `MessageIsWholeText`.

`append_attempt` decides on a row the caller remembers, so `OneCallAtATime` needs to
know how far such a view may be behind: `Remembered` (it is never ahead),
`CallsRecorded` (a call under way is recorded in a row nobody may recover) and
`RetriesFree` (a recoverable view that is not outdated in its attempts is of a
failed run nobody calls for). `TextIInv` is that deltas plus buffer are all that was
said until the message is complete, and the message is it afterwards.

`ProfileInferenceProofs` proves, for any turns, attempts, policies, extractions and
edits (`ProfileAssumption`, `LedgerAssumption`: values are of their fields, findings
of a run are a finite set that is not empty, and no value or summary is `NoValue`):

* `ControlInvariant`, and from it `RunsEndWithTheirJobs` - the invariant
  `RunEndsWithJob`;
* `LedgerInvariant` - the inductive invariant `LedgerIInv`;
* `EvidenceIsWhole`, `OneClaimApplies`, `ClearsHold`, `DisputesAreTold` - the
  invariants `EvidenceIffCompleted`, `OneAppliedClaim`, `NothingRefillsAClear` and
  `AgentIsToldOfDisputes` of the `profile` run;
* `ReadersSeeChanges` - its action property `RevisionCoversChange`.

`ControlIInv` adds `Reported`: the attempt the fence still admits reports the status
its run has, and one that skipped did so because the bike is gone. `LedgerIInv` adds
what ties the attempts to the bike: `Begun` (an attempt that is admitted and about to
resolve has a started run, which by `EvidenceIffCompleted` has no claims yet),
`LedgerInv`, the invariant of the ledger, and `RearSpeedsAgree`, which holds between
transactions but not within one: it is the recomputation at the end of each that
restores it.

`LedgerInv` relates claims and rows. None of its parts is inductive by itself:

* `CurrentApplied` - a current claim exists, is of its field and says its value, and
  a claim is applied exactly when it is current;
* `StatesAgree` - a resolved row has a claim and a value, a row without knowledge
  has no value;
* `DisputesNamed` - a dispute names a claim of another value; where a field is
  derived this rests on its sources having named claims of a value;
* `ClearsHeld` - the barrier of a field is not before any clear that took effect,
  and a current image is after the barrier. A clear sets the barrier to the
  present, and no barrier is in the future;
* `ImagesSpeak`, `DerivedShown` - an image's claim has a value, and the projection
  shows the derived rows.

Every write is shown to preserve it alone: a manual claim (`ManualKeeps`), a claim
taken as current with what it retires (`TakenKeeps`), a claim that waits, supports or
disputes (`Marked`, `ResolveKeeps`) and the derived fields (`Projected`,
`RearRecomputed`). A transaction folds such writes over a patch or over findings.
Instead of an induction theorem, which would take the property as an operator,
`LeastNat` gives a set of numbers its least element and `CountUp` makes an induction
over a set of it; `FoldTable` and `FoldTrace` turn the library's fold into the
sequence of ledgers it passes through, and `AppliedSteps`, `Persisting` and
`Resolving` follow the invariant along it. The resolution of a run needs one more
fact on the way, `ResolvedUpTo`: only the fields of the findings resolved so far have
claims of this run as current ones, so that no claim is resolved twice.

The findings are resolved in the code's order, mechanisms first. `InOrder` is the
set of lists of them in that order, of which there is one because a run names a
field once (`ValidOutput`); `ResolutionOrder` numbers the fields as the code's sort
key does, path by path within a group.

`ChatSessionProofs` proves, for any capacity of the channel, number of photos, events
and effort (`ChatAssumption`):

* `ChatInvariant` - the inductive invariant `ChatInv`;
* `OneTurn`, `AnswersFollow`, `SentMeansStored`, `NothingMissing` - the invariants
  `OneTurnPerClientId`, `AnswerFollowsItsRequest`, `SentIsStored` and
  `TranscriptComplete` of the `chat` run.

Beside the types, `ChatInv` has a part for each direction. `TurnsInv` relates requests
to turns: the pending request of the session row is the last that was asked
and no turn started since (`PendingIsLatest`), so that the second look under the
lock, which compares the request's number with the row's, is enough;
requests with one id carry one message, and an accepted request has its turn
(`RequestsMatch`). `StreamInv` relates the log to the screen: the channel holds
events in the log's order (`CursorsInLog`), and everything before the place where
the next connection starts was shown, waits in the channel, was refused by it
(`missed.full`) or was erased by the write of an older copy (`missed.erased`)
(`Covered`). `SentStored` is kept of the screen and of the copy a handler holds, since
its write makes that copy the screen. An older copy can also take back that the chat
is over: its job of the events has ended then, and the next one starts at the turn
that was accepted (`ensureEventReplay`), so nothing is promised of such a screen
(`missed.revived`).

Only model-checked is liveness: what is promised under fairness, and with it
`ENABLED`, is out of the prover's reach. Every safety invariant and action property
of the passing runs is stated by a theorem.

## Findings

Each is a run that TLC must find violated.

* **Appends can collide** (`stale_sequence`). `append_for_session`
  (`repositories/events.py:75-81`) locks the session row without refreshing the
  object that the executor's ORM session holds
  (`expire_on_commit=False`, `workers/diagnostic_role.py:60`). After a heartbeat
  of the API process the executor allocates a taken sequence and the turn ends
  in a processing error; `repositories/repair_sessions.py:66-67` shows the
  refreshing form. `docs/specs/apps/api-events-diagnostic.md:63-64` promises
  serialized appends.
* **A page leaves out a report** (`report_paging`). `list_reports` answers with the
  first report it does not show as `next_cursor` (`services/reports.py:459`) and the
  next page begins strictly after it (`repositories/reports.py:65-74`).
  `docs/specs/apps/api-db-diagnostic.md:871-872` makes the last row shown the cursor.
* **A repeated clear does not count** (`older_evidence`). Clearing a cleared field
  leaves `manual_clear_barrier_at` at the first clear (`services/bikes.py:512`), so
  photos of a turn accepted between the two refill the field.
  `docs/specs/apps/agent/bike-profile-inference.md:1055-1060` says older evidence
  never flips a field back after a later clear.
* **The screen stays in flight** (`stuck_in_flight`). The answer of a submission that
  is handled after the turn's completion came over the stream marks the turn in
  flight again (`DiagnosticChatViewModel.kt:583`), and nothing will end it.
  `docs/specs/android/mvp-spec.md:746` has the flag true from the request to
  `turn.completed`.
* **A turn completes twice** (`double_completion`). When the commit of
  `turn.completed` takes effect but reports an error, the exception handler
  (`adk/orchestration.py:316-327`) finalizes the turn again, and
  `_append_turn_completed` (701-735) does not look for a completion.
  `deploy/CAPACITY.md:152-153` says "Every turn must have exactly one
  `turn.completed`". `OneCompletionUnlessCommitLost` shows that nothing but the lost
  answer of that turn's own commit does it, and that it never becomes three.

Observations that no run needs, since they follow from one step or a document
leaves them open:

* Executions of a session overlap: `request_diagnostic_input` commits
  `awaiting_user`, an accepting status (`services/turns.py:69-74, 384`), while its
  agent still runs. `docs/specs/apps/adk-wiring-spec.md:561` asks for
  non-overlapping executions; `turn` shows what survives.
* The chat screen's handlers write `_uiState` without synchronisation
  (`DiagnosticChatViewModel.kt:140-142, 356-372, 554-562, 574-586, 624-635`), so a
  message of the assistant can be erased although `lastEventId` (317) has passed it, and
  no reconnection brings it back. `docs/specs/android/mvp-spec.md:965-980` asks for
  atomic updates. In `chat` such messages are the set `missed.erased`.
* A run redacted while its call is under way is completed, and its own turn is given
  the observations (`services/diagnostic_visual_context.py:523-527`), as is a
  later preparation of that turn. `docs/specs/apps/agent/image-diagnosis.md:380-391,
  943-947` asks that redacted evidence be withheld. Nothing calls the redaction hook yet.
* If an execution is lost after a blocking flag, recovery leaves `awaiting_user`
  with safety state `blocked`.
* A `caution` flag that blocks repair instructions ends the turn as
  `blocked_safety` (`adk/orchestration.py:832`), though `safety-diagnostic.md:113-115`
  calls that severity advisory; a rise in severity can drop the block of a lesser
  instance (`services/safety.py`, `_deduplicate_active_flags`).
* `_legacy_brake_type` (`services/bikes.py:920`) reports a brake type from a pair in
  dispute, and values derived from image facts are not marked as needing
  independent evidence.
* With no part priced and no tool required the DIY total is zero to zero, marked
  uncertain. Prices a GET adds are not stored, so two GETs may differ.
* Invalidation hides the reports that cite an artifact but leaves the artifact
  ready: a save that looks it up afterwards may cite it again.
* The CHECK constraints of `models/phase_report.py` do not list
  `diagnostic_report.v2`.

## Plan

Done, in the order of importance: the job table, the queue, the turn and the
stream, then profile inference, the chat, the agent's evidence and text, and
reports with their costs. What is left:

1. `PullWorker` - capacity with orphaned handlers, shutdown; invariant: active
   and orphaned never exceed the concurrency.
2. The compare-and-set that binds an ADK session to a phase, with two first
   attempts.
3. `Reconstruction` over several rows; a queue run with a profile job.
4. The terminal status when a tool's commit took effect without an answer
   (`adk/tools/common.py:245`), once the documents agree on the one they want.
5. Photos of several phases, and a session with two chat screens.

Proofs still worth making: the capacity invariant of `PullWorker`, and that every
value of the projection obeys `ValidProjection` through all transactions.

## Not modelled

* `set_manual_technical_value` with explicit corrections (`services/bikes.py:426`) and
  `create_bike`: single transactions without a competitor; registry fields that
  interact with no other.
* The legacy brake types `unknown`, which also clears `brakes.legacy_summary`
  (`services/profile_resolution.py:48-54, 78-87`), and `other` (532-540): both write
  the derived summary by hand.
* Uploads beyond their success, failure or lost answer: idempotency hashes, image
  preprocessing and pixels are data.
* Plan, execution and shop reports, `phase.transitioned` and the planning agent with
  its `lookup_plan_prices`: no code writes or wires them.
* Prompts, wire formats and schemas of the providers; their answers and failures
  are inputs of the models.
* Blankness and wording of report texts, titles and retailers of listings, the
  source of a total.
* Configuration, security, HTTP surface: settings and request-scoped checks; the
  relations between durations that matter are assumptions of `JobQueue`'s clock.
* Telemetry and health decide nothing; evaluations, prototypes and deployment
  scripts are not part of the running system. Other screens of the Android
  application are forms over plain requests.
