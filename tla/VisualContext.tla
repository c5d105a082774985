--------------------------- MODULE VisualContext ---------------------------
(***************************************************************************)
(* The visual evidence of a diagnostic turn: the photos are loaded and     *)
(* normalized, an extractor looks at them before the agent does, and what  *)
(* it saw is kept in the turn's extraction run for the turns that follow.  *)
(*                                                                         *)
(* A preparation is several transactions of one database session, which    *)
(* keeps the row objects it has read: a later SELECT ... FOR UPDATE waits  *)
(* for the row's lock and returns the object as it was remembered ("view").*)
(* Besides the worker's execution of a turn, the service offers an         *)
(* explicit recovery, and the evidence of an artifact can be invalidated.  *)
(* Nothing in the application calls these two yet; they run here at any    *)
(* time.                                                                   *)
(***************************************************************************)
EXTENDS Integers, FiniteSets

CONSTANTS
  Turns,       \* the session's turns, numbered in their order
  Photos,      \* its diagnostic photos
  Modes,       \* the values image_analysis_mode may have
  Recoveries   \* callers of recover_turn

ASSUME VisualAssumption ==
  /\ Turns = 1..Cardinality(Turns)
  /\ Modes \subseteq {"off", "pixels_only", "shadow", "enabled"}
  /\ Recoveries \cap Turns = {}

VARIABLES
  turn,    \* what each turn submitted, and under which mode
  row,     \* the observation_extraction_runs row of each turn
  calls,   \* calls of the extractor made for it
  prep     \* the preparation of each turn's execution and of each recovery

visualVars == <<turn, row, calls, prep>>

Callers == Turns \cup Recoveries
Extracting == {"shadow", "enabled"}

NotAccepted == [photos |-> {}, mode |-> "none"]
Absent == [status |-> "absent", attempts |-> 0, retryable |-> FALSE,
           output |-> FALSE, started |-> FALSE, redacted |-> FALSE]
NewRun == [Absent EXCEPT !.status = "pending"]

\* images: normalized photos.  given: turns whose observations the agent will be
\* given, current and prior ones.  invoke: whether there will be an agent, which
\* message text alone is enough for.  What is not used any more is forgotten.
NoPreparation ==
  [step |-> "idle", of |-> 0, view |-> Absent, images |-> {}, given |-> {},
   invoke |-> FALSE]

VisualInit ==
  /\ turn = [t \in Turns |-> NotAccepted]
  /\ row = [t \in Turns |-> Absent]
  /\ calls = [t \in Turns |-> 0]
  /\ prep = [c \in Callers |-> NoPreparation]

-----------------------------------------------------------------------------
(* What the operations share. *)

Step(c) == prep[c].step
Over(t) == Step(t) = "over"

\* Faulty: evidence is taken to be usable as long as it is stored.
UsableIfStored(u) ==
  row[u].status = "completed" /\ row[u].output /\ turn[u].mode = "enabled"

\* list_usable_for_session
Usable(u) ==
  /\ turn[u].mode = "enabled"
  /\ row[u].status = "completed"
  /\ ~row[u].redacted

\* A row whose output is gone is not projected.
PriorObservations(t) == {u \in Turns \ {t} : Usable(u) /\ row[u].output}

\* The turn's own evidence is what its remembered run holds; nobody asks whether
\* that run has been redacted.
CurrentObservations(t, run) ==
  IF turn[t].mode = "enabled" /\ run.status = "completed" /\ run.output
  THEN {t} ELSE {}

\* Between get_or_create's insert and the first commit the new row is seen by
\* nobody, and another insert for its turn waits.
Inserting(t) == \E c \in Callers :
  Step(c) = "loaded" /\ prep[c].of = t /\ row[t] = Absent

\* Ended or lost: what is not committed is gone.
Ended(c) == [prep EXCEPT ![c] = [NoPreparation EXCEPT !.step = "over"]]

\* The preparation of turn t ends with these images and observations; its own
\* run is in its row.  What a recovery returns is left to its caller.
Prepared(c, t, images, given) ==
  prep' = IF c \in Recoveries THEN Ended(c)
          ELSE [prep EXCEPT ![c] =
                  [NoPreparation EXCEPT
                     !.step = "prepared", !.of = t, !.given = given,
                     !.invoke = prep[c].invoke \/ images # {}]]

-----------------------------------------------------------------------------
(* Accepting a turn and preparing it. *)

\* The mode is the settings' of the moment, and matters to a turn with photos.
\* Message text or a photo is required, and the previous turn is over.
AcceptTurn(t) ==
  /\ turn[t] = NotAccepted
  /\ \A u \in Turns : u < t => Over(u)
  /\ \E photos \in SUBSET Photos, text \in BOOLEAN, mode \in Modes :
       /\ photos = {} => text /\ mode = "off"
       /\ turn' = [turn EXCEPT ![t] = [photos |-> photos, mode |-> mode]]
       /\ prep' = [prep EXCEPT ![t].invoke = text]
  /\ UNCHANGED <<row, calls>>

\* Who may begin: the execution that crossed the turn's effect boundary, which
\* only one does, or a recovery, which changes something for a turn that has
\* something to extract.
Begins(c, t) ==
  /\ Step(c) = "idle"
  /\ turn[t] # NotAccepted
  /\ IF c \in Turns THEN c = t
     ELSE turn[t].photos # {} /\ turn[t].mode \in Extracting

PrepareWithoutPhotos(c, t) ==
  /\ Begins(c, t)
  /\ turn[t].photos = {}
  /\ Prepared(c, t, {}, PriorObservations(t))
  /\ UNCHANGED <<turn, row, calls>>

PrepareOff(c, t) ==
  /\ Begins(c, t)
  /\ turn[t].photos # {}
  /\ turn[t].mode = "off"
  /\ Prepared(c, t, {}, {})
  /\ UNCHANGED <<turn, row, calls>>

\* An object that cannot be read, decoded or normalized is left out.
Loadable(t) == SUBSET turn[t].photos

PreparePixelsOnly(c, t) ==
  /\ Begins(c, t)
  /\ turn[t].photos # {}
  /\ turn[t].mode = "pixels_only"
  /\ \E images \in Loadable(t) : Prepared(c, t, images, {})
  /\ UNCHANGED <<turn, row, calls>>

\* get_or_create, then the photos.
LoadRun(c, t) ==
  /\ Begins(c, t)
  /\ turn[t].photos # {}
  /\ turn[t].mode \in Extracting
  /\ ~Inserting(t)
  /\ \E images \in Loadable(t) :
       prep' = [prep EXCEPT ![c] =
         [@ EXCEPT !.step = "loaded", !.of = t, !.images = images,
                   !.view = IF row[t] = Absent THEN NewRun ELSE row[t]]]
  /\ UNCHANGED <<turn, row, calls>>

-----------------------------------------------------------------------------
(* The extraction. *)

Fresh(view) == view.status = "pending" /\ view.attempts = 0

\* Faulty: a run that is still pending may be recovered too.
RecoverableIfPending(c, view) ==
  /\ c \in Recoveries
  /\ view.status = "failed" => view.retryable
  /\ view.status # "completed"
  /\ ~view.started

Recoverable(c, view) ==
  /\ c \in Recoveries
  /\ view.status = "failed"
  /\ view.retryable
  /\ ~view.started

MayCall(c) == prep[c].images # {} /\
  (Fresh(prep[c].view) \/ Recoverable(c, prep[c].view))

\* Faulty: attempts carry no unique number.
NumberNeverTaken(t, number) == FALSE

\* ux_observation_extraction_attempts_run_number
NumberTaken(t, number) == number <= row[t].attempts

\* Faulty: the attempt is committed with the answer, not before the call.
AppendAttemptUncommitted(c, t) ==
  /\ Step(c) = "loaded" /\ prep[c].of = t
  /\ MayCall(c)
  /\ ~NumberTaken(t, prep[c].view.attempts + 1)
  /\ LET run == [prep[c].view EXCEPT !.attempts = @ + 1, !.status = "pending",
                                     !.retryable = FALSE]
     IN prep' = [prep EXCEPT ![c].step = "calling", ![c].view = run]
  /\ calls' = [calls EXCEPT ![t] = @ + 1]
  /\ UNCHANGED <<turn, row>>

\* append_attempt, committed by reserve_external, and the call begins.  Only
\* the columns that changed are written: a redaction stays.
AppendAttempt(c, t) ==
  /\ Step(c) = "loaded" /\ prep[c].of = t
  /\ MayCall(c)
  /\ ~NumberTaken(t, prep[c].view.attempts + 1)
  /\ LET run == [prep[c].view EXCEPT !.attempts = @ + 1, !.status = "pending",
                                     !.retryable = FALSE]
     IN /\ prep' = [prep EXCEPT ![c].step = "calling", ![c].view = run]
        /\ row' = [row EXCEPT ![t] =
             [run EXCEPT !.started = @ \/ row[t].started,
                         !.redacted = @ \/ row[t].redacted]]
  /\ calls' = [calls EXCEPT ![t] = @ + 1]
  /\ UNCHANGED turn

\* The unique index refuses the second of two appends; what it raises leaves
\* the preparation, and nothing of it is written.
AppendRefused(c, t) ==
  /\ Step(c) = "loaded" /\ prep[c].of = t
  /\ MayCall(c)
  /\ NumberTaken(t, prep[c].view.attempts + 1)
  /\ prep' = Ended(c)
  /\ UNCHANGED <<turn, row, calls>>

\* Nothing to call for.  A run without one usable image has failed for good.
NoCall(c, t) ==
  /\ Step(c) = "loaded" /\ prep[c].of = t
  /\ ~MayCall(c)
  /\ LET view == prep[c].view
         failing == prep[c].images = {} /\ view.status = "pending"
     IN /\ row' = [row EXCEPT ![t] =
             IF failing
             THEN [(IF @ = Absent THEN NewRun ELSE @) EXCEPT
                     !.status = "failed", !.retryable = FALSE]
             ELSE @]
        /\ Prepared(c, t, prep[c].images,
             PriorObservations(t) \cup
               IF prep[c].images = {} THEN {} ELSE CurrentObservations(t, view))
  /\ UNCHANGED <<turn, calls>>

\* What may come of one call of the extractor: a JSON object that validates
\* against the images it was asked about, or not, or no answer in time.
Verdicts == {v \in [valid : BOOLEAN, timeout : BOOLEAN] : ~(v.valid /\ v.timeout)}

\* finish_attempt, then mark_completed or mark_failed.  mark_completed looks for
\* the start of the agent in the remembered row, where it never finds it.
Finished(run, verdict) ==
  [run EXCEPT !.status = IF verdict.valid THEN "completed" ELSE "failed",
              !.output = verdict.valid,
              !.retryable = verdict.timeout]

Answer(c, t) ==
  /\ Step(c) = "calling" /\ prep[c].of = t
  /\ \E verdict \in Verdicts :
       /\ row' = [row EXCEPT ![t] = Finished(@, verdict)]
       /\ Prepared(c, t, prep[c].images,
            PriorObservations(t) \cup
              CurrentObservations(t, Finished(prep[c].view, verdict)))
  /\ UNCHANGED <<turn, calls>>

-----------------------------------------------------------------------------
(* The agent. *)

\* A turn without text and without one usable image ends with its errors.
FinishBlocked(t) ==
  /\ Step(t) = "prepared"
  /\ ~prep[t].invoke
  /\ prep' = Ended(t)
  /\ UNCHANGED <<turn, row, calls>>

\* mark_diagnostic_agent_started, committed before the runner starts.
StartAgent(t) ==
  /\ Step(t) = "prepared"
  /\ prep[t].invoke
  /\ prep' = [prep EXCEPT ![t].step = "agent"]
  /\ row' = [row EXCEPT ![t].started = row[t] # Absent]
  /\ UNCHANGED <<turn, calls>>

FinishTurn(t) ==
  /\ Step(t) = "agent"
  /\ prep' = Ended(t)
  /\ UNCHANGED <<turn, row, calls>>

\* The process dies, the fence refuses a lost execution or the handler is
\* cancelled: what is not committed is gone, and the turn is not executed
\* again, for its effect boundary has been crossed.
Lose(c) ==
  /\ Step(c) \in {"loaded", "calling", "prepared", "agent"}
  /\ prep' = Ended(c)
  /\ UNCHANGED <<turn, row, calls>>

\* redact_citing_artifact: one UPDATE over the rows it sees.
InvalidateArtifact(photo) ==
  /\ \E t \in Turns : photo \in turn[t].photos /\ row[t] # Absent
                      /\ ~row[t].redacted
  /\ row' = [t \in Turns |->
       IF photo \in turn[t].photos /\ row[t] # Absent /\ ~row[t].redacted
       THEN [row[t] EXCEPT !.redacted = TRUE, !.output = FALSE]
       ELSE row[t]]
  /\ UNCHANGED <<turn, calls, prep>>

Preparing(c, t) ==
  \/ PrepareWithoutPhotos(c, t) \/ PrepareOff(c, t) \/ PreparePixelsOnly(c, t)
  \/ LoadRun(c, t) \/ AppendAttempt(c, t) \/ AppendRefused(c, t)
  \/ NoCall(c, t) \/ Answer(c, t)

\* Everything but the beginning and the end of the agent.
VisualStep ==
  \/ \E c \in Callers, t \in Turns : Preparing(c, t)
  \/ \E t \in Turns : AcceptTurn(t) \/ FinishBlocked(t)
  \/ \E c \in Callers : Lose(c)
  \/ \E photo \in Photos : InvalidateArtifact(photo)

-----------------------------------------------------------------------------
(* Properties. *)

\* The extractor is never asked about the same turn twice at the same time.
\* append_attempt decides on a remembered row; that two recoveries which read
\* the failed run together do not both call is owed to the attempt's number.
OneCallAtATime ==
  \A c, d \in Callers :
    Step(c) = "calling" /\ Step(d) = "calling" /\ prep[c].of = prep[d].of
      => c = d

\* Every call was recorded before it was made, so that the run accounts for
\* the ones whose caller died.
EveryCallRecorded == \A t \in Turns : calls[t] <= row[t].attempts

\* A call that may have been made is not made again: a run whose caller is
\* gone stays pending, whoever prepares the turn later.
AmbiguousCallNotRepeated ==
  [][\A t \in Turns :
       row[t].status = "pending" /\ row[t].attempts > 0
         => calls'[t] = calls[t]]_visualVars

\* The evidence of a redacted run reaches no preparation of another turn, not
\* even after a late answer has stored an output in the redacted row.  Its own
\* turn is still given it: see CurrentObservations.
RedactedReachesNoOther ==
  [][\A t \in Turns, c \in Callers :
       row[t].redacted /\ prep'[c].of # t /\ t \notin prep[c].given
         => t \notin prep'[c].given]_visualVars
=============================================================================
