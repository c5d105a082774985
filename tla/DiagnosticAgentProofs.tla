----------------------- MODULE DiagnosticAgentProofs -----------------------
(***************************************************************************)
(* For any turns, photos, modes and any number of explicit recoveries: the *)
(* extractor is called once at a time and never again after an ambiguous   *)
(* end, redacted evidence reaches no turn but its own, and the completed   *)
(* message of an agent is all it said.                                     *)
(***************************************************************************)
EXTENDS DiagnosticAgent, TLAPS

Run ==
  [status : {"absent", "pending", "failed", "completed"}, attempts : Nat,
   retryable : BOOLEAN, output : BOOLEAN, started : BOOLEAN,
   redacted : BOOLEAN]

Preparation ==
  [step : {"idle", "loaded", "calling", "prepared", "agent", "over"},
   of : Turns \cup {0}, view : Run, images : SUBSET Photos,
   given : SUBSET Turns, invoke : BOOLEAN]

VisualTyped ==
  /\ turn \in [Turns -> [photos : SUBSET Photos, mode : Modes \cup {"none"}]]
  /\ row \in [Turns -> Run]
  /\ calls \in [Turns -> Nat]
  /\ prep \in [Callers -> Preparation]

Calling(c) == Step(c) = "calling"
Loaded(c) == Step(c) = "loaded"

\* A remembered row is of a turn, and not ahead of what is stored.
Remembered ==
  \A c \in Callers :
    /\ Loaded(c) \/ Calling(c) => prep[c].of \in Turns
    /\ Loaded(c) => prep[c].view.attempts <= row[prep[c].of].attempts

\* A call is recorded in its turn's row, which nobody may recover meanwhile.
CallsRecorded ==
  \A c \in Callers : Calling(c) =>
    /\ row[prep[c].of].attempts >= 1
    /\ ~row[prep[c].of].retryable

\* A view that may be recovered and is not outdated in its attempts is of a run
\* that has failed and that nobody calls for.
RetriesFree ==
  \A c \in Callers :
    /\ Loaded(c)
    /\ prep[c].view.status = "failed" /\ prep[c].view.retryable
    /\ prep[c].view.attempts = row[prep[c].of].attempts
    => /\ row[prep[c].of].status = "failed"
       /\ \A d \in Callers : ~(Calling(d) /\ prep[d].of = prep[c].of)

VisualIInv ==
  /\ VisualTyped
  /\ Remembered
  /\ CallsRecorded
  /\ RetriesFree
  /\ EveryCallRecorded
  /\ OneCallAtATime

-----------------------------------------------------------------------------
(* Types. *)

LEMMA Constants == /\ Turns \subseteq Callers
                   /\ Absent \in Run /\ NewRun \in Run
                   /\ NoPreparation \in Preparation
                   /\ Absent.attempts = 0 /\ NewRun.attempts = 0
                   /\ NewRun.status = "pending"
                   /\ ~Absent.retryable /\ ~NewRun.retryable
<1>1. Turns \subseteq Callers
  BY DEF Callers
<1>2. /\ Absent \in Run /\ Absent.attempts = 0 /\ ~Absent.retryable
  BY DEF Absent, Run
<1>3. /\ NewRun \in Run /\ NewRun.attempts = 0 /\ ~NewRun.retryable
      /\ NewRun.status = "pending"
  BY DEF Absent, NewRun, Run
<1>4. NoPreparation \in Preparation
  BY <1>2 DEF NoPreparation, Preparation
<1> QED
  BY <1>1, <1>2, <1>3, <1>4

LEMMA EndedType ==
  ASSUME VisualTyped, NEW c \in Callers
  PROVE  /\ Ended(c) \in [Callers -> Preparation]
         /\ Ended(c)[c].step = "over" /\ Ended(c)[c].given = {}
         /\ \A d \in Callers \ {c} : Ended(c)[d] = prep[d]
  BY Constants DEF VisualTyped, Ended, NoPreparation, Preparation

LEMMA PriorType == ASSUME NEW t \in Turns
                   PROVE  PriorObservations(t) \in SUBSET Turns
  BY DEF PriorObservations

LEMMA CurrentType == ASSUME NEW t \in Turns, NEW r
                     PROVE  CurrentObservations(t, r) \in SUBSET {t}
  BY DEF CurrentObservations

\* A preparation that may have called gives prior evidence and its turn's own.
Gives(c, t) ==
  \E own \in SUBSET {t} :
    Prepared(c, t, prep[c].images, PriorObservations(t) \cup own)

LEMMA ExtractionGives ==
  ASSUME NEW c \in Callers, NEW t \in Turns, NoCall(c, t) \/ Answer(c, t)
  PROVE  Gives(c, t)
<1>1. ASSUME NoCall(c, t)
      PROVE  Gives(c, t)
  <2> DEFINE own == IF prep[c].images = {} THEN {}
                    ELSE CurrentObservations(t, prep[c].view)
  <2>1. own \in SUBSET {t}
    BY CurrentType
  <2>2. Prepared(c, t, prep[c].images, PriorObservations(t) \cup own)
    BY <1>1 DEF NoCall
  <2> HIDE DEF own
  <2> QED
    BY <2>1, <2>2 DEF Gives
<1>2. ASSUME Answer(c, t)
      PROVE  Gives(c, t)
  <2>1. PICK verdict \in Verdicts :
          Prepared(c, t, prep[c].images,
            PriorObservations(t) \cup
              CurrentObservations(t, Finished(prep[c].view, verdict)))
    BY <1>2 DEF Answer
  <2>2. CurrentObservations(t, Finished(prep[c].view, verdict)) \in SUBSET {t}
    BY CurrentType
  <2> QED
    BY <2>1, <2>2 DEF Gives
<1> QED
  BY <1>1, <1>2

LEMMA PreparedType ==
  ASSUME VisualTyped, NEW c \in Callers, NEW t \in Turns,
         NEW images \in SUBSET Photos, NEW given \in SUBSET Turns,
         Prepared(c, t, images, given)
  PROVE  /\ prep' \in [Callers -> Preparation]
         /\ prep'[c].step \in {"over", "prepared"}
         /\ prep'[c].given \in {{}, given}
         /\ prep'[c].given # {} => prep'[c].of = t
         /\ \A d \in Callers \ {c} : prep'[d] = prep[d]
<1>1. CASE c \in Recoveries
  BY <1>1, EndedType DEF Prepared
<1>2. CASE c \notin Recoveries
  BY <1>2, Constants DEF Prepared, VisualTyped, NoPreparation, Preparation
<1> QED
  BY <1>1, <1>2

\* A caller that loses its preparation or comes to the end of it, while the runs
\* keep what a recovery looks at.
Calm ==
  /\ VisualTyped'
  /\ calls' = calls
  /\ \A t \in Turns : /\ row'[t].attempts = row[t].attempts
                      /\ row'[t].status = row[t].status
                      /\ row'[t].retryable = row[t].retryable
  /\ \A c \in Callers :
       \/ prep'[c].step \notin {"loaded", "calling"}
       \/ /\ prep'[c].step = prep[c].step
          /\ prep'[c].of = prep[c].of
          /\ prep'[c].view = prep[c].view

LEMMA CalmKeeps == ASSUME VisualIInv, Calm PROVE VisualIInv'
<1>1. Remembered' /\ CallsRecorded'
  BY DEF Calm, VisualIInv, Remembered, CallsRecorded, Loaded, Calling, Step
<1>2. RetriesFree'
  BY DEF Calm, VisualIInv, RetriesFree, Remembered, Loaded, Calling, Step
<1>3. EveryCallRecorded' /\ OneCallAtATime'
  BY DEF Calm, VisualIInv, EveryCallRecorded, OneCallAtATime, Step
<1> QED
  BY <1>1, <1>2, <1>3 DEF Calm, VisualIInv

LEMMA EndingIsCalm ==
  ASSUME VisualIInv, NEW c \in Callers, prep' = Ended(c),
         UNCHANGED <<turn, row, calls>>
  PROVE  Calm
  BY EndedType DEF Calm, VisualIInv, VisualTyped

LEMMA PreparedIsCalm ==
  ASSUME VisualIInv, NEW c \in Callers, NEW t \in Turns,
         NEW images \in SUBSET Photos, NEW given \in SUBSET Turns,
         Prepared(c, t, images, given), UNCHANGED <<turn, row, calls>>
  PROVE  Calm
  BY PreparedType DEF Calm, VisualIInv, VisualTyped

-----------------------------------------------------------------------------
(* The steps. *)

LEMMA AcceptKeeps ==
  ASSUME VisualIInv, NEW t \in Turns, AcceptTurn(t)
  PROVE  VisualIInv'
<1>1. PICK photos \in SUBSET Photos, text \in BOOLEAN, mode \in Modes :
        /\ turn' = [turn EXCEPT ![t] = [photos |-> photos, mode |-> mode]]
        /\ prep' = [prep EXCEPT ![t].invoke = text]
  BY DEF AcceptTurn
<1>2. \A c \in Callers : /\ prep'[c] \in Preparation
                         /\ prep'[c].step = prep[c].step
                         /\ prep'[c].of = prep[c].of
                         /\ prep'[c].view = prep[c].view
  <2>1. \A c \in Callers : prep'[c] = IF c = t
                                      THEN [prep[c] EXCEPT !.invoke = text]
                                      ELSE prep[c]
    BY <1>1, Constants DEF VisualIInv, VisualTyped
  <2>2. \A c \in Callers : prep[c] \in Preparation
    BY DEF VisualIInv, VisualTyped
  <2>3. ASSUME NEW p \in Preparation
        PROVE  LET q == [p EXCEPT !.invoke = text]
               IN /\ q \in Preparation
                  /\ q.step = p.step /\ q.of = p.of /\ q.view = p.view
    BY DEF Preparation
  <2> QED
    BY <2>1, <2>2, <2>3
<1>3. VisualTyped'
  <2>1. turn' \in [Turns -> [photos : SUBSET Photos, mode : Modes \cup {"none"}]]
    BY <1>1 DEF VisualIInv, VisualTyped
  <2>2. prep' \in [Callers -> Preparation]
    BY <1>1, <1>2 DEF VisualIInv, VisualTyped
  <2> QED
    BY <2>1, <2>2 DEF AcceptTurn, VisualIInv, VisualTyped
<1>4. Calm
  BY <1>2, <1>3 DEF Calm, AcceptTurn
<1> QED
  BY <1>4, CalmKeeps

LEMMA BriefKeeps ==
  ASSUME VisualIInv, NEW c \in Callers, NEW t \in Turns,
         \/ PrepareWithoutPhotos(c, t) \/ PrepareOff(c, t)
         \/ PreparePixelsOnly(c, t) \/ AppendRefused(c, t)
  PROVE  VisualIInv'
<1>1. CASE PrepareWithoutPhotos(c, t)
  BY <1>1, PriorType, PreparedIsCalm, CalmKeeps DEF PrepareWithoutPhotos
<1>2. CASE PrepareOff(c, t)
  BY <1>2, PreparedIsCalm, CalmKeeps DEF PrepareOff
<1>3. CASE PreparePixelsOnly(c, t)
  <2>1. PICK images \in SUBSET turn[t].photos : Prepared(c, t, images, {})
    BY <1>3 DEF PreparePixelsOnly, Loadable
  <2>2. images \in SUBSET Photos
    BY <2>1 DEF VisualIInv, VisualTyped
  <2> QED
    BY <1>3, <2>1, <2>2, PreparedIsCalm, CalmKeeps DEF PreparePixelsOnly
<1>4. CASE AppendRefused(c, t)
  BY <1>4, EndingIsCalm, CalmKeeps DEF AppendRefused
<1> QED
  BY <1>1, <1>2, <1>3, <1>4

\* Reading the row: one that may be recovered has nobody who calls for it.
LEMMA LoadKeeps ==
  ASSUME VisualIInv, NEW c \in Callers, NEW t \in Turns, LoadRun(c, t)
  PROVE  VisualIInv'
<1>1. PICK images \in SUBSET turn[t].photos :
        prep' = [prep EXCEPT ![c] =
          [@ EXCEPT !.step = "loaded", !.of = t, !.images = images,
                    !.view = IF row[t] = Absent THEN NewRun ELSE row[t]]]
  BY DEF LoadRun, Loadable
<1>2. /\ images \in SUBSET Photos /\ UNCHANGED <<turn, row, calls>>
      /\ turn[t] \in [photos : SUBSET Photos, mode : Modes \cup {"none"}]
      /\ row[t] \in Run /\ prep[c] \in Preparation
  BY DEF LoadRun, VisualIInv, VisualTyped
<1> DEFINE view == IF row[t] = Absent THEN NewRun ELSE row[t]
<1>3. /\ view \in Run /\ view.attempts = row[t].attempts
      /\ view.retryable => view = row[t]
  BY <1>2, Constants
<1>4. prep'[c] = [prep[c] EXCEPT !.step = "loaded", !.of = t,
                                 !.images = images, !.view = view]
  BY <1>1 DEF VisualIInv, VisualTyped
<1> HIDE DEF view
<1>5. /\ prep'[c] \in Preparation
      /\ prep'[c].step = "loaded" /\ prep'[c].of = t /\ prep'[c].view = view
  BY <1>2, <1>3, <1>4 DEF Preparation
<1>6. /\ prep' \in [Callers -> Preparation]
      /\ \A d \in Callers \ {c} : prep'[d] = prep[d]
  BY <1>1, <1>5 DEF VisualIInv, VisualTyped
<1>7. Remembered' /\ CallsRecorded'
  BY <1>2, <1>3, <1>5, <1>6
  DEF VisualIInv, Remembered, CallsRecorded, Loaded, Calling, Step, Run
<1>8. OneCallAtATime' /\ EveryCallRecorded'
  BY <1>2, <1>5, <1>6 DEF VisualIInv, OneCallAtATime, EveryCallRecorded, Step
<1>9. RetriesFree'
  <2>1. \A d \in Callers : prep'[d].step = "calling" =>
          d # c /\ prep'[d] = prep[d] /\ Calling(d)
    BY <1>5, <1>6 DEF Calling, Step
  <2>2. view.status = "failed" /\ view.retryable =>
          \A d \in Callers : ~(Calling(d) /\ prep[d].of = t)
    BY <1>3 DEF VisualIInv, CallsRecorded
  <2>3. ASSUME NEW b \in Callers, prep'[b].step = "loaded",
               prep'[b].view.status = "failed", prep'[b].view.retryable,
               prep'[b].view.attempts = row[prep'[b].of].attempts
        PROVE  /\ row[prep'[b].of].status = "failed"
               /\ \A d \in Callers :
                    ~(prep'[d].step = "calling" /\ prep'[d].of = prep'[b].of)
    <3>1. CASE b = c
      BY <1>3, <1>5, <2>1, <2>2, <2>3, <3>1
    <3>2. CASE b # c
      BY <1>6, <2>1, <2>3, <3>2 DEF VisualIInv, RetriesFree, Loaded, Step
    <3> QED
      BY <3>1, <3>2
  <2> QED
    BY <1>2, <2>3 DEF RetriesFree, Loaded, Calling, Step
<1> QED
  BY <1>2, <1>6, <1>7, <1>8, <1>9 DEF VisualIInv, VisualTyped

\* A new attempt: the unique number is one that nobody has drawn, so whoever
\* remembers the run has an outdated view from now on.
LEMMA AppendAdmits ==
  ASSUME VisualIInv, NEW c \in Callers, NEW t \in Turns,
         Loaded(c), prep[c].of = t, MayCall(c),
         ~NumberTaken(t, prep[c].view.attempts + 1)
  PROVE  /\ prep[c].view.attempts = row[t].attempts
         /\ row[t].status = "pending" => row[t].attempts = 0
         /\ \A d \in Callers : ~(Calling(d) /\ prep[d].of = t)
<1>1. prep[c].view.attempts = row[t].attempts
  <2>1. prep[c].view.attempts \in Nat /\ row[t].attempts \in Nat
    BY DEF VisualIInv, VisualTyped, Preparation, Run
  <2>2. prep[c].view.attempts <= row[t].attempts
    BY DEF VisualIInv, Remembered
  <2> QED
    BY <2>1, <2>2 DEF NumberTaken
<1>2. CASE Fresh(prep[c].view)
  <2>1. row[t].attempts = 0
    BY <1>1, <1>2 DEF Fresh
  <2> QED
    BY <1>1, <2>1 DEF VisualIInv, CallsRecorded
<1>3. CASE Recoverable(c, prep[c].view)
  BY <1>1, <1>3 DEF VisualIInv, RetriesFree, Recoverable
<1> QED
  BY <1>1, <1>2, <1>3 DEF MayCall

LEMMA AppendKeeps ==
  ASSUME VisualIInv, NEW c \in Callers, NEW t \in Turns, AppendAttempt(c, t)
  PROVE  VisualIInv'
<1> DEFINE view == prep[c].view
           run == [view EXCEPT !.attempts = @ + 1, !.status = "pending",
                               !.retryable = FALSE]
           stored == [run EXCEPT !.started = @ \/ row[t].started,
                                 !.redacted = @ \/ row[t].redacted]
<1>1. /\ Loaded(c) /\ prep[c].of = t
      /\ view.attempts = row[t].attempts
      /\ \A d \in Callers : ~(Calling(d) /\ prep[d].of = t)
  BY AppendAdmits DEF AppendAttempt, Loaded
<1>2. /\ turn' = turn
      /\ calls' = [calls EXCEPT ![t] = @ + 1]
      /\ row' = [row EXCEPT ![t] = stored]
      /\ prep' = [prep EXCEPT ![c].step = "calling", ![c].view = run]
  BY DEF AppendAttempt
<1>3. /\ view \in Run /\ row[t] \in Run /\ prep[c] \in Preparation
      /\ calls[t] \in Nat
  BY DEF VisualIInv, VisualTyped, Preparation
<1>4. /\ run \in Run /\ run.attempts = row[t].attempts + 1
      /\ ~run.retryable
  <2>1. ASSUME NEW r \in Run, NEW n \in Nat
        PROVE  /\ [r EXCEPT !.attempts = n, !.status = "pending",
                            !.retryable = FALSE] \in Run
               /\ [r EXCEPT !.attempts = n, !.status = "pending",
                            !.retryable = FALSE].attempts = n
               /\ ~[r EXCEPT !.attempts = n, !.status = "pending",
                             !.retryable = FALSE].retryable
    BY DEF Run
  <2>2. view.attempts + 1 \in Nat
    BY <1>3 DEF Run
  <2> HIDE DEF view
  <2>3. /\ run \in Run /\ run.attempts = view.attempts + 1
        /\ ~run.retryable
    BY <1>3, <2>1, <2>2
  <2> QED
    BY <1>1, <2>3
<1> HIDE DEF run
<1>5. /\ stored \in Run /\ stored.attempts = row[t].attempts + 1
      /\ ~stored.retryable
  <2>1. ASSUME NEW r \in Run, NEW b \in BOOLEAN, NEW d \in BOOLEAN
        PROVE  /\ [r EXCEPT !.started = b, !.redacted = d] \in Run
               /\ [r EXCEPT !.started = b, !.redacted = d].attempts = r.attempts
               /\ [r EXCEPT !.started = b, !.redacted = d].retryable = r.retryable
    BY DEF Run
  <2>2. /\ (run.started \/ row[t].started) \in BOOLEAN
        /\ (run.redacted \/ row[t].redacted) \in BOOLEAN
    OBVIOUS
  <2>3. stored = [run EXCEPT !.started = run.started \/ row[t].started,
                             !.redacted = run.redacted \/ row[t].redacted]
    BY <1>4 DEF Run
  <2> QED
    BY <1>4, <2>1, <2>2, <2>3
<1> HIDE DEF view, stored
<1>6. /\ prep'[c] = [prep[c] EXCEPT !.step = "calling", !.view = run]
      /\ \A d \in Callers \ {c} : prep'[d] = prep[d]
  BY <1>2 DEF VisualIInv, VisualTyped
<1>7. /\ prep'[c] \in Preparation
      /\ prep'[c].step = "calling" /\ prep'[c].of = t
  BY <1>1, <1>3, <1>4, <1>6 DEF Preparation
<1>8. VisualTyped'
  <2>1. row' \in [Turns -> Run] /\ calls' \in [Turns -> Nat]
    BY <1>2, <1>3, <1>5 DEF VisualIInv, VisualTyped
  <2>2. prep' \in [Callers -> Preparation]
    BY <1>2, <1>7, <1>6 DEF VisualIInv, VisualTyped
  <2> QED
    BY <1>2, <2>1, <2>2 DEF VisualIInv, VisualTyped
<1>9. /\ row'[t] = stored /\ row'[t].attempts = row[t].attempts + 1
      /\ row[t].attempts \in Nat
      /\ \A u \in Turns \ {t} : row'[u] = row[u]
  BY <1>2, <1>3, <1>5 DEF VisualIInv, VisualTyped, Run
<1>10. ASSUME NEW d \in Callers, prep'[d].step = "loaded"
       PROVE  /\ d # c /\ prep'[d] = prep[d] /\ Loaded(d)
              /\ prep[d].of \in Turns
              /\ prep[d].view.attempts \in Nat
              /\ prep[d].of = t => prep[d].view.attempts < row'[t].attempts
  <2>1. d # c /\ prep'[d] = prep[d] /\ Loaded(d)
    BY <1>6, <1>7, <1>10 DEF Loaded, Step
  <2>2. /\ prep[d].of \in Turns /\ prep[d].view.attempts \in Nat
        /\ prep[d].view.attempts <= row[prep[d].of].attempts
    BY <2>1 DEF VisualIInv, Remembered, VisualTyped, Preparation, Run
  <2> QED
    BY <1>9, <2>1, <2>2
<1>11. ASSUME NEW d \in Callers, prep'[d].step = "calling", d # c
       PROVE  /\ prep'[d] = prep[d] /\ Calling(d)
              /\ prep[d].of \in Turns \ {t}
  <2>1. prep'[d] = prep[d] /\ Calling(d)
    BY <1>6, <1>11 DEF Calling, Step
  <2> QED
    BY <1>1, <2>1 DEF VisualIInv, Remembered
<1>12. Remembered'
  <2>1. ASSUME NEW d \in Callers, prep'[d].step = "loaded"
        PROVE  prep'[d].view.attempts <= row'[prep'[d].of].attempts
    <3>1. CASE prep[d].of = t
      BY <1>9, <1>10, <2>1, <3>1
    <3>2. CASE prep[d].of # t
      BY <1>9, <1>10, <2>1, <3>2 DEF VisualIInv, Remembered
    <3> QED
      BY <3>1, <3>2
  <2> QED
    BY <1>7, <1>10, <1>11, <2>1 DEF Remembered, Loaded, Calling, Step
<1>13. CallsRecorded'
  <2>1. ASSUME NEW d \in Callers, prep'[d].step = "calling"
        PROVE  /\ row'[prep'[d].of].attempts >= 1
               /\ ~row'[prep'[d].of].retryable
    <3>1. CASE d = c
      BY <1>5, <1>7, <1>9, <3>1
    <3>2. CASE d # c
      BY <1>9, <1>11, <2>1, <3>2 DEF VisualIInv, CallsRecorded
    <3> QED
      BY <3>1, <3>2
  <2> QED
    BY <2>1 DEF CallsRecorded, Calling, Step
<1>16. RetriesFree'
  <2>1. ASSUME NEW b \in Callers, prep'[b].step = "loaded",
               prep'[b].view.status = "failed", prep'[b].view.retryable,
               prep'[b].view.attempts = row'[prep'[b].of].attempts
        PROVE  /\ row'[prep'[b].of].status = "failed"
               /\ \A d \in Callers :
                    ~(prep'[d].step = "calling" /\ prep'[d].of = prep'[b].of)
    <3>1. /\ prep'[b] = prep[b] /\ Loaded(b) /\ prep[b].of \in Turns \ {t}
      BY <1>9, <1>10, <2>1
    <3>2. row'[prep[b].of] = row[prep[b].of]
      BY <1>9, <3>1
    <3>3. /\ row[prep[b].of].status = "failed"
          /\ \A d \in Callers : ~(Calling(d) /\ prep[d].of = prep[b].of)
      BY <2>1, <3>1, <3>2 DEF VisualIInv, RetriesFree
    <3> QED
      BY <1>7, <1>11, <3>1, <3>2, <3>3
  <2> QED
    BY <2>1 DEF RetriesFree, Loaded, Calling, Step
<1>14. EveryCallRecorded'
  BY <1>2, <1>3, <1>9 DEF VisualIInv, VisualTyped, EveryCallRecorded
<1>15. OneCallAtATime'
  BY <1>7, <1>11 DEF VisualIInv, OneCallAtATime, Calling, Step
<1> QED
  BY <1>8, <1>12, <1>13, <1>14, <1>15, <1>16 DEF VisualIInv

\* Without a call a run may fail for good, which nobody recovers.
LEMMA NoCallKeeps ==
  ASSUME VisualIInv, NEW c \in Callers, NEW t \in Turns, NoCall(c, t)
  PROVE  VisualIInv'
<1> DEFINE base == IF row[t] = Absent THEN NewRun ELSE row[t]
           failed == [base EXCEPT !.status = "failed", !.retryable = FALSE]
<1>1. /\ row' = row \/ row' = [row EXCEPT ![t] = failed]
      /\ UNCHANGED <<turn, calls>>
  BY DEF NoCall, VisualIInv, VisualTyped
<1>2. row[t] \in Run /\ prep[c].images \in SUBSET Photos
  BY DEF VisualIInv, VisualTyped, Preparation
<1>3. base \in Run /\ base.attempts = row[t].attempts
  BY <1>2, Constants
<1> HIDE DEF base
<1>4. /\ failed \in Run /\ failed.attempts = row[t].attempts
      /\ failed.status = "failed" /\ ~failed.retryable
  BY <1>3 DEF Run
<1> HIDE DEF failed
<1>5. /\ prep' \in [Callers -> Preparation]
      /\ prep'[c].step \notin {"loaded", "calling"}
      /\ \A d \in Callers \ {c} : prep'[d] = prep[d]
  <2>1. PICK own \in SUBSET {t} :
          Prepared(c, t, prep[c].images, PriorObservations(t) \cup own)
    BY ExtractionGives DEF Gives
  <2>2. PriorObservations(t) \cup own \in SUBSET Turns
    BY PriorType
  <2> QED
    BY <1>2, <2>1, <2>2, PreparedType DEF VisualIInv
<1>6. /\ row' \in [Turns -> Run]
      /\ \A u \in Turns : /\ row'[u].attempts = row[u].attempts
                          /\ row[u].status = "failed" => row'[u].status = "failed"
                          /\ row'[u].retryable => row[u].retryable
  BY <1>1, <1>4 DEF VisualIInv, VisualTyped
<1>7. VisualTyped'
  BY <1>1, <1>5, <1>6 DEF VisualIInv, VisualTyped
<1>8. Remembered' /\ CallsRecorded'
  BY <1>5, <1>6
  DEF VisualIInv, Remembered, CallsRecorded, Loaded, Calling, Step
<1>9. RetriesFree'
  BY <1>5, <1>6
  DEF VisualIInv, RetriesFree, Remembered, Loaded, Calling, Step
<1>10. EveryCallRecorded' /\ OneCallAtATime'
  BY <1>1, <1>5, <1>6
  DEF VisualIInv, EveryCallRecorded, OneCallAtATime, Step
<1> QED
  BY <1>7, <1>8, <1>9, <1>10 DEF VisualIInv

\* The answer makes the run recoverable at most when its only caller is done.
LEMMA AnswerKeeps ==
  ASSUME VisualIInv, NEW c \in Callers, NEW t \in Turns, Answer(c, t)
  PROVE  VisualIInv'
<1>1. PICK verdict \in Verdicts :
        row' = [row EXCEPT ![t] = Finished(@, verdict)]
  BY DEF Answer
<1>2. /\ UNCHANGED <<turn, calls>> /\ Calling(c) /\ prep[c].of = t
      /\ row[t] \in Run /\ prep[c].images \in SUBSET Photos
  BY DEF Answer, Calling, VisualIInv, VisualTyped, Preparation
<1>3. /\ Finished(row[t], verdict) \in Run
      /\ Finished(row[t], verdict).attempts = row[t].attempts
  BY <1>2 DEF Finished, Run, Verdicts
<1>4. /\ prep' \in [Callers -> Preparation]
      /\ prep'[c].step \notin {"loaded", "calling"}
      /\ \A d \in Callers \ {c} : prep'[d] = prep[d]
  <2>1. PICK own \in SUBSET {t} :
          Prepared(c, t, prep[c].images, PriorObservations(t) \cup own)
    BY ExtractionGives DEF Gives
  <2>2. PriorObservations(t) \cup own \in SUBSET Turns
    BY PriorType
  <2> QED
    BY <1>2, <2>1, <2>2, PreparedType DEF VisualIInv
<1>5. /\ row' \in [Turns -> Run]
      /\ \A u \in Turns : row'[u].attempts = row[u].attempts
      /\ \A u \in Turns \ {t} : row'[u] = row[u]
  BY <1>1, <1>3 DEF VisualIInv, VisualTyped
<1>6. VisualTyped'
  BY <1>2, <1>4, <1>5 DEF VisualIInv, VisualTyped
<1>7. \A d \in Callers : Calling(d) /\ prep[d].of = t => d = c
  BY <1>2 DEF VisualIInv, OneCallAtATime, Calling
<1>8. ASSUME NEW d \in Callers, prep'[d].step \in {"loaded", "calling"}
      PROVE  d # c /\ prep'[d] = prep[d] /\ prep[d].of \in Turns
  BY <1>4, <1>8 DEF VisualIInv, Remembered, Loaded, Calling, Step
<1>9. Remembered'
  BY <1>5, <1>8 DEF VisualIInv, Remembered, Loaded, Calling, Step
<1>10. CallsRecorded'
  BY <1>5, <1>7, <1>8 DEF VisualIInv, CallsRecorded, Calling, Step
<1>11. RetriesFree'
  <2>1. ASSUME NEW b \in Callers, prep'[b].step = "loaded", prep'[b].of = t,
               prep'[b].view.status = "failed", prep'[b].view.retryable,
               prep'[b].view.attempts = row'[t].attempts
        PROVE  FALSE
    BY <1>2, <1>5, <1>8, <2>1 DEF VisualIInv, RetriesFree, Loaded, Step
  <2> QED
    BY <1>5, <1>8, <2>1 DEF VisualIInv, RetriesFree, Loaded, Calling, Step
<1>12. EveryCallRecorded' /\ OneCallAtATime'
  BY <1>2, <1>5, <1>8
  DEF VisualIInv, EveryCallRecorded, OneCallAtATime, Calling, Step
<1> QED
  BY <1>6, <1>9, <1>10, <1>11, <1>12 DEF VisualIInv

LEMMA StartKeeps ==
  ASSUME VisualIInv, NEW t \in Turns, StartAgent(t)
  PROVE  VisualIInv'
<1>1. /\ prep' = [prep EXCEPT ![t].step = "agent"]
      /\ row' = [row EXCEPT ![t].started = row[t] # Absent]
      /\ UNCHANGED <<turn, calls>> /\ t \in Callers
      /\ row[t] \in Run /\ prep[t] \in Preparation
  BY Constants DEF StartAgent, VisualIInv, VisualTyped
<1> DEFINE begun == [row[t] EXCEPT !.started = row[t] # Absent]
           running == [prep[t] EXCEPT !.step = "agent"]
<1>2. /\ begun \in Run /\ begun.attempts = row[t].attempts
      /\ begun.status = row[t].status /\ begun.retryable = row[t].retryable
  BY <1>1 DEF Run
<1>3. running \in Preparation /\ running.step = "agent"
  BY <1>1 DEF Preparation
<1>4. /\ row' = [row EXCEPT ![t] = begun]
      /\ prep' = [prep EXCEPT ![t] = running]
  BY <1>1
<1> HIDE DEF begun, running
<1>5. VisualTyped'
  <2>1. row' \in [Turns -> Run]
    BY <1>2, <1>4 DEF VisualIInv, VisualTyped
  <2>2. prep' \in [Callers -> Preparation]
    BY <1>3, <1>4 DEF VisualIInv, VisualTyped
  <2> QED
    BY <1>1, <2>1, <2>2 DEF VisualIInv, VisualTyped
<1>6. Calm
  BY <1>1, <1>2, <1>3, <1>4, <1>5 DEF Calm, VisualIInv, VisualTyped
<1> QED
  BY <1>6, CalmKeeps

LEMMA InvalidateKeeps ==
  ASSUME VisualIInv, NEW photo \in Photos, InvalidateArtifact(photo)
  PROVE  VisualIInv'
<1>1. \A u \in Turns :
        LET gone == [row[u] EXCEPT !.redacted = TRUE, !.output = FALSE]
        IN /\ gone \in Run /\ gone.attempts = row[u].attempts
           /\ gone.status = row[u].status /\ gone.retryable = row[u].retryable
  <2>1. ASSUME NEW r \in Run
        PROVE  LET gone == [r EXCEPT !.redacted = TRUE, !.output = FALSE]
               IN /\ gone \in Run /\ gone.attempts = r.attempts
                  /\ gone.status = r.status /\ gone.retryable = r.retryable
    BY DEF Run
  <2> QED
    BY <2>1 DEF VisualIInv, VisualTyped
<1>2. /\ row' \in [Turns -> Run]
      /\ \A u \in Turns : /\ row'[u].attempts = row[u].attempts
                          /\ row'[u].status = row[u].status
                          /\ row'[u].retryable = row[u].retryable
  BY <1>1 DEF InvalidateArtifact, VisualIInv, VisualTyped
<1>3. Calm
  BY <1>2 DEF InvalidateArtifact, Calm, VisualIInv, VisualTyped
<1> QED
  BY <1>3, CalmKeeps

LEMMA PreparingKeeps ==
  ASSUME VisualIInv, NEW c \in Callers, NEW t \in Turns, Preparing(c, t)
  PROVE  VisualIInv'
  BY BriefKeeps, LoadKeeps, AppendKeeps, NoCallKeeps, AnswerKeeps DEF Preparing

LEMMA VisualStepKeeps ==
  ASSUME VisualIInv, VisualStep
  PROVE  VisualIInv'
<1>1. ASSUME NEW t \in Turns, FinishBlocked(t)
      PROVE  VisualIInv'
  BY <1>1, Constants, EndingIsCalm, CalmKeeps DEF FinishBlocked
<1>2. ASSUME NEW c \in Callers, Lose(c)
      PROVE  VisualIInv'
  BY <1>2, EndingIsCalm, CalmKeeps DEF Lose
<1> QED
  BY <1>1, <1>2, PreparingKeeps, AcceptKeeps, InvalidateKeeps DEF VisualStep

\* What a step of a preparation brings in of redacted evidence is its own.
NoneRevealed ==
  \A t \in Turns, c \in Callers :
    row[t].redacted /\ prep'[c].of # t /\ t \notin prep[c].given
      => t \notin prep'[c].given

LEMMA EndedReveals ==
  ASSUME VisualTyped, NEW c \in Callers, prep' = Ended(c)
  PROVE  NoneRevealed
  BY EndedType DEF NoneRevealed

LEMMA PreparedReveals ==
  ASSUME VisualTyped, NEW c \in Callers, NEW t \in Turns,
         NEW images \in SUBSET Photos, NEW own \in SUBSET {t},
         NEW given \in {{}, PriorObservations(t) \cup own},
         Prepared(c, t, images, given)
  PROVE  NoneRevealed
<1>1. given \in SUBSET Turns /\ \A u \in given \ {t} : ~row[u].redacted
  BY DEF PriorObservations, Usable
<1>2. /\ \A u \in prep'[c].given : u # prep'[c].of => ~row[u].redacted
      /\ \A d \in Callers \ {c} : prep'[d] = prep[d]
  <2>1. /\ prep'[c].given \in {{}, given}
        /\ prep'[c].given # {} => prep'[c].of = t
        /\ \A d \in Callers \ {c} : prep'[d] = prep[d]
    BY <1>1, PreparedType
  <2> QED
    BY <1>1, <2>1
<1> QED
  BY <1>2 DEF NoneRevealed

LEMMA PreparingReveals ==
  ASSUME VisualTyped, NEW c \in Callers, NEW t \in Turns, Preparing(c, t)
  PROVE  NoneRevealed
<1>1. CASE PrepareWithoutPhotos(c, t)
  BY <1>1, PreparedReveals DEF PrepareWithoutPhotos
<1>2. CASE PrepareOff(c, t)
  BY <1>2, PreparedReveals DEF PrepareOff
<1>3. CASE PreparePixelsOnly(c, t)
  <2>1. PICK images \in SUBSET turn[t].photos : Prepared(c, t, images, {})
    BY <1>3 DEF PreparePixelsOnly, Loadable
  <2>2. images \in SUBSET Photos
    BY <2>1 DEF VisualTyped
  <2> QED
    BY <2>1, <2>2, PreparedReveals
<1>4. CASE LoadRun(c, t)
  BY <1>4 DEF LoadRun, NoneRevealed, VisualTyped, Preparation
<1>5. CASE AppendAttempt(c, t)
  BY <1>5 DEF AppendAttempt, NoneRevealed, VisualTyped, Preparation
<1>6. CASE AppendRefused(c, t)
  BY <1>6, EndedReveals DEF AppendRefused
<1>7. CASE NoCall(c, t) \/ Answer(c, t)
  <2>1. prep[c].images \in SUBSET Photos
    BY DEF VisualTyped, Preparation
  <2> QED
    BY <1>7, <2>1, ExtractionGives, PreparedReveals DEF Gives
<1> QED
  BY <1>1, <1>2, <1>3, <1>4, <1>5, <1>6, <1>7 DEF Preparing

\* Only an append calls, and never for a run that may have been called for.
NoneRepeated ==
  \A t \in Turns : row[t].status = "pending" /\ row[t].attempts > 0
                     => calls'[t] = calls[t]

LEMMA PreparingRepeats ==
  ASSUME VisualIInv, NEW c \in Callers, NEW t \in Turns, Preparing(c, t)
  PROVE  NoneRepeated
<1>1. CASE AppendAttempt(c, t)
  <2>1. row[t].status = "pending" => row[t].attempts = 0
    BY <1>1, AppendAdmits DEF AppendAttempt, Loaded
  <2>2. \A u \in Turns \ {t} : calls'[u] = calls[u]
    BY <1>1 DEF AppendAttempt, VisualIInv, VisualTyped
  <2> QED
    BY <2>1, <2>2 DEF NoneRepeated
<1>2. CASE ~AppendAttempt(c, t)
  BY <1>2
  DEF Preparing, PrepareWithoutPhotos, PrepareOff, PreparePixelsOnly, LoadRun,
      AppendRefused, NoCall, Answer, NoneRepeated
<1> QED
  BY <1>1, <1>2

LEMMA VisualStepGuards ==
  ASSUME VisualIInv, VisualStep
  PROVE  NoneRevealed /\ NoneRepeated
<1>0. VisualTyped
  BY DEF VisualIInv
<1>1. ASSUME NEW t \in Turns, AcceptTurn(t)
      PROVE  NoneRevealed /\ NoneRepeated
  BY <1>0, <1>1, Constants
  DEF AcceptTurn, NoneRevealed, NoneRepeated, VisualTyped, Preparation
<1>2. ASSUME NEW t \in Turns, FinishBlocked(t)
      PROVE  NoneRevealed /\ NoneRepeated
  BY <1>0, <1>2, Constants, EndedReveals DEF FinishBlocked, NoneRepeated
<1>3. ASSUME NEW c \in Callers, Lose(c)
      PROVE  NoneRevealed /\ NoneRepeated
  BY <1>0, <1>3, EndedReveals DEF Lose, NoneRepeated
<1>4. ASSUME NEW photo \in Photos, InvalidateArtifact(photo)
      PROVE  NoneRevealed /\ NoneRepeated
  BY <1>4 DEF InvalidateArtifact, NoneRevealed, NoneRepeated
<1> QED
  BY <1>0, <1>1, <1>2, <1>3, <1>4, PreparingReveals, PreparingRepeats
  DEF VisualStep

LEMMA VisualInitial == VisualInit => VisualIInv
<1> SUFFICES ASSUME VisualInit PROVE VisualIInv
  OBVIOUS
<1>1. VisualTyped
  BY Constants DEF VisualInit, VisualTyped, NotAccepted
<1>2. \A c \in Callers : ~Loaded(c) /\ ~Calling(c)
  BY DEF VisualInit, NoPreparation, Loaded, Calling, Step
<1>3. EveryCallRecorded
  BY Constants DEF VisualInit, EveryCallRecorded
<1> QED
  BY <1>1, <1>2, <1>3
  DEF VisualIInv, Remembered, CallsRecorded, RetriesFree, OneCallAtATime,
      Loaded, Calling

LEMMA AgentStepKeepsVisual ==
  ASSUME VisualIInv, [AgentNext]_agentVars
  PROVE  /\ VisualIInv'
         /\ NoneRevealed /\ NoneRepeated
<1>1. ASSUME NEW t \in Turns, StartAgent(t)
      PROVE  VisualIInv' /\ NoneRevealed /\ NoneRepeated
  <2>1. NoneRevealed /\ NoneRepeated
    BY <1>1, Constants
    DEF StartAgent, NoneRevealed, NoneRepeated, VisualIInv, VisualTyped,
        Preparation
  <2> QED
    BY <1>1, <2>1, StartKeeps
<1>2. ASSUME NEW t \in Turns, FinishTurn(t)
      PROVE  VisualIInv' /\ NoneRevealed /\ NoneRepeated
  BY <1>2, Constants, EndingIsCalm, CalmKeeps, EndedReveals
  DEF FinishTurn, NoneRepeated, VisualIInv
<1>3. CASE UNCHANGED visualVars
  <2>1. NoneRevealed /\ NoneRepeated
    BY <1>3 DEF visualVars, NoneRevealed, NoneRepeated
  <2>2. VisualIInv'
    BY <1>3 DEF visualVars, VisualIInv, VisualTyped, Remembered, CallsRecorded,
      RetriesFree, EveryCallRecorded, OneCallAtATime, Loaded, Calling, Step
  <2> QED
    BY <2>1, <2>2
<1>4. CASE VisualStep
  BY <1>4, VisualStepKeeps, VisualStepGuards
<1> QED
  BY <1>1, <1>2, <1>3, <1>4
  DEF AgentNext, RunAgent, Speak, Finalize, Elsewhere, agentVars

\* The inductive invariant of the runs, their calls and the preparations.
THEOREM VisualInvariant == AgentSpec => []VisualIInv
<1>1. AgentInit => VisualIInv
  BY VisualInitial DEF AgentInit
<1>2. VisualIInv /\ [AgentNext]_agentVars => VisualIInv'
  BY AgentStepKeepsVisual
<1> QED
  BY <1>1, <1>2, PTL DEF AgentSpec

\* append_attempt decides on a remembered row, yet with any number of
\* recoveries beside the turn the extractor is called once at a time.
THEOREM CalledOnceAtATime == AgentSpec => []OneCallAtATime
<1>1. VisualIInv => OneCallAtATime
  BY DEF VisualIInv
<1> QED
  BY <1>1, VisualInvariant, PTL

\* Every call is accounted for by an attempt of its run.
THEOREM CallsAreRecorded == AgentSpec => []EveryCallRecorded
<1>1. VisualIInv => EveryCallRecorded
  BY DEF VisualIInv
<1> QED
  BY <1>1, VisualInvariant, PTL

\* A run whose caller is gone is not called for again.
THEOREM NoneCalledAgain == AgentSpec => AmbiguousCallNotRepeated
<1>1. VisualIInv /\ [AgentNext]_agentVars =>
        [\A t \in Turns :
           row[t].status = "pending" /\ row[t].attempts > 0
             => calls'[t] = calls[t]]_visualVars
  BY AgentStepKeepsVisual DEF NoneRepeated
<1> QED
  BY <1>1, VisualInvariant, PTL DEF AgentSpec, AmbiguousCallNotRepeated

\* Redacted evidence reaches no preparation of another turn, late answers
\* included.
THEOREM RedactionHolds == AgentSpec => RedactedReachesNoOther
<1>1. VisualIInv /\ [AgentNext]_agentVars =>
        [\A t \in Turns, c \in Callers :
           row[t].redacted /\ prep'[c].of # t /\ t \notin prep[c].given
             => t \notin prep'[c].given]_visualVars
  BY AgentStepKeepsVisual DEF NoneRevealed
<1> QED
  BY <1>1, VisualInvariant, PTL DEF AgentSpec, RedactedReachesNoOther

-----------------------------------------------------------------------------
(* The agent's text. *)

TextTyped ==
  /\ said \in Nat /\ callFrom \in 0..said
  /\ parts \in Seq(Nat) /\ buffer \in Seq(Nat) /\ deltas \in Seq(Nat)
  /\ message \in Seq(Nat)

\* Until the message is complete, what was flushed and what is buffered is all
\* that was said, unless the stream raised; then it is all that was streamed.
TextIInv ==
  /\ TextTyped
  /\ message = <<>> => parts = Pieces(0, said)
  /\ message = <<>> /\ stream = "open" => deltas \o buffer = parts
  /\ message # <<>> => /\ message = Pieces(0, said)
                       /\ deltas = parts
                       /\ buffer = <<>>
                       /\ IsPrefix(deltas, message)

LEMMA PiecesType ==
  ASSUME NEW m \in Nat, NEW n \in Nat, m <= n
  PROVE  /\ Pieces(m, n) \in Seq(Nat)
         /\ Len(Pieces(m, n)) = n - m
         /\ \A i \in 1..(n - m) : Pieces(m, n)[i] = m + i
<1>1. \A i \in 1..(n - m) : m + i \in Nat
  OBVIOUS
<1> QED
  BY <1>1 DEF Pieces

LEMMA FirstPieces ==
  ASSUME NEW n \in Nat
  PROVE  /\ Pieces(0, n) \in Seq(Nat)
         /\ Len(Pieces(0, n)) = n
         /\ \A i \in 1..n : Pieces(0, n)[i] = i
<1>1. 0 \in Nat /\ 0 <= n /\ n - 0 = n /\ \A i \in 1..n : 0 + i = i
  OBVIOUS
<1> QED
  BY <1>1, PiecesType

LEMMA SameSequence ==
  ASSUME NEW s \in Seq(Nat), NEW u \in Seq(Nat), Len(s) = Len(u),
         \A i \in 1..Len(s) : s[i] = u[i]
  PROVE  s = u
  OBVIOUS

LEMMA SamePrefix ==
  ASSUME NEW s \in Seq(Nat), NEW u \in Seq(Nat), Len(s) <= Len(u),
         \A i \in 1..Len(s) : s[i] = u[i]
  PROVE  IsPrefix(s, u)
<1> DEFINE k == Len(s)
           first == SubSeq(s, 1, k)
           other == SubSeq(u, 1, k)
<1>1. /\ first \in Seq(Nat) /\ Len(first) = k
      /\ \A i \in 1..k : first[i] = s[i]
  OBVIOUS
<1>2. /\ other \in Seq(Nat) /\ Len(other) = k
      /\ \A i \in 1..k : other[i] = u[i]
  OBVIOUS
<1> HIDE DEF first, other
<1>3. first = other
  BY <1>1, <1>2, SameSequence
<1> QED
  BY <1>3 DEF IsPrefix, first, other

LEMMA OneMorePiece ==
  ASSUME NEW n \in Nat
  PROVE  /\ Append(Pieces(0, n), n + 1) = Pieces(0, n + 1)
         /\ Pieces(0, n) \o <<n + 1>> = Pieces(0, n + 1)
         /\ IsPrefix(Pieces(0, n), Pieces(0, n + 1))
<1> DEFINE p == Pieces(0, n)
           q == Pieces(0, n + 1)
<1>1. /\ p \in Seq(Nat) /\ Len(p) = n /\ \A i \in 1..n : p[i] = i
      /\ q \in Seq(Nat) /\ Len(q) = n + 1 /\ \A i \in 1..(n + 1) : q[i] = i
  BY FirstPieces
<1> HIDE DEF p, q
<1>2. Append(p, n + 1) = q
  BY <1>1, SameSequence
<1>3. p \o <<n + 1>> = q
  BY <1>1, SameSequence
<1>4. IsPrefix(p, q)
  BY <1>1, SamePrefix
<1> QED
  BY <1>2, <1>3, <1>4 DEF p, q

LEMMA NoNewPiece ==
  ASSUME NEW n \in Nat, NEW m \in 0..n
  PROVE  FinalText(Pieces(m, n), Pieces(0, n)) = Pieces(0, n)
<1> DEFINE p == Pieces(m, n)
           q == Pieces(0, n)
<1>1. /\ p \in Seq(Nat) /\ Len(p) = n - m
      /\ \A i \in 1..(n - m) : p[i] = m + i
      /\ q \in Seq(Nat) /\ Len(q) = n /\ \A i \in 1..n : q[i] = i
  BY PiecesType, FirstPieces
<1>2. IsPrefix(q, p) => p = q
  <2>1. ASSUME Len(q) <= Len(p) PROVE m = 0
    BY <1>1, <2>1
  <2> QED
    BY <2>1 DEF IsPrefix
<1> HIDE DEF p, q
<1>3. IsSuffix(p, q)
  <2> DEFINE rp == Reverse(p)
             rq == Reverse(q)
  <2>1. /\ rp \in Seq(Nat) /\ Len(rp) = n - m
        /\ \A i \in 1..(n - m) : rp[i] = p[n - m - i + 1]
    BY <1>1 DEF Reverse
  <2>2. /\ rq \in Seq(Nat) /\ Len(rq) = n
        /\ \A i \in 1..n : rq[i] = q[n - i + 1]
    BY <1>1 DEF Reverse
  <2> HIDE DEF rp, rq
  <2>3. ASSUME NEW i \in 1..(n - m)
        PROVE  rp[i] = rq[i]
    <3>1. n - m - i + 1 \in 1..(n - m) /\ i \in 1..n /\ n - i + 1 \in 1..n
      OBVIOUS
    <3>2. rp[i] = m + (n - m - i + 1) /\ rq[i] = n - i + 1
      BY <1>1, <2>1, <2>2, <3>1
    <3> QED
      BY <3>2
  <2>4. n - m <= n
    OBVIOUS
  <2>5. Len(rp) <= Len(rq) /\ \A i \in 1..Len(rp) : rp[i] = rq[i]
    BY <2>1, <2>2, <2>3, <2>4
  <2>6. IsPrefix(rp, rq)
    BY <2>1, <2>2, <2>5, SamePrefix
  <2> QED
    BY <2>6 DEF IsSuffix, rp, rq
<1>4. FinalText(p, q) = q
  BY <1>2, <1>3 DEF FinalText
<1> QED
  BY <1>4 DEF p, q

LEMMA NewPiece ==
  ASSUME NEW n \in Nat
  PROVE  FinalText(<<n + 1>>, Pieces(0, n)) = Pieces(0, n + 1)
<1> DEFINE p == <<n + 1>>
           q == Pieces(0, n)
<1>1. /\ q \in Seq(Nat) /\ Len(q) = n /\ \A i \in 1..n : q[i] = i
      /\ p \in Seq(Nat) /\ Len(p) = 1 /\ p[1] = n + 1 /\ p # <<>>
  BY FirstPieces
<1>2. q \o p = Pieces(0, n + 1)
  BY OneMorePiece
<1> HIDE DEF p, q
<1>3. CASE n = 0
  <2>1. q = <<>>
    BY <1>1, <1>3
  <2>3. /\ q \o p \in Seq(Nat) /\ Len(q \o p) = 1
        /\ (q \o p)[1] = p[1]
    BY <1>1, <1>3
  <2>4. q \o p = p
    BY <1>1, <2>3, SameSequence
  <2>2. IsPrefix(q, p)
    BY <1>1, <2>1 DEF IsPrefix
  <2>5. ~IsSuffix(p, q)
    BY <1>1, <1>3 DEF IsSuffix, IsPrefix, Reverse
  <2>6. FinalText(p, q) = p
    BY <1>1, <2>2, <2>5 DEF FinalText
  <2> QED
    BY <1>2, <2>4, <2>6 DEF p, q
<1>4. CASE n > 0
  <2>1. ~IsPrefix(q, p)
    <3>1. CASE n > 1
      BY <1>1, <3>1 DEF IsPrefix
    <3>2. CASE n = 1
      <4>1. SubSeq(q, 1, 1)[1] = 1 /\ SubSeq(p, 1, 1)[1] = 2
        BY <1>1, <3>2
      <4> QED
        BY <1>1, <3>2, <4>1 DEF IsPrefix
    <3> QED
      BY <1>4, <3>1, <3>2
  <2>2. ~IsSuffix(p, q)
    <3> DEFINE rp == Reverse(p)
               rq == Reverse(q)
    <3>1. rp \in Seq(Nat) /\ Len(rp) = 1 /\ rp[1] = n + 1
      BY <1>1 DEF Reverse
    <3>2. rq \in Seq(Nat) /\ Len(rq) = n /\ rq[1] = n
      BY <1>1, <1>4 DEF Reverse
    <3> HIDE DEF rp, rq
    <3>3. SubSeq(rp, 1, 1)[1] = n + 1 /\ SubSeq(rq, 1, 1)[1] = n
      BY <1>4, <3>1, <3>2
    <3>4. ~IsPrefix(rp, rq)
      BY <3>1, <3>3 DEF IsPrefix
    <3> QED
      BY <3>4 DEF IsSuffix, rp, rq
  <2> QED
    BY <1>1, <1>2, <2>1, <2>2 DEF FinalText, p, q
<1> QED
  BY <1>3, <1>4

LEMMA TextStarts ==
  ASSUME NEW to, Restarted(to)
  PROVE  TextIInv'
<1>1. Pieces(0, 0) = <<>>
  BY FirstPieces, SameSequence
<1> QED
  BY <1>1 DEF Restarted, TextIInv, TextTyped

LEMMA TextStepKeeps ==
  ASSUME TextIInv, TextStep
  PROVE  TextIInv'
<1>0. TextTyped
  BY DEF TextIInv
<1>1. CASE PartialText
  <2>1. /\ message = <<>> /\ message' = <<>> /\ stream = "open"
        /\ parts = Pieces(0, said) /\ deltas \o buffer = parts
        /\ said' = said + 1 /\ parts' = Append(parts, said + 1)
        /\ callFrom' = callFrom
    BY <1>1 DEF PartialText, Listening, TextIInv
  <2>2. parts' = Pieces(0, said')
    BY <1>0, <2>1, OneMorePiece DEF TextTyped
  <2>3. /\ buffer' \in Seq(Nat) /\ deltas' \in Seq(Nat)
        /\ deltas' \o buffer' = Append(deltas \o buffer, said + 1)
    <3>1. CASE buffer' = Append(buffer, said') /\ deltas' = deltas
      <4>1. deltas \o Append(buffer, said + 1) = Append(deltas \o buffer, said + 1)
        BY <1>0 DEF TextTyped
      <4>2. Append(buffer, said + 1) \in Seq(Nat) /\ deltas \in Seq(Nat)
        BY <1>0 DEF TextTyped
      <4>3. buffer' = Append(buffer, said + 1) /\ deltas' = deltas
        BY <2>1, <3>1
      <4> QED
        BY <4>1, <4>2, <4>3
    <3>2. CASE buffer' = <<>> /\ deltas' = Append(Flushed, said')
      <4>1. Append(deltas \o buffer, said + 1) \in Seq(Nat)
        BY <1>0 DEF TextTyped
      <4>2. \A s \in Seq(Nat) : s \o <<>> = s
        OBVIOUS
      <4> QED
        BY <2>1, <3>2, <4>1, <4>2 DEF Flushed
    <3> QED
      BY <1>1, <3>1, <3>2 DEF PartialText
  <2> QED
    BY <1>0, <2>1, <2>2, <2>3 DEF TextIInv, TextTyped
<1>2. ASSUME deltas' = Flushed, buffer' = <<>>,
             UNCHANGED <<said, parts, callFrom, message>>,
             stream = "open"
      PROVE  TextIInv'
  <2>1. \A s \in Seq(Nat) : s \o <<>> = s
    OBVIOUS
  <2>2. deltas \o buffer \in Seq(Nat)
    BY <1>0 DEF TextTyped
  <2>3. buffer = <<>> => deltas \o buffer = deltas
    BY <1>0, <2>1 DEF TextTyped
  <2> QED
    BY <1>0, <1>2, <2>1, <2>2, <2>3 DEF Flushed, TextIInv, TextTyped
<1>3. CASE TimedFlush
  BY <1>2, <1>3 DEF TimedFlush
<1>4. CASE StreamEnds
  BY <1>2, <1>4 DEF StreamEnds
<1>5. CASE ToolAnswered
  BY <1>0, <1>5 DEF ToolAnswered, TextIInv, TextTyped
<1>6. CASE FinalResponse
  <2>1. PICK new \in 0..1 :
          LET text == IF new = 1 THEN <<said + 1>> ELSE Pieces(callFrom, said)
          IN /\ said' = said + new
             /\ message' = FinalText(text, parts)
    BY <1>6 DEF FinalResponse
  <2>2. /\ message' # <<>> /\ deltas' = deltas \o buffer /\ buffer' = <<>>
        /\ parts' = parts /\ callFrom' = callFrom
        /\ parts = Pieces(0, said) /\ deltas \o buffer = parts
    BY <1>6 DEF FinalResponse, Flushed, Listening, TextIInv
  <2>3. said \in Nat /\ callFrom \in 0..said
    BY <1>0 DEF TextTyped
  <2>4. CASE new = 0
    <3>1. said' = said /\ message' = Pieces(0, said)
      BY <2>1, <2>2, <2>3, <2>4, NoNewPiece
    <3>2. IsPrefix(Pieces(0, said), Pieces(0, said))
      BY <2>3, FirstPieces, SamePrefix
    <3> QED
      BY <1>0, <2>2, <2>3, <3>1, <3>2, FirstPieces DEF TextIInv, TextTyped
  <2>5. CASE new = 1
    <3>1. said' = said + 1 /\ message' = Pieces(0, said + 1)
      BY <2>1, <2>2, <2>3, <2>5, NewPiece
    <3>2. said + 1 \in Nat /\ callFrom \in 0..(said + 1)
      BY <2>3
    <3>3. /\ IsPrefix(Pieces(0, said), Pieces(0, said + 1))
          /\ Pieces(0, said + 1) \in Seq(Nat)
      BY <2>3, <3>2, OneMorePiece, FirstPieces
    <3> QED
      BY <1>0, <2>2, <2>3, <3>1, <3>2, <3>3 DEF TextIInv, TextTyped
  <2> QED
    BY <2>4, <2>5
<1>7. CASE StreamRaises
  BY <1>0, <1>7 DEF StreamRaises, TextIInv, TextTyped
<1> QED
  BY <1>1, <1>3, <1>4, <1>5, <1>6, <1>7 DEF TextStep

\* The inductive invariant of an agent's text.
THEOREM TextInvariant == AgentSpec => []TextIInv
<1>1. AgentInit => TextIInv
  <2>1. Pieces(0, 0) = <<>>
    BY FirstPieces, SameSequence
  <2> QED
    BY <2>1 DEF AgentInit, TextInit, TextIInv, TextTyped
<1>2. TextIInv /\ [AgentNext]_agentVars => TextIInv'
  <2> SUFFICES ASSUME TextIInv, [AgentNext]_agentVars
               PROVE  TextIInv'
    OBVIOUS
  <2>1. CASE UNCHANGED textVars
    BY <2>1 DEF textVars, TextIInv, TextTyped
  <2>2. CASE OpenStream \/ CloseStream
    BY <2>2, TextStarts DEF OpenStream, CloseStream
  <2>3. CASE TextStep \/ StreamEnds
    BY <2>3, TextStepKeeps DEF TextStep
  <2> QED
    BY <2>1, <2>2, <2>3
    DEF AgentNext, RunAgent, Speak, Finalize, Elsewhere, agentVars
<1> QED
  BY <1>1, <1>2, PTL DEF AgentSpec

\* Whatever was streamed, flushed and repeated, over any number of model calls,
\* the completed message is all that was said.
THEOREM MessagesAreWhole == AgentSpec => []MessageIsWholeText
<1>1. TextIInv => MessageIsWholeText
  BY DEF TextIInv, MessageIsWholeText
<1> QED
  BY <1>1, TextInvariant, PTL
=============================================================================
