----------------------------- MODULE ChatSession -----------------------------
(***************************************************************************)
(* The chat of one repair session: DiagnosticChatViewModel with the rider  *)
(* in front of it, the SSE channel it collects events from, the requests   *)
(* it posts, and the API that accepts a turn in two looks at the session,  *)
(* one without and one under the row lock.                                 *)
(*                                                                         *)
(* The handlers of the view model run on the main thread and on            *)
(* Dispatchers.IO, and each replaces _uiState by a copy of it that it      *)
(* changed: ReadScreen may take the copy of a handler early, and then its  *)
(* action writes what it makes of that copy over what others wrote in      *)
(* between.  Otherwise a handler is one action.  Coroutines, requests and  *)
(* the event stream interleave freely, so an answer may be handled long    *)
(* after the events of the turn it accepts.  What a worker does with an    *)
(* accepted turn is DiagnosticTurn's; here it is any sequence of the       *)
(* events the chat tells apart.  phase.transitioned and plan reports are   *)
(* handled by the app but written by no code of the API and left out.      *)
(***************************************************************************)
EXTENDS Integers, Sequences, FiniteSets, SequencesExt

CONSTANTS
  Capacity,        \* events the channel of callbackFlow buffers
  StartingDetail,  \* the screen was opened with a first message to send
  MaxPhotos,       \* the photos the rider has
  MaxEvents,       \* bound: no optional event once the log is this long
  MaxEffort        \* bound on requests, photos picked and faults together:
                   \* lost answers, repeated requests, broken streams,
                   \* failed uploads, left screens and, twice, early copies

ASSUME ChatAssumption ==
  /\ Capacity \in Nat \ {0}
  /\ StartingDetail \in BOOLEAN
  /\ MaxPhotos \in Nat
  /\ MaxEvents \in Nat
  /\ MaxEffort \in Nat

VARIABLES
  row,       \* the session row: status, pending request, diagnostic report
  log,       \* its events
  turns,     \* accepted turns: client turn id, message, request answered, start
  open,      \* starts of the turns a worker has not completed
  artifacts, \* photos the API stored

  load,      \* how far loadSessionAndReplayEvents got, and the row it was sent
  ui,        \* DiagnosticChatUiState
  held,      \* bound: the one copy of it taken early, and by which handler
  missed,    \* history: messages trySend refused, those a write over newer
             \* ones erased, and whether one took back that the chat is over
  uploads,   \* photos being uploaded
  posts,     \* requests that submit a turn
  stream,    \* eventJob with its cursors and the connection it collects from
  faults

server == <<row, log, turns, open, artifacts>>
screen == <<ui, held, missed>>
chatVars == <<server, load, screen, uploads, posts, stream, faults>>

NoCursor == -1
Accepting == {"created", "awaiting_user"}
NewRow == [status |-> "created", request |-> 0, report |-> FALSE]
Entry == [step |-> "asking", row |-> NewRow, latest |-> 0]
Idle == [job |-> FALSE, next |-> NoCursor, last |-> 0, conn |-> "off",
         at |-> 0, channel |-> <<>>]

\* messages is two sets here: sent, the rider's, and shown, the assistant's
\* by the sequences of their events.  photos is photoAttachments.
Blank == [session |-> "none", asked |-> 0, request |-> 0, inFlight |-> FALSE,
          streaming |-> FALSE, over |-> FALSE, sent |-> {}, shown |-> {},
          photos |-> {}]
NothingMissed == [full |-> {}, erased |-> {}, revived |-> FALSE]

\* Who may hold a copy: the main thread, the job of the events, the coroutine
\* of a request or of an upload.
Nobody == <<"nobody", 0>>
Rider == <<"rider", 0>>
EventJob == <<"events", 0>>
Request(p) == <<"request", p>>
Upload(photo) == <<"upload", photo>>
Released == [by |-> Nobody, ui |-> Blank]

Init ==
  /\ row = NewRow
  /\ log = <<>>
  /\ turns = {}
  /\ open = {}
  /\ artifacts = {}
  /\ load = Entry
  /\ ui = Blank
  /\ held = Released
  /\ missed = NothingMissed
  /\ uploads = {}
  /\ posts = <<>>
  /\ stream = Idle
  /\ faults = 0

Picked ==
  artifacts \cup uploads \cup {x.photo : x \in ui.photos \cup held.ui.photos}
Effort == Len(posts) + Cardinality(Picked) + faults
Spare == Effort < MaxEffort

Fault ==
  /\ Spare
  /\ faults' = faults + 1

-----------------------------------------------------------------------------
(* The screen's state, read and written without synchronisation. *)

\* _uiState.value, as the handler sees it that will copy it.
Base(who) == IF held.by = who THEN held.ui ELSE ui

\* _uiState.value = u
Write(who, u) ==
  /\ ui' = u
  /\ held' = IF held.by = who THEN Released ELSE held
  /\ missed' = [missed EXCEPT !.erased = @ \cup (ui.shown \ u.shown),
                              !.revived = @ \/ (ui.over /\ ~u.over)]

-----------------------------------------------------------------------------
(* The API. *)

\* asks: the type of a request; snapshot: the session a completion carries.
Event(kind, asks, snapshot) ==
  [kind |-> kind, asks |-> asks, row |-> snapshot]
Plain(kind) == Event(kind, "nothing", row)
Room == Len(log) < MaxEvents

Stored(id) == \E t \in turns : t.id = id

\* _validate_accepting_diagnostic_turns
AcceptsTurns == row.status \in Accepting

\* _validate_input_request
AnswersPending(r) == r = 0 \/ r = row.request

\* accept_turn's first look, without the lock.
Preflight(p) ==
  /\ posts[p].api = "sent"
  /\ posts' = [posts EXCEPT ![p].api =
       IF Stored(posts[p].id) THEN "accepted"
       ELSE IF AcceptsTurns /\ AnswersPending(posts[p].request)
       THEN "checked" ELSE "refused"]
  /\ UNCHANGED <<server, load, screen, uploads, stream, faults>>

\* _validate_artifacts
PhotosReady(p) == posts[p].photos \subseteq artifacts

\* _create_turn_started
CreateTurn(p) ==
  /\ turns' = turns \cup {[id |-> posts[p].id, message |-> posts[p].message,
                           request |-> posts[p].request,
                           start |-> Len(log) + 1]}
  /\ log' = Append(log, Plain("started"))
  /\ open' = open \cup {Len(log) + 1}
  /\ row' = [row EXCEPT !.status = "running", !.request = 0]

\* Faulty: the status is looked at before the client turn id.
CommitTurnStatusFirst(p) ==
  /\ posts[p].api = "checked"
  /\ LET fits == AcceptsTurns /\ AnswersPending(posts[p].request)
     IN /\ posts' = [posts EXCEPT ![p].api =
                       IF fits THEN "accepted" ELSE "refused"]
        /\ IF fits THEN CreateTurn(p)
           ELSE UNCHANGED <<row, log, turns, open>>
  /\ UNCHANGED <<artifacts, load, screen, uploads, stream, faults>>

\* Faulty: what the first look saw is not looked at again under the lock.
CommitTurnUnchecked(p) ==
  /\ posts[p].api = "checked"
  /\ posts' = [posts EXCEPT ![p].api = "accepted"]
  /\ IF Stored(posts[p].id) THEN UNCHANGED <<row, log, turns, open>>
     ELSE CreateTurn(p)
  /\ UNCHANGED <<artifacts, load, screen, uploads, stream, faults>>

\* Under the lock everything is looked at again, on the refreshed row; the
\* unique index on the client turn id therefore never has to refuse.
CommitTurn(p) ==
  /\ posts[p].api = "checked"
  /\ LET known == Stored(posts[p].id)
         fits == /\ AcceptsTurns
                 /\ AnswersPending(posts[p].request)
                 /\ PhotosReady(p)
     IN /\ posts' = [posts EXCEPT ![p].api =
                       IF known \/ fits THEN "accepted" ELSE "refused"]
        /\ IF ~known /\ fits THEN CreateTurn(p)
           ELSE UNCHANGED <<row, log, turns, open>>
  /\ UNCHANGED <<artifacts, load, screen, uploads, stream, faults>>

\* The transport delivers an unanswered request a second time.
Redeliver(p) ==
  /\ Spare
  /\ posts[p].app = "waiting"
  /\ posts[p].api # "none"
  /\ posts' = Append(posts, [posts[p] EXCEPT !.app = "closed", !.api = "sent"])
  /\ UNCHANGED <<server, load, screen, uploads, stream, faults>>

-----------------------------------------------------------------------------
(* The worker's side of an accepted turn. *)

Say ==
  /\ open # {}
  /\ Room
  /\ \E kind \in {"delta", "assistant", "error"} :
       log' = Append(log, Plain(kind))
  /\ UNCHANGED <<row, turns, open, artifacts, load, screen, uploads, posts,
                 stream, faults>>

AskRider ==
  /\ open # {}
  /\ Room
  /\ \E asks \in {"text", "photo"} :
       log' = Append(log, Event("input", asks, row))
  /\ row' = [row EXCEPT !.status = "awaiting_user", !.request = Len(log')]
  /\ UNCHANGED <<turns, open, artifacts, load, screen, uploads, posts, stream,
                 faults>>

\* The report's event changes nothing the app decides by: it is the snapshot
\* of the completion that ends the chat.
SaveReport ==
  /\ open # {}
  /\ ~row.report
  /\ row' = [row EXCEPT !.status = "awaiting_decision", !.report = TRUE]
  /\ UNCHANGED <<log, turns, open, artifacts, load, screen, uploads, posts,
                 stream, faults>>

\* append_diagnostic_completion; the error event of a failed turn is Say's.
Complete ==
  /\ \E t \in open : open' = open \ {t}
  /\ \E status \in IF row.report THEN {"awaiting_decision"}
                   ELSE {"awaiting_user", "failed"} :
       /\ status = "failed" => \E i \in DOMAIN log : log[i].kind = "error"
       /\ row' = [row EXCEPT !.status = status]
  /\ log' = Append(log, Event("completed", "nothing", row'))
  /\ UNCHANGED <<turns, artifacts, load, screen, uploads, posts, stream,
                 faults>>

-----------------------------------------------------------------------------
(* Opening the screen. *)

ReadSession ==
  /\ load.step = "asking"
  /\ load' = [step |-> "answered", row |-> row, latest |-> Len(log)]
  /\ UNCHANGED <<server, screen, uploads, posts, stream, faults>>

LoadFails ==
  /\ load.step = "asking"
  /\ Fault
  /\ load' = [load EXCEPT !.step = "failed"]
  /\ UNCHANGED <<server, screen, uploads, posts, stream>>

\* What applyLoadedSession makes of the answer.
LoadedUi(r) ==
  [Blank EXCEPT
     !.session = r.status,
     !.asked = r.request,
     !.over = r.report,
     !.request = IF ~r.report /\ r.status = "awaiting_user"
                 THEN r.request ELSE 0]

Asks(u) == IF u.request = 0 THEN "nothing" ELSE log[u.request].asks

\* canAcceptUserInput
CanAcceptInput(u) == ~u.over /\ (u.request # 0 \/ u.session \in Accepting)

\* canSubmitTurn; there is always something to say.
CanSubmit(u, chosen) ==
  /\ CanAcceptInput(u)
  /\ Asks(u) = "photo" => chosen # {}
  /\ \A x \in u.photos : x.status # "uploading"
  /\ ~u.inFlight
  /\ ~u.streaming

\* activeInputRequestId
ActiveRequest(u) == IF u.request = u.asked THEN u.request ELSE 0

\* submitTurn draws the id of a new message: the number of its request here.
Draw == Len(posts) + 1

\* buildOptimisticMessage and appendOptimisticMessage
WithMessage(u, chosen) ==
  [u EXCEPT !.sent = @ \cup {[id |-> Draw, state |-> "sending",
                              request |-> ActiveRequest(u), photos |-> chosen]},
            !.photos = {}]

\* The coroutine of submitTurn with its request, not yet running.
\* createTurnRequest draws the client turn id.
Post(message, request, chosen, first) ==
  [id |-> Len(posts) + 1, message |-> message, request |-> request,
   photos |-> chosen, first |-> first, app |-> "launched", api |-> "none"]

\* Until the session is there the rider can do nothing, and the starting
\* detail follows at once: no other handler has a copy of the screen.
ApplyLoaded ==
  /\ load.step = "answered"
  /\ load' = [Entry EXCEPT !.step = "applied"]
  /\ stream' = [stream EXCEPT !.last = load.latest]
  /\ LET u == LoadedUi(load.row)
     IN IF StartingDetail /\ CanSubmit(u, {}) /\ Spare
        THEN /\ ui' = WithMessage(u, {})
             /\ posts' = Append(posts, Post(Draw, ActiveRequest(u), {}, TRUE))
        ELSE ui' = u /\ UNCHANGED posts
  /\ UNCHANGED <<server, held, missed, uploads, faults>>

\* startEventReplay cancels the job that runs and starts one at a cursor.
Replayed(cursor) ==
  [stream EXCEPT !.job = TRUE, !.next = cursor, !.conn = "off", !.at = 0,
                 !.channel = <<>>]

\* A job an accepted turn started meanwhile ends once its handler returns.
StartReplay ==
  /\ load.step = "applied"
  /\ held.by # EventJob
  /\ load' = [load EXCEPT !.step = "open"]
  /\ stream' = Replayed(0)
  /\ UNCHANGED <<server, screen, uploads, posts, faults>>

\* The rider leaves and opens the screen again: a new view model.  Requests
\* on their way are cancelled here and may still reach the API.
Reopen ==
  /\ load.step \in {"open", "failed"}
  /\ Fault
  /\ load' = Entry
  /\ ui' = Blank
  /\ held' = Released
  /\ missed' = NothingMissed
  /\ uploads' = {}
  /\ posts' = [p \in DOMAIN posts |-> [posts[p] EXCEPT !.app = "closed"]]
  /\ stream' = Idle
  /\ UNCHANGED server

\* The rider types, picks a photo, or taps a photo or a failed message.
CanTap(u) ==
  \/ CanAcceptInput(u)
  \/ u.photos # {}
  \/ \E m \in u.sent : m.state = "failed"

\* The handlers that have begun: their cause is there and they did not write.
Begun ==
  {who \in {Rider} : load.step \in {"applied", "open"} /\ CanTap(ui)} \cup
  {who \in {EventJob} : stream.channel # <<>>} \cup
  {Request(p) : p \in {q \in DOMAIN posts :
     \/ posts[q].app = "launched"
     \/ posts[q].app = "waiting" /\ posts[q].api \in {"accepted", "refused"}}} \cup
  {Upload(photo) : photo \in uploads \cap artifacts}

\* A handler reads _uiState.value, and others run before it writes.  Bound:
\* this counts as two faults.
ReadScreen(who) ==
  /\ held = Released
  /\ Effort + 2 <= MaxEffort
  /\ faults' = faults + 2
  /\ held' = [by |-> who, ui |-> ui]
  /\ UNCHANGED <<server, load, ui, missed, uploads, posts, stream>>

\* onDraftTextChanged, where it matters: a copy with a newer draft only.
Type ==
  /\ held.by = Rider
  /\ CanAcceptInput(held.ui) /\ ~held.ui.inFlight /\ ~held.ui.streaming
  /\ Write(Rider, held.ui)
  /\ UNCHANGED <<server, load, uploads, posts, stream, faults>>

-----------------------------------------------------------------------------
(* Submitting a turn. *)

\* selectedArtifactIds: syncSelectedArtifactIds keeps it to this.
Selected(u) == {x.photo : x \in {y \in u.photos : y.status = "ready"}}

\* submitTextTurn and submitChoiceTurn.  isTurnInFlight is not set yet, so a
\* second tap may come before the coroutine runs.
Submit ==
  LET u == Base(Rider)
      chosen == Selected(u)
  IN /\ load.step \in {"applied", "open"}
     /\ Spare
     /\ CanSubmit(u, chosen)
     /\ Write(Rider, WithMessage(u, chosen))
     /\ posts' = Append(posts, Post(Draw, ActiveRequest(u), chosen, TRUE))
     /\ UNCHANGED <<server, load, uploads, stream, faults>>

\* markMessageDeliveryState: no effect on a message that is not there.
Marked(u, message, state) ==
  [u EXCEPT !.sent = {IF m.id = message THEN [m EXCEPT !.state = state] ELSE m :
                      m \in u.sent}]

\* retryMessage: the message is shown as sending even when submitTurn then
\* returns at once.
Retry(m) ==
  /\ Spare
  /\ m.state = "failed"
  /\ Write(Rider, Marked(Base(Rider), m.id, "sending"))
  /\ posts' = IF CanSubmit(Base(Rider), m.photos)
              THEN Append(posts, Post(m.id, m.request, m.photos, FALSE))
              ELSE posts
  /\ UNCHANGED <<server, load, uploads, stream, faults>>

\* setTurnSubmissionInFlight: the composer is cleared once more.
Launch(p) ==
  /\ posts[p].app = "launched"
  /\ posts' = [posts EXCEPT ![p].app = "waiting", ![p].api = "sent"]
  /\ Write(Request(p), [Base(Request(p)) EXCEPT
                          !.inFlight = TRUE,
                          !.photos = IF posts[p].first THEN {} ELSE @])
  /\ UNCHANGED <<server, load, uploads, stream, faults>>

\* handleAcceptedTurn, with ensureEventReplay.
HandleAccepted(p) ==
  /\ posts[p].app = "waiting"
  /\ posts[p].api = "accepted"
  /\ posts' = [posts EXCEPT ![p].app = "closed"]
  /\ Write(Request(p), [Marked(Base(Request(p)), posts[p].message, "sent") EXCEPT
                          !.session = "running", !.asked = 0, !.request = 0,
                          !.inFlight = TRUE])
  /\ LET turn == CHOOSE t \in turns : t.id = posts[p].id
     IN stream' = IF stream.job THEN stream ELSE Replayed(turn.start)
  /\ UNCHANGED <<server, load, uploads, faults>>

\* Faulty: a turn without a good answer leaves its message as it was sent.
RejectedAsSent(p) ==
  /\ posts' = [posts EXCEPT ![p].app = "closed"]
  /\ Write(Request(p), [Marked(Base(Request(p)), posts[p].message, "sent") EXCEPT
                          !.inFlight = FALSE])

\* handleRejectedTurn
Rejected(p) ==
  /\ posts' = [posts EXCEPT ![p].app = "closed"]
  /\ Write(Request(p), [Marked(Base(Request(p)), posts[p].message, "failed") EXCEPT
                          !.inFlight = FALSE])

HandleRejected(p) ==
  /\ posts[p].app = "waiting"
  /\ posts[p].api = "refused"
  /\ Rejected(p)
  /\ UNCHANGED <<server, load, uploads, stream, faults>>

\* The answer is lost, or the request times out, wherever the API is with it.
LoseAnswer(p) ==
  /\ posts[p].app = "waiting"
  /\ Fault
  /\ Rejected(p)
  /\ UNCHANGED <<server, load, uploads, stream>>

-----------------------------------------------------------------------------
(* Photos. *)

WithStatus(u, photo, status) ==
  [u EXCEPT !.photos = {IF x.photo = photo THEN [x EXCEPT !.status = status]
                        ELSE x : x \in u.photos}]

\* onPhotosSelected; the picker may return while a turn is in flight.
PickPhoto(photo) ==
  /\ load.step \in {"applied", "open"}
  /\ CanAcceptInput(Base(Rider))
  /\ Spare
  /\ photo \notin Picked
  /\ Write(Rider, [Base(Rider) EXCEPT
                     !.photos = @ \cup {[photo |-> photo, status |-> "uploading"]}])
  /\ uploads' = uploads \cup {photo}
  /\ UNCHANGED <<server, load, posts, stream, faults>>

\* removePhotoAttachment
RemovePhoto(x) ==
  /\ Write(Rider, [Base(Rider) EXCEPT !.photos = @ \ {x}])
  /\ UNCHANGED <<server, load, uploads, posts, stream, faults>>

\* retryPhotoUpload
RetryUpload(x) ==
  /\ x.status = "failed"
  /\ Write(Rider, WithStatus(Base(Rider), x.photo, "uploading"))
  /\ uploads' = uploads \cup {x.photo}
  /\ UNCHANGED <<server, load, posts, stream, faults>>

\* upload_artifact: the object is stored, then its row committed as ready.
StoreArtifact(photo) ==
  /\ photo \in uploads
  /\ artifacts' = artifacts \cup {photo}
  /\ UNCHANGED <<row, log, turns, open, load, screen, uploads, posts, stream,
                 faults>>

\* markAttachmentReady: no effect on a photo that left the composer.
UploadReady(photo) ==
  /\ photo \in uploads \cap artifacts
  /\ uploads' = uploads \ {photo}
  /\ Write(Upload(photo), WithStatus(Base(Upload(photo)), photo, "ready"))
  /\ UNCHANGED <<server, load, posts, stream, faults>>

\* markAttachmentFailed
UploadFails(photo) ==
  /\ photo \in uploads
  /\ Fault
  /\ uploads' = uploads \ {photo}
  /\ Write(Upload(photo), WithStatus(Base(Upload(photo)), photo, "failed"))
  /\ UNCHANGED <<server, load, posts, stream>>

-----------------------------------------------------------------------------
(* The event stream. *)

\* Faulty: a replay begins where the loaded session ended.
CursorSkippingReplay ==
  IF stream.next > 0 THEN stream.next ELSE stream.last

Cursor == IF stream.next = NoCursor THEN stream.last ELSE stream.next

\* The connection that ended is collected to its last event first.
Disconnected == stream.conn = "off" /\ stream.channel = <<>>

Connect ==
  /\ stream.job
  /\ Disconnected
  /\ ~ui.over
  /\ stream' = [stream EXCEPT !.conn = "open", !.at = Cursor]
  /\ UNCHANGED <<server, load, screen, uploads, posts, faults>>

EndJob ==
  /\ stream.job
  /\ Disconnected
  /\ ui.over
  /\ stream' = [stream EXCEPT !.job = FALSE]
  /\ UNCHANGED <<server, load, screen, uploads, posts, faults>>

\* onEvent; the result of trySend is ignored.
Receive ==
  /\ stream.conn = "open"
  /\ stream.at < Len(log)
  /\ LET i == stream.at + 1
         full == Len(stream.channel) = Capacity
     IN /\ stream' = [stream EXCEPT !.at = i,
                        !.channel = IF full THEN @ ELSE Append(@, i)]
        /\ missed' = IF full /\ log[i].kind = "assistant"
                     THEN [missed EXCEPT !.full = @ \cup {i}] ELSE missed
  /\ UNCHANGED <<server, load, ui, held, uploads, posts, faults>>

\* onFailure and onClosed: what the channel holds is still collected.
Disconnect ==
  /\ stream.conn = "open"
  /\ Fault
  /\ stream' = [stream EXCEPT !.conn = "off", !.at = 0]
  /\ UNCHANGED <<server, load, screen, uploads, posts>>

\* applyTurnStarted
TurnStarted(u) ==
  [u EXCEPT !.inFlight = TRUE, !.request = 0, !.session = "running",
            !.asked = 0]

\* applyTurnCompleted
TurnCompleted(u, r) ==
  LET request == IF r.request # 0 THEN r.request
                 ELSE IF r.status \in {"awaiting_user", "awaiting_decision"}
                 THEN u.request ELSE 0
  IN [u EXCEPT !.inFlight = FALSE, !.session = r.status, !.asked = request,
               !.request = request, !.over = @ \/ r.report]

\* handleSseEvent's choice among the apply functions.
Applied(u, i) ==
  CASE log[i].kind = "started" -> TurnStarted(u)
    [] log[i].kind = "delta" -> [u EXCEPT !.streaming = TRUE]
    [] log[i].kind = "assistant" ->
         [u EXCEPT !.streaming = FALSE, !.shown = @ \cup {i}]
    [] log[i].kind = "input" -> [u EXCEPT !.request = i, !.asked = i]
    [] log[i].kind = "completed" -> TurnCompleted(u, log[i].row)
    [] log[i].kind = "error" ->
         [u EXCEPT !.inFlight = FALSE, !.streaming = FALSE]

\* lastEventId moves before the screen is read; nobody looks at it between.
HandleEvent ==
  /\ stream.channel # <<>>
  /\ LET i == Head(stream.channel)
     IN /\ stream' = [stream EXCEPT !.channel = Tail(@), !.last = i,
                                    !.next = NoCursor]
        /\ Write(EventJob, Applied(Base(EventJob), i))
  /\ UNCHANGED <<server, load, uploads, posts, faults>>

-----------------------------------------------------------------------------
Api(p) == Preflight(p) \/ CommitTurn(p) \/ Redeliver(p)
Worker == Say \/ AskRider \/ SaveReport \/ Complete
Screen == ReadSession \/ LoadFails \/ ApplyLoaded \/ StartReplay \/ Reopen
Answer(p) == HandleAccepted(p) \/ HandleRejected(p) \/ LoseAnswer(p)
Photo(p) == PickPhoto(p) \/ StoreArtifact(p) \/ UploadReady(p) \/ UploadFails(p)
Events == Connect \/ EndJob \/ Receive \/ Disconnect \/ HandleEvent

ChatNext ==
  \/ Screen \/ Type \/ Submit \/ Worker \/ Events
  \/ \E who \in Begun : ReadScreen(who)
  \/ \E p \in DOMAIN posts : Api(p) \/ Launch(p) \/ Answer(p)
  \/ \E m \in Base(Rider).sent : Retry(m)
  \/ \E photo \in 1..MaxPhotos : Photo(photo)
  \/ \E x \in Base(Rider).photos : RemovePhoto(x) \/ RetryUpload(x)

ChatSpec == Init /\ [][ChatNext]_chatVars

-----------------------------------------------------------------------------
(* Properties. *)

\* A client turn id names one turn, however often its request is delivered
\* and whatever happens to the session between two deliveries.
OneTurnPerClientId ==
  \A s, t \in turns : s.id = t.id => s = t

\* An answer is recorded for the request it was given to: between the two no
\* other turn started and no other request was made, although the app may
\* answer from a screen that is behind, and the API looks twice.
AnswerFollowsItsRequest ==
  \A t \in turns : t.request # 0 =>
    /\ log[t.request].kind = "input"
    /\ t.request < t.start
    /\ \A i \in t.request + 1..t.start - 1 :
         log[i].kind \notin {"started", "input"}

\* A message shown as sent is a turn of the session.
SentIsStored ==
  \A m \in ui.sent :
    m.state = "sent" => \E t \in turns : t.message = m.id

CaughtUp ==
  /\ load.step = "open"
  /\ stream.conn = "open"
  /\ stream.channel = <<>>
  /\ stream.at = Len(log)
Settled == \A p \in DOMAIN posts : posts[p].app = "closed"

\* However often the stream breaks, the transcript of an app that has caught
\* up misses no message of the assistant but one the channel had no room for,
\* and one a handler erased that wrote an older copy of the screen over it.
\* Nothing is said of a chat whose end was erased like that: its job of the
\* events has ended, and the next one starts at the turn that was accepted.
TranscriptComplete ==
  CaughtUp /\ ~missed.revived =>
    \A i \in DOMAIN log : log[i].kind = "assistant" =>
      i \in ui.shown \cup missed.full \cup missed.erased

\* docs/specs/android/mvp-spec.md: isTurnInFlight is "true from POST turns to
\* turn.completed".  Violated: handleAcceptedTurn sets it after the events of
\* a turn that is already over.
InFlightEndsWithCompletion ==
  CaughtUp /\ Settled /\ open = {} => ~ui.inFlight

=============================================================================
