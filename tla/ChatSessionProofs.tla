-------------------------- MODULE ChatSessionProofs --------------------------
(***************************************************************************)
(* Proofs about ChatSession, for any capacity of the channel, any number   *)
(* of photos and any bound on the effort: accepted turns are told apart by *)
(* their client turn ids, an answer belongs to the request it was given    *)
(* to, a message shown as sent is stored, and an app that has caught up    *)
(* shows every message of the assistant but those its channel refused and  *)
(* those that were written over.                                           *)
(***************************************************************************)
EXTENDS ChatSession, SequenceTheorems, TLAPS

-----------------------------------------------------------------------------
(* Types. *)

Statuses == {"created", "awaiting_user", "awaiting_decision", "running",
             "failed"}
Rows == [status : Statuses, request : Nat, report : BOOLEAN]
Kinds == {"started", "delta", "assistant", "error", "input", "completed"}
Entries == [kind : Kinds, asks : {"nothing", "text", "photo"}, row : Rows]
Turns == [id : Nat, message : Nat, request : Nat, start : Nat]
Texts == [id : Nat, state : {"sending", "sent", "failed"}, request : Nat,
          photos : SUBSET Nat]
Photos == [photo : Nat, status : {"uploading", "ready", "failed"}]
Requests == [id : Nat, message : Nat, request : Nat, photos : SUBSET Nat,
             first : BOOLEAN, app : {"launched", "waiting", "closed"},
             api : {"none", "sent", "checked", "accepted", "refused"}]
Screens == [session : Statuses \cup {"none"}, asked : Nat, request : Nat,
            inFlight : BOOLEAN, streaming : BOOLEAN, over : BOOLEAN,
            sent : SUBSET Texts, shown : SUBSET Nat, photos : SUBSET Photos]
Losses == [full : SUBSET Nat, erased : SUBSET Nat, revived : BOOLEAN]
Queues == Seq(Nat)
Streams == [job : BOOLEAN, next : Int, last : Nat, conn : {"off", "open"},
            at : Int, channel : Queues]
Loads == [step : {"asking", "answered", "applied", "open", "failed"},
          row : Rows, latest : Nat]

ServerType ==
  /\ row \in Rows
  /\ log \in Seq(Entries)
  /\ turns \in SUBSET Turns
  /\ open \in SUBSET Nat
  /\ artifacts \in SUBSET Nat
ScreenType ==
  /\ ui \in Screens
  /\ held.ui \in Screens
  /\ missed \in Losses
AppType ==
  /\ load \in Loads
  /\ uploads \in SUBSET Nat
  /\ posts \in Seq(Requests)
  /\ stream \in Streams
  /\ faults \in Nat
ChatType == ServerType /\ ScreenType /\ AppType

-----------------------------------------------------------------------------
(* The inductive invariants. *)

\* No turn started and no request was made after entry k, up to entry n.
QuietFrom(k, n) ==
  \A i \in Nat : k < i /\ i <= n => log[i].kind \notin {"started", "input"}

IsRequest(k) == k \in 1..Len(log) /\ log[k].kind = "input"

\* The pending request of the row is the last thing that happened to it.
PendingIsLatest ==
  row.request # 0 => IsRequest(row.request) /\ QuietFrom(row.request, Len(log))

InOrder(t) ==
  /\ t.start \in 1..Len(log)
  /\ t.request # 0 => /\ IsRequest(t.request)
                      /\ t.request < t.start
                      /\ QuietFrom(t.request, t.start - 1)
TurnsInOrder == \A t \in turns : InOrder(t)

\* What a request says is fixed by its client turn id, and a turn says what
\* its request said.
RequestsMatch ==
  /\ \A p \in 1..Len(posts) :
       /\ posts[p].id \in 1..Len(posts)
       /\ posts[p].api = "accepted" => \E t \in turns : t.id = posts[p].id
  /\ \A p, q \in 1..Len(posts) :
       posts[p].id = posts[q].id => posts[p].message = posts[q].message
  /\ \A t \in turns : \E p \in 1..Len(posts) :
       t.id = posts[p].id /\ t.message = posts[p].message

\* Nobody has a message that is shown as sent and is not stored, on the
\* screen or in a copy of it.
SentStored(u) ==
  \A m \in u.sent :
    m.state = "sent" => \E t \in turns : t.message = m.id

TurnsInv ==
  /\ OneTurnPerClientId
  /\ PendingIsLatest
  /\ TurnsInOrder
  /\ RequestsMatch
  /\ SentStored(ui)
  /\ SentStored(held.ui)

Queued(k) == \E j \in 1..Len(stream.channel) : stream.channel[j] = k
Accounted(k) == k \in ui.shown \cup missed.full \cup missed.erased

\* The events received are in the order of the log.
CursorsInLog ==
  /\ stream.at \in 0..Len(log)
  /\ stream.last <= Len(log)
  /\ stream.next \in NoCursor..Len(log)
  /\ load.latest <= Len(log)
  /\ \A j \in 1..Len(stream.channel) : stream.channel[j] \in 1..Len(log)
  /\ stream.conn = "open" =>
       \A j \in 1..Len(stream.channel) : stream.channel[j] <= stream.at
  /\ \A j, k \in 1..Len(stream.channel) :
       j < k => stream.channel[j] < stream.channel[k]

\* Event k was handled, waits in the channel, or is known to be missed.
Met(k) == log[k].kind = "assistant" => Accounted(k) \/ Queued(k)

\* Where the next connection starts, everything before was met and handled;
\* so was what comes before an event in the channel, unless it is there too;
\* and where this connection is, everything before was met.
Covered ==
  load.step = "open" /\ ~missed.revived =>
    /\ ~ui.over => stream.job /\ stream.next \in {NoCursor, 0}
    /\ stream.next = NoCursor =>
         \A i \in 1..stream.last : log[i].kind = "assistant" => Accounted(i)
    /\ \A j \in 1..Len(stream.channel) :
         \A i \in 1..stream.channel[j] : Met(i)
    /\ stream.conn = "open" => \A i \in 1..stream.at : Met(i)

StreamInv == CursorsInLog /\ Covered

ChatInv == ChatType /\ TurnsInv /\ StreamInv

-----------------------------------------------------------------------------
(* Types are kept. *)

\* A new function on the places of a sequence is a sequence.
LEMMA Rewritten ==
  ASSUME NEW S, NEW T, NEW s \in Seq(S), NEW t \in [1..Len(s) -> T]
  PROVE  t \in Seq(T) /\ Len(t) = Len(s) /\ DOMAIN t = DOMAIN s
<1>1. Len(s) \in Nat /\ DOMAIN s = 1..Len(s)
  BY LenProperties
<1>2. t \in Seq(T)
  BY <1>1, SeqDef
<1>3. Len(t) \in Nat /\ DOMAIN t = 1..Len(t)
  BY <1>2, LenProperties
<1>4. DOMAIN t = 1..Len(s)
  OBVIOUS
<1> QED
  BY <1>1, <1>2, <1>3, <1>4

\* Request p is at stage app in the app and at stage api in the API.
Moved(p, app, api) ==
  posts' = [posts EXCEPT ![p] = [posts[p] EXCEPT !.app = app, !.api = api]]

\* One request changes its stage.
LEMMA PostMoves ==
  ASSUME posts \in Seq(Requests), NEW p \in DOMAIN posts,
         NEW app \in {"launched", "waiting", "closed"},
         NEW api \in {"none", "sent", "checked", "accepted", "refused"},
         Moved(p, app, api)
  PROVE  /\ posts' \in Seq(Requests)
         /\ Len(posts') = Len(posts)
         /\ DOMAIN posts' = DOMAIN posts
         /\ \A q \in DOMAIN posts :
              /\ posts'[q].id = posts[q].id
              /\ posts'[q].message = posts[q].message
              /\ posts'[q].api = IF q = p THEN api ELSE posts[q].api
<1> DEFINE w == [posts[p] EXCEPT !.app = app, !.api = api]
<1>1. DOMAIN posts = 1..Len(posts) /\ Len(posts) \in Nat
  BY LenProperties
<1>2. posts[p] \in Requests
  BY <1>1, ElementOfSeq
<1>3. /\ w \in Requests
      /\ w.id = posts[p].id
      /\ w.message = posts[p].message
      /\ w.api = api
  BY <1>2 DEF Requests
<1>4. posts' = [posts EXCEPT ![p] = w]
  BY DEF Moved
<1> HIDE DEF w
<1>5. /\ posts' \in Seq(Requests)
      /\ Len(posts') = Len(posts)
      /\ \A q \in 1..Len(posts) : posts'[q] = IF q = p THEN w ELSE posts[q]
  BY <1>1, <1>3, <1>4, ExceptSeq
<1>6. DOMAIN posts' = 1..Len(posts)
  BY <1>5, LenProperties
<1> QED
  BY <1>1, <1>3, <1>5, <1>6

-----------------------------------------------------------------------------
(* The screen and its copies. *)

\* A handler writes u, and shows no message as sent that its copy did not and
\* that is not stored.
Draws(who, u) ==
  /\ Write(who, u)
  /\ u \in Screens
  /\ \A m \in u.sent : m.state = "sent" =>
       m \in Base(who).sent \/ \E t \in turns : t.message = m.id
Drawn == \E who, u : Draws(who, u)

\* A message becomes sent, here or in a copy, only when its turn is stored.
SentGrows ==
  \A m \in ui'.sent \cup held'.ui.sent : m.state = "sent" =>
    \/ m \in ui.sent \cup held.ui.sent
    \/ \E t \in turns : t.message = m.id

\* Nothing is forgotten: an event that was accounted for still is, and a chat
\* that was over still is unless that is recorded.
Keeps ==
  /\ \A k : Accounted(k) => Accounted(k)'
  /\ ~missed'.revived => ~missed.revived /\ (~ui'.over => ~ui.over)

LEMMA BlankType ==
  Blank \in Screens /\ Blank.sent = {}
BY DEF Blank, Screens, Texts, Photos

\* What a handler writes is typed and forgets nothing, whatever it copied.
LEMMA DrawnKeeps ==
  ASSUME ScreenType, Drawn
  PROVE  ScreenType' /\ SentGrows /\ Keeps
<1>1. PICK who, u : Draws(who, u)
  BY DEF Drawn
<1>2. /\ ui' = u /\ u \in Screens
      /\ held'.ui = Blank \/ held'.ui = held.ui
      /\ Base(who) = ui \/ Base(who) = held.ui
  BY <1>1 DEF Draws, Write, Released, Base
<1>3. /\ missed'.erased = missed.erased \cup (ui.shown \ u.shown)
      /\ missed'.full = missed.full
      /\ missed'.revived = (missed.revived \/ (ui.over /\ ~u.over))
      /\ missed' \in Losses
  <2>1. ui.shown \in SUBSET Nat /\ ui.over \in BOOLEAN /\ u.over \in BOOLEAN
    BY <1>2 DEF ScreenType, Screens
  <2>2. missed' = [missed EXCEPT
                     !.erased = missed.erased \cup (ui.shown \ u.shown),
                     !.revived = missed.revived \/ (ui.over /\ ~u.over)]
    BY <1>1 DEF Draws, Write
  <2>3. missed \in Losses
    BY DEF ScreenType
  <2> DEFINE gone == missed.erased \cup (ui.shown \ u.shown)
             back == missed.revived \/ (ui.over /\ ~u.over)
  <2>4. gone \in SUBSET Nat /\ back \in BOOLEAN
    BY <2>1, <2>3 DEF Losses
  <2>5. missed' = [missed EXCEPT !.erased = gone, !.revived = back]
    BY <2>2
  <2>6. gone = missed.erased \cup (ui.shown \ u.shown)
        /\ back = (missed.revived \/ (ui.over /\ ~u.over))
    OBVIOUS
  <2> HIDE DEF gone, back
  <2>7. /\ missed'.erased = gone /\ missed'.full = missed.full
        /\ missed'.revived = back /\ missed' \in Losses
    BY <2>3, <2>4, <2>5 DEF Losses
  <2> QED
    BY <2>6, <2>7
<1>4. ScreenType'
  BY <1>2, <1>3, BlankType DEF ScreenType
<1>5. SentGrows
  BY <1>1, <1>2, BlankType DEF SentGrows, Draws
<1>6. Keeps
  BY <1>2, <1>3 DEF Keeps, Accounted
<1> QED
  BY <1>4, <1>5, <1>6

LEMMA BaseType ==
  ASSUME ScreenType, NEW who
  PROVE  Base(who) \in Screens
BY DEF Base, ScreenType

\* No message of v is shown as sent but one that u shows so.
Follows(v, u) ==
  v \in Screens /\ \A m \in v.sent : m.state = "sent" => m \in u.sent

LEMMA FollowsDrawn ==
  ASSUME NEW who, NEW u, Write(who, u), Follows(u, Base(who))
  PROVE  Drawn
BY DEF Drawn, Draws, Follows

\* What the screen becomes of the session it loaded.
LEMMA LoadedType ==
  ASSUME NEW r \in Rows
  PROVE  LoadedUi(r) \in Screens /\ LoadedUi(r).sent = {}
BY BlankType DEF LoadedUi, Blank, Screens, Rows, Statuses

LEMMA ActiveType ==
  ASSUME NEW u \in Screens
  PROVE  ActiveRequest(u) \in Nat
BY DEF ActiveRequest, Screens

\* The optimistic message.
LEMMA WithMessageType ==
  ASSUME posts \in Seq(Requests), NEW u \in Screens, NEW chosen \in SUBSET Nat
  PROVE  Follows(WithMessage(u, chosen), u)
<1> DEFINE text == [id |-> Draw, state |-> "sending",
                    request |-> ActiveRequest(u), photos |-> chosen]
           texts == u.sent \cup {text}
<1>1. Draw \in Nat
  BY LenProperties DEF Draw
<1>2. text \in Texts /\ text.state = "sending"
  BY <1>1, ActiveType DEF Texts
<1>3. WithMessage(u, chosen) = [u EXCEPT !.sent = texts, !.photos = {}]
  BY DEF WithMessage
<1>4. /\ texts \in SUBSET Texts
      /\ \A m \in texts : m.state = "sent" => m \in u.sent
  BY <1>2 DEF Screens
<1> HIDE DEF texts
<1> QED
  BY <1>3, <1>4 DEF Follows, Screens

LEMMA MarkedType ==
  ASSUME NEW u \in Screens, NEW message, NEW state \in {"sending", "sent", "failed"}
  PROVE  /\ Marked(u, message, state) \in Screens
         /\ \A m \in Marked(u, message, state).sent : m.state = "sent" =>
              m \in u.sent \/ (state = "sent" /\ m.id = message)
<1> DEFINE texts == {IF m.id = message THEN [m EXCEPT !.state = state] ELSE m :
                     m \in u.sent}
<1>1. Marked(u, message, state) = [u EXCEPT !.sent = texts]
  BY DEF Marked
<1>2. \A m \in u.sent : m \in Texts
  BY DEF Screens
<1>3. \A m \in Texts : /\ [m EXCEPT !.state = state] \in Texts
                       /\ [m EXCEPT !.state = state].state = state
                       /\ [m EXCEPT !.state = state].id = m.id
  BY DEF Texts
<1>4. ASSUME NEW n \in texts
      PROVE  /\ n \in Texts
             /\ n.state = "sent" =>
                  n \in u.sent \/ (state = "sent" /\ n.id = message)
  <2>1. PICK m \in u.sent :
          n = IF m.id = message THEN [m EXCEPT !.state = state] ELSE m
    OBVIOUS
  <2>2. m \in Texts
    BY <1>2
  <2> QED
    BY <1>3, <2>1, <2>2
<1>5. texts \in SUBSET Texts
  BY <1>4
<1> HIDE DEF texts
<1> QED
  BY <1>1, <1>4, <1>5 DEF Screens

LEMMA WithStatusType ==
  ASSUME NEW u \in Screens, NEW photo,
         NEW status \in {"uploading", "ready", "failed"}
  PROVE  Follows(WithStatus(u, photo, status), u)
<1> DEFINE shots == {IF x.photo = photo THEN [x EXCEPT !.status = status] ELSE x :
                     x \in u.photos}
<1>1. WithStatus(u, photo, status) = [u EXCEPT !.photos = shots]
  BY DEF WithStatus
<1>2. \A x \in u.photos : x \in Photos
  BY DEF Screens
<1>3. \A x \in Photos : [x EXCEPT !.status = status] \in Photos
  BY DEF Photos
<1>4. shots \in SUBSET Photos
  BY <1>2, <1>3
<1> HIDE DEF shots
<1> QED
  BY <1>1, <1>4 DEF Follows, Screens

LEMMA SelectedType ==
  ASSUME NEW u \in Screens
  PROVE  Selected(u) \in SUBSET Nat
BY DEF Selected, Screens, Photos

\* What an event makes of the screen.
LEMMA AppliedType ==
  ASSUME NEW u \in Screens, NEW i \in Nat, log[i] \in Entries
  PROVE  /\ Follows(Applied(u, i), u)
         /\ log[i].kind = "assistant" => i \in Applied(u, i).shown
<1> DEFINE r == log[i].row
<1>1. r \in Rows /\ log[i].kind \in Kinds
  BY DEF Entries
<1>2. Follows(TurnStarted(u), u)
  BY DEF TurnStarted, Follows, Screens, Statuses
<1>3. Follows(TurnCompleted(u, r), u)
  <2> DEFINE request ==
        IF r.request # 0 THEN r.request
        ELSE IF r.status \in {"awaiting_user", "awaiting_decision"}
        THEN u.request ELSE 0
      over == u.over \/ r.report
  <2>1. request \in Nat /\ over \in BOOLEAN
    BY <1>1 DEF Rows, Screens
  <2>2. TurnCompleted(u, r) =
          [u EXCEPT !.inFlight = FALSE, !.session = r.status,
                    !.asked = request, !.request = request, !.over = over]
    BY DEF TurnCompleted, Screens
  <2>3. r.status \in Statuses
    BY <1>1 DEF Rows
  <2> HIDE DEF request, r, over
  <2> DEFINE ended == [u EXCEPT !.inFlight = FALSE, !.session = r.status,
                                !.asked = request]
  <2>4. ended \in Screens /\ ended.sent = u.sent
    BY <2>1, <2>3 DEF Screens
  <2>5. TurnCompleted(u, r) = [ended EXCEPT !.request = request, !.over = over]
    BY <2>2
  <2> HIDE DEF ended
  <2> QED
    BY <2>1, <2>4, <2>5 DEF Follows, Screens
<1> HIDE DEF r
<1>4. Follows([u EXCEPT !.streaming = TRUE], u)
  BY DEF Follows, Screens
<1>5. /\ Follows([u EXCEPT !.streaming = FALSE, !.shown = u.shown \cup {i}], u)
      /\ i \in [u EXCEPT !.streaming = FALSE, !.shown = u.shown \cup {i}].shown
  BY DEF Follows, Screens
<1>6. Follows([u EXCEPT !.request = i, !.asked = i], u)
  BY DEF Follows, Screens
<1>7. Follows([u EXCEPT !.inFlight = FALSE, !.streaming = FALSE], u)
  BY DEF Follows, Screens
<1>8. CASE log[i].kind = "started"
  BY <1>2, <1>8 DEF Applied
<1>9. CASE log[i].kind = "completed"
  BY <1>3, <1>9 DEF Applied, r
<1>10. CASE log[i].kind = "delta"
  BY <1>4, <1>10 DEF Applied
<1>11. CASE log[i].kind = "assistant"
  BY <1>5, <1>11 DEF Applied
<1>12. CASE log[i].kind = "input"
  BY <1>6, <1>12 DEF Applied
<1>13. CASE log[i].kind = "error"
  BY <1>7, <1>13 DEF Applied
<1> QED
  BY <1>1, <1>8, <1>9, <1>10, <1>11, <1>12, <1>13 DEF Kinds

\* What the handlers of the API do to the requests and to the server.
LEMMA ApiTypes ==
  ASSUME ChatType, NEW p \in DOMAIN posts, Api(p)
  PROVE  ChatType'
<1>1. /\ DOMAIN posts = 1..Len(posts) /\ Len(posts) \in Nat
      /\ posts[p] \in Requests
  BY LenProperties, ElementOfSeq DEF ChatType, AppType
<1>2. CASE Preflight(p)
  <2>1. \E app \in {"launched", "waiting", "closed"},
           api \in {"accepted", "checked", "refused"} :
          Moved(p, app, api)
    BY <1>1, <1>2 DEF Preflight, Requests, Moved
  <2>2. posts' \in Seq(Requests)
    BY <2>1, PostMoves DEF ChatType, AppType
  <2> QED
    BY <1>2, <2>2
       DEF Preflight, ChatType, ServerType, ScreenType, AppType, server, screen
<1>3. CASE CommitTurn(p)
  <2>1. \E app \in {"launched", "waiting", "closed"},
           api \in {"accepted", "refused"} :
          Moved(p, app, api)
    BY <1>1, <1>3 DEF CommitTurn, Requests, Moved
  <2>2. posts' \in Seq(Requests)
    BY <2>1, PostMoves DEF ChatType, AppType
  <2>3. CreateTurn(p) \/ UNCHANGED <<row, log, turns, open>>
    BY <1>3 DEF CommitTurn
  <2>4. CASE CreateTurn(p)
    <3>1. Plain("started") \in Entries
      BY DEF Plain, Event, Entries, Kinds, ChatType, ServerType
    <3>2. log' \in Seq(Entries) /\ Len(log) \in Nat
      BY <2>4, <3>1, AppendProperties, LenProperties
         DEF CreateTurn, ChatType, ServerType
    <3>3. row' \in Rows
      BY <2>4 DEF CreateTurn, ChatType, ServerType, Rows, Statuses
    <3>4. turns' \in SUBSET Turns
      BY <1>1, <2>4, <3>2 DEF CreateTurn, ChatType, ServerType, Turns, Requests
    <3>5. open' \in SUBSET Nat
      BY <2>4, <3>2 DEF CreateTurn, ChatType, ServerType
    <3> QED
      BY <1>3, <2>2, <3>2, <3>3, <3>4, <3>5
         DEF CommitTurn, ChatType, ServerType, ScreenType, AppType, screen
  <2>5. CASE UNCHANGED <<row, log, turns, open>>
    BY <1>3, <2>2, <2>5
       DEF CommitTurn, ChatType, ServerType, ScreenType, AppType, screen
  <2> QED
    BY <2>3, <2>4, <2>5
<1>4. CASE Redeliver(p)
  <2>1. [posts[p] EXCEPT !.app = "closed", !.api = "sent"] \in Requests
    BY <1>1 DEF Requests
  <2>2. posts' \in Seq(Requests)
    BY <1>4, <2>1, AppendProperties DEF Redeliver, ChatType, AppType
  <2> QED
    BY <1>4, <2>2
       DEF Redeliver, ChatType, ServerType, ScreenType, AppType, server, screen
<1> QED
  BY <1>2, <1>3, <1>4 DEF Api

\* What the worker appends and decides.
LEMMA WorkerTypes ==
  ASSUME ChatType, Worker
  PROVE  ChatType'
<1>1. row \in Rows /\ log \in Seq(Entries) /\ Len(log) \in Nat
  BY LenProperties DEF ChatType, ServerType
<1>2. CASE Say
  <2>1. PICK kind \in {"delta", "assistant", "error"} :
          log' = Append(log, Plain(kind))
    BY <1>2 DEF Say
  <2>2. Plain(kind) \in Entries
    BY <1>1 DEF Plain, Event, Entries, Kinds
  <2>3. log' \in Seq(Entries)
    BY <1>1, <2>1, <2>2, AppendProperties
  <2> QED
    BY <1>2, <2>3 DEF Say, ChatType, ServerType, ScreenType, AppType, screen
<1>3. CASE AskRider
  <2>1. PICK asks \in {"text", "photo"} :
          log' = Append(log, Event("input", asks, row))
    BY <1>3 DEF AskRider
  <2>2. Event("input", asks, row) \in Entries
    BY <1>1 DEF Event, Entries, Kinds
  <2>3. log' \in Seq(Entries) /\ Len(log') \in Nat
    BY <1>1, <2>1, <2>2, AppendProperties, LenProperties
  <2>4. row' \in Rows
    BY <1>1, <1>3, <2>3 DEF AskRider, Rows, Statuses
  <2> QED
    BY <1>3, <2>3, <2>4
       DEF AskRider, ChatType, ServerType, ScreenType, AppType, screen
<1>4. CASE SaveReport
  <2>1. row' \in Rows
    BY <1>1, <1>4 DEF SaveReport, Rows, Statuses
  <2> QED
    BY <1>4, <2>1
       DEF SaveReport, ChatType, ServerType, ScreenType, AppType, screen
<1>5. CASE Complete
  <2>1. PICK status \in {"awaiting_decision", "awaiting_user", "failed"} :
          row' = [row EXCEPT !.status = status]
    BY <1>5 DEF Complete
  <2>2. row' \in Rows
    BY <1>1, <2>1 DEF Rows, Statuses
  <2>3. Event("completed", "nothing", row') \in Entries
    BY <2>2 DEF Event, Entries, Kinds
  <2>4. log' \in Seq(Entries)
    BY <1>1, <1>5, <2>3, AppendProperties DEF Complete
  <2>5. open' \in SUBSET Nat
    BY <1>5 DEF Complete, ChatType, ServerType
  <2> QED
    BY <1>5, <2>2, <2>4, <2>5
       DEF Complete, ChatType, ServerType, ScreenType, AppType, screen
<1> QED
  BY <1>2, <1>3, <1>4, <1>5 DEF Worker

-----------------------------------------------------------------------------
(* Requests. *)

\* The requests keep what they say; one more may say what an earlier one
\* said, or something new under an id of its own.
RequestsKept ==
  \A p \in 1..Len(posts) :
    /\ posts'[p].id = posts[p].id
    /\ posts'[p].message = posts[p].message
    /\ posts'[p].api = "accepted" =>
         posts[p].api = "accepted" \/ \E t \in turns' : t.id = posts[p].id
NewRequest ==
  \E new \in Requests :
    /\ posts' = Append(posts, new)
    /\ new.api # "accepted"
    /\ \/ new.id = Len(posts) + 1
       \/ \E p \in 1..Len(posts) : /\ new.id = posts[p].id
                                   /\ new.message = posts[p].message
PostsGrow == NewRequest \/ (RequestsKept /\ Len(posts') = Len(posts))

LEMMA PostsSame ==
  ASSUME posts' = posts
  PROVE  PostsGrow
BY DEF PostsGrow, RequestsKept

\* A request moves on.
LEMMA PostMoved ==
  ASSUME posts \in Seq(Requests), NEW p \in DOMAIN posts,
         NEW app \in {"launched", "waiting", "closed"},
         NEW api \in {"none", "sent", "checked", "accepted", "refused"},
         Moved(p, app, api),
         api = "accepted" => posts[p].api = "accepted"
                             \/ \E t \in turns' : t.id = posts[p].id
  PROVE  posts' \in Seq(Requests) /\ PostsGrow
<1>1. /\ posts' \in Seq(Requests)
      /\ Len(posts') = Len(posts)
      /\ DOMAIN posts' = DOMAIN posts
      /\ \A q \in DOMAIN posts :
           /\ posts'[q].id = posts[q].id
           /\ posts'[q].message = posts[q].message
           /\ posts'[q].api = IF q = p THEN api ELSE posts[q].api
  BY PostMoves
<1>2. DOMAIN posts = 1..Len(posts)
  BY LenProperties
<1> QED
  BY <1>1, <1>2 DEF PostsGrow, RequestsKept

\* submitTurn starts a coroutine.
LEMMA PostMade ==
  ASSUME posts \in Seq(Requests), NEW message \in Nat, NEW request \in Nat,
         NEW chosen \in SUBSET Nat, NEW first \in BOOLEAN,
         posts' = Append(posts, Post(message, request, chosen, first))
  PROVE  posts' \in Seq(Requests) /\ PostsGrow
<1> DEFINE new == Post(message, request, chosen, first)
<1>1. Len(posts) + 1 \in Nat
  BY LenProperties
<1>2. new \in Requests /\ new.id = Len(posts) + 1 /\ new.api = "none"
  BY <1>1 DEF Post, Requests
<1>3. posts' = Append(posts, new)
  OBVIOUS
<1> HIDE DEF new
<1>4. posts' \in Seq(Requests)
  BY <1>2, <1>3, AppendProperties
<1>5. NewRequest
  BY <1>2, <1>3 DEF NewRequest
<1> QED
  BY <1>4, <1>5 DEF PostsGrow

-----------------------------------------------------------------------------
(* The handlers of the app. *)

\* The job of the events as a replay leaves it.
LEMMA ReplayedIs ==
  ASSUME stream \in Streams, NEW cursor \in Int
  PROVE  /\ Replayed(cursor) \in Streams
         /\ Replayed(cursor).job
         /\ Replayed(cursor).next = cursor
         /\ Replayed(cursor).last = stream.last
         /\ Replayed(cursor).conn = "off"
         /\ Replayed(cursor).at = 0
         /\ Replayed(cursor).channel = <<>>
<1> DEFINE moved == [stream EXCEPT !.at = 0]
           started == [moved EXCEPT !.job = TRUE, !.next = cursor]
<1>1. moved \in Streams /\ moved.at = 0 /\ moved.last = stream.last
  BY DEF Streams
<1> HIDE DEF moved
<1>2. /\ started \in Streams
      /\ started.job
      /\ started.next = cursor
      /\ started.last = stream.last
      /\ started.at = 0
  BY <1>1 DEF Streams
<1>3. Replayed(cursor) = [started EXCEPT !.conn = "off", !.channel = <<>>]
  BY DEF Replayed, moved, Streams
<1> HIDE DEF started
<1>4. <<>> \in Queues
  BY EmptySeq DEF Queues
<1> QED
  BY <1>2, <1>3, <1>4 DEF Streams

\* Opening the screen, up to the replay of the events.
LEMMA ScreenTypes ==
  ASSUME ChatType, SentStored(held.ui), Screen
  PROVE  ChatType' /\ PostsGrow /\ SentGrows
<1>1. /\ load \in Loads /\ stream \in Streams /\ row \in Rows /\ Len(log) \in Nat
      /\ posts \in Seq(Requests) /\ DOMAIN posts = 1..Len(posts)
      /\ Len(posts) \in Nat
      /\ \A p \in 1..Len(posts) : posts[p] \in Requests
  BY LenProperties, ElementOfSeq DEF ChatType, AppType, ServerType
<1>2. Entry \in Loads
  BY DEF Entry, Loads, NewRow, Rows, Statuses
<1>3. UNCHANGED <<screen, posts>> => ScreenType' /\ PostsGrow /\ SentGrows
  BY PostsSame DEF ChatType, ScreenType, SentGrows, screen
<1>4. CASE ReadSession
  <2>1. load' \in Loads
    BY <1>1, <1>4 DEF ReadSession, Loads
  <2>2. ScreenType' /\ PostsGrow /\ SentGrows
    BY <1>3, <1>4 DEF ReadSession
  <2> QED
    BY <1>4, <2>1, <2>2 DEF ReadSession, ChatType, ServerType, AppType, server
<1>5. CASE LoadFails
  <2>1. load' \in Loads
    BY <1>1, <1>5 DEF LoadFails, Loads
  <2>2. ScreenType' /\ PostsGrow /\ SentGrows
    BY <1>3, <1>5 DEF LoadFails
  <2> QED
    BY <1>5, <2>1, <2>2
       DEF LoadFails, Fault, ChatType, ServerType, AppType, server
<1>6. CASE ApplyLoaded
  <2> DEFINE u == LoadedUi(load.row)
  <2>1. load' \in Loads
    BY <1>1, <1>2, <1>6 DEF ApplyLoaded, Loads, Entry
  <2>2. u \in Screens /\ u.sent = {}
    BY <1>1, LoadedType DEF Loads
  <2>3. stream' \in Streams
    BY <1>1, <1>6 DEF ApplyLoaded, Streams, Loads
  <2>4. \/ /\ ui' = WithMessage(u, {})
           /\ posts' = Append(posts, Post(Draw, ActiveRequest(u), {}, TRUE))
        \/ ui' = u /\ posts' = posts
    BY <1>6 DEF ApplyLoaded
  <2> HIDE DEF u
  <2>5. /\ Draw \in Nat /\ ActiveRequest(u) \in Nat
        /\ Follows(WithMessage(u, {}), u) /\ Follows(u, u)
    BY <1>1, <2>2, ActiveType, WithMessageType DEF Draw, Follows
  <2>6. posts' \in Seq(Requests) /\ PostsGrow
    BY <1>1, <2>4, <2>5, PostMade, PostsSame
  <2>7. ui' \in Screens /\ \A m \in ui'.sent : m.state # "sent"
    BY <2>2, <2>4, <2>5 DEF Follows
  <2>8. SentGrows
    BY <1>6, <2>7 DEF ApplyLoaded, SentGrows
  <2>9. ScreenType'
    BY <1>6, <2>7 DEF ApplyLoaded, ChatType, ScreenType
  <2> QED
    BY <1>6, <2>1, <2>3, <2>6, <2>8, <2>9
       DEF ApplyLoaded, ChatType, ServerType, AppType, server
<1>7. CASE StartReplay
  <2>1. load' \in Loads
    BY <1>1, <1>7 DEF StartReplay, Loads
  <2>2. stream' \in Streams
    BY <1>1, <1>7, ReplayedIs DEF StartReplay
  <2>3. ScreenType' /\ PostsGrow /\ SentGrows
    BY <1>3, <1>7 DEF StartReplay
  <2> QED
    BY <1>7, <2>1, <2>2, <2>3
       DEF StartReplay, ChatType, ServerType, AppType, server
<1>8. CASE Reopen
  <2>1. stream' \in Streams /\ load' \in Loads
    BY <1>2, <1>8, EmptySeq DEF Reopen, Idle, NoCursor, Streams, Queues
  <2>2. ScreenType' /\ SentGrows
    <3>1. ui' = Blank /\ held'.ui = Blank
      BY <1>8 DEF Reopen, Released
    <3>2. missed' \in Losses
      BY <1>8 DEF Reopen, NothingMissed, Losses
    <3> QED
      BY <3>1, <3>2, BlankType DEF ScreenType, SentGrows
  <2>3. posts' \in Seq(Requests) /\ PostsGrow
    <3>1. posts' = [p \in DOMAIN posts |-> [posts[p] EXCEPT !.app = "closed"]]
      BY <1>8 DEF Reopen
    <3>2. \A p \in 1..Len(posts) :
            /\ [posts[p] EXCEPT !.app = "closed"] \in Requests
            /\ [posts[p] EXCEPT !.app = "closed"].id = posts[p].id
            /\ [posts[p] EXCEPT !.app = "closed"].message = posts[p].message
            /\ [posts[p] EXCEPT !.app = "closed"].api = posts[p].api
      BY <1>1 DEF Requests
    <3>3. /\ posts' \in [1..Len(posts) -> Requests]
          /\ RequestsKept
      BY <1>1, <3>1, <3>2 DEF RequestsKept
    <3> QED
      BY <1>1, <3>3, Rewritten DEF PostsGrow
  <2>4. uploads' = {} /\ UNCHANGED <<row, log, turns, open, artifacts>>
    BY <1>8 DEF Reopen, server
  <2>5. faults' \in Nat
    BY <1>8 DEF Reopen, Fault, ChatType, AppType
  <2> QED
    BY <2>1, <2>2, <2>3, <2>4, <2>5 DEF ChatType, ServerType, AppType
<1> QED
  BY <1>4, <1>5, <1>6, <1>7, <1>8 DEF Screen

\* A handler takes its copy early.
LEMMA ReadTypes ==
  ASSUME ChatType, NEW who, ReadScreen(who)
  PROVE  ChatType' /\ PostsGrow /\ SentGrows /\ Keeps
<1>1. /\ ui' = ui /\ held'.ui = ui /\ missed' = missed /\ posts' = posts
      /\ faults' \in Nat
  BY DEF ReadScreen, ChatType, AppType
<1>2. ScreenType' /\ SentGrows /\ Keeps
  BY <1>1 DEF ChatType, ScreenType, SentGrows, Keeps, Accounted
<1> QED
  BY <1>1, <1>2, PostsSame DEF ReadScreen, ChatType, ServerType, AppType, server

\* The rider: typing, submitting a turn, a new one or once more.
LEMMA RiderTypes ==
  ASSUME ChatType, Type \/ Submit \/ \E m \in Base(Rider).sent : Retry(m)
  PROVE  ChatType' /\ PostsGrow /\ Drawn
<1>1. /\ ScreenType /\ posts \in Seq(Requests) /\ Base(Rider) \in Screens
      /\ Len(posts) \in Nat
  BY BaseType, LenProperties DEF ChatType, AppType
<1>2. CASE Type
  <2>1. Write(Rider, Base(Rider)) /\ posts' = posts
    BY <1>2 DEF Type, Base
  <2>2. Drawn
    BY <1>1, <2>1, FollowsDrawn DEF Follows
  <2>3. ScreenType'
    BY <1>1, <2>2, DrawnKeeps
  <2> QED
    BY <1>2, <2>1, <2>2, <2>3, PostsSame
       DEF Type, ChatType, ServerType, AppType, server
<1>3. CASE Submit
  <2> DEFINE u == Base(Rider)
             chosen == Selected(u)
  <2>1. /\ Write(Rider, WithMessage(u, chosen))
        /\ posts' = Append(posts, Post(Draw, ActiveRequest(u), chosen, TRUE))
    BY <1>3 DEF Submit
  <2>2. u \in Screens /\ chosen \in SUBSET Nat /\ u = Base(Rider)
    BY <1>1, SelectedType
  <2> HIDE DEF u, chosen
  <2>3. Draw \in Nat /\ ActiveRequest(u) \in Nat
    BY <1>1, <2>2, ActiveType DEF Draw
  <2>4. posts' \in Seq(Requests) /\ PostsGrow
    BY <1>1, <2>1, <2>2, <2>3, PostMade
  <2>5. Drawn
    BY <1>1, <2>1, <2>2, WithMessageType, FollowsDrawn
  <2>6. ScreenType'
    BY <1>1, <2>5, DrawnKeeps
  <2> QED
    BY <1>3, <2>4, <2>5, <2>6 DEF Submit, ChatType, ServerType, AppType, server
<1>4. ASSUME NEW m \in Base(Rider).sent, Retry(m)
      PROVE  ChatType' /\ PostsGrow /\ Drawn
  <2>1. /\ Write(Rider, Marked(Base(Rider), m.id, "sending"))
        /\ \/ posts' = Append(posts, Post(m.id, m.request, m.photos, FALSE))
           \/ posts' = posts
    BY <1>4 DEF Retry
  <2>2. m \in Texts
    BY <1>1 DEF Screens
  <2>3. m.id \in Nat /\ m.request \in Nat /\ m.photos \in SUBSET Nat
    BY <2>2 DEF Texts
  <2>4. posts' \in Seq(Requests) /\ PostsGrow
    BY <1>1, <2>1, <2>3, PostMade, PostsSame
  <2>5. Follows(Marked(Base(Rider), m.id, "sending"), Base(Rider))
    BY <1>1, MarkedType DEF Follows
  <2>6. Drawn
    BY <2>1, <2>5, FollowsDrawn
  <2>7. ScreenType'
    BY <1>1, <2>6, DrawnKeeps
  <2> QED
    BY <1>4, <2>4, <2>6, <2>7 DEF Retry, ChatType, ServerType, AppType, server
<1> QED
  BY <1>2, <1>3, <1>4

\* Photos picked, removed and uploaded.
LEMMA PhotoTypes ==
  ASSUME ChatType,
         \/ \E photo \in 1..MaxPhotos : Photo(photo)
         \/ \E x \in Base(Rider).photos : RemovePhoto(x) \/ RetryUpload(x)
  PROVE  /\ ChatType'
         /\ UNCHANGED <<row, log, turns, open, load, posts, stream>>
         /\ Drawn \/ UNCHANGED screen
<1>1. /\ ScreenType /\ uploads \in SUBSET Nat /\ artifacts \in SUBSET Nat
      /\ faults \in Nat
  BY DEF ChatType, AppType, ServerType
<1>2. ASSUME NEW who, NEW photo,
             NEW status \in {"uploading", "ready", "failed"},
             Write(who, WithStatus(Base(who), photo, status))
      PROVE  Drawn
  BY <1>1, <1>2, BaseType, WithStatusType, FollowsDrawn
<1>3. ASSUME Drawn \/ UNCHANGED screen
      PROVE  ScreenType'
  BY <1>1, <1>3, DrawnKeeps DEF ScreenType, screen
<1>4. ASSUME NEW photo \in 1..MaxPhotos, Photo(photo)
      PROVE  /\ uploads' \in SUBSET Nat
             /\ artifacts' \in SUBSET Nat
             /\ faults' \in Nat
             /\ UNCHANGED <<row, log, turns, open, load, posts, stream>>
             /\ Drawn \/ UNCHANGED screen
  <2>1. photo \in Nat
    BY ChatAssumption
  <2>2. CASE PickPhoto(photo)
    <3> DEFINE shots == Base(Rider).photos
                          \cup {[photo |-> photo, status |-> "uploading"]}
               v == [Base(Rider) EXCEPT !.photos = shots]
    <3>1. shots \in SUBSET Photos
      BY <1>1, <2>1, BaseType DEF Screens, Photos
    <3>2. Write(Rider, v)
      BY <2>2 DEF PickPhoto
    <3>3. Follows(v, Base(Rider))
      <4> HIDE DEF shots
      <4> QED
        BY <1>1, <3>1, BaseType DEF Follows, Screens
    <3> HIDE DEF v
    <3>4. Drawn
      BY <3>2, <3>3, FollowsDrawn
    <3> QED
      BY <1>1, <2>1, <2>2, <3>4 DEF PickPhoto, server
  <2>3. CASE StoreArtifact(photo)
    BY <1>1, <2>1, <2>3 DEF StoreArtifact
  <2>4. CASE UploadReady(photo)
    BY <1>1, <1>2, <2>4 DEF UploadReady, server
  <2>5. CASE UploadFails(photo)
    BY <1>1, <1>2, <2>5 DEF UploadFails, Fault, server
  <2> QED
    BY <1>4, <2>2, <2>3, <2>4, <2>5 DEF Photo
<1>5. ASSUME NEW x \in Base(Rider).photos, RemovePhoto(x) \/ RetryUpload(x)
      PROVE  /\ uploads' \in SUBSET Nat
             /\ UNCHANGED <<row, log, turns, open, artifacts, load, posts,
                            stream, faults>>
             /\ Drawn
  <2>1. x \in Photos /\ x.photo \in Nat
    BY <1>1, BaseType DEF Screens, Photos
  <2>2. CASE RemovePhoto(x)
    <3> DEFINE v == [Base(Rider) EXCEPT !.photos = Base(Rider).photos \ {x}]
    <3>1. Write(Rider, v)
      BY <2>2 DEF RemovePhoto
    <3>2. Follows(v, Base(Rider))
      BY <1>1, BaseType DEF Follows, Screens
    <3> HIDE DEF v
    <3> QED
      BY <1>1, <2>2, <3>1, <3>2, FollowsDrawn DEF RemovePhoto, server
  <2>3. CASE RetryUpload(x)
    BY <1>1, <1>2, <2>1, <2>3 DEF RetryUpload, server
  <2> QED
    BY <1>5, <2>2, <2>3
<1>6. ScreenType' /\ (Drawn \/ UNCHANGED screen)
  BY <1>3, <1>4, <1>5
<1> QED
  BY <1>4, <1>5, <1>6 DEF ChatType, ServerType, AppType


\* Sending a request, and hearing of it: a replay begins where an accepted
\* turn starts, if no job of the events runs.
LEMMA PostTypes ==
  ASSUME ChatType, RequestsMatch, NEW p \in DOMAIN posts, Launch(p) \/ Answer(p)
  PROVE  /\ ChatType'
         /\ PostsGrow
         /\ Drawn
         /\ UNCHANGED <<row, log, turns, load>>
         /\ \/ stream' = stream
            \/ ~stream.job /\ \E t \in turns : stream' = Replayed(t.start)
<1>1. /\ ScreenType /\ posts \in Seq(Requests) /\ DOMAIN posts = 1..Len(posts)
      /\ posts[p] \in Requests /\ stream \in Streams /\ faults \in Nat
      /\ Base(Request(p)) \in Screens
  BY LenProperties, ElementOfSeq, BaseType DEF ChatType, AppType
<1>2. posts' = [posts EXCEPT ![p].app = "closed"] =>
        posts' \in Seq(Requests) /\ PostsGrow
  <2>1. ASSUME posts' = [posts EXCEPT ![p].app = "closed"]
        PROVE  Moved(p, "closed", posts[p].api)
    BY <1>1, <2>1 DEF Moved, Requests
  <2>2. posts[p].api \in {"none", "sent", "checked", "accepted", "refused"}
    BY <1>1 DEF Requests
  <2> QED
    BY <1>1, <2>1, <2>2, PostMoved
<1> DEFINE u == Base(Request(p))
           text == posts[p].message
<1>3. CASE Launch(p)
  <2> DEFINE shots == IF posts[p].first THEN {} ELSE u.photos
             v == [u EXCEPT !.inFlight = TRUE, !.photos = shots]
  <2>1. /\ Write(Request(p), v)
        /\ Moved(p, "waiting", "sent")
        /\ UNCHANGED <<server, load, uploads, stream, faults>>
    BY <1>3 DEF Launch, Moved
  <2>2. shots \in SUBSET Photos
    BY <1>1 DEF Screens
  <2>3. Follows(v, u)
    <3> HIDE DEF shots
    <3>1. u \in Screens
      BY <1>1
    <3> HIDE DEF u
    <3> QED
      BY <2>2, <3>1 DEF Follows, Screens
  <2> HIDE DEF v
  <2>4. Drawn
    BY <2>1, <2>3, FollowsDrawn
  <2>5. ScreenType'
    BY <1>1, <2>4, DrawnKeeps
  <2>6. posts' \in Seq(Requests) /\ PostsGrow
    BY <1>1, <2>1, PostMoved
  <2> QED
    BY <2>1, <2>4, <2>5, <2>6 DEF ChatType, ServerType, AppType, server
<1>4. CASE HandleAccepted(p)
  <2> DEFINE w == Marked(u, text, "sent")
             v == [w EXCEPT !.session = "running", !.asked = 0, !.request = 0,
                            !.inFlight = TRUE]
             turn == CHOOSE t \in turns : t.id = posts[p].id
  <2>1. /\ Write(Request(p), v)
        /\ posts' = [posts EXCEPT ![p].app = "closed"]
        /\ stream' = IF stream.job THEN stream ELSE Replayed(turn.start)
        /\ UNCHANGED <<server, load, uploads, faults>>
    BY <1>4 DEF HandleAccepted
  <2>2. \E t \in turns : t.id = posts[p].id
    BY <1>1, <1>4 DEF HandleAccepted, RequestsMatch
  <2>3. turn \in turns
    BY <2>2
  <2> HIDE DEF turn
  <2>4. \A t \in turns : t.id = posts[p].id => t.message = text
    BY <1>1 DEF RequestsMatch
  <2>5. /\ w \in Screens
        /\ \A m \in w.sent : m.state = "sent" =>
             m \in u.sent \/ \E t \in turns : t.message = m.id
    <3>1. u \in Screens
      BY <1>1
    <3> HIDE DEF u, text
    <3> QED
      BY <2>2, <2>4, <3>1, MarkedType
  <2>6. v \in Screens /\ v.sent = w.sent
    <3> HIDE DEF w
    <3> QED
      BY <2>5 DEF Screens, Statuses
  <2> HIDE DEF v, w
  <2>7. Drawn
    BY <2>1, <2>5, <2>6 DEF Drawn, Draws
  <2>8. ScreenType'
    BY <1>1, <2>7, DrawnKeeps
  <2>9. stream' = stream \/ (~stream.job /\ stream' = Replayed(turn.start))
    BY <2>1
  <2>10. stream' \in Streams
    <3>1. turn.start \in Int
      BY <2>3 DEF ChatType, ServerType, Turns
    <3> QED
      BY <1>1, <2>9, <3>1, ReplayedIs
  <2> QED
    BY <1>2, <2>1, <2>3, <2>7, <2>8, <2>9, <2>10
       DEF ChatType, ServerType, AppType, server
<1>5. CASE HandleRejected(p) \/ LoseAnswer(p)
  <2> DEFINE w == Marked(u, text, "failed")
             v == [w EXCEPT !.inFlight = FALSE]
  <2>1. /\ Write(Request(p), v)
        /\ posts' = [posts EXCEPT ![p].app = "closed"]
        /\ faults' \in Nat
        /\ UNCHANGED <<server, load, uploads, stream>>
    BY <1>1, <1>5 DEF HandleRejected, LoseAnswer, Fault, Rejected
  <2>2. w \in Screens /\ \A m \in w.sent : m.state = "sent" => m \in u.sent
    <3>1. u \in Screens
      BY <1>1
    <3> HIDE DEF u, text
    <3> QED
      BY <3>1, MarkedType
  <2>3. Follows(v, u)
    <3> HIDE DEF w, u
    <3> QED
      BY <2>2 DEF Follows, Screens
  <2> HIDE DEF v
  <2>4. Drawn
    BY <2>1, <2>3, FollowsDrawn
  <2>5. ScreenType'
    BY <1>1, <2>4, DrawnKeeps
  <2> QED
    BY <1>2, <2>1, <2>4, <2>5 DEF ChatType, ServerType, AppType, server
<1> QED
  BY <1>3, <1>4, <1>5 DEF Answer

-----------------------------------------------------------------------------
(* The events. *)

\* The event at the head of the channel is one of the log, and the rest
\* follows it.
LEMMA HeadOfChannel ==
  ASSUME ChatType, CursorsInLog, stream.channel # <<>>
  PROVE  /\ Head(stream.channel) = stream.channel[1]
         /\ stream.channel[1] \in 1..Len(log)
         /\ log[stream.channel[1]] \in Entries
         /\ Tail(stream.channel) \in Seq(Nat)
         /\ Len(stream.channel) \in Nat /\ Len(stream.channel) >= 1
         /\ Len(Tail(stream.channel)) = Len(stream.channel) - 1
         /\ \A j \in 1..Len(stream.channel) - 1 :
              Tail(stream.channel)[j] = stream.channel[j + 1]
<1>1. stream.channel \in Seq(Nat) /\ log \in Seq(Entries)
  BY DEF ChatType, AppType, ServerType, Streams, Queues
<1>2. /\ Tail(stream.channel) \in Seq(Nat)
      /\ Len(Tail(stream.channel)) = Len(stream.channel) - 1
      /\ \A j \in 1..Len(Tail(stream.channel)) :
           Tail(stream.channel)[j] = stream.channel[j + 1]
      /\ Len(stream.channel) \in Nat /\ Len(log) \in Nat
  BY <1>1, HeadTailProperties, LenProperties
<1>3. Len(stream.channel) >= 1 /\ Head(stream.channel) = stream.channel[1]
  BY <1>1, EmptySeq
<1>4. stream.channel[1] \in 1..Len(log)
  BY <1>2, <1>3 DEF CursorsInLog
<1>5. log[stream.channel[1]] \in Entries
  BY <1>1, <1>4, ElementOfSeq
<1> QED
  BY <1>2, <1>3, <1>4, <1>5

\* The stream that has received, or handled, up to event k.
ReceivedTo(k, queue) == [stream EXCEPT !.at = k, !.channel = queue]
HandledTo(k, queue) ==
  [stream EXCEPT !.channel = queue, !.last = k, !.next = NoCursor]

LEMMA StreamMoves ==
  ASSUME stream \in Streams, NEW k \in Nat, NEW queue \in Queues
  PROVE  /\ ReceivedTo(k, queue) \in Streams
         /\ ReceivedTo(k, queue).at = k
         /\ ReceivedTo(k, queue).channel = queue
         /\ ReceivedTo(k, queue).job = stream.job
         /\ ReceivedTo(k, queue).next = stream.next
         /\ ReceivedTo(k, queue).last = stream.last
         /\ ReceivedTo(k, queue).conn = stream.conn
         /\ HandledTo(k, queue) \in Streams
         /\ HandledTo(k, queue).at = stream.at
         /\ HandledTo(k, queue).channel = queue
         /\ HandledTo(k, queue).job = stream.job
         /\ HandledTo(k, queue).next = NoCursor
         /\ HandledTo(k, queue).last = k
         /\ HandledTo(k, queue).conn = stream.conn
<1>0. NoCursor \in Int
  BY DEF NoCursor
<1> DEFINE moved == [stream EXCEPT !.at = k]
           handled == [stream EXCEPT !.last = k, !.next = NoCursor]
<1>1. /\ moved \in Streams
      /\ moved.at = k
      /\ moved.job = stream.job
      /\ moved.next = stream.next
      /\ moved.last = stream.last
      /\ moved.conn = stream.conn
  BY DEF Streams
<1>2. /\ handled \in Streams
      /\ handled.at = stream.at
      /\ handled.job = stream.job
      /\ handled.next = NoCursor
      /\ handled.last = k
      /\ handled.conn = stream.conn
  BY <1>0 DEF Streams
<1>3. ReceivedTo(k, queue) = [moved EXCEPT !.channel = queue]
  BY DEF ReceivedTo
<1>4. HandledTo(k, queue) = [handled EXCEPT !.channel = queue]
  BY DEF HandledTo, Streams
<1> HIDE DEF moved, handled
<1> QED
  BY <1>1, <1>2, <1>3, <1>4 DEF Streams

\* The stream of a connection that has ended.
LEMMA Ended ==
  ASSUME stream \in Streams
  PROVE  /\ [stream EXCEPT !.conn = "off", !.at = 0] \in Streams
         /\ [stream EXCEPT !.conn = "off", !.at = 0].at = 0
         /\ [stream EXCEPT !.conn = "off", !.at = 0].conn = "off"
         /\ [stream EXCEPT !.conn = "off", !.at = 0].job = stream.job
         /\ [stream EXCEPT !.conn = "off", !.at = 0].next = stream.next
         /\ [stream EXCEPT !.conn = "off", !.at = 0].last = stream.last
         /\ [stream EXCEPT !.conn = "off", !.at = 0].channel = stream.channel
<1> DEFINE moved == [stream EXCEPT !.at = 0]
<1>1. /\ moved \in Streams /\ moved.at = 0
      /\ moved.job = stream.job /\ moved.next = stream.next
      /\ moved.last = stream.last /\ moved.channel = stream.channel
  BY DEF Streams
<1>2. [stream EXCEPT !.conn = "off", !.at = 0] = [moved EXCEPT !.conn = "off"]
  BY DEF Streams
<1> HIDE DEF moved
<1> QED
  BY <1>1, <1>2 DEF Streams

\* An event takes its effect on the screen once and for all.
LEMMA HandledScreen ==
  ASSUME ChatType, CursorsInLog, HandleEvent
  PROVE  /\ Drawn
         /\ stream' = HandledTo(stream.channel[1], Tail(stream.channel))
         /\ log[stream.channel[1]].kind = "assistant" =>
              stream.channel[1] \in ui'.shown
<1> DEFINE i == stream.channel[1]
           u == Base(EventJob)
<1>1. /\ stream.channel # <<>>
      /\ stream' = [stream EXCEPT !.channel = Tail(stream.channel),
                                  !.last = Head(stream.channel),
                                  !.next = NoCursor]
      /\ Write(EventJob, Applied(u, Head(stream.channel)))
  BY DEF HandleEvent
<1>2. /\ Head(stream.channel) = i /\ i \in Nat /\ log[i] \in Entries
      /\ ScreenType
  BY <1>1, HeadOfChannel DEF ChatType
<1>3. u \in Screens /\ Write(EventJob, Applied(u, i))
  BY <1>1, <1>2, BaseType
<1>4. stream' = HandledTo(i, Tail(stream.channel))
  BY <1>1, <1>2 DEF HandledTo
<1> HIDE DEF i
<1>5. Follows(Applied(u, i), u)
      /\ (log[i].kind = "assistant" => i \in Applied(u, i).shown)
  <2> HIDE DEF u
  <2> QED
    BY <1>2, <1>3, AppliedType
<1>6. Drawn
  BY <1>3, <1>5, FollowsDrawn
<1>7. ui' = Applied(u, i)
  BY <1>3 DEF Write
<1> QED
  BY <1>4, <1>5, <1>6, <1>7 DEF i

\* What the channel has no room for is missed.
LEMMA MissedAtEnd ==
  ASSUME ScreenType, stream.at \in Nat, Receive
  PROVE  /\ missed' \in Losses
         /\ \A k : k = stream.at + 1 /\ log[k].kind = "assistant"
                   /\ Len(stream.channel) = Capacity => Accounted(k)'
         /\ \A k : Accounted(k) => Accounted(k)'
         /\ missed'.revived = missed.revived
<1> DEFINE i == stream.at + 1
           lost == missed.full \cup {i}
<1>1. /\ ui' = ui
      /\ \/ missed' = [missed EXCEPT !.full = lost]
         \/ missed' = missed /\ ~(Len(stream.channel) = Capacity
                                  /\ log[i].kind = "assistant")
  BY DEF Receive
<1>2. lost \in SUBSET Nat /\ i \in lost /\ missed.full \subseteq lost
      /\ missed \in Losses
  BY DEF ScreenType, Losses
<1> HIDE DEF lost
<1>3. CASE missed' = [missed EXCEPT !.full = lost]
  <2>1. /\ missed' \in Losses
        /\ missed'.full = lost
        /\ missed'.erased = missed.erased
        /\ missed'.revived = missed.revived
    BY <1>2, <1>3 DEF Losses
  <2> QED
    BY <1>1, <1>2, <2>1 DEF Accounted
<1>4. CASE missed' = missed /\ ~(Len(stream.channel) = Capacity
                                /\ log[i].kind = "assistant")
  BY <1>1, <1>2, <1>4 DEF Accounted
<1> QED
  BY <1>1, <1>3, <1>4

LEMMA EventTypes ==
  ASSUME ChatType, CursorsInLog, Events
  PROVE  /\ ChatType'
         /\ UNCHANGED <<row, log, turns, load, posts>>
         /\ SentGrows
         /\ Keeps
<1>1. /\ stream \in Streams /\ ScreenType /\ stream.channel \in Queues
      /\ faults \in Nat /\ Len(log) \in Nat /\ stream.at \in Nat
  BY LenProperties DEF ChatType, AppType, ServerType, Streams, CursorsInLog
<1>2. UNCHANGED screen => ScreenType' /\ SentGrows /\ Keeps
  BY <1>1 DEF screen, ScreenType, SentGrows, Keeps, Accounted
<1>3. CASE Connect
  <2>1. stream' \in Streams
    <3>1. Cursor \in Int
      BY <1>1 DEF Cursor, Streams
    <3> QED
      BY <1>1, <1>3, <3>1 DEF Connect, Streams
  <2> QED
    BY <1>2, <1>3, <2>1 DEF Connect, ChatType, ServerType, AppType, server
<1>4. CASE EndJob
  <2>1. stream' \in Streams
    BY <1>1, <1>4 DEF EndJob, Streams
  <2> QED
    BY <1>2, <1>4, <2>1 DEF EndJob, ChatType, ServerType, AppType, server
<1>5. CASE Receive
  <2> DEFINE channel == IF Len(stream.channel) = Capacity THEN stream.channel
                        ELSE Append(stream.channel, stream.at + 1)
  <2>1. channel \in Queues
    BY <1>1, AppendProperties DEF Queues
  <2>2. stream' = ReceivedTo(stream.at + 1, channel)
    BY <1>1, <1>5 DEF Receive, ReceivedTo, Streams
  <2> HIDE DEF channel
  <2>3. stream' \in Streams
    BY <1>1, <2>1, <2>2, StreamMoves
  <2>4. ui' = ui /\ held' = held
    BY <1>5 DEF Receive
  <2>5. ScreenType' /\ SentGrows /\ Keeps
    BY <1>1, <1>5, <2>4, MissedAtEnd DEF ScreenType, SentGrows, Keeps
  <2> QED
    BY <1>5, <2>3, <2>5 DEF Receive, ChatType, ServerType, AppType, server
<1>6. CASE Disconnect
  <2>1. stream' \in Streams
    BY <1>1, <1>6, Ended DEF Disconnect
  <2> QED
    BY <1>1, <1>2, <1>6, <2>1
       DEF Disconnect, Fault, ChatType, ServerType, AppType, server
<1>7. CASE HandleEvent
  <2>1. /\ Drawn
        /\ stream' = HandledTo(stream.channel[1], Tail(stream.channel))
        /\ stream.channel # <<>>
    BY <1>7, HandledScreen DEF HandleEvent
  <2>2. stream.channel[1] \in Nat /\ Tail(stream.channel) \in Queues
    BY <2>1, HeadOfChannel DEF Queues
  <2>3. stream' \in Streams
    BY <1>1, <2>1, <2>2, StreamMoves
  <2>4. ScreenType' /\ SentGrows /\ Keeps
    BY <1>1, <2>1, DrawnKeeps
  <2> QED
    BY <1>7, <2>3, <2>4 DEF HandleEvent, ChatType, ServerType, AppType, server
<1> QED
  BY <1>3, <1>4, <1>5, <1>6, <1>7 DEF Events

\* Every step keeps the types.
LEMMA TypeStep ==
  ASSUME ChatInv, ChatNext
  PROVE  ChatType'
<1>1. ChatType /\ RequestsMatch /\ CursorsInLog /\ SentStored(held.ui)
  BY DEF ChatInv, TurnsInv, StreamInv
<1>2. CASE \E p \in DOMAIN posts : Api(p)
  BY <1>1, <1>2, ApiTypes
<1>3. CASE \E p \in DOMAIN posts : Launch(p) \/ Answer(p)
  BY <1>1, <1>3, PostTypes
<1>4. CASE Type \/ Submit \/ \E m \in Base(Rider).sent : Retry(m)
  BY <1>1, <1>4, RiderTypes
<1>5. CASE \/ \E photo \in 1..MaxPhotos : Photo(photo)
           \/ \E x \in Base(Rider).photos : RemovePhoto(x) \/ RetryUpload(x)
  BY <1>1, <1>5, PhotoTypes
<1>6. CASE Screen
  BY <1>1, <1>6, ScreenTypes
<1>7. CASE Worker
  BY <1>1, <1>7, WorkerTypes
<1>8. CASE Events
  BY <1>1, <1>8, EventTypes
<1>9. CASE \E who \in Begun : ReadScreen(who)
  BY <1>1, <1>9, ReadTypes
<1> QED
  BY <1>2, <1>3, <1>4, <1>5, <1>6, <1>7, <1>8, <1>9 DEF ChatNext

-----------------------------------------------------------------------------
(* Requests and their turns. *)

\* Only an accepted turn and a worker change the row or the log.
LEMMA ServerFrame ==
  ASSUME ChatInv, ChatNext
  PROVE  \/ Worker
         \/ \E p \in DOMAIN posts : CommitTurn(p) /\ CreateTurn(p)
                                    /\ ~Stored(posts[p].id)
                                    /\ AnswersPending(posts[p].request)
         \/ UNCHANGED <<row, log, turns>>
<1>1. ChatType /\ RequestsMatch /\ CursorsInLog
  BY DEF ChatInv, TurnsInv, StreamInv
<1>2. ASSUME NEW p \in DOMAIN posts, Api(p)
      PROVE  \/ /\ CommitTurn(p) /\ CreateTurn(p) /\ ~Stored(posts[p].id)
                /\ AnswersPending(posts[p].request)
             \/ UNCHANGED <<row, log, turns>>
  <2>1. CASE Preflight(p) \/ Redeliver(p)
    BY <2>1 DEF Preflight, Redeliver, server
  <2>2. CASE CommitTurn(p)
    BY <2>2 DEF CommitTurn
  <2> QED
    BY <1>2, <2>1, <2>2 DEF Api
<1>3. CASE \E p \in DOMAIN posts : Launch(p) \/ Answer(p)
  BY <1>1, <1>3, PostTypes
<1>4. CASE Type \/ Submit \/ \E m \in Base(Rider).sent : Retry(m)
  BY <1>4 DEF Type, Submit, Retry, server
<1>5. CASE \/ \E photo \in 1..MaxPhotos : Photo(photo)
           \/ \E x \in Base(Rider).photos : RemovePhoto(x) \/ RetryUpload(x)
  BY <1>1, <1>5, PhotoTypes
<1>6. CASE Screen
  BY <1>6 DEF Screen, ReadSession, LoadFails, ApplyLoaded, StartReplay, Reopen,
              server
<1>7. CASE Events
  BY <1>1, <1>7, EventTypes
<1>8. CASE \E who \in Begun : ReadScreen(who)
  BY <1>8 DEF ReadScreen, server
<1> QED
  BY <1>2, <1>3, <1>4, <1>5, <1>6, <1>7, <1>8 DEF ChatNext

\* What the log says of a request or a turn stays said as it grows.
LEMMA HistoryKept ==
  ASSUME log \in Seq(Entries), NEW e \in Entries, log' = Append(log, e)
  PROVE  /\ Len(log) \in Nat
         /\ Len(log') = Len(log) + 1
         /\ log'[Len(log) + 1] = e
         /\ \A i \in 1..Len(log) : log'[i] = log[i]
         /\ \A k \in Nat : IsRequest(k) => IsRequest(k)'
         /\ \A k, n \in Nat : n <= Len(log) /\ QuietFrom(k, n) => QuietFrom(k, n)'
         /\ \A t \in Turns : InOrder(t) => InOrder(t)'
<1>1. /\ Len(log) \in Nat
      /\ Len(log') = Len(log) + 1
      /\ log'[Len(log) + 1] = e
      /\ \A i \in 1..Len(log) : log'[i] = log[i]
  BY AppendProperties, LenProperties
<1>2. \A k \in Nat : IsRequest(k) => IsRequest(k)'
  BY <1>1 DEF IsRequest
<1>3. \A k, n \in Nat : n <= Len(log) /\ QuietFrom(k, n) => QuietFrom(k, n)'
  BY <1>1 DEF QuietFrom
<1>4. \A t \in Turns : InOrder(t) => InOrder(t)'
  <2> SUFFICES ASSUME NEW t \in Turns, InOrder(t)
               PROVE  InOrder(t)'
    OBVIOUS
  <2>1. t.request \in Nat /\ t.start - 1 \in Nat /\ t.start - 1 <= Len(log)
    BY <1>1 DEF Turns, InOrder
  <2>2. t.start \in 1..Len(log')
    BY <1>1 DEF InOrder
  <2>3. t.request # 0 => /\ IsRequest(t.request)'
                         /\ t.request < t.start
                         /\ QuietFrom(t.request, t.start - 1)'
    BY <1>2, <1>3, <2>1 DEF InOrder
  <2> QED
    BY <2>2, <2>3 DEF InOrder
<1> QED
  BY <1>1, <1>2, <1>3, <1>4

\* The turns of the log are told apart and follow the requests they answer.
LEMMA HistoryStep ==
  ASSUME ChatInv, ChatNext, ChatType'
  PROVE  OneTurnPerClientId' /\ PendingIsLatest' /\ TurnsInOrder'
<1>1. /\ OneTurnPerClientId /\ PendingIsLatest /\ TurnsInOrder
      /\ row \in Rows /\ log \in Seq(Entries) /\ turns \in SUBSET Turns
      /\ Len(log) \in Nat /\ row' \in Rows /\ turns' \in SUBSET Turns
      /\ row.request \in Nat
  BY LenProperties DEF ChatInv, ChatType, ServerType, TurnsInv, Rows
<1>2. CASE UNCHANGED <<row, log, turns>>
  BY <1>1, <1>2
     DEF OneTurnPerClientId, PendingIsLatest, TurnsInOrder, InOrder, IsRequest,
         QuietFrom
<1>3. ASSUME NEW p \in DOMAIN posts, CommitTurn(p), CreateTurn(p),
             ~Stored(posts[p].id), AnswersPending(posts[p].request)
      PROVE  OneTurnPerClientId' /\ PendingIsLatest' /\ TurnsInOrder'
  <2>1. PICK t \in Turns :
          /\ turns' = turns \cup {t}
          /\ t.id = posts[p].id
          /\ t.request = 0 \/ t.request = row.request
          /\ t.start = Len(log) + 1
    <3> DEFINE new == [id |-> posts[p].id, message |-> posts[p].message,
                       request |-> posts[p].request, start |-> Len(log) + 1]
    <3>1. turns' = turns \cup {new}
      BY <1>3 DEF CreateTurn
    <3>2. new \in Turns
      BY <1>1, <3>1
    <3> QED
      BY <1>3, <3>1, <3>2 DEF AnswersPending
  <2>2. PICK e \in Entries : log' = Append(log, e) /\ e.kind = "started"
    <3>1. log' = Append(log, Plain("started"))
      BY <1>3 DEF CreateTurn
    <3>2. Plain("started") \in Entries /\ Plain("started").kind = "started"
      BY <1>1 DEF Plain, Event, Entries, Kinds
    <3> QED
      BY <3>1, <3>2
  <2>3. /\ Len(log') = Len(log) + 1
        /\ \A k \in Nat : IsRequest(k) => IsRequest(k)'
        /\ \A k, n \in Nat : n <= Len(log) /\ QuietFrom(k, n) => QuietFrom(k, n)'
        /\ \A s \in Turns : InOrder(s) => InOrder(s)'
    BY <1>1, <2>2, HistoryKept
  <2>4. OneTurnPerClientId'
    BY <1>1, <1>3, <2>1 DEF OneTurnPerClientId, Stored
  <2>5. PendingIsLatest'
    BY <1>1, <1>3 DEF CreateTurn, Rows, PendingIsLatest
  <2>6. InOrder(t)'
    <3>1. t.start \in 1..Len(log')
      BY <1>1, <2>1, <2>3
    <3>2. ASSUME t.request # 0
          PROVE  /\ IsRequest(t.request)'
                 /\ t.request < t.start
                 /\ QuietFrom(t.request, t.start - 1)'
      <4>1. IsRequest(t.request) /\ QuietFrom(t.request, Len(log))
        BY <1>1, <2>1, <3>2 DEF PendingIsLatest
      <4>2. t.request \in Nat /\ t.start - 1 = Len(log) /\ t.start - 1 \in Nat
        BY <1>1, <2>1 DEF Turns
      <4>3. QuietFrom(t.request, t.start - 1)
        BY <4>1, <4>2
      <4>4. IsRequest(t.request)' /\ QuietFrom(t.request, t.start - 1)'
        BY <1>1, <2>3, <4>1, <4>2, <4>3
      <4>5. t.request < t.start
        BY <1>1, <2>1, <4>1, <4>2 DEF IsRequest
      <4> QED
        BY <4>4, <4>5
    <3> QED
      BY <3>1, <3>2 DEF InOrder
  <2>7. TurnsInOrder'
    BY <1>1, <2>1, <2>3, <2>6 DEF TurnsInOrder
  <2> QED
    BY <2>4, <2>5, <2>7
<1>4. ASSUME NEW e \in Entries, log' = Append(log, e), turns' = turns
      PROVE  /\ OneTurnPerClientId'
             /\ TurnsInOrder'
             /\ e.kind \notin {"started", "input"} /\ row'.request = row.request
                => PendingIsLatest'
  <2>1. /\ Len(log') = Len(log) + 1
        /\ log'[Len(log) + 1] = e
        /\ \A i \in 1..Len(log) : log'[i] = log[i]
        /\ \A k \in Nat : IsRequest(k) => IsRequest(k)'
        /\ \A s \in Turns : InOrder(s) => InOrder(s)'
    BY <1>1, <1>4, HistoryKept
  <2>2. OneTurnPerClientId' /\ TurnsInOrder'
    BY <1>1, <1>4, <2>1 DEF OneTurnPerClientId, TurnsInOrder
  <2>3. PICK k \in Nat : k = row.request
    BY <1>1
  <2>4. ASSUME e.kind \notin {"started", "input"}, row'.request = k, k # 0
        PROVE  IsRequest(k)' /\ \A i \in Nat : k < i /\ i <= Len(log') =>
                                 log'[i].kind \notin {"started", "input"}
    <3>1. IsRequest(k) /\ QuietFrom(k, Len(log))
      BY <1>1, <2>3, <2>4 DEF PendingIsLatest
    <3> QED
      BY <1>1, <2>1, <2>4, <3>1 DEF QuietFrom
  <2> QED
    BY <2>2, <2>3, <2>4 DEF PendingIsLatest, QuietFrom, IsRequest
<1>5. CASE Say
  <2>1. PICK kind \in {"delta", "assistant", "error"} :
          log' = Append(log, Plain(kind))
    BY <1>5 DEF Say
  <2>2. Plain(kind) \in Entries /\ Plain(kind).kind \notin {"started", "input"}
    BY <1>1 DEF Plain, Event, Entries, Kinds
  <2> QED
    BY <1>4, <1>5, <2>1, <2>2 DEF Say
<1>6. CASE AskRider
  <2>1. PICK asks \in {"text", "photo"} :
          log' = Append(log, Event("input", asks, row))
    BY <1>6 DEF AskRider
  <2>2. /\ Event("input", asks, row) \in Entries
        /\ Event("input", asks, row).kind = "input"
    BY <1>1 DEF Event, Entries, Kinds
  <2>3. PICK e \in Entries : log' = Append(log, e) /\ e.kind = "input"
    BY <2>1, <2>2
  <2>4. /\ OneTurnPerClientId' /\ TurnsInOrder'
        /\ Len(log') = Len(log) + 1
        /\ log'[Len(log) + 1].kind = "input"
    BY <1>1, <1>4, <1>6, <2>3, HistoryKept DEF AskRider
  <2>5. row'.request = Len(log')
    BY <1>1, <1>6 DEF AskRider, Rows
  <2>6. PendingIsLatest'
    BY <1>1, <2>4, <2>5 DEF PendingIsLatest, IsRequest, QuietFrom
  <2> QED
    BY <2>4, <2>6
<1>7. CASE SaveReport
  <2>1. row'.request = row.request /\ log' = log /\ turns' = turns
    BY <1>1, <1>7 DEF SaveReport, Rows
  <2> QED
    BY <1>1, <2>1
       DEF OneTurnPerClientId, PendingIsLatest, TurnsInOrder, InOrder, IsRequest,
           QuietFrom
<1>8. CASE Complete
  <2>1. row'.request = row.request
    BY <1>1, <1>8 DEF Complete, Rows
  <2>2. /\ Event("completed", "nothing", row') \in Entries
        /\ Event("completed", "nothing", row').kind = "completed"
    BY <1>1 DEF Event, Entries, Kinds
  <2>3. PICK e \in Entries : log' = Append(log, e) /\ e.kind = "completed"
    BY <1>8, <2>2 DEF Complete
  <2> QED
    BY <1>4, <1>8, <2>1, <2>3 DEF Complete
<1> QED
  BY <1>2, <1>3, <1>5, <1>6, <1>7, <1>8, ServerFrame DEF Worker

\* No turn is lost, and a turn says what its request says.
TurnsGrow ==
  /\ turns \subseteq turns'
  /\ \A t \in turns' \ turns : \E p \in 1..Len(posts) :
       t.id = posts[p].id /\ t.message = posts[p].message

LEMMA MatchKept ==
  ASSUME ChatType, ChatType', RequestsMatch, PostsGrow, TurnsGrow
  PROVE  RequestsMatch'
<1>1. /\ DOMAIN posts = 1..Len(posts) /\ DOMAIN posts' = 1..Len(posts')
      /\ Len(posts) \in Nat /\ Len(posts') \in Nat
      /\ posts \in Seq(Requests)
  BY LenProperties DEF ChatType, AppType
<1>2. \A p \in 1..Len(posts) :
        /\ posts[p].id \in 1..Len(posts)
        /\ posts[p].api = "accepted" => \E t \in turns' : t.id = posts[p].id
  <2>1. \A p \in 1..Len(posts) :
          /\ posts[p].id \in 1..Len(posts)
          /\ posts[p].api = "accepted" => \E t \in turns : t.id = posts[p].id
    BY <1>1 DEF RequestsMatch
  <2> QED
    BY <1>1, <2>1 DEF TurnsGrow
<1>3. \A p, q \in 1..Len(posts) :
        posts[p].id = posts[q].id => posts[p].message = posts[q].message
  BY <1>1 DEF RequestsMatch
<1>4. \A t \in turns' : \E p \in 1..Len(posts) :
        t.id = posts[p].id /\ t.message = posts[p].message
  BY <1>1 DEF RequestsMatch, TurnsGrow
<1>5. CASE RequestsKept /\ Len(posts') = Len(posts)
  <2>1. \A p \in 1..Len(posts') :
          /\ p \in 1..Len(posts)
          /\ posts'[p].id = posts[p].id
          /\ posts'[p].message = posts[p].message
          /\ posts'[p].api = "accepted" =>
               posts[p].api = "accepted" \/ \E t \in turns' : t.id = posts[p].id
    BY <1>5 DEF RequestsKept
  <2>2. \A p \in 1..Len(posts') :
          /\ posts'[p].id \in 1..Len(posts')
          /\ posts'[p].api = "accepted" => \E t \in turns' : t.id = posts'[p].id
    BY <1>2, <1>5, <2>1
  <2>3. \A p, q \in 1..Len(posts') :
          posts'[p].id = posts'[q].id => posts'[p].message = posts'[q].message
    BY <1>3, <2>1
  <2>4. \A t \in turns' : \E p \in 1..Len(posts') :
          t.id = posts'[p].id /\ t.message = posts'[p].message
    <3>1. \A p \in 1..Len(posts) : /\ p \in 1..Len(posts')
                                   /\ posts'[p].id = posts[p].id
                                   /\ posts'[p].message = posts[p].message
      BY <1>5, <2>1
    <3> QED
      BY <1>4, <3>1
  <2> QED
    BY <2>2, <2>3, <2>4 DEF RequestsMatch
<1>6. CASE NewRequest
  <2>1. PICK new \in Requests :
          /\ posts' = Append(posts, new)
          /\ new.api # "accepted"
          /\ \/ new.id = Len(posts) + 1
             \/ \E p \in 1..Len(posts) : /\ new.id = posts[p].id
                                         /\ new.message = posts[p].message
    BY <1>6 DEF NewRequest
  <2>2. /\ Len(posts') = Len(posts) + 1
        /\ \A p \in 1..Len(posts) : posts'[p] = posts[p]
        /\ posts'[Len(posts) + 1] = new
    BY <1>1, <2>1, AppendProperties
  <2>3. \A p \in 1..Len(posts') :
          p \in 1..Len(posts) \/ p = Len(posts) + 1
    BY <1>1, <2>2
  <2>4. /\ new.id \in 1..Len(posts')
       
    <3>1. \A p \in 1..Len(posts) : posts[p].id \in 1..Len(posts')
      BY <1>1, <1>2, <2>2
    <3>2. Len(posts) + 1 \in 1..Len(posts')
      BY <1>1, <2>2
    <3> QED
      BY <1>2, <2>1, <3>1, <3>2
  <2>5. \A p \in 1..Len(posts') :
          /\ posts'[p].id \in 1..Len(posts')
          /\ posts'[p].api = "accepted" => \E t \in turns' : t.id = posts'[p].id
    <3>1. \A p \in 1..Len(posts) : posts[p].id \in 1..Len(posts')
      BY <1>1, <1>2, <2>2
    <3> QED
      BY <1>2, <2>1, <2>2, <2>3, <2>4, <3>1
  <2>6. \A p, q \in 1..Len(posts') :
          posts'[p].id = posts'[q].id => posts'[p].message = posts'[q].message
    <3>1. \A p \in 1..Len(posts) : posts[p].id # Len(posts) + 1
      BY <1>1, <1>2
    <3>2. \A p \in 1..Len(posts) :
            posts[p].id = new.id => posts[p].message = new.message
      BY <1>3, <2>1, <3>1
    <3> QED
      BY <1>3, <2>2, <2>3, <3>2
  <2>7. \A t \in turns' : \E p \in 1..Len(posts') :
          t.id = posts'[p].id /\ t.message = posts'[p].message
    <3>1. \A p \in 1..Len(posts) : p \in 1..Len(posts') /\ posts'[p] = posts[p]
      BY <1>1, <2>2
    <3> QED
      BY <1>4, <3>1
  <2> QED
    BY <2>5, <2>6, <2>7 DEF RequestsMatch
<1> QED
  BY <1>5, <1>6 DEF PostsGrow

LEMMA SentKept ==
  ASSUME SentStored(ui), SentStored(held.ui), SentGrows, turns \subseteq turns'
  PROVE  SentStored(ui)' /\ SentStored(held.ui)'
<1>1. \A m \in ui.sent \cup held.ui.sent :
        m.state = "sent" => \E t \in turns' : t.message = m.id
  BY DEF SentStored
<1>2. \A m \in ui'.sent \cup held'.ui.sent :
        m.state = "sent" => \E t \in turns' : t.message = m.id
  BY <1>1 DEF SentGrows
<1> QED
  BY <1>2 DEF SentStored

\* The API answers a request as accepted only when it has its turn.
LEMMA ApiGrows ==
  ASSUME ChatType, RequestsMatch, NEW p \in DOMAIN posts, Api(p)
  PROVE  PostsGrow /\ TurnsGrow /\ UNCHANGED screen
<1>1. /\ posts \in Seq(Requests) /\ DOMAIN posts = 1..Len(posts)
      /\ Len(posts) \in Nat /\ posts[p] \in Requests /\ p \in 1..Len(posts)
  BY LenProperties, ElementOfSeq DEF ChatType, AppType
<1>2. turns' = turns => TurnsGrow
  BY DEF TurnsGrow
<1>3. CASE Preflight(p)
  <2>1. \E app \in {"launched", "waiting", "closed"},
           api \in {"accepted", "checked", "refused"} :
          Moved(p, app, api) /\ (api = "accepted" => Stored(posts[p].id))
    BY <1>1, <1>3 DEF Preflight, Requests, Moved
  <2>2. turns' = turns /\ UNCHANGED screen
    BY <1>3 DEF Preflight, server
  <2>3. Stored(posts[p].id) => \E t \in turns' : t.id = posts[p].id
    BY <2>2 DEF Stored
  <2> QED
    BY <1>1, <1>2, <2>1, <2>2, <2>3, PostMoved
<1>4. CASE CommitTurn(p)
  <2>1. \E app \in {"launched", "waiting", "closed"},
           api \in {"accepted", "refused"} :
          /\ Moved(p, app, api)
          /\ api = "accepted" => Stored(posts[p].id) \/ CreateTurn(p)
    BY <1>1, <1>4 DEF CommitTurn, Requests, Moved
  <2>2. TurnsGrow /\ (CreateTurn(p) => \E t \in turns' : t.id = posts[p].id)
    <3>1. ASSUME CreateTurn(p)
          PROVE  \E t \in turns' : /\ turns' = turns \cup {t}
                                 /\ t.id = posts[p].id
                                 /\ t.message = posts[p].message
      <4> DEFINE new == [id |-> posts[p].id, message |-> posts[p].message,
                         request |-> posts[p].request, start |-> Len(log) + 1]
      <4>1. turns' = turns \cup {new}
        BY <3>1 DEF CreateTurn
      <4>2. new.id = posts[p].id /\ new.message = posts[p].message
        OBVIOUS
      <4> HIDE DEF new
      <4> QED
        BY <4>1, <4>2
    <3>2. CreateTurn(p) \/ turns' = turns
      BY <1>4 DEF CommitTurn
    <3> QED
      BY <1>1, <3>1, <3>2 DEF TurnsGrow
  <2>3. Stored(posts[p].id) \/ CreateTurn(p) => \E t \in turns' : t.id = posts[p].id
    BY <2>2 DEF Stored, TurnsGrow
  <2>4. UNCHANGED screen
    BY <1>4 DEF CommitTurn
  <2> QED
    BY <1>1, <2>1, <2>2, <2>3, <2>4, PostMoved
<1>5. CASE Redeliver(p)
  <2> DEFINE w == [posts[p] EXCEPT !.app = "closed", !.api = "sent"]
  <2>1. w \in Requests /\ w.api = "sent" /\ w.id = posts[p].id
        /\ w.message = posts[p].message
    BY <1>1 DEF Requests
  <2>2. posts' = Append(posts, w) /\ turns' = turns /\ UNCHANGED screen
    BY <1>5 DEF Redeliver, server
  <2> HIDE DEF w
  <2>3. NewRequest
    BY <1>1, <2>1, <2>2 DEF NewRequest
  <2> QED
    BY <1>2, <2>2, <2>3 DEF PostsGrow
<1> QED
  BY <1>3, <1>4, <1>5 DEF Api

\* Every step keeps the turns and their requests in order.
LEMMA TurnsStep ==
  ASSUME ChatInv, ChatNext, ChatType'
  PROVE  TurnsInv'
<1> DEFINE grows == PostsGrow /\ TurnsGrow /\ SentGrows
<1>1. /\ ChatType /\ ScreenType /\ RequestsMatch /\ CursorsInLog
      /\ SentStored(ui) /\ SentStored(held.ui)
  BY DEF ChatInv, TurnsInv, StreamInv, ChatType
<1>2. grows
  <2>1. turns' = turns => TurnsGrow
    BY DEF TurnsGrow
  <2>2. Drawn \/ UNCHANGED screen => SentGrows
    <3>1. UNCHANGED screen => SentGrows
      BY DEF screen, SentGrows
    <3>2. Drawn => SentGrows
      BY <1>1, DrawnKeeps
    <3> QED
      BY <3>1, <3>2
  <2>3. CASE \E p \in DOMAIN posts : Api(p)
    BY <1>1, <2>2, <2>3, ApiGrows
  <2>4. CASE \E p \in DOMAIN posts : Launch(p) \/ Answer(p)
    BY <1>1, <2>1, <2>2, <2>4, PostTypes
  <2>5. CASE Type \/ Submit \/ \E m \in Base(Rider).sent : Retry(m)
    <3>1. turns' = turns
      BY <2>5 DEF Type, Submit, Retry, server
    <3> QED
      BY <1>1, <2>1, <2>2, <2>5, <3>1, RiderTypes
  <2>6. CASE \/ \E photo \in 1..MaxPhotos : Photo(photo)
             \/ \E x \in Base(Rider).photos : RemovePhoto(x) \/ RetryUpload(x)
    BY <1>1, <2>1, <2>2, <2>6, PhotoTypes, PostsSame
  <2>7. CASE Screen
    <3>1. turns' = turns
      BY <2>7 DEF Screen, ReadSession, LoadFails, ApplyLoaded, StartReplay,
                  Reopen, server
    <3> QED
      BY <1>1, <2>1, <2>7, <3>1, ScreenTypes
  <2>8. CASE Worker
    <3>1. UNCHANGED <<turns, posts, screen>>
      BY <2>8 DEF Worker, Say, AskRider, SaveReport, Complete
    <3> QED
      BY <2>1, <2>2, <3>1, PostsSame
  <2>9. CASE Events
    BY <1>1, <2>1, <2>9, EventTypes, PostsSame
  <2>10. CASE \E who \in Begun : ReadScreen(who)
    <3>1. turns' = turns
      BY <2>10 DEF ReadScreen, server
    <3> QED
      BY <1>1, <2>1, <2>10, <3>1, ReadTypes
  <2> HIDE DEF grows
  <2> QED
    BY <2>3, <2>4, <2>5, <2>6, <2>7, <2>8, <2>9, <2>10 DEF ChatNext, grows
<1>3. RequestsMatch' /\ SentStored(ui)' /\ SentStored(held.ui)'
  BY <1>1, <1>2, MatchKept, SentKept DEF TurnsGrow
<1> QED
  BY <1>3, HistoryStep DEF TurnsInv

-----------------------------------------------------------------------------
(* The transcript. *)

LogGrows ==
  /\ Len(log') >= Len(log)
  /\ \A i \in 1..Len(log) : log'[i] = log[i]

\* What the log holds is never rewritten.
LEMMA LogStep ==
  ASSUME ChatInv, ChatNext
  PROVE  LogGrows
<1>1. row \in Rows /\ log \in Seq(Entries) /\ Len(log) \in Nat
  BY LenProperties DEF ChatInv, ChatType, ServerType
<1>2. \A e \in Entries : log' = Append(log, e) => LogGrows
  BY <1>1, AppendProperties DEF LogGrows
<1>3. log' = log => LogGrows
  BY <1>1 DEF LogGrows
<1>4. \A kind \in Kinds : Plain(kind) \in Entries
  BY <1>1 DEF Plain, Event, Entries
<1>5. CASE Worker
  <2>1. CASE Say
    BY <1>2, <1>4, <2>1 DEF Say, Kinds
  <2>2. CASE AskRider
    <3>1. \A asks \in {"text", "photo"} : Event("input", asks, row) \in Entries
      BY <1>1 DEF Event, Entries, Kinds
    <3> QED
      BY <1>2, <2>2, <3>1 DEF AskRider
  <2>3. CASE SaveReport
    BY <1>3, <2>3 DEF SaveReport
  <2>4. CASE Complete
    <3>1. row' \in Rows
      BY <1>1, <1>5, WorkerTypes DEF ChatInv, ChatType, ServerType
    <3>2. Event("completed", "nothing", row') \in Entries
      BY <3>1 DEF Event, Entries, Kinds
    <3> QED
      BY <1>2, <2>4, <3>2 DEF Complete
  <2> QED
    BY <1>5, <2>1, <2>2, <2>3, <2>4 DEF Worker
<1>6. CASE \E p \in DOMAIN posts : CreateTurn(p)
  BY <1>2, <1>4, <1>6 DEF CreateTurn, Kinds
<1> QED
  BY <1>3, <1>5, <1>6, ServerFrame

\* What was met stays met in a longer log, if the channel is as it was.
LEMMA MetKept ==
  ASSUME Keeps, LogGrows, NEW k \in 1..Len(log),
         stream'.channel = stream.channel, Met(k)
  PROVE  Met(k)'
<1>1. log'[k] = log[k]
  BY DEF LogGrows
<1>2. Accounted(k) => Accounted(k)'
  BY DEF Keeps
<1>3. Queued(k) => Queued(k)'
  BY DEF Queued
<1> QED
  BY <1>1, <1>2, <1>3 DEF Met

\* A longer log and a screen that forgets nothing leave the stream as it was.
LEMMA StreamKept ==
  ASSUME ChatType, StreamInv, ChatType', LogGrows, Keeps, load' = load,
         stream' = stream
  PROVE  StreamInv'
<1>1. /\ Len(log) \in Nat /\ Len(log') \in Nat /\ Len(log') >= Len(log)
      /\ \A i \in 1..Len(log) : log'[i] = log[i]
  BY LenProperties DEF ChatType, ServerType, LogGrows
<1>2. /\ stream.at \in 0..Len(log) /\ stream.last <= Len(log)
      /\ stream.next \in NoCursor..Len(log) /\ load.latest <= Len(log)
      /\ stream.last \in Nat /\ stream.next \in Int /\ load.latest \in Nat
  BY DEF ChatType, AppType, Streams, Loads, StreamInv, CursorsInLog
<1>3. /\ \A j \in 1..Len(stream.channel) : stream.channel[j] \in 1..Len(log)
      /\ stream.conn = "open" =>
           \A j \in 1..Len(stream.channel) : stream.channel[j] <= stream.at
      /\ \A j, k \in 1..Len(stream.channel) :
           j < k => stream.channel[j] < stream.channel[k]
  BY DEF StreamInv, CursorsInLog
<1>4. NoCursor \in Int
  BY DEF NoCursor
<1>5. /\ stream.at \in 0..Len(log') /\ stream.last <= Len(log')
      /\ stream.next \in NoCursor..Len(log') /\ load.latest <= Len(log')
      /\ \A k \in 1..Len(log) : k \in 1..Len(log')
  BY <1>1, <1>2, <1>4
<1>6. CursorsInLog'
  BY <1>3, <1>5 DEF CursorsInLog
<1>7. Covered'
  <2> SUFFICES ASSUME load.step = "open", ~missed'.revived
               PROVE  Covered'
    BY DEF Covered
  <2>1. Covered /\ ~missed.revived /\ (~ui'.over => ~ui.over)
    BY DEF StreamInv, Keeps
  <2>2. ~ui'.over => stream.job /\ stream.next \in {NoCursor, 0}
    BY <2>1 DEF Covered
  <2>3. stream.next = NoCursor =>
          \A i \in 1..stream.last : log'[i].kind = "assistant" => Accounted(i)'
    <3>1. \A i \in 1..stream.last : i \in 1..Len(log)
      BY <1>1, <1>2
    <3> QED
      BY <1>1, <2>1, <3>1 DEF Covered, Keeps
  <2>4. \A j \in 1..Len(stream.channel) : \A i \in 1..stream.channel[j] : Met(i)'
    <3>1. \A j \in 1..Len(stream.channel) : \A i \in 1..stream.channel[j] :
            i \in 1..Len(log) /\ Met(i)
      BY <1>1, <1>3, <2>1 DEF Covered
    <3> QED
      BY <3>1, MetKept
  <2>5. stream.conn = "open" => \A i \in 1..stream.at : Met(i)'
    <3>1. \A i \in 1..stream.at : i \in 1..Len(log)
      BY <1>1, <1>2
    <3> QED
      BY <2>1, <3>1, MetKept DEF Covered
  <2> QED
    BY <2>2, <2>3, <2>4, <2>5 DEF Covered
<1> QED
  BY <1>6, <1>7 DEF StreamInv

\* A replay starts with nothing received.
LEMMA ReplayStarts ==
  ASSUME ChatType, StreamInv, NEW cursor \in 0..Len(log),
         stream' = Replayed(cursor), log' = log, load'.latest = load.latest,
         load'.step = "open" /\ ~missed'.revived /\ ~ui'.over => cursor = 0
  PROVE  StreamInv'
<1>1. /\ stream \in Streams /\ cursor \in Int /\ Len(log) \in Nat
  BY LenProperties DEF ChatType, AppType, ServerType
<1>2. /\ stream'.job
      /\ stream'.next = cursor
      /\ stream'.last = stream.last
      /\ stream'.conn = "off"
      /\ stream'.at = 0
      /\ stream'.channel = <<>>
  BY <1>1, ReplayedIs
<1>3. Len(stream'.channel) = 0
  BY <1>2, EmptySeq
<1>4. CursorsInLog'
  <2>1. /\ stream'.at \in 0..Len(log')
        /\ stream'.last <= Len(log')
        /\ load'.latest <= Len(log')
    BY <1>1, <1>2 DEF StreamInv, CursorsInLog
  <2>2. stream'.next \in NoCursor..Len(log')
    BY <1>1, <1>2 DEF NoCursor
  <2> QED
    BY <1>2, <1>3, <2>1, <2>2 DEF CursorsInLog
<1>5. Covered'
  BY <1>2, <1>3 DEF Covered, NoCursor
<1> QED
  BY <1>4, <1>5 DEF StreamInv

LEMMA ScreenStream ==
  ASSUME ChatType, StreamInv, ChatType', Screen
  PROVE  StreamInv'
<1>1. /\ stream \in Streams /\ load \in Loads /\ Len(log) \in Nat
      /\ CursorsInLog /\ stream.last \in Nat /\ load.latest \in Nat
  BY LenProperties
     DEF ChatType, AppType, ServerType, StreamInv, Streams, Loads
<1>2. CASE ReadSession \/ LoadFails
  <2>1. /\ stream' = stream /\ log' = log
        /\ load'.latest <= Len(log) /\ load'.step # "open"
    BY <1>1, <1>2 DEF ReadSession, LoadFails, server, Loads, CursorsInLog
  <2>2. CursorsInLog'
    BY <1>1, <2>1 DEF CursorsInLog
  <2> QED
    BY <2>1, <2>2 DEF StreamInv, Covered
<1>3. CASE ApplyLoaded
  <2>1. /\ log' = log
        /\ stream' = [stream EXCEPT !.last = load.latest]
        /\ load' = [Entry EXCEPT !.step = "applied"]
    BY <1>3 DEF ApplyLoaded, server
  <2>2. load'.latest = 0 /\ load'.step = "applied"
    BY <2>1 DEF Entry
  <2>3. /\ stream'.last = load.latest
        /\ stream'.at = stream.at
        /\ stream'.next = stream.next
        /\ stream'.channel = stream.channel
    BY <1>1, <2>1 DEF Streams
  <2>4. CursorsInLog'
    BY <1>1, <2>1, <2>2, <2>3 DEF CursorsInLog
  <2> QED
    BY <2>2, <2>4 DEF StreamInv, Covered
<1>4. CASE StartReplay
  <2>1. /\ stream' = Replayed(0) /\ log' = log /\ load'.latest = load.latest
    BY <1>1, <1>4 DEF StartReplay, server, Loads
  <2> QED
    BY <1>1, <2>1, ReplayStarts
<1>5. CASE Reopen
  <2>1. /\ stream' = Idle /\ load' = Entry /\ log' = log
    BY <1>5 DEF Reopen, server
  <2>2. /\ stream'.at = 0 /\ stream'.last = 0 /\ stream'.next = NoCursor
        /\ stream'.channel = <<>>
        /\ load'.latest = 0 /\ load'.step = "asking"
    BY <2>1 DEF Idle, Entry
  <2>3. CursorsInLog'
    BY <1>1, <2>1, <2>2, EmptySeq DEF CursorsInLog, NoCursor
  <2> QED
    BY <2>2, <2>3 DEF StreamInv, Covered
<1> QED
  BY <1>2, <1>3, <1>4, <1>5 DEF Screen

LEMMA PostStream ==
  ASSUME ChatInv, ChatType', NEW p \in DOMAIN posts, Launch(p) \/ Answer(p)
  PROVE  StreamInv'
<1>1. /\ ChatType /\ RequestsMatch /\ StreamInv /\ ScreenType
      /\ Len(log) \in Nat
      /\ \A t \in turns : t.start \in 1..Len(log)
  BY LenProperties DEF ChatInv, ChatType, ServerType, TurnsInv, TurnsInOrder,
                       InOrder
<1>2. /\ log' = log /\ load' = load /\ Drawn
      /\ \/ stream' = stream
         \/ ~stream.job /\ \E t \in turns : stream' = Replayed(t.start)
  BY <1>1, PostTypes
<1>3. Keeps
  BY <1>1, <1>2, DrawnKeeps
<1>4. CASE stream' = stream
  <2>1. LogGrows
    BY <1>1, <1>2 DEF LogGrows
  <2> QED
    BY <1>1, <1>2, <1>3, <1>4, <2>1, StreamKept
<1>5. CASE ~stream.job /\ \E t \in turns : stream' = Replayed(t.start)
  <2>1. PICK t \in turns : stream' = Replayed(t.start)
    BY <1>5
  <2>2. ~ (load'.step = "open" /\ ~missed'.revived /\ ~ui'.over)
    BY <1>1, <1>2, <1>3, <1>5 DEF StreamInv, Covered, Keeps
  <2>3. t.start \in 0..Len(log)
    BY <1>1
  <2> QED
    BY <1>1, <1>2, <2>1, <2>2, <2>3, ReplayStarts
<1> QED
  BY <1>2, <1>4, <1>5

\* What the steps of the stream start from.
LEMMA StreamFacts ==
  ASSUME ChatType, StreamInv
  PROVE  /\ stream \in Streams /\ stream.channel \in Seq(Nat)
         /\ Len(log) \in Nat /\ Len(stream.channel) \in Nat
         /\ CursorsInLog /\ Covered /\ ScreenType
         /\ stream.at \in Nat /\ stream.at <= Len(log)
         /\ stream.last \in Nat /\ stream.next \in Int
         /\ \A j \in 1..Len(stream.channel) : /\ stream.channel[j] \in Nat
                                              /\ 1 <= stream.channel[j]
                                              /\ stream.channel[j] <= Len(log)
<1>1. /\ stream \in Streams /\ log \in Seq(Entries)
      /\ CursorsInLog /\ Covered /\ ScreenType
  BY DEF ChatType, AppType, ServerType, StreamInv
<1>2. /\ stream.channel \in Seq(Nat) /\ stream.last \in Nat /\ stream.next \in Int
  BY <1>1 DEF Streams, Queues
<1>3. Len(log) \in Nat /\ Len(stream.channel) \in Nat
  BY <1>1, <1>2, LenProperties
<1>4. stream.at \in 0..Len(log)
  BY <1>1 DEF CursorsInLog
<1>5. \A j \in 1..Len(stream.channel) : stream.channel[j] \in 1..Len(log)
  BY <1>1 DEF CursorsInLog
<1> QED
  BY <1>1, <1>2, <1>3, <1>4, <1>5

\* A new connection starts where everything before was handled, or at the
\* beginning.
LEMMA ConnectStream ==
  ASSUME ChatType, StreamInv, Connect
  PROVE  StreamInv'
<1>1. /\ stream \in Streams /\ Len(log) \in Nat /\ CursorsInLog /\ Covered
      /\ stream.last \in Nat /\ stream.next \in Int
  BY StreamFacts
<1>2. /\ stream' = [stream EXCEPT !.conn = "open", !.at = Cursor]
      /\ stream.job /\ stream.channel = <<>> /\ ~ui.over
      /\ UNCHANGED <<log, load, ui, missed>>
  BY DEF Connect, Disconnected, server, screen
<1>3. /\ stream'.at = Cursor
      /\ stream'.job = stream.job
      /\ stream'.next = stream.next
      /\ stream'.last = stream.last
      /\ stream'.channel = stream.channel
  BY <1>1, <1>2 DEF Streams
<1>4. Cursor \in 0..Len(log)
  BY <1>1 DEF Cursor, CursorsInLog, NoCursor
<1>5. Len(stream.channel) = 0
  BY <1>2, EmptySeq
<1>6. CursorsInLog'
  BY <1>1, <1>2, <1>3, <1>4, <1>5 DEF CursorsInLog
<1>7. ASSUME load.step = "open", ~missed.revived
      PROVE  /\ stream.job /\ stream.next \in {NoCursor, 0}
             /\ stream.next = NoCursor =>
                  \A i \in 1..stream.last :
                    log[i].kind = "assistant" => Accounted(i)
             /\ \A i \in 1..Cursor :
                  log[i].kind = "assistant" => Accounted(i)
  <2>1. /\ stream.job
        /\ stream.next \in {NoCursor, 0}
        /\ stream.next = NoCursor =>
             \A i \in 1..stream.last :
               log[i].kind = "assistant" => Accounted(i)
    BY <1>1, <1>2, <1>7 DEF Covered
  <2>2. CASE stream.next = NoCursor
    BY <2>1, <2>2 DEF Cursor
  <2>3. CASE stream.next = 0
    <3>1. Cursor = 0
      BY <2>3 DEF Cursor, NoCursor
    <3> QED
      BY <2>1, <3>1
  <2> QED
    BY <2>1, <2>2, <2>3
<1>8. Covered'
  BY <1>2, <1>3, <1>5, <1>7 DEF Covered, Met, Accounted
<1> QED
  BY <1>6, <1>8 DEF StreamInv

\* A connection that ends leaves its channel to be collected.
LEMMA EndStream ==
  ASSUME ChatType, StreamInv, EndJob \/ Disconnect
  PROVE  StreamInv'
<1>1. /\ stream \in Streams /\ Len(log) \in Nat /\ CursorsInLog /\ Covered
  BY StreamFacts
<1>2. UNCHANGED <<log, load, ui, missed>>
  BY DEF EndJob, Disconnect, server, screen
<1>3. /\ stream'.next = stream.next
      /\ stream'.last = stream.last
      /\ stream'.channel = stream.channel
      /\ stream'.conn = "off"
      /\ stream'.at \in 0..Len(log)
      /\ stream'.job = stream.job \/ ui.over
  <2>1. CASE EndJob
    BY <1>1, <2>1 DEF EndJob, Disconnected, Streams, CursorsInLog
  <2>2. CASE Disconnect
    BY <1>1, <2>2, Ended DEF Disconnect
  <2> QED
    BY <2>1, <2>2
<1>4. CursorsInLog'
  BY <1>1, <1>2, <1>3 DEF CursorsInLog
<1>5. Covered'
  BY <1>1, <1>2, <1>3 DEF Covered, Met, Accounted, Queued
<1> QED
  BY <1>4, <1>5 DEF StreamInv

\* An event received waits in the channel, or the channel is full.
LEMMA ReceiveStream ==
  ASSUME ChatType, StreamInv, Receive
  PROVE  StreamInv'
<1>0. PICK i : i = stream.at + 1
  OBVIOUS
<1> DEFINE size == Len(stream.channel)
           full == Len(stream.channel) = Capacity
           queue == IF full THEN stream.channel ELSE Append(stream.channel, i)
<1>1. /\ stream \in Streams /\ stream.channel \in Seq(Nat)
      /\ Len(log) \in Nat /\ size \in Nat
      /\ CursorsInLog /\ Covered /\ ScreenType
      /\ stream.at \in Nat /\ stream.at <= Len(log)
      /\ stream.last \in Nat /\ stream.next \in Int
      /\ \A j \in 1..size : /\ stream.channel[j] \in Nat
                            /\ 1 <= stream.channel[j]
                            /\ stream.channel[j] <= Len(log)
  BY StreamFacts
<1>2. /\ stream' = ReceivedTo(i, queue)
      /\ i <= Len(log)
      /\ stream.conn = "open"
      /\ UNCHANGED <<log, load, ui>>
  BY <1>0, <1>1 DEF Receive, ReceivedTo, Streams, server
<1>3. /\ \A k : k = stream.at + 1 /\ log[k].kind = "assistant" /\ full
                  => Accounted(k)'
      /\ \A k : Accounted(k) => Accounted(k)'
      /\ missed'.revived = missed.revived
  BY <1>1, MissedAtEnd
<1>4. Append(stream.channel, i) \in Seq(Nat)
      /\ Len(Append(stream.channel, i)) = size + 1
      /\ Append(stream.channel, i)[size + 1] = i
      /\ \A j \in 1..size : Append(stream.channel, i)[j] = stream.channel[j]
  BY <1>0, <1>1, AppendProperties
<1>5. \/ full /\ Len(queue) = size /\ queue = stream.channel
      \/ /\ ~full
         /\ Len(queue) = size + 1
         /\ queue[size + 1] = i
         /\ \A j \in 1..size : queue[j] = stream.channel[j]
  BY <1>4
<1>6. queue \in Queues /\ i \in Nat /\ i = stream.at + 1
  BY <1>0, <1>1, <1>4 DEF Queues
<1>7. /\ \A j \in 1..size : stream.channel[j] <= stream.at
      /\ \A j, k \in 1..size : j < k => stream.channel[j] < stream.channel[k]
      /\ load.latest <= Len(log) /\ stream.last <= Len(log)
      /\ stream.next \in NoCursor..Len(log)
  BY <1>1, <1>2 DEF CursorsInLog
<1> HIDE DEF queue, full, size
<1>8. /\ stream'.at = i
      /\ stream'.channel = queue
      /\ stream'.job = stream.job
      /\ stream'.next = stream.next
      /\ stream'.last = stream.last
      /\ stream'.conn = "open"
  BY <1>1, <1>2, <1>6, StreamMoves
<1>9. \A j \in 1..Len(queue) : \/ j \in 1..size /\ queue[j] = stream.channel[j]
                               \/ ~full /\ j = size + 1 /\ queue[j] = i
  BY <1>1, <1>5
<1>10. CursorsInLog'
  <2>1. ASSUME NEW j \in 1..Len(queue)
        PROVE  queue[j] \in 1..Len(log) /\ queue[j] <= i
    <3>1. CASE j \in 1..size /\ queue[j] = stream.channel[j]
      <4>1. /\ stream.channel[j] \in Nat
            /\ 1 <= stream.channel[j]
            /\ stream.channel[j] <= Len(log)
            /\ stream.channel[j] <= stream.at
        BY <1>1, <1>7, <3>1
      <4> QED
        BY <1>1, <1>6, <3>1, <4>1
    <3>2. CASE queue[j] = i
      BY <1>1, <1>2, <1>6, <3>2
    <3> QED
      BY <1>9, <3>1, <3>2
  <2>2. ASSUME NEW j \in 1..Len(queue), NEW k \in 1..Len(queue), j < k
        PROVE  queue[j] < queue[k]
    <3>1. CASE k \in 1..size /\ queue[k] = stream.channel[k]
      <4>1. j \in 1..size /\ queue[j] = stream.channel[j]
        BY <1>1, <1>9, <2>2, <3>1
      <4> QED
        BY <1>7, <2>2, <3>1, <4>1
    <3>2. CASE k = size + 1 /\ queue[k] = i
      <4>1. j \in 1..size /\ queue[j] = stream.channel[j]
        BY <1>1, <1>9, <2>2, <3>2
      <4> QED
        BY <1>1, <1>6, <1>7, <3>2, <4>1
    <3> QED
      BY <1>9, <3>1, <3>2
  <2>3. i \in 0..Len(log)
    BY <1>1, <1>2, <1>6
  <2> QED
    BY <1>2, <1>7, <1>8, <2>1, <2>2, <2>3 DEF CursorsInLog
<1>11. Covered'
  <2> SUFFICES ASSUME load.step = "open", ~missed.revived
               PROVE  Covered'
    BY <1>2, <1>3 DEF Covered
  <2>1. \A k : Queued(k) => Queued(k)'
    <3>1. \A j \in 1..size : j \in 1..Len(queue) /\ queue[j] = stream.channel[j]
      BY <1>1, <1>5
    <3> QED
      BY <1>8, <3>1 DEF Queued, size
  <2>2. \A k : Met(k) => Met(k)'
    BY <1>2, <1>3, <2>1 DEF Met
  <2>3. Met(i)'
    <3>1. CASE full
      BY <1>2, <1>3, <1>6, <3>1 DEF Met
    <3>2. CASE ~full
      <4>1. Len(queue) \in 1..Len(queue) /\ queue[Len(queue)] = i
        BY <1>1, <1>5, <3>2
      <4> QED
        BY <1>8, <4>1 DEF Met, Queued
    <3> QED
      BY <3>1, <3>2
  <2>4. \A k \in 1..i : Met(k)'
    <3>1. \A k \in 1..i : k \in 1..stream.at \/ k = i
      BY <1>1, <1>6
    <3>2. \A k \in 1..stream.at : Met(k)
      BY <1>1, <1>2 DEF Covered
    <3> QED
      BY <2>2, <2>3, <3>1, <3>2
  <2>5. \A j \in 1..Len(queue) : \A k \in 1..queue[j] : Met(k)'
    <3>1. \A j \in 1..size : \A k \in 1..stream.channel[j] : Met(k)
      BY <1>1 DEF Covered, size
    <3> QED
      BY <1>9, <2>2, <2>4, <3>1
  <2>6. /\ ~ui.over => stream.job /\ stream.next \in {NoCursor, 0}
        /\ stream.next = NoCursor =>
             \A k \in 1..stream.last :
               log[k].kind = "assistant" => Accounted(k)'
    BY <1>1, <1>3 DEF Covered
  <2> QED
    BY <1>2, <1>8, <2>4, <2>5, <2>6 DEF Covered
<1> QED
  BY <1>10, <1>11 DEF StreamInv

\* An event handled: everything up to it is accounted for.
LEMMA HandleStream ==
  ASSUME ChatType, StreamInv, HandleEvent
  PROVE  StreamInv'
<1>5. PICK i : i = stream.channel[1]
  OBVIOUS
<1> DEFINE queue == Tail(stream.channel)
           size == Len(stream.channel)
<1>1. /\ stream \in Streams /\ Len(log) \in Nat /\ size \in Nat
      /\ CursorsInLog /\ Covered /\ ScreenType
      /\ stream.at \in Nat
      /\ \A j \in 1..size : /\ stream.channel[j] \in Nat
                            /\ 1 <= stream.channel[j]
                            /\ stream.channel[j] <= Len(log)
  BY StreamFacts
<1>2. /\ stream.channel # <<>>
      /\ stream' = HandledTo(i, queue)
      /\ log[i].kind = "assistant" => i \in ui'.shown
      /\ Drawn
      /\ log' = log /\ load' = load
  BY <1>1, <1>5, HandledScreen DEF HandleEvent, server
<1>3. Keeps
  BY <1>1, <1>2, DrawnKeeps
<1>4. /\ i \in Nat /\ i \in 1..Len(log)
      /\ queue \in Queues
      /\ size >= 1 /\ Len(queue) = size - 1
      /\ \A j \in 1..size - 1 : queue[j] = stream.channel[j + 1]
  BY <1>1, <1>2, <1>5, HeadOfChannel DEF Queues
<1>6. /\ \A j, k \in 1..size : j < k => stream.channel[j] < stream.channel[k]
      /\ stream.conn = "open" =>
           \A j \in 1..size : stream.channel[j] <= stream.at
      /\ load.latest <= Len(log) /\ stream.at \in 0..Len(log)
  BY <1>1 DEF CursorsInLog
<1> HIDE DEF queue, size
<1>7. /\ stream'.at = stream.at
      /\ stream'.channel = queue
      /\ stream'.job = stream.job
      /\ stream'.next = NoCursor
      /\ stream'.last = i
      /\ stream'.conn = stream.conn
  BY <1>1, <1>2, <1>4, StreamMoves
<1>8. \A j \in 1..Len(queue) : /\ j + 1 \in 1..size
                               /\ queue[j] = stream.channel[j + 1]
  BY <1>1, <1>4
<1>9. CursorsInLog'
  <2>1. \A j \in 1..Len(queue) :
          /\ queue[j] \in 1..Len(log)
          /\ stream.conn = "open" => queue[j] <= stream.at
    <3> SUFFICES ASSUME NEW j \in 1..Len(queue)
                 PROVE  /\ queue[j] \in 1..Len(log)
                        /\ stream.conn = "open" => queue[j] <= stream.at
      OBVIOUS
    <3>1. PICK k \in 1..size : queue[j] = stream.channel[k]
      BY <1>8
    <3> QED
      BY <1>1, <1>6, <3>1
  <2>2. ASSUME NEW j \in 1..Len(queue), NEW k \in 1..Len(queue), j < k
        PROVE  queue[j] < queue[k]
    <3>1. j + 1 < k + 1
      BY <1>4, <2>2
    <3> QED
      BY <1>6, <1>8, <3>1
  <2>3. NoCursor \in NoCursor..Len(log)
    BY <1>1 DEF NoCursor
  <2> QED
    BY <1>2, <1>4, <1>6, <1>7, <2>1, <2>2, <2>3 DEF CursorsInLog
<1>10. Covered'
  <2> SUFFICES ASSUME load.step = "open", ~missed'.revived
               PROVE  Covered'
    BY <1>2 DEF Covered
  <2>1. Covered /\ ~missed.revived /\ (~ui'.over => ~ui.over)
        /\ \A k : Accounted(k) => Accounted(k)'
    BY <1>1, <1>3 DEF Keeps
  <2>2. log[i].kind = "assistant" => Accounted(i)'
    BY <1>2 DEF Accounted
  <2>3. ASSUME NEW j \in 1..size, j # 1
        PROVE  /\ i < stream.channel[j]
               /\ \E l \in 1..Len(queue) : queue[l] = stream.channel[j]
    <3>1. j - 1 \in 1..Len(queue) /\ queue[j - 1] = stream.channel[j]
      BY <1>1, <1>4, <2>3
    <3>2. 1 \in 1..size /\ 1 < j
      BY <1>1, <1>4, <2>3
    <3> QED
      BY <1>5, <1>6, <3>1, <3>2
  <2>4. ASSUME NEW k, log[k].kind = "assistant", Met(k)
        PROVE  \/ Accounted(k)'
               \/ i < k /\ \E l \in 1..Len(queue) : queue[l] = k
    <3>1. CASE Accounted(k)
      BY <2>1, <3>1
    <3>2. CASE Queued(k)
      <4>1. PICK j \in 1..size : stream.channel[j] = k
        BY <3>2 DEF Queued, size
      <4>2. CASE j = 1
        BY <1>5, <2>2, <2>4, <4>1, <4>2
      <4>3. CASE j # 1
        BY <2>3, <4>1, <4>3
      <4> QED
        BY <4>2, <4>3
    <3> QED
      BY <2>4, <3>1, <3>2 DEF Met
  <2>5. \A k : Met(k) => Met(k)'
    BY <1>2, <1>7, <2>4 DEF Met, Queued
  <2>6. \A j \in 1..size : \A k \in 1..stream.channel[j] : Met(k)
    BY <2>1 DEF Covered, size
  <2>7. \A k \in 1..i : log[k].kind = "assistant" => Accounted(k)'
    <3>1. \A k \in 1..i : Met(k) /\ ~(i < k)
      BY <1>1, <1>4, <1>5, <2>6
    <3> QED
      BY <2>4, <3>1
  <2>8. \A j \in 1..Len(queue) : \A k \in 1..queue[j] : Met(k)'
    BY <1>8, <2>5, <2>6
  <2>9. stream.conn = "open" => \A k \in 1..stream.at : Met(k)'
    BY <2>1, <2>5 DEF Covered
  <2>10. ~ui'.over => stream.job
    BY <2>1 DEF Covered
  <2> QED
    BY <1>2, <1>7, <2>7, <2>8, <2>9, <2>10 DEF Covered
<1> QED
  BY <1>9, <1>10 DEF StreamInv

LEMMA StreamStep ==
  ASSUME ChatInv, ChatNext, ChatType'
  PROVE  StreamInv'
<1>1. ChatType /\ StreamInv /\ LogGrows /\ ScreenType
  BY LogStep DEF ChatInv, ChatType
<1>2. ASSUME UNCHANGED <<load, stream>>, Drawn \/ UNCHANGED screen
      PROVE  StreamInv'
  <2>1. Keeps
    <3>1. UNCHANGED screen => Keeps
      BY DEF screen, Keeps, Accounted
    <3> QED
      BY <1>1, <1>2, <3>1, DrawnKeeps
  <2> QED
    BY <1>1, <1>2, <2>1, StreamKept
<1>3. CASE \E p \in DOMAIN posts : Api(p)
  BY <1>2, <1>3 DEF Api, Preflight, CommitTurn, Redeliver
<1>4. CASE \E p \in DOMAIN posts : Launch(p) \/ Answer(p)
  BY <1>4, PostStream
<1>5. CASE Type \/ Submit \/ \E m \in Base(Rider).sent : Retry(m)
  <2>1. UNCHANGED <<load, stream>>
    BY <1>5 DEF Type, Submit, Retry
  <2>2. Drawn
    BY <1>1, <1>5, RiderTypes
  <2> QED
    BY <1>2, <2>1, <2>2
<1>6. CASE \/ \E photo \in 1..MaxPhotos : Photo(photo)
           \/ \E x \in Base(Rider).photos : RemovePhoto(x) \/ RetryUpload(x)
  <2>1. UNCHANGED <<load, stream>> /\ (Drawn \/ UNCHANGED screen)
    BY <1>1, <1>6, PhotoTypes
  <2> QED
    BY <1>2, <2>1
<1>7. CASE Screen
  BY <1>1, <1>7, ScreenStream
<1>8. CASE Worker
  BY <1>2, <1>8 DEF Worker, Say, AskRider, SaveReport, Complete
<1>9. CASE Events
  BY <1>1, <1>9, ConnectStream, EndStream, ReceiveStream, HandleStream
     DEF Events
<1>10. CASE \E who \in Begun : ReadScreen(who)
  <2>1. UNCHANGED <<load, stream>>
    BY <1>10 DEF ReadScreen
  <2>2. Keeps
    BY <1>1, <1>10, ReadTypes
  <2> QED
    BY <1>1, <2>1, <2>2, StreamKept
<1> QED
  BY <1>3, <1>4, <1>5, <1>6, <1>7, <1>8, <1>9, <1>10 DEF ChatNext

-----------------------------------------------------------------------------
(* Theorems. *)

LEMMA ChatInit ==
  Init => ChatInv
<1> SUFFICES ASSUME Init PROVE ChatInv
  OBVIOUS
<1>1. /\ <<>> \in Seq(Nat) /\ <<>> \in Seq(Requests) /\ <<>> \in Seq(Entries)
      /\ Len(<<>>) = 0
  BY EmptySeq
<1>2. NewRow \in Rows /\ NewRow.request = 0
  BY DEF NewRow, Rows, Statuses
<1>3. Entry \in Loads /\ Entry.latest = 0 /\ Entry.step = "asking"
  BY <1>2 DEF Entry, Loads
<1>4. /\ Blank \in Screens /\ Blank.sent = {} /\ Released.ui = Blank
      /\ NothingMissed \in Losses
  BY BlankType DEF Released, NothingMissed, Losses
<1>5. /\ Idle \in Streams /\ Idle.at = 0 /\ Idle.last = 0 /\ Idle.conn = "off"
      /\ Idle.next = NoCursor /\ Idle.channel = <<>>
  BY <1>1 DEF Idle, Streams, Queues, NoCursor
<1>6. ChatType
  BY <1>1, <1>2, <1>3, <1>4, <1>5
     DEF Init, ChatType, ServerType, ScreenType, AppType
<1>7. TurnsInv
  BY <1>1, <1>2, <1>4
     DEF Init, TurnsInv, OneTurnPerClientId, PendingIsLatest, TurnsInOrder,
         RequestsMatch, SentStored
<1>8. StreamInv
  BY <1>1, <1>3, <1>5 DEF Init, StreamInv, CursorsInLog, Covered, NoCursor
<1> QED
  BY <1>6, <1>7, <1>8 DEF ChatInv

\* The invariant of the chat, with handlers that write over each other: types,
\* the order of requests, turns and answers, what the screen and a copy of it
\* show as sent, and what the stream covers.
THEOREM ChatInvariant ==
  ChatSpec => []ChatInv
<1>1. ChatInv /\ [ChatNext]_chatVars => ChatInv'
  <2> SUFFICES ASSUME ChatInv, [ChatNext]_chatVars
               PROVE  ChatInv'
    OBVIOUS
  <2>1. CASE ChatNext
    BY <2>1, TypeStep, TurnsStep, StreamStep DEF ChatInv
  <2>2. CASE UNCHANGED chatVars
    <3>1. UNCHANGED <<row, log, turns, open, artifacts, load, ui, held, missed,
                      uploads, posts, stream, faults>>
      BY <2>2 DEF chatVars, server, screen
    <3>2. ChatType'
      BY <3>1 DEF ChatInv, ChatType, ServerType, ScreenType, AppType
    <3>3. TurnsInv'
      BY <3>1
         DEF ChatInv, TurnsInv, OneTurnPerClientId, PendingIsLatest,
             TurnsInOrder, InOrder, IsRequest, QuietFrom, RequestsMatch,
             SentStored
    <3>4. StreamInv'
      BY <3>1
         DEF ChatInv, StreamInv, CursorsInLog, Covered, Met, Accounted, Queued
    <3> QED
      BY <3>2, <3>3, <3>4 DEF ChatInv
  <2> QED
    BY <2>1, <2>2
<1> QED
  BY <1>1, ChatInit, PTL DEF ChatSpec

\* A request delivered twice, before or after the session moved on, makes one
\* turn: accept_turn looks for the client turn id again under the row lock.
THEOREM OneTurn ==
  ChatSpec => []OneTurnPerClientId
BY ChatInvariant, PTL DEF ChatInv, TurnsInv

\* An answer is recorded for the request it was given to, although the first
\* of accept_turn's two looks is made without the lock.
THEOREM AnswersFollow ==
  ChatSpec => []AnswerFollowsItsRequest
<1>1. ChatInv => AnswerFollowsItsRequest
  <2> SUFFICES ASSUME ChatInv, NEW t \in turns, t.request # 0
               PROVE  /\ log[t.request].kind = "input"
                      /\ t.request < t.start
                      /\ \A i \in t.request + 1..t.start - 1 :
                           log[i].kind \notin {"started", "input"}
    BY DEF AnswerFollowsItsRequest
  <2>1. InOrder(t) /\ t \in Turns
    BY DEF ChatInv, ChatType, ServerType, TurnsInv, TurnsInOrder
  <2>2. t.request \in Nat /\ t.start \in Nat
    BY <2>1 DEF Turns
  <2>3. /\ log[t.request].kind = "input"
        /\ t.request < t.start
        /\ QuietFrom(t.request, t.start - 1)
    BY <2>1 DEF InOrder, IsRequest
  <2>4. \A i \in t.request + 1..t.start - 1 :
          i \in Nat /\ t.request < i /\ i <= t.start - 1
    BY <2>2
  <2> QED
    BY <2>3, <2>4 DEF QuietFrom
<1> QED
  BY <1>1, ChatInvariant, PTL

\* A message the chat shows as sent is a stored turn, whichever of its
\* requests was answered and whenever, and whatever copy of the screen a
\* handler wrote.
THEOREM SentMeansStored ==
  ChatSpec => []SentIsStored
<1>1. ChatInv => SentIsStored
  BY DEF ChatInv, TurnsInv, SentStored, SentIsStored
<1> QED
  BY <1>1, ChatInvariant, PTL

\* An app that has caught up shows every message of the assistant, however
\* often the stream broke and was resumed, but those the channel refused and
\* those a handler wrote an older copy of the screen over; a chat whose end
\* was written over is excepted.
THEOREM NothingMissing ==
  ChatSpec => []TranscriptComplete
<1>1. ChatInv => TranscriptComplete
  <2> SUFFICES ASSUME ChatInv, CaughtUp, ~missed.revived,
                      NEW i \in DOMAIN log, log[i].kind = "assistant"
               PROVE  Accounted(i)
    BY DEF TranscriptComplete, Accounted
  <2>1. DOMAIN log = 1..Len(log) /\ Len(log) \in Nat
    BY LenProperties DEF ChatInv, ChatType, ServerType
  <2>2. Met(i)
    BY <2>1 DEF ChatInv, StreamInv, Covered, CaughtUp
  <2>3. ~Queued(i)
    BY EmptySeq DEF CaughtUp, Queued
  <2> QED
    BY <2>2, <2>3 DEF Met
<1> QED
  BY <1>1, ChatInvariant, PTL
=============================================================================
