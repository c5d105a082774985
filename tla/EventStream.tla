----------------------------- MODULE EventStream -----------------------------
(***************************************************************************)
(* The event stream of one repair session.  Processes append events in     *)
(* transactions that hold the session row; after a commit they send hints, *)
(* to the streams they host themselves and through the broker to those of  *)
(* other processes.  A stream reads the table page by page, subscribes,    *)
(* and goes on reading after a hint, a poll or a heartbeat; its client     *)
(* reconnects after the last event it was handed.                          *)
(*                                                                         *)
(* Hints may be lost anywhere: the table is what a stream delivers.  Of an *)
(* event only its sequence matters, and whether it is a heartbeat, which   *)
(* no hint announces.                                                      *)
(***************************************************************************)
EXTENDS Integers, Sequences, FiniteSets

CONSTANTS
  Readers,    \* clients with an open or closed stream of the session
  Hosts,      \* API processes: they serve streams and append events
  Workers,    \* worker processes: they append events
  BatchSize,  \* REPLAY_BATCH_SIZE
  MaxEvents,  \* bound: once there are this many events, nothing adds to them
              \* but heartbeats that are already due
  MaxFaults   \* bound on broken connections of clients and processes

ASSUME StreamAssumption ==
  /\ Hosts \cap Workers = {}
  /\ BatchSize \in Nat \ {0}
  /\ MaxEvents \in Nat
  /\ MaxFaults \in Nat

Processes == Hosts \cup Workers

VARIABLES
  rows,        \* sequences of the committed events
  heartbeats,  \* those that are heartbeats
  latest,      \* the committed latest_event_sequence
  tx,          \* sequences each process added in its open transaction
  unreleased,  \* processes between a commit and its after_commit hook
  publishing,  \* processes with a publish_soon task to run
  connected,   \* processes with a broker connection
  onWire,      \* hosts to which the broker carries a hint
  missed,      \* hosts for which a hint was dropped (history)
  start,       \* the cursor each client begins with, chosen in advance
  got,         \* the sequences it was handed
  frames,      \* frames its server has written and it has not read
  stream,      \* its stream in the server
  faults       \* faults so far

table == <<rows, heartbeats, latest, tx>>
hints == <<unreleased, publishing, connected, onWire, missed>>
client == <<start, got, frames>>
streamVars == <<table, hints, client, stream, faults>>

\* stage: which read of the table the stream is at.  page: what a read still
\* has to yield.  more: whether it has another query to make.  brief: the
\* stream has the minimal timeout and never subscribes; replayed: it replayed
\* something.  hinted: its queue holds a hint.  poll, beat, deadline: that
\* instant has passed.
Closed ==
  [stage |-> "closed", host |-> "none", cursor |-> 0, page |-> {},
   more |-> FALSE, brief |-> FALSE, replayed |-> FALSE, hinted |-> FALSE,
   poll |-> FALSE, beat |-> FALSE, deadline |-> FALSE]

Reading == {"replay", "loop", "check", "beat"}

StreamTypeOK ==
  /\ rows \subseteq Nat /\ heartbeats \subseteq rows
  /\ latest \in Nat
  /\ tx \in [Processes -> SUBSET Nat]
  /\ unreleased \subseteq Processes /\ publishing \subseteq Processes
  /\ connected \subseteq Processes
  /\ onWire \subseteq Hosts /\ missed \subseteq Hosts
  /\ start \in [Readers -> Nat]
  /\ got \in [Readers -> Seq(rows)]
  /\ frames \in [Readers -> Seq(rows)]
  /\ stream \in [Readers ->
       [stage : Reading \cup {"closed", "waiting"},
        host : Hosts \cup {"none"}, cursor : Nat, page : SUBSET rows,
        more : BOOLEAN, brief : BOOLEAN, replayed : BOOLEAN,
        hinted : BOOLEAN, poll : BOOLEAN, beat : BOOLEAN,
        deadline : BOOLEAN]]
  /\ faults \in 0..MaxFaults

StreamInit ==
  /\ rows = {} /\ heartbeats = {} /\ latest = 0
  /\ tx = [p \in Processes |-> {}]
  /\ unreleased = {} /\ publishing = {} /\ onWire = {} /\ missed = {}
  /\ connected = Processes
  /\ start \in [Readers -> 0..MaxEvents]
  /\ got = [r \in Readers |-> <<>>]
  /\ frames = [r \in Readers |-> <<>>]
  /\ stream = [r \in Readers |-> Closed]
  /\ faults = 0

Fault ==
  /\ faults < MaxFaults
  /\ faults' = faults + 1

Room == latest + Cardinality(UNION {tx[p] : p \in Processes}) < MaxEvents
Unlocked(p) == \A q \in Processes \ {p} : tx[q] = {}

\* The n least elements of S.
Below(S, s) == {t \in S : t < s}
Lowest(S, n) == {s \in S : Cardinality(Below(S, s)) < n}

-----------------------------------------------------------------------------
(* Appending events. *)

\* Faulty: the sequence comes from a counter that no row lock protects.
AppendUnserialized(p) ==
  /\ Room
  /\ LET taken == rows \cup UNION {tx[q] : q \in Processes}
     IN tx' = [tx EXCEPT ![p] = @ \cup {Cardinality(taken) + 1}]
  /\ UNCHANGED <<rows, heartbeats, latest, hints, client, stream, faults>>

\* The transaction locks the session row, or holds it already.
AppendEvent(p) ==
  /\ Room
  /\ Unlocked(p)
  /\ tx' = [tx EXCEPT ![p] = @ \cup {latest + Cardinality(@) + 1}]
  /\ UNCHANGED <<rows, heartbeats, latest, hints, client, stream, faults>>

\* quiet: the events are heartbeats of streams this module leaves out.
Commit(p, quiet) ==
  /\ tx[p] # {}
  /\ quiet => p \in Hosts
  /\ rows' = rows \cup tx[p]
  /\ heartbeats' = IF quiet THEN heartbeats \cup tx[p] ELSE heartbeats
  /\ latest' = latest + Cardinality(tx[p])
  /\ tx' = [tx EXCEPT ![p] = {}]
  /\ unreleased' = IF quiet THEN unreleased ELSE unreleased \cup {p}
  /\ UNCHANGED <<publishing, connected, onWire, missed, client, stream,
                 faults>>

Rollback(p) ==
  /\ tx[p] # {}
  /\ tx' = [tx EXCEPT ![p] = {}]
  /\ UNCHANGED <<rows, heartbeats, latest, hints, client, stream, faults>>

-----------------------------------------------------------------------------
(* Hints. *)

Subscribed(r, h) ==
  /\ stream[r].host = h
  /\ stream[r].stage \in {"loop", "waiting", "check", "beat"}
  /\ ~stream[r].brief

\* EventWakeups.receive: a full queue keeps its one hint.
Receive(h) ==
  stream' = [r \in Readers |->
              [stream[r] EXCEPT !.hinted = @ \/ Subscribed(r, h)]]

Release(p) ==
  /\ p \in unreleased
  /\ unreleased' = unreleased \ {p}
  /\ publishing' = publishing \cup {p}
  /\ Receive(p)
  /\ UNCHANGED <<table, connected, onWire, missed, client, faults>>

\* Core NATS forgets a message for whoever is not connected.
PublishHint(p) ==
  /\ p \in publishing
  /\ publishing' = publishing \ {p}
  /\ Receive(p)
  /\ LET reached == IF p \in connected THEN connected \cap Hosts ELSE {}
     IN /\ onWire' = onWire \cup reached
        /\ missed' = missed \cup (Hosts \ (reached \cup {p}))
  /\ UNCHANGED <<table, unreleased, connected, client, faults>>

\* again: another hint of the same process is still under way.
HintArrives(h, again) ==
  /\ h \in onWire
  /\ onWire' = IF again THEN onWire ELSE onWire \ {h}
  /\ Receive(h)
  /\ UNCHANGED <<table, unreleased, publishing, connected, missed, client,
                 faults>>

BrokerDisconnects(p) ==
  /\ p \in connected
  /\ Fault
  /\ connected' = connected \ {p}
  /\ onWire' = onWire \ {p}
  /\ missed' = missed \cup (onWire \cap {p})
  /\ UNCHANGED <<table, unreleased, publishing, client, stream>>

BrokerReconnects(p) ==
  /\ p \in Processes \ connected
  /\ connected' = connected \cup {p}
  /\ UNCHANGED <<table, unreleased, publishing, onWire, missed, client,
                 stream, faults>>

\* The process dies between the commit and the hint, or drain() gives up.
HintLost(p) ==
  /\ p \in unreleased \cup publishing
  /\ Fault
  /\ unreleased' = unreleased \ {p}
  /\ publishing' = publishing \ {p}
  /\ missed' = Hosts
  /\ UNCHANGED <<table, connected, onWire, client, stream>>

-----------------------------------------------------------------------------
(* A stream in the server. *)

\* What the client sends as its cursor.
Position(r) == IF got[r] = <<>> THEN start[r] ELSE got[r][Len(got[r])]

\* prepare_stream: a cursor beyond the latest sequence is refused.
Open(r, h, brief) ==
  /\ stream[r].stage = "closed"
  /\ frames[r] = <<>>
  /\ Position(r) <= latest
  /\ brief => Room
  /\ stream' = [stream EXCEPT ![r] =
                  [Closed EXCEPT !.stage = "replay", !.host = h,
                                 !.cursor = Position(r), !.more = TRUE,
                                 !.brief = brief]]
  /\ UNCHANGED <<table, hints, client, faults>>

\* One list_after_sequence: a full page is followed by another query.
Query(r) ==
  /\ stream[r].stage \in Reading
  /\ stream[r].page = {}
  /\ stream[r].more
  /\ LET newer == {s \in rows : s > stream[r].cursor}
         page == Lowest(newer, BatchSize)
     IN stream' = [stream EXCEPT ![r].page = page,
                                 ![r].more = Cardinality(page) = BatchSize]
  /\ UNCHANGED <<table, hints, client, faults>>

\* In the loop and before a heartbeat an event puts the next heartbeat off.
Yielded(c, s) ==
  [c EXCEPT !.cursor = s,
            !.page = @ \ {s},
            !.replayed = c.brief,
            !.beat = @ /\ c.stage \notin {"loop", "check"}]

\* Frames are written in the order of the page.
Yield(r) ==
  /\ stream[r].page # {}
  /\ \E s \in stream[r].page :
       /\ \A t \in stream[r].page : s <= t
       /\ frames' = [frames EXCEPT ![r] = Append(@, s)]
       /\ stream' = [stream EXCEPT ![r] = Yielded(@, s)]
  /\ UNCHANGED <<table, hints, start, got, faults>>

Exhausted(r, stage) ==
  /\ stream[r].stage = stage
  /\ stream[r].page = {}
  /\ ~stream[r].more

ReadAs(s, stage) == [s EXCEPT !.stage = stage, !.more = TRUE]

\* The head of the loop: the deadline ends the stream before the read.
LoopOrClose(s) == IF s.deadline THEN Closed ELSE ReadAs(s, "loop")

\* Faulty: goes to sleep on the replay, which preceded the subscription.
SubscribeAndWait(r) ==
  /\ Exhausted(r, "replay")
  /\ ~stream[r].brief
  /\ stream' = [stream EXCEPT ![r].stage = "waiting"]
  /\ UNCHANGED <<table, hints, client, faults>>

Subscribe(r) ==
  /\ Exhausted(r, "replay")
  /\ ~stream[r].brief
  /\ stream' = [stream EXCEPT ![r] = LoopOrClose(@)]
  /\ UNCHANGED <<table, hints, client, faults>>

Wait(r) ==
  /\ Exhausted(r, "loop")
  /\ stream' = [stream EXCEPT ![r].stage = "waiting"]
  /\ UNCHANGED <<table, hints, client, faults>>

TakeHint(r) ==
  /\ stream[r].stage = "waiting"
  /\ stream[r].hinted
  /\ stream' = [stream EXCEPT ![r] = LoopOrClose([@ EXCEPT !.hinted = FALSE])]
  /\ UNCHANGED <<table, hints, client, faults>>

\* Faulty: a wait that times out is simply repeated.
AfterTimeoutRepeated(s) ==
  [s EXCEPT !.poll = FALSE, !.beat = FALSE, !.deadline = FALSE]

\* What follows a wait that times out; a poll goes before a heartbeat.
AfterTimeout(s) ==
  IF s.poll THEN LoopOrClose([s EXCEPT !.poll = FALSE])
  ELSE IF s.beat THEN ReadAs(s, "check")
  ELSE LoopOrClose(s)

WaitTimesOut(r) ==
  /\ stream[r].stage = "waiting"
  /\ stream[r].poll \/ stream[r].beat \/ stream[r].deadline
  /\ stream' = [stream EXCEPT ![r] = AfterTimeout(@)]
  /\ UNCHANGED <<table, hints, client, faults>>

\* A transaction of its own, which waits for the session row.
AppendHeartbeat ==
  /\ \A p \in Processes : tx[p] = {}
  /\ latest' = latest + 1
  /\ rows' = rows \cup {latest + 1}
  /\ heartbeats' = heartbeats \cup {latest + 1}
  /\ UNCHANGED tx

\* Nothing was replayed to a brief stream, or nothing put the heartbeat off.
Beat(r) ==
  /\ \/ Exhausted(r, "check") /\ stream[r].beat
     \/ Exhausted(r, "replay") /\ stream[r].brief /\ ~stream[r].replayed
  /\ AppendHeartbeat
  /\ stream' = [stream EXCEPT
                  ![r] = ReadAs([@ EXCEPT !.beat = FALSE], "beat")]
  /\ UNCHANGED <<hints, client, faults>>

Resume(r) ==
  /\ \/ Exhausted(r, "check") /\ ~stream[r].beat
     \/ Exhausted(r, "beat") /\ ~stream[r].brief
  /\ stream' = [stream EXCEPT ![r] = LoopOrClose(@)]
  /\ UNCHANGED <<table, hints, client, faults>>

EndBrief(r) ==
  /\ stream[r].brief
  /\ \/ Exhausted(r, "replay") /\ stream[r].replayed
     \/ Exhausted(r, "beat")
  /\ stream' = [stream EXCEPT ![r] = Closed]
  /\ UNCHANGED <<table, hints, client, faults>>

-----------------------------------------------------------------------------
(* The client, and the clock of a stream. *)

Handle(r) ==
  /\ frames[r] # <<>>
  /\ got' = [got EXCEPT ![r] = Append(@, Head(frames[r]))]
  /\ frames' = [frames EXCEPT ![r] = Tail(@)]
  /\ UNCHANGED <<table, hints, start, stream, faults>>

\* The client, the server or a failed statement ends the stream.
Disconnect(r) ==
  /\ stream[r].stage # "closed"
  /\ Fault
  /\ stream' = [stream EXCEPT ![r] = Closed]
  /\ frames' = [frames EXCEPT ![r] = <<>>]
  /\ UNCHANGED <<table, hints, start, got>>

\* An instant passes where the stream may look at it next.
InstantPasses(r) ==
  /\ ~stream[r].brief
  /\ \/ /\ stream[r].stage = "waiting" /\ ~stream[r].poll
        /\ stream' = [stream EXCEPT ![r].poll = TRUE]
     \/ /\ stream[r].stage \in {"waiting", "check"} /\ ~stream[r].beat
        /\ Room
        /\ stream' = [stream EXCEPT ![r].beat = TRUE]
     \/ /\ stream[r].stage \in {"waiting", "check", "beat"}
        /\ ~stream[r].deadline
        /\ stream' = [stream EXCEPT ![r].deadline = TRUE]
  /\ UNCHANGED <<table, hints, client, faults>>

-----------------------------------------------------------------------------

Opens(r) == \E h \in Hosts, brief \in BOOLEAN : Open(r, h, brief)

StreamStep(r) ==
  \/ Query(r) \/ Yield(r) \/ Subscribe(r) \/ Wait(r) \/ TakeHint(r)
  \/ WaitTimesOut(r) \/ Beat(r) \/ Resume(r) \/ EndBrief(r)

HintStep ==
  \/ \E p \in Processes :
       \/ Release(p) \/ PublishHint(p) \/ BrokerReconnects(p)
       \/ BrokerDisconnects(p) \/ HintLost(p)
  \/ \E h \in Hosts, again \in BOOLEAN : HintArrives(h, again)

WriterStep(p) ==
  \/ AppendEvent(p) \/ Rollback(p)
  \/ \E quiet \in BOOLEAN : Commit(p, quiet)

StreamNext ==
  \/ \E r \in Readers :
       \/ Opens(r) \/ StreamStep(r) \/ Handle(r) \/ InstantPasses(r)
       \/ Disconnect(r)
  \/ \E p \in Processes : WriterStep(p)
  \/ HintStep

StreamSpec == StreamInit /\ [][StreamNext]_streamVars

\* Transactions end, clients reconnect and read, and a stream's loop and its
\* clock go on; PostgreSQL queues those who wait for the session row, so that a
\* heartbeat gets it in the end.  No hint is ever obliged to arrive.
FairStreamSpec ==
  /\ StreamSpec
  /\ \A p \in Processes :
       WF_streamVars(Rollback(p) \/ \E quiet \in BOOLEAN : Commit(p, quiet))
  /\ \A r \in Readers :
       /\ WF_streamVars(Opens(r))
       /\ WF_streamVars(StreamStep(r))
       /\ SF_streamVars(Beat(r))
       /\ WF_streamVars(Handle(r))
       /\ WF_streamVars(InstantPasses(r))

-----------------------------------------------------------------------------
(* Properties. *)

\* Over all its connections a client is handed the committed events after its
\* first cursor without a gap, a repetition or a change of order, and nothing
\* that is not committed.
Delivery == INSTANCE EventDelivery WITH published <- latest

ImplementsEventDelivery == Delivery!DeliverySpec

\* "Subscribe after replay, then query again to close the race"
\* (services/events.py:227): a stream that sleeps without a hint is behind
\* only by heartbeats, unless a hint is still under way or was dropped.
NoMissedHint ==
  \A r \in Readers :
    /\ stream[r].stage = "waiting"
    /\ ~stream[r].hinted
    /\ \E s \in rows \ heartbeats : s > stream[r].cursor
    => \/ stream[r].host \in onWire \cup missed
       \/ unreleased \cup publishing # {}

\* Every committed event reaches the client, though all hints may be lost.
EventuallyDelivered ==
  \A r \in Readers : \A s \in 1..MaxEvents :
    (s \in rows /\ s > start[r]) ~> (Len(got[r]) >= s - start[r])
=============================================================================
