-------------------------- MODULE EventStreamProofs --------------------------
(***************************************************************************)
(* For any readers, processes and batch size, what a client is handed over *)
(* all its connections is an unbroken run of the committed log.            *)
(***************************************************************************)
EXTENDS EventStream, FiniteSetTheorems, TLAPS

Streams ==
  [stage : Reading \cup {"closed", "waiting"},
   host : Hosts \cup {"none"}, cursor : Nat, page : SUBSET Nat,
   more : BOOLEAN, brief : BOOLEAN, replayed : BOOLEAN,
   hinted : BOOLEAN, poll : BOOLEAN, beat : BOOLEAN, deadline : BOOLEAN]

Typed ==
  /\ latest \in Nat
  /\ tx \in [Processes -> SUBSET Nat]
  /\ start \in [Readers -> Nat]
  /\ got \in [Readers -> Seq(Nat)]
  /\ frames \in [Readers -> Seq(Nat)]
  /\ stream \in [Readers -> Streams]

\* The table holds every sequence up to the latest, and the process that
\* holds the session row has allocated the next ones.
Serialized ==
  /\ rows = 1..latest
  /\ \A p \in Processes :
       /\ IsFiniteSet(tx[p])
       /\ tx[p] = (latest + 1)..(latest + Cardinality(tx[p]))
  /\ \A p, q \in Processes : tx[p] # {} /\ tx[q] # {} => p = q

\* The sequence f counts on from n.
Run(f, n) == \A i \in 1..Len(f) : f[i] = n + i

Handed(r) == start[r] + Len(got[r]) + Len(frames[r])

\* What was handed to the client and what is on its way are runs that follow
\* one another, up to the cursor of an open stream.
Unbroken(r) ==
  /\ Run(got[r], start[r])
  /\ Run(frames[r], start[r] + Len(got[r]))
  /\ Handed(r) > start[r] => Handed(r) <= latest
  /\ stream[r].stage # "closed" =>
       stream[r].cursor = Handed(r) /\ Handed(r) <= latest

\* A page leaves out no committed event below one it holds.
PageComplete(r) ==
  /\ stream[r].stage = "closed" => stream[r].page = {}
  /\ \A s \in stream[r].page : stream[r].cursor < s /\ s <= latest
  /\ \A s \in (stream[r].cursor + 1)..latest, t \in stream[r].page :
       s <= t => s \in stream[r].page

StreamIInv ==
  /\ Typed
  /\ Serialized
  /\ \A r \in Readers : Unbroken(r) /\ PageComplete(r)

\* An open stream keeps its place unless it closes.
KeptStream(r) ==
  \/ stream'[r] = Closed
  \/ /\ stream'[r].cursor = stream[r].cursor
     /\ stream'[r].page = stream[r].page
     /\ stream'[r].stage = "closed" <=> stream[r].stage = "closed"

\* A step that hands nothing over and moves no stream.
Calm ==
  /\ UNCHANGED client
  /\ latest' \in Nat /\ latest' >= latest
  /\ \A r \in Readers : KeptStream(r)

-----------------------------------------------------------------------------
(* Sets of sequences. *)

\* The next sequence extends a run of allocated ones.
LEMMA RunExtended ==
  ASSUME NEW n \in Nat, NEW S, IsFiniteSet(S), S = (n + 1)..(n + Cardinality(S)),
         NEW T, T = S \cup {n + Cardinality(S) + 1}
  PROVE  /\ IsFiniteSet(T)
         /\ T = (n + 1)..(n + Cardinality(T))
<1>1. Cardinality(S) \in Nat
  BY FS_CardinalityType
<1>2. n + Cardinality(S) + 1 \notin S
  BY <1>1
<1>3. IsFiniteSet(T) /\ Cardinality(T) = Cardinality(S) + 1
  BY <1>2, FS_AddElement
<1>4. T = (n + 1)..(n + Cardinality(S) + 1)
  BY <1>1
<1>5. n + Cardinality(S) + 1 = n + Cardinality(T)
  BY <1>1, <1>3
<1> QED
  BY <1>3, <1>4, <1>5

\* Whatever is below one of the least elements is one of them.
LEMMA LowestClosed ==
  ASSUME NEW S \in SUBSET Nat, IsFiniteSet(S), NEW n \in Nat,
         NEW s \in S, NEW t \in Lowest(S, n), s <= t
  PROVE  s \in Lowest(S, n)
<1>1. t \in S /\ Cardinality(Below(S, t)) < n
  BY DEF Lowest
<1>2. Below(S, s) \subseteq Below(S, t)
  <2>1. s \in Nat /\ t \in Nat /\ \A u \in S : u \in Nat
    BY <1>1
  <2>2. ASSUME NEW u \in S, u < s PROVE u < t
    BY <2>1, <2>2
  <2> QED
    BY <2>2 DEF Below
<1>3. Below(S, t) \subseteq S
  BY DEF Below
<1>4. IsFiniteSet(Below(S, t))
  BY <1>3, FS_Subset
<1>5. /\ IsFiniteSet(Below(S, s))
      /\ Cardinality(Below(S, s)) <= Cardinality(Below(S, t))
  BY <1>2, <1>4, FS_Subset
<1>6. Cardinality(Below(S, s)) \in Nat /\ Cardinality(Below(S, t)) \in Nat
  BY <1>4, <1>5, FS_CardinalityType
<1>7. Cardinality(Below(S, s)) < n
  BY <1>1, <1>5, <1>6
<1> QED
  BY <1>7 DEF Lowest

-----------------------------------------------------------------------------
(* Steps that hand nothing over. *)

LEMMA CalmKeeps ==
  ASSUME Typed, Typed', Calm,
         \A r \in Readers : Unbroken(r) /\ PageComplete(r)
  PROVE  \A r \in Readers : Unbroken(r)' /\ PageComplete(r)'
<1> SUFFICES ASSUME NEW r \in Readers
             PROVE  Unbroken(r)' /\ PageComplete(r)'
  OBVIOUS
<1>0. /\ start[r] \in Nat /\ Len(got[r]) \in Nat /\ Len(frames[r]) \in Nat
      /\ latest \in Nat /\ latest' \in Nat /\ latest <= latest'
      /\ stream[r] \in Streams /\ stream'[r] \in Streams
  BY DEF Typed, Calm
<1>1. start' = start /\ got' = got /\ frames' = frames
  BY DEF Calm, client
<1>2. Unbroken(r) /\ PageComplete(r) /\ KeptStream(r)
  BY DEF Calm
<1>3. CASE stream'[r] = Closed
  <2>1. stream'[r].stage = "closed" /\ stream'[r].page = {}
    BY <1>3 DEF Closed
  <2>2. Unbroken(r)'
    BY <2>1, <1>0, <1>1, <1>2 DEF Unbroken, Handed
  <2>3. PageComplete(r)'
    BY <2>1 DEF PageComplete
  <2> QED
    BY <2>2, <2>3
<1>4. CASE stream'[r] # Closed
  <2>1. /\ stream'[r].cursor = stream[r].cursor
        /\ stream'[r].page = stream[r].page
        /\ stream'[r].stage = "closed" <=> stream[r].stage = "closed"
    BY <1>2, <1>4 DEF KeptStream
  <2>2. Unbroken(r)'
    BY <2>1, <1>0, <1>1, <1>2 DEF Unbroken, Handed
  <2>3. /\ stream[r].cursor \in Nat
        /\ \A t \in stream[r].page : t \in Nat
    BY <1>0 DEF Streams
  <2>4. PageComplete(r)'
    BY <2>1, <2>3, <1>0, <1>2 DEF PageComplete
  <2> QED
    BY <2>2, <2>4
<1> QED
  BY <1>3, <1>4

\* Such a step keeps the invariant when the table stays as it is.
LEMMA QuietKeeps ==
  ASSUME StreamIInv, UNCHANGED <<table, client>>,
         stream' \in [Readers -> Streams], \A r \in Readers : KeptStream(r)
  PROVE  StreamIInv'
<1>1. Typed /\ Typed'
  BY DEF StreamIInv, Typed, table, client
<1>2. Calm
  BY <1>1 DEF Calm, Typed, table
<1>3. \A r \in Readers : Unbroken(r)' /\ PageComplete(r)'
  BY <1>1, <1>2, CalmKeeps DEF StreamIInv
<1>4. Serialized'
  BY DEF StreamIInv, Serialized, table
<1> QED
  BY <1>1, <1>3, <1>4 DEF StreamIInv

\* One stream's record is replaced by one that keeps its place, or closed.
LEMMA OneKept ==
  ASSUME Typed, NEW r \in Readers, NEW s \in Streams,
         stream' = [stream EXCEPT ![r] = s],
         \/ s = Closed
         \/ /\ s.cursor = stream[r].cursor
            /\ s.page = stream[r].page
            /\ s.stage = "closed" <=> stream[r].stage = "closed"
  PROVE  /\ stream' \in [Readers -> Streams]
         /\ \A q \in Readers : KeptStream(q)
<1>1. stream \in [Readers -> Streams]
  BY DEF Typed
<1>2. stream'[r] = s /\ \A q \in Readers \ {r} : stream'[q] = stream[q]
  BY <1>1
<1> QED
  BY <1>1, <1>2 DEF KeptStream

LEMMA ClosedTyped == Closed \in Streams
  BY DEF Closed, Streams, Reading

LEMMA ReadAsKept ==
  ASSUME NEW s \in Streams, NEW stage \in Reading
  PROVE  /\ ReadAs(s, stage) \in Streams
         /\ ReadAs(s, stage).cursor = s.cursor
         /\ ReadAs(s, stage).page = s.page
         /\ ReadAs(s, stage).stage # "closed"
  BY DEF ReadAs, Streams, Reading

LEMMA LoopOrCloseKept ==
  ASSUME NEW s \in Streams, NEW c \in Streams, c.stage # "closed",
         s.cursor = c.cursor, s.page = c.page
  PROVE  /\ LoopOrClose(s) \in Streams
         /\ \/ LoopOrClose(s) = Closed
            \/ /\ LoopOrClose(s).cursor = c.cursor
               /\ LoopOrClose(s).page = c.page
               /\ LoopOrClose(s).stage = "closed" <=> c.stage = "closed"
<1>1. CASE s.deadline
  BY <1>1, ClosedTyped DEF LoopOrClose
<1>2. CASE ~s.deadline
  BY <1>2, ReadAsKept DEF LoopOrClose, Reading
<1> QED
  BY <1>1, <1>2

-----------------------------------------------------------------------------
(* Steps of a stream that read nothing. *)

LEMMA CalmSteps ==
  ASSUME StreamIInv, NEW r \in Readers,
         \/ Subscribe(r) \/ Wait(r) \/ TakeHint(r) \/ WaitTimesOut(r)
         \/ Resume(r) \/ EndBrief(r) \/ InstantPasses(r)
  PROVE  StreamIInv'
<1> DEFINE c == stream[r]
<1>0. Typed /\ c \in Streams /\ stream \in [Readers -> Streams]
  BY DEF StreamIInv, Typed
<1>1. UNCHANGED <<table, client>>
  BY DEF Subscribe, Wait, TakeHint, WaitTimesOut, Resume, EndBrief,
         InstantPasses
<1>2. SUFFICES ASSUME NEW s \in Streams, stream' = [stream EXCEPT ![r] = s],
                      \/ s = Closed
                      \/ /\ s.cursor = c.cursor
                         /\ s.page = c.page
                         /\ s.stage = "closed" <=> c.stage = "closed"
               PROVE  StreamIInv'
  <2> DEFINE Good(s) == /\ s \in Streams
                        /\ stream' = [stream EXCEPT ![r] = s]
                        /\ \/ s = Closed
                           \/ /\ s.cursor = c.cursor
                              /\ s.page = c.page
                              /\ s.stage = "closed" <=> c.stage = "closed"
  <2> SUFFICES \E s : Good(s)
    OBVIOUS
  <2>1. CASE Subscribe(r)
    <3>1. c.stage # "closed" /\ stream' = [stream EXCEPT ![r] = LoopOrClose(c)]
      BY <2>1 DEF Subscribe, Exhausted
    <3>2. Good(LoopOrClose(c))
      BY <1>0, <3>1, LoopOrCloseKept
    <3> QED
      BY <3>2
  <2>2. CASE Wait(r)
    <3> DEFINE w == [c EXCEPT !.stage = "waiting"]
    <3>1. c.stage # "closed" /\ stream' = [stream EXCEPT ![r] = w]
      BY <2>2 DEF Wait, Exhausted
    <3>2. w \in Streams /\ w.cursor = c.cursor /\ w.page = c.page
          /\ w.stage = "waiting"
      BY <1>0 DEF Streams
    <3>3. Good(w)
      BY <3>1, <3>2
    <3> QED
      BY <3>3
  <2>3. CASE TakeHint(r)
    <3> DEFINE w == [c EXCEPT !.hinted = FALSE]
    <3>1. c.stage # "closed" /\ stream' = [stream EXCEPT ![r] = LoopOrClose(w)]
      BY <2>3 DEF TakeHint
    <3>2. w \in Streams /\ w.cursor = c.cursor /\ w.page = c.page
      BY <1>0 DEF Streams
    <3>3. Good(LoopOrClose(w))
      BY <1>0, <3>1, <3>2, LoopOrCloseKept
    <3> QED
      BY <3>3
  <2>4. CASE WaitTimesOut(r)
    <3>1. c.stage # "closed" /\ stream' = [stream EXCEPT ![r] = AfterTimeout(c)]
      BY <2>4 DEF WaitTimesOut
    <3>2. CASE c.poll
      <4> DEFINE w == [c EXCEPT !.poll = FALSE]
      <4>1. w \in Streams /\ w.cursor = c.cursor /\ w.page = c.page
        BY <1>0 DEF Streams
      <4>2. AfterTimeout(c) = LoopOrClose(w)
        BY <3>2 DEF AfterTimeout
      <4>3. Good(LoopOrClose(w))
        BY <1>0, <3>1, <4>1, <4>2, LoopOrCloseKept
      <4> QED
        BY <4>3
    <3>3. CASE ~c.poll /\ c.beat
      <4>1. AfterTimeout(c) = ReadAs(c, "check")
        BY <3>3 DEF AfterTimeout
      <4>2. Good(ReadAs(c, "check"))
        BY <1>0, <3>1, <4>1, ReadAsKept DEF Reading
      <4> QED
        BY <4>2
    <3>4. CASE ~c.poll /\ ~c.beat
      <4>1. AfterTimeout(c) = LoopOrClose(c)
        BY <3>4 DEF AfterTimeout
      <4>2. Good(LoopOrClose(c))
        BY <1>0, <3>1, <4>1, LoopOrCloseKept
      <4> QED
        BY <4>2
    <3> QED
      BY <3>2, <3>3, <3>4
  <2>5. CASE Resume(r)
    <3>1. c.stage # "closed" /\ stream' = [stream EXCEPT ![r] = LoopOrClose(c)]
      BY <2>5 DEF Resume, Exhausted
    <3>2. Good(LoopOrClose(c))
      BY <1>0, <3>1, LoopOrCloseKept
    <3> QED
      BY <3>2
  <2>6. CASE EndBrief(r)
    <3>1. Good(Closed)
      BY <2>6, ClosedTyped DEF EndBrief
    <3> QED
      BY <3>1
  <2>7. CASE InstantPasses(r)
    <3> DEFINE w1 == [c EXCEPT !.poll = TRUE]
               w2 == [c EXCEPT !.beat = TRUE]
               w3 == [c EXCEPT !.deadline = TRUE]
    <3>1. \/ stream' = [stream EXCEPT ![r] = w1]
          \/ stream' = [stream EXCEPT ![r] = w2]
          \/ stream' = [stream EXCEPT ![r] = w3]
      BY <2>7 DEF InstantPasses
    <3>2. \A w \in {w1, w2, w3} :
            /\ w \in Streams
            /\ w.cursor = c.cursor /\ w.page = c.page /\ w.stage = c.stage
      BY <1>0 DEF Streams
    <3>3. Good(w1) \/ Good(w2) \/ Good(w3)
      BY <3>1, <3>2
    <3> QED
      BY <3>3
  <2> QED
    BY <2>1, <2>2, <2>3, <2>4, <2>5, <2>6, <2>7
<1>3. stream' \in [Readers -> Streams] /\ \A q \in Readers : KeptStream(q)
  BY <1>0, <1>2, OneKept
<1> QED
  BY <1>1, <1>3, QuietKeeps

-----------------------------------------------------------------------------
(* Hints and appended events. *)

LEMMA HintSteps ==
  ASSUME StreamIInv, HintStep
  PROVE  StreamIInv'
<1>0. stream \in [Readers -> Streams]
  BY DEF StreamIInv, Typed
<1>1. UNCHANGED <<table, client>>
  BY DEF HintStep, Release, PublishHint, HintArrives, BrokerDisconnects,
         BrokerReconnects, HintLost
<1>2. UNCHANGED stream \/ \E h : Receive(h)
  BY DEF HintStep, Release, PublishHint, HintArrives, BrokerDisconnects,
         BrokerReconnects, HintLost
<1>3. CASE UNCHANGED stream
  BY <1>0, <1>1, <1>3, QuietKeeps DEF KeptStream
<1>4. ASSUME NEW h, Receive(h)
      PROVE  StreamIInv'
  <2> DEFINE w(r) == [stream[r] EXCEPT !.hinted = @ \/ Subscribed(r, h)]
  <2>1. stream' = [r \in Readers |-> w(r)]
    BY <1>4 DEF Receive
  <2>2. ASSUME NEW r \in Readers
        PROVE  /\ w(r) \in Streams
               /\ w(r).cursor = stream[r].cursor
               /\ w(r).page = stream[r].page
               /\ w(r).stage = stream[r].stage
    <3>1. stream[r] \in Streams
      BY <1>0
    <3>2. (stream[r].hinted \/ Subscribed(r, h)) \in BOOLEAN
      OBVIOUS
    <3> QED
      BY <3>1, <3>2 DEF Streams
  <2>3. stream' \in [Readers -> Streams] /\ \A r \in Readers : KeptStream(r)
    BY <2>1, <2>2 DEF KeptStream
  <2> QED
    BY <1>1, <2>3, QuietKeeps
<1> QED
  BY <1>2, <1>3, <1>4

LEMMA WriterSteps ==
  ASSUME StreamIInv, NEW p \in Processes, WriterStep(p)
  PROVE  StreamIInv' /\ latest' \in Nat /\ latest' >= latest /\ UNCHANGED client
<1>0. Typed /\ Serialized
  BY DEF StreamIInv
<1>1. UNCHANGED <<client, stream>>
  BY DEF WriterStep, AppendEvent, Rollback, Commit
<1>2. /\ IsFiniteSet(tx[p]) /\ Cardinality(tx[p]) \in Nat
      /\ tx[p] = (latest + 1)..(latest + Cardinality(tx[p]))
      /\ latest \in Nat
      /\ tx \in [Processes -> SUBSET Nat]
  BY <1>0, FS_CardinalityType DEF Serialized, Typed
<1>3. ASSUME latest' \in Nat, latest' >= latest,
             tx' \in [Processes -> SUBSET Nat], Serialized'
      PROVE  StreamIInv' /\ latest' \in Nat /\ latest' >= latest
             /\ UNCHANGED client
  <2>1. Typed'
    BY <1>0, <1>1, <1>3 DEF Typed, client
  <2>2. Calm
    BY <1>1, <1>3 DEF Calm, KeptStream
  <2>3. \A r \in Readers : Unbroken(r)' /\ PageComplete(r)'
    BY <1>0, <2>1, <2>2, CalmKeeps DEF StreamIInv
  <2> QED
    BY <1>1, <1>3, <2>1, <2>3 DEF StreamIInv
<1>4. CASE AppendEvent(p)
  <2> DEFINE T == tx[p] \cup {latest + Cardinality(tx[p]) + 1}
  <2>1. /\ tx' = [tx EXCEPT ![p] = T]
        /\ latest' = latest /\ rows' = rows
        /\ \A q \in Processes \ {p} : tx[q] = {}
    BY <1>4 DEF AppendEvent, Unlocked
  <2>2. IsFiniteSet(T) /\ T = (latest + 1)..(latest + Cardinality(T))
    BY <1>2, RunExtended
  <2>3. T \in SUBSET Nat
    BY <1>2
  <2>4. tx'[p] = T /\ \A q \in Processes \ {p} : tx'[q] = tx[q]
    BY <1>2, <2>1
  <2>5. tx' \in [Processes -> SUBSET Nat]
    BY <1>2, <2>1, <2>3
  <2>6. Serialized'
    BY <1>0, <2>1, <2>2, <2>4 DEF Serialized
  <2> QED
    BY <1>2, <1>3, <2>1, <2>5, <2>6
<1>5. CASE Rollback(p)
  <2>1. tx' = [tx EXCEPT ![p] = {}] /\ latest' = latest /\ rows' = rows
    BY <1>5 DEF Rollback
  <2>2. tx'[p] = {} /\ \A q \in Processes \ {p} : tx'[q] = tx[q]
    BY <1>2, <2>1
  <2>3. IsFiniteSet({}) /\ Cardinality({}) = 0
    BY FS_EmptySet
  <2>4. {} = (latest + 1)..(latest + 0)
    BY <1>2
  <2>5. Serialized'
    BY <1>0, <2>1, <2>2, <2>3, <2>4 DEF Serialized
  <2>6. tx' \in [Processes -> SUBSET Nat]
    BY <1>2, <2>1
  <2> QED
    BY <1>2, <1>3, <2>1, <2>5, <2>6
<1>6. ASSUME NEW quiet \in BOOLEAN, Commit(p, quiet)
      PROVE  StreamIInv' /\ latest' \in Nat /\ latest' >= latest
             /\ UNCHANGED client
  <2>1. /\ tx[p] # {}
        /\ tx' = [tx EXCEPT ![p] = {}]
        /\ latest' = latest + Cardinality(tx[p])
        /\ rows' = rows \cup tx[p]
    BY <1>6 DEF Commit
  <2>2. tx' = [q \in Processes |-> {}]
    BY <1>0, <1>2, <2>1 DEF Serialized
  <2>3. rows' = 1..latest'
    BY <1>0, <1>2, <2>1 DEF Serialized
  <2>4. IsFiniteSet({}) /\ Cardinality({}) = 0
    BY FS_EmptySet
  <2>5. latest' \in Nat /\ latest' >= latest /\ {} = (latest' + 1)..(latest' + 0)
    BY <1>2, <2>1
  <2>6. Serialized'
    BY <2>2, <2>3, <2>4, <2>5 DEF Serialized
  <2>7. tx' \in [Processes -> SUBSET Nat]
    BY <2>2
  <2> QED
    BY <1>3, <2>5, <2>6, <2>7
<1> QED
  BY <1>4, <1>5, <1>6 DEF WriterStep

-----------------------------------------------------------------------------
(* Steps that move a stream or its client. *)

\* A step that leaves the table alone and one reader's neighbours too.
LEMMA OneReader ==
  ASSUME StreamIInv, NEW r \in Readers, UNCHANGED table, Typed',
         start' = start,
         \A q \in Readers \ {r} :
           /\ got'[q] = got[q] /\ frames'[q] = frames[q]
           /\ stream'[q] = stream[q],
         Unbroken(r)', PageComplete(r)'
  PROVE  StreamIInv'
<1>1. \A q \in Readers \ {r} : Unbroken(q)' /\ PageComplete(q)'
  BY DEF StreamIInv, Unbroken, PageComplete, Handed, table
<1>2. Serialized'
  BY DEF StreamIInv, Serialized, table
<1> QED
  BY <1>1, <1>2 DEF StreamIInv

LEMMA QueryStep ==
  ASSUME StreamIInv, NEW r \in Readers, Query(r)
  PROVE  StreamIInv'
<1> DEFINE c == stream[r]
           newer == {s \in rows : s > c.cursor}
           page == Lowest(newer, BatchSize)
           w == [c EXCEPT !.page = page,
                          !.more = (Cardinality(page) = BatchSize)]
<1>0. /\ Typed /\ c \in Streams /\ stream \in [Readers -> Streams]
      /\ rows = 1..latest /\ latest \in Nat /\ c.cursor \in Nat
  BY DEF StreamIInv, Typed, Serialized, Streams
<1>1. /\ stream' = [stream EXCEPT ![r] = w]
      /\ UNCHANGED table /\ start' = start /\ got' = got /\ frames' = frames
      /\ c.stage # "closed"
  BY DEF Query, client, Reading
<1>2. IsFiniteSet(newer) /\ newer \in SUBSET Nat
  <2>1. IsFiniteSet(1..latest)
    BY <1>0, FS_Interval
  <2>2. newer \subseteq 1..latest
    BY <1>0
  <2> QED
    BY <1>0, <2>1, <2>2, FS_Subset
<1>3. page \subseteq newer
  BY DEF Lowest
<1>4. w \in Streams /\ w.page = page /\ w.cursor = c.cursor /\ w.stage = c.stage
  <2>1. page \in SUBSET Nat
    BY <1>2, <1>3
  <2> HIDE DEF page
  <2> QED
    BY <1>0, <2>1 DEF Streams
<1>5. stream'[r] = w /\ \A q \in Readers \ {r} : stream'[q] = stream[q]
  BY <1>0, <1>1
<1>6. Typed'
  BY <1>0, <1>1, <1>4 DEF Typed, table
<1>7. Unbroken(r)'
  BY <1>1, <1>4, <1>5 DEF StreamIInv, Unbroken, Handed, table
<1>8. PageComplete(r)'
  <2>1. ASSUME NEW s \in page PROVE c.cursor < s /\ s <= latest
    BY <1>0, <1>3, <2>1
  <2>2. ASSUME NEW s \in (c.cursor + 1)..latest, NEW t \in page, s <= t
        PROVE  s \in page
    <3>1. s \in newer
      BY <1>0
    <3>2. BatchSize \in Nat
      BY StreamAssumption
    <3> QED
      BY <1>2, <2>2, <3>1, <3>2, LowestClosed
  <2> HIDE DEF page
  <2> QED
    BY <1>1, <1>4, <1>5, <2>1, <2>2 DEF PageComplete, table
<1> QED
  BY <1>1, <1>5, <1>6, <1>7, <1>8, OneReader

LEMMA YieldedTyped ==
  ASSUME NEW c \in Streams, NEW s \in Nat
  PROVE  /\ Yielded(c, s) \in Streams
         /\ Yielded(c, s).cursor = s
         /\ Yielded(c, s).page = c.page \ {s}
         /\ Yielded(c, s).stage = c.stage
<1> DEFINE b == c.beat /\ c.stage \notin {"loop", "check"}
           P == c.page \ {s}
<1>1. b \in BOOLEAN /\ P \in SUBSET Nat
  BY DEF Streams
<1>2. Yielded(c, s) = [c EXCEPT !.cursor = s, !.page = P,
                                !.replayed = c.brief, !.beat = b]
  BY DEF Yielded, Streams
<1>3. P = c.page \ {s}
  OBVIOUS
<1> HIDE DEF b, P
<1> QED
  BY <1>1, <1>2, <1>3 DEF Streams

\* A run goes on with its next element.
LEMMA RunAppended ==
  ASSUME NEW f \in Seq(Nat), NEW n \in Nat, Run(f, n),
         NEW s, s = n + Len(f) + 1
  PROVE  /\ Append(f, s) \in Seq(Nat)
         /\ Len(Append(f, s)) = Len(f) + 1
         /\ Run(Append(f, s), n)
<1> DEFINE g == Append(f, s)
<1>1. Len(f) \in Nat /\ s \in Nat /\ s = n + (Len(f) + 1)
  OBVIOUS
<1>2. /\ g \in Seq(Nat) /\ Len(g) = Len(f) + 1
      /\ g[Len(f) + 1] = s
      /\ \A k \in 1..Len(f) : g[k] = f[k]
  BY <1>1
<1>3. ASSUME NEW k \in 1..Len(g) PROVE g[k] = n + k
  <2>1. CASE k = Len(f) + 1
    BY <2>1, <1>1, <1>2
  <2>2. CASE k # Len(f) + 1
    <3>1. k \in 1..Len(f)
      BY <2>2, <1>1, <1>2
    <3> QED
      BY <3>1, <1>2 DEF Run
  <2> QED
    BY <2>1, <2>2
<1> QED
  BY <1>2, <1>3 DEF Run

\* The frame written is the successor of the cursor.
LEMMA YieldStep ==
  ASSUME StreamIInv, NEW r \in Readers, Yield(r)
  PROVE  StreamIInv'
<1> DEFINE c == stream[r]
           n == start[r] + Len(got[r])
<1>0. /\ Typed /\ c \in Streams /\ stream \in [Readers -> Streams]
      /\ latest \in Nat /\ c.cursor \in Nat /\ c.page \in SUBSET Nat
      /\ Unbroken(r) /\ PageComplete(r)
      /\ frames \in [Readers -> Seq(Nat)]
      /\ start[r] \in Nat /\ Len(got[r]) \in Nat /\ Len(frames[r]) \in Nat
      /\ n \in Nat
  BY DEF StreamIInv, Typed, Streams
<1>1. PICK s \in c.page :
        /\ \A t \in c.page : s <= t
        /\ frames' = [frames EXCEPT ![r] = Append(frames[r], s)]
        /\ stream' = [stream EXCEPT ![r] = Yielded(c, s)]
  BY DEF Yield
<1>2. UNCHANGED table /\ start' = start /\ got' = got
  BY DEF Yield
<1>3. /\ s \in Nat /\ s = c.cursor + 1 /\ s <= latest /\ c.stage # "closed"
      /\ s = n + Len(frames[r]) + 1
  <2>1. s \in Nat /\ c.cursor < s /\ s <= latest /\ c.stage # "closed"
    BY <1>0 DEF PageComplete
  <2>2. c.cursor + 1 \in (c.cursor + 1)..latest /\ c.cursor + 1 <= s
    BY <1>0, <2>1
  <2>3. c.cursor + 1 \in c.page
    BY <1>0, <2>2 DEF PageComplete
  <2>4. c.cursor = n + Len(frames[r])
    BY <1>0, <2>1 DEF Unbroken, Handed
  <2> QED
    BY <1>0, <1>1, <2>1, <2>2, <2>3, <2>4
<1> DEFINE w == Yielded(c, s)
<1>4. /\ w \in Streams /\ w.cursor = s /\ w.page = c.page \ {s}
      /\ w.stage = c.stage
  BY <1>0, <1>3, YieldedTyped
<1>5. stream'[r] = w /\ \A q \in Readers \ {r} : stream'[q] = stream[q]
  BY <1>0, <1>1
<1>6. /\ frames'[r] = Append(frames[r], s)
      /\ \A q \in Readers \ {r} : frames'[q] = frames[q]
      /\ frames' \in [Readers -> Seq(Nat)]
      /\ frames[r] \in Seq(Nat)
  BY <1>0, <1>1, <1>3
<1>7. Typed'
  <2>1. stream' \in [Readers -> Streams]
    BY <1>0, <1>1, <1>4
  <2> QED
    BY <1>0, <1>2, <1>6, <2>1 DEF Typed, table
<1>8. Unbroken(r)'
  <2>1. Run(frames[r], n) /\ frames[r] \in Seq(Nat)
    BY <1>0 DEF Unbroken
  <2>2. Len(frames'[r]) = Len(frames[r]) + 1 /\ Run(frames'[r], n)
    BY <1>0, <1>3, <1>6, <2>1, RunAppended
  <2>3. n + Len(frames'[r]) = s
    BY <1>0, <1>3, <2>2
  <2>4. /\ start'[r] + Len(got'[r]) = n
        /\ latest' = latest
        /\ Run(got'[r], start'[r])
        /\ stream'[r].cursor = s
    BY <1>0, <1>2, <1>4, <1>5 DEF Unbroken, table
  <2> HIDE DEF n
  <2> QED
    BY <1>3, <2>2, <2>3, <2>4 DEF Unbroken, Handed
<1>9. PageComplete(r)'
  <2>1. \A x \in w.page : w.cursor < x /\ x <= latest
    BY <1>0, <1>1, <1>3, <1>4 DEF PageComplete
  <2> HIDE DEF w
  <2>2. ASSUME NEW x \in (s + 1)..latest, NEW t \in w.page, x <= t
        PROVE  x \in w.page
    <3>1. x \in (c.cursor + 1)..latest /\ x # s
      BY <1>0, <1>3
    <3>2. t \in c.page
      BY <1>4
    <3>3. x \in c.page
      BY <1>0, <2>2, <3>1, <3>2 DEF PageComplete
    <3> QED
      BY <1>4, <3>1, <3>3
  <2> QED
    BY <1>2, <1>3, <1>4, <1>5, <2>1, <2>2 DEF PageComplete, table
<1> QED
  BY <1>2, <1>5, <1>6, <1>7, <1>8, <1>9, OneReader

\* The client takes the oldest frame.
LEMMA RunShifted ==
  ASSUME NEW g \in Seq(Nat), NEW f \in Seq(Nat), f # <<>>, NEW n \in Nat,
         Run(g, n), Run(f, n + Len(g))
  PROVE  /\ Append(g, Head(f)) \in Seq(Nat) /\ Tail(f) \in Seq(Nat)
         /\ Len(Append(g, Head(f))) = Len(g) + 1
         /\ Len(Tail(f)) = Len(f) - 1
         /\ Head(f) = n + Len(g) + 1
         /\ Run(Append(g, Head(f)), n)
         /\ Run(Tail(f), n + (Len(g) + 1))
<1>1. /\ Len(f) \in Nat /\ Len(f) > 0 /\ Len(g) \in Nat
      /\ Head(f) = f[1] /\ Tail(f) \in Seq(Nat)
      /\ Len(Tail(f)) = Len(f) - 1
      /\ \A k \in 1..Len(Tail(f)) : Tail(f)[k] = f[k + 1]
  OBVIOUS
<1>2. Head(f) = n + Len(g) + 1
  BY <1>1 DEF Run
<1>3. /\ Append(g, Head(f)) \in Seq(Nat)
      /\ Len(Append(g, Head(f))) = Len(g) + 1
      /\ Run(Append(g, Head(f)), n)
  BY <1>2, RunAppended
<1>4. Run(Tail(f), n + (Len(g) + 1))
  <2>1. ASSUME NEW k \in 1..Len(Tail(f))
        PROVE  Tail(f)[k] = n + (Len(g) + 1) + k
    <3>1. k + 1 \in 1..Len(f) /\ Tail(f)[k] = f[k + 1]
      BY <1>1
    <3>2. f[k + 1] = n + Len(g) + (k + 1)
      BY <3>1 DEF Run
    <3> QED
      BY <1>1, <3>1, <3>2
  <2> QED
    BY <2>1 DEF Run
<1> QED
  BY <1>1, <1>2, <1>3, <1>4

LEMMA HandleStep ==
  ASSUME StreamIInv, NEW r \in Readers, Handle(r)
  PROVE  /\ StreamIInv'
         /\ start[r] + Len(got[r]) + 1 <= latest
         /\ got' = [got EXCEPT ![r] = Append(@, start[r] + Len(got[r]) + 1)]
<1>0. /\ Typed /\ latest \in Nat /\ Unbroken(r) /\ PageComplete(r)
      /\ frames \in [Readers -> Seq(Nat)] /\ got \in [Readers -> Seq(Nat)]
      /\ start[r] \in Nat /\ Len(got[r]) \in Nat /\ Len(frames[r]) \in Nat
  BY DEF StreamIInv, Typed
<1> DEFINE g == Append(got[r], Head(frames[r]))
           f == Tail(frames[r])
<1>1. /\ frames[r] # <<>>
      /\ got' = [got EXCEPT ![r] = g]
      /\ frames' = [frames EXCEPT ![r] = f]
      /\ UNCHANGED <<table, stream>> /\ start' = start
  BY DEF Handle
<1>2. /\ g \in Seq(Nat) /\ f \in Seq(Nat)
      /\ Len(g) = Len(got[r]) + 1 /\ Len(f) = Len(frames[r]) - 1
      /\ Head(frames[r]) = start[r] + Len(got[r]) + 1
      /\ Run(g, start[r]) /\ Run(f, start[r] + Len(g))
  <2>1. /\ got[r] \in Seq(Nat) /\ frames[r] \in Seq(Nat) /\ frames[r] # <<>>
        /\ Run(got[r], start[r]) /\ Run(frames[r], start[r] + Len(got[r]))
    BY <1>0, <1>1 DEF Unbroken
  <2> QED
    BY <1>0, <2>1, RunShifted
<1>3. got'[r] = g /\ frames'[r] = f
  BY <1>0, <1>1
<1>4. Len(frames[r]) > 0
  BY <1>0, <1>1
<1>5. start[r] + Len(got[r]) + 1 <= latest
  BY <1>0, <1>4 DEF Unbroken, Handed
<1> HIDE DEF g, f
<1>6. Typed'
  BY <1>0, <1>1, <1>2 DEF Typed, table
<1>7. start[r] + Len(g) + Len(f) = Handed(r)
  <2>1. Len(g) = Len(got[r]) + 1 /\ Len(f) = Len(frames[r]) - 1
    BY <1>2
  <2>2. \A a, b, d \in Nat : a + (b + 1) + (d - 1) = a + b + d
    OBVIOUS
  <2>3. start[r] + (Len(got[r]) + 1) + (Len(frames[r]) - 1)
          = start[r] + Len(got[r]) + Len(frames[r])
    BY <1>0, <2>2
  <2> QED
    BY <2>1, <2>3, Zenon DEF Handed
<1>8. Unbroken(r)'
  BY <1>0, <1>1, <1>2, <1>3, <1>7 DEF Unbroken, Handed, table
<1>9. PageComplete(r)'
  BY <1>0, <1>1 DEF PageComplete, table
<1>10. StreamIInv'
  BY <1>0, <1>1, <1>6, <1>8, <1>9, OneReader
<1> QED
  BY <1>1, <1>2, <1>5, <1>10 DEF g

LEMMA OpenStep ==
  ASSUME StreamIInv, NEW r \in Readers, NEW h \in Hosts, NEW brief \in BOOLEAN,
         Open(r, h, brief)
  PROVE  StreamIInv'
<1> DEFINE w == [Closed EXCEPT !.stage = "replay", !.host = h,
                               !.cursor = Position(r), !.more = TRUE,
                               !.brief = brief]
<1>0. /\ Typed /\ stream \in [Readers -> Streams] /\ latest \in Nat
      /\ start[r] \in Nat /\ got[r] \in Seq(Nat) /\ Len(got[r]) \in Nat
      /\ Unbroken(r)
  BY DEF StreamIInv, Typed
<1>1. /\ frames[r] = <<>> /\ Position(r) <= latest
      /\ stream' = [stream EXCEPT ![r] = w]
      /\ UNCHANGED <<table, client>>
  BY DEF Open
<1>2. Position(r) = start[r] + Len(got[r])
  <2>1. CASE got[r] = <<>>
    BY <1>0, <2>1 DEF Position
  <2>2. CASE got[r] # <<>>
    <3>1. Len(got[r]) \in 1..Len(got[r])
      BY <1>0, <2>2
    <3> QED
      BY <1>0, <2>2, <3>1 DEF Position, Unbroken, Run
  <2> QED
    BY <2>1, <2>2
<1>3. Position(r) \in Nat
  BY <1>0, <1>2
<1>4. /\ w \in Streams /\ w.stage = "replay" /\ w.cursor = Position(r)
      /\ w.page = {}
  BY <1>3, ClosedTyped DEF Closed, Streams, Reading
<1>5. stream'[r] = w /\ \A q \in Readers \ {r} : stream'[q] = stream[q]
  BY <1>0, <1>1
<1>6. start' = start /\ got' = got /\ frames' = frames /\ latest' = latest
  BY <1>1 DEF table, client
<1>7. Typed'
  BY <1>0, <1>1, <1>4, <1>6 DEF Typed, table
<1>8. Handed(r) = Position(r)
  BY <1>0, <1>1, <1>2 DEF Handed
<1> HIDE DEF w
<1>9. Unbroken(r)'
  BY <1>0, <1>1, <1>4, <1>5, <1>6, <1>8 DEF Unbroken, Handed
<1>10. PageComplete(r)'
  BY <1>4, <1>5 DEF PageComplete
<1> QED
  BY <1>1, <1>5, <1>6, <1>7, <1>9, <1>10, OneReader

LEMMA DisconnectStep ==
  ASSUME StreamIInv, NEW r \in Readers, Disconnect(r)
  PROVE  StreamIInv'
<1>0. /\ Typed /\ stream \in [Readers -> Streams]
      /\ frames \in [Readers -> Seq(Nat)] /\ frames[r] \in Seq(Nat)
      /\ start[r] \in Nat /\ Len(got[r]) \in Nat /\ Len(frames[r]) \in Nat
      /\ latest \in Nat /\ Unbroken(r)
  BY DEF StreamIInv, Typed
<1>1. /\ stream' = [stream EXCEPT ![r] = Closed]
      /\ frames' = [frames EXCEPT ![r] = <<>>]
      /\ UNCHANGED table /\ start' = start /\ got' = got
  BY DEF Disconnect
<1>2. /\ stream'[r] = Closed /\ frames'[r] = <<>>
      /\ \A q \in Readers \ {r} :
           stream'[q] = stream[q] /\ frames'[q] = frames[q]
  BY <1>0, <1>1
<1>3. Typed'
  <2>1. stream' \in [Readers -> Streams]
    BY <1>0, <1>1, ClosedTyped
  <2>2. frames' \in [Readers -> Seq(Nat)]
    BY <1>0, <1>1
  <2> QED
    BY <1>0, <1>1, <2>1, <2>2 DEF Typed, table
<1>4. Closed.stage = "closed" /\ Closed.page = {}
  BY DEF Closed
<1>5. Unbroken(r)'
  <2>1. Len(frames'[r]) = 0 /\ latest' = latest
    BY <1>1, <1>2 DEF table
  <2>2. Handed(r)' = start[r] + Len(got[r])
    BY <1>0, <1>1, <2>1 DEF Handed
  <2>3. Handed(r)' > start'[r] => Handed(r)' <= latest'
    BY <1>0, <1>1, <2>1, <2>2 DEF Unbroken, Handed
  <2> QED
    BY <1>0, <1>1, <1>2, <1>4, <2>1, <2>3 DEF Unbroken, Run
<1>6. PageComplete(r)'
  BY <1>2, <1>4 DEF PageComplete
<1> QED
  BY <1>1, <1>2, <1>3, <1>5, <1>6, OneReader

LEMMA BeatStep ==
  ASSUME StreamIInv, NEW r \in Readers, Beat(r)
  PROVE  StreamIInv' /\ latest' \in Nat /\ latest' > latest /\ UNCHANGED client
<1> DEFINE b == [stream[r] EXCEPT !.beat = FALSE]
           w == ReadAs(b, "beat")
<1>0. /\ Typed /\ Serialized /\ latest \in Nat /\ rows = 1..latest
      /\ stream[r] \in Streams /\ stream \in [Readers -> Streams]
  BY DEF StreamIInv, Typed, Serialized
<1>1. /\ \A p \in Processes : tx[p] = {}
      /\ latest' = latest + 1
      /\ rows' = rows \cup {latest + 1}
      /\ tx' = tx
      /\ UNCHANGED client
      /\ stream' = [stream EXCEPT ![r] = w]
      /\ stream[r].stage # "closed"
  BY DEF Beat, AppendHeartbeat, Exhausted
<1>2. /\ w \in Streams /\ w.cursor = stream[r].cursor
      /\ w.page = stream[r].page /\ w.stage # "closed"
  <2>1. /\ b \in Streams /\ b.cursor = stream[r].cursor
        /\ b.page = stream[r].page
    BY <1>0 DEF Streams
  <2> HIDE DEF b
  <2> QED
    BY <2>1, ReadAsKept DEF Reading
<1> HIDE DEF w
<1>3. stream' \in [Readers -> Streams] /\ \A q \in Readers : KeptStream(q)
  BY <1>0, <1>1, <1>2, OneKept
<1>4. Calm /\ Typed'
  BY <1>0, <1>1, <1>3 DEF Calm, Typed, client
<1>5. Serialized'
  <2>1. IsFiniteSet({}) /\ Cardinality({}) = 0
    BY FS_EmptySet
  <2>2. {} = (latest' + 1)..(latest' + 0) /\ rows' = 1..latest'
    BY <1>0, <1>1
  <2> QED
    BY <1>1, <2>1, <2>2 DEF Serialized
<1>6. \A q \in Readers : Unbroken(q)' /\ PageComplete(q)'
  BY <1>0, <1>4, CalmKeeps DEF StreamIInv
<1> QED
  BY <1>0, <1>1, <1>4, <1>5, <1>6 DEF StreamIInv

-----------------------------------------------------------------------------
(* The theorems. *)

LEMMA InitInvariant ==
  ASSUME StreamInit
  PROVE  StreamIInv
<1>1. Typed
  BY StreamAssumption, ClosedTyped DEF StreamInit, Typed
<1>2. Serialized
  <2>1. IsFiniteSet({}) /\ Cardinality({}) = 0 /\ {} = 1..0 /\ {} = (0 + 1)..(0 + 0)
    BY FS_EmptySet
  <2>2. rows = {} /\ latest = 0 /\ \A p \in Processes : tx[p] = {}
    BY DEF StreamInit
  <2> QED
    BY <2>1, <2>2 DEF Serialized
<1>3. ASSUME NEW r \in Readers PROVE Unbroken(r) /\ PageComplete(r)
  <2>1. /\ got[r] = <<>> /\ frames[r] = <<>> /\ start[r] \in Nat
        /\ stream[r] = Closed
    BY <1>1 DEF StreamInit, Typed
  <2>2. Closed.stage = "closed" /\ Closed.page = {}
    BY DEF Closed
  <2> QED
    BY <2>1, <2>2 DEF Unbroken, PageComplete, Handed, Run
<1> QED
  BY <1>1, <1>2, <1>3 DEF StreamIInv

\* What a step does to the delivery: it publishes, delivers or is a stutter.
LEMMA Step ==
  ASSUME StreamIInv, StreamNext
  PROVE  StreamIInv' /\ [Delivery!DeliveryNext]_<<latest, start, got>>
<1> DEFINE Shown == [Delivery!DeliveryNext]_<<latest, start, got>>
<1>0. latest \in Nat
  BY DEF StreamIInv, Typed
<1>1. ASSUME latest' \in Nat, latest' >= latest, UNCHANGED client
      PROVE  Shown
  <2>1. CASE latest' = latest
    BY <1>1, <2>1 DEF client
  <2>2. CASE latest' # latest
    <3>1. latest' > latest
      BY <1>0, <1>1, <2>2
    <3>2. Delivery!Publish
      BY <1>1, <3>1 DEF Delivery!Publish, client
    <3> QED
      BY <3>2 DEF Delivery!DeliveryNext
  <2> QED
    BY <2>1, <2>2
<1>2. ASSUME NEW r \in Readers,
             \/ Opens(r) \/ StreamStep(r) \/ Handle(r) \/ InstantPasses(r)
             \/ Disconnect(r)
      PROVE  StreamIInv' /\ Shown
  <2>1. CASE Opens(r)
    <3>1. UNCHANGED <<latest, start, got>>
      BY <2>1 DEF Opens, Open, table, client
    <3>2. StreamIInv'
      BY <2>1, OpenStep DEF Opens
    <3> QED
      BY <3>1, <3>2
  <2>2. CASE Query(r)
    <3>1. UNCHANGED <<latest, start, got>>
      BY <2>2 DEF Query, table, client
    <3> QED
      BY <2>2, <3>1, QueryStep
  <2>3. CASE Yield(r)
    <3>1. UNCHANGED <<latest, start, got>>
      BY <2>3 DEF Yield, table, client
    <3> QED
      BY <2>3, <3>1, YieldStep
  <2>4. CASE \/ Subscribe(r) \/ Wait(r) \/ TakeHint(r) \/ WaitTimesOut(r)
             \/ Resume(r) \/ EndBrief(r) \/ InstantPasses(r)
    <3>1. UNCHANGED <<latest, start, got>>
      BY <2>4 DEF Subscribe, Wait, TakeHint, WaitTimesOut, Resume, EndBrief,
                  InstantPasses, table, client
    <3>2. StreamIInv'
      BY <2>4, CalmSteps
    <3> QED
      BY <3>1, <3>2
  <2>5. CASE Beat(r)
    <3>1. /\ StreamIInv' /\ latest' \in Nat /\ latest' >= latest
          /\ UNCHANGED client
      BY <1>0, <2>5, BeatStep
    <3>2. Shown
      BY <1>1, <3>1
    <3> QED
      BY <3>1, <3>2
  <2>6. CASE Handle(r)
    <3>1. latest' = latest /\ start' = start
      BY <2>6 DEF Handle, table
    <3>2. /\ StreamIInv'
          /\ start[r] + Len(got[r]) + 1 <= latest
          /\ got' = [got EXCEPT ![r] =
                       Append(@, start[r] + Len(got[r]) + 1)]
      BY <2>6, HandleStep
    <3>3. Delivery!Deliver(r)
      BY <3>1, <3>2 DEF Delivery!Deliver
    <3> QED
      BY <3>2, <3>3 DEF Delivery!DeliveryNext
  <2>7. CASE Disconnect(r)
    <3>1. UNCHANGED <<latest, start, got>>
      BY <2>7 DEF Disconnect, table
    <3> QED
      BY <2>7, <3>1, DisconnectStep
  <2> QED
    BY <1>2, <2>1, <2>2, <2>3, <2>4, <2>5, <2>6, <2>7 DEF StreamStep
<1>3. ASSUME NEW p \in Processes, WriterStep(p)
      PROVE  StreamIInv' /\ Shown
  <2>1. /\ StreamIInv' /\ latest' \in Nat /\ latest' >= latest
        /\ UNCHANGED client
    BY <1>3, WriterSteps
  <2>2. Shown
    BY <1>1, <2>1
  <2> QED
    BY <2>1, <2>2
<1>4. CASE HintStep
  <2>1. UNCHANGED <<latest, start, got>>
    BY <1>4 DEF HintStep, Release, PublishHint, HintArrives, BrokerDisconnects,
                BrokerReconnects, HintLost, table, client
  <2>2. StreamIInv'
    BY <1>4, HintSteps
  <2> QED
    BY <2>1, <2>2
<1>5. CASE \E r \in Readers :
             \/ Opens(r) \/ StreamStep(r) \/ Handle(r) \/ InstantPasses(r)
             \/ Disconnect(r)
  BY <1>2, <1>5
<1>6. CASE \E p \in Processes : WriterStep(p)
  BY <1>3, <1>6
<1> QED
  BY <1>4, <1>5, <1>6 DEF StreamNext

LEMMA Stutter ==
  ASSUME StreamIInv, UNCHANGED streamVars
  PROVE  StreamIInv' /\ UNCHANGED <<latest, start, got>>
<1>1. StreamIInv'
  BY DEF StreamIInv, Typed, Serialized, Unbroken, Handed, PageComplete,
         streamVars, table, client
<1> QED
  BY <1>1 DEF streamVars, table, client

\* The table is a run, its allocated continuation is held by one transaction,
\* and every client's history, frames, cursor and page continue one another.
THEOREM StreamInvariant == StreamSpec => []StreamIInv
<1>1. StreamIInv /\ [StreamNext]_streamVars => StreamIInv'
  BY Step, Stutter
<1> QED
  BY <1>1, InitInvariant, PTL DEF StreamSpec

\* Whatever the interleaving of writers, hints, timeouts and reconnections, a
\* client is handed the committed events after its first cursor, each once and
\* in order.
THEOREM StreamImplements == StreamSpec => ImplementsEventDelivery
<1>1. StreamInit => Delivery!DeliveryInit
  <2>1. ASSUME StreamInit PROVE start \in [Readers -> Nat]
    BY <2>1, InitInvariant DEF StreamIInv, Typed
  <2> QED
    BY <2>1 DEF StreamInit, Delivery!DeliveryInit
<1>2. StreamIInv /\ [StreamNext]_streamVars
        => [Delivery!DeliveryNext]_(Delivery!deliveryVars)
  BY Step, Stutter DEF Delivery!deliveryVars
<1> QED
  BY <1>1, <1>2, StreamInvariant, PTL
  DEF StreamSpec, ImplementsEventDelivery, Delivery!DeliverySpec

-----------------------------------------------------------------------------
(* No hint is missed. *)

\* The stream sleeps only after looking at everything a hint had announced.
Alerted(r) ==
  \/ stream[r].hinted
  \/ stream[r].host \in onWire \cup missed
  \/ unreleased \cup publishing # {}

Subscriber(r) ==
  stream[r].stage \in {"loop", "waiting", "check", "beat"} /\ ~stream[r].brief

\* Whatever a subscribed stream is behind by, it is about to read or alerted.
Watchful(r) ==
  /\ stream[r].stage \in {"loop", "waiting", "check"} => ~stream[r].brief
  /\ stream[r].stage # "closed" => stream[r].host \in Hosts
  /\ stream[r].stage = "waiting" => stream[r].page = {} /\ ~stream[r].more
  /\ Subscriber(r) =>
       \A s \in rows \ heartbeats :
         s > stream[r].cursor =>
           s \in stream[r].page \/ stream[r].more \/ Alerted(r)

AllWatchful == \A r \in Readers : Watchful(r)

\* Query stops asking only when its page holds all that was newer.
LEMMA LowestRun ==
  ASSUME NEW c \in Nat, NEW l \in Nat, NEW n \in Nat \ {0},
         Cardinality(Lowest((c + 1)..l, n)) # n
  PROVE  Lowest((c + 1)..l, n) = (c + 1)..l
<1> DEFINE S == (c + 1)..l
<1>1. ASSUME NEW s \in S
      PROVE  Cardinality(Below(S, s)) = s - c - 1
  <2>1. Below(S, s) = (c + 1)..(s - 1)
    BY DEF Below
  <2>2. Cardinality((c + 1)..(s - 1)) =
          IF c + 1 > s - 1 THEN 0 ELSE (s - 1) - (c + 1) + 1
    BY FS_Interval
  <2> QED
    BY <2>1, <2>2
<1>2. \A s \in S : Cardinality(Below(S, s)) < n <=> s <= c + n
  BY <1>1
<1>3. \A s : s \in Lowest(S, n) <=> s \in S /\ s <= c + n
  BY <1>2 DEF Lowest
<1>4. CASE l <= c + n
  <2>1. \A s : s \in Lowest(S, n) <=> s \in S
    BY <1>3, <1>4
  <2> QED
    BY <2>1 DEF Lowest
<1>5. CASE l > c + n
  <2>1. \A s : s \in Lowest(S, n) <=> s \in (c + 1)..(c + n)
    BY <1>3, <1>5
  <2>3. Lowest(S, n) = (c + 1)..(c + n)
    BY <2>1 DEF Lowest
  <2>2. Cardinality((c + 1)..(c + n)) = n
    <3>1. Cardinality((c + 1)..(c + n)) =
            IF c + 1 > c + n THEN 0 ELSE (c + n) - (c + 1) + 1
      BY FS_Interval
    <3> QED
      BY <3>1
  <2> QED
    BY <2>2, <2>3
<1> QED
  BY <1>4, <1>5

\* A stream a step does not touch.
LEMMA UntouchedWatchful ==
  ASSUME NEW r \in Readers, Watchful(r), UNCHANGED hints,
         stream'[r] = stream[r], rows' \ heartbeats' \subseteq rows \ heartbeats
  PROVE  Watchful(r)'
  BY DEF Watchful, Subscriber, Alerted, hints

\* A stream about to read looks at everything again; a closed one sleeps on
\* nothing.
LEMMA ReaderWatchful ==
  ASSUME NEW r \in Readers, NEW w, stream'[r] = w,
         \/ w = Closed
         \/ /\ w.stage \in Reading /\ w.more
            /\ w.stage \in {"loop", "check"} => ~w.brief
            /\ w.host \in Hosts
  PROVE  Watchful(r)'
<1>1. CASE w = Closed
  BY <1>1 DEF Closed, Watchful, Subscriber
<1>2. CASE w # Closed
  BY <1>2 DEF Watchful, Subscriber, Reading
<1> QED
  BY <1>1, <1>2

LEMMA LoopOrCloseReads ==
  ASSUME NEW s \in Streams, ~s.brief, s.host \in Hosts
  PROVE  LET w == LoopOrClose(s)
         IN \/ w = Closed
            \/ /\ w.stage \in Reading /\ w.more
               /\ w.stage \in {"loop", "check"} => ~w.brief
               /\ w.host \in Hosts
<1>1. CASE s.deadline
  BY <1>1 DEF LoopOrClose
<1>2. CASE ~s.deadline
  <2>1. LoopOrClose(s) = [s EXCEPT !.stage = "loop", !.more = TRUE]
    BY <1>2 DEF LoopOrClose, ReadAs
  <2>2. [s EXCEPT !.stage = "loop", !.more = TRUE] \in Streams
    BY DEF Streams, Reading
  <2> QED
    BY <2>1, <2>2 DEF Streams, Reading
<1> QED
  BY <1>1, <1>2

\* Steps after which the stream reads, or is closed.
LEMMA ReadingSteps ==
  ASSUME StreamIInv, NEW r \in Readers, Watchful(r),
         \/ Opens(r) \/ Subscribe(r) \/ TakeHint(r) \/ WaitTimesOut(r)
         \/ Beat(r) \/ Resume(r) \/ EndBrief(r) \/ Disconnect(r)
  PROVE  Watchful(r)'
<1> DEFINE c == stream[r]
           Reads(w) == \/ w = Closed
                       \/ /\ w.stage \in Reading /\ w.more
                          /\ w.stage \in {"loop", "check"} => ~w.brief
                          /\ w.host \in Hosts
<1>0. c \in Streams /\ stream \in [Readers -> Streams]
  BY DEF StreamIInv, Typed
<1>1. /\ c.stage \in {"loop", "waiting", "check"} => ~c.brief
      /\ c.stage # "closed" => c.host \in Hosts
  BY DEF Watchful
<1> SUFFICES ASSUME ~\E w : stream'[r] = w /\ Reads(w)
             PROVE  FALSE
  BY ReaderWatchful
<1>2. CASE Opens(r)
  <2>1. PICK h \in Hosts, brief \in BOOLEAN : Open(r, h, brief)
    BY <1>2 DEF Opens
  <2> DEFINE w == [Closed EXCEPT !.stage = "replay", !.host = h,
                                 !.cursor = Position(r), !.more = TRUE,
                                 !.brief = brief]
  <2>2. stream'[r] = w
    BY <1>0, <2>1 DEF Open
  <2>3. w.stage = "replay" /\ w.more /\ w.host = h
    BY DEF Closed
  <2> HIDE DEF w
  <2> QED
    BY <2>2, <2>3 DEF Reading
<1>3. CASE Subscribe(r)
  <2>1. stream'[r] = LoopOrClose(c) /\ ~c.brief /\ c.stage = "replay"
    BY <1>0, <1>3 DEF Subscribe, Exhausted
  <2>2. Reads(LoopOrClose(c))
    BY <1>0, <1>1, <2>1, LoopOrCloseReads
  <2> QED
    BY <2>1, <2>2
<1>4. CASE TakeHint(r)
  <2> DEFINE w == [c EXCEPT !.hinted = FALSE]
  <2>1. stream'[r] = LoopOrClose(w) /\ c.stage = "waiting"
    BY <1>0, <1>4 DEF TakeHint
  <2>2. w \in Streams /\ w.brief = c.brief /\ w.host = c.host
    BY <1>0 DEF Streams
  <2>3. Reads(LoopOrClose(w))
    BY <1>1, <2>1, <2>2, LoopOrCloseReads
  <2> QED
    BY <2>1, <2>3
<1>5. CASE WaitTimesOut(r)
  <2>1. stream'[r] = AfterTimeout(c) /\ c.stage = "waiting"
    BY <1>0, <1>5 DEF WaitTimesOut
  <2>2. CASE c.poll
    <3> DEFINE w == [c EXCEPT !.poll = FALSE]
    <3>1. w \in Streams /\ w.brief = c.brief /\ w.host = c.host
      BY <1>0 DEF Streams
    <3>2. AfterTimeout(c) = LoopOrClose(w)
      BY <2>2 DEF AfterTimeout
    <3>3. Reads(LoopOrClose(w))
      BY <1>1, <2>1, <3>1, LoopOrCloseReads
    <3> QED
      BY <2>1, <3>2, <3>3
  <2>3. CASE ~c.poll /\ c.beat
    <3> DEFINE w == [c EXCEPT !.stage = "check", !.more = TRUE]
    <3>1. AfterTimeout(c) = w
      BY <2>3 DEF AfterTimeout, ReadAs
    <3>2. /\ w.stage = "check" /\ w.more
          /\ w.brief = c.brief /\ w.host = c.host
      BY <1>0 DEF Streams
    <3> QED
      BY <1>1, <2>1, <3>1, <3>2 DEF Reading
  <2>4. CASE ~c.poll /\ ~c.beat
    <3>1. AfterTimeout(c) = LoopOrClose(c)
      BY <2>4 DEF AfterTimeout
    <3>2. Reads(LoopOrClose(c))
      BY <1>0, <1>1, <2>1, LoopOrCloseReads
    <3> QED
      BY <2>1, <3>1, <3>2
  <2> QED
    BY <2>2, <2>3, <2>4
<1>6. CASE Beat(r)
  <2> DEFINE v == [c EXCEPT !.beat = FALSE]
             w == ReadAs(v, "beat")
  <2>1. stream'[r] = w /\ c.stage \in {"check", "replay"}
    BY <1>0, <1>6 DEF Beat, Exhausted
  <2>2. v \in Streams /\ v.host = c.host
    BY <1>0 DEF Streams
  <2> HIDE DEF v
  <2>3. w.stage = "beat" /\ w.more /\ w.host = v.host
    BY <2>2 DEF ReadAs, Streams
  <2> QED
    BY <1>1, <2>1, <2>2, <2>3 DEF Reading
<1>7. CASE Resume(r)
  <2>1. stream'[r] = LoopOrClose(c) /\ c.stage \in {"check", "beat"} /\ ~c.brief
    BY <1>0, <1>1, <1>7 DEF Resume, Exhausted
  <2>2. Reads(LoopOrClose(c))
    BY <1>0, <1>1, <2>1, LoopOrCloseReads
  <2> QED
    BY <2>1, <2>2
<1>8. CASE EndBrief(r) \/ Disconnect(r)
  BY <1>0, <1>8 DEF EndBrief, Disconnect
<1> QED
  BY <1>2, <1>3, <1>4, <1>5, <1>6, <1>7, <1>8

\* Steps that read, hand over, or wait.
LEMMA PageSteps ==
  ASSUME StreamIInv, NEW r \in Readers, Watchful(r),
         Query(r) \/ Yield(r) \/ Wait(r) \/ InstantPasses(r)
  PROVE  Watchful(r)'
<1> DEFINE c == stream[r]
<1>0. /\ c \in Streams /\ stream \in [Readers -> Streams] /\ latest \in Nat
      /\ rows = 1..latest /\ PageComplete(r) /\ Unbroken(r)
      /\ UNCHANGED table /\ UNCHANGED hints
  BY DEF StreamIInv, Typed, Serialized, Query, Yield, Wait, InstantPasses
<1>1. c.cursor \in Nat /\ c.page \in SUBSET Nat
  BY <1>0 DEF Streams
<1>2. rows' = rows /\ heartbeats' = heartbeats
  BY <1>0 DEF table
<1>3. CASE Query(r)
  <2> DEFINE newer == {s \in rows : s > c.cursor}
             page == Lowest(newer, BatchSize)
             w == [c EXCEPT !.page = page,
                            !.more = Cardinality(page) = BatchSize]
  <2>1. stream'[r] = w /\ c.stage \in Reading
    BY <1>0, <1>3 DEF Query
  <2>2. newer = (c.cursor + 1)..latest
    BY <1>0, <1>1
  <2>3. Cardinality(page) # BatchSize => page = newer
    BY <1>0, <1>1, <2>2, StreamAssumption, LowestRun DEF StreamAssumption
  <2> HIDE DEF page, newer
  <2>4. /\ w.stage = c.stage /\ w.brief = c.brief /\ w.host = c.host
        /\ w.cursor = c.cursor /\ w.page = page /\ w.hinted = c.hinted
        /\ w.more <=> Cardinality(page) = BatchSize
    BY <1>0 DEF Streams
  <2>5. c.stage # "waiting"
    BY <2>1 DEF Reading
  <2>6. \A s \in rows : s > c.cursor => s \in page \/ w.more
    BY <2>3, <2>4 DEF newer
  <2> HIDE DEF w
  <2> QED
    BY <1>2, <2>1, <2>4, <2>5, <2>6 DEF Watchful, Subscriber
<1>4. CASE Yield(r)
  <2>1. PICK s \in c.page : stream' = [stream EXCEPT ![r] = Yielded(@, s)]
    BY <1>4 DEF Yield
  <2> DEFINE w == [c EXCEPT !.cursor = s,
                     !.page = @ \ {s},
                     !.replayed = c.brief,
                     !.beat = @ /\ c.stage \notin {"loop", "check"}]
  <2>2. stream'[r] = w
    BY <1>0, <2>1 DEF Yielded
  <2>3. /\ w.stage = c.stage /\ w.brief = c.brief /\ w.host = c.host
        /\ w.cursor = s /\ w.page = c.page \ {s} /\ w.hinted = c.hinted
        /\ w.more = c.more
    BY <1>0 DEF Streams
  <2>4. s \in Nat /\ c.cursor < s
    BY <1>0, <1>1 DEF PageComplete
  <2>5. \A t \in rows : t > s => t > c.cursor /\ t # s
    BY <1>0, <1>1, <2>4
  <2> HIDE DEF w
  <2> QED
    BY <1>0, <1>2, <2>2, <2>3, <2>5 DEF Watchful, Subscriber, Alerted, hints
<1>5. CASE Wait(r)
  <2> DEFINE w == [c EXCEPT !.stage = "waiting"]
  <2>1. stream'[r] = w /\ c.stage = "loop" /\ c.page = {} /\ ~c.more
    BY <1>0, <1>5 DEF Wait, Exhausted
  <2>2. /\ w.stage = "waiting" /\ w.brief = c.brief /\ w.host = c.host
        /\ w.cursor = c.cursor /\ w.page = c.page /\ w.hinted = c.hinted
        /\ w.more = c.more
    BY <1>0 DEF Streams
  <2> HIDE DEF w
  <2> QED
    BY <1>0, <1>2, <2>1, <2>2 DEF Watchful, Subscriber, Alerted, hints
<1>6. CASE InstantPasses(r)
  <2>1. /\ stream'[r].stage = c.stage /\ stream'[r].brief = c.brief
        /\ stream'[r].host = c.host /\ stream'[r].cursor = c.cursor
        /\ stream'[r].page = c.page /\ stream'[r].hinted = c.hinted
        /\ stream'[r].more = c.more
    <3>1. \/ stream'[r] = [c EXCEPT !.poll = TRUE]
          \/ stream'[r] = [c EXCEPT !.beat = TRUE]
          \/ stream'[r] = [c EXCEPT !.deadline = TRUE]
      BY <1>0, <1>6 DEF InstantPasses
    <3> QED
      BY <1>0, <3>1 DEF Streams
  <2> QED
    BY <1>0, <1>2, <2>1 DEF Watchful, Subscriber, Alerted, hints
<1> QED
  BY <1>3, <1>4, <1>5, <1>6

\* Hints on their way: whoever is not reached by one missed it.
LEMMA HintsWatchful ==
  ASSUME StreamIInv, AllWatchful, HintStep
  PROVE  AllWatchful'
<1> SUFFICES ASSUME NEW r \in Readers
             PROVE  Watchful(r)'
  BY DEF AllWatchful
<1> DEFINE c == stream[r]
<1>0. /\ c \in Streams /\ stream \in [Readers -> Streams] /\ Watchful(r)
      /\ UNCHANGED table
  BY DEF StreamIInv, Typed, AllWatchful, HintStep, Release, PublishHint,
         HintArrives, BrokerDisconnects, BrokerReconnects, HintLost
<1>1. rows' = rows /\ heartbeats' = heartbeats
  BY <1>0 DEF table
<1>2. ASSUME NEW h \in Processes, Receive(h)
      PROVE  /\ stream'[r].stage = c.stage /\ stream'[r].brief = c.brief
             /\ stream'[r].host = c.host /\ stream'[r].cursor = c.cursor
             /\ stream'[r].page = c.page /\ stream'[r].more = c.more
             /\ c.hinted \/ (Subscriber(r) /\ c.host = h) => stream'[r].hinted
  <2> DEFINE w == [c EXCEPT !.hinted = c.hinted \/ Subscribed(r, h)]
  <2>1. stream'[r] = w
    BY <1>2 DEF Receive
  <2>2. /\ w.stage = c.stage /\ w.brief = c.brief /\ w.host = c.host
        /\ w.cursor = c.cursor /\ w.page = c.page /\ w.more = c.more
        /\ w.hinted = (c.hinted \/ Subscribed(r, h))
    BY <1>0 DEF Streams
  <2>3. Subscribed(r, h) <=> Subscriber(r) /\ c.host = h
    BY DEF Subscribed, Subscriber
  <2> HIDE DEF w
  <2> QED
    BY <2>1, <2>2, <2>3
\* It remains that a subscriber stays alerted.
<1>3. ASSUME /\ stream'[r].stage = c.stage /\ stream'[r].brief = c.brief
             /\ stream'[r].host = c.host /\ stream'[r].cursor = c.cursor
             /\ stream'[r].page = c.page /\ stream'[r].more = c.more,
             Subscriber(r) /\ Alerted(r) => Alerted(r)'
      PROVE  Watchful(r)'
  BY <1>0, <1>1, <1>3 DEF Watchful, Subscriber
<1>4. ASSUME stream' = stream, Subscriber(r) /\ Alerted(r) => Alerted(r)'
      PROVE  Watchful(r)'
  BY <1>3, <1>4
<1>5. Subscriber(r) => c.host \in Hosts
  BY <1>0 DEF Watchful, Subscriber
<1>6. ASSUME NEW p \in Processes, Release(p)
      PROVE  Watchful(r)'
  <2>1. Receive(p) /\ p \in publishing'
    BY <1>6 DEF Release
  <2>2. Alerted(r)'
    BY <2>1 DEF Alerted
  <2> QED
    BY <1>2, <1>3, <2>1, <2>2
<1>7. ASSUME NEW p \in Processes, PublishHint(p)
      PROVE  Watchful(r)'
  <2>1. Receive(p)
    BY <1>7 DEF PublishHint
  <2>2. Hosts \subseteq onWire' \cup missed' \cup {p}
    BY <1>7 DEF PublishHint
  <2>3. Subscriber(r) => Alerted(r)'
    BY <1>2, <1>5, <2>1, <2>2 DEF Alerted
  <2> QED
    BY <1>2, <1>3, <2>1, <2>3
<1>8. ASSUME NEW h \in Hosts, NEW again \in BOOLEAN, HintArrives(h, again)
      PROVE  Watchful(r)'
  <2>1. /\ Receive(h) /\ h \in Processes /\ onWire \ {h} \subseteq onWire'
        /\ UNCHANGED <<unreleased, publishing, missed>>
    BY <1>8 DEF HintArrives, Processes
  <2>2. Subscriber(r) /\ Alerted(r) => Alerted(r)'
    BY <1>2, <2>1 DEF Alerted
  <2> QED
    BY <1>2, <1>3, <2>1, <2>2
<1>9. ASSUME NEW p \in Processes,
             BrokerReconnects(p) \/ BrokerDisconnects(p) \/ HintLost(p)
      PROVE  Watchful(r)'
  <2>1. stream' = stream
    BY <1>9 DEF BrokerReconnects, BrokerDisconnects, HintLost
  <2>2. CASE BrokerReconnects(p)
    BY <1>4, <2>1, <2>2 DEF BrokerReconnects, Alerted
  <2>3. CASE BrokerDisconnects(p)
    <3>1. /\ onWire \cup missed \subseteq onWire' \cup missed'
          /\ UNCHANGED <<unreleased, publishing>>
      BY <2>3 DEF BrokerDisconnects
    <3> QED
      BY <1>4, <2>1, <3>1 DEF Alerted
  <2>4. CASE HintLost(p)
    <3>1. missed' = Hosts
      BY <2>4 DEF HintLost
    <3> QED
      BY <1>4, <1>5, <2>1, <3>1 DEF Alerted
  <2> QED
    BY <1>9, <2>2, <2>3, <2>4
<1> QED
  BY <1>6, <1>7, <1>8, <1>9 DEF HintStep

\* What a commit adds is announced, unless it is a heartbeat.
LEMMA WritersWatchful ==
  ASSUME StreamIInv, AllWatchful, NEW p \in Processes, WriterStep(p)
  PROVE  AllWatchful'
<1> SUFFICES ASSUME NEW r \in Readers
             PROVE  Watchful(r)'
  BY DEF AllWatchful
<1>0. Watchful(r)
  BY DEF AllWatchful
<1>1. CASE AppendEvent(p) \/ Rollback(p)
  BY <1>0, <1>1, UntouchedWatchful DEF AppendEvent, Rollback
<1>2. ASSUME NEW quiet \in BOOLEAN, Commit(p, quiet)
      PROVE  Watchful(r)'
  <2>1. /\ stream' = stream /\ rows' = rows \cup tx[p]
        /\ UNCHANGED <<publishing, connected, onWire, missed>>
    BY <1>2 DEF Commit
  <2>2. CASE quiet
    <3>1. heartbeats' = heartbeats \cup tx[p] /\ unreleased' = unreleased
      BY <1>2, <2>2 DEF Commit
    <3> QED
      BY <1>0, <2>1, <3>1, UntouchedWatchful DEF hints
  <2>3. CASE ~quiet
    <3>1. p \in unreleased'
      BY <1>2, <2>3 DEF Commit
    <3> QED
      BY <1>0, <2>1, <3>1 DEF Watchful, Subscriber, Alerted
  <2> QED
    BY <2>2, <2>3
<1> QED
  BY <1>1, <1>2 DEF WriterStep

LEMMA ReadersWatchful ==
  ASSUME StreamIInv, AllWatchful, NEW r \in Readers,
         \/ Opens(r) \/ StreamStep(r) \/ Handle(r) \/ InstantPasses(r)
         \/ Disconnect(r)
  PROVE  AllWatchful'
<1>0. \A q \in Readers : Watchful(q)
  BY DEF AllWatchful
<1>1. stream \in [Readers -> Streams]
  BY DEF StreamIInv, Typed
<1>2. Watchful(r)'
  <2>1. CASE Handle(r)
    BY <1>0, <2>1, UntouchedWatchful DEF Handle, table
  <2> QED
    BY <1>0, <2>1, ReadingSteps, PageSteps DEF StreamStep
<1>3. ASSUME NEW q \in Readers \ {r}
      PROVE  Watchful(q)'
  <2> SUFFICES /\ UNCHANGED hints
               /\ stream'[q] = stream[q]
               /\ rows' \ heartbeats' \subseteq rows \ heartbeats
    BY <1>0, UntouchedWatchful
  <2>1. CASE Opens(r)
    <3>1. PICK h \in Hosts, brief \in BOOLEAN : Open(r, h, brief)
      BY <2>1 DEF Opens
    <3> QED
      BY <1>1, <3>1 DEF Open, table
  <2>2. CASE Query(r) \/ Yield(r)
    BY <1>1, <2>2 DEF Query, Yield, table
  <2>3. CASE Subscribe(r) \/ Wait(r) \/ TakeHint(r) \/ WaitTimesOut(r)
    BY <1>1, <2>3 DEF Subscribe, Wait, TakeHint, WaitTimesOut, table
  <2>4. CASE Beat(r)
    BY <1>1, <2>4 DEF Beat, AppendHeartbeat
  <2>5. CASE Resume(r) \/ EndBrief(r) \/ Disconnect(r)
    BY <1>1, <2>5 DEF Resume, EndBrief, Disconnect, table
  <2>6. CASE Handle(r) \/ InstantPasses(r)
    BY <1>1, <2>6 DEF Handle, InstantPasses, table
  <2> QED
    BY <2>1, <2>2, <2>3, <2>4, <2>5, <2>6 DEF StreamStep
<1> QED
  BY <1>2, <1>3 DEF AllWatchful

LEMMA StepWatchful ==
  ASSUME StreamIInv, AllWatchful, [StreamNext]_streamVars
  PROVE  AllWatchful'
<1>1. CASE UNCHANGED streamVars
  BY <1>1 DEF streamVars, hints, table, AllWatchful, Watchful, Subscriber, Alerted
<1> QED
  BY <1>1, HintsWatchful, WritersWatchful, ReadersWatchful DEF StreamNext

\* Subscribing before the last read closes the race: what a sleeping stream has
\* not read is a heartbeat, or its hint was received, is under way or was
\* dropped.
THEOREM HintsNotMissed == StreamSpec => []NoMissedHint
<1>1. StreamInit => AllWatchful
  BY DEF StreamInit, AllWatchful, Watchful, Subscriber, Closed
<1>2. StreamIInv /\ AllWatchful /\ [StreamNext]_streamVars => AllWatchful'
  BY StepWatchful
<1>3. AllWatchful => NoMissedHint
  BY DEF AllWatchful, Watchful, Subscriber, Alerted, NoMissedHint
<1> QED
  BY <1>1, <1>2, <1>3, StreamInvariant, PTL DEF StreamSpec
=============================================================================
