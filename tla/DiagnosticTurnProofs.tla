------------------------ MODULE DiagnosticTurnProofs ------------------------
(***************************************************************************)
(* For any turns, any attempt limit and any flags an agent may propose:    *)
(* safety knowledge only grows, an error is followed by its completion,    *)
(* the pending request is the latest, a session is never stuck in          *)
(* "running", a turn's job is a durable job, its end is final, and a turn  *)
(* completes once unless a commit's answer is lost.                        *)
(***************************************************************************)
EXTENDS DiagnosticTurn, SequenceTheorems, FiniteSetTheorems, TLAPS

-----------------------------------------------------------------------------
(* Merging safety flags. *)

ActiveFlags == [Codes -> Level]

LEMMA RankType == \A s \in Severity \cup {"none"} : Rank[s] \in 0..4
  BY DEF Rank, Severity

LEMMA RankValues ==
  /\ Rank["none"] = 0 /\ Rank["info"] = 1 /\ Rank["caution"] = 2
  /\ Rank["warning"] = 3 /\ Rank["blocking"] = 4
  BY DEF Rank, Severity

LEMMA RankInjective ==
  \A s, u \in Severity \cup {"none"} : Rank[s] = Rank[u] => s = u
  BY DEF Rank, Severity

\* Of any levels one is the highest.
LEMMA HighestExists ==
  ASSUME NEW levels \in SUBSET Level, levels # {}
  PROVE  /\ Highest(levels) \in levels
         /\ \A m \in levels : Rank[m.severity] <= Rank[Highest(levels).severity]
<1> DEFINE Top(s) == /\ \E l \in levels : l.severity = s
                     /\ \A m \in levels : Rank[m.severity] <= Rank[s]
<1>1. \E s \in Severity \cup {"none"} : Top(s)
  <2>1. \A m \in levels : m.severity \in Severity \cup {"none"}
    BY DEF Level
  <2>2. CASE \E l \in levels : l.severity = "blocking"
    BY <2>1, <2>2 DEF Rank, Severity
  <2>3. CASE /\ ~\E l \in levels : l.severity = "blocking"
             /\ \E l \in levels : l.severity = "warning"
    BY <2>1, <2>3 DEF Rank, Severity
  <2>4. CASE /\ ~\E l \in levels : l.severity \in {"blocking", "warning"}
             /\ \E l \in levels : l.severity = "caution"
    BY <2>1, <2>4 DEF Rank, Severity
  <2>5. CASE /\ ~\E l \in levels :
                  l.severity \in {"blocking", "warning", "caution"}
             /\ \E l \in levels : l.severity = "info"
    BY <2>1, <2>5 DEF Rank, Severity
  <2>6. CASE \A l \in levels : l.severity = "none"
    BY <2>1, <2>6 DEF Rank, Severity
  <2> QED
    BY <2>1, <2>2, <2>3, <2>4, <2>5, <2>6 DEF Severity
<1>2. \E l \in levels : \A m \in levels : Rank[m.severity] <= Rank[l.severity]
  BY <1>1
<1> QED
  BY <1>2 DEF Highest

LEMMA InstancesAreLevels ==
  ASSUME NEW active \in ActiveFlags, NEW F \in SUBSET Flag, NEW c \in Codes
  PROVE  /\ Instances(active, F, c) \in SUBSET Level
         /\ Instances(active, F, c) # {}
         /\ active[c] \in Instances(active, F, c)
  BY DEF ActiveFlags, Instances, Flag, Level

LEMMA MergedLevel ==
  ASSUME NEW active \in ActiveFlags, NEW F \in SUBSET Flag, NEW c \in Codes
  PROVE  /\ Merged(active, F)[c].severity =
              Highest(Instances(active, F, c)).severity
         /\ Merged(active, F)[c] \in Level
<1> DEFINE levels == Instances(active, F, c)
<1>1. Highest(levels) \in Level
  BY InstancesAreLevels, HighestExists
<1> QED
  BY <1>1 DEF Merged, Level

\* Merging yields one level per code, ...
THEOREM MergedType ==
  ASSUME NEW active \in ActiveFlags, NEW F \in SUBSET Flag
  PROVE  Merged(active, F) \in ActiveFlags
<1>1. Merged(active, F) = [c \in Codes |-> Merged(active, F)[c]]
  BY DEF Merged
<1> QED
  BY <1>1, MergedLevel DEF ActiveFlags

\* ... at which no code is below where it was, nor below what was proposed.
THEOREM MergedRises ==
  ASSUME NEW active \in ActiveFlags, NEW F \in SUBSET Flag
  PROVE  /\ \A c \in Codes :
              Rank[active[c].severity] <= Rank[Merged(active, F)[c].severity]
         /\ \A f \in F :
              Rank[f.severity] <= Rank[Merged(active, F)[f.code].severity]
<1>1. ASSUME NEW c \in Codes
      PROVE  Rank[active[c].severity] <= Rank[Merged(active, F)[c].severity]
  BY InstancesAreLevels, HighestExists, MergedLevel
<1>2. ASSUME NEW f \in F
      PROVE  Rank[f.severity] <= Rank[Merged(active, F)[f.code].severity]
  <2> DEFINE l == [severity |-> f.severity, blocks |-> f.blocks]
             levels == Instances(active, F, f.code)
  <2>1. f.code \in Codes
    BY DEF Flag
  <2>2. l \in levels
    BY DEF Instances
  <2>3. Rank[l.severity] <= Rank[Highest(levels).severity]
    <3>1. levels \in SUBSET Level /\ levels # {}
      BY <2>1, InstancesAreLevels
    <3> HIDE DEF l, levels
    <3> QED
      BY <2>2, <3>1, HighestExists
  <2> QED
    BY <2>1, <2>3, MergedLevel
<1> QED
  BY <1>1, <1>2

StateRank == [s \in {"ok", "caution", "shop_recommended", "blocked"} |->
                CASE s = "ok" -> 0 [] s = "caution" -> 1
                  [] s = "shop_recommended" -> 2 [] s = "blocked" -> 3]

\* Hence the session's safety state never relaxes.
THEOREM StateNeverRelaxes ==
  ASSUME NEW active \in ActiveFlags, NEW F \in SUBSET Flag
  PROVE  StateRank[SafetyState(active)] <=
           StateRank[SafetyState(Merged(active, F))]
<1> DEFINE merged == Merged(active, F)
<1>1. \A c \in Codes : /\ active[c].severity \in Severity \cup {"none"}
                       /\ merged[c].severity \in Severity \cup {"none"}
                       /\ Rank[active[c].severity] <= Rank[merged[c].severity]
  BY MergedType, MergedRises DEF ActiveFlags, Level
<1> HIDE DEF merged
<1>2. \A c \in Codes : active[c].severity = "blocking" =>
                         merged[c].severity = "blocking"
  BY <1>1, RankValues DEF Severity
<1>3. \A c \in Codes : active[c].severity = "warning" =>
                         merged[c].severity \in {"warning", "blocking"}
  BY <1>1, RankValues DEF Severity
<1>4. \A c \in Codes : active[c].severity = "caution" =>
        merged[c].severity \in {"caution", "warning", "blocking"}
  BY <1>1, RankValues DEF Severity
<1>5. StateRank[SafetyState(active)] <= StateRank[SafetyState(merged)]
  <2>1. CASE \E c \in Codes : active[c].severity = "blocking"
    <3>1. SafetyState(active) = "blocked" /\ SafetyState(merged) = "blocked"
      BY <1>2, <2>1 DEF SafetyState
    <3> QED
      BY <3>1 DEF StateRank
  <2>2. CASE /\ \A c \in Codes : active[c].severity # "blocking"
             /\ \E c \in Codes : active[c].severity = "warning"
    <3>1. SafetyState(active) = "shop_recommended"
      BY <2>2 DEF SafetyState
    <3>2. SafetyState(merged) \in {"shop_recommended", "blocked"}
      BY <1>3, <2>2 DEF SafetyState
    <3> QED
      BY <3>1, <3>2 DEF StateRank
  <2>3. CASE /\ \A c \in Codes : active[c].severity \notin {"blocking", "warning"}
             /\ \E c \in Codes : active[c].severity = "caution"
    <3>1. SafetyState(active) = "caution"
      BY <2>3 DEF SafetyState
    <3>2. SafetyState(merged) \in {"caution", "shop_recommended", "blocked"}
      BY <1>4, <2>3 DEF SafetyState
    <3> QED
      BY <3>1, <3>2 DEF StateRank
  <2>4. CASE \A c \in Codes :
               active[c].severity \notin {"blocking", "warning", "caution"}
    <3>1. SafetyState(active) = "ok"
      BY <2>4 DEF SafetyState
    <3>2. SafetyState(merged) \in {"ok", "caution", "shop_recommended", "blocked"}
      BY DEF SafetyState
    <3> QED
      BY <3>1, <3>2 DEF StateRank
  <2> QED
    BY <2>1, <2>2, <2>3, <2>4
<1> QED
  BY <1>5 DEF merged

\* What is not announced changed nothing a client could miss: every code keeps
\* its severity and, from a warning on, whether it blocks repair instructions.
THEOREM SilentIsUnchanged ==
  ASSUME NEW active \in ActiveFlags, NEW F \in SUBSET Flag,
         ~Escalates(active, Merged(active, F)),
         NEW c \in Codes
  PROVE  /\ Merged(active, F)[c].severity = active[c].severity
         /\ active[c].severity \in {"warning", "blocking"} =>
              Merged(active, F)[c].blocks = active[c].blocks
<1> DEFINE merged == Merged(active, F)
<1>1. /\ active[c] \in Level /\ merged[c] \in Level
      /\ Rank[active[c].severity] <= Rank[merged[c].severity]
  BY MergedType, MergedRises DEF ActiveFlags
<1>2. ~(Rank[merged[c].severity] > Rank[active[c].severity])
  BY DEF Escalates
<1>3. merged[c].severity = active[c].severity
  <2>1. /\ active[c].severity \in Severity \cup {"none"}
        /\ merged[c].severity \in Severity \cup {"none"}
    BY <1>1 DEF Level
  <2> QED
    BY <1>1, <1>2, <2>1, RankType, RankInjective
<1>4. active[c].blocks => merged[c].blocks
  <2>1. active[c] \in Instances(active, F, c)
    BY InstancesAreLevels
  <2>2. merged[c].severity = Highest(Instances(active, F, c)).severity
    BY MergedLevel
  <2>3. merged[c].blocks =
          \E l \in Instances(active, F, c) :
            l.severity = Highest(Instances(active, F, c)).severity /\ l.blocks
    BY DEF Merged
  <2> QED
    BY <1>3, <2>1, <2>2, <2>3
<1>5. active[c].severity \in {"warning", "blocking"} /\ merged[c].blocks =>
        active[c].blocks
  BY <1>3 DEF Escalates
<1>6. active[c].blocks \in BOOLEAN /\ merged[c].blocks \in BOOLEAN
  BY <1>1 DEF Level
<1> QED
  BY <1>3, <1>4, <1>5, <1>6

-----------------------------------------------------------------------------
(* The log. *)

Kinds ==
  {"started", "heartbeat", "assistant", "error", "processing_error",
   "completed", "input_requested", "safety_escalated", "report"}

Entry == [kind : Kinds, turn : Turns \cup {NoTurn}]

\* The flags and the log, which the following theorems need alone.
Recorded == flags \in ActiveFlags /\ log \in Seq(Entry)

\* What a step may add to the log: an error together with its completion, a
\* completion of a turn under way by leaving "running", and no beginning or
\* request but the pending one.
Added(i) ==
  /\ log'[i].kind = "processing_error" =>
       /\ i < Len(log')
       /\ log'[i + 1] = Event("completed", log'[i].turn)
  /\ log'[i].kind = "completed" =>
       /\ job[log'[i].turn] \in {"waiting", "running"}
       /\ status' # "running"
  /\ log'[i].kind \in {"started", "input_requested"} =>
       /\ i = Len(log')
       /\ inputRequest' = 0 \/ inputRequest' = i

LogGrows ==
  /\ log' \in Seq(Entry)
  /\ Len(log) <= Len(log')
  /\ \A i \in 1..Len(log) : log'[i] = log[i]
  /\ \A i \in (Len(log) + 1)..Len(log') : Added(i)

FlagsRise ==
  \/ flags' = flags
  \/ \E F \in SUBSET Flag :
       /\ flags' = Merged(flags, F)
       /\ Escalates(flags, flags') =>
            \E i \in (Len(log) + 1)..Len(log') :
              log'[i].kind = "safety_escalated"

-----------------------------------------------------------------------------
(* Sequences. *)

LEMMA EventType ==
  \A kind \in Kinds, t \in Turns \cup {NoTurn} :
    /\ Event(kind, t) \in Entry
    /\ Event(kind, t).kind = kind /\ Event(kind, t).turn = t
  BY DEF Event, Entry

\* Appending one ordinary event.
LEMMA OneAdded ==
  ASSUME log \in Seq(Entry), NEW e \in Entry, log' = Append(log, e),
         e.kind \notin {"processing_error", "completed"},
         e.kind \in {"started", "input_requested"} =>
           inputRequest' = 0 \/ inputRequest' = Len(log')
  PROVE  LogGrows
<1>1. /\ log' \in Seq(Entry) /\ Len(log') = Len(log) + 1
      /\ \A i \in 1..Len(log) : log'[i] = log[i]
      /\ log'[Len(log) + 1] = e
  BY AppendProperties
<1>2. Added(Len(log) + 1)
  BY <1>1 DEF Added
<1>3. \A i \in (Len(log) + 1)..Len(log') : i = Len(log) + 1
  BY <1>1
<1> QED
  BY <1>1, <1>2, <1>3 DEF LogGrows

LEMMA NoneAdded ==
  ASSUME log \in Seq(Entry), log' = log
  PROVE  LogGrows
  BY DEF LogGrows

\* The completion of a turn under way.
LEMMA CompletionAdded ==
  ASSUME log \in Seq(Entry), NEW t \in Turns, NEW s, NEW error \in BOOLEAN,
         AppendCompletion(t, s, error),
         job[t] \in {"waiting", "running"}, s # "running"
  PROVE  /\ LogGrows
         /\ log'[Len(log')] = Event("completed", t)
         /\ Len(log') > Len(log)
<1> DEFINE e == Event("processing_error", t)
           c == Event("completed", t)
<1>1. e \in Entry /\ c \in Entry /\ e.kind = "processing_error" /\ e.turn = t
      /\ c.kind = "completed" /\ c.turn = t
  BY EventType DEF Kinds
<1>2. status' = s
  BY DEF AppendCompletion
<1>3. CASE error
  <2>1. log' = log \o <<e>> \o <<c>>
    BY <1>3 DEF AppendCompletion
  <2> HIDE DEF e, c
  <2>2. /\ log' \in Seq(Entry) /\ Len(log') = Len(log) + 2
        /\ \A i \in 1..Len(log) : log'[i] = log[i]
        /\ log'[Len(log) + 1] = e /\ log'[Len(log) + 2] = c
    BY <1>1, <2>1
  <2>3. Added(Len(log) + 1) /\ Added(Len(log) + 2)
    BY <1>1, <1>2, <2>2 DEF Added, c
  <2>4. \A i \in (Len(log) + 1)..Len(log') : i \in {Len(log) + 1, Len(log) + 2}
    BY <2>2
  <2> QED
    BY <2>2, <2>3, <2>4 DEF LogGrows, c
<1>4. CASE ~error
  <2>1. log' = log \o <<c>>
    BY <1>4 DEF AppendCompletion
  <2> HIDE DEF e, c
  <2>2. /\ log' \in Seq(Entry) /\ Len(log') = Len(log) + 1
        /\ \A i \in 1..Len(log) : log'[i] = log[i]
        /\ log'[Len(log) + 1] = c
    BY <1>1, <2>1
  <2>3. Added(Len(log) + 1)
    BY <1>1, <1>2, <2>2 DEF Added
  <2>4. \A i \in (Len(log) + 1)..Len(log') : i = Len(log) + 1
    BY <2>2
  <2> QED
    BY <2>2, <2>3, <2>4 DEF LogGrows, c
<1> QED
  BY <1>3, <1>4

-----------------------------------------------------------------------------
(* What the steps do to the log. *)

LEMMA OneEvent ==
  ASSUME log \in Seq(Entry), NEW kind \in Kinds,
         NEW t \in Turns \cup {NoTurn}, log' = Append(log, Event(kind, t)),
         kind \notin {"processing_error", "completed"},
         kind \in {"started", "input_requested"} =>
           inputRequest' = 0 \/ inputRequest' = Len(log')
  PROVE  LogGrows
<1>1. Event(kind, t) \in Entry /\ Event(kind, t).kind = kind
  BY DEF Event, Entry
<1> QED
  BY <1>1, OneAdded

\* An announcement alone, or before a report.
LEMMA AnnouncementAdded ==
  ASSUME log \in Seq(Entry), NEW t \in Turns \cup {NoTurn},
         NEW s \in {<<>>, <<Event("report", t)>>},
         log' = log \o Announcement(t) \o s
  PROVE  /\ LogGrows
         /\ Escalates(flags, flags') =>
              \E i \in (Len(log) + 1)..Len(log') :
                log'[i].kind = "safety_escalated"
<1> DEFINE a == Event("safety_escalated", t)
           r == Event("report", t)
<1>1. a \in Entry /\ r \in Entry /\ a.kind = "safety_escalated"
      /\ r.kind = "report"
  BY EventType DEF Kinds
<1>2. \/ Escalates(flags, flags') /\ Announcement(t) = <<a>>
      \/ ~Escalates(flags, flags') /\ Announcement(t) = <<>>
  BY DEF Announcement
<1>3. s = <<>> \/ s = <<r>>
  OBVIOUS
<1> HIDE DEF a, r
<1>4. /\ log' \in Seq(Entry) /\ Len(log') \in Nat /\ Len(log) \in Nat
      /\ Len(log) <= Len(log')
      /\ \A i \in 1..Len(log) : log'[i] = log[i]
      /\ \A i \in (Len(log) + 1)..Len(log') : log'[i] \in {a, r}
  <2>1. \/ log' = log \/ log' = log \o <<a>>
        \/ log' = log \o <<r>> \/ log' = log \o <<a>> \o <<r>>
    <3>1. log \o <<a>> \in Seq(Entry)
      BY <1>1
    <3> QED
      BY <1>2, <1>3, <3>1, ConcatEmptySeq
  <2>2. CASE log' = log
    BY <2>2
  <2>3. CASE log' = log \o <<a>>
    BY <1>1, <2>3
  <2>4. CASE log' = log \o <<r>>
    BY <1>1, <2>4
  <2>5. CASE log' = log \o <<a>> \o <<r>>
    BY <1>1, <2>5
  <2> QED
    BY <2>1, <2>2, <2>3, <2>4, <2>5
<1>7. Escalates(flags, flags') =>
        Len(log) + 1 <= Len(log') /\ log'[Len(log) + 1] = a
  <2> SUFFICES ASSUME Escalates(flags, flags')
               PROVE  Len(log) + 1 <= Len(log') /\ log'[Len(log) + 1] = a
    OBVIOUS
  <2>1. log' = log \o <<a>> \o s
    BY <1>2
  <2> QED
    BY <1>1, <1>3, <2>1
<1>5. \A i \in (Len(log) + 1)..Len(log') : Added(i)
  BY <1>1, <1>4 DEF Added
<1>6. LogGrows
  BY <1>4, <1>5 DEF LogGrows
<1> QED
  BY <1>1, <1>4, <1>6, <1>7

\* A finishing job completes its turn or leaves the log alone.
LEMMA FinishGrows ==
  ASSUME log \in Seq(Entry), NEW t \in Turns, NEW outcome, Finish(t, outcome),
         job[t] \in {"waiting", "running"}
  PROVE  LogGrows /\ flags' = flags
<1>1. flags' = flags
  BY DEF Finish
<1>2. AppendCompletion(t, "awaiting_user", TRUE) \/ log' = log
  BY DEF Finish
<1> QED
  BY <1>1, <1>2, CompletionAdded, NoneAdded

LEMMA TerminalStatuses ==
  ASSUME NEW facts
  PROVE  TerminalStatus(facts) \in
           {"blocked_safety", "awaiting_decision", "failed", "awaiting_user"}
  BY DEF TerminalStatus

LEMMA StreamGrows ==
  ASSUME Recorded, NEW t \in Turns, Stream(t)
  PROVE  LogGrows /\ flags' = flags
<1>1. flags' = flags /\ log \in Seq(Entry)
  BY DEF Stream, Recorded
<1>2. \/ log' = Append(log, Event("assistant", t))
      \/ log' = Append(log, Event("error", t))
      \/ log' = log
  BY DEF Stream, AppendForSession
<1> QED
  BY <1>1, <1>2, OneEvent, NoneAdded DEF Kinds

LEMMA FinalizeGrows ==
  ASSUME Recorded, NEW t \in Turns, run[t].frozen # "running",
         FinalizeTurn(t) \/ FinalizeRaises(t)
  PROVE  LogGrows /\ flags' = flags
<1>1. flags' = flags /\ log \in Seq(Entry)
  BY DEF FinalizeTurn, FinalizeRaises, Recorded
<1>2. job[t] = "running"
  BY DEF FinalizeTurn, FinalizeRaises, Ending, Fenced, Current
<1>3. Frozen(t) # "running"
  BY TerminalStatuses DEF Frozen
<1>4. ProcessingError(t) \in BOOLEAN
  BY DEF ProcessingError
<1>5. AppendCompletion(t, Frozen(t), ProcessingError(t)) \/ log' = log
  BY DEF FinalizeTurn, FinalizeRaises
<1> QED
  BY <1>1, <1>2, <1>3, <1>4, <1>5, CompletionAdded, NoneAdded

LEMMA RaiseFlagGrows ==
  ASSUME Recorded, NEW t \in Turns, RaiseFlag(t)
  PROVE  LogGrows /\ FlagsRise
<1>1. log \in Seq(Entry) /\ log' = log \o Announcement(NoTurn)
  BY DEF RaiseFlag, Recorded
<1>2. log' = log \o Announcement(NoTurn) \o <<>>
  <2>1. Announcement(NoTurn) \in {<<>>, <<Event("safety_escalated", NoTurn)>>}
    BY DEF Announcement
  <2>2. Event("safety_escalated", NoTurn) \in Entry
    BY EventType DEF Kinds
  <2>3. log \o Announcement(NoTurn) \in Seq(Entry)
    <3>1. CASE Announcement(NoTurn) = <<>>
      BY <1>1, <3>1, ConcatEmptySeq
    <3>2. CASE Announcement(NoTurn) = <<Event("safety_escalated", NoTurn)>>
      <4>1. <<Event("safety_escalated", NoTurn)>> \in Seq(Entry)
        BY <2>2
      <4> QED
        BY <1>1, <3>2, <4>1, ConcatProperties
    <3> QED
      BY <2>1, <3>1, <3>2
  <2> QED
    BY <1>1, <2>3, ConcatEmptySeq
<1>3. PICK f \in Concerns : flags' = Merged(flags, {f})
  BY DEF RaiseFlag
<1>4. {f} \in SUBSET Flag
  BY TurnAssumption DEF TurnAssumption
<1> QED
  BY <1>1, <1>2, <1>3, <1>4, AnnouncementAdded DEF FlagsRise

LEMMA SaveReportGrows ==
  ASSUME Recorded, NEW t \in Turns, SaveReport(t)
  PROVE  LogGrows /\ FlagsRise
<1>1. /\ log \in Seq(Entry)
      /\ log' = log \o Announcement(t) \o <<Event("report", t)>>
  BY DEF SaveReport, Recorded
<1>2. PICK F \in SUBSET Concerns : flags' = Merged(flags, F)
  BY DEF SaveReport
<1>3. F \in SUBSET Flag
  BY TurnAssumption DEF TurnAssumption
<1> QED
  BY <1>1, <1>2, <1>3, AnnouncementAdded DEF FlagsRise

\* No execution has fixed "running" as its terminal status.
NoneFrozenRunning == \A t \in Turns : run[t].frozen # "running"

LEMMA StepGrows ==
  ASSUME Recorded, NoneFrozenRunning, [TurnNext]_turnVars
  PROVE  LogGrows /\ FlagsRise
<1>0. log \in Seq(Entry)
  BY DEF Recorded
<1>1. CASE UNCHANGED turnVars
  BY <1>0, <1>1, NoneAdded DEF turnVars, sessionRow, FlagsRise
<1>2. CASE Heartbeat
  BY <1>0, <1>2, OneEvent DEF Heartbeat, Kinds, FlagsRise
<1>3. ASSUME NEW t \in Turns, Accept(t)
      PROVE  LogGrows /\ FlagsRise
  BY <1>0, <1>3, OneEvent DEF Accept, Kinds, FlagsRise
<1>4. ASSUME NEW t \in Turns, Preparation(t)
      PROVE  LogGrows /\ FlagsRise
  <2>1. CASE Claim(t) \/ Prepare(t) \/ CrossBoundary(t)
    BY <1>0, <2>1, NoneAdded
    DEF Claim, Prepare, CrossBoundary, sessionRow, FlagsRise
  <2>2. CASE RejectDefinition(t)
    BY <1>0, <2>2, FinishGrows DEF RejectDefinition, FlagsRise
  <2>3. CASE PrepareFails(t)
    BY <1>0, <2>3, FinishGrows DEF PrepareFails, Current, FlagsRise
  <2> QED
    BY <1>4, <2>1, <2>2, <2>3 DEF Preparation
<1>5. ASSUME NEW t \in Turns, AgentStep(t)
      PROVE  LogGrows /\ FlagsRise
  <2>1. CASE Stream(t)
    BY <2>1, StreamGrows DEF FlagsRise
  <2>2. CASE NoteProcessingError(t) \/ Raise(t) \/ NoteTool(t)
    BY <1>0, <2>2, NoneAdded
    DEF NoteProcessingError, Raise, NoteTool, sessionRow, FlagsRise
  <2>3. CASE RequestInput(t)
    BY <1>0, <2>3, OneEvent DEF RequestInput, Kinds, FlagsRise
  <2>4. CASE RaiseFlag(t)
    BY <2>4, RaiseFlagGrows
  <2>5. CASE SaveReport(t)
    BY <2>5, SaveReportGrows
  <2>6. CASE RefuseTool(t) \/ LoseToolAnswer(t)
    BY <1>0, <2>6, OneEvent
    DEF RefuseTool, LoseToolAnswer, ToolError, Kinds, FlagsRise
  <2> QED
    BY <1>5, <2>1, <2>2, <2>3, <2>4, <2>5, <2>6 DEF AgentStep
<1>6. ASSUME NEW t \in Turns, Closing(t)
      PROVE  LogGrows /\ FlagsRise
  <2>1. CASE FinalizeTurn(t) \/ FinalizeRaises(t)
    BY <2>1, FinalizeGrows DEF FlagsRise, NoneFrozenRunning
  <2>2. CASE Report(t)
    BY <1>0, <2>2, FinishGrows DEF Report, Current, FlagsRise
  <2>3. CASE Recover(t)
    BY <1>0, <2>3, FinishGrows DEF Recover, FlagsRise
  <2>4. CASE FencedOut(t) \/ Crash(t) \/ DeadlinePasses(t)
    BY <1>0, <2>4, NoneAdded
    DEF FencedOut, Crash, DeadlinePasses, sessionRow, FlagsRise
  <2> QED
    BY <1>6, <2>1, <2>2, <2>3, <2>4 DEF Closing
<1> QED
  BY <1>1, <1>2, <1>3, <1>4, <1>5, <1>6 DEF TurnNext

-----------------------------------------------------------------------------
(* Executions and jobs. *)

Facts == {"input", "report", "blocked", "clear", "fatal", "processing"}

Execution ==
  [step : {"none", "claimed", "prepared", "streaming", "raised", "returned",
           "failed"},
   view : Nat, facts : SUBSET Facts, unnoted : SUBSET Facts,
   frozen : {"none", "blocked_safety", "awaiting_decision", "failed",
             "awaiting_user"},
   cause : {"none", "sequence", "runner", "commit"}]

JobTyped ==
  /\ job \in [Turns -> {"absent", "waiting", "running"} \cup Settled]
  /\ attempts \in [Turns -> 0..AttemptLimit]
  /\ reserved \in [Turns -> 0..AttemptLimit]

\* A job that waits for an execution has reserved nothing, nor has one whose
\* execution is still before the boundary.
Unreserved ==
  \A t \in Turns :
    /\ job[t] \in {"absent", "waiting"} => reserved[t] = 0
    /\ run[t].step = "claimed" /\ job[t] = "running" => reserved[t] = 0

\* A turn not accepted is not completed; one whose handler returned is.
CompletionsKnown ==
  \A t \in Turns :
    /\ job[t] = "absent" => ~Completed(t)
    /\ run[t].step = "returned" => Completed(t)

\* The pending request is an event of the log.
RequestInLog == inputRequest \in 0..Len(log)

TurnIInv ==
  /\ Recorded
  /\ JobTyped
  /\ run \in [Turns -> Execution]
  /\ Unreserved
  /\ CompletionsKnown
  /\ RequestInLog
  /\ ErrorPairedWithCompletion
  /\ PendingRequestIsLatest
  /\ NeverStuckRunning

LEMMA RaisingType ==
  ASSUME NEW r \in Execution, NEW cause \in {"sequence", "runner", "commit"}
  PROVE  Raising(r, cause) \in Execution /\ Raising(r, cause).step = "raised"
  BY DEF Raising, NoRun, Execution

LEMMA NoRunType ==
  /\ NoRun \in Execution /\ NoRun.step = "none"
  /\ [NoRun EXCEPT !.step = "claimed"] \in Execution
  /\ [NoRun EXCEPT !.step = "claimed"].step = "claimed"
  /\ [NoRun EXCEPT !.step = "returned"] \in Execution
  /\ [NoRun EXCEPT !.step = "returned"].step = "returned"
  /\ [NoRun EXCEPT !.step = "failed"] \in Execution
  /\ [NoRun EXCEPT !.step = "failed"].step = "failed"
  BY DEF NoRun, Execution

LEMMA NotedType ==
  ASSUME NEW facts \in SUBSET Facts, NEW new \in SUBSET Facts
  PROVE  Noted(facts, new) \in SUBSET Facts
  BY DEF Noted

\* A step replaces the execution of one turn.
RunBecomes(t, r) == run' = [run EXCEPT ![t] = r]

LEMMA RunReplaced ==
  ASSUME run \in [Turns -> Execution], NEW t \in Turns, NEW r \in Execution,
         RunBecomes(t, r)
  PROVE  /\ run' \in [Turns -> Execution]
         /\ run'[t] = r
         /\ \A u \in Turns : u # t => run'[u] = run[u]
  BY DEF RunBecomes


\* What a step makes of the executions.
RunsStep ==
  /\ run' \in [Turns -> Execution]
  /\ \A t \in Turns :
       /\ run'[t].step = "returned" => run[t].step = "returned" \/ FinalizeTurn(t)
       /\ run'[t].step = "claimed" => run[t].step = "claimed" \/ Claim(t)

LEMMA RunKept ==
  ASSUME run \in [Turns -> Execution], run' = run
  PROVE  RunsStep
  BY DEF RunsStep

LEMMA RunReset ==
  ASSUME run \in [Turns -> Execution], NEW t \in Turns, NEW r \in Execution,
         run' = [run EXCEPT ![t] = r],
         r.step = "returned" => FinalizeTurn(t),
         r.step = "claimed" => Claim(t)
  PROVE  RunsStep
  BY DEF RunsStep

LEMMA PreparationRuns ==
  ASSUME run \in [Turns -> Execution], log \in Seq(Entry), NEW t \in Turns,
         Preparation(t)
  PROVE  RunsStep
<1>1. CASE Claim(t)
  BY <1>1, NoRunType, RunReset DEF Claim
<1>2. CASE RejectDefinition(t)
  BY <1>2, RunKept DEF RejectDefinition
<1>3. CASE Prepare(t)
  <2>1. [run[t] EXCEPT !.step = "prepared", !.view = Len(log)] \in Execution
    <3>1. PICK n \in Nat : n = Len(log)
      OBVIOUS
    <3>2. [run[t] EXCEPT !.step = "prepared", !.view = n] \in Execution
      BY DEF Execution
    <3> QED
      BY <3>1, <3>2
  <2>2. run' = [run EXCEPT ![t] =
                  [run[t] EXCEPT !.step = "prepared", !.view = Len(log)]]
    BY <1>3 DEF Prepare
  <2> QED
    BY <2>1, <2>2 DEF RunsStep, Execution
<1>4. CASE PrepareFails(t)
  BY <1>4, NoRunType, RunReset DEF PrepareFails
<1>5. CASE CrossBoundary(t)
  BY <1>5 DEF CrossBoundary, RunsStep, Execution
<1> QED
  BY <1>1, <1>2, <1>3, <1>4, <1>5 DEF Preparation

LEMMA AgentRuns ==
  ASSUME run \in [Turns -> Execution], log \in Seq(Entry), log' \in Seq(Entry),
         NEW t \in Turns, AgentStep(t)
  PROVE  RunsStep
<1>0. run[t] \in Execution /\ Len(log) \in Nat /\ Len(log') \in Nat
  OBVIOUS
<1>1. CASE Stream(t)
  <2>1. ASSUME NEW kind \in Kinds, NEW noted \in SUBSET Facts,
               AppendForSession(t, kind, noted)
        PROVE  RunsStep
    <3>1. CASE run' = [run EXCEPT ![t] = Raising(@, "sequence")]
      <4>1. run' = [run EXCEPT ![t] = Raising(run[t], "sequence")]
        BY <3>1
      <4> QED
        BY <1>0, <4>1, RaisingType, RunReset
    <3>2. CASE run' = [run EXCEPT
                         ![t].view = (IF run[t].view = 0 THEN Len(log)
                                      ELSE run[t].view) + 1,
                         ![t].facts = @ \cup noted]
      <4>1. PICK n \in Nat :
              n = (IF run[t].view = 0 THEN Len(log) ELSE run[t].view) + 1
        BY <1>0 DEF Execution
      <4>2. run' = [run EXCEPT ![t].view = n, ![t].facts = @ \cup noted]
        BY <3>2, <4>1
      <4> QED
        BY <1>0, <4>2 DEF RunsStep, Execution
    <3> QED
      BY <2>1, <3>1, <3>2 DEF AppendForSession
  <2>2. {} \in SUBSET Facts /\ {"fatal"} \in SUBSET Facts
    BY DEF Facts
  <2> QED
    BY <1>1, <2>1, <2>2 DEF Stream, Kinds
<1>2. CASE NoteProcessingError(t)
  BY <1>0, <1>2 DEF NoteProcessingError, RunsStep, Execution, Facts
<1>3. CASE Raise(t)
  <2>1. run' = [run EXCEPT ![t] = Raising(run[t], "runner")]
    BY <1>3 DEF Raise
  <2> QED
    BY <1>0, <2>1, RaisingType, RunReset
<1>4. ASSUME NEW noted \in SUBSET Facts, ToolCommitted(t, noted)
      PROVE  RunsStep
  <2>1. Noted(run[t].unnoted, noted) \in SUBSET Facts
    BY <1>0, NotedType DEF Execution
  <2>2. run' = [run EXCEPT ![t].view = Len(log'),
                           ![t].unnoted = Noted(run[t].unnoted, noted)]
    BY <1>4 DEF ToolCommitted
  <2> QED
    BY <1>0, <2>1, <2>2 DEF RunsStep, Execution
<1>5. CASE RequestInput(t)
  BY <1>4, <1>5 DEF RequestInput, Facts
<1>6. CASE RaiseFlag(t)
  BY <1>4, <1>6 DEF RaiseFlag, Guidance, Facts
<1>7. CASE SaveReport(t)
  BY <1>4, <1>7 DEF SaveReport, Guidance, Facts
<1>8. CASE NoteTool(t)
  <2>1. Noted(run[t].facts, run[t].unnoted) \ {"clear"} \in SUBSET Facts
    BY <1>0, NotedType DEF Execution
  <2>2. run' = [run EXCEPT
                  ![t].facts = Noted(run[t].facts, run[t].unnoted) \ {"clear"},
                  ![t].unnoted = {}]
    BY <1>8 DEF NoteTool
  <2> QED
    BY <1>0, <2>1, <2>2 DEF RunsStep, Execution
<1>9. ASSUME NEW unnoted \in SUBSET Facts, ToolError(t, unnoted)
      PROVE  RunsStep
  BY <1>0, <1>9 DEF ToolError, RunsStep, Execution, Facts
<1>10. CASE RefuseTool(t) \/ LoseToolAnswer(t)
  BY <1>0, <1>9, <1>10 DEF RefuseTool, LoseToolAnswer, Execution
<1> QED
  BY <1>1, <1>2, <1>3, <1>5, <1>6, <1>7, <1>8, <1>10 DEF AgentStep

LEMMA ClosingRuns ==
  ASSUME run \in [Turns -> Execution], NEW t \in Turns, Closing(t)
  PROVE  RunsStep
<1>0. run[t] \in Execution
  OBVIOUS
<1>1. CASE FinalizeTurn(t)
  BY <1>1, NoRunType, RunReset DEF FinalizeTurn
<1>2. CASE FinalizeRaises(t)
  <2>1. Frozen(t) \in {"blocked_safety", "awaiting_decision", "failed",
                       "awaiting_user"} \cup {"none"}
    BY <1>0, TerminalStatuses DEF Frozen, Execution
  <2>2. [run[t] EXCEPT !.frozen = Frozen(t)] \in Execution
    BY <1>0, <2>1 DEF Execution
  <2>3. CASE run' = [run EXCEPT ![t] =
                       Raising([run[t] EXCEPT !.frozen = Frozen(t)], "commit")]
    BY <2>2, <2>3, RaisingType, RunReset
  <2>4. CASE run' = [run EXCEPT ![t] = [NoRun EXCEPT !.step = "failed"]]
    BY <2>4, NoRunType, RunReset
  <2> QED
    BY <1>2, <2>3, <2>4 DEF FinalizeRaises
<1>3. CASE Report(t) \/ FencedOut(t) \/ Crash(t)
  BY <1>3, NoRunType, RunReset DEF Report, FencedOut, Crash
<1>4. CASE DeadlinePasses(t) \/ Recover(t)
  BY <1>4, RunKept DEF DeadlinePasses, Recover
<1> QED
  BY <1>1, <1>2, <1>3, <1>4 DEF Closing


Outcomes == {"succeeded", "interrupted", "dead", "retrying"}

\* A job's execution ends: it may be retried only if nothing was reserved, and
\* it succeeds only if the turn is completed.
Finishes(t, outcome) ==
  /\ Finish(t, outcome)
  /\ job[t] \in {"waiting", "running"}
  /\ outcome = "retrying" => job[t] = "running" /\ reserved[t] = 0
  /\ outcome = "succeeded" => Completed(t)

\* Every step does one thing to the jobs.
JobStep ==
  \/ /\ UNCHANGED <<job, attempts, reserved>>
     /\ status' = "running" => status = "running"
  \/ \E t \in Turns : Accept(t) \/ Claim(t) \/ CrossBoundary(t)
  \/ \E t \in Turns, outcome \in Outcomes : Finishes(t, outcome)

LEMMA StepIsJobStep ==
  ASSUME TurnIInv, [TurnNext]_turnVars
  PROVE  JobStep
<1>1. CASE UNCHANGED turnVars
  BY <1>1 DEF turnVars, sessionRow, jobRow, JobStep
<1>2. CASE Heartbeat
  BY <1>2 DEF Heartbeat, jobRow, JobStep
<1>3. ASSUME NEW t \in Turns, Accept(t)
      PROVE  JobStep
  BY <1>3 DEF JobStep
<1>4. ASSUME NEW t \in Turns, Preparation(t)
      PROVE  JobStep
  <2>1. CASE Claim(t) \/ CrossBoundary(t)
    BY <2>1 DEF JobStep
  <2>2. CASE Prepare(t)
    BY <2>2 DEF Prepare, jobRow, sessionRow, JobStep
  <2>3. CASE RejectDefinition(t)
    <3>1. Finishes(t, "dead")
      BY <2>3 DEF RejectDefinition, Finishes
    <3> QED
      BY <3>1 DEF JobStep, Outcomes
  <2>4. CASE PrepareFails(t)
    <3>1. PICK outcome \in {"retrying", "dead"} : Finish(t, outcome)
      BY <2>4 DEF PrepareFails
    <3>2. job[t] = "running" /\ reserved[t] = 0
      BY <2>4 DEF PrepareFails, Current, TurnIInv, Unreserved
    <3>3. Finishes(t, outcome)
      BY <3>1, <3>2 DEF Finishes
    <3> QED
      BY <3>3 DEF JobStep, Outcomes
  <2> QED
    BY <1>4, <2>1, <2>2, <2>3, <2>4 DEF Preparation
<1>5. ASSUME NEW t \in Turns, AgentStep(t)
      PROVE  JobStep
  BY <1>5
  DEF AgentStep, Stream, NoteProcessingError, Raise, RequestInput, RaiseFlag,
      SaveReport, NoteTool, RefuseTool, LoseToolAnswer, jobRow, sessionRow,
      JobStep
<1>6. ASSUME NEW t \in Turns, Closing(t)
      PROVE  JobStep
  <2>1. CASE FinalizeTurn(t) \/ FinalizeRaises(t)
    <3>1. UNCHANGED <<job, attempts, reserved>>
      BY <2>1 DEF FinalizeTurn, FinalizeRaises, jobRow
    <3>2. Frozen(t) # "running"
      BY TerminalStatuses DEF Frozen, TurnIInv, Execution
    <3>3. status' = Frozen(t) \/ status' = status
      BY <2>1 DEF FinalizeTurn, FinalizeRaises, AppendCompletion
    <3> QED
      BY <3>1, <3>2, <3>3 DEF JobStep
  <2>2. CASE Report(t)
    <3>1. PICK outcome \in {"succeeded", "dead"} :
            /\ Finish(t, outcome)
            /\ outcome = "succeeded" => run[t].step = "returned"
      BY <2>2 DEF Report
    <3>2. Finishes(t, outcome)
      BY <2>2, <3>1 DEF Report, Current, Finishes, TurnIInv, CompletionsKnown
    <3> QED
      BY <3>2 DEF JobStep, Outcomes
  <2>3. CASE Recover(t)
    <3>1. PICK outcome \in {"interrupted", "retrying"} :
            /\ Finish(t, outcome)
            /\ outcome = "retrying" => reserved[t] = 0
      BY <2>3 DEF Recover
    <3>2. Finishes(t, outcome)
      BY <2>3, <3>1 DEF Recover, Finishes
    <3> QED
      BY <3>2 DEF JobStep, Outcomes
  <2>4. CASE FencedOut(t) \/ Crash(t) \/ DeadlinePasses(t)
    BY <2>4 DEF FencedOut, Crash, DeadlinePasses, jobRow, sessionRow, JobStep
  <2> QED
    BY <1>6, <2>1, <2>2, <2>3, <2>4 DEF Closing
<1> QED
  BY <1>1, <1>2, <1>3, <1>4, <1>5, <1>6 DEF TurnNext

LEMMA FinishJobs ==
  ASSUME JobTyped, NEW t \in Turns, NEW outcome \in Outcomes,
         Finishes(t, outcome)
  PROVE  /\ attempts' = attempts /\ reserved' = reserved
         /\ \E s \in {"waiting"} \cup Settled :
              /\ job' = [job EXCEPT ![t] = s]
              /\ s = "waiting" =>
                   /\ job[t] = "running" /\ reserved[t] = 0
                   /\ attempts[t] < AttemptLimit
              /\ ~Completed(t) => s = "waiting" \/ status' = "awaiting_user"
         /\ status' \in {status, "awaiting_user"}
<1>1. attempts' = attempts /\ reserved' = reserved
  BY DEF Finishes, Finish
<1>2. attempts[t] \in Nat /\ AttemptLimit \in Nat
  BY TurnAssumption DEF TurnAssumption, JobTyped
<1> DEFINE requested == IF outcome = "retrying" /\ attempts[t] >= AttemptLimit
                        THEN "dead" ELSE outcome
           failing == requested \in {"interrupted", "dead"}
           s == CASE requested = "retrying" -> "waiting"
                  [] failing /\ Completed(t) -> "succeeded"
                  [] failing /\ ~Completed(t) /\ reserved[t] # 0 -> "interrupted"
                  [] OTHER -> requested
<1>3. job' = [job EXCEPT ![t] = s]
  BY DEF Finishes, Finish
<1>4. failing /\ ~Completed(t) => status' = "awaiting_user"
  BY DEF Finishes, Finish, AppendCompletion
<1>5. ~(failing /\ ~Completed(t)) => status' = status
  BY DEF Finishes, Finish
<1>6. s \in {"waiting"} \cup Settled
  BY DEF Outcomes, Settled
<1>7. s = "waiting" =>
        outcome = "retrying" /\ attempts[t] < AttemptLimit
  BY <1>2 DEF Outcomes
<1>8. ~Completed(t) => s = "waiting" \/ failing
  BY DEF Finishes, Outcomes
<1> HIDE DEF s, failing
<1>9. s = "waiting" => job[t] = "running" /\ reserved[t] = 0
  BY <1>7 DEF Finishes
<1> QED
  BY <1>1, <1>3, <1>4, <1>5, <1>6, <1>7, <1>8, <1>9


LEMMA JobsTyped ==
  ASSUME TurnIInv, JobStep
  PROVE  JobTyped'
<1>0. JobTyped /\ AttemptLimit \in Nat
  BY TurnAssumption DEF TurnIInv, TurnAssumption
<1>1. CASE UNCHANGED <<job, attempts, reserved>>
  BY <1>0, <1>1 DEF JobTyped
<1>2. ASSUME NEW t \in Turns, Accept(t)
      PROVE  JobTyped'
  BY <1>0, <1>2 DEF Accept, JobTyped
<1>3. ASSUME NEW t \in Turns, Claim(t)
      PROVE  JobTyped'
  BY <1>0, <1>3 DEF Claim, JobTyped
<1>4. ASSUME NEW t \in Turns, CrossBoundary(t)
      PROVE  JobTyped'
  BY <1>0, <1>4 DEF CrossBoundary, JobTyped
<1>5. ASSUME NEW t \in Turns, NEW outcome \in Outcomes, Finishes(t, outcome)
      PROVE  JobTyped'
  BY <1>0, <1>5, FinishJobs DEF JobTyped
<1> QED
  BY <1>1, <1>2, <1>3, <1>4, <1>5 DEF JobStep

\* A job that crosses the boundary is running and no longer merely claimed.
LEMMA StaysUnreserved ==
  ASSUME TurnIInv, JobStep, RunsStep
  PROVE  Unreserved'
<1>0. JobTyped /\ Unreserved /\ run \in [Turns -> Execution]
  BY DEF TurnIInv
<1> SUFFICES ASSUME NEW u \in Turns
             PROVE  /\ job'[u] \in {"absent", "waiting"} => reserved'[u] = 0
                    /\ run'[u].step = "claimed" /\ job'[u] = "running" =>
                         reserved'[u] = 0
  BY DEF Unreserved
<1>1. run'[u].step = "claimed" => run[u].step = "claimed" \/ Claim(u)
  BY DEF RunsStep
<1>2. Claim(u) => reserved'[u] = 0
  BY <1>0 DEF Claim, Unreserved
<1>3. CASE UNCHANGED <<job, attempts, reserved>>
  BY <1>0, <1>1, <1>2, <1>3 DEF Unreserved
<1>4. ASSUME NEW t \in Turns, Accept(t)
      PROVE  /\ job'[u] \in {"absent", "waiting"} => reserved'[u] = 0
             /\ run'[u].step = "claimed" /\ job'[u] = "running" =>
                  reserved'[u] = 0
  BY <1>0, <1>1, <1>2, <1>4 DEF Accept, Unreserved, JobTyped
<1>5. ASSUME NEW t \in Turns, Claim(t)
      PROVE  /\ job'[u] \in {"absent", "waiting"} => reserved'[u] = 0
             /\ run'[u].step = "claimed" /\ job'[u] = "running" =>
                  reserved'[u] = 0
  BY <1>0, <1>1, <1>2, <1>5 DEF Claim, Unreserved, JobTyped
<1>6. ASSUME NEW t \in Turns, CrossBoundary(t)
      PROVE  /\ job'[u] \in {"absent", "waiting"} => reserved'[u] = 0
             /\ run'[u].step = "claimed" /\ job'[u] = "running" =>
                  reserved'[u] = 0
  <2>1. CASE u = t
    <3>1. job'[u] = "running"
      BY <1>6, <2>1 DEF CrossBoundary, Current
    <3>2. run'[u].step = "streaming"
      BY <1>0, <1>6, <2>1 DEF CrossBoundary, Execution
    <3> QED
      BY <3>1, <3>2
  <2>2. CASE u # t
    BY <1>0, <1>1, <1>2, <1>6, <2>2 DEF CrossBoundary, Unreserved, JobTyped
  <2> QED
    BY <2>1, <2>2
<1>7. ASSUME NEW t \in Turns, NEW outcome \in Outcomes, Finishes(t, outcome)
      PROVE  /\ job'[u] \in {"absent", "waiting"} => reserved'[u] = 0
             /\ run'[u].step = "claimed" /\ job'[u] = "running" =>
                  reserved'[u] = 0
  <2>1. PICK s \in {"waiting"} \cup Settled :
          /\ job' = [job EXCEPT ![t] = s]
          /\ s = "waiting" => job[t] = "running" /\ reserved[t] = 0
    BY <1>0, <1>7, FinishJobs
  <2>2. reserved' = reserved
    BY <1>0, <1>7, FinishJobs
  <2> QED
    BY <1>0, <1>1, <1>2, <2>1, <2>2 DEF Unreserved, JobTyped, Settled
<1> QED
  BY <1>3, <1>4, <1>5, <1>6, <1>7 DEF JobStep

-----------------------------------------------------------------------------
(* The log's invariants. *)

\* A completed turn stays completed; it becomes so only under way.
LEMMA CompletionsGrow ==
  ASSUME log \in Seq(Entry), LogGrows, NEW t \in Turns
  PROVE  /\ Completed(t) => Completed(t)'
         /\ Completed(t)' /\ ~Completed(t) =>
              job[t] \in {"waiting", "running"} /\ status' # "running"
<1>0. /\ Len(log) \in Nat /\ Len(log') \in Nat /\ Len(log) <= Len(log')
      /\ DOMAIN log = 1..Len(log) /\ DOMAIN log' = 1..Len(log')
      /\ \A i \in 1..Len(log) : log'[i] = log[i]
  BY DEF LogGrows
<1>1. Completed(t) <=> \E i \in 1..Len(log) : log[i] = Event("completed", t)
  BY <1>0 DEF Completed, Completions
<1>2. Completed(t)' <=> \E i \in 1..Len(log') : log'[i] = Event("completed", t)
  BY <1>0 DEF Completed, Completions
<1>3. Completed(t) => Completed(t)'
  BY <1>0, <1>1, <1>2
<1>4. ASSUME Completed(t)', ~Completed(t)
      PROVE  job[t] \in {"waiting", "running"} /\ status' # "running"
  <2>1. PICK i \in 1..Len(log') : log'[i] = Event("completed", t)
    BY <1>2, <1>4
  <2>2. i \in (Len(log) + 1)..Len(log')
    BY <1>0, <1>1, <1>4, <2>1
  <2>3. log'[i].kind = "completed" /\ log'[i].turn = t
    BY <2>1 DEF Event
  <2> QED
    BY <2>2, <2>3 DEF LogGrows, Added
<1> QED
  BY <1>3, <1>4

LEMMA ErrorsStayPaired ==
  ASSUME log \in Seq(Entry), LogGrows, ErrorPairedWithCompletion
  PROVE  ErrorPairedWithCompletion'
<1>0. /\ Len(log) \in Nat /\ Len(log') \in Nat /\ Len(log) <= Len(log')
      /\ DOMAIN log = 1..Len(log) /\ DOMAIN log' = 1..Len(log')
      /\ \A i \in 1..Len(log) : log'[i] = log[i]
  BY DEF LogGrows
<1> SUFFICES ASSUME NEW i \in 1..Len(log'), log'[i].kind = "processing_error"
             PROVE  /\ i < Len(log')
                    /\ log'[i + 1] = Event("completed", log'[i].turn)
  BY <1>0 DEF ErrorPairedWithCompletion
<1>1. CASE i \in 1..Len(log)
  <2>1. i < Len(log) /\ log[i + 1] = Event("completed", log[i].turn)
    BY <1>0, <1>1 DEF ErrorPairedWithCompletion
  <2>2. i + 1 \in 1..Len(log)
    BY <1>0, <1>1, <2>1
  <2> QED
    BY <1>0, <1>1, <2>1, <2>2
<1>2. CASE i \in (Len(log) + 1)..Len(log')
  BY <1>2 DEF LogGrows, Added
<1> QED
  BY <1>0, <1>1, <1>2


LEMMA RequestMoves ==
  ASSUME log \in Seq(Entry), [TurnNext]_turnVars
  PROVE  \/ inputRequest' \in {0, inputRequest}
         \/ /\ inputRequest' = Len(log')
            /\ log'[Len(log')].kind = "input_requested"
<1>1. CASE UNCHANGED turnVars \/ Heartbeat
  BY <1>1 DEF turnVars, sessionRow, Heartbeat
<1>2. ASSUME NEW t \in Turns, Accept(t)
      PROVE  inputRequest' = 0
  BY <1>2 DEF Accept
<1>3. ASSUME NEW t \in Turns, Preparation(t)
      PROVE  inputRequest' = inputRequest
  BY <1>3 DEF Preparation, Claim, RejectDefinition, Prepare, PrepareFails,
              CrossBoundary, Finish, sessionRow
<1>4. ASSUME NEW t \in Turns, AgentStep(t), ~RequestInput(t)
      PROVE  inputRequest' = inputRequest
  BY <1>4
  DEF AgentStep, Stream, NoteProcessingError, Raise, RaiseFlag, SaveReport,
      NoteTool, RefuseTool, LoseToolAnswer, sessionRow
<1>5. ASSUME NEW t \in Turns, RequestInput(t)
      PROVE  /\ inputRequest' = Len(log')
             /\ log'[Len(log')].kind = "input_requested"
  <2> DEFINE e == Event("input_requested", NoTurn)
  <2>1. e \in Entry /\ e.kind = "input_requested"
    BY EventType DEF Kinds
  <2>2. log' = Append(log, e) /\ inputRequest' = Len(log')
    BY <1>5 DEF RequestInput
  <2> HIDE DEF e
  <2> QED
    BY <2>1, <2>2, AppendProperties
<1>6. ASSUME NEW t \in Turns, Closing(t)
      PROVE  inputRequest' = inputRequest
  BY <1>6
  DEF Closing, FinalizeTurn, FinalizeRaises, Report, FencedOut, Crash,
      DeadlinePasses, Recover, Finish, sessionRow
<1> QED
  BY <1>1, <1>2, <1>3, <1>4, <1>5, <1>6 DEF TurnNext

LEMMA RequestStaysLatest ==
  ASSUME TurnIInv, LogGrows,
         \/ inputRequest' \in {0, inputRequest}
         \/ /\ inputRequest' = Len(log')
            /\ log'[Len(log')].kind = "input_requested"
  PROVE  RequestInLog' /\ PendingRequestIsLatest'
<1>0. /\ Len(log) \in Nat /\ Len(log') \in Nat /\ Len(log) <= Len(log')
      /\ inputRequest \in 0..Len(log)
      /\ \A i \in 1..Len(log) : log'[i] = log[i]
  BY DEF LogGrows, TurnIInv, Recorded, RequestInLog
<1>1. CASE inputRequest' = 0
  BY <1>0, <1>1 DEF RequestInLog, PendingRequestIsLatest
<1>2. CASE inputRequest' = inputRequest /\ inputRequest # 0
  <2>1. /\ log[inputRequest].kind = "input_requested"
        /\ \A i \in (inputRequest + 1)..Len(log) :
             log[i].kind \notin {"started", "input_requested"}
    BY <1>2 DEF TurnIInv, PendingRequestIsLatest
  <2>2. log'[inputRequest] = log[inputRequest]
    BY <1>0, <1>2
  <2>3. ASSUME NEW i \in (inputRequest + 1)..Len(log')
        PROVE  log'[i].kind \notin {"started", "input_requested"}
    <3>1. CASE i \in 1..Len(log)
      BY <1>0, <2>1, <3>1
    <3>2. CASE i \in (Len(log) + 1)..Len(log')
      BY <1>0, <1>2, <3>2 DEF LogGrows, Added
    <3> QED
      BY <1>0, <3>1, <3>2
  <2> QED
    BY <1>0, <1>2, <2>1, <2>2, <2>3 DEF RequestInLog, PendingRequestIsLatest
<1>3. CASE /\ inputRequest' = Len(log')
           /\ log'[Len(log')].kind = "input_requested"
  BY <1>0, <1>3 DEF RequestInLog, PendingRequestIsLatest
<1> QED
  BY <1>1, <1>2, <1>3

\* Only an accepted turn makes the session "running", and what ends its job
\* ends that too.
LEMMA StaysUnstuck ==
  ASSUME TurnIInv, JobStep, LogGrows
  PROVE  NeverStuckRunning'
<1> SUFFICES ASSUME status' = "running"
             PROVE  \E u \in Turns :
                      job'[u] \in {"waiting", "running"} /\ ~Completed(u)'
  BY DEF NeverStuckRunning
<1>0. JobTyped /\ log \in Seq(Entry)
  BY DEF TurnIInv, Recorded
<1>1. \A u \in Turns : ~Completed(u) => ~Completed(u)'
  BY <1>0, CompletionsGrow
<1>2. ASSUME NEW t \in Turns, Accept(t)
      PROVE  job'[t] \in {"waiting", "running"} /\ ~Completed(t)'
  <2>1. job[t] = "absent" /\ job'[t] = "waiting"
    BY <1>0, <1>2 DEF Accept, JobTyped
  <2> QED
    BY <1>1, <2>1 DEF TurnIInv, CompletionsKnown
<1>3. ASSUME status = "running"
      PROVE  \E u \in Turns : job[u] \in {"waiting", "running"} /\ ~Completed(u)
  BY <1>3 DEF TurnIInv, NeverStuckRunning
<1>4. CASE UNCHANGED <<job, attempts, reserved>> /\ status = "running"
  BY <1>1, <1>3, <1>4
<1>5. ASSUME NEW t \in Turns, Claim(t) \/ CrossBoundary(t)
      PROVE  \E u \in Turns :
               job'[u] \in {"waiting", "running"} /\ ~Completed(u)'
  <2>1. status = "running"
    BY <1>5 DEF Claim, CrossBoundary, sessionRow
  <2>2. PICK u \in Turns : job[u] \in {"waiting", "running"} /\ ~Completed(u)
    BY <1>3, <2>1
  <2>3. job'[u] \in {"waiting", "running"}
    BY <1>0, <1>5, <2>2 DEF Claim, CrossBoundary, JobTyped
  <2> QED
    BY <1>1, <2>2, <2>3
<1>6. ASSUME NEW t \in Turns, NEW outcome \in Outcomes, Finishes(t, outcome)
      PROVE  \E u \in Turns :
               job'[u] \in {"waiting", "running"} /\ ~Completed(u)'
  <2>1. PICK s \in {"waiting"} \cup Settled :
          /\ job' = [job EXCEPT ![t] = s]
          /\ ~Completed(t) => s = "waiting" \/ status' = "awaiting_user"
    BY <1>0, <1>6, FinishJobs
  <2>2. status' \in {status, "awaiting_user"}
    BY <1>0, <1>6, FinishJobs
  <2>3. PICK u \in Turns : job[u] \in {"waiting", "running"} /\ ~Completed(u)
    BY <1>3, <2>2
  <2>4. job'[u] \in {"waiting", "running"}
    BY <1>0, <2>1, <2>3 DEF JobTyped
  <2> QED
    BY <1>1, <2>3, <2>4
<1> QED
  BY <1>2, <1>3, <1>4, <1>5, <1>6 DEF JobStep

-----------------------------------------------------------------------------
(* The inductive invariant and the theorems. *)

LEMMA CompletionsStayKnown ==
  ASSUME TurnIInv, JobStep, RunsStep, LogGrows, JobTyped'
  PROVE  CompletionsKnown'
<1> SUFFICES ASSUME NEW u \in Turns
             PROVE  /\ job'[u] = "absent" => ~Completed(u)'
                    /\ run'[u].step = "returned" => Completed(u)'
  BY DEF CompletionsKnown
<1>0. JobTyped /\ log \in Seq(Entry) /\ CompletionsKnown
  BY DEF TurnIInv, Recorded
<1>1. job'[u] = "absent" => job[u] = "absent"
  <2>1. CASE UNCHANGED <<job, attempts, reserved>>
    BY <2>1
  <2>2. ASSUME NEW t \in Turns, Accept(t) \/ Claim(t) \/ CrossBoundary(t)
        PROVE  job'[u] = "absent" => job[u] = "absent"
    BY <1>0, <2>2 DEF Accept, Claim, CrossBoundary, JobTyped
  <2>3. ASSUME NEW t \in Turns, NEW outcome \in Outcomes, Finishes(t, outcome)
        PROVE  job'[u] = "absent" => job[u] = "absent"
    <3>1. PICK s \in {"waiting"} \cup Settled : job' = [job EXCEPT ![t] = s]
      BY <1>0, <2>3, FinishJobs
    <3> QED
      BY <1>0, <3>1 DEF JobTyped, Settled
  <2> QED
    BY <2>1, <2>2, <2>3 DEF JobStep
<1>2. job[u] = "absent" => ~Completed(u)'
  BY <1>0, CompletionsGrow DEF CompletionsKnown
<1>3. FinalizeTurn(u) => Completed(u)'
  <2> SUFFICES ASSUME FinalizeTurn(u)
               PROVE  Completed(u)'
    OBVIOUS
  <2>1. job[u] = "running" /\ Frozen(u) # "running"
    BY TerminalStatuses
    DEF FinalizeTurn, Ending, Fenced, Current, Frozen, TurnIInv, Execution
  <2>2. /\ AppendCompletion(u, Frozen(u), ProcessingError(u))
        /\ ProcessingError(u) \in BOOLEAN
    BY DEF FinalizeTurn, ProcessingError
  <2>3. log'[Len(log')] = Event("completed", u) /\ Len(log') > Len(log)
    BY <1>0, <2>1, <2>2, CompletionAdded
  <2>4. Len(log) \in Nat /\ Len(log') \in Nat /\ DOMAIN log' = 1..Len(log')
    BY <1>0 DEF LogGrows
  <2>5. Len(log') \in DOMAIN log'
    BY <2>3, <2>4
  <2> QED
    BY <2>3, <2>5 DEF Completed, Completions
<1>4. run[u].step = "returned" => Completed(u)'
  BY <1>0, CompletionsGrow DEF CompletionsKnown
<1> QED
  BY <1>1, <1>2, <1>3, <1>4 DEF RunsStep

LEMMA TurnInit == Init => TurnIInv
<1> SUFFICES ASSUME Init
             PROVE  TurnIInv
  OBVIOUS
<1>1. Recorded
  BY DEF Init, Recorded, NoFlags, ActiveFlags, Level
<1>2. JobTyped /\ run \in [Turns -> Execution]
  BY TurnAssumption, NoRunType DEF Init, JobTyped, TurnAssumption
<1>3. Unreserved
  BY DEF Init, Unreserved
<1>4. CompletionsKnown
  BY NoRunType DEF Init, CompletionsKnown, Completed, Completions
<1>5. RequestInLog /\ PendingRequestIsLatest
  BY DEF Init, RequestInLog, PendingRequestIsLatest
<1>6. ErrorPairedWithCompletion
  BY DEF Init, ErrorPairedWithCompletion
<1>7. NeverStuckRunning
  BY DEF Init, NeverStuckRunning
<1> QED
  BY <1>1, <1>2, <1>3, <1>4, <1>5, <1>6, <1>7 DEF TurnIInv


LEMMA TurnStep == TurnIInv /\ [TurnNext]_turnVars => TurnIInv'
<1> SUFFICES ASSUME TurnIInv, [TurnNext]_turnVars
             PROVE  TurnIInv'
  OBVIOUS
<1>0. Recorded /\ log \in Seq(Entry) /\ run \in [Turns -> Execution]
  BY DEF TurnIInv, Recorded
<1>1. NoneFrozenRunning
  BY <1>0 DEF NoneFrozenRunning, Execution
<1>2. LogGrows /\ FlagsRise
  BY <1>0, <1>1, StepGrows
<1>3. Recorded'
  BY <1>0, <1>2, MergedType DEF Recorded, LogGrows, FlagsRise
<1>4. RunsStep
  <2>1. CASE UNCHANGED turnVars \/ Heartbeat
    BY <1>0, <2>1, RunKept DEF turnVars, Heartbeat
  <2>2. ASSUME NEW t \in Turns, Accept(t)
        PROVE  RunsStep
    BY <1>0, <2>2, RunKept DEF Accept
  <2>3. ASSUME NEW t \in Turns, Preparation(t)
        PROVE  RunsStep
    BY <1>0, <2>3, PreparationRuns
  <2>4. ASSUME NEW t \in Turns, AgentStep(t)
        PROVE  RunsStep
    BY <1>0, <1>2, <2>4, AgentRuns DEF LogGrows
  <2>5. ASSUME NEW t \in Turns, Closing(t)
        PROVE  RunsStep
    BY <1>0, <2>5, ClosingRuns
  <2> QED
    BY <2>1, <2>2, <2>3, <2>4, <2>5 DEF TurnNext
<1>5. JobStep
  BY StepIsJobStep
<1>6. JobTyped' /\ Unreserved'
  BY <1>4, <1>5, JobsTyped, StaysUnreserved
<1>7. CompletionsKnown'
  BY <1>2, <1>4, <1>5, <1>6, CompletionsStayKnown
<1>8. RequestInLog' /\ PendingRequestIsLatest'
  BY <1>0, <1>2, RequestMoves, RequestStaysLatest
<1>9. ErrorPairedWithCompletion'
  BY <1>0, <1>2, ErrorsStayPaired DEF TurnIInv
<1>10. NeverStuckRunning'
  BY <1>2, <1>5, StaysUnstuck
<1> QED
  BY <1>3, <1>4, <1>6, <1>7, <1>8, <1>9, <1>10 DEF TurnIInv, RunsStep

\* The inductive invariant: the types of the log, the jobs and the executions,
\* what a job reserved before its boundary, which turns are completed, and the
\* three invariants below.
THEOREM TurnInvariant == TurnSpec => []TurnIInv
  BY TurnInit, TurnStep, PTL DEF TurnSpec

\* The processing error of a turn is followed at once by its completion,
\* whichever of process_turn, recovery and the job's outcome writes them.
THEOREM ErrorsPaired == TurnSpec => []ErrorPairedWithCompletion
<1>1. TurnIInv => ErrorPairedWithCompletion
  BY DEF TurnIInv
<1> QED
  BY <1>1, TurnInvariant, PTL

\* The input request a session shows is the last one asked, and no turn was
\* accepted after it.
THEOREM RequestLatest == TurnSpec => []PendingRequestIsLatest
<1>1. TurnIInv => PendingRequestIsLatest
  BY DEF TurnIInv
<1> QED
  BY <1>1, TurnInvariant, PTL

\* A session that says "running" has a turn that is not completed and a job
\* that is not settled: no order of turns, losses and recoveries leaves it
\* stuck.
THEOREM NeverStuck == TurnSpec => []NeverStuckRunning
<1>1. TurnIInv => NeverStuckRunning
  BY DEF TurnIInv
<1> QED
  BY <1>1, TurnInvariant, PTL

\* No step lowers the severity of an active flag, and a step that raises one
\* announces it in the log.
THEOREM SafetyRises == TurnSpec => SafetyOnlyRises
<1> DEFINE Rises ==
      \A c \in Codes :
        /\ Rank[flags'[c].severity] >= Rank[flags[c].severity]
        /\ Rank[flags'[c].severity] > Rank[flags[c].severity] =>
             \E i \in (Len(log) + 1)..Len(log') :
               log'[i].kind = "safety_escalated"
<1>1. TurnIInv /\ [TurnNext]_turnVars => Rises
  <2> SUFFICES ASSUME TurnIInv, [TurnNext]_turnVars, NEW c \in Codes
               PROVE  /\ Rank[flags'[c].severity] >= Rank[flags[c].severity]
                      /\ Rank[flags'[c].severity] > Rank[flags[c].severity] =>
                           \E i \in (Len(log) + 1)..Len(log') :
                             log'[i].kind = "safety_escalated"
    OBVIOUS
  <2>1. flags \in ActiveFlags /\ FlagsRise
    BY StepGrows DEF TurnIInv, Recorded, NoneFrozenRunning, Execution
  <2>2. flags[c].severity \in Severity \cup {"none"}
    BY <2>1 DEF ActiveFlags, Level
  <2>3. Rank[flags[c].severity] \in 0..4
    BY <2>2, RankType
  <2>4. CASE flags' = flags
    BY <2>3, <2>4
  <2>5. ASSUME NEW F \in SUBSET Flag, flags' = Merged(flags, F),
               Escalates(flags, flags') =>
                 \E i \in (Len(log) + 1)..Len(log') :
                   log'[i].kind = "safety_escalated"
        PROVE  /\ Rank[flags'[c].severity] >= Rank[flags[c].severity]
               /\ Rank[flags'[c].severity] > Rank[flags[c].severity] =>
                    \E i \in (Len(log) + 1)..Len(log') :
                      log'[i].kind = "safety_escalated"
    <3>1. Rank[flags[c].severity] <= Rank[flags'[c].severity]
      BY <2>1, <2>5, MergedRises
    <3>2. flags'[c].severity \in Severity \cup {"none"}
      BY <2>1, <2>5, MergedType DEF ActiveFlags, Level
    <3>3. Rank[flags'[c].severity] \in 0..4
      BY <3>2, RankType
    <3>4. Rank[flags'[c].severity] > Rank[flags[c].severity] =>
            Escalates(flags, flags')
      BY DEF Escalates
    <3> QED
      BY <2>3, <2>5, <3>1, <3>3, <3>4
  <2> QED
    BY <2>1, <2>4, <2>5 DEF FlagsRise
<1>2. [TurnNext]_turnVars /\ TurnIInv => [Rises]_turnVars
  BY <1>1
<1> QED
  BY <1>2, TurnInvariant, PTL DEF TurnSpec, SafetyOnlyRises

-----------------------------------------------------------------------------
(* The events of one turn. *)

\* What a tail of the log holds of a turn.
Written(u, tail) ==
  {<<Len(log) + k, tail[k].kind>> : k \in {j \in DOMAIN tail : tail[j].turn = u}}

LEMMA EventsAppended ==
  ASSUME log \in Seq(Entry), NEW tail \in Seq(Entry), log' = log \o tail, NEW u
  PROVE  EventsOf(u)' = EventsOf(u) \cup Written(u, tail)
<1>1. /\ Len(log) \in Nat /\ Len(tail) \in Nat
      /\ DOMAIN log = 1..Len(log) /\ DOMAIN tail = 1..Len(tail)
      /\ DOMAIN log' = 1..Len(log') /\ Len(log') = Len(log) + Len(tail)
      /\ \A i \in 1..Len(log) : log'[i] = log[i]
      /\ \A k \in 1..Len(tail) : log'[Len(log) + k] = tail[k]
  OBVIOUS
<1>2. ASSUME NEW p \in EventsOf(u)'
      PROVE  p \in EventsOf(u) \cup Written(u, tail)
  <2>1. PICK i \in DOMAIN log' : p = <<i, log'[i].kind>> /\ log'[i].turn = u
    BY <1>2 DEF EventsOf
  <2>2. CASE i <= Len(log)
    BY <1>1, <2>1, <2>2 DEF EventsOf
  <2>3. CASE i > Len(log)
    <3>1. i - Len(log) \in 1..Len(tail) /\ i = Len(log) + (i - Len(log))
      BY <1>1, <2>1, <2>3
    <3>2. PICK k \in 1..Len(tail) : i = Len(log) + k
      BY <3>1
    <3> QED
      BY <1>1, <2>1, <3>2 DEF Written
  <2> QED
    BY <1>1, <2>2, <2>3
<1>3. ASSUME NEW p \in EventsOf(u)
      PROVE  p \in EventsOf(u)'
  BY <1>1, <1>3 DEF EventsOf
<1>4. ASSUME NEW p \in Written(u, tail)
      PROVE  p \in EventsOf(u)'
  <2>1. PICK k \in DOMAIN tail :
          p = <<Len(log) + k, tail[k].kind>> /\ tail[k].turn = u
    BY <1>4 DEF Written
  <2>2. Len(log) + k \in DOMAIN log' /\ log'[Len(log) + k] = tail[k]
    BY <1>1
  <2> QED
    BY <2>1, <2>2 DEF EventsOf
<1> QED
  BY <1>2, <1>3, <1>4

\* What a turn's completion is preceded by, if an error explains it.
Closed(t, error) ==
  (IF error THEN <<Event("processing_error", t)>> ELSE <<>>)
  \o <<Event("completed", t)>>

\* The tail a step adds to the log: of no turn, or of the one turn it is about,
\* accepted, at work behind the fence, finalized, or closed with its job.
AllowedTail(tail) ==
  \/ \A k \in DOMAIN tail : tail[k].turn = NoTurn
  \/ \E t \in Turns :
       \/ Accept(t) /\ tail = <<Event("started", t)>>
       \/ /\ AgentStep(t) /\ Working(t)
          /\ \A k \in DOMAIN tail :
               tail[k].turn \in {t, NoTurn} /\ tail[k].kind # "completed"
       \/ /\ FinalizeTurn(t) \/ FinalizeRaises(t)
          /\ \E error \in BOOLEAN : tail = Closed(t, error)
       \/ /\ \E outcome \in Outcomes : Finishes(t, outcome)
          /\ ~Completed(t) /\ job'[t] \in {"interrupted", "dead"}
          /\ tail = Closed(t, TRUE)

StepWrites == \E tail \in Seq(Entry) : log' = log \o tail /\ AllowedTail(tail)

LEMMA NothingWritten ==
  ASSUME log \in Seq(Entry), log' = log
  PROVE  StepWrites
<1>1. <<>> \in Seq(Entry) /\ log' = log \o <<>> /\ DOMAIN <<>> = {}
  BY ConcatEmptySeq
<1> QED
  BY <1>1 DEF StepWrites, AllowedTail

LEMMA OneWritten ==
  ASSUME log \in Seq(Entry), NEW e \in Entry, log' = Append(log, e),
         AllowedTail(<<e>>)
  PROVE  StepWrites
<1>1. <<e>> \in Seq(Entry) /\ log' = log \o <<e>>
  OBVIOUS
<1> QED
  BY <1>1 DEF StepWrites

LEMMA OneTail ==
  ASSUME NEW e
  PROVE  DOMAIN <<e>> = {1} /\ <<e>>[1] = e
  OBVIOUS

LEMMA CompletionWritten ==
  ASSUME log \in Seq(Entry), NEW t \in Turns, NEW s, NEW error \in BOOLEAN,
         AppendCompletion(t, s, error), AllowedTail(Closed(t, error))
  PROVE  StepWrites
<1> DEFINE e == Event("processing_error", t)
           c == Event("completed", t)
<1>1. e \in Entry /\ c \in Entry
  BY EventType DEF Kinds
<1>2. log' = log \o (IF error THEN <<e>> ELSE <<>>) \o <<c>>
      /\ Closed(t, error) = (IF error THEN <<e>> ELSE <<>>) \o <<c>>
  BY DEF AppendCompletion, Closed
<1> HIDE DEF e, c
<1>3. /\ Closed(t, error) \in Seq(Entry)
      /\ log' = log \o Closed(t, error)
  <2>1. (IF error THEN <<e>> ELSE <<>>) \in Seq(Entry) /\ <<c>> \in Seq(Entry)
    BY <1>1
  <2>2. PICK a \in Seq(Entry) : a = IF error THEN <<e>> ELSE <<>>
    BY <2>1
  <2>3. log' = log \o a \o <<c>> /\ Closed(t, error) = a \o <<c>>
    BY <1>2, <2>2
  <2> QED
    BY <2>1, <2>3, ConcatAssociative, ConcatProperties
<1> QED
  BY <1>3 DEF StepWrites


LEMMA AgentWrites ==
  ASSUME TurnIInv, NEW t \in Turns, AgentStep(t)
  PROVE  StepWrites
<1>0. log \in Seq(Entry) /\ NoTurn \in Turns \cup {NoTurn}
  BY DEF TurnIInv, Recorded
<1>1. ASSUME NEW kind \in Kinds \ {"completed"}, NEW u \in {t, NoTurn},
             Working(t), log' = Append(log, Event(kind, u))
      PROVE  StepWrites
  <2> DEFINE e == Event(kind, u)
  <2>1. e \in Entry /\ e.kind # "completed" /\ e.turn \in {t, NoTurn}
    BY EventType
  <2> HIDE DEF e
  <2>2. \A k \in DOMAIN <<e>> :
          <<e>>[k].turn \in {t, NoTurn} /\ <<e>>[k].kind # "completed"
    BY <2>1, OneTail
  <2>3. AllowedTail(<<e>>)
    BY <1>1, <2>2 DEF AllowedTail
  <2> QED
    BY <1>0, <1>1, <2>1, <2>3, OneWritten DEF e
<1>2. ASSUME NEW u \in {t, NoTurn}, NEW s \in {<<>>, <<Event("report", u)>>},
             Working(t), log' = log \o Announcement(u) \o s
      PROVE  StepWrites
  <2> DEFINE a == Event("safety_escalated", u)
             r == Event("report", u)
  <2>1. /\ a \in Entry /\ a.kind # "completed" /\ a.turn \in {t, NoTurn}
        /\ r \in Entry /\ r.kind # "completed" /\ r.turn \in {t, NoTurn}
    BY EventType DEF Kinds
  <2>2. Announcement(u) \in {<<>>, <<a>>} /\ s \in {<<>>, <<r>>}
    BY DEF Announcement
  <2> HIDE DEF a, r
  <2>8. <<>> \in Seq(Entry) /\ <<a>> \in Seq(Entry) /\ <<r>> \in Seq(Entry)
    BY <2>1
  <2>9. Announcement(u) \in Seq(Entry) /\ s \in Seq(Entry)
    BY <2>2, <2>8
  <2>3. PICK x \in Seq(Entry) : x = Announcement(u) /\ x \in {<<>>, <<a>>}
    BY <2>2, <2>9
  <2>4. PICK y \in Seq(Entry) : y = s /\ y \in {<<>>, <<r>>}
    BY <2>2, <2>9
  <2>5. x \o y \in Seq(Entry) /\ log' = log \o (x \o y)
    <3>1. log' = (log \o x) \o y
      BY <1>2, <2>3, <2>4
    <3>2. log \in Seq(Entry)
      BY <1>0
    <3>3. (log \o x) \o y = log \o (x \o y)
      BY <3>2, ConcatAssociative, SMTT(30)
    <3>4. x \o y \in Seq(Entry)
      BY ConcatProperties, SMTT(30)
    <3> QED
      BY <3>1, <3>3, <3>4
  <2>6. \A k \in DOMAIN (x \o y) :
          (x \o y)[k].turn \in {t, NoTurn} /\ (x \o y)[k].kind # "completed"
    BY <2>1, <2>3, <2>4
  <2>7. AllowedTail(x \o y)
    BY <1>2, <2>6 DEF AllowedTail
  <2> QED
    BY <2>5, <2>7 DEF StepWrites
<1>3. CASE Stream(t)
  <2>1. Working(t)
    BY <1>3 DEF Stream
  <2>2. \/ log' = log
        \/ \E kind \in {"assistant", "error"} :
             log' = Append(log, Event(kind, t))
    BY <1>3 DEF Stream, AppendForSession
  <2> QED
    BY <1>0, <1>1, <2>1, <2>2, NothingWritten DEF Kinds
<1>4. CASE NoteProcessingError(t) \/ Raise(t) \/ NoteTool(t)
  BY <1>0, <1>4, NothingWritten
  DEF NoteProcessingError, Raise, NoteTool, sessionRow
<1>5. CASE RequestInput(t)
  BY <1>1, <1>5 DEF RequestInput, Kinds
<1>6. CASE RaiseFlag(t)
  <2>1. Working(t) /\ log' = log \o Announcement(NoTurn)
    BY <1>6 DEF RaiseFlag
  <2>2. log' = log \o Announcement(NoTurn) \o <<>>
    <3>1. Announcement(NoTurn) = <<>>
          \/ Announcement(NoTurn) = <<Event("safety_escalated", NoTurn)>>
      BY DEF Announcement
    <3>2. Event("safety_escalated", NoTurn) \in Entry
      BY EventType DEF Kinds
    <3>5. <<>> \in Seq(Entry) /\ <<Event("safety_escalated", NoTurn)>> \in Seq(Entry)
      BY <3>2
    <3>6. Announcement(NoTurn) \in Seq(Entry)
      BY <3>1, <3>5
    <3>3. PICK x \in Seq(Entry) : x = Announcement(NoTurn)
      BY <3>6
    <3>4. log \o x \in Seq(Entry)
      BY <1>0, ConcatProperties
    <3> QED
      BY <2>1, <3>3, <3>4, ConcatEmptySeq
  <2> QED
    BY <1>2, <2>1, <2>2
<1>7. CASE SaveReport(t)
  BY <1>2, <1>7 DEF SaveReport
<1>8. CASE RefuseTool(t) \/ LoseToolAnswer(t)
  BY <1>1, <1>8 DEF RefuseTool, LoseToolAnswer, ToolError, Kinds
<1> QED
  BY <1>3, <1>4, <1>5, <1>6, <1>7, <1>8 DEF AgentStep

\* A job that ends "interrupted" or "dead" closes its turn, which was not
\* completed; no other end of an execution writes to the log.
LEMMA FinishEnds ==
  ASSUME JobTyped, NEW t \in Turns, NEW outcome \in Outcomes,
         Finishes(t, outcome)
  PROVE  \/ /\ ~Completed(t)
            /\ job'[t] \in {"interrupted", "dead"}
            /\ job'[t] = "dead" => reserved[t] = 0
            /\ AppendCompletion(t, "awaiting_user", TRUE)
         \/ /\ job'[t] \in {"waiting", "succeeded"}
            /\ log' = log
<1> DEFINE requested == IF outcome = "retrying" /\ attempts[t] >= AttemptLimit
                        THEN "dead" ELSE outcome
           failing == requested \in {"interrupted", "dead"}
           s == CASE requested = "retrying" -> "waiting"
                  [] failing /\ Completed(t) -> "succeeded"
                  [] failing /\ ~Completed(t) /\ reserved[t] # 0 -> "interrupted"
                  [] OTHER -> requested
<1>1. job'[t] = s
  BY DEF Finishes, Finish, JobTyped
<1>2. requested \in {"succeeded", "interrupted", "dead", "retrying"}
  BY DEF Outcomes
<1>3. CASE failing /\ ~Completed(t)
  <2>1. AppendCompletion(t, "awaiting_user", TRUE)
    BY <1>3 DEF Finishes, Finish
  <2>2. s = IF reserved[t] # 0 THEN "interrupted" ELSE requested
    BY <1>3
  <2> QED
    BY <1>1, <1>3, <2>1, <2>2
<1>4. CASE ~(failing /\ ~Completed(t))
  <2>1. log' = log
    BY <1>4 DEF Finishes, Finish
  <2>2. s \in {"waiting", "succeeded"}
    BY <1>2, <1>4
  <2> QED
    BY <1>1, <2>1, <2>2
<1> QED
  BY <1>3, <1>4

LEMMA FinishWrites ==
  ASSUME TurnIInv, NEW t \in Turns, NEW outcome \in Outcomes,
         Finishes(t, outcome)
  PROVE  StepWrites
<1>0. log \in Seq(Entry)
  BY DEF TurnIInv, Recorded
<1>1. CASE log' = log
  BY <1>0, <1>1, NothingWritten
<1>2. CASE /\ ~Completed(t) /\ job'[t] \in {"interrupted", "dead"}
           /\ AppendCompletion(t, "awaiting_user", TRUE)
  <2>1. AllowedTail(Closed(t, TRUE))
    BY <1>2 DEF AllowedTail
  <2> QED
    BY <1>0, <1>2, <2>1, CompletionWritten
<1> QED
  BY <1>1, <1>2, FinishEnds DEF TurnIInv

LEMMA FinalizeWrites ==
  ASSUME TurnIInv, NEW t \in Turns, FinalizeTurn(t) \/ FinalizeRaises(t)
  PROVE  StepWrites
<1>0. log \in Seq(Entry) /\ ProcessingError(t) \in BOOLEAN
  BY DEF TurnIInv, Recorded, ProcessingError
<1>1. CASE log' = log
  BY <1>0, <1>1, NothingWritten
<1>2. CASE AppendCompletion(t, Frozen(t), ProcessingError(t))
  <2>1. AllowedTail(Closed(t, ProcessingError(t)))
    BY <1>0 DEF AllowedTail
  <2> QED
    BY <1>0, <1>2, <2>1, CompletionWritten
<1> QED
  BY <1>1, <1>2 DEF FinalizeTurn, FinalizeRaises

LEMMA EveryStepWrites ==
  ASSUME TurnIInv, [TurnNext]_turnVars
  PROVE  StepWrites
<1>0. log \in Seq(Entry) /\ JobTyped
  BY DEF TurnIInv, Recorded
<1>1. CASE UNCHANGED turnVars
  BY <1>0, <1>1, NothingWritten DEF turnVars, sessionRow
<1>2. CASE Heartbeat
  <2> DEFINE e == Event("heartbeat", NoTurn)
  <2>1. e \in Entry /\ e.turn = NoTurn /\ log' = Append(log, e)
    BY <1>2, EventType DEF Heartbeat, Kinds
  <2> HIDE DEF e
  <2>2. AllowedTail(<<e>>)
    BY <2>1, OneTail DEF AllowedTail
  <2> QED
    BY <1>0, <2>1, <2>2, OneWritten
<1>3. ASSUME NEW t \in Turns, Accept(t)
      PROVE  StepWrites
  <2>1. Event("started", t) \in Entry /\ log' = Append(log, Event("started", t))
    BY <1>3, EventType DEF Accept, Kinds
  <2>2. AllowedTail(<<Event("started", t)>>)
    BY <1>3 DEF AllowedTail
  <2> QED
    BY <1>0, <2>1, <2>2, OneWritten
<1>4. ASSUME NEW t \in Turns, Preparation(t)
      PROVE  StepWrites
  <2>1. CASE Claim(t) \/ Prepare(t) \/ CrossBoundary(t)
    BY <1>0, <2>1, NothingWritten DEF Claim, Prepare, CrossBoundary, sessionRow
  <2>2. CASE RejectDefinition(t)
    <3>1. Finishes(t, "dead")
      BY <2>2 DEF RejectDefinition, Finishes
    <3> QED
      BY <3>1, FinishWrites DEF Outcomes
  <2>3. CASE PrepareFails(t)
    <3>1. PICK outcome \in {"retrying", "dead"} : Finish(t, outcome)
      BY <2>3 DEF PrepareFails
    <3>2. job[t] = "running" /\ reserved[t] = 0
      BY <2>3 DEF PrepareFails, Current, TurnIInv, Unreserved
    <3>3. Finishes(t, outcome) /\ outcome \in Outcomes
      BY <3>1, <3>2 DEF Finishes, Outcomes
    <3> QED
      BY <3>3, FinishWrites
  <2> QED
    BY <1>4, <2>1, <2>2, <2>3 DEF Preparation
<1>5. ASSUME NEW t \in Turns, AgentStep(t)
      PROVE  StepWrites
  BY <1>5, AgentWrites
<1>6. ASSUME NEW t \in Turns, Closing(t)
      PROVE  StepWrites
  <2>1. CASE FinalizeTurn(t) \/ FinalizeRaises(t)
    BY <2>1, FinalizeWrites
  <2>2. CASE Report(t)
    <3>1. PICK outcome \in {"succeeded", "dead"} :
            /\ Finish(t, outcome)
            /\ outcome = "succeeded" => run[t].step = "returned"
      BY <2>2 DEF Report
    <3>2. Finishes(t, outcome) /\ outcome \in Outcomes
      BY <2>2, <3>1
      DEF Report, Current, Finishes, Outcomes, TurnIInv, CompletionsKnown
    <3> QED
      BY <3>2, FinishWrites
  <2>3. CASE Recover(t)
    <3>1. PICK outcome \in {"interrupted", "retrying"} :
            /\ Finish(t, outcome)
            /\ outcome = "retrying" => reserved[t] = 0
      BY <2>3 DEF Recover
    <3>2. Finishes(t, outcome) /\ outcome \in Outcomes
      BY <2>3, <3>1 DEF Recover, Finishes, Outcomes
    <3> QED
      BY <3>2, FinishWrites
  <2>4. CASE FencedOut(t) \/ Crash(t) \/ DeadlinePasses(t)
    BY <1>0, <2>4, NothingWritten DEF FencedOut, Crash, DeadlinePasses, sessionRow
  <2> QED
    BY <1>6, <2>1, <2>2, <2>3, <2>4 DEF Closing
<1> QED
  BY <1>1, <1>2, <1>3, <1>4, <1>5, <1>6 DEF TurnNext

\* What a step makes of one turn's events.
TurnEvents(u) ==
  \/ EventsOf(u)' = EventsOf(u)
  \/ /\ Accept(u)
     /\ EventsOf(u)' = EventsOf(u) \cup {<<Len(log) + 1, "started">>}
  \/ /\ AgentStep(u) /\ Working(u)
     /\ Completions(u)' = Completions(u)
  \/ /\ FinalizeTurn(u) \/ FinalizeRaises(u)
     /\ Completions(u)' = Completions(u) \cup {Len(log')}
  \/ /\ \E outcome \in Outcomes : Finishes(u, outcome)
     /\ ~Completed(u) /\ job'[u] \in {"interrupted", "dead"}
     /\ EventsOf(u)' = EventsOf(u) \cup {<<Len(log) + 1, "processing_error">>,
                                         <<Len(log) + 2, "completed">>}

LEMMA CompletionsOfEvents ==
  ASSUME log \in Seq(Entry), NEW t \in Turns
  PROVE  Completions(t) = {i \in DOMAIN log : <<i, "completed">> \in EventsOf(t)}
<1>1. \A i \in DOMAIN log : log[i] \in Entry
  OBVIOUS
<1>2. \A i \in DOMAIN log :
        log[i] = Event("completed", t) <=>
          log[i].kind = "completed" /\ log[i].turn = t
  BY <1>1 DEF Entry, Event
<1> QED
  BY <1>2 DEF Completions, EventsOf

LEMMA WrittenClosed ==
  ASSUME log \in Seq(Entry), NEW t \in Turns, NEW u \in Turns, NEW error \in BOOLEAN
  PROVE  /\ Closed(t, error) \in Seq(Entry)
         /\ u # t => Written(u, Closed(t, error)) = {}
         /\ Written(t, Closed(t, error)) =
              IF error THEN {<<Len(log) + 1, "processing_error">>,
                             <<Len(log) + 2, "completed">>}
              ELSE {<<Len(log) + 1, "completed">>}
         /\ Len(Closed(t, error)) = IF error THEN 2 ELSE 1
<1> DEFINE e == Event("processing_error", t)
           c == Event("completed", t)
<1>1. /\ e \in Entry /\ c \in Entry /\ e.turn = t /\ c.turn = t
      /\ e.kind = "processing_error" /\ c.kind = "completed"
  BY EventType DEF Kinds
<1>2. Closed(t, error) = (IF error THEN <<e>> ELSE <<>>) \o <<c>>
  BY DEF Closed
<1> HIDE DEF e, c
<1>3. CASE error
  <2>1. Closed(t, error) = <<e, c>>
    <3>1. /\ Closed(t, error) = <<e>> \o <<c>>
          /\ <<e>> \o <<c>> \in Seq(Entry) /\ <<e, c>> \in Seq(Entry)
      BY <1>1, <1>2, <1>3
    <3>2. /\ Len(<<e>> \o <<c>>) = 2 /\ Len(<<e, c>>) = 2
          /\ (<<e>> \o <<c>>)[1] = e /\ (<<e>> \o <<c>>)[2] = c
      BY <1>1
    <3>3. \A i \in 1..2 : (<<e>> \o <<c>>)[i] = <<e, c>>[i]
      BY <3>2
    <3> QED
      BY <3>1, <3>2, <3>3, SeqEqual
  <2>2. <<e, c>> \in Seq(Entry) /\ DOMAIN <<e, c>> = {1, 2} /\ Len(<<e, c>>) = 2
        /\ <<e, c>>[1] = e /\ <<e, c>>[2] = c
    BY <1>1
  <2>3. u # t => Written(u, <<e, c>>) = {}
    BY <1>1, <2>2 DEF Written
  <2>4. Written(t, <<e, c>>) = {<<Len(log) + 1, "processing_error">>,
                                <<Len(log) + 2, "completed">>}
    BY <1>1, <2>2 DEF Written
  <2> QED
    BY <1>3, <2>1, <2>2, <2>3, <2>4
<1>4. CASE ~error
  <2>1. Closed(t, error) = <<c>>
    <3>1. <<c>> \in Seq(Entry) /\ Closed(t, error) = <<>> \o <<c>>
      BY <1>1, <1>2, <1>4
    <3> QED
      BY <3>1, ConcatEmptySeq
  <2>2. <<c>> \in Seq(Entry) /\ DOMAIN <<c>> = {1} /\ Len(<<c>>) = 1 /\ <<c>>[1] = c
    BY <1>1
  <2>3. u # t => Written(u, <<c>>) = {}
    BY <1>1, <2>2 DEF Written
  <2>4. Written(t, <<c>>) = {<<Len(log) + 1, "completed">>}
    BY <1>1, <2>2 DEF Written
  <2> QED
    BY <1>4, <2>1, <2>2, <2>3, <2>4
<1> QED
  BY <1>3, <1>4

LEMMA StepTurnEvents ==
  ASSUME TurnIInv, StepWrites, NEW u \in Turns
  PROVE  TurnEvents(u)
<1>0. log \in Seq(Entry) /\ Len(log) \in Nat /\ NoTurn \notin Turns
  BY TurnAssumption DEF TurnIInv, Recorded, TurnAssumption
<1>1. PICK tail \in Seq(Entry) : log' = log \o tail /\ AllowedTail(tail)
  BY DEF StepWrites
<1>2. /\ EventsOf(u)' = EventsOf(u) \cup Written(u, tail)
      /\ log' \in Seq(Entry) /\ Len(log') = Len(log) + Len(tail)
      /\ \A i \in 1..Len(log) : log'[i] = log[i]
  BY <1>0, <1>1, EventsAppended
<1>3. /\ Completions(u) = {i \in DOMAIN log : <<i, "completed">> \in EventsOf(u)}
      /\ Completions(u)' = {i \in DOMAIN log' : <<i, "completed">> \in EventsOf(u)'}
  <2>1. Completions(u) = {i \in DOMAIN log : <<i, "completed">> \in EventsOf(u)}
    BY <1>0, CompletionsOfEvents
  <2>2. \A i \in DOMAIN log' : log'[i] \in Entry
    BY <1>2
  <2>3. \A i \in DOMAIN log' :
          log'[i] = Event("completed", u) <=>
            log'[i].kind = "completed" /\ log'[i].turn = u
    BY <2>2 DEF Entry, Event
  <2> QED
    BY <2>1, <2>3 DEF Completions, EventsOf
<1>4. \A i : <<i, "completed">> \in EventsOf(u) => i \in DOMAIN log
  BY DEF EventsOf
<1>5. ASSUME Written(u, tail) = {}
      PROVE  TurnEvents(u)
  BY <1>2, <1>5 DEF TurnEvents
<1>6. CASE \A k \in DOMAIN tail : tail[k].turn = NoTurn
  BY <1>0, <1>5, <1>6 DEF Written
<1>7. ASSUME NEW t \in Turns, Accept(t), tail = <<Event("started", t)>>
      PROVE  TurnEvents(u)
  <2> DEFINE e == Event("started", t)
  <2>1. e.turn = t /\ e.kind = "started" /\ tail = <<e>>
    BY <1>7, EventType DEF Kinds
  <2> HIDE DEF e
  <2>2. DOMAIN tail = {1} /\ tail[1] = e
    BY <2>1
  <2>3. CASE u # t
    BY <1>5, <2>1, <2>2, <2>3 DEF Written
  <2>4. CASE u = t
    <3>1. Written(u, tail) = {<<Len(log) + 1, "started">>}
      BY <2>1, <2>2, <2>4 DEF Written
    <3> QED
      BY <1>2, <1>7, <2>4, <3>1 DEF TurnEvents
  <2> QED
    BY <2>3, <2>4
<1>8. ASSUME NEW t \in Turns, AgentStep(t), Working(t),
             \A k \in DOMAIN tail :
               tail[k].turn \in {t, NoTurn} /\ tail[k].kind # "completed"
      PROVE  TurnEvents(u)
  <2>1. CASE u # t
    BY <1>0, <1>5, <1>8, <2>1 DEF Written
  <2>2. CASE u = t
    <3>1. \A i : <<i, "completed">> \notin Written(u, tail)
      BY <1>8 DEF Written
    <3>2. DOMAIN log = 1..Len(log) /\ DOMAIN log' = 1..Len(log') /\ Len(log') \in Nat
          /\ Len(log) <= Len(log')
      BY <1>0, <1>2
    <3>3. Completions(u)' = Completions(u)
      BY <1>2, <1>3, <1>4, <3>1, <3>2
    <3> QED
      BY <1>8, <2>2, <3>3 DEF TurnEvents
  <2> QED
    BY <2>1, <2>2
<1>9. ASSUME NEW t \in Turns, FinalizeTurn(t) \/ FinalizeRaises(t),
             NEW error \in BOOLEAN, tail = Closed(t, error)
      PROVE  TurnEvents(u)
  <2>1. CASE u # t
    BY <1>0, <1>5, <1>9, <2>1, WrittenClosed
  <2>2. CASE u = t
    <3> DEFINE n == Len(log')
    <3>1. /\ n \in Nat /\ Len(log) < n
          /\ \A i : <<i, "completed">> \in Written(u, tail) <=> i = n
      <4>1. CASE error
        <5>1. n = Len(log) + 2
          BY <1>0, <1>2, <1>9, <2>2, <4>1, WrittenClosed
        <5>2. Written(u, tail) = {<<Len(log) + 1, "processing_error">>,
                                  <<Len(log) + 2, "completed">>}
          BY <1>0, <1>9, <2>2, <4>1, WrittenClosed
        <5> HIDE DEF n
        <5> QED
          BY <1>0, <5>1, <5>2
      <4>2. CASE ~error
        <5>1. n = Len(log) + 1
          BY <1>0, <1>2, <1>9, <2>2, <4>2, WrittenClosed
        <5>2. Written(u, tail) = {<<Len(log) + 1, "completed">>}
          BY <1>0, <1>9, <2>2, <4>2, WrittenClosed
        <5> HIDE DEF n
        <5> QED
          BY <1>0, <5>1, <5>2
      <4> QED
        BY <4>1, <4>2
    <3>2. DOMAIN log = 1..Len(log) /\ DOMAIN log' = 1..n
      BY <1>0, <1>2
    <3> HIDE DEF n
    <3>3. Completions(u)' = Completions(u) \cup {n}
      BY <1>0, <1>2, <1>3, <1>4, <3>1, <3>2
    <3> QED
      BY <1>9, <2>2, <3>3 DEF TurnEvents, n
  <2> QED
    BY <2>1, <2>2
<1>10. ASSUME NEW t \in Turns, \E outcome \in Outcomes : Finishes(t, outcome),
              ~Completed(t), job'[t] \in {"interrupted", "dead"},
              tail = Closed(t, TRUE)
       PROVE  TurnEvents(u)
  <2>1. CASE u # t
    BY <1>0, <1>5, <1>10, <2>1, WrittenClosed
  <2>2. CASE u = t
    <3>1. Written(u, tail) = {<<Len(log) + 1, "processing_error">>,
                              <<Len(log) + 2, "completed">>}
      BY <1>0, <1>10, <2>2, WrittenClosed
    <3> QED
      BY <1>2, <1>10, <2>2, <3>1 DEF TurnEvents
  <2> QED
    BY <2>1, <2>2
<1> QED
  BY <1>1, <1>6, <1>7, <1>8, <1>9, <1>10 DEF AllowedTail

\* A settled turn's events are final: whoever writes to a turn's events first
\* finds its job unsettled.
THEOREM SettlementIsFinal == TurnSpec => NothingAfterSettlement
<1> DEFINE Final ==
      \A t \in Turns : job[t] \in Settled => EventsOf(t)' = EventsOf(t)
<1>1. TurnIInv /\ [TurnNext]_turnVars => Final
  <2> SUFFICES ASSUME TurnIInv, [TurnNext]_turnVars, NEW t \in Turns,
                      job[t] \in Settled
               PROVE  EventsOf(t)' = EventsOf(t)
    OBVIOUS
  <2>1. TurnEvents(t)
    BY EveryStepWrites, StepTurnEvents
  <2>2. job[t] \notin {"absent", "waiting", "running"}
    BY DEF Settled
  <2> QED
    BY <2>1, <2>2
    DEF TurnEvents, Accept, Working, FinalizeTurn, FinalizeRaises, Ending,
        Fenced, Current, Finishes
<1>2. TurnIInv /\ [TurnNext]_turnVars => [Final]_turnVars
  BY <1>1
<1> QED
  BY <1>2, TurnInvariant, PTL DEF TurnSpec, NothingAfterSettlement

-----------------------------------------------------------------------------
(* A turn before its boundary has only begun, and one that died was closed     *)
(* there.                                                                      *)

Begun(t) == \E i \in DOMAIN log : EventsOf(t) = {<<i, "started">>}

QuietBeforeBoundary ==
  \A t \in Turns :
    /\ job[t] = "absent" => EventsOf(t) = {}
    /\ job[t] \in {"waiting", "running"} /\ reserved[t] = 0 => Begun(t)
    /\ job[t] = "running" => attempts[t] # 0

\* What a step makes of one turn's job.
JobMoves(u) ==
  /\ job'[u] = "absent" => job[u] = "absent"
  /\ job'[u] \in {"waiting", "running"} =>
       Accept(u) \/ job[u] \in {"waiting", "running"}
  /\ job'[u] = "running" => job[u] = "running" \/ Claim(u)
  /\ job'[u] = "dead" =>
       \/ job[u] = "dead"
       \/ /\ \E outcome \in Outcomes : Finishes(u, outcome)
          /\ ~Completed(u) /\ reserved[u] = 0
          /\ AppendCompletion(u, "awaiting_user", TRUE)
  /\ attempts[u] # 0 => attempts'[u] # 0
  /\ Claim(u) => attempts'[u] # 0 /\ job[u] = "waiting"
  /\ Accept(u) => job[u] = "absent" /\ job'[u] = "waiting"
  /\ reserved[u] # 0 => reserved'[u] # 0

LEMMA StepJobMoves ==
  ASSUME TurnIInv, JobStep, NEW u \in Turns
  PROVE  JobMoves(u)
<1>0. /\ JobTyped /\ Unreserved
      /\ attempts[u] \in Nat /\ reserved[u] \in Nat
  BY TurnAssumption DEF TurnIInv, JobTyped, TurnAssumption
<1>1. Claim(u) => attempts'[u] # 0 /\ job[u] = "waiting"
  BY <1>0 DEF Claim, JobTyped
<1>2. Accept(u) => job[u] = "absent" /\ job'[u] = "waiting"
  BY <1>0 DEF Accept, JobTyped
<1>3. CASE UNCHANGED <<job, attempts, reserved>>
  BY <1>1, <1>2, <1>3 DEF JobMoves
<1>4. ASSUME NEW t \in Turns, Accept(t)
      PROVE  JobMoves(u)
  <2>1. job'[u] = IF u = t THEN "waiting" ELSE job[u]
    BY <1>0, <1>4 DEF Accept, JobTyped
  <2>2. attempts' = attempts /\ reserved' = reserved
    BY <1>4 DEF Accept
  <2> QED
    BY <1>1, <1>2, <1>4, <2>1, <2>2 DEF JobMoves
<1>5. ASSUME NEW t \in Turns, Claim(t)
      PROVE  JobMoves(u)
  <2>1. /\ job'[u] = IF u = t THEN "running" ELSE job[u]
        /\ attempts'[u] = IF u = t THEN attempts[u] + 1 ELSE attempts[u]
        /\ reserved' = reserved /\ job[t] = "waiting"
    BY <1>0, <1>5 DEF Claim, JobTyped
  <2> QED
    BY <1>0, <1>1, <1>2, <1>5, <2>1 DEF JobMoves
<1>6. ASSUME NEW t \in Turns, CrossBoundary(t)
      PROVE  JobMoves(u)
  <2>1. /\ job' = job /\ attempts' = attempts
        /\ reserved[t] = 0 /\ (u # t => reserved'[u] = reserved[u])
    BY <1>0, <1>6 DEF CrossBoundary, JobTyped
  <2> QED
    BY <1>0, <1>1, <1>2, <2>1 DEF JobMoves
<1>7. ASSUME NEW t \in Turns, NEW outcome \in Outcomes, Finishes(t, outcome)
      PROVE  JobMoves(u)
  <2>1. PICK s \in {"waiting"} \cup Settled :
          /\ job' = [job EXCEPT ![t] = s]
          /\ s = "waiting" => job[t] = "running"
    BY <1>0, <1>7, FinishJobs
  <2>2. attempts' = attempts /\ reserved' = reserved
    BY <1>0, <1>7, FinishJobs
  <2>3. job'[u] = IF u = t THEN s ELSE job[u]
    BY <1>0, <2>1 DEF JobTyped
  <2>4. job'[t] = "dead" =>
          /\ ~Completed(t) /\ reserved[t] = 0
          /\ AppendCompletion(t, "awaiting_user", TRUE)
    BY <1>0, <1>7, FinishEnds
  <2> QED
    BY <1>1, <1>2, <1>7, <2>1, <2>2, <2>3, <2>4 DEF JobMoves, Settled
<1> QED
  BY <1>3, <1>4, <1>5, <1>6, <1>7 DEF JobStep

LEMMA LogExtends ==
  ASSUME log \in Seq(Entry), LogGrows
  PROVE  /\ Len(log) \in Nat /\ Len(log') \in Nat /\ Len(log) <= Len(log')
         /\ DOMAIN log = 1..Len(log) /\ DOMAIN log' = 1..Len(log')
  BY DEF LogGrows

LEMMA StaysQuiet ==
  ASSUME TurnIInv, QuietBeforeBoundary, LogGrows, StepWrites, JobStep
  PROVE  QuietBeforeBoundary'
<1> SUFFICES ASSUME NEW u \in Turns
             PROVE  /\ job'[u] = "absent" => EventsOf(u)' = {}
                    /\ job'[u] \in {"waiting", "running"} /\ reserved'[u] = 0 =>
                         Begun(u)'
                    /\ job'[u] = "running" => attempts'[u] # 0
  BY DEF QuietBeforeBoundary
<1>0. TurnEvents(u) /\ JobMoves(u) /\ log \in Seq(Entry) /\ JobTyped
  BY StepTurnEvents, StepJobMoves DEF TurnIInv, Recorded
<1>1. Working(u) \/ Ending(u) => job[u] = "running" /\ reserved[u] # 0
  BY DEF Working, Ending, Fenced, Current, QuietBeforeBoundary
<1>2. FinalizeTurn(u) \/ FinalizeRaises(u) => Ending(u) /\ job' = job
  BY DEF FinalizeTurn, FinalizeRaises, jobRow
<1>3. AgentStep(u) => job' = job
  BY DEF AgentStep, Stream, NoteProcessingError, Raise, RequestInput, RaiseFlag,
         SaveReport, NoteTool, RefuseTool, LoseToolAnswer, jobRow
<1>4. job'[u] = "absent" => EventsOf(u)' = {}
  <2> SUFFICES ASSUME job'[u] = "absent"
               PROVE  EventsOf(u)' = {}
    OBVIOUS
  <2>1. job[u] = "absent" /\ EventsOf(u) = {}
    BY <1>0 DEF JobMoves, QuietBeforeBoundary
  <2>2. ~Accept(u) /\ \A outcome \in Outcomes : ~Finishes(u, outcome)
    BY <1>0, <2>1 DEF JobMoves, Finishes
  <2> QED
    BY <1>0, <1>1, <1>2, <2>1, <2>2 DEF TurnEvents
<1>5. job'[u] \in {"waiting", "running"} /\ reserved'[u] = 0 => Begun(u)'
  <2> SUFFICES ASSUME job'[u] \in {"waiting", "running"}, reserved'[u] = 0
               PROVE  Begun(u)'
    OBVIOUS
  <2>1. reserved[u] = 0
    BY <1>0 DEF JobMoves
  <2>2. CASE Accept(u)
    <3>1. EventsOf(u) = {}
      BY <1>0, <2>2 DEF JobMoves, QuietBeforeBoundary
    <3>2. log' = Append(log, Event("started", u))
      BY <2>2 DEF Accept
    <3>3. Event("started", u) \in Entry
      BY EventType DEF Kinds
    <3>4. Len(log') = Len(log) + 1 /\ Len(log) + 1 \in DOMAIN log'
      BY <1>0, <3>2, <3>3
    <3>5. \A outcome \in Outcomes : ~Finishes(u, outcome)
      BY <1>0, <2>2 DEF JobMoves, Finishes
    <3>6. EventsOf(u)' # EventsOf(u)
      <4>1. log'[Len(log) + 1] = Event("started", u)
        BY <1>0, <3>2, <3>3
      <4>2. <<Len(log) + 1, "started">> \in EventsOf(u)'
        BY <3>4, <4>1, EventType DEF EventsOf, Kinds
      <4> QED
        BY <3>1, <4>2
    <3>7. job[u] = "absent"
      BY <1>0, <2>2 DEF JobMoves
    <3>8. EventsOf(u)' = EventsOf(u) \cup {<<Len(log) + 1, "started">>}
      BY <1>0, <1>1, <1>2, <3>5, <3>6, <3>7 DEF TurnEvents
    <3> QED
      BY <3>1, <3>4, <3>8 DEF Begun
  <2>3. CASE ~Accept(u)
    <3>1. Begun(u)
      BY <1>0, <2>1, <2>3 DEF JobMoves, QuietBeforeBoundary
    <3>2. EventsOf(u)' = EventsOf(u)
      BY <1>0, <1>1, <1>2, <2>1, <2>3 DEF TurnEvents
    <3> QED
      BY <1>0, <3>1, <3>2, LogExtends DEF Begun
  <2> QED
    BY <2>2, <2>3
<1>6. job'[u] = "running" => attempts'[u] # 0
  BY <1>0 DEF JobMoves, QuietBeforeBoundary
<1> QED
  BY <1>4, <1>5, <1>6

LEMMA DeadStaysWithoutEffects ==
  ASSUME TurnIInv, QuietBeforeBoundary, DeadTurnHadNoEffects, LogGrows,
         StepWrites, JobStep
  PROVE  DeadTurnHadNoEffects'
<1> SUFFICES ASSUME NEW u \in Turns, job'[u] = "dead"
             PROVE  \E i, j \in DOMAIN log' :
                      /\ i < j
                      /\ EventsOf(u)' =
                           {<<i, "started">>, <<j, "processing_error">>,
                            <<j + 1, "completed">>}
  BY DEF DeadTurnHadNoEffects
<1>0. TurnEvents(u) /\ JobMoves(u) /\ log \in Seq(Entry) /\ JobTyped
  BY StepTurnEvents, StepJobMoves DEF TurnIInv, Recorded
<1>1. CASE job[u] = "dead"
  <2>1. EventsOf(u)' = EventsOf(u)
    BY <1>0, <1>1
    DEF TurnEvents, Accept, Working, FinalizeTurn, FinalizeRaises, Ending,
        Fenced, Current, Finishes
  <2>2. PICK i, j \in DOMAIN log :
          /\ i < j
          /\ EventsOf(u) = {<<i, "started">>, <<j, "processing_error">>,
                            <<j + 1, "completed">>}
    BY <1>1 DEF DeadTurnHadNoEffects
  <2> QED
    BY <1>0, <2>1, <2>2, LogExtends
<1>2. CASE /\ \E outcome \in Outcomes : Finishes(u, outcome)
           /\ ~Completed(u) /\ reserved[u] = 0
           /\ AppendCompletion(u, "awaiting_user", TRUE)
  <2>1. job[u] \in {"waiting", "running"}
    BY <1>2 DEF Finishes
  <2>2. PICK i \in DOMAIN log : EventsOf(u) = {<<i, "started">>}
    BY <1>2, <2>1 DEF QuietBeforeBoundary, Begun
  <2>3. /\ log' = log \o Closed(u, TRUE) /\ Closed(u, TRUE) \in Seq(Entry)
        /\ Len(Closed(u, TRUE)) = 2
        /\ Written(u, Closed(u, TRUE)) = {<<Len(log) + 1, "processing_error">>,
                                          <<Len(log) + 2, "completed">>}
    <3>1. Closed(u, TRUE) \in Seq(Entry)
      BY <1>0, WrittenClosed
    <3> DEFINE a == <<Event("processing_error", u)>>
               c == <<Event("completed", u)>>
    <3>2. a \in Seq(Entry) /\ c \in Seq(Entry)
      <4>1. /\ Event("processing_error", u) \in Entry
            /\ Event("completed", u) \in Entry
        BY EventType DEF Kinds
      <4> QED
        BY <4>1
    <3>3. log' = log \o a \o c /\ Closed(u, TRUE) = a \o c
      BY <1>2 DEF AppendCompletion, Closed
    <3> HIDE DEF a, c
    <3>4. log' = log \o Closed(u, TRUE)
      <4>1. (log \o a) \o c = log \o (a \o c)
        BY <1>0, <3>2, ConcatAssociative
      <4> QED
        BY <3>3, <4>1
    <3> QED
      BY <1>0, <3>1, <3>4, WrittenClosed
  <2>4. EventsOf(u)' = {<<i, "started">>} \cup
                         {<<Len(log) + 1, "processing_error">>,
                          <<Len(log) + 2, "completed">>}
    BY <1>0, <2>2, <2>3, EventsAppended
  <2>5. /\ i \in DOMAIN log' /\ Len(log) + 1 \in DOMAIN log'
        /\ i < Len(log) + 1 /\ Len(log) + 2 = (Len(log) + 1) + 1
    <3>1. Len(log') = Len(log) + 2
      <4>1. PICK tail \in Seq(Entry) : log' = log \o tail /\ Len(tail) = 2
        BY <2>3
      <4>2. Len(log \o tail) = Len(log) + Len(tail)
        BY <1>0, ConcatProperties
      <4> QED
        BY <4>1, <4>2
    <3>2. i \in 1..Len(log)
      BY <1>0, LogExtends
    <3> QED
      BY <1>0, <3>1, <3>2, LogExtends
  <2>6. EventsOf(u)' =
          {<<i, "started">>, <<Len(log) + 1, "processing_error">>,
           <<(Len(log) + 1) + 1, "completed">>}
    BY <2>4, <2>5
  <2> QED
    BY <2>5, <2>6
<1> QED
  BY <1>0, <1>1, <1>2 DEF JobMoves

-----------------------------------------------------------------------------
(* A turn completes once. *)

\* Who may still complete the turn: an execution at work has not, and one whose
\* commit raised has only if its commit took effect and lost its answer.
CompletesOnce ==
  \A t \in Turns :
    /\ run[t].step \in {"streaming", "raised"} => reserved[t] # 0
    /\ job[t] = "running" /\ run[t].step = "streaming" => ~Completed(t)
    /\ job[t] = "running" /\ run[t].step = "raised" =>
         Cardinality(Completions(t)) <=
           IF t \in faults.unanswered THEN 1 ELSE 0

\* What a step makes of one turn's execution.
RunMoves(u) ==
  /\ run'[u].step = "streaming" => run[u].step = "streaming" \/ CrossBoundary(u)
  /\ run'[u].step = "raised" => run[u].step \in {"streaming", "raised"}
  /\ FinalizeTurn(u) => run'[u].step = "returned"
  /\ FinalizeRaises(u) =>
       /\ run'[u].step = IF run[u].step = "streaming" THEN "raised" ELSE "failed"
       /\ run[u].step = "streaming" /\ log' # log => u \in faults'.unanswered
  /\ Claim(u) => run'[u].step = "claimed"
  /\ faults.unanswered \subseteq faults'.unanswered

LEMMA OthersRun ==
  ASSUME run \in [Turns -> Execution], NEW t \in Turns, NEW u \in Turns,
         Preparation(t) \/ AgentStep(t) \/ Closing(t), u # t
  PROVE  run'[u] = run[u]
<1>1. CASE Preparation(t)
  BY <1>1
  DEF Preparation, Claim, RejectDefinition, Prepare, PrepareFails, CrossBoundary
<1>2. CASE AgentStep(t)
  BY <1>2
  DEF AgentStep, Stream, AppendForSession, NoteProcessingError, Raise,
      RequestInput, RaiseFlag, SaveReport, ToolCommitted, NoteTool, RefuseTool,
      LoseToolAnswer, ToolError
<1>3. CASE Closing(t)
  BY <1>3
  DEF Closing, FinalizeTurn, FinalizeRaises, Report, FencedOut, Crash,
      DeadlinePasses, Recover
<1> QED
  BY <1>1, <1>2, <1>3

LEMMA StepFaults ==
  ASSUME [TurnNext]_turnVars
  PROVE  faults.unanswered \subseteq faults'.unanswered
<1>1. ASSUME Heartbeat \/ \E t \in Turns : Accept(t)
      PROVE  faults.unanswered \subseteq faults'.unanswered
  BY <1>1 DEF Heartbeat, Accept
<1>2. ASSUME NEW t \in Turns, Preparation(t)
      PROVE  faults.unanswered \subseteq faults'.unanswered
  BY <1>2 DEF Preparation, Claim, RejectDefinition, Prepare, PrepareFails,
              CrossBoundary
<1>3. ASSUME NEW t \in Turns, AgentStep(t)
      PROVE  faults.unanswered \subseteq faults'.unanswered
  BY <1>3 DEF AgentStep, Stream, NoteProcessingError, Raise, RequestInput,
              RaiseFlag, SaveReport, NoteTool, RefuseTool, LoseToolAnswer, Fault
<1>4. ASSUME NEW t \in Turns, Closing(t)
      PROVE  faults.unanswered \subseteq faults'.unanswered
  BY <1>4 DEF Closing, FinalizeTurn, FinalizeRaises, Report, FencedOut, Crash,
              DeadlinePasses, Recover, Fault
<1>5. CASE UNCHANGED turnVars
  BY <1>5 DEF turnVars
<1> QED
  BY <1>1, <1>2, <1>3, <1>4, <1>5 DEF TurnNext

LEMMA StepRunMoves ==
  ASSUME TurnIInv, [TurnNext]_turnVars, NEW u \in Turns
  PROVE  RunMoves(u)
<1>0. run \in [Turns -> Execution]
  BY DEF TurnIInv
<1>1. FinalizeTurn(u) => run'[u].step = "returned"
  BY <1>0, NoRunType DEF FinalizeTurn
<1>2. FinalizeRaises(u) =>
        /\ run'[u].step = IF run[u].step = "streaming" THEN "raised" ELSE "failed"
        /\ run[u].step = "streaming" /\ log' # log => u \in faults'.unanswered
  <2> SUFFICES ASSUME FinalizeRaises(u)
               PROVE  /\ run'[u].step = IF run[u].step = "streaming" THEN "raised"
                                        ELSE "failed"
                      /\ run[u].step = "streaming" /\ log' # log =>
                           u \in faults'.unanswered
    OBVIOUS
  <2>1. run[u].step = "streaming" /\ log' # log => u \in faults'.unanswered
    BY DEF FinalizeRaises, Fault
  <2>2. run'[u] = IF run[u].step = "streaming"
                  THEN Raising([run[u] EXCEPT !.frozen = Frozen(u)], "commit")
                  ELSE [NoRun EXCEPT !.step = "failed"]
    BY <1>0 DEF FinalizeRaises
  <2>3. Raising([run[u] EXCEPT !.frozen = Frozen(u)], "commit").step = "raised"
    BY DEF Raising, NoRun
  <2> QED
    BY <2>1, <2>2, <2>3, NoRunType
<1>3. Claim(u) => run'[u].step = "claimed"
  BY <1>0, NoRunType DEF Claim
<1>4. faults.unanswered \subseteq faults'.unanswered
  BY StepFaults
<1> DEFINE Moves ==
      /\ run'[u].step = "streaming" =>
           run[u].step = "streaming" \/ CrossBoundary(u)
      /\ run'[u].step = "raised" => run[u].step \in {"streaming", "raised"}
<1>5. ASSUME run' = run
      PROVE  Moves
  BY <1>5
<1>6. ASSUME Preparation(u)
      PROVE  Moves
  <2>1. CASE Claim(u)
    BY <1>0, <2>1, NoRunType DEF Claim
  <2>2. CASE RejectDefinition(u)
    BY <2>2 DEF RejectDefinition
  <2>3. CASE Prepare(u)
    BY <1>0, <2>3 DEF Prepare, Execution
  <2>4. CASE PrepareFails(u)
    BY <1>0, <2>4, NoRunType DEF PrepareFails
  <2>5. CASE CrossBoundary(u)
    BY <1>0, <2>5 DEF CrossBoundary, Execution
  <2> QED
    BY <1>6, <2>1, <2>2, <2>3, <2>4, <2>5 DEF Preparation
<1>7. ASSUME AgentStep(u)
      PROVE  Moves
  <2>1. run[u].step = "streaming"
    BY <1>7
    DEF AgentStep, Stream, NoteProcessingError, Raise, RequestInput, RaiseFlag,
        SaveReport, NoteTool, RefuseTool, LoseToolAnswer, Working
  <2> QED
    BY <2>1
<1>8. ASSUME Closing(u)
      PROVE  Moves
  <2>1. CASE FinalizeTurn(u)
    BY <1>1, <2>1
  <2>2. CASE FinalizeRaises(u)
    <3>1. run[u].step \in {"streaming", "raised"}
      BY <2>2 DEF FinalizeRaises, Ending
    <3> QED
      BY <1>2, <2>2, <3>1
  <2>3. CASE Report(u) \/ FencedOut(u) \/ Crash(u)
    BY <1>0, <2>3, NoRunType DEF Report, FencedOut, Crash
  <2>4. CASE DeadlinePasses(u) \/ Recover(u)
    BY <2>4 DEF DeadlinePasses, Recover
  <2> QED
    BY <1>8, <2>1, <2>2, <2>3, <2>4 DEF Closing
<1>9. Moves
  <2>1. CASE UNCHANGED turnVars \/ Heartbeat \/ \E t \in Turns : Accept(t)
    BY <1>5, <2>1 DEF turnVars, Heartbeat, Accept
  <2>2. ASSUME NEW t \in Turns, Preparation(t) \/ AgentStep(t) \/ Closing(t)
        PROVE  Moves
    <3>1. CASE u # t
      BY <1>0, <2>2, <3>1, OthersRun
    <3>2. CASE u = t
      BY <1>6, <1>7, <1>8, <2>2, <3>2
    <3> QED
      BY <3>1, <3>2
  <2> QED
    BY <2>1, <2>2 DEF TurnNext
<1> QED
  BY <1>1, <1>2, <1>3, <1>4, <1>9 DEF RunMoves

LEMMA CompletionsFinite ==
  ASSUME log \in Seq(Entry), NEW t \in Turns
  PROVE  IsFiniteSet(Completions(t)) /\ Cardinality(Completions(t)) \in Nat
<1>1. IsFiniteSet(1..Len(log)) /\ DOMAIN log = 1..Len(log)
  BY FS_Interval
<1>2. Completions(t) \in SUBSET (1..Len(log))
  BY <1>1 DEF Completions
<1> QED
  BY <1>1, <1>2, FS_Subset, FS_CardinalityType

\* How many completions a step leaves: as many as there were, or one more.
LEMMA CompletionsCounted ==
  ASSUME TurnIInv, LogGrows, StepWrites, NEW u \in Turns
  PROVE  LET n == Cardinality(Completions(u))
             m == Cardinality(Completions(u)')
         IN /\ n \in Nat /\ m \in Nat
            /\ n = 0 <=> ~Completed(u)
            /\ m = 0 <=> ~Completed(u)'
            /\ \/ m = n
               \/ /\ FinalizeTurn(u) \/ FinalizeRaises(u)
                  /\ m <= n + 1
               \/ /\ \E outcome \in Outcomes : Finishes(u, outcome)
                  /\ ~Completed(u) /\ job'[u] \in {"interrupted", "dead"}
                  /\ m <= 1
<1>0. log \in Seq(Entry) /\ log' \in Seq(Entry) /\ TurnEvents(u)
  BY StepTurnEvents DEF TurnIInv, Recorded, LogGrows
<1> DEFINE A == Completions(u)
           B == Completions(u)'
<1>1. IsFiniteSet(A) /\ Cardinality(A) \in Nat
  BY <1>0, CompletionsFinite
<1>2. IsFiniteSet(B) /\ Cardinality(B) \in Nat
  <2>1. IsFiniteSet(1..Len(log')) /\ DOMAIN log' = 1..Len(log')
    BY <1>0, FS_Interval
  <2>2. B \in SUBSET (1..Len(log'))
    BY <2>1 DEF Completions
  <2> QED
    BY <2>1, <2>2, FS_Subset, FS_CardinalityType
<1>3. (Cardinality(A) = 0 <=> A = {}) /\ (Cardinality(B) = 0 <=> B = {})
  BY <1>1, <1>2, FS_EmptySet
<1>4. (A # {} <=> Completed(u)) /\ (B # {} <=> Completed(u)')
  BY DEF Completed
<1>5. /\ A = {i \in DOMAIN log : <<i, "completed">> \in EventsOf(u)}
      /\ B = {i \in DOMAIN log' : <<i, "completed">> \in EventsOf(u)'}
  <2>1. A = {i \in DOMAIN log : <<i, "completed">> \in EventsOf(u)}
    BY <1>0, CompletionsOfEvents
  <2>2. \A i \in DOMAIN log' : log'[i] \in Entry
    BY <1>0
  <2>3. \A i \in DOMAIN log' :
          log'[i] = Event("completed", u) <=>
            log'[i].kind = "completed" /\ log'[i].turn = u
    BY <2>2 DEF Entry, Event
  <2> QED
    BY <2>1, <2>3 DEF Completions, EventsOf
<1>6. \A i : <<i, "completed">> \in EventsOf(u) => i \in DOMAIN log
  BY DEF EventsOf
<1>7. DOMAIN log \subseteq DOMAIN log'
  BY <1>0, LogExtends
<1>8. CASE EventsOf(u)' = EventsOf(u) \/ Accept(u)
  <2>1. \A i : <<i, "completed">> \in EventsOf(u)' <=> <<i, "completed">> \in EventsOf(u)
    BY <1>0, <1>8
    DEF TurnEvents, Accept, Working, FinalizeTurn, FinalizeRaises, Ending, Fenced,
        Current, Finishes
  <2>2. B = A
    BY <1>5, <1>6, <1>7, <2>1
  <2> QED
    BY <1>1, <1>2, <1>3, <1>4, <2>2
<1>9. CASE B = A
  BY <1>1, <1>2, <1>3, <1>4, <1>9
<1>10. ASSUME FinalizeTurn(u) \/ FinalizeRaises(u), NEW i, B = A \cup {i}
       PROVE  Cardinality(B) <= Cardinality(A) + 1
  BY <1>1, <1>10, FS_AddElement
<1>11. ASSUME NEW i, \E outcome \in Outcomes : Finishes(u, outcome), ~Completed(u),
              EventsOf(u)' = EventsOf(u) \cup {<<Len(log) + 1, "processing_error">>,
                                              <<i, "completed">>}
       PROVE  Cardinality(B) <= 1
  <2>1. B \subseteq {i}
    BY <1>4, <1>5, <1>6, <1>11
  <2>2. IsFiniteSet({i}) /\ Cardinality({i}) = 1
    BY FS_Singleton
  <2> QED
    BY <1>2, <2>1, <2>2, FS_Subset
<1> HIDE DEF A, B
<1> QED
  BY <1>0, <1>1, <1>2, <1>3, <1>4, <1>8, <1>9, <1>10, <1>11 DEF TurnEvents, A, B

LEMMA StaysOnce ==
  ASSUME TurnIInv, QuietBeforeBoundary, CompletesOnce,
         OneCompletionUnlessCommitLost, LogGrows, StepWrites,
         JobStep, \A u \in Turns : RunMoves(u)
  PROVE  CompletesOnce' /\ OneCompletionUnlessCommitLost'
<1> SUFFICES ASSUME NEW u \in Turns
             PROVE  /\ run'[u].step \in {"streaming", "raised"} => reserved'[u] # 0
                    /\ job'[u] = "running" /\ run'[u].step = "streaming" =>
                         ~Completed(u)'
                    /\ job'[u] = "running" /\ run'[u].step = "raised" =>
                         Cardinality(Completions(u)') <=
                           IF u \in faults'.unanswered THEN 1 ELSE 0
                    /\ Cardinality(Completions(u)') <=
                         IF u \in faults'.unanswered THEN 2 ELSE 1
  BY DEF CompletesOnce, OneCompletionUnlessCommitLost
<1> DEFINE n == Cardinality(Completions(u))
           m == Cardinality(Completions(u)')
<1>0. RunMoves(u) /\ JobMoves(u) /\ JobTyped
  BY StepJobMoves DEF TurnIInv
<1>1. /\ n \in Nat /\ m \in Nat
      /\ n = 0 <=> ~Completed(u)
      /\ m = 0 <=> ~Completed(u)'
      /\ \/ m = n
         \/ /\ FinalizeTurn(u) \/ FinalizeRaises(u)
            /\ m <= n + 1
         \/ /\ \E outcome \in Outcomes : Finishes(u, outcome)
            /\ n = 0 /\ job'[u] \in {"interrupted", "dead"}
            /\ m <= 1
  BY CompletionsCounted
<1>2. /\ run[u].step \in {"streaming", "raised"} => reserved[u] # 0
      /\ job[u] = "running" /\ run[u].step = "streaming" => n = 0
      /\ job[u] = "running" /\ run[u].step = "raised" =>
           n <= IF u \in faults.unanswered THEN 1 ELSE 0
      /\ n <= IF u \in faults.unanswered THEN 2 ELSE 1
  BY <1>1 DEF CompletesOnce, OneCompletionUnlessCommitLost
<1>3. u \in faults.unanswered => u \in faults'.unanswered
  BY <1>0 DEF RunMoves
<1>4. FinalizeTurn(u) \/ FinalizeRaises(u) =>
        job[u] = "running" /\ run[u].step \in {"streaming", "raised"}
  BY DEF FinalizeTurn, FinalizeRaises, Ending, Fenced, Current
<1>5. CrossBoundary(u) =>
        /\ reserved'[u] # 0 /\ n = 0 /\ m = n
        /\ run[u].step = "prepared"
  <2> SUFFICES ASSUME CrossBoundary(u)
               PROVE  /\ reserved'[u] # 0 /\ n = 0 /\ m = n
                      /\ run[u].step = "prepared"
    OBVIOUS
  <2>1. /\ run[u].step = "prepared" /\ job[u] = "running" /\ reserved[u] = 0
        /\ reserved' = [reserved EXCEPT ![u] = attempts[u]] /\ log' = log
    BY DEF CrossBoundary, Current, sessionRow
  <2>2. attempts[u] # 0 /\ Begun(u)
    BY <2>1 DEF QuietBeforeBoundary
  <2>3. reserved'[u] # 0
    BY <1>0, <2>1, <2>2 DEF JobTyped
  <2>4. Completions(u) = {}
    BY <2>2, CompletionsOfEvents DEF Begun, TurnIInv, Recorded
  <2>5. Completions(u)' = Completions(u)
    BY <2>1 DEF Completions
  <2>6. n = 0 /\ m = n
    BY <1>1, <2>4, <2>5 DEF Completed
  <2> QED
    BY <2>1, <2>3, <2>6
<1>6. run'[u].step \in {"streaming", "raised"} => reserved'[u] # 0
  BY <1>0, <1>2, <1>5 DEF RunMoves, JobMoves
<1> HIDE DEF n, m
<1>7. ASSUME job'[u] = "running", run'[u].step = "streaming"
      PROVE  m = 0
  <2>1. CASE CrossBoundary(u)
    BY <1>5, <2>1
  <2>2. CASE run[u].step = "streaming" /\ ~Claim(u)
    <3>1. n = 0
      BY <1>0, <1>2, <1>7, <2>2 DEF JobMoves
    <3>2. ~FinalizeTurn(u) /\ ~FinalizeRaises(u)
      BY <1>0, <1>7, <2>2 DEF RunMoves
    <3> QED
      BY <1>1, <1>7, <3>1, <3>2
  <2>3. ~Claim(u)
    BY <1>0, <1>7 DEF RunMoves
  <2> QED
    BY <1>0, <1>7, <2>1, <2>2, <2>3 DEF RunMoves
<1>8. ASSUME job'[u] = "running", run'[u].step = "raised"
      PROVE  m <= IF u \in faults'.unanswered THEN 1 ELSE 0
  <2>1. job[u] = "running"
    BY <1>0, <1>8 DEF RunMoves, JobMoves
  <2>2. CASE run[u].step = "streaming"
    <3>1. n = 0
      BY <1>2, <2>1, <2>2
    <3>2. CASE FinalizeRaises(u)
      <4>1. CASE log' = log
        <5>1. m = n
          BY <4>1 DEF Completions, n, m
        <5> QED
          BY <1>1, <3>1, <5>1
      <4>2. CASE log' # log
        <5>1. u \in faults'.unanswered
          BY <1>0, <2>2, <3>2, <4>2 DEF RunMoves
        <5>2. m <= 1
          BY <1>1, <1>8, <3>1
        <5> QED
          BY <1>1, <5>1, <5>2
      <4> QED
        BY <4>1, <4>2
    <3>3. CASE ~FinalizeRaises(u)
      BY <1>0, <1>1, <1>3, <1>8, <3>1, <3>3 DEF RunMoves
    <3> QED
      BY <3>2, <3>3
  <2>3. CASE run[u].step = "raised"
    <3>1. ~FinalizeTurn(u) /\ ~FinalizeRaises(u)
      BY <1>0, <1>8, <2>3 DEF RunMoves
    <3>2. m = n
      BY <1>1, <1>8, <3>1
    <3> QED
      BY <1>1, <1>2, <1>3, <2>1, <2>3, <3>2
  <2> QED
    BY <1>0, <1>8, <2>2, <2>3 DEF RunMoves
<1>9. m <= IF u \in faults'.unanswered THEN 2 ELSE 1
  <2>1. CASE m = n
    BY <1>1, <1>2, <1>3, <2>1
  <2>2. CASE m <= n + 1 /\ (FinalizeTurn(u) \/ FinalizeRaises(u))
    <3>1. n <= IF u \in faults.unanswered THEN 1 ELSE 0
      BY <1>1, <1>2, <1>4, <2>2
    <3> QED
      BY <1>1, <1>3, <2>2, <3>1
  <2>3. CASE m <= 1
    BY <1>1, <1>3, <2>3
  <2> QED
    BY <1>1, <2>1, <2>2, <2>3
<1> QED
  BY <1>1, <1>6, <1>7, <1>8, <1>9 DEF n, m

\* What the two theorems below need beside TurnIInv.
EndIInv ==
  /\ QuietBeforeBoundary
  /\ DeadTurnHadNoEffects
  /\ CompletesOnce
  /\ OneCompletionUnlessCommitLost

LEMMA EndInit == Init => EndIInv
<1> SUFFICES ASSUME Init
             PROVE  EndIInv
  OBVIOUS
<1>1. \A t \in Turns : EventsOf(t) = {} /\ Completions(t) = {}
  BY DEF Init, EventsOf, Completions
<1>2. QuietBeforeBoundary /\ DeadTurnHadNoEffects
  BY <1>1 DEF Init, QuietBeforeBoundary, DeadTurnHadNoEffects
<1>3. \A t \in Turns : job[t] = "absent" /\ run[t].step = "none"
  BY NoRunType DEF Init
<1>4. CompletesOnce
  BY <1>3 DEF CompletesOnce
<1>5. OneCompletionUnlessCommitLost
  BY <1>1, FS_EmptySet DEF OneCompletionUnlessCommitLost
<1> QED
  BY <1>2, <1>4, <1>5 DEF EndIInv

THEOREM EndInvariant == TurnSpec => []EndIInv
<1>1. TurnIInv /\ EndIInv /\ [TurnNext]_turnVars => EndIInv'
  <2> SUFFICES ASSUME TurnIInv, EndIInv, [TurnNext]_turnVars
               PROVE  EndIInv'
    OBVIOUS
  <2>1. LogGrows /\ StepWrites /\ JobStep
    BY StepGrows, EveryStepWrites, StepIsJobStep
    DEF TurnIInv, NoneFrozenRunning, Execution
  <2>2. \A u \in Turns : RunMoves(u)
    BY StepRunMoves
  <2>4. QuietBeforeBoundary' /\ DeadTurnHadNoEffects'
    BY <2>1, StaysQuiet, DeadStaysWithoutEffects DEF EndIInv
  <2>5. CompletesOnce' /\ OneCompletionUnlessCommitLost'
    BY <2>1, <2>2, StaysOnce DEF EndIInv
  <2> QED
    BY <2>4, <2>5 DEF EndIInv
<1> QED
  BY <1>1, EndInit, TurnInvariant, PTL DEF TurnSpec

\* A turn whose job is "dead" holds its beginning, its error and its completion
\* and nothing else: the user may submit it again.
THEOREM DeadHadNoEffects == TurnSpec => []DeadTurnHadNoEffects
<1>1. EndIInv => DeadTurnHadNoEffects
  BY DEF EndIInv
<1> QED
  BY <1>1, EndInvariant, PTL

\* However executions are lost, retried and recovered, a turn completes once; only
\* one whose own completion was committed and reported as failed completes twice.
THEOREM CompletedOnce == TurnSpec => []OneCompletionUnlessCommitLost
<1>1. EndIInv => OneCompletionUnlessCommitLost
  BY DEF EndIInv
<1> QED
  BY <1>1, EndInvariant, PTL

-----------------------------------------------------------------------------
(* The refinement. *)

LEMMA PhaseOfUpdate ==
  ASSUME JobTyped, NEW t \in Turns, NEW s, job' = [job EXCEPT ![t] = s]
  PROVE  phaseOf' = [phaseOf EXCEPT ![t] = Phase(s)]
  BY DEF phaseOf, JobTyped

LEMMA PhaseValues ==
  /\ Phase("absent") = "unknown" /\ Phase("waiting") = "accepted"
  /\ Phase("running") = "executing"
  /\ \A s \in Settled : Phase(s) = "settled"
  BY DEF Phase, Settled

LEMMA JobStepRefines ==
  ASSUME TurnIInv, JobStep
  PROVE  Durable!Next \/ UNCHANGED Durable!durableVars
<1>0. JobTyped /\ Unreserved /\ \A t \in Turns : phaseOf[t] = Phase(job[t])
  BY DEF TurnIInv, phaseOf
<1>1. CASE UNCHANGED <<job, attempts, reserved>>
  BY <1>1 DEF phaseOf, Durable!durableVars
<1>2. ASSUME NEW t \in Turns, Accept(t)
      PROVE  Durable!Accept(t)
  <2>1. job[t] = "absent" /\ job' = [job EXCEPT ![t] = "waiting"]
        /\ UNCHANGED <<attempts, reserved>>
    BY <1>2 DEF Accept
  <2>2. phaseOf' = [phaseOf EXCEPT ![t] = "accepted"]
    <3>1. JobTyped /\ job' = [job EXCEPT ![t] = "waiting"]
      BY <1>0, <2>1
    <3>2. phaseOf' = [phaseOf EXCEPT ![t] = Phase("waiting")]
      BY <3>1, PhaseOfUpdate
    <3> QED
      BY <3>2, PhaseValues
  <2>3. phaseOf[t] = "unknown"
    BY <1>0, <2>1, PhaseValues
  <2> QED
    BY <2>1, <2>2, <2>3 DEF Durable!Accept
<1>3. ASSUME NEW t \in Turns, Claim(t)
      PROVE  Durable!Start(t)
  <2>1. /\ job[t] = "waiting" /\ attempts[t] < AttemptLimit
        /\ job' = [job EXCEPT ![t] = "running"]
        /\ attempts' = [attempts EXCEPT ![t] = @ + 1]
        /\ UNCHANGED reserved
    BY <1>3 DEF Claim
  <2>2. phaseOf' = [phaseOf EXCEPT ![t] = "executing"]
    <3>1. JobTyped /\ job' = [job EXCEPT ![t] = "running"]
      BY <1>0, <2>1
    <3>2. phaseOf' = [phaseOf EXCEPT ![t] = Phase("running")]
      BY <3>1, PhaseOfUpdate
    <3> QED
      BY <3>2, PhaseValues
  <2>3. phaseOf[t] = "accepted" /\ reserved[t] = 0
    BY <1>0, <2>1, PhaseValues DEF Unreserved
  <2> QED
    BY <2>1, <2>2, <2>3 DEF Durable!Start
<1>4. ASSUME NEW t \in Turns, CrossBoundary(t)
      PROVE  Durable!Reserve(t)
  BY <1>0, <1>4, PhaseValues
  DEF CrossBoundary, Current, phaseOf, Durable!Reserve
<1>5. ASSUME NEW t \in Turns, NEW outcome \in Outcomes, Finishes(t, outcome)
      PROVE  Durable!Retry(t) \/ Durable!Settle(t)
  <2>1. PICK s \in {"waiting"} \cup Settled :
          /\ job' = [job EXCEPT ![t] = s]
          /\ s = "waiting" => /\ job[t] = "running" /\ reserved[t] = 0
                              /\ attempts[t] < AttemptLimit
    BY <1>0, <1>5, FinishJobs
  <2>2. attempts' = attempts /\ reserved' = reserved
    BY <1>0, <1>5, FinishJobs
  <2>3. phaseOf' = [phaseOf EXCEPT ![t] = Phase(s)]
    BY <1>0, <2>1, PhaseOfUpdate
  <2>4. CASE s = "waiting"
    <3>1. phaseOf[t] = "executing" /\ Phase(s) = "accepted"
      BY <1>0, <2>1, <2>4, PhaseValues
    <3> QED
      BY <2>1, <2>2, <2>3, <2>4, <3>1 DEF Durable!Retry
  <2>5. CASE s \in Settled
    <3>1. phaseOf[t] \in {"accepted", "executing"} /\ Phase(s) = "settled"
      BY <1>0, <1>5, <2>5, PhaseValues DEF Finishes
    <3> QED
      BY <2>2, <2>3, <3>1 DEF Durable!Settle
  <2> QED
    BY <2>4, <2>5
<1> QED
  BY <1>1, <1>2, <1>3, <1>4, <1>5 DEF JobStep, Durable!Next

\* A turn's job is a durable job: accepted once, started at most AttemptLimit
\* times and never again once an attempt reserved its effects.
THEOREM TurnJobIsDurable == TurnSpec => JobIsDurable
<1>1. Init => Durable!Init
  BY PhaseValues DEF Init, phaseOf, Durable!Init
<1>2. TurnIInv /\ [TurnNext]_turnVars => [Durable!Next]_(Durable!durableVars)
  BY StepIsJobStep, JobStepRefines
<1> QED
  BY <1>1, <1>2, TurnInvariant, PTL DEF TurnSpec, JobIsDurable, Durable!Spec
=============================================================================
