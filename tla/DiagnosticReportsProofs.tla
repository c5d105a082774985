---------------------- MODULE DiagnosticReportsProofs ----------------------
(***************************************************************************)
(* Proofs about DiagnosticReports, for every agent, every answer of the    *)
(* price search and any number of reports.  The invariant says of a stored *)
(* row what the save checked of the proposal, so that nothing which        *)
(* happens between the check and the answer of a GET can make it false.    *)
(***************************************************************************)
EXTENDS DiagnosticReports, SequenceTheorems, TLAPS

\* Every result a lookup may end with, and every estimate made of them.
Lookups == UNION {Results(Answers, req) : req \in {PartRequirement, ToolRequirement}}
Costs == {PlanCost(results) : results \in Seq(Lookups)}

\* A payload that passed the checks of a save.
Sound(p) ==
  /\ p \in Payload
  /\ ValidPayload(p)
  /\ Consistent(Levels(p.flags))

Row ==
  [payload : Payload, cost : SUBSET Costs, version : {"v1", "v2"},
   flags : SUBSET FlagProposal, sources : SUBSET Artifacts,
   redacted : BOOLEAN, lost : SUBSET Artifacts]

\* A row is public, cites its sources and is hidden once one of them is lost.
SoundRow(r) ==
  /\ Public(r)
  /\ r.sources = Cited(r.payload)
  /\ ~r.redacted => r.sources \cap r.lost = {}

ReportsOK ==
  /\ reports \in Seq(Row)
  /\ \A i \in DOMAIN reports : SoundRow(reports[i])

SavingOK ==
  saving # NoSave =>
    /\ saving \in [step : {"pricing"}, payload : Payload, costs : Seq(Lookups)]
    /\ Sound(saving.payload)

ReadingOK ==
  /\ reading \in [step : {"idle", "pricing", "answered"}, shown : SUBSET Row,
                  costs : Seq(Lookups)]

ReportIInv == ReportsOK /\ SavingOK /\ ReadingOK

-----------------------------------------------------------------------------
(* The totals of an estimate. *)

LEMMA LookupType ==
  ASSUME NEW result \in Lookups
  PROVE  result.type \in {"part", "tool"}
<1>1. PICK req \in {PartRequirement, ToolRequirement} :
        result \in Results(Answers, req)
  BY DEF Lookups
<1>2. req.type \in {"part", "tool"}
  BY <1>1 DEF PartRequirement, ToolRequirement
<1>3. CASE result = UnavailableResult(req)
  BY <1>2, <1>3 DEF UnavailableResult
<1>4. CASE \E a \in Answers : result = Aligned(ResultFrom(a, req), req)
  <2>1. PICK a \in Answers : result = Aligned(ResultFrom(a, req), req)
    BY <1>4
  <2>2. Aligned(ResultFrom(a, req), req).type = req.type
    BY DEF Aligned, ResultFrom
  <2> QED BY <1>2, <2>1, <2>2
<1> QED BY <1>1, <1>3, <1>4 DEF Results

\* An item without a price lowers the total of its type and the DIY total, for
\* all lists of results (_roll_up, _merge_rollups).
THEOREM UnpricedLowersTotals ==
  ASSUME NEW results \in Seq(Lookups), NEW i \in DOMAIN results,
         Unpriced(results[i])
  PROVE  /\ PlanCost(results).diy.confidence = "low"
         /\ (IF results[i].type = "part" THEN PlanCost(results).parts
             ELSE PlanCost(results).tools).confidence = "low"
<1> DEFINE type == results[i].type
<1>1. results[i] \in Lookups
  OBVIOUS
<1>2. type \in {"part", "tool"}
  BY <1>1, LookupType
<1>3. i \in OfType(results, type)
  BY DEF OfType
<1>4. /\ RollUp(results, type).uncertain = TRUE
      /\ RollUp(results, type).confidence = "low"
  BY <1>3 DEF RollUp
<1>5. CASE type = "part"
  <2>1. MergeRollups(RollUp(results, "part"), RollUp(results, "tool")).confidence = "low"
    BY <1>4, <1>5 DEF MergeRollups
  <2> QED BY <1>4, <1>5, <2>1 DEF PlanCost
<1>6. CASE type = "tool"
  <2>1. MergeRollups(RollUp(results, "part"), RollUp(results, "tool")).confidence = "low"
    BY <1>4, <1>6 DEF MergeRollups
  <2> QED BY <1>4, <1>6, <2>1 DEF PlanCost
<1> QED BY <1>2, <1>5, <1>6

LEMMA CostsOfLookups ==
  ASSUME NEW results \in Seq(Lookups)
  PROVE  /\ Cost(results) \in SUBSET Costs
         /\ \A cost \in Cost(results) : Validates(cost)
BY DEF Cost, Costs

-----------------------------------------------------------------------------
(* What a save stores. *)

LEMMA TrimmedFlags ==
  ASSUME NEW F \in SUBSET FlagProposal
  PROVE  /\ Trimmed(F) \in SUBSET FlagProposal
         /\ Trimmed(Trimmed(F)) = Trimmed(F)
         /\ Levels(Trimmed(F)) = Levels(F)
<1>1. \A f \in F : /\ [f EXCEPT !.padded = FALSE] \in FlagProposal
                   /\ [f EXCEPT !.padded = FALSE].flag = f.flag
                   /\ [[f EXCEPT !.padded = FALSE] EXCEPT !.padded = FALSE]
                        = [f EXCEPT !.padded = FALSE]
  BY DEF FlagProposal
<1>2. Trimmed(F) \in SUBSET FlagProposal
  BY <1>1 DEF Trimmed
<1>3. Trimmed(Trimmed(F)) = Trimmed(F)
  <2> DEFINE trim(f) == [f EXCEPT !.padded = FALSE]
  <2>1. \A f \in F : trim(trim(f)) = trim(f)
    BY <1>1
  <2>2. Trimmed(F) = {trim(f) : f \in F}
    BY DEF Trimmed
  <2>3. Trimmed(Trimmed(F)) = {trim(g) : g \in {trim(f) : f \in F}}
    BY <2>2 DEF Trimmed
  <2> HIDE DEF trim
  <2>4. {trim(g) : g \in {trim(f) : f \in F}} = {trim(f) : f \in F}
    BY <2>1
  <2> QED BY <2>2, <2>3, <2>4
<1>4. Levels(Trimmed(F)) = Levels(F)
  <2> DEFINE trim(f) == [f EXCEPT !.padded = FALSE]
  <2>1. \A f \in F : trim(f).flag = f.flag
    BY <1>1
  <2>2. Levels(Trimmed(F)) = {g.flag : g \in {trim(f) : f \in F}}
    BY DEF Trimmed, Levels
  <2> HIDE DEF trim
  <2>3. {g.flag : g \in {trim(f) : f \in F}} = {f.flag : f \in F}
    BY <2>1
  <2> QED BY <2>2, <2>3 DEF Levels
<1> QED BY <1>2, <1>3, <1>4

LEMMA TrimmedPayload ==
  ASSUME NEW p \in Payload, NEW F \in SUBSET FlagProposal
  PROVE  LET q == [p EXCEPT !.flags = F]
         IN /\ q \in Payload
            /\ q.version = p.version
            /\ q.flags = F
            /\ Cited(q) = Cited(p)
            /\ ValidPayload(q) = ValidPayload(p)
<1> DEFINE q == [p EXCEPT !.flags = F]
<1>1. CASE p \in PayloadV1
  <2>1. /\ q \in PayloadV1
        /\ q.version = "v1" /\ p.version = "v1"
        /\ q.key = p.key
        /\ q.flags = F
    BY <1>1 DEF PayloadV1
  <2> QED BY <2>1 DEF Payload, Cited, ValidPayload
<1>2. CASE p \in PayloadV2
  <2>1. /\ q \in PayloadV2
        /\ q.version = "v2" /\ p.version = "v2"
        /\ q.flags = F
        /\ q.key = p.key /\ q.findings = p.findings
        /\ q.outcome = p.outcome /\ q.diagnosis = p.diagnosis
        /\ q.factors = p.factors /\ q.alternates = p.alternates
        /\ q.uncertain = p.uncertain
    BY <1>2 DEF PayloadV2
  <2>2. Cited(q) = Cited(p)
    BY <2>1 DEF Cited
  <2>3. ValidV2(q) = ValidV2(p)
    BY <2>1 DEF ValidV2
  <2> QED BY <2>1, <2>2, <2>3 DEF Payload, ValidPayload
<1> QED BY <1>1, <1>2 DEF Payload

LEMMA CitedArtifacts ==
  ASSUME NEW p \in Payload
  PROVE  Cited(p) \in SUBSET Artifacts
<1>1. CASE p \in PayloadV1
  BY <1>1 DEF Cited, PayloadV1
<1>2. CASE p \in PayloadV2
  <2>1. \A i \in DOMAIN p.findings : p.findings[i].artifacts \in SUBSET Artifacts
    <3>1. p.findings \in Seq(ObservedFinding)
      BY <1>2 DEF PayloadV2
    <3>2. \A i \in DOMAIN p.findings : p.findings[i] \in ObservedFinding
      BY <3>1
    <3> QED BY <3>2 DEF ObservedFinding
  <2>2. p.key \in SUBSET Artifacts /\ p.version = "v2"
    BY <1>2 DEF PayloadV2
  <2> QED BY <2>1, <2>2 DEF Cited
<1> QED BY <1>1, <1>2 DEF Payload

LEMMA SubmittedSound ==
  ASSUME NEW call \in Proposals, Accepts(call)
  PROVE  Sound(Submitted(call))
<1> DEFINE p == call.payload
<1>1. p \in Payload /\ call.basis.reason \in Outcome
  BY ReportAssumption DEF CompletionBasis
<1>2. Submitted(call) \in Payload
  <2>1. CASE p \in PayloadV1
    BY <2>1 DEF PayloadV1, Payload, Submitted
  <2>2. CASE p \in PayloadV2
    BY <1>1, <2>2 DEF PayloadV2, Payload, Submitted
  <2> QED BY <1>1, <2>1, <2>2 DEF Payload
<1> QED BY <1>2 DEF Sound, Accepts

LEMMA StoredSound ==
  ASSUME NEW p, Sound(p), NEW cost \in SUBSET Costs,
         \A c \in cost : Validates(c)
  PROVE  ReportOf(p, cost) \in Row /\ SoundRow(ReportOf(p, cost))
<1> DEFINE r == ReportOf(p, cost)
           q == [p EXCEPT !.flags = Trimmed(p.flags)]
<1>1. p \in Payload /\ p.flags \in SUBSET FlagProposal /\ p.version \in {"v1", "v2"}
  BY DEF Sound, Payload, PayloadV1, PayloadV2
<1>2. /\ Trimmed(p.flags) \in SUBSET FlagProposal
      /\ Trimmed(Trimmed(p.flags)) = Trimmed(p.flags)
      /\ Levels(Trimmed(p.flags)) = Levels(p.flags)
  BY <1>1, TrimmedFlags
<1>3. /\ q \in Payload /\ q.version = p.version /\ q.flags = Trimmed(p.flags)
      /\ Cited(q) = Cited(p) /\ ValidPayload(q) = ValidPayload(p)
  BY <1>1, <1>2, TrimmedPayload
<1>4. /\ r.payload = q /\ r.cost = cost /\ r.version = p.version
      /\ r.flags = Trimmed(p.flags) /\ r.sources = Cited(p)
      /\ r.redacted = FALSE /\ r.lost = {}
  BY DEF ReportOf
<1>5. r \in Row
  <2>1. Cited(p) \in SUBSET Artifacts
    BY <1>1, CitedArtifacts
  <2> QED BY <1>1, <1>2, <1>3, <2>1 DEF ReportOf, Row
<1>6. Public(r)
  BY <1>2, <1>3, <1>4 DEF Public, Sound
<1> QED BY <1>3, <1>4, <1>5, <1>6 DEF SoundRow

\* An invalidation leaves a row public and hides it if it cites the photo.
LEMMA InvalidatedSound ==
  ASSUME NEW r \in Row, SoundRow(r), NEW photo \in Artifacts
  PROVE  LET s == [r EXCEPT !.redacted = @ \/ photo \in r.sources,
                            !.lost = @ \cup {photo}]
         IN s \in Row /\ SoundRow(s)
<1> DEFINE s == [r EXCEPT !.redacted = @ \/ photo \in r.sources,
                          !.lost = @ \cup {photo}]
<1>1. /\ s \in Row
      /\ s.payload = r.payload /\ s.cost = r.cost /\ s.version = r.version
      /\ s.flags = r.flags /\ s.sources = r.sources
      /\ s.redacted = (r.redacted \/ photo \in r.sources)
      /\ s.lost = r.lost \cup {photo}
  BY DEF Row
<1>2. Public(s)
  BY <1>1 DEF SoundRow, Public
<1>3. s.sources = Cited(s.payload)
  BY <1>1 DEF SoundRow
<1>4. ~s.redacted => s.sources \cap s.lost = {}
  BY <1>1 DEF SoundRow
<1> QED BY <1>1, <1>2, <1>3, <1>4 DEF SoundRow

-----------------------------------------------------------------------------
(* The invariant. *)

LEMMA StoreKeepsReports ==
  ASSUME ReportsOK, NEW p, Sound(p), NEW cost \in SUBSET Costs,
         \A c \in cost : Validates(c), Store(p, cost)
  PROVE  ReportsOK' /\ SavingOK'
<1>1. ReportOf(p, cost) \in Row /\ SoundRow(ReportOf(p, cost))
  BY StoredSound
<1>2. reports' = Append(reports, ReportOf(p, cost)) /\ saving' = NoSave
  BY DEF Store
<1>3. reports' \in Seq(Row)
  BY <1>1, <1>2 DEF ReportsOK
<1>4. \A i \in DOMAIN reports' : SoundRow(reports'[i])
  <2> SUFFICES ASSUME NEW i \in DOMAIN reports'
               PROVE  SoundRow(reports'[i])
    OBVIOUS
  <2>1. \/ i \in DOMAIN reports /\ reports'[i] = reports[i]
        \/ reports'[i] = ReportOf(p, cost)
    BY <1>1, <1>2 DEF ReportsOK
  <2> QED BY <1>1, <2>1 DEF ReportsOK
<1> QED BY <1>2, <1>3, <1>4 DEF ReportsOK, SavingOK

LEMMA PricedResult ==
  ASSUME NEW p \in Payload, NEW n \in DOMAIN Requirements(p),
         NEW result \in Results(Answers, Requirements(p)[n])
  PROVE  result \in Lookups
<1>1. p.version = "v1"
  BY DEF Requirements
<1>2. p.parts \in Nat /\ p.tools \in Nat
  BY <1>1 DEF Payload, PayloadV1, PayloadV2
<1>3. Requirements(p)[n] \in {PartRequirement, ToolRequirement}
  BY <1>1, <1>2 DEF Requirements, PriceRequirements
<1> QED BY <1>3 DEF Lookups

LEMMA RequirementsLength ==
  ASSUME NEW p \in Payload
  PROVE  /\ Len(Requirements(p)) \in Nat
         /\ DOMAIN Requirements(p) = 1..Len(Requirements(p))
<1>1. CASE p \in PayloadV1
  BY <1>1 DEF PayloadV1, Requirements, PriceRequirements
<1>2. CASE p \in PayloadV2
  BY <1>2 DEF PayloadV2, Requirements
<1> QED BY <1>1, <1>2 DEF Payload

LEMMA InitInv == Init => ReportIInv
<1> SUFFICES ASSUME Init PROVE ReportIInv
  OBVIOUS
<1>1. ReportsOK
  BY DEF Init, ReportsOK
<1>2. SavingOK
  BY DEF Init, SavingOK
<1>3. ReadingOK
  BY DEF Init, ReadingOK, NoRead
<1> QED BY <1>1, <1>2, <1>3 DEF ReportIInv

LEMMA NextInv == ReportIInv /\ [ReportNext]_reportVars => ReportIInv'
<1> SUFFICES ASSUME ReportIInv, [ReportNext]_reportVars
             PROVE  ReportIInv'
  OBVIOUS
<1> USE DEF ReportIInv
<1>1. ASSUME NEW call \in Proposals, Save(call)
      PROVE  ReportIInv'
  <2>1. Sound(Submitted(call))
    BY <1>1, SubmittedSound DEF Save
  <2>2. Store(Submitted(call), {}) /\ reading' = reading
    BY <1>1 DEF Save
  <2>3. ReportsOK' /\ SavingOK'
    <3>1. {} \in SUBSET Costs /\ \A c \in {} : Validates(c)
      OBVIOUS
    <3> QED BY <2>1, <2>2, <3>1, StoreKeepsReports
  <2> QED BY <2>2, <2>3 DEF ReadingOK
<1>2. ASSUME NEW call \in Proposals, BeginSave(call)
      PROVE  ReportIInv'
  <2>1. Sound(Submitted(call))
    BY <1>2, SubmittedSound DEF BeginSave
  <2>2. /\ saving' = [step |-> "pricing", payload |-> Submitted(call),
                      costs |-> <<>>]
        /\ reports' = reports /\ reading' = reading
    BY <1>2 DEF BeginSave
  <2>3. SavingOK'
    BY <2>1, <2>2 DEF SavingOK, Sound
  <2> QED BY <2>2, <2>3 DEF ReportsOK, ReadingOK
<1>3. CASE PriceForSave
  <2> DEFINE requirements == Requirements(saving.payload)
             next == Len(saving.costs) + 1
  <2>1. PICK result \in Results(Answers, requirements[next]) :
          saving' = [saving EXCEPT !.costs = Append(@, result)]
    BY <1>3 DEF PriceForSave
  <2>2. /\ saving \in [step : {"pricing"}, payload : Payload, costs : Seq(Lookups)]
        /\ Sound(saving.payload)
    BY <1>3 DEF PriceForSave, SavingOK
  <2>3. next \in DOMAIN requirements
    <3>1. /\ Len(requirements) \in Nat
          /\ DOMAIN requirements = 1..Len(requirements)
      BY <2>2, RequirementsLength
    <3>2. next <= Len(requirements)
      BY <1>3 DEF PriceForSave
    <3>3. Len(saving.costs) \in Nat
      BY <2>2
    <3> QED BY <3>1, <3>2, <3>3
  <2>4. result \in Lookups
    BY <2>1, <2>2, <2>3, PricedResult
  <2>5. Append(saving.costs, result) \in Seq(Lookups)
    BY <2>2, <2>4
  <2>6. /\ saving' \in [step : {"pricing"}, payload : Payload, costs : Seq(Lookups)]
        /\ saving'.payload = saving.payload
    BY <2>1, <2>2, <2>5
  <2>7. SavingOK'
    BY <2>2, <2>6 DEF SavingOK, Sound
  <2> QED BY <1>3, <2>7 DEF PriceForSave, ReportsOK, ReadingOK
<1>4. CASE FinishSave
  <2>1. /\ saving \in [step : {"pricing"}, payload : Payload, costs : Seq(Lookups)]
        /\ Sound(saving.payload)
    BY <1>4 DEF FinishSave, SavingOK
  <2>2. /\ Cost(saving.costs) \in SUBSET Costs
        /\ \A c \in Cost(saving.costs) : Validates(c)
    BY <2>1, CostsOfLookups
  <2>3. Store(saving.payload, Cost(saving.costs)) /\ reading' = reading
    BY <1>4 DEF FinishSave
  <2>4. ReportsOK' /\ SavingOK'
    BY <2>1, <2>2, <2>3, StoreKeepsReports
  <2> QED BY <2>3, <2>4 DEF ReadingOK
<1>5. CASE LoseSave
  BY <1>5 DEF LoseSave, ReportsOK, SavingOK, ReadingOK
<1>6. ASSUME NEW i \in DOMAIN reports, GetReport(i)
      PROVE  ReportIInv'
  <2>1. reports[i] \in Row
    BY DEF ReportsOK
  <2>2. {reports[i]} \in SUBSET Row /\ <<>> \in Seq(Lookups)
    BY <2>1
  <2>3. \E step \in {"pricing", "answered"} :
          reading' = [step |-> step, shown |-> {reports[i]}, costs |-> <<>>]
    BY <1>6 DEF GetReport, NoRead
  <2>4. ReadingOK'
    BY <2>2, <2>3 DEF ReadingOK
  <2> QED BY <1>6, <2>4 DEF GetReport, ReportsOK, SavingOK
<1>7. CASE PriceForRead
  <2>1. PICK report \in reading.shown :
          LET requirements == Requirements(report.payload)
              next == Len(reading.costs) + 1
          IN IF next <= Len(requirements)
             THEN \E result \in Results(Answers, requirements[next]) :
                    reading' = [reading EXCEPT !.costs = Append(@, result)]
             ELSE reading' = [reading EXCEPT
                    !.step = "answered", !.costs = <<>>,
                    !.shown = {[report EXCEPT !.cost = Cost(reading.costs)]}]
    BY <1>7 DEF PriceForRead
  <2> DEFINE requirements == Requirements(report.payload)
             next == Len(reading.costs) + 1
  <2>2. report \in Row /\ report.payload \in Payload /\ reading.costs \in Seq(Lookups)
    BY DEF ReadingOK, Row
  <2>3. CASE next <= Len(requirements)
    <3>1. PICK result \in Results(Answers, requirements[next]) :
            reading' = [reading EXCEPT !.costs = Append(@, result)]
      BY <2>1, <2>3
    <3>2. next \in DOMAIN requirements
      <4>1. /\ Len(requirements) \in Nat
            /\ DOMAIN requirements = 1..Len(requirements)
        BY <2>2, RequirementsLength
      <4>2. Len(reading.costs) \in Nat
        BY <2>2
      <4> QED BY <2>3, <4>1, <4>2
    <3>3. result \in Lookups
      BY <2>2, <3>1, <3>2, PricedResult
    <3>4. Append(reading.costs, result) \in Seq(Lookups)
      BY <2>2, <3>3
    <3>5. ReadingOK'
      BY <3>1, <3>4 DEF ReadingOK
    <3> QED BY <1>7, <3>5 DEF PriceForRead, ReportsOK, SavingOK
  <2>4. CASE ~(next <= Len(requirements))
    <3>1. reading' = [reading EXCEPT
            !.step = "answered", !.costs = <<>>,
            !.shown = {[report EXCEPT !.cost = Cost(reading.costs)]}]
      BY <2>1, <2>4
    <3>2. Cost(reading.costs) \in SUBSET Costs
      BY <2>2, CostsOfLookups
    <3>3. [report EXCEPT !.cost = Cost(reading.costs)] \in Row
      BY <2>2, <3>2 DEF Row
    <3>4. /\ {[report EXCEPT !.cost = Cost(reading.costs)]} \in SUBSET Row
          /\ <<>> \in Seq(Lookups)
      BY <3>3
    <3>5. ReadingOK'
      BY <3>1, <3>4 DEF ReadingOK
    <3> QED BY <1>7, <3>5 DEF PriceForRead, ReportsOK, SavingOK
  <2> QED BY <2>3, <2>4
<1>8. CASE EndRead
  BY <1>8 DEF EndRead, ReportsOK, SavingOK, ReadingOK, NoRead
<1>9. CASE ReadPage \/ EndListing
  BY <1>9 DEF ReadPage, EndListing, ReportsOK, SavingOK, ReadingOK
<1>10. ASSUME NEW photo \in Photos, InvalidateArtifact(photo)
       PROVE  ReportIInv'
  <2>1. photo \in Artifacts
    BY ReportAssumption
  <2>2. /\ reports' = [i \in DOMAIN reports |->
             [reports[i] EXCEPT !.redacted = @ \/ photo \in reports[i].sources,
                                !.lost = @ \cup {photo}]]
        /\ saving' = saving /\ reading' = reading
    BY <1>10 DEF InvalidateArtifact
  <2>3. \A i \in DOMAIN reports :
          LET s == [reports[i] EXCEPT !.redacted = @ \/ photo \in reports[i].sources,
                                      !.lost = @ \cup {photo}]
          IN s \in Row /\ SoundRow(s)
    <3> TAKE i \in DOMAIN reports
    <3>1. reports[i] \in Row /\ SoundRow(reports[i])
      BY DEF ReportsOK
    <3> QED BY <2>1, <3>1, InvalidatedSound
  <2>4. DOMAIN reports' = DOMAIN reports
        /\ \A i \in DOMAIN reports : reports'[i] \in Row /\ SoundRow(reports'[i])
    BY <2>2, <2>3
  <2>5. reports' \in Seq(Row)
    <3>1. Len(reports) \in Nat /\ DOMAIN reports = 1..Len(reports)
      BY DEF ReportsOK
    <3>2. reports' \in [1..Len(reports) -> Row]
      BY <2>2, <2>4, <3>1
    <3> QED BY <3>1, <3>2
  <2>6. ReportsOK'
    BY <2>4, <2>5 DEF ReportsOK
  <2> QED BY <2>2, <2>6 DEF SavingOK, ReadingOK
<1>11. CASE UNCHANGED reportVars
  BY <1>11 DEF reportVars, ReportsOK, SavingOK, ReadingOK
<1> QED
  BY <1>1, <1>2, <1>3, <1>4, <1>5, <1>6, <1>7, <1>8, <1>9, <1>10, <1>11
  DEF ReportNext

THEOREM ReportInvariant == ReportSpec => []ReportIInv
<1>1. Init => ReportIInv BY InitInv
<1>2. ReportIInv /\ [ReportNext]_reportVars => ReportIInv' BY NextInv
<1> QED BY <1>1, <1>2, PTL DEF ReportSpec

\* Every saved report can be read back.
THEOREM SavedReportsReadBack == ReportSpec => []ReadsBack
<1>1. ReportIInv => ReadsBack
  BY DEF ReportIInv, ReportsOK, SoundRow, ReadsBack
<1> QED BY <1>1, ReportInvariant, PTL

\* No report is read after a photo it cites was invalidated.
THEOREM InvalidatedStaysUnread == ReportSpec => []InvalidatedIsUnread
<1>1. ReportIInv => InvalidatedIsUnread
  BY DEF ReportIInv, ReportsOK, SoundRow, InvalidatedIsUnread, Visible
<1> QED BY <1>1, ReportInvariant, PTL

\* No stored or shown estimate trusts a total that misses a price.
THEOREM UnpricedStaysUncertain == ReportSpec => []UnpricedIsUncertain
<1>1. ReportIInv => UnpricedIsUncertain
  <2> SUFFICES ASSUME ReportIInv, NEW cost \in Estimates,
                      NEW i \in DOMAIN cost.items, Unpriced(cost.items[i])
               PROVE  /\ cost.diy.confidence = "low"
                      /\ (IF cost.items[i].type = "part" THEN cost.parts
                          ELSE cost.tools).confidence = "low"
    BY DEF UnpricedIsUncertain
  <2>1. \A r \in {reports[k] : k \in DOMAIN reports} \cup reading.shown : r \in Row
    BY DEF ReportIInv, ReportsOK, ReadingOK
  <2>2. cost \in Costs
    BY <2>1 DEF Estimates, Row
  <2>3. PICK results \in Seq(Lookups) : cost = PlanCost(results)
    BY <2>2 DEF Costs
  <2>4. cost.items = results
    BY <2>3 DEF PlanCost
  <2> QED BY <2>3, <2>4, UnpricedLowersTotals
<1> QED BY <1>1, ReportInvariant, PTL
=============================================================================
