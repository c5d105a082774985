------------------------- MODULE DiagnosticReports -------------------------
(***************************************************************************)
(* The diagnostic reports of one repair session: what the agent may save,  *)
(* what is stored of it, and what the owner reads.                         *)
(*                                                                         *)
(* A save holds the lock of the session row from its validation to its     *)
(* commit, the price search included, so the saves of a session follow     *)
(* each other; GETs, listings and the invalidation of an artifact take no  *)
(* lock and run at any time.  What a save does to the session and its      *)
(* event log is DiagnosticTurn's.  Nothing in the application calls the    *)
(* invalidation yet.                                                       *)
(***************************************************************************)
EXTENDS CostEstimates, SafetyFlags

CONSTANTS
  Artifacts,   \* what an agent may name as an artifact
  Photos,      \* the ready diagnostic photos of the session
  Proposals,   \* bound: the calls of save_diagnostic_report an agent makes
  Answers,     \* bound: the answers of the price search that parse
  MaxReports,  \* bound: reports of the session
  PageSize     \* limit of a listing

Relevance == {"unknown", "possible_contributor", "supports_primary_diagnosis",
              "supported_contributor", "incidental"}

Outcome == {"diagnosis_supported", "user_declined_more_input",
            "requested_input_unavailable", "in_person_assessment_required"}

\* material_hypotheses_considered and readily_obtainable_..._missing.
CompletionBasis == [reason : Outcome, considered : BOOLEAN, missing : BOOLEAN]

\* A flag as the agent writes it, with blanks around its texts or without.
FlagProposal == [flag : Flag, padded : BOOLEAN]

\* detail: evidence_source_detail is given and not blank.
ObservedFinding ==
  [id : Nat, source : {"image", "user_report", "measurement",
                       "functional_check", "repair_history", "other"},
   detail : BOOLEAN, relevance : Relevance, artifacts : SUBSET Artifacts]

\* parts, tools: how many different ones repair_estimate requires.
PayloadV1 ==
  [version : {"v1"}, key : SUBSET Artifacts, parts : Nat, tools : Nat,
   flags : SUBSET FlagProposal]

\* A diagnosis, a contributing factor and an alternate hypothesis are the
\* findings they refer to; uncertain: an uncertainty is left unresolved.
PayloadV2 ==
  [version : {"v2"}, outcome : Outcome \cup {"none"},
   findings : Seq(ObservedFinding), diagnosis : SUBSET SUBSET Nat,
   factors : SUBSET SUBSET Nat, alternates : SUBSET SUBSET Nat,
   uncertain : BOOLEAN, key : SUBSET Artifacts, flags : SUBSET FlagProposal]

Payload == PayloadV1 \cup PayloadV2

ASSUME ReportAssumption ==
  /\ Photos \subseteq Artifacts
  /\ Proposals \subseteq [basis : CompletionBasis, payload : Payload]
  /\ MaxReports \in Nat
  /\ PageSize \in Nat \ {0}

VARIABLES
  schema,   \* diagnostic_report_schema_version of the phase session
  reports,  \* phase_reports, in the order of creation
  saving,   \* the save that waits for prices
  reading,  \* a GET of one report
  listing   \* a client that reads the reports page by page

reportVars == <<schema, reports, saving, reading, listing>>

NoSave == [step |-> "idle"]
NoRead == [step |-> "idle", shown |-> {}, costs |-> <<>>]
NoListing == [step |-> "idle", cursor |-> 0, shown |-> {}, expected |-> {}]

Init ==
  /\ schema \in {"v1", "v2"}
  /\ reports = <<>>
  /\ saving = NoSave
  /\ reading = NoRead
  /\ listing = NoListing

-----------------------------------------------------------------------------
(* What may be saved. *)

\* CompletionBasis.validate_supported_completion
ReadyToSave(basis) ==
  basis.reason = "diagnosis_supported" => basis.considered /\ ~basis.missing

Ids(findings) == {findings[i].id : i \in DOMAIN findings}

\* ObservedFinding.validate_evidence_shape
WellShaped(finding) ==
  /\ finding.source = "other" <=> finding.detail
  /\ finding.source = "image" <=> finding.artifacts # {}

\* _validate_references, with the relevances one of which is required
Refers(references, findings, required) ==
  /\ references # {}
  /\ references \subseteq Ids(findings)
  /\ \E i \in DOMAIN findings :
       findings[i].id \in references /\ findings[i].relevance \in required

ImageArtifacts(findings) ==
  UNION {findings[i].artifacts : i \in {j \in DOMAIN findings :
                                          findings[j].source = "image"}}

\* DiagnosticReportV2.validate_report_invariants
ValidV2(p) ==
  LET findings == p.findings IN
  /\ findings # <<>>
  /\ \A i \in DOMAIN findings : WellShaped(findings[i])
  /\ Cardinality(Ids(findings)) = Len(findings)
  /\ IF p.diagnosis = {}
     THEN /\ p.outcome # "diagnosis_supported"
          /\ \A i \in DOMAIN findings :
               findings[i].relevance # "supports_primary_diagnosis"
          /\ p.uncertain
     ELSE \A references \in p.diagnosis :
            Refers(references, findings, {"supports_primary_diagnosis"})
  /\ \A references \in p.factors :
       Refers(references, findings, {"supported_contributor"})
  /\ \A references \in p.alternates : Refers(references, findings, Relevance)
  /\ p.key \subseteq ImageArtifacts(findings)

ValidPayload(p) == p.version = "v2" => ValidV2(p)

\* _report_artifact_ids: what is cited, and has to be the session's.
Cited(p) ==
  IF p.version = "v1" THEN p.key
  ELSE p.key \cup UNION {p.findings[i].artifacts : i \in DOMAIN p.findings}

\* The flags of a report, trimmed by SafetyService.
Trimmed(flags) == {[f EXCEPT !.padded = FALSE] : f \in flags}
Levels(flags) == {f.flag : f \in flags}

\* persist_diagnostic_report_from_tool: the server adds the outcome.
Submitted(call) ==
  LET p == call.payload
  IN IF p.version = "v1" THEN p
     ELSE [p EXCEPT !.outcome = call.basis.reason]

\* What the tool and the service check before they take the lock, and the
\* artifacts and the phase session under it.
Accepts(call) ==
  LET p == Submitted(call) IN
  /\ ReadyToSave(call.basis)
  /\ p.version = schema
  /\ Consistent(Levels(p.flags))
  /\ ValidPayload(p)
  /\ Cited(p) \subseteq Photos

-----------------------------------------------------------------------------
(* A stored report and what is made of it for the public. *)

\* Faulty: only the key photos are recorded as sources.
ReportOfKeyPhotos(p, cost) ==
  [payload |-> [p EXCEPT !.flags = Trimmed(@)], cost |-> cost,
   version |-> p.version, flags |-> Trimmed(p.flags), sources |-> p.key,
   redacted |-> FALSE, lost |-> {}]

\* Faulty: the payload is stored as it was submitted.
ReportAsSubmitted(p, cost) ==
  [payload |-> p, cost |-> cost, version |-> p.version,
   flags |-> Trimmed(p.flags), sources |-> Cited(p),
   redacted |-> FALSE, lost |-> {}]

\* The row of _persist_diagnostic_report.  lost is history: the artifacts that
\* were invalidated since.
ReportOf(p, cost) ==
  [payload |-> [p EXCEPT !.flags = Trimmed(@)], cost |-> cost,
   version |-> p.version, flags |-> Trimmed(p.flags), sources |-> Cited(p),
   redacted |-> FALSE, lost |-> {}]

\* PhaseReportEnvelope, _validate_diagnostic_envelope and the flags once more
Public(report) ==
  /\ report.payload.version = report.version
  /\ ValidPayload(report.payload)
  /\ report.payload.flags = report.flags
  /\ report.flags = Trimmed(report.flags)
  /\ Consistent(Levels(report.flags))
  /\ \A cost \in report.cost : Validates(cost)

Visible(i) == ~reports[i].redacted

Requirements(p) ==
  IF p.version = "v1" THEN PriceRequirements(p.parts, p.tools) ELSE <<>>

\* _with_diagnostic_cost_estimate: totals that do not validate are no estimate.
Cost(results) ==
  IF Validates(PlanCost(results)) THEN {PlanCost(results)} ELSE {}

-----------------------------------------------------------------------------
(* Saving. *)

Store(p, cost) ==
  /\ reports' = Append(reports, ReportOf(p, cost))
  /\ saving' = NoSave

\* A report that names nothing to buy, a V2 report, or a process without a
\* price provider.
Save(call) ==
  /\ saving = NoSave
  /\ Len(reports) < MaxReports
  /\ Accepts(call)
  /\ Store(Submitted(call), {})
  /\ UNCHANGED <<schema, reading, listing>>

BeginSave(call) ==
  /\ saving = NoSave
  /\ Len(reports) < MaxReports
  /\ Accepts(call)
  /\ Requirements(call.payload) # <<>>
  /\ saving' = [step |-> "pricing", payload |-> Submitted(call), costs |-> <<>>]
  /\ UNCHANGED <<schema, reports, reading, listing>>

\* One requirement after the other; no failure of a search stops the others.
PriceForSave ==
  /\ saving # NoSave
  /\ LET requirements == Requirements(saving.payload)
         next == Len(saving.costs) + 1
     IN /\ next <= Len(requirements)
        /\ \E result \in Results(Answers, requirements[next]) :
             saving' = [saving EXCEPT !.costs = Append(@, result)]
  /\ UNCHANGED <<schema, reports, reading, listing>>

FinishSave ==
  /\ saving # NoSave
  /\ Len(saving.costs) = Len(Requirements(saving.payload))
  /\ Store(saving.payload, Cost(saving.costs))
  /\ UNCHANGED <<schema, reading, listing>>

\* The fence refuses a lost execution, or its process dies: all is rolled back.
LoseSave ==
  /\ saving # NoSave
  /\ saving' = NoSave
  /\ UNCHANGED <<schema, reports, reading, listing>>

-----------------------------------------------------------------------------
(* Reading. *)

\* GET of one report.  A V1 report without an estimate is priced for this
\* answer; the estimate is not stored.
GetReport(i) ==
  /\ reading.step = "idle"
  /\ Visible(i)
  /\ Public(reports[i])
  /\ reading' = [NoRead EXCEPT
       !.shown = {reports[i]},
       !.step = IF reports[i].cost = {} /\ Requirements(reports[i].payload) # <<>>
                THEN "pricing" ELSE "answered"]
  /\ UNCHANGED <<schema, reports, saving, listing>>

PriceForRead ==
  /\ reading.step = "pricing"
  /\ \E report \in reading.shown :
       LET requirements == Requirements(report.payload)
           next == Len(reading.costs) + 1
       IN IF next <= Len(requirements)
          THEN \E result \in Results(Answers, requirements[next]) :
                 reading' = [reading EXCEPT !.costs = Append(@, result)]
          ELSE reading' = [reading EXCEPT
                 !.step = "answered", !.costs = <<>>,
                 !.shown = {[report EXCEPT !.cost = Cost(reading.costs)]}]
  /\ UNCHANGED <<schema, reports, saving, listing>>

EndRead ==
  /\ reading.step # "idle"
  /\ reading' = NoRead
  /\ UNCHANGED <<schema, reports, saving, listing>>

\* list_for_session: newest first, strictly older than the cursor's report.
OlderThan(cursor) ==
  SelectSeq([k \in 1..(cursor - 1) |-> cursor - k], Visible)

\* One report more than the page is fetched; the cursor is that report.
NextCursor(rows) == IF Len(rows) > PageSize THEN rows[PageSize + 1] ELSE 0

\* list_reports.  A cursor whose report was invalidated is refused.
ReadPage ==
  /\ listing.step \in {"idle", "open"}
  /\ LET first == listing.step = "idle"
         rows == OlderThan(IF first THEN Len(reports) + 1 ELSE listing.cursor)
         page == {rows[k] : k \in {l \in 1..PageSize : l <= Len(rows)}}
     IN /\ \A i \in page : Public(reports[i])
        /\ listing' =
             IF ~first /\ ~Visible(listing.cursor)
             THEN [listing EXCEPT !.step = "refused"]
             ELSE [step |-> IF NextCursor(rows) = 0 THEN "done" ELSE "open",
                   cursor |-> NextCursor(rows),
                   shown |-> listing.shown \cup page,
                   expected |-> IF first THEN {i \in DOMAIN reports : Visible(i)}
                                ELSE listing.expected]
  /\ UNCHANGED <<schema, reports, saving, reading>>

EndListing ==
  /\ listing.step \in {"done", "refused"}
  /\ listing' = NoListing
  /\ UNCHANGED <<schema, reports, saving, reading>>

-----------------------------------------------------------------------------
\* invalidate_citing_artifact: the rows the UPDATE sees, which a save that has
\* not committed is not among.
InvalidateArtifact(photo) ==
  /\ \E i \in DOMAIN reports :
       photo \in Cited(reports[i].payload) \ reports[i].lost
  /\ reports' = [i \in DOMAIN reports |->
       [reports[i] EXCEPT !.redacted = @ \/ photo \in reports[i].sources,
                          !.lost = @ \cup {photo}]]
  /\ UNCHANGED <<schema, saving, reading, listing>>

ReportNext ==
  \/ \E call \in Proposals : Save(call) \/ BeginSave(call)
  \/ PriceForSave \/ FinishSave \/ LoseSave
  \/ \E i \in DOMAIN reports : GetReport(i)
  \/ PriceForRead \/ EndRead \/ ReadPage \/ EndListing
  \/ \E photo \in Photos : InvalidateArtifact(photo)

ReportSpec == Init /\ [][ReportNext]_reportVars

-----------------------------------------------------------------------------
(* Properties. *)

\* What is stored can be read: validation before the save and before the
\* answer agree on every report, with its flags normalized, its outcome and its
\* session added by the server and its estimate attached in between, so that no
\* saved report ends in a server error.
ReadsBack == \A i \in DOMAIN reports : Public(reports[i])

\* A report is read no more once a photo it rests on was invalidated after the
\* save, be the photo a key photo or the evidence of one finding only.
InvalidatedIsUnread ==
  \A i \in DOMAIN reports :
    Visible(i) => Cited(reports[i].payload) \cap reports[i].lost = {}

Estimates ==
  UNION {r.cost : r \in {reports[i] : i \in DOMAIN reports} \cup reading.shown}

\* No total hides an item without a price: whichever lookups failed, were
\* vague or found something, the totals the item counts towards are of low
\* confidence.
UnpricedIsUncertain ==
  \A cost \in Estimates : \A i \in DOMAIN cost.items :
    Unpriced(cost.items[i]) =>
      /\ cost.diy.confidence = "low"
      /\ (IF cost.items[i].type = "part" THEN cost.parts
          ELSE cost.tools).confidence = "low"

\* api-db-diagnostic.md:871: a listing continues after the last row of a page,
\* so that a client which follows the cursors sees every report.
PagesAreComplete ==
  listing.step = "done" => \A i \in listing.expected :
                             Visible(i) => i \in listing.shown
=============================================================================
