------------------------ MODULE MCDiagnosticReports ------------------------
(* DiagnosticReports with the calls of an agent and the answers of a search. *)
EXTENDS DiagnosticReports

CONSTANTS x, y, z   \* two photos and what is none

Crack(severity, padded) ==
  [flag |-> [code |-> "crack", severity |-> severity, blocks |-> FALSE],
   padded |-> padded]

MCFlags == {{Crack("warning", TRUE)},
            {Crack("warning", FALSE), Crack("info", FALSE)}}

Seen(id, photos, relevance) ==
  [id |-> id, source |-> "image", detail |-> FALSE, artifacts |-> photos,
   relevance |-> relevance]

Told(id, detail) ==
  [id |-> id, source |-> "other", detail |-> detail, artifacts |-> {},
   relevance |-> "incidental"]

MCFindings ==
  LET cause == Seen(1, {x}, "supports_primary_diagnosis")
  IN {<<cause>>, <<Seen(1, {}, "supports_primary_diagnosis")>>,
      <<cause, Seen(2, {y}, "supported_contributor")>>,
      <<cause, Seen(1, {y}, "supported_contributor")>>,
      <<Told(1, TRUE)>>, <<Told(1, FALSE)>>}

MCV2 ==
  [version : {"v2"}, outcome : {"none"}, findings : MCFindings,
   diagnosis : {{}, {{1}}}, factors : {{}, {{2}}}, alternates : {{{1}}},
   uncertain : BOOLEAN, key : {{}, {x}}, flags : {{Crack("info", TRUE)}}]

MCV1 ==
  [version : {"v1"}, key : {{x}, {z}}, parts : 0..1, tools : 0..1,
   flags : MCFlags]

Supported == [reason |-> "diagnosis_supported", considered |-> TRUE,
              missing |-> FALSE]

MCProposals ==
  [basis : {Supported}, payload : MCV1]
    \cup [basis : {Supported, [Supported EXCEPT !.considered = FALSE],
                   [Supported EXCEPT !.reason = "user_declined_more_input"]},
          payload : MCV2]

MCAnswers ==
  LET answer == [status |-> "priced_listing_found", confidence |-> "high",
                 estimate |-> {}, listing |-> {500}, compatibility |-> FALSE,
                 ambiguous |-> FALSE, unconfirmed |-> FALSE]
  IN {answer, [answer EXCEPT !.confidence = "low"],
      [answer EXCEPT !.status = "range_estimate_only", !.listing = {},
                     !.estimate = {[min |-> {300}, max |-> {}]}]}
=============================================================================
