--------------------------- MODULE CostEstimates ---------------------------
(***************************************************************************)
(* What the parts and tools of a report cost: how the answer of the price  *)
(* search becomes the result of an item, and the results the totals.       *)
(*                                                                         *)
(* NULL is the empty set, a value the set of it.  Amounts are cents, so    *)
(* that rounding to two decimals changes nothing.  Titles, retailers,      *)
(* notes, further listings and the source of a total are left out.         *)
(***************************************************************************)
EXTENDS Integers, Sequences, FiniteSets, FiniteSetsExt

Confidence == {"unknown", "low", "medium", "high"}

Trust == [c \in Confidence |->
            CASE c = "unknown" -> 0 [] c = "low" -> 1
              [] c = "medium" -> 2 [] c = "high" -> 3]

Weak == {"unknown", "low"}

PriceStatus ==
  {"priced_listing_found", "range_estimate_only", "cached_estimate_used",
   "price_unavailable", "needs_more_detail"}

Optional(S) == {s \in SUBSET S : Cardinality(s) <= 1}
Coalesce(first, second) == CHOOSE x \in IF first # {} THEN first ELSE second : TRUE

\* A CostEstimate validates if its bounds are in order.
Ordered(range) == \A low \in range.min, high \in range.max : low <= high

Bounds(amount) ==
  {r \in [min : Optional(amount), max : Optional(amount)] : Ordered(r)}

\* A JSON answer of the search that parses.
SearchAnswer(amount) ==
  [status : PriceStatus, confidence : Confidence,
   estimate : Optional(Bounds(amount)), listing : Optional(amount),
   compatibility : BOOLEAN, ambiguous : BOOLEAN, unconfirmed : BOOLEAN]

Requirement ==
  [type : {"part", "tool"}, quantity : Nat \ {0}, exact : BOOLEAN]

\* A diagnostic report only names its parts and tools.
PartRequirement == [type |-> "part", quantity |-> 1, exact |-> TRUE]
ToolRequirement == [type |-> "tool", quantity |-> 1, exact |-> FALSE]

\* _price_requirements_from_diagnostic_report, for so many different parts and
\* tools.
PriceRequirements(parts, tools) ==
  [i \in 1..(parts + tools) |->
     IF i <= parts THEN PartRequirement ELSE ToolRequirement]

-----------------------------------------------------------------------------
(* The result of one item. *)

\* The status follows the evidence that is there.
CoercedStatus(answer) ==
  CASE answer.status = "priced_listing_found" /\ answer.listing = {} ->
         IF answer.estimate # {} THEN "range_estimate_only"
         ELSE "price_unavailable"
    [] answer.status = "range_estimate_only" /\ answer.estimate = {} ->
         "price_unavailable"
    [] OTHER -> answer.status

\* _result_from_response
ResultFrom(answer, req) ==
  [type |-> req.type, quantity |-> req.quantity,
   status |-> CoercedStatus(answer), confidence |-> answer.confidence,
   estimate |-> answer.estimate, listing |-> answer.listing,
   compatibility |-> answer.compatibility \/
                     (req.type = "part" /\ answer.confidence \in Weak),
   ambiguous |-> answer.ambiguous,
   unconfirmed |-> answer.unconfirmed \/
                   (req.exact /\ answer.confidence \in Weak)]

\* _align_result_with_requirement
Aligned(result, req) ==
  LET unconfirmed == result.unconfirmed \/ result.confidence \in Weak
      same == [result EXCEPT !.type = req.type, !.quantity = req.quantity]
  IN IF req.exact /\ result.listing # {}
     THEN [same EXCEPT !.unconfirmed = unconfirmed,
                       !.compatibility = @ \/ unconfirmed]
     ELSE same

\* The search failed, gave no answer in time or one that does not parse.
UnavailableResult(req) ==
  [type |-> req.type, quantity |-> req.quantity,
   status |-> "price_unavailable", confidence |-> "low",
   estimate |-> {}, listing |-> {}, compatibility |-> req.type = "part",
   ambiguous |-> FALSE, unconfirmed |-> req.exact]

\* What a lookup may end with.
Results(answers, req) ==
  {Aligned(ResultFrom(a, req), req) : a \in answers} \cup
    {UnavailableResult(req)}

\* PriceLookupResult.validate_status_payload
WellFormed(result) ==
  /\ result.status = "priced_listing_found" => result.listing # {}
  /\ result.status = "range_estimate_only" => result.estimate # {}

-----------------------------------------------------------------------------
(* The totals. *)

\* _result_amount_range: the listing's price before the estimate.
AmountRange(result) ==
  IF result.listing # {} THEN {[min |-> p, max |-> p] : p \in result.listing}
  ELSE {[min |-> Coalesce(e.min, e.max), max |-> Coalesce(e.max, e.min)] :
          e \in {r \in result.estimate : r.min # {} \/ r.max # {}}}

Unpriced(result) == AmountRange(result) = {}

\* _is_uncertain
Doubtful(result) ==
  \/ result.status # "priced_listing_found"
  \/ result.compatibility \/ result.ambiguous \/ result.unconfirmed
  \/ result.confidence \in Weak

\* _lower_confidence
Lowest(confidences) ==
  CHOOSE c \in confidences : \A d \in confidences : Trust[c] <= Trust[d]

OfType(results, type) == {i \in DOMAIN results : results[i].type = type}

Total(results, priced, bound) ==
  LET amount(i) == (CHOOSE r \in AmountRange(results[i]) : TRUE)[bound]
  IN MapThenSumSet(LAMBDA i : results[i].quantity * amount(i), priced)

\* Faulty: an item without a price is passed over.
RollUpPriced(results, type) ==
  LET priced == {i \in OfType(results, type) : ~Unpriced(results[i])}
      uncertain == \E i \in priced : Doubtful(results[i])
  IN [min |-> {Total(results, priced, "min")},
      max |-> {Total(results, priced, "max")},
      confidence |-> IF uncertain THEN "low"
                     ELSE Lowest({"high"} \cup {results[i].confidence : i \in priced}),
      uncertain |-> uncertain]

\* _roll_up
RollUp(results, type) ==
  LET mine == OfType(results, type)
      priced == {i \in mine : ~Unpriced(results[i])}
      uncertain ==
        \E i \in mine : Unpriced(results[i]) \/ Doubtful(results[i])
      none == mine # {} /\ priced = {}
  IN [min |-> IF none THEN {} ELSE {Total(results, priced, "min")},
      max |-> IF none THEN {} ELSE {Total(results, priced, "max")},
      confidence |-> IF uncertain THEN "low"
                     ELSE Lowest({"high"} \cup {results[i].confidence : i \in priced}),
      uncertain |-> uncertain]

\* _sum_optional: NULL only if both are.
SumOptional(first, second) ==
  IF first = {} /\ second = {} THEN {}
  ELSE {Coalesce(first, {0}) + Coalesce(second, {0})}

\* _merge_rollups
MergeRollups(parts, tools) ==
  LET uncertain == parts.uncertain \/ tools.uncertain
  IN [min |-> SumOptional(parts.min, tools.min),
      max |-> SumOptional(parts.max, tools.max),
      confidence |-> IF uncertain THEN "low"
                     ELSE Lowest({parts.confidence, tools.confidence}),
      uncertain |-> uncertain]

\* estimate_plan_cost, once every item has its result.
PlanCost(results) ==
  LET parts == RollUp(results, "part")
      tools == RollUp(results, "tool")
  IN [parts |-> parts, tools |-> tools, diy |-> MergeRollups(parts, tools),
      items |-> results]

\* What PlanCostEstimate validates, when it is built and when it is read back.
Validates(cost) ==
  /\ \A total \in {cost.parts, cost.tools, cost.diy} : Ordered(total)
  /\ \A i \in DOMAIN cost.items : WellFormed(cost.items[i])
=============================================================================
