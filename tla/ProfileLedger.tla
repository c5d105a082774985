--------------------------- MODULE ProfileLedger ---------------------------
(***************************************************************************)
(* The claim ledger of one bike: immutable claims with a mutable           *)
(* disposition, one resolution per canonical field, and the projection     *)
(* that riders and agents read.  The ledger is a record                    *)
(*   [claims, res, proj, revision]                                         *)
(* and every write is an operator from ledger to ledger, because the code  *)
(* performs each of them under the lock of the profile's row and commits   *)
(* it whole.                                                               *)
(*                                                                         *)
(* Fields and values stand for the classes of the registry: a brake's      *)
(* mechanism and actuation, the rotor that only a disc brake has, two      *)
(* counts that must agree, and the two summaries derived from them.        *)
(***************************************************************************)
EXTENDS Integers, SequencesExt

CONSTANTS
  NoValue,      \* nothing is known
  ActiveFields  \* the fields whose policy lets an image change the profile

NoClaim == 0

-----------------------------------------------------------------------------
(* The registry. *)

MechanismFields == {"front.mechanism", "rear.mechanism"}

BrakeFields == MechanismFields \cup {"front.actuation", "rear.actuation"}

CountFields == {"cluster.speeds", "shifter.speeds"}

DerivedFields == {"brake.summary", "rear.speeds"}

Fields ==
  BrakeFields \cup {"rear.rotor", "rear.diameter"} \cup CountFields
              \cup DerivedFields

ValuesOf(f) ==
  CASE f = "front.mechanism" -> {"disc", "rim"}
    [] f = "rear.mechanism" -> {"disc", "rim", "coaster"}
    [] f = "front.actuation" -> {"hydraulic", "mechanical"}
    [] f = "rear.actuation" -> {"hydraulic", "mechanical", "none"}
    [] f = "rear.rotor" -> {"present", "absent"}
    [] f = "rear.diameter" -> {160, 180}
    [] f \in CountFields -> {11, 12}
    [] OTHER -> {}

Summaries == {"mechanical_disc", "hydraulic_disc", "rim"}

ASSUME LedgerAssumption ==
  /\ \A f \in Fields : NoValue \notin ValuesOf(f)
  /\ NoValue \notin Summaries

\* The sources a newer and certain enough image may replace.
ImageSupersedes(f) ==
  CASE f \in BrakeFields -> {"image", "manual"}
    [] f \in CountFields -> {"image"}
    [] OTHER -> {}

-----------------------------------------------------------------------------
(* The projection. *)

\* A presence or mechanism that rules a component out takes its leaves along.
ClearedBy(f, v) ==
  CASE f = "rear.mechanism" /\ v # "disc" -> {"rear.rotor", "rear.diameter"}
    [] f = "rear.rotor" /\ v = "absent" -> {"rear.diameter"}
    [] OTHER -> {}

WithTechnicalValue(proj, f, v) ==
  [g \in Fields |-> CASE g = f -> v
                      [] g \in ClearedBy(f, v) -> NoValue
                      [] OTHER -> proj[g]]

ValidProjection(proj) ==
  /\ proj["rear.rotor"] = "absent" => proj["rear.diameter"] = NoValue
  /\ proj["rear.mechanism"] = "coaster" =>
       proj["rear.actuation"] \in {NoValue, "none"}
  /\ proj["rear.actuation"] = "none" =>
       proj["rear.mechanism"] \in {NoValue, "coaster"}
  /\ proj["rear.rotor"] = "present" => proj["rear.mechanism"] = "disc"
  /\ proj["rear.diameter"] # NoValue =>
       proj["rear.mechanism"] \in {NoValue, "disc"}

-----------------------------------------------------------------------------
(* The ledger. *)

\* No row yet: the state "none"; the code then works on a fresh unknown row.
NoResolution ==
  [value |-> NoValue, state |-> "none", claim |-> NoClaim, source |-> "none",
   observed |-> 0, barrier |-> 0, supporting |-> {}, conflicting |-> {}]

EmptyLedger ==
  [claims |-> <<>>, res |-> [f \in Fields |-> NoResolution],
   proj |-> [f \in Fields |-> NoValue], revision |-> 0]

Claim(f, v, source, run, observed, disposition) ==
  [field |-> f, value |-> v, source |-> source, run |-> run,
   observed |-> observed, disposition |-> disposition]

AddClaim(b, c) == [b EXCEPT !.claims = Append(@, c)]

Dispose(b, id, disposition) ==
  [b EXCEPT !.claims[id].disposition = disposition]

Resolve(b, f, r) == [b EXCEPT !.res[f] = r]

\* Faulty: the claim that is replaced stays applied.
SupersedeNothing(b, fs, from) == b

\* Retain the provenance of the current claims of fs, but no longer as current.
SupersedeCurrent(b, fs, from) ==
  LET left == {i \in {b.res[f].claim : f \in fs} \ {NoClaim} :
                 b.claims[i].disposition \in from}
  IN  [b EXCEPT !.claims =
         [i \in 1 .. Len(b.claims) |->
            IF i \in left THEN [b.claims[i] EXCEPT !.disposition = "superseded"]
            ELSE b.claims[i]]]

\* The row of a field whose current claim becomes id.
Current(old, id, c) ==
  [old EXCEPT !.value = c.value, !.state = "resolved", !.claim = id,
              !.source = c.source, !.observed = c.observed,
              !.supporting = {}, !.conflicting = {}]

-----------------------------------------------------------------------------
(* Derived fields. *)

ConflictsOf(b, sources) ==
  UNION {({b.res[f].claim} \ {NoClaim}) \cup b.res[f].conflicting : f \in sources}

Disputed(b, sources) == \E f \in sources : b.res[f].state = "disputed"

ResolvedValue(b, f) ==
  IF b.res[f].state = "resolved" THEN b.res[f].value ELSE NoValue

\* Write a derived value, or that there is none and whether that is disputed.
\* Nothing is written, and no change reported, when the row already says so.
Project(b, d, v, disputed, sources, keepsNoRow) ==
  LET old == b.res[d]
      conflicts == IF disputed THEN ConflictsOf(b, sources) ELSE {}
      state == IF disputed THEN "disputed" ELSE "unknown"
      c == Claim(d, v, "derived", NoClaim, 0, "applied")
      id == Len(b.claims) + 1
      settled == IF v # NoValue
                   THEN old.value = v /\ old.state = "resolved"
                   ELSE /\ old.value = NoValue
                        /\ \/ old.state = state
                           \/ keepsNoRow /\ old.state = "none" /\ ~disputed
                        /\ old.conflicting = conflicts
      moved == SupersedeCurrent(b, {d}, {"applied", "supporting"})
      row == IF v # NoValue THEN Current(old, id, c)
             ELSE [old EXCEPT !.value = NoValue, !.state = state,
                              !.claim = NoClaim, !.source = "derived",
                              !.supporting = {}, !.conflicting = conflicts]
  IN  IF settled THEN b
      ELSE [Resolve(IF v # NoValue THEN AddClaim(moved, c) ELSE moved, d, row)
              EXCEPT !.proj = WithTechnicalValue(@, d, v)]

BrakeSummary(fm, fa, rm, ra) ==
  CASE fm = "disc" /\ rm = "disc" /\ fa = ra /\ fa = "mechanical" -> "mechanical_disc"
    [] fm = "disc" /\ rm = "disc" /\ fa = ra /\ fa = "hydraulic" -> "hydraulic_disc"
    [] fm = "rim" /\ rm = "rim" -> "rim"
    [] OTHER -> NoValue

RecomputeBrakeSummary(b) ==
  LET mechanisms == {ResolvedValue(b, f) : f \in MechanismFields}
      disputed == Disputed(b, BrakeFields)
      summary == IF disputed THEN NoValue
                 ELSE BrakeSummary(ResolvedValue(b, "front.mechanism"),
                                   ResolvedValue(b, "front.actuation"),
                                   ResolvedValue(b, "rear.mechanism"),
                                   ResolvedValue(b, "rear.actuation"))
  IN  IF \A f \in BrakeFields : b.res[f].state = "none" THEN b
      ELSE Project(b, "brake.summary", summary,
                   disputed \/ (summary = NoValue /\ NoValue \notin mechanisms),
                   BrakeFields, TRUE)

\* Faulty: a dispute about one source is not looked at.
RecomputeIgnoringDisputes(b) ==
  LET sources == {f \in CountFields : b.res[f].state # "none"}
      values == {ResolvedValue(b, f) : f \in sources} \ {NoValue}
  IN  IF Cardinality(values) # 1 THEN b
      ELSE Project(b, "rear.speeds", CHOOSE x \in values : TRUE, FALSE, sources, FALSE)

\* One count is resolved exactly when its undisputed sources agree on it.
RecomputeRearSpeeds(b) ==
  LET sources == {f \in CountFields : b.res[f].state # "none"}
      values == {ResolvedValue(b, f) : f \in sources} \ {NoValue}
      v == IF Cardinality(values) = 1 /\ ~Disputed(b, sources)
             THEN CHOOSE x \in values : TRUE ELSE NoValue
  IN  IF sources = {} THEN b
      ELSE Project(b, "rear.speeds", v,
                   Disputed(b, sources) \/ Cardinality(values) > 1, sources, FALSE)

RecomputeDerived(b) == RecomputeRearSpeeds(RecomputeBrakeSummary(b))

\* Faulty: only a change of a derived field raises the revision.
RevisedByDerived(b, changed) ==
  LET d == RecomputeDerived(b)
  IN  IF d # b THEN [d EXCEPT !.revision = @ + 1] ELSE d

\* A write that changed anything but claims and supporting evidence of an edit
\* raises the revision once.
Revised(b, changed) ==
  LET d == RecomputeDerived(b)
  IN  IF changed \/ d # b THEN [d EXCEPT !.revision = @ + 1] ELSE d

-----------------------------------------------------------------------------
(* Manual edits and clears. *)

\* One claim of a manual write: a clear (v = NoValue) sets the barrier, an edit
\* that matches the resolved value only supports it, any other edit wins.
ApplyManual(b, f, v, now) ==
  LET old == b.res[f]
      clear == v = NoValue
      matches == IF clear THEN old.state = "cleared"
                          ELSE old.value = v /\ old.state = "resolved"
      c == Claim(f, v, IF clear THEN "clear" ELSE "manual", NoClaim, now,
                 IF matches THEN "supporting" ELSE "applied")
      id == Len(b.claims) + 1
      added == AddClaim(b, c)
      row == IF clear
               THEN [Current(old, id, c) EXCEPT !.state = "cleared", !.barrier = now]
               ELSE Current(old, id, c)
  IN  CASE matches /\ clear -> added
        [] matches /\ ~clear ->
             Resolve(added, f, [old EXCEPT !.supporting = @ \cup {id}])
        [] OTHER ->
             [Resolve(SupersedeCurrent(added, {f}, {"applied"}), f, row)
                EXCEPT !.proj = WithTechnicalValue(@, f, v)]

\* A patch is a sequence of <<field, value>> pairs.  A claim that would break
\* the projection fails the whole request, which then leaves no trace.
Applied(b, patch, now) ==
  FoldLeft(LAMBDA a, p : ApplyManual(a, p[1], p[2], now), b, patch)

PatchFits(b, patch) ==
  \A i \in 1 .. Len(patch) :
    ValidProjection(WithTechnicalValue(Applied(b, SubSeq(patch, 1, i - 1), 0).proj,
                                       patch[i][1], patch[i][2]))

ApplyPatch(b, patch, now) ==
  LET applied == Applied(b, patch, now)
  IN  Revised(applied, \E f \in Fields : b.res[f].claim # applied.res[f].claim)

\* The deprecated brake type writes the positioned facts it stands for.  Its
\* "unknown" and "other" also write the summary by hand, which is left out.
LegacyBrakePatch(brake) ==
  LET pair(m, a) == << <<"front.mechanism", m>>, <<"front.actuation", a>>,
                       <<"rear.mechanism", m>>, <<"rear.actuation", a>> >>
  IN  CASE brake = "mechanical_disc" -> pair("disc", "mechanical")
        [] brake = "hydraulic_disc" -> pair("disc", "hydraulic")
        [] brake = "rim" -> << <<"front.mechanism", "rim">>, <<"rear.mechanism", "rim">> >>
        [] brake = "coaster" -> << <<"rear.mechanism", "coaster">>, <<"rear.actuation", "none">> >>

-----------------------------------------------------------------------------
(* Claims of a profile inference run. *)

\* What an extractor may say of a field: how certain, and whether the evidence
\* shows the part clearly and installed on this bike.
Finding(f, v, score, installed) ==
  [field |-> f, value |-> v, score |-> score, installed |-> installed]

\* Mechanisms first, then what hangs on a rotor, then the rest; by path in each.
ResolutionOrder(f) ==
  CASE f = "front.mechanism" -> 1
    [] f = "rear.mechanism" -> 2
    [] f = "rear.diameter" -> 3
    [] f = "rear.rotor" -> 4
    [] f = "front.actuation" -> 5
    [] f = "rear.actuation" -> 6
    [] f = "cluster.speeds" -> 7
    [] f = "shifter.speeds" -> 8
    [] f \in DerivedFields -> 9

\* Facts that a new projection no longer carries stop being resolved.
RetireInvalidated(b, next, kept) ==
  LET gone == {g \in Fields \ {kept} : /\ b.proj[g] # NoValue
                                       /\ next[g] = NoValue
                                       /\ b.res[g].value # NoValue}
  IN  [SupersedeCurrent(b, gone, {"applied", "supporting"}) EXCEPT !.res =
         [g \in Fields |->
            IF g \in gone
              THEN [NoResolution EXCEPT !.state = "unknown", !.barrier = b.res[g].barrier]
              ELSE b.res[g]]]

\* Make claim id, already in the ledger, the current one of its field.
TakeCurrent(b, id) ==
  LET c == b.claims[id]
      next == WithTechnicalValue(b.proj, c.field, c.value)
      moved == SupersedeCurrent(Dispose(b, id, "applied"), {c.field},
                                {"applied", "supporting"})
      placed == Resolve(moved, c.field, Current(b.res[c.field], id, c))
  IN  [RetireInvalidated(placed, next, c.field) EXCEPT !.proj = next]

WaitsForDisc(b, f, v) ==
  /\ f \in {"rear.rotor", "rear.diameter"}
  /\ v # "absent"
  /\ b.proj["rear.mechanism"] # "disc"

ComponentAbsent(b, f) == f = "rear.diameter" /\ b.proj["rear.rotor"] = "absent"

\* Faulty: a clear only forgets the value.
ClearIsNoBarrier(old, observed) == FALSE

BlockedByClear(old, observed) == old.barrier # 0 /\ observed <= old.barrier

CanSupersede(old, c, fd) ==
  /\ old.value # NoValue
  /\ old.source \in ImageSupersedes(c.field)
  /\ old.observed # 0 /\ c.observed > old.observed
  /\ fd.score = "overwrite"

\* A promoted policy stands behind every kind of evidence of the field, or none.
HasPolicy(f) == f \in ActiveFields

Eligible(fd) == HasPolicy(fd.field) /\ fd.installed

\* The score reaches the policy's threshold for filling a field.
Certain(fd) == fd.score # "low"

Unknown(old) ==
  old.value = NoValue /\ old.state \in {"none", "unknown", "cleared"}

Support(b, id) ==
  Resolve(Dispose(b, id, "supporting"), b.claims[id].field,
          [b.res[b.claims[id].field] EXCEPT !.supporting = @ \cup {id}])

\* The current value stays, but is disputed from now on.
Dispute(b, id) ==
  Resolve(Dispose(b, id, "conflict"), b.claims[id].field,
          [b.res[b.claims[id].field] EXCEPT !.conflicting = @ \cup {id},
                                            !.state = "disputed"])

\* What the resolver does with claim id, whose evidence was found as fd.
ResolveClaim(b, id, fd) ==
  LET c == b.claims[id]
      old == b.res[c.field]
      waits == \/ WaitsForDisc(b, c.field, c.value) \/ ComponentAbsent(b, c.field)
               \/ BlockedByClear(old, c.observed) \/ ~Eligible(fd)
               \/ Unknown(old) /\ ~Certain(fd)
  IN  IF c.field \in DerivedFields THEN Dispose(b, id, "rejected")
      ELSE IF waits THEN Dispose(b, id, "pending")
      ELSE IF Unknown(old) THEN TakeCurrent(b, id)
      ELSE IF old.claim = id THEN Dispose(b, id, "applied")
      ELSE IF c.value = old.value THEN Support(b, id)
      ELSE IF CanSupersede(old, c, fd) THEN TakeCurrent(b, id)
      ELSE IF id \in old.conflicting THEN Dispose(b, id, "conflict")
      ELSE Dispute(b, id)

\* The claim of an earlier, unfinished attempt of the run with the same content.
SameClaim(b, run, fd) ==
  {i \in 1 .. Len(b.claims) : /\ b.claims[i].source = "image"
                              /\ b.claims[i].run = run
                              /\ b.claims[i].field = fd.field
                              /\ b.claims[i].value = fd.value}

PersistClaims(b, run, findings, observed) ==
  FoldLeft(LAMBDA a, fd :
             IF SameClaim(a, run, fd) # {} THEN a
             ELSE AddClaim(a, Claim(fd.field, fd.value, "image", run, observed, "pending")),
           b, findings)

\* The findings in the order in which they are resolved: there is one such list.
InOrder(findings) ==
  {list \in [1 .. Cardinality(findings) -> findings] :
     \A i, k \in DOMAIN list :
       i < k => ResolutionOrder(list[i].field) < ResolutionOrder(list[k].field)}

\* The first n of a run's findings, in order, resolved after all are persisted.
ResolveFirst(b, run, ordered, observed, n) ==
  FoldLeft(LAMBDA a, fd :
             ResolveClaim(a, CHOOSE i \in SameClaim(a, run, fd) : TRUE, fd),
           PersistClaims(b, run, ordered, observed), SubSeq(ordered, 1, n))

\* A value the projection's invariants refuse fails the whole resolution.
RunFits(b, run, ordered, observed) ==
  \A n \in 1 .. Len(ordered) :
    ValidProjection(ResolveFirst(b, run, ordered, observed, n).proj)

ResolveRun(b, run, ordered, observed) ==
  LET resolved == ResolveFirst(b, run, ordered, observed, Len(ordered))
  IN  Revised(resolved, resolved.res # b.res)

-----------------------------------------------------------------------------
(* What a diagnostic agent reads. *)

\* Whether a mistake about the field can hurt somebody, or buys the wrong part.
ConsequenceClass(f) ==
  CASE f \in BrakeFields \cup {"rear.rotor", "rear.diameter"} -> "safety"
    [] f = "brake.summary" -> "low"
    [] OTHER -> "compatibility"

\* profile_field_requires_independent_evidence
NeedsIndependentEvidence(f, r) ==
  /\ ConsequenceClass(f) \in {"safety", "compatibility"}
  /\ r.state = "disputed" \/ r.source = "image"

\* The deprecated brake type of a profile: a matching pair in the projection,
\* disputed or not, else the stored summary.
LegacyBrakeType(b) ==
  LET matching == BrakeSummary(b.proj["front.mechanism"], b.proj["front.actuation"],
                               b.proj["rear.mechanism"], b.proj["rear.actuation"])
  IN  IF matching # NoValue THEN matching ELSE b.proj["brake.summary"]

Conflict(b, f) ==
  [field |-> f, current |-> b.res[f].value,
   candidates |-> {b.claims[i].value : i \in b.res[f].conflicting}]

\* _diagnostic_projection: the projection, and of each field with a row its
\* state, whether it needs other evidence, and the claims that contradict it.
DiagnosticProfile(b) ==
  LET stated == {f \in Fields : b.res[f].state # "none"}
  IN  [revision |-> b.revision,
       values |-> b.proj,
       brakeType |-> LegacyBrakeType(b),
       states |-> [f \in Fields |-> b.res[f].state],
       cautious |-> {f \in stated : NeedsIndependentEvidence(f, b.res[f])},
       conflicts |-> {Conflict(b, f) : f \in {g \in stated : b.res[g].state = "disputed"}}]
=============================================================================
