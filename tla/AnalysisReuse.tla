----------------------------- MODULE AnalysisReuse -----------------------------
(***************************************************************************)
(* When an accepted analysis may be used again, and when an amendment may   *)
(* be analysed as a delta of the filing before it                           *)
(* (radar/analysis_cache.py).  A fingerprint is the value it is taken of.   *)
(***************************************************************************)
EXTENDS Integers, FiniteSets, FiniteSetsExt

CONSTANTS
  ReuseVersion,       (* values a boundary field or a ruleset can take       *)
  ReuseCurrent,       (* bound: boundaries asked for; fields are only compared, *)
                      (* so that one boundary stands for every other         *)
  DeltaSelector,      (* form sections                                       *)
  DeltaText,          (* section texts                                       *)
  DeltaSize,          (* DeltaText -> characters of a section                *)
  DeltaBudget,        (* maximum delta_characters                            *)
  ReuseMoment         (* bound: moments of availability, retrieval, validation *)

ASSUME ReuseAssumption ==
  /\ IsFiniteSet(DeltaSelector) /\ DeltaSize \in [DeltaText -> Nat \ {0}]
  /\ DeltaBudget \in Nat
  /\ ReuseMoment \subseteq Nat

VARIABLE reuse      (* the call in progress: its arguments and its result    *)

reuseVars == <<reuse>>

NoReuse == [op |-> "none"]

-----------------------------------------------------------------------------
(* Exact reuse *)

(* The fields of AnalysisCacheBoundary a call fills in, by the reason that   *)
(* names them in a miss.  Every other field is a Literal with one value      *)
(* (prompt, schema, validator, model, resource envelope, fingerprint         *)
(* version), so that the reasons that name those can never be given.         *)
FieldsOf(reason) ==
  CASE reason = "accession_changed"         -> {"accession_number"}
    [] reason = "source_changed"            -> {"source_content_sha256"}
    [] reason = "evidence_changed"          -> {"evidence_sha256", "evidence_characters"}
    [] reason = "evidence_manifest_changed" -> {"evidence_manifest_sha256"}
    [] reason = "event_fingerprint_changed" -> {"event_fingerprint_manifest_sha256"}
    [] reason = "tier_decision_changed"     -> {"tier_decision_sha256"}
    [] OTHER -> {"event_novelty_ruleset_version", "evidence_budget_version",
                 "extraction_ruleset_version"}

BoundaryField == {"accession_number", "source_content_sha256", "evidence_sha256",
                  "evidence_manifest_sha256", "event_fingerprint_manifest_sha256",
                  "evidence_characters", "tier_decision_sha256",
                  "event_novelty_ruleset_version", "evidence_budget_version",
                  "extraction_ruleset_version"}

MissReasons == {"accession_changed", "source_changed", "evidence_changed",
                "evidence_manifest_changed", "event_fingerprint_changed",
                "tier_decision_changed", "ruleset_changed"}

Boundary == [BoundaryField -> ReuseVersion]

ASSUME CurrentAssumption == ReuseCurrent \subseteq Boundary

(* The budget's ruleset version left out of its group.                       *)
BudgetBlindReasons(current, cached) ==
  {r \in MissReasons :
     \E f \in FieldsOf(r) \ {"evidence_budget_version"} : current[f] # cached[f]}

BoundaryMissReasons(current, cached) ==
  {r \in MissReasons : \E f \in FieldsOf(r) : current[f] # cached[f]}

(* AcceptedAnalysisCacheReceipt.receipt_reconciles                           *)
CacheReceipts == {r \in [boundary : Boundary, cutoff : ReuseMoment, validated : ReuseMoment] :
                    r.validated >= r.cutoff}

(* candidates is empty or holds the one receipt that was looked up.          *)
DecideCacheReuse(current, cutoff, candidates) ==
  CASE candidates = {} -> "miss_no_candidate"
    [] \E c \in candidates : c.validated > cutoff -> "miss_future_result"
    [] \E c \in candidates :
         c.validated <= cutoff /\ BoundaryMissReasons(current, c.boundary) # {} ->
           "miss_boundary_changed"
    [] OTHER -> "exact_reuse"

LookUp(current, cutoff, candidates) ==
  /\ reuse' = [op |-> "look_up", current |-> current, cutoff |-> cutoff,
               candidates |-> candidates,
               result |-> DecideCacheReuse(current, cutoff, candidates)]

-----------------------------------------------------------------------------
(* Deltas *)

(* A form is its family and whether it amends.                               *)
DeltaFamily == {"10-K", "8-K", "S-1"}

DeltaRelationship == {"amendment_of", "successive_periodic_report", "prospectus_update"}

DeltaManifest == [family : DeltaFamily, amends : BOOLEAN, available : ReuseMoment, retrieved : ReuseMoment,
             rules : ReuseVersion, sections : UNION {[S -> DeltaText] : S \in SUBSET DeltaSelector}]

(* AmendmentEvidenceManifest.manifest_reconciles                             *)
ManifestReconciles(m) == m.retrieved >= m.available

Related(prior, current, relationship) ==
  CASE relationship = "amendment_of" -> current.amends /\ current.family = prior.family
    [] relationship = "successive_periodic_report" ->
         ~current.amends /\ current.family = "10-K" /\ prior.family = current.family
    [] OTHER -> prior.family = "S-1" /\ current.family = "S-1"

(* Every condition decide_amendment_delta raises on; the two filings have    *)
(* one CIK and different accession numbers.                                  *)
DeltaAccepted(prior, current, relationship) ==
  /\ Related(prior, current, relationship)
  /\ current.available > prior.available
  /\ current.retrieved > prior.retrieved

Removed(prior, current) == DOMAIN prior.sections \ DOMAIN current.sections

Changed(prior, current) ==
  {s \in DOMAIN current.sections :
     s \in DOMAIN prior.sections => current.sections[s] # prior.sections[s]}

DeltaCharacters(prior, current) ==
  SumFunction([s \in Changed(prior, current) |-> DeltaSize[current.sections[s]]])

FullReanalysis(reason, removed) ==
  [disposition |-> "full_reanalysis", reason |-> reason, changed |-> {}, removed |-> removed,
   characters |-> 0]

DecideDelta(prior, current) ==
  CASE prior.rules # current.rules -> FullReanalysis("ruleset_changed", {})
    [] prior.rules = current.rules
         /\ (DOMAIN prior.sections = {} \/ DOMAIN current.sections = {}) ->
           FullReanalysis("missing_section_manifest", {})
    [] OTHER ->
       CASE Removed(prior, current) # {} ->
              FullReanalysis("removed_relevant_section", Removed(prior, current))
         [] Removed(prior, current) = {} /\ Changed(prior, current) = {} ->
              [disposition |-> "no_selected_delta", reason |-> "selected_evidence_unchanged",
               changed |-> {}, removed |-> {}, characters |-> 0]
         [] OTHER ->
              IF DeltaCharacters(prior, current) > DeltaBudget
              THEN FullReanalysis("delta_exceeds_budget", {})
              ELSE [disposition |-> "delta_ready", reason |-> "reliable_section_delta",
                    changed |-> Changed(prior, current), removed |-> {},
                    characters |-> DeltaCharacters(prior, current)]

(* AmendmentDeltaDecision.decision_shape_reconciles: a decision that fails   *)
(* it raises.                                                                *)
DecisionReconciles(d) ==
  LET ready == d.disposition = "delta_ready" IN
  /\ d.changed \cap d.removed = {}
  /\ ready <=> d.changed # {}
  /\ ready <=> d.characters # 0
  /\ ready => d.removed = {} /\ d.reason = "reliable_section_delta"
  /\ d.disposition = "no_selected_delta" => d.reason = "selected_evidence_unchanged"
  /\ d.disposition = "full_reanalysis" =>
       d.reason \in {"missing_section_manifest", "removed_relevant_section",
                     "delta_exceeds_budget", "ruleset_changed"}

DecideAmendmentDelta(prior, current, relationship) ==
  /\ DeltaAccepted(prior, current, relationship)
  /\ reuse' = [op |-> "delta", prior |-> prior, current |-> current,
               result |-> DecideDelta(prior, current)]

RefuseDelta(prior, current, relationship) ==
  /\ ~DeltaAccepted(prior, current, relationship)
  /\ reuse' = [op |-> "delta_refused"]

ReuseInit == reuse = NoReuse

ReuseReturn == reuse # NoReuse /\ reuse' = NoReuse

ReuseNext ==
  \/ ReuseReturn
  \/ /\ reuse = NoReuse
     /\ \E current \in ReuseCurrent, cutoff \in ReuseMoment :
          \/ LookUp(current, cutoff, {})
          \/ \E c \in CacheReceipts : LookUp(current, cutoff, {c})
  \/ /\ reuse = NoReuse
     /\ \E prior, current \in {m \in DeltaManifest : ManifestReconciles(m)},
           relationship \in DeltaRelationship :
          \/ DecideAmendmentDelta(prior, current, relationship)
          \/ RefuseDelta(prior, current, relationship)

ReuseSpec == ReuseInit /\ [][ReuseNext]_reuseVars

-----------------------------------------------------------------------------
(* Properties *)

(* A cached analysis is used again only when every field of its boundary is  *)
(* the current one and it was validated by the knowledge cutoff; nothing     *)
(* learned later than the cutoff is used (decide_cache_reuse).  A field no   *)
(* miss reason names would be reused across its change.                      *)
ReuseIsExact ==
  reuse.op = "look_up" =>
    (reuse.result = "exact_reuse" <=>
       \E c \in reuse.candidates :
         c.boundary = reuse.current /\ c.validated <= reuse.cutoff)

(* A delta is enough: laying its sections over the prior filing's gives the  *)
(* amended filing's, none is lost, and it fits the budget; "unchanged" means *)
(* the same sections with the same texts; and every decision satisfies the   *)
(* contract it is built into (decide_amendment_delta,                        *)
(* AmendmentDeltaDecision.decision_shape_reconciles).                        *)
DeltaReconstructs ==
  reuse.op = "delta" =>
    LET old == reuse.prior.sections
        new == reuse.current.sections
        d   == reuse.result
        overlay == [s \in DOMAIN old \cup d.changed |->
                      IF s \in d.changed THEN new[s] ELSE old[s]]
    IN
    /\ DecisionReconciles(d)
    /\ d.disposition = "delta_ready" =>
         overlay = new /\ overlay # old /\ d.characters <= DeltaBudget
    /\ d.disposition = "no_selected_delta" => old = new
    /\ d.disposition # "full_reanalysis" => reuse.prior.rules = reuse.current.rules

(* Neither the cache nor the delta gate saves a call by losing evidence.     *)
ReuseLosesNothing == ReuseIsExact /\ DeltaReconstructs
=============================================================================
