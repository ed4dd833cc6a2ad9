---------------------------- MODULE ComputeRouting ----------------------------
(***************************************************************************)
(* Which analysis tier a filing gets (forensics/tiers.py) and which compute *)
(* route the shadow router derives from it (radar/adaptive_compute.py).     *)
(* Hashes and identities are left out: they are functions of the rest.      *)
(***************************************************************************)
EXTENDS Naturals

TierReason == {"no_research_signal", "ambiguous_evidence", "deterministic_contradiction",
           "publication_review", "material_event"}

(* amendment_material_delta and numeric_context_ambiguity are treated as     *)
(* multiple_material_sections is, and left out.                              *)
RouteComplexity == {"multiple_material_sections", "ambiguous_evidence",
               "deterministic_contradiction", "publication_candidate"}

RouteImportance == {"not_established", "focus_material_event", "deterministic_contradiction",
               "publication_candidate"}

(* The observations of choose_tier; evidence: its context_chars is not zero. *)
TierFacts == [relevant : BOOLEAN, material : BOOLEAN, ambiguous : BOOLEAN,
          contradiction : BOOLEAN, publication : BOOLEAN, uncertain : BOOLEAN,
          evidence : BOOLEAN]

VARIABLE routing    (* the last call of choose_adaptive_compute              *)

routingVars == <<routing>>

NoRouting == [outcome |-> "none"]

-----------------------------------------------------------------------------
(* Tiers *)

TierDecision(tier, outcome, reason) ==
  [tier |-> tier, outcome |-> outcome, reason |-> reason, model |-> tier # 0]

UncertaintyFirst(f) == f.uncertain

RetainsUncertain(f) == f.uncertain /\ ~f.material

ChooseTier(f) ==
  CASE ~f.relevant         -> TierDecision(0, "skip", "no_research_signal")
    [] f.relevant /\ RetainsUncertain(f)
                           -> TierDecision(0, "retain", "ambiguous_evidence")
    [] OTHER ->
       CASE f.contradiction -> TierDecision(3, "escalate", "deterministic_contradiction")
         [] ~f.contradiction /\ f.publication
                            -> TierDecision(3, "escalate", "publication_review")
         [] ~f.contradiction /\ ~f.publication /\ f.ambiguous
                            -> TierDecision(1, "escalate", "ambiguous_evidence")
         [] ~f.contradiction /\ ~f.publication /\ ~f.ambiguous /\ f.material
                            -> TierDecision(2, "escalate", "material_event")
         [] OTHER           -> TierDecision(0, "retain", "no_research_signal")

-----------------------------------------------------------------------------
(* Routes *)

(* The complexity reason a tier reason must come with.                       *)
MatchingReason(reason) ==
  CASE reason = "ambiguous_evidence"          -> {"ambiguous_evidence"}
    [] reason = "deterministic_contradiction" -> {"deterministic_contradiction"}
    [] reason = "publication_review"          -> {"publication_candidate"}
    [] OTHER                                  -> {}

AllowedReasons(importance) ==
  CASE importance = "focus_material_event"        -> {"material_event", "ambiguous_evidence"}
    [] importance = "deterministic_contradiction" -> {"deterministic_contradiction"}
    [] importance = "publication_candidate"       -> {"publication_review"}
    [] OTHER                                      -> TierReason

(* AdaptiveComputeInput.evidence_and_reasons_reconcile                       *)
RouteInputReconciles(d, evidence, complexity, importance) ==
  /\ d.model => evidence /\ MatchingReason(d.reason) \subseteq complexity
  /\ ~d.model => complexity = {} /\ importance = "not_established"
  /\ d.reason \in AllowedReasons(importance)

NoModelRoute == [route |-> "no_llm", deployment |-> "current_runtime", model |-> "none",
            profile |-> "none", limits |-> 0, larger |-> "not_requested"]

BoundedRoute == [route |-> "qwen3_4b_bounded", deployment |-> "current_runtime",
            model |-> "qwen3:4b", profile |-> "accepted_bounded", limits |-> 1,
            larger |-> "not_requested"]

RicherRoute == [route |-> "qwen3_4b_richer_bounded", deployment |-> "shadow_only",
           model |-> "qwen3:4b", profile |-> "richer_bounded_shadow", limits |-> 1,
           larger |-> "unavailable_no_benefit_evidence"]

ChooseRoute(d, complexity, importance) ==
  CASE ~d.model -> NoModelRoute
    [] d.model /\ (complexity # {} \/ importance # "not_established") -> RicherRoute
    [] OTHER -> BoundedRoute

(* AdaptiveComputeReceipt.route_is_safe_and_consistent                       *)
RouteReceiptReconciles(r, evidence) ==
  CASE r.route = "no_llm" ->
         /\ r.model = "none" /\ r.profile = "none" /\ r.limits = 0 /\ ~evidence
         /\ r.deployment = "current_runtime" /\ r.larger = "not_requested"
    [] r.route = "qwen3_4b_richer_bounded" ->
         /\ r.model = "qwen3:4b" /\ evidence /\ r.limits = 1
         /\ r.deployment = "shadow_only" /\ r.profile = "richer_bounded_shadow"
         /\ r.larger = "unavailable_no_benefit_evidence"
    [] OTHER ->
         /\ r.model = "qwen3:4b" /\ evidence /\ r.limits = 1
         /\ r.deployment = "current_runtime" /\ r.profile = "accepted_bounded"
         /\ r.larger = "not_requested"

-----------------------------------------------------------------------------
(* Calls *)

RoutingCall(outcome, f, d, complexity, importance, r) ==
  routing' = [outcome |-> outcome, facts |-> f, decision |-> d, complexity |-> complexity,
              importance |-> importance, receipt |-> r]

(* The input contract refuses the call.                                      *)
RefuseInput(f, complexity, importance) ==
  LET d == ChooseTier(f) IN
  /\ ~RouteInputReconciles(d, f.evidence, complexity, importance)
  /\ RoutingCall("input_refused", f, d, complexity, importance, NoModelRoute)

(* choose_adaptive_compute on an accepted input; the receipt's own contract  *)
(* may still refuse what it chose.                                           *)
ChooseAdaptiveCompute(f, complexity, importance) ==
  LET d == ChooseTier(f)
      r == ChooseRoute(d, complexity, importance)
  IN
  /\ RouteInputReconciles(d, f.evidence, complexity, importance)
  /\ RoutingCall(IF RouteReceiptReconciles(r, f.evidence) THEN "routed" ELSE "receipt_refused",
          f, d, complexity, importance, r)

RoutingInit == routing = NoRouting

RoutingReturn == routing # NoRouting /\ routing' = NoRouting

RoutingNext ==
  \/ RoutingReturn
  \/ /\ routing = NoRouting
     /\ \E f \in TierFacts, complexity \in SUBSET RouteComplexity,
           importance \in RouteImportance :
          \/ RefuseInput(f, complexity, importance)
          \/ ChooseAdaptiveCompute(f, complexity, importance)

RoutingSpec == RoutingInit /\ [][RoutingNext]_routingVars

-----------------------------------------------------------------------------
(* Properties *)

(* The two contracts agree on what the router chooses, with one exception    *)
(* that the code has: a tier without a model that was computed on evidence   *)
(* is accepted as an input and raises when its receipt is built.  Whatever   *)
(* is routed to a model has evidence, and only a relevant filing with a      *)
(* contradiction, a publication, an ambiguity or a material term is.         *)
RoutesAreContractual ==
  /\ routing.outcome = "receipt_refused" <=>
       routing.outcome # "none" /\ routing.outcome # "input_refused"
         /\ ~routing.decision.model /\ routing.facts.evidence
  /\ routing.outcome = "routed" /\ routing.receipt.model # "none" =>
       LET f == routing.facts IN
       /\ f.relevant /\ f.evidence
       /\ f.contradiction \/ f.publication \/ f.ambiguous \/ f.material

(* Uncertain forensic inputs alone never buy model time: "retained without   *)
(* increasing confidence" (choose_tier).  A filing with a material term is   *)
(* still judged by its strongest observation.                                *)
UncertaintyNeverEscalates ==
  routing.outcome # "none" =>
    LET f == routing.facts IN
    /\ f.uncertain /\ ~f.material => ~routing.decision.model
    /\ f.relevant /\ f.material => routing.decision.model

(* A filing gets the least compute its observations justify, and the         *)
(* contracts on both sides of the router never refuse what it chose but in   *)
(* one known case.                                                           *)
RoutingIsJustified == RoutesAreContractual /\ UncertaintyNeverEscalates
=============================================================================
