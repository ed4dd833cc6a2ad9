----------------------------- MODULE MCComponents -----------------------------
(***************************************************************************)
(* TLC instances of the components that share no state with one another:    *)
(* a behaviour runs the one that `part` names, and the variables of the     *)
(* others keep their initial values.                                        *)
(***************************************************************************)
EXTENDS ResourceGovernor, ComputeRouting, FilingChange, EvidenceSelection, SectionExtraction,
        EventNovelty, Convergence, FinancingEvidence, AccountingEvents, WebSessions,
        Predictions, Signals, OutcomeScience, Measurements

CONSTANT Parts          \* the components to run

VARIABLE part

-----------------------------------------------------------------------------
(* Values of constants *)

MCReuseCurrent == {[f \in BoundaryField |-> "v1"]}
MCDeltaSize == [t \in DeltaText |-> IF t = "short" THEN 1 ELSE 2]
MCCategory == [s \in DeltaSelector |-> IF s = "liquidity" THEN 1 ELSE 2]

Filed(family, amends, day, available, sections) ==
  [family |-> family, amends |-> amends, filed |-> day, available |-> available, sections |-> sections]

Both(risks, funds) == [s \in {"risk_factors", "liquidity"} |-> IF s = "liquidity" THEN funds ELSE risks]

(* A report, its amendment and the next report; and a prospectus, its update *)
(* and an amended report without its base.                                   *)
MCScenarios ==
  {("a" :> Filed("10-K", FALSE, 0, 0, Both("short", "short"))
    @@ "b" :> Filed("10-K", TRUE, 0, 1, Both("long", "long"))
    @@ "c" :> Filed("10-K", FALSE, 1, 2, "liquidity" :> "short")),
   ("a" :> Filed("S-1", FALSE, 0, 0, Both("short", "short"))
    @@ "b" :> Filed("S-1", TRUE, 0, 1, Both("short", "long"))
    @@ "c" :> Filed("10-K", TRUE, 1, 2, Both("short", "short")))}

MCEntities == <<{"a", "b"}, {"a", "b"}, {"a", "b"}, {"a", "b", "c"}>>
MCFacts == <<{1, 2}, {1}, {1, 2}, {1}>>

MCPhrase == [s \in ToSet(FtSignals) |-> IF s = "OFFERING_PRICE" THEN 4 ELSE 1]

MCDisclosed == <<[c |-> 1, g |-> 0], [c |-> 2, g |-> 1], [c |-> 1, g |-> 1], [c |-> 2, g |-> 2]>>

MCDraft(id, asOf, cutoff, rule) ==
  [id |-> id, asOf |-> asOf, cutoff |-> cutoff, published |-> 1, due |-> asOf + 2,
   rule |-> rule, known |-> 0, traced |-> TRUE]

MCDrafts ==
  {MCDraft("p1", 0, 0, "price return"), MCDraft("p1", 0, 1, "total return"),
   MCDraft("p2", 1, 1, "total return"),
   [MCDraft("p1", 0, 0, "price return") EXCEPT !.known = 1],
   [MCDraft("p1", 0, 1, "price return") EXCEPT !.due = 3],
   [MCDraft("p2", 1, 1, "price return") EXCEPT !.traced = FALSE]}

MCPrice == [asset |-> [d \in PdDay |-> IF d = 2 THEN 3 ELSE 2], benchmark |-> [d \in PdDay |-> 2]]
MCCash == [asset |-> [d \in PdDay |-> IF d = 3 THEN 1 ELSE 0], benchmark |-> [d \in PdDay |-> 0]]

MCOffer(name, value) == [name |-> name, value |-> value, asOf |-> 0, cutoff |-> 1, known |-> TRUE]

MCOffers ==
  {MCOffer("cumulative_price_return", 300), MCOffer("cumulative_price_return", -10),
   MCOffer("benchmark_relative_return", 150), MCOffer("period_over_period_growth", 250),
   MCOffer("price_to_earnings_ratio", 15000),
   MCOffer("relative_strength_index", 70000), MCOffer("annualized_historical_volatility", 200),
   MCOffer("annualized_historical_volatility", 700), MCOffer("maximum_drawdown", -140),
   MCOffer("maximum_drawdown", -500), MCOffer("debt_to_equity_ratio", 400),
   [MCOffer("debt_to_equity_ratio", 2000) EXCEPT !.asOf = 1]}

MCFinding(category, cites) == [category |-> category, cites |-> cites]
MCOpen(cites) == [open |-> TRUE, cites |-> cites]

MCAnalysis(role, findings, contradictions) ==
  [role |-> role, cutoff |-> 1, audit |-> {"e1", "e2", "e3", "e4"}, hashesMatch |-> TRUE,
   findings |-> findings, contradictions |-> contradictions]

MCAnalyses ==
  {MCAnalysis("fundamental", <<MCFinding("bull case", {"e1"}), MCFinding("catalyst", {"e2"}),
                               MCFinding("catalyst", {"e3"})>>, <<>>),
   MCAnalysis("risk", <<MCFinding("risk", {"e4"})>>, <<MCOpen({"e3"})>>),
   MCAnalysis("risk", <<>>, <<[open |-> FALSE, cites |-> {"e2"}]>>),
   MCAnalysis("news", <<MCFinding("bear case", {"e1"})>>, <<MCOpen({"e2", "e3", "e4"})>>),
   [MCAnalysis("audit", <<>>, <<>>) EXCEPT !.audit = {"e9"}]}

MCSources ==
  [e1 |-> [class |-> "reputable_news", seen |-> 0], e2 |-> [class |-> "sec", seen |-> 0],
   e3 |-> [class |-> "company_ir", seen |-> 1], e4 |-> [class |-> "discovery_only", seen |-> 1]]

MCDue == [p \in SciPlan |-> 2]
MCVersion == [p \in SciPlan |-> IF p = "q1" THEN "v1" ELSE "v2"]

-----------------------------------------------------------------------------
(* The union *)

vars == <<part, govVars, routing, reuse, fcVars, evidence, sectioning, noveltyVars, convergenceVars,
          financing, accountingVars, webVars, pdVars, sgVars, sciVars, meVars>>

(* What other parts may start from is fixed where it does not matter.        *)
Init ==
  /\ part \in Parts
  /\ GovernorInit /\ RoutingInit /\ ReuseInit /\ EvidenceInit /\ SectionInit
  /\ NoveltyInit /\ FinancingInit /\ AccountingInit /\ PdInit /\ SgInit /\ SciInit /\ MeInit
  /\ FcInit /\ (part = "filing_change" \/ fcSource = CHOOSE z \in FcScenarios : TRUE)
  /\ WebInit /\ (part = "web" \/ webStore = "memory")
  /\ ConvergenceInit /\ (part = "convergence" \/ cvFiling = CHOOSE f \in CvFilings : TRUE)

Next ==
  /\ UNCHANGED part
  /\ IF part = "governor" THEN GovernorNext ELSE UNCHANGED govVars
  /\ IF part = "routing" THEN RoutingNext ELSE UNCHANGED routing
  /\ IF part = "reuse" THEN ReuseNext ELSE UNCHANGED reuse
  /\ IF part = "filing_change" THEN FcNext ELSE UNCHANGED fcVars
  /\ IF part = "evidence" THEN EvidenceNext ELSE UNCHANGED evidence
  /\ IF part = "sections" THEN SectionNext ELSE UNCHANGED sectioning
  /\ IF part = "novelty" THEN NoveltyNext ELSE UNCHANGED noveltyVars
  /\ IF part = "convergence" THEN ConvergenceNext ELSE UNCHANGED convergenceVars
  /\ IF part = "financing" THEN FinancingNext ELSE UNCHANGED financing
  /\ IF part = "accounting" THEN AccountingNext ELSE UNCHANGED accountingVars
  /\ IF part = "web" THEN WebNext ELSE UNCHANGED webVars
  /\ IF part = "predictions" THEN PdNext ELSE UNCHANGED pdVars
  /\ IF part = "signals" THEN SgNext ELSE UNCHANGED sgVars
  /\ IF part = "science" THEN SciNext ELSE UNCHANGED sciVars
  /\ IF part = "measurements" THEN MeNext ELSE UNCHANGED meVars

Spec == Init /\ [][Next]_vars

(* Type correctness of the components that keep state between steps.         *)
ComponentTypesOK ==
  /\ GovernorTypeOK /\ FcTypeOK /\ NoveltyTypeOK /\ ConvergenceTypeOK
  /\ AccountingTypeOK /\ WebTypeOK /\ ScienceTypeOK /\ MeTypeOK
=============================================================================
