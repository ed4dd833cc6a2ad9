------------------------------- MODULE Signals -------------------------------
(***************************************************************************)
(* The ordinal signal of a research request (signals/engine.py and          *)
(* signals/contracts.py): a request gathers metrics and validated analyses, *)
(* and the ruleset scores opportunity, risk and research confidence, names  *)
(* what is missing and gives a label and a risk profile.  Metric values are *)
(* in thousandths; days stand for dates and cutoffs.                        *)
(***************************************************************************)
EXTENDS Integers, Sequences, FiniteSets, FiniteSetsExt, Functions

CONSTANTS
  SgOffer,            (* metrics offered: [name, value, asOf, cutoff, known] *)
  SgAnalysis,         (* analyses offered: [role, cutoff, audit, hashesMatch, findings, contradictions] *)
  SgEvidence,         (* evidence of the request: [id -> [class, seen]]      *)
  SgAsOf,             (* as_of_date                                          *)
  SgCutoff,           (* knowledge_cutoff_at                                 *)
  MaxSgAnalyses       (* bound: analyses                                     *)

SourceClass ==
  {"sec", "sedar_plus", "government_regulatory", "company_ir", "official_release",
   "reputable_news", "discovery_only"}

ASSUME SignalAssumption ==
  /\ SgAsOf <= SgCutoff
  /\ IsFiniteSet(DOMAIN SgEvidence)
  /\ \A e \in DOMAIN SgEvidence : SgEvidence[e].seen <= SgCutoff
                               /\ SgEvidence[e].class \in SourceClass
  /\ \A m \in SgOffer : m.value \in Int
  /\ \A a \in SgAnalysis :
       /\ a.findings \in Seq([category : STRING, cites : SUBSET STRING])
       /\ a.contradictions \in Seq([open : BOOLEAN, cites : SUBSET STRING])

VARIABLES sgMetrics, sgAnalyses

sgVars == <<sgMetrics, sgAnalyses>>

-----------------------------------------------------------------------------
(* The request *)

SgRange(seq) == {seq[i] : i \in DOMAIN seq}
CitedBy(a) == UNION {x.cites : x \in SgRange(a.findings) \cup SgRange(a.contradictions)}

(* SignalRequest.inputs_are_temporally_and_referentially_consistent          *)
MetricIsAdmissible(m) ==
  /\ m.asOf <= SgAsOf /\ m.cutoff <= SgCutoff /\ m.known
  /\ \A n \in sgMetrics : n.name # m.name

AnalysisIsAdmissible(a) ==
  /\ \A i \in DOMAIN sgAnalyses : sgAnalyses[i].role # a.role
  /\ a.cutoff <= SgCutoff
  /\ a.audit \subseteq DOMAIN SgEvidence /\ a.hashesMatch
  /\ CitedBy(a) \subseteq a.audit

-----------------------------------------------------------------------------
(* Points: the scale of each metric *)

(* The points of the first bound the value is below, or of the last step.    *)
Below(v, bounds, points) == points[1 + Cardinality({i \in DOMAIN bounds : v >= bounds[i]})]
NotAbove(v, bounds, points) == points[1 + Cardinality({i \in DOMAIN bounds : v > bounds[i]})]
Magnitude(v) == IF v < 0 THEN -v ELSE v

OpportunityRule(name, v) ==
  CASE name = "cumulative_price_return" -> Below(v, <<0, 50, 150, 300>>, <<0, 5, 12, 18, 20>>)
    [] name = "benchmark_relative_return" -> Below(v, <<0, 50, 150>>, <<0, 5, 10, 15>>)
    [] name = "period_over_period_growth" -> Below(v, <<0, 100, 250>>, <<0, 5, 10, 15>>)
    [] name = "gross_margin" -> Below(v, <<0, 200, 400>>, <<0, 3, 6, 10>>)
    [] name = "price_to_earnings_ratio" -> NotAbove(v, <<15000, 25000, 40000>>, <<10, 7, 4, 1>>)
    [] name = "relative_strength_index" ->
         IF v \in 40000..70000 THEN 5 ELSE IF v \in 30000..80000 THEN 3 ELSE 0

RiskRule(name, v) ==
  CASE name = "annualized_historical_volatility" -> Below(v, <<250, 450, 700>>, <<5, 12, 20, 25>>)
    [] name = "maximum_drawdown" -> Below(Magnitude(v), <<150, 300, 500>>, <<5, 12, 20, 25>>)
    [] name = "debt_to_equity_ratio" -> Below(v, <<500, 1000, 2000>>, <<3, 8, 14, 20>>)

OpportunityMetrics ==
  {"cumulative_price_return", "benchmark_relative_return", "period_over_period_growth",
   "gross_margin", "price_to_earnings_ratio", "relative_strength_index"}
RiskMetrics == {"annualized_historical_volatility", "maximum_drawdown", "debt_to_equity_ratio"}

-----------------------------------------------------------------------------
(* Traces: a rule's id, its points and the evidence it names *)

Trace(rule, points, evidence) == [rule |-> rule, points |-> points, evidence |-> evidence]

(* What the analyses say, each with its place: in the order of the analyses, *)
(* and of the findings or contradictions of each.                            *)
Said(i, j, item) == [analysis |-> i, place |-> j, item |-> item]

FindingsOf(analyses, categories) ==
  UNION {{Said(i, j, analyses[i].findings[j]) :
            j \in {k \in DOMAIN analyses[i].findings : analyses[i].findings[k].category \in categories}}
         : i \in DOMAIN analyses}

ContradictionsOf(analyses) ==
  UNION {{Said(i, j, analyses[i].contradictions[j]) : j \in DOMAIN analyses[i].contradictions}
         : i \in DOMAIN analyses}

SaidBefore(x, y) ==
  x.analysis < y.analysis \/ (x.analysis = y.analysis /\ x.place < y.place)

Rank(x, said) == 1 + Cardinality({y \in said : SaidBefore(y, x)})

FirstOf(said, n) == {x \in said : Rank(x, said) <= n}

(* With no qualifying input a dimension has one trace of no points.          *)
OrZero(traces, rule) == IF traces = {} THEN {Trace(<<rule>>, 0, {})} ELSE traces

OpportunityTraces(metrics, analyses) ==
  LET findings == FindingsOf(analyses, {"catalyst", "bull case"}) IN
  OrZero({Trace(<<m.name>>, OpportunityRule(m.name, m.value), {}) :
            m \in {n \in metrics : n.name \in OpportunityMetrics}}
         \cup {Trace(<<"qualitative", Rank(f, findings)>>, 5, f.item.cites) :
                 f \in FirstOf(findings, 2)},
         "no inputs")

RiskTraces(metrics, analyses) ==
  LET findings == FindingsOf(analyses, {"risk", "bear case"})
      against == ContradictionsOf(analyses)
  IN
  OrZero({Trace(<<m.name>>, RiskRule(m.name, m.value), {}) :
            m \in {n \in metrics : n.name \in RiskMetrics}}
         \cup {Trace(<<"qualitative", Rank(f, findings)>>, 10, f.item.cites) :
                 f \in FirstOf(findings, 3)}
         \cup {Trace(<<"contradiction", Rank(x, against)>>, IF x.item.open THEN 15 ELSE 3,
                     x.item.cites) : x \in against},
         "no inputs")

Coverage ==
  {<<"momentum", {"cumulative_price_return"}>>,
   <<"benchmark", {"benchmark_relative_return"}>>,
   <<"fundamentals", {"period_over_period_growth", "gross_margin", "debt_to_equity_ratio"}>>,
   <<"valuation", {"price_to_earnings_ratio"}>>}
RiskCoverage == {"annualized_historical_volatility", "maximum_drawdown"}

SourceWeight(class) ==
  CASE class \in {"sec", "sedar_plus", "government_regulatory"} -> 4
    [] class \in {"company_ir", "official_release"} -> 3
    [] class = "reputable_news" -> 2
    [] class = "discovery_only" -> 0

FindingsOnly(analyses) ==
  UNION {f.cites : f \in UNION {SgRange(a.findings) : a \in SgRange(analyses)}}

Cited(analyses) == UNION {CitedBy(a) : a \in SgRange(analyses)}

ConfidenceTraces(metrics, analyses) ==
  LET names == {m.name : m \in metrics}
      risk == RiskCoverage \cap names
      cited == Cited(analyses)
      open == {x \in ContradictionsOf(analyses) : x.item.open}
      weights == SumFunctionOnSet([e \in cited |-> SourceWeight(SgEvidence[e].class)], cited)
  IN OrZero({Trace(<<c[1]>>, 10, {}) : c \in {d \in Coverage : d[2] \cap names # {}}}
            \cup {Trace(<<"risk coverage">>, IF risk = RiskCoverage THEN 15 ELSE 8, {}) :
                    r \in {x \in {risk} : x # {}}}
            \cup {Trace(<<"validated analysis">>, 15, {}) : r \in {x \in {analyses} : x # <<>>}}
            \cup {Trace(<<"cited sources">>, Min({20, weights}), cited) : r \in {x \in {cited} : x # {}}}
            \cup {Trace(<<"role diversity">>, Min({10, 3 * Len(analyses)}), {}) :
                    r \in {x \in {analyses} : x # <<>>}}
            \cup {Trace(<<"unresolved contradiction">>, -15, UNION {x.item.cites : x \in open}) :
                    r \in {x \in {open} : x # {}}},
            "no inputs")

(* _score: the sum of a dimension's traces, between 0 and 100.               *)
Points(traces) == SumFunctionOnSet([t \in traces |-> t.points], traces)
Score(traces) == Min({100, Max({0, Points(traces)})})

-----------------------------------------------------------------------------
(* The result *)

CriticalMissing(metrics, analyses) ==
  LET names == {m.name : m \in metrics} IN
  \/ "cumulative_price_return" \notin names
  \/ RiskCoverage \cap names = {}
  \/ analyses = <<>>
  \/ Cited(analyses) = {}

Label(opportunity, risk, confidence, missing) ==
  IF missing \/ confidence < 55 THEN "insufficient evidence"
  ELSE IF opportunity >= 70 /\ risk <= 35 /\ confidence >= 70 THEN "strong"
  ELSE IF opportunity >= 55 /\ risk > 60 THEN "speculative"
  ELSE IF opportunity >= 55 THEN "moderate"
  ELSE "weak"

Profile(label, opportunity, risk, confidence) ==
  IF label = "insufficient evidence" THEN "unclassified"
  ELSE IF risk <= 35 /\ confidence >= 70 THEN "conservative"
  ELSE IF risk > 60 /\ opportunity >= 55 THEN "aggressive"
  ELSE IF risk > 35 THEN "elevated"
  ELSE "balanced"

(* SignalEngine.evaluate                                                     *)
Signal(metrics, analyses) ==
  LET o == OpportunityTraces(metrics, analyses)
      r == RiskTraces(metrics, analyses)
      c == ConfidenceTraces(metrics, analyses)
      label == Label(Score(o), Score(r), Score(c), CriticalMissing(metrics, analyses))
  IN [opportunity |-> Score(o), risk |-> Score(r), confidence |-> Score(c), label |-> label,
      profile |-> Profile(label, Score(o), Score(r), Score(c)),
      evidence |-> UNION {t.evidence : t \in o \cup r \cup c}]

-----------------------------------------------------------------------------
SgInit == sgMetrics = {} /\ sgAnalyses = <<>>

AddMetric(m) ==
  /\ MetricIsAdmissible(m)
  /\ sgMetrics' = sgMetrics \cup {m}
  /\ UNCHANGED sgAnalyses

AddAnalysis(a) ==
  /\ Len(sgAnalyses) < MaxSgAnalyses
  /\ AnalysisIsAdmissible(a)
  /\ sgAnalyses' = Append(sgAnalyses, a)
  /\ UNCHANGED sgMetrics

SgNext == (\E m \in SgOffer : AddMetric(m)) \/ (\E a \in SgAnalysis : AddAnalysis(a))

SgSpec == SgInit /\ [][SgNext]_sgVars

-----------------------------------------------------------------------------
(* Properties *)

(* A prediction is published with exactly the evidence its signal traces,    *)
(* and that is all the evidence its analyses cite, however many findings the *)
(* ruleset counts.                                                           *)
TracesNameTheEvidence == Signal(sgMetrics, sgAnalyses).evidence = Cited(sgAnalyses)

(* A high opportunity never conceals high risk: label and profile agree, and *)
(* neither is favourable over the upper risk bound.                          *)
RiskIsNotConcealed ==
  LET s == Signal(sgMetrics, sgAnalyses) IN
  /\ s.risk > 60 => /\ s.label \in {"speculative", "weak", "insufficient evidence"}
                    /\ s.profile \in {"aggressive", "elevated", "unclassified"}
  /\ s.label = "strong" => s.profile = "conservative"
  /\ s.label = "speculative" <=> s.profile = "aggressive"
  /\ s.label = "insufficient evidence" <=> s.profile = "unclassified"

(* What a metric adds is never lost: without any one of its metrics the      *)
(* request scores no higher on any scale, and it is not classified if it     *)
(* then is not.                                                              *)
MetricsOnlyInform ==
  \A m \in sgMetrics :
    LET with == Signal(sgMetrics, sgAnalyses)
        without == Signal(sgMetrics \ {m}, sgAnalyses)
    IN /\ without.opportunity <= with.opportunity
       /\ without.risk <= with.risk
       /\ without.confidence <= with.confidence
       /\ without.label # "insufficient evidence" => with.label # "insufficient evidence"

(* The signal says no more than its request supports.                        *)
SignalIsSupported == TracesNameTheEvidence /\ RiskIsNotConcealed /\ MetricsOnlyInform

=============================================================================
