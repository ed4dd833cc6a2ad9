----------------------------- MODULE Predictions -----------------------------
(***************************************************************************)
(* Published predictions and their appended outcomes (predictions/): the    *)
(* append-only ledger, the evaluation of an outcome at the declared         *)
(* horizon, the job that asks whether one is due, and the report over what  *)
(* has been appended.  Times are days; prices and distributions belong to   *)
(* an instrument and a day; a mean is the set of outcomes it is taken of;   *)
(* the security's status, which is only counted, is left out.               *)
(***************************************************************************)
EXTENDS Integers, Sequences, FiniteSets, SequencesExt

CONSTANTS
  PdDraft,            (* the predictions offered to the ledger               *)
  PdHorizon,          (* horizon_days                                        *)
  PdPrice,            (* price of an instrument on a day                     *)
  PdCash,             (* cash distributed per share by that day              *)
  PdDescriptive,      (* thirty outcomes                                     *)
  MaxPdDay,           (* bound: days                                         *)
  MaxPdOutcomes,      (* bound: outcomes                                     *)
  MaxPdCorrections    (* bound: corrections                                  *)

ASSUME PredictionAssumption ==
  /\ PdDraft \subseteq [id : STRING, asOf : Nat, cutoff : Nat, published : Nat, due : Nat,
                        rule : {"price return", "total return"}, known : Nat, traced : BOOLEAN]
  /\ {PdHorizon, PdDescriptive, MaxPdDay, MaxPdOutcomes, MaxPdCorrections} \subseteq Nat

VARIABLES
  pdPredictions,      (* _predictions, in the order appended                 *)
  pdCorrections,      (* _corrections                                        *)
  pdOutcomes,         (* _outcomes                                           *)
  pdChain             (* _hash_chain: what each digest commits to            *)

pdVars == <<pdPredictions, pdCorrections, pdOutcomes, pdChain>>

PdDay == 0..MaxPdDay
PdOrigin == {"forward", "reconstructed"}
MissingValues == [on |-> -1, seen |-> -1]

-----------------------------------------------------------------------------
(* Contracts *)

(* PredictionRecord.publication_is_point_in_time_and_complete.  `known' is   *)
(* the latest retrieval of the evidence, `traced' whether the evidence,      *)
(* hashes, scores and versions repeat the signal's own.                      *)
PublicationIsComplete(p) ==
  /\ p.asOf <= p.cutoff /\ p.cutoff <= p.published
  /\ p.due = p.asOf + PdHorizon
  /\ p.known <= p.cutoff
  /\ p.traced

(* A ReturnObservation of one instrument: the day it is of and the day it    *)
(* was retrieved, no earlier than it was available; the contract does not    *)
(* compare the two.                                                          *)
PdObservation == [on : PdDay, seen : PdDay]

PdSides == {"assetStart", "assetEnd", "benchmarkStart", "benchmarkEnd"}
PdStarts == {"assetStart", "benchmarkStart"}
PdObserved(input) == {s \in PdSides : input.obs[s] # MissingValues}

EffectiveOnly(p, o) == o.on <= p.asOf

StartIsKnown(p, o) == o.on <= p.asOf /\ o.seen <= p.cutoff

(* OutcomeEvaluationInput.evaluation_is_temporally_consistent                *)
EvaluationIsConsistent(p, input) ==
  /\ input.at >= p.due /\ input.cutoff >= input.at
  /\ \A s \in PdObserved(input) :
       /\ input.obs[s].seen <= input.cutoff
       /\ s \in PdStarts => StartIsKnown(p, input.obs[s])
       /\ s \notin PdStarts => input.obs[s].on >= p.due
  /\ \A d \in input.actions : d >= p.asOf

-----------------------------------------------------------------------------
(* OutcomeEvaluator *)

(* What a holder has on the end day for each unit of the start price.        *)
Worth(p, who, o) ==
  PdPrice[who][o.on] + IF p.rule = "total return" THEN PdCash[who][o.on] ELSE 0

(* Returns are compared as fractions of the two start prices.                *)
Assessment(p, obs) ==
  LET as == PdPrice["asset"][obs["assetStart"].on]
      ae == Worth(p, "asset", obs["assetEnd"])
      bs == PdPrice["benchmark"][obs["benchmarkStart"].on]
      be == Worth(p, "benchmark", obs["benchmarkEnd"])
  IN IF ae > as /\ ae * bs > be * as THEN "positive absolute and relative"
     ELSE IF ae > as THEN "positive absolute only"
     ELSE "non positive"

(* evaluate: the id hashes the prediction, the time and the observations,    *)
(* and neither the cutoff, the origin, the status nor the corporate actions. *)
EvaluateOutcome(p, input) ==
  [id |-> <<p.id, input.at, input.obs>>, prediction |-> p.id, appended |-> input.at,
   obs |-> input.obs, rule |-> p.rule, origin |-> input.origin,
   assessment |-> IF PdObserved(input) = PdSides THEN Assessment(p, input.obs)
                  ELSE "unavailable"]

(* The places of a prediction's outcomes among those of the ledger.          *)
OutcomesOf(p) == {i \in DOMAIN pdOutcomes : pdOutcomes[i].prediction = p.id}

(* job_for: the outcome appended last, whatever its time.                    *)
OutcomeJob(p, day) ==
  LET mine == OutcomesOf(p)
  IN [status |-> IF mine # {} THEN "completed" ELSE IF day < p.due THEN "not due" ELSE "ready",
      outcome |-> {pdOutcomes[i].id : i \in {k \in mine : \A j \in mine : j <= k}}]

(* report: of two outcomes appended at one time the first stands.            *)
SelectedOutcome(p) ==
  LET mine == OutcomesOf(p)
      Later(i, j) == \/ pdOutcomes[i].appended > pdOutcomes[j].appended
                     \/ pdOutcomes[i].appended = pdOutcomes[j].appended /\ i < j
  IN {pdOutcomes[i] : i \in {k \in mine : \A j \in mine \ {k} : Later(k, j)}}

ForwardAvailable(values) ==
  {o \in values : o.assessment # "unavailable" /\ o.origin = "forward"}

EvaluationReport ==
  LET values == UNION {SelectedOutcome(p) : p \in ToSet(pdPredictions)}
      forward == ForwardAvailable(values)
  IN [predictions |-> Len(pdPredictions), evaluated |-> Cardinality(values),
      unavailable |-> Cardinality({o \in values : o.assessment = "unavailable"}),
      mean |-> forward,
      forward |-> Cardinality({o \in values : o.origin = "forward"}),
      reconstructed |-> Cardinality({o \in values : o.origin = "reconstructed"}),
      positive |-> Cardinality({o \in forward : o.assessment = "positive absolute and relative"}),
      inference |-> IF Cardinality(forward) >= PdDescriptive THEN "descriptive" ELSE "inconclusive"]

-----------------------------------------------------------------------------
(* MemoryPredictionLedger *)

PdInit ==
  /\ pdPredictions = <<>> /\ pdCorrections = <<>> /\ pdOutcomes = <<>> /\ pdChain = <<>>

EnsureNew(id, records) == \A i \in DOMAIN records : records[i].id # id

AppendHash(kind, record) == pdChain' = Append(pdChain, <<kind, record.id>>)

AppendPrediction(p) ==
  /\ PublicationIsComplete(p)
  /\ EnsureNew(p.id, pdPredictions)
  /\ pdPredictions' = Append(pdPredictions, p)
  /\ AppendHash("prediction", p)
  /\ UNCHANGED <<pdCorrections, pdOutcomes>>

AppendCorrection(p, day) ==
  LET c == [id |-> Len(pdCorrections) + 1, prediction |-> p.id, at |-> day] IN
  /\ Len(pdCorrections) < MaxPdCorrections
  /\ day >= p.published
  /\ EnsureNew(c.id, pdCorrections)
  /\ pdCorrections' = Append(pdCorrections, c)
  /\ AppendHash("correction", c)
  /\ UNCHANGED <<pdPredictions, pdOutcomes>>

(* An evaluation whose input is refused appends nothing; one whose id is in  *)
(* the ledger already raises DuplicateRecordError.  The ledger checks the    *)
(* horizon and the rule once more, against its own record of the prediction, *)
(* which here is the one that was evaluated.                                 *)
AppendOutcome(p, input) ==
  LET o == EvaluateOutcome(p, input) IN
  /\ Len(pdOutcomes) < MaxPdOutcomes
  /\ EvaluationIsConsistent(p, input)
  /\ input.at >= p.due /\ o.rule = p.rule
  /\ EnsureNew(o.id, pdOutcomes)
  /\ pdOutcomes' = Append(pdOutcomes, o)
  /\ AppendHash("outcome", o)
  /\ UNCHANGED <<pdPredictions, pdCorrections>>

(* Bound: asset and benchmark are observed on the same days, the asset's     *)
(* last price may be missing, the cutoff is the day or the last one, and     *)
(* prices of the start are not retrieved before their day, those of the end  *)
(* not on it.                                                                *)
PdInputs ==
  {[at |-> day, cutoff |-> IF late THEN MaxPdDay ELSE day, origin |-> origin, actions |-> actions,
    obs |-> [s \in PdSides |-> IF s \in lost THEN MissingValues
                               ELSE IF s \in PdStarts THEN start ELSE end]] :
     day \in PdDay, origin \in PdOrigin, actions \in {{}, {0}, {2}},
     lost \in {{}, {"assetEnd"}},
     start \in {o \in PdObservation : o.on <= o.seen /\ o.on <= 1 /\ o.seen <= 2},
     end \in {o \in PdObservation : o.on >= PdHorizon /\ o.seen >= PdHorizon /\ o.on # o.seen},
     late \in BOOLEAN}

PdNext ==
  \/ \E p \in PdDraft : AppendPrediction(p)
  \/ \E i \in DOMAIN pdPredictions :
       \/ \E day \in {0, MaxPdDay} : AppendCorrection(pdPredictions[i], day)
       \/ \E input \in PdInputs : AppendOutcome(pdPredictions[i], input)

PdSpec == PdInit /\ [][PdNext]_pdVars

-----------------------------------------------------------------------------
(* Properties *)

(* An outcome with returns compares a price that was known when the          *)
(* prediction was published with one at least a horizon later.               *)
NoLookAhead ==
  \A i \in DOMAIN pdOutcomes : LET o == pdOutcomes[i] IN
    \E p \in ToSet(pdPredictions) :
      /\ p.id = o.prediction /\ p.rule = o.rule
      /\ o.assessment # "unavailable" =>
           \A s \in PdStarts, e \in PdSides \ PdStarts :
             /\ o.obs[s].seen <= p.published
             /\ o.obs[e].on - o.obs[s].on >= PdHorizon

(* The report counts each evaluated prediction once, by an outcome no older  *)
(* than any other of that prediction; a reconstructed observation is counted *)
(* and never enters a mean; and a prediction is in the report exactly when   *)
(* its job is completed.                                                     *)
ReportsCountOnce ==
  /\ EvaluationReport.evaluated = EvaluationReport.forward + EvaluationReport.reconstructed
  /\ EvaluationReport.evaluated =
       Cardinality({p \in ToSet(pdPredictions) : OutcomeJob(p, MaxPdDay).status = "completed"})
  /\ \A o \in EvaluationReport.mean : o.origin = "forward" /\ o.assessment # "unavailable"
  /\ \A i \in DOMAIN pdOutcomes : \E p \in ToSet(pdPredictions) :
       /\ pdOutcomes[i].prediction = p.id
       /\ \E o \in SelectedOutcome(p) : o.appended >= pdOutcomes[i].appended

(* The chain commits to the records of every list in the order they were     *)
(* appended, so that no list can be changed without the head changing: the   *)
(* n-th entry of a kind is the n-th record of its list, and none is missing. *)
ChainCommitsToLists ==
  \A k \in {<<"prediction", pdPredictions>>, <<"correction", pdCorrections>>,
            <<"outcome", pdOutcomes>>} :
    LET Entries(i) == {j \in 1..i : pdChain[j][1] = k[1]}
    IN /\ Cardinality(Entries(Len(pdChain))) = Len(k[2])
       /\ \A i \in Entries(Len(pdChain)) : pdChain[i][2] = k[2][Cardinality(Entries(i))].id

(* Outcomes neither look ahead nor are counted twice.                        *)
PredictionsAreAccountedFor == NoLookAhead /\ ReportsCountOnce /\ ChainCommitsToLists

=============================================================================
