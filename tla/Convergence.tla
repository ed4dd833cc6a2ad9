----------------------------- MODULE Convergence ------------------------------
(***************************************************************************)
(* Deterministic contradiction receipts: the adapters and the evaluation of *)
(* forensics/contradictions.py, the producers of                            *)
(* forensics/convergence_producers.py, the service that appends a receipt,  *)
(* its ledger, and the job that calls them before it completes              *)
(* (radar/ownership_worker.py, radar/financing_worker.py, radar/worker.py). *)
(*                                                                          *)
(* One filing of one issuer.  Days are numbers; identities and hashes are   *)
(* the values they identify.                                                *)
(***************************************************************************)
EXTENDS Integers, FiniteSets, FiniteSetsExt, Functions

CONSTANTS
  MaxCvDay,          (* bound: the last day                                  *)
  CvShares,          (* bound: share counts and amounts                      *)
  CvAttemptLimit,    (* attempts of a job                                    *)
  MaxCvCrash         (* bound: crashes                                       *)

ASSUME ConvergenceAssumption ==
  {MaxCvDay, CvShares, CvAttemptLimit} \subseteq Nat \ {0} /\ MaxCvCrash \in Nat

CvDay == 1..MaxCvDay
CvValue == 0..CvShares

VARIABLES
  cvFiling,          (* the filing the job is about                          *)
  cvDay,             (* today: the knowledge cutoff of an attempt            *)
  cvJob,             (* its status, attempts and requests still to persist   *)
  cvReceipts,        (* research_contradiction_receipts                      *)
  cvCrashes,
  cvAssessed         (* the last direct evaluation of a dilution claim       *)

convergenceVars == <<cvFiling, cvDay, cvJob, cvReceipts, cvCrashes, cvAssessed>>

-----------------------------------------------------------------------------
(* Facts.  A fact is its kind, value and date; a set of facts has at most    *)
(* one of a kind (ContradictionReceipt.result_recomputes_exactly).           *)

CvFact(kind, value, day) == [kind |-> kind, value |-> value, day |-> day]

Has(facts, kind) == \E x \in facts : x.kind = kind
The(facts, kind) == CHOOSE x \in facts : x.kind = kind

Verdict(observed, asserted) ==
  IF observed = asserted THEN "SUPPORTED" ELSE "CONFLICTED"

(* observed is the set of the truth values observed: one or none.            *)
CvResult(disposition, observed) == [disposition |-> disposition, observed |-> observed]
(* Facts that are missing, or that belong to different periods.              *)
CvInsufficient == CvResult("INSUFFICIENT", {})
CvIncomparable == CvResult("INSUFFICIENT", {})

EvaluateLiquidity(facts, asserted) ==
  LET observed == The(facts, "CASH").value >= The(facts, "CURRENT_LIABILITIES").value IN
  IF ~Has(facts, "CASH") \/ ~Has(facts, "CURRENT_LIABILITIES") THEN CvInsufficient
  ELSE IF The(facts, "CASH").day # The(facts, "CURRENT_LIABILITIES").day THEN CvIncomparable
  ELSE CvResult(Verdict(observed, asserted), {observed})

EvaluateInsider(facts, asserted) ==
  LET bought == Has(facts, "ACQUIRED")
      sold == Has(facts, "DISPOSED")
      observed == The(facts, "ACQUIRED").value > The(facts, "DISPOSED").value
  IN
  IF ~bought /\ ~sold /\ Has(facts, "PLANNED_SALE") THEN CvResult("NOT_APPLICABLE", {})
  ELSE IF ~bought \/ ~sold THEN CvInsufficient
  ELSE IF The(facts, "ACQUIRED").day # The(facts, "DISPOSED").day THEN CvIncomparable
  ELSE CvResult(Verdict(observed, asserted), {observed})

Positive(facts, kind) == Has(facts, kind) /\ The(facts, kind).value > 0

(* No growth shows the absence of dilution only beside a closed count of     *)
(* zero instruments and no registration.                                     *)
AbsenceIsClosed(facts) ==
  /\ Has(facts, "INSTRUMENTS") /\ The(facts, "INSTRUMENTS").value = 0
  /\ ~Positive(facts, "REGISTERED")

EvaluateDilution(facts, asserted) ==
  LET pair == Has(facts, "PRIOR") /\ Has(facts, "CURRENT")
      grew == The(facts, "CURRENT").value > The(facts, "PRIOR").value
  IN
  IF pair /\ The(facts, "PRIOR").day >= The(facts, "CURRENT").day THEN CvIncomparable
  ELSE IF Positive(facts, "ISSUABLE") \/ Positive(facts, "INSTRUMENTS")
  THEN CvResult(Verdict(TRUE, asserted), {TRUE})
  ELSE IF ~pair THEN CvInsufficient
  ELSE IF grew THEN CvResult(Verdict(TRUE, asserted), {TRUE})
  ELSE IF ~AbsenceIsClosed(facts) THEN CvInsufficient
  ELSE CvResult(Verdict(FALSE, asserted), {FALSE})

CvEvaluate(claim, facts) ==
  CASE claim.predicate = "CASH_AT_LEAST_CURRENT_LIABILITIES" ->
         EvaluateLiquidity(facts, claim.asserted)
    [] claim.predicate = "DILUTION_EXPOSURE_PRESENT" -> EvaluateDilution(facts, claim.asserted)
    [] claim.predicate = "NET_INSIDER_ACQUISITION"   -> EvaluateInsider(facts, claim.asserted)

-----------------------------------------------------------------------------
(* Producers *)

CvTerm == [dilutive : BOOLEAN, active : BOOLEAN, issuable : CvValue]
CvTrade == [day : CvDay, derivative : BOOLEAN, side : {"A", "D"}, shares : CvValue]
CvXbrl == [tag : {"cash", "restricted_cash", "liabilities"}, period : CvDay, value : CvValue,
           available : CvDay]

AtMost(n, S) == {{}} \cup {{x} : x \in S} \cup (IF n = 2 THEN {{x, y} : x, y \in S} ELSE {})

(* Bound: two terms, two trades, two XBRL facts and one more liability.      *)
CvFilings ==
  [source : {"financing"}, terms : AtMost(2, CvTerm)]
    \cup [source : {"section_16"}, trades : {t \in AtMost(2, CvTrade) : \A x \in t : x.day = 1 \/ x.day = 2}]
    \cup [source : {"form_144"}, saleDay : CvDay, units : CvValue]
    \cup [source : {"schedule_13"}]
    \cup [source : {"xbrl"},
          facts : {s \cup t : s \in AtMost(2, {x \in CvXbrl : x.available = 1 /\ x.period <= 2}),
                              t \in AtMost(1, {x \in CvXbrl : x.period = 2 /\ x.available = 2
                                                 /\ x.value = 1})}]

CvClaim(predicate, asserted, scope, day, basis) ==
  [predicate |-> predicate, asserted |-> asserted, scope |-> scope, day |-> day,
   basis |-> basis]

CvRequest(claim, facts, completeness) ==
  [claim |-> claim, facts |-> facts, completeness |-> completeness]

(* financing_contradiction_facts: the active dilutive terms that name        *)
(* issuable shares.  Accepted and retrieved on day 1.                        *)
FinancingRequests(filing) ==
  LET qualifying == {t \in filing.terms : t.dilutive /\ t.active /\ t.issuable > 0} IN
  IF qualifying = {} THEN {}
  ELSE {CvRequest(CvClaim("DILUTION_EXPOSURE_PRESENT", TRUE, "financing", 1, {}),
                  {CvFact("INSTRUMENTS", Cardinality(qualifying), 1)},
                  "REQUIRED_FACTS_COMPLETE")}

SharesIn(trades) == SumFunctionOnSet([x \in trades |-> x.shares], trades)
Total(trades, side) == SharesIn({x \in trades : x.side = side})

EveryTrade(trades, scope) == trades

(* The transactions of one date and derivative scope.                        *)
InScope(trades, scope) == {x \in trades : x.day = scope[1] /\ x.derivative = scope[2]}

Section16Requests(filing) ==
  {LET scoped == InScope(filing.trades, scope) IN
   CvRequest(CvClaim("NET_INSIDER_ACQUISITION", TRUE, scope, scope[1], {}),
             {CvFact("ACQUIRED", Total(scoped, "A"), scope[1]),
              CvFact("DISPOSED", Total(scoped, "D"), scope[1])},
             "REQUIRED_FACTS_COMPLETE")
   : scope \in {<<x.day, x.derivative>> : x \in filing.trades}}

Form144Requests(filing) ==
  {CvRequest(CvClaim("NET_INSIDER_ACQUISITION", FALSE, "planned-sale", filing.saleDay, {}),
             {CvFact("PLANNED_SALE", filing.units, filing.saleDay)},
             "NOT_APPLICABLE_CONTEXT")}

(* What a liquidity claim is bound to: the manifest of the facts in sight.   *)
Manifest(known) == known

(* xbrl_liquidity_convergence_decision: one pair, at the latest period.      *)
XbrlRequests(filing, cutoff) ==
  LET known == {x \in filing.facts : x.available <= cutoff}
      latest == Max({x.period : x \in known})
      cash == {x \in known : x.period = latest /\ x.tag # "liabilities"}
      owed == {x \in known : x.period = latest /\ x.tag = "liabilities"}
  IN
  IF known = {} \/ Cardinality(cash) # 1 \/ Cardinality(owed) # 1 THEN {}
  ELSE {CvRequest(CvClaim("CASH_AT_LEAST_CURRENT_LIABILITIES", TRUE, "xbrl", latest,
                          Manifest(known)),
                  {CvFact("CASH", x.value, latest) : x \in cash}
                    \cup {CvFact("CURRENT_LIABILITIES", x.value, latest) : x \in owed},
                  "REQUIRED_FACTS_COMPLETE")}

ProducerRequests(filing, cutoff) ==
  CASE filing.source = "financing"   -> FinancingRequests(filing)
    [] filing.source = "section_16"  -> Section16Requests(filing)
    [] filing.source = "form_144"    -> Form144Requests(filing)
    [] filing.source = "schedule_13" -> {}
    [] filing.source = "xbrl"        -> XbrlRequests(filing, cutoff)

-----------------------------------------------------------------------------
(* The service and the ledger *)

(* ContradictionReceipt: nothing in the claim or its facts lies ahead.       *)
ReceiptIsInTime(request, cutoff) ==
  /\ request.claim.day <= cutoff
  /\ \A x \in request.facts : x.day <= request.claim.day

CompletenessAgrees(request, result) ==
  CASE request.completeness = "REQUIRED_FACTS_COMPLETE" ->
         result.disposition \in {"SUPPORTED", "CONFLICTED"}
    [] request.completeness = "NOT_APPLICABLE_CONTEXT" -> result.disposition = "NOT_APPLICABLE"

CvReceipt(request, cutoff) ==
  LET result == CvEvaluate(request.claim, request.facts) IN
  [claim |-> request.claim, facts |-> request.facts, cutoff |-> cutoff,
   disposition |-> result.disposition, observed |-> result.observed]

(* evaluate_and_persist without an exception.                                *)
CvAdmitted(request, cutoff) ==
  /\ ReceiptIsInTime(request, cutoff)
  /\ CompletenessAgrees(request, CvEvaluate(request.claim, request.facts))

-----------------------------------------------------------------------------
(* The job *)

(* A worker claims the job; the producer runs at the current cutoff.         *)
CvProduce ==
  /\ cvJob.status = "queued" /\ cvJob.attempts < CvAttemptLimit
  /\ cvJob' = [status |-> "working", attempts |-> cvJob.attempts, cutoff |-> cvDay,
               requests |-> ProducerRequests(cvFiling, cvDay)]
  /\ UNCHANGED <<cvFiling, cvDay, cvReceipts, cvCrashes, cvAssessed>>

(* The next request is persisted, each in a transaction of its own.          *)
CvPersist ==
  /\ cvJob.status = "working"
  /\ \E request \in cvJob.requests :
       /\ CvAdmitted(request, cvJob.cutoff)
       /\ cvReceipts' = cvReceipts \cup {CvReceipt(request, cvJob.cutoff)}
       /\ cvJob' = [cvJob EXCEPT !.requests = @ \ {request}]
  /\ UNCHANGED <<cvFiling, cvDay, cvCrashes, cvAssessed>>

CvFailed ==
  [cvJob EXCEPT !.attempts = @ + 1, !.requests = {},
     !.status = IF cvJob.attempts + 1 >= CvAttemptLimit THEN "failed" ELSE "queued"]

(* A request the service refuses raises ValueError: the attempt fails.       *)
CvRefused ==
  /\ cvJob.status = "working"
  /\ \E request \in cvJob.requests : ~CvAdmitted(request, cvJob.cutoff)
  /\ cvJob' = CvFailed
  /\ UNCHANGED <<cvFiling, cvDay, cvReceipts, cvCrashes, cvAssessed>>

(* Any step of the attempt may fail for a reason of its own (the database).  *)
CvPersistenceFails ==
  /\ cvJob.status = "working"
  /\ cvJob' = CvFailed
  /\ UNCHANGED <<cvFiling, cvDay, cvReceipts, cvCrashes, cvAssessed>>

AllPersisted == cvJob.requests = {}

CvComplete ==
  /\ cvJob.status = "working" /\ AllPersisted
  /\ cvJob' = [cvJob EXCEPT !.status = "completed"]
  /\ UNCHANGED <<cvFiling, cvDay, cvReceipts, cvCrashes, cvAssessed>>

(* The process dies; the lease runs out and the job is queued again without  *)
(* a counted attempt.                                                        *)
CvCrash ==
  /\ cvJob.status = "working" /\ cvCrashes < MaxCvCrash
  /\ cvCrashes' = cvCrashes + 1
  /\ cvJob' = [cvJob EXCEPT !.status = "queued", !.requests = {}]
  /\ UNCHANGED <<cvFiling, cvDay, cvReceipts, cvAssessed>>

CvMidnight ==
  /\ cvDay < MaxCvDay /\ cvDay' = cvDay + 1
  /\ UNCHANGED <<cvFiling, cvJob, cvReceipts, cvCrashes, cvAssessed>>

-----------------------------------------------------------------------------
(* The evaluation called on facts of any adapter *)

DilutionKind == {"PRIOR", "CURRENT", "REGISTERED", "ISSUABLE", "INSTRUMENTS"}

(* At most one fact of a kind; the share counts on either of two days.       *)
DilutionFacts ==
  LET Optional(kind, days) == {{}} \cup {{CvFact(kind, v, d)} : v \in 0..1, d \in days} IN
  {p \cup c \cup r \cup i \cup n :
     p \in Optional("PRIOR", 1..2), c \in Optional("CURRENT", {2}),
     r \in Optional("REGISTERED", {1}), i \in Optional("ISSUABLE", {1}),
     n \in Optional("INSTRUMENTS", {1})}

CvAssess(facts) ==
  /\ cvAssessed' = [facts |-> facts, result |-> EvaluateDilution(facts, TRUE)]
  /\ UNCHANGED <<cvFiling, cvDay, cvJob, cvReceipts, cvCrashes>>

CvNoAssessment == [facts |-> {}, result |-> CvInsufficient]

ConvergenceInit ==
  /\ cvFiling \in CvFilings
  /\ cvDay = 1
  /\ cvJob = [status |-> "queued", attempts |-> 0, cutoff |-> 1, requests |-> {}]
  /\ cvReceipts = {} /\ cvCrashes = 0
  /\ cvAssessed = CvNoAssessment

ConvergenceNext ==
  \/ CvProduce \/ CvPersist \/ CvRefused \/ CvPersistenceFails \/ CvComplete
  \/ CvCrash \/ CvMidnight
  \/ /\ cvFiling.source = "schedule_13" /\ cvDay = 1 /\ cvJob.status = "queued"
     /\ cvAssessed = CvNoAssessment
     /\ \E facts \in DilutionFacts : CvAssess(facts)

ConvergenceSpec == ConvergenceInit /\ [][ConvergenceNext]_convergenceVars

-----------------------------------------------------------------------------
(* Properties *)

ConvergenceTypeOK ==
  /\ cvFiling \in CvFilings /\ cvDay \in CvDay /\ cvJob.cutoff \in 1..cvDay
  /\ cvJob.status \in {"queued", "working", "completed", "failed"}
  /\ cvJob.attempts \in 0..CvAttemptLimit /\ cvCrashes \in 0..MaxCvCrash

(* Receipts are written before the job completes and again by every retry,   *)
(* each with its own cutoff: they never contradict each other on a claim,    *)
(* and none used a fact from after its cutoff (_request binds the claim to   *)
(* the manifest of the facts it was computed from).                          *)
RetriedReceiptsAgree ==
  \A r, s \in cvReceipts :
    /\ r.claim = s.claim => r.disposition = s.disposition /\ r.facts = s.facts
    /\ \A x \in r.facts : x.day <= r.cutoff

(* A completed job has the receipt of every request its producer makes at    *)
(* the cutoff of the attempt that completed it, whatever failed, crashed or  *)
(* was written half before; and a filing that is not about executed trades   *)
(* has no verdict on them (_process, ownership_convergence_decision).        *)
CompletedJobHasItsReceipts ==
  /\ cvJob.status = "completed" =>
       \A request \in ProducerRequests(cvFiling, cvJob.cutoff) :
         \E r \in cvReceipts : r.claim = request.claim /\ r.cutoff = cvJob.cutoff
  /\ cvFiling.source = "schedule_13" => cvReceipts = {}
  /\ cvFiling.source = "form_144" => \A r \in cvReceipts : r.disposition = "NOT_APPLICABLE"

(* An insider verdict concerns the trades of one date and one class: it is   *)
(* supported when, among exactly those, more was acquired than disposed of,  *)
(* so no trade counts for two receipts of the filing                         *)
(* (ownership_contradiction_facts).                                          *)
TradesCountOnce ==
  cvFiling.source = "section_16" =>
    \A day \in CvDay :
      LET written == {r \in cvReceipts : r.cutoff = day}
          counted == [r \in written |->
                        The(r.facts, "ACQUIRED").value + The(r.facts, "DISPOSED").value]
      IN
      /\ SumFunctionOnSet(counted, written) <= SharesIn(cvFiling.trades)
      /\ \A r \in written : r.disposition = "SUPPORTED" =>
           \E x \in cvFiling.trades : x.side = "A" /\ <<x.day, x.derivative>> = r.claim.scope

(* "unchanged shares or zero registration alone remain INSUFFICIENT": that   *)
(* there is no dilution is only said on ordered counts without growth, with  *)
(* a closed zero count of instruments; and one more positive instrument or   *)
(* issuable amount never turns an exposure into anything else.               *)
AbsenceOfDilutionIsProved ==
  LET facts == cvAssessed.facts
      observed == cvAssessed.result.observed
      silenced == {x \in facts : x.kind \in {"ISSUABLE", "INSTRUMENTS"} /\ x.value > 0}
  IN
  /\ observed = {FALSE} =>
       /\ Has(facts, "PRIOR") /\ Has(facts, "CURRENT") /\ Has(facts, "INSTRUMENTS")
       /\ The(facts, "CURRENT").value <= The(facts, "PRIOR").value
       /\ \A kind \in {"REGISTERED", "ISSUABLE", "INSTRUMENTS"} : ~Positive(facts, kind)
  /\ EvaluateDilution(facts \ silenced, TRUE).observed = {TRUE} => observed = {TRUE}

(* "Form 144 is retained only as not-applicable planned-sale context"        *)
(* (docs/PHASE43_CONVERGENCE_VALIDATION.md): the contracts never refuse a    *)
(* notice of a sale that is planned.                                         *)
PlannedSaleIsRetained ==
  cvFiling.source = "form_144" /\ cvJob.status = "working" =>
    \A request \in cvJob.requests : CvAdmitted(request, cvJob.cutoff)

(* Receipts survive retries, midnight and crashes without contradicting each *)
(* other or counting a trade twice, a completed job has all of them, and     *)
(* absence is only claimed when it is proved.                                *)
ConvergenceIsSound ==
  /\ RetriedReceiptsAgree /\ CompletedJobHasItsReceipts
  /\ TradesCountOnce /\ AbsenceOfDilutionIsProved
=============================================================================
