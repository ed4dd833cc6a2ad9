---------------------------- MODULE OutcomeScience ----------------------------
(***************************************************************************)
(* Point-in-time science over prospective outcomes (prospective/science.py  *)
(* and prospective/science_store.py): a reader takes a snapshot of plans    *)
(* and outcomes at a cutoff while workers stamp rows and commit them later. *)
(* A version is the whole lineage that separates strata; a rate and its     *)
(* Wilson interval are the pair of counts they are computed from.           *)
(***************************************************************************)
EXTENDS Integers, FiniteSets, Functions

CONSTANTS
  SciPlan,            (* plans: one publication, horizon and provider each   *)
  SciDue,             (* target_session_close_at of each plan                *)
  SciVersion,         (* horizon, publication, outcome and provider versions *)
  SciLock,            (* OUTCOME_SCIENCE_PROTOCOL_LOCKED_AT                  *)
  MinimumSample,      (* minimum_calibration_sample                          *)
  PowerSample,        (* power_required_sample                               *)
  MaximumPlans,       (* maximum_plans                                       *)
  MaxSciClock,        (* bound: time                                         *)
  MaxSnapshots        (* bound: snapshots                                    *)

ASSUME ScienceAssumption ==
  /\ {SciLock, MinimumSample, PowerSample, MaximumPlans, MaxSciClock, MaxSnapshots} \subseteq Nat
  /\ IsFiniteSet(SciPlan) /\ SciDue \in [SciPlan -> Nat]
  /\ MinimumSample \in 1..PowerSample

VARIABLES
  sciClock,
  sciPlans,           (* each plan: when enrolled, and whether committed     *)
  sciOutcomes,        (* each outcome: when appended, result, committed      *)
  sciSnapshots        (* snapshots taken                                     *)

sciVars == <<sciClock, sciPlans, sciOutcomes, sciSnapshots>>

NoSciRow == [at |-> -1, result |-> "none", stored |-> FALSE]
SciResult == {"favorable", "adverse", "unavailable"}

-----------------------------------------------------------------------------
(* The read *)

EnrolledBy(cutoff) == {p \in SciPlan : sciPlans[p].stored /\ sciPlans[p].at <= cutoff}

(* The outcome that the left join finds for a plan.                          *)
DecidedBy(p, cutoff) == sciOutcomes[p].stored /\ sciOutcomes[p].at <= cutoff

(* ProspectiveOutcomePlan: forward when enrolled before the target close.    *)
Origin(p) == IF sciPlans[p].at < SciDue[p] THEN "forward" ELSE "reconstructed"

SciCase(p) ==
  [plan |-> p, origin |-> Origin(p), version |-> SciVersion[p],
   result |-> sciOutcomes[p].result, appended |-> sciOutcomes[p].at]

(* build_outcome_science_population                                          *)
Population(cutoff) ==
  LET enrolled == EnrolledBy(cutoff)
      open == {p \in enrolled : ~DecidedBy(p, cutoff)}
  IN [cutoff |-> cutoff,
      enrolled |-> Cardinality(enrolled),
      cases |-> {SciCase(p) : p \in {q \in enrolled : DecidedBy(q, cutoff)}},
      notDue |-> Cardinality({p \in open : SciDue[p] > cutoff}),
      overdue |-> Cardinality({p \in open : SciDue[p] <= cutoff})]

-----------------------------------------------------------------------------
(* The report *)

PooledKey(case) == case.origin
StratumKey(case) == <<case.origin, case.version>>

Completed(cases) == {c \in cases : c.result # "unavailable"}
Favorable(cases) == {c \in cases : c.result = "favorable"}

(* Only forward strata are rated, and only against the preregistered sizes.  *)
Stratum(cases) ==
  LET completed == Cardinality(Completed(cases))
      favorable == Cardinality(Favorable(cases))
      forward == \A c \in cases : c.origin = "forward"
  IN [cases |-> cases, forward |-> forward,
      completed |-> completed, favorable |-> favorable, adverse |-> completed - favorable,
      unavailable |-> Cardinality(cases) - completed,
      rate |-> IF forward /\ completed > 0 THEN <<favorable, completed>> ELSE <<>>,
      power |-> IF ~forward THEN "not assessed"
                ELSE IF completed >= PowerSample THEN "sufficient" ELSE "insufficient",
      disposition |-> IF forward /\ completed < MinimumSample THEN "insufficient sample"
                      ELSE "inconclusive"]

Strata(cases) ==
  {Stratum({c \in cases : StratumKey(c) = k}) : k \in {StratumKey(c) : c \in cases}}

(* build_outcome_science_report refuses a cutoff before the lock, and every  *)
(* case when one forward plan was enrolled before it.                        *)
ReportIsRefused(population) ==
  \/ population.enrolled > MaximumPlans
  \/ population.cutoff < SciLock
  \/ \E c \in population.cases : c.origin = "forward" /\ sciPlans[c.plan].at < SciLock

ScienceReport(population) ==
  LET cases == population.cases
      strata == Strata(cases)
      forward == {c \in cases : c.origin = "forward"}
  IN [strata |-> strata, sample |-> Cardinality(cases),
      completed |-> Cardinality(Completed(cases)),
      favorable |-> Cardinality(Favorable(cases)),
      forwardCompleted |-> Cardinality(Completed(forward)),
      forwardFavorable |-> Cardinality(Favorable(forward)),
      disposition |-> IF \E s \in strata : s.forward /\ s.disposition = "inconclusive"
                      THEN "inconclusive" ELSE "insufficient sample"]

-----------------------------------------------------------------------------
SciInit ==
  /\ sciClock = 0
  /\ sciPlans = [p \in SciPlan |-> NoSciRow]
  /\ sciOutcomes = [p \in SciPlan |-> NoSciRow]
  /\ sciSnapshots = {}

SciTick ==
  /\ sciClock < MaxSciClock
  /\ sciClock' = sciClock + 1
  /\ UNCHANGED <<sciPlans, sciOutcomes, sciSnapshots>>

(* A cycle reads the time once and enrolls with it.                          *)
StampPlan(p) ==
  /\ sciPlans[p] = NoSciRow
  /\ sciPlans' = [sciPlans EXCEPT ![p].at = sciClock]
  /\ UNCHANGED <<sciClock, sciOutcomes, sciSnapshots>>

StorePlan(p) ==
  /\ sciPlans[p].at >= 0 /\ ~sciPlans[p].stored
  /\ sciPlans' = [sciPlans EXCEPT ![p].stored = TRUE]
  /\ UNCHANGED <<sciClock, sciOutcomes, sciSnapshots>>

(* An outcome is evaluated after the target close and appended as of then.   *)
StampOutcome(p, result) ==
  /\ sciPlans[p].stored /\ sciOutcomes[p] = NoSciRow
  /\ sciClock >= SciDue[p]
  /\ sciOutcomes' = [sciOutcomes EXCEPT ![p] = [at |-> sciClock, result |-> result, stored |-> FALSE]]
  /\ UNCHANGED <<sciClock, sciPlans, sciSnapshots>>

StoreOutcome(p) ==
  /\ sciOutcomes[p].at >= 0 /\ ~sciOutcomes[p].stored
  /\ sciOutcomes' = [sciOutcomes EXCEPT ![p].stored = TRUE]
  /\ UNCHANGED <<sciClock, sciPlans, sciSnapshots>>

(* snapshot_at: now, as the private dashboard asks, or an earlier cutoff.    *)
Snapshot(cutoff) ==
  LET population == Population(cutoff) IN
  /\ Cardinality(sciSnapshots) < MaxSnapshots
  /\ ~ReportIsRefused(population)
  /\ sciSnapshots' =
       sciSnapshots \cup {[population |-> population, report |-> ScienceReport(population)]}
  /\ UNCHANGED <<sciClock, sciPlans, sciOutcomes>>

SciNext ==
  \/ SciTick
  \/ \E p \in SciPlan : StampPlan(p) \/ StorePlan(p) \/ StoreOutcome(p)
  \/ \E p \in SciPlan, result \in SciResult : StampOutcome(p, result)
  \/ \E cutoff \in 0..sciClock : Snapshot(cutoff)

SciSpec == SciInit /\ [][SciNext]_sciVars

-----------------------------------------------------------------------------
(* Properties *)

ScienceTypeOK ==
  /\ sciClock \in 0..MaxSciClock
  /\ \A p \in SciPlan : /\ sciPlans[p].at \in -1..sciClock /\ sciOutcomes[p].at \in -1..sciClock
                         /\ sciOutcomes[p].result \in SciResult \cup {"none"}
  /\ \A x \in sciSnapshots : x.population.cutoff \in 0..sciClock

(* Whatever is committed after a snapshot, another read at its cutoff finds  *)
(* its cases again, unchanged, and accounts for every plan enrolled by then: *)
(* none of them leaves the population.                                       *)
SnapshotsAreKept ==
  \A s \in sciSnapshots : LET again == Population(s.population.cutoff) IN
    /\ s.population.cases \subseteq again.cases
    /\ s.population.enrolled <= again.enrolled
    /\ again.enrolled = Cardinality(again.cases) + again.notDue + again.overdue
    /\ \A c \in s.population.cases : c.appended \in SciDue[c.plan]..s.population.cutoff

(* A report is only as conclusive as one homogeneous forward cohort: its     *)
(* rates count completed outcomes of plans enrolled before their target      *)
(* close, all of one version, and strata add up to the report.               *)
CohortsAreNeverPooled ==
  \A s \in sciSnapshots : LET r == s.report IN
    /\ r.disposition = "inconclusive" <=>
         \E v \in {SciVersion[p] : p \in SciPlan} :
           MinimumSample <= Cardinality({c \in s.population.cases :
             c.version = v /\ c.result # "unavailable" /\ sciPlans[c.plan].at < SciDue[c.plan]})
    /\ \A t \in r.strata :
         /\ t.rate # <<>> => \A c \in t.cases : sciPlans[c.plan].at \in SciLock..(SciDue[c.plan] - 1)
         /\ t.power = "sufficient" => Cardinality({c.version : c \in t.cases}) = 1
    /\ r.sample = SumFunctionOnSet([t \in r.strata |-> t.completed + t.unavailable], r.strata)
    /\ r.completed - r.favorable = SumFunctionOnSet([t \in r.strata |-> t.adverse], r.strata)

(* What a snapshot says stays true, and says it of one cohort at a time.     *)
ScienceIsSound == SnapshotsAreKept /\ CohortsAreNeverPooled

=============================================================================
