----------------------------- MODULE FilingChange -----------------------------
(***************************************************************************)
(* The filing-change sink of the financing and accounting workers: look up  *)
(* the stored snapshot of a fetched filing, list the snapshots known by     *)
(* then, pick the prior to compare with, append the snapshot and the        *)
(* selection (radar/filing_change_lifecycle.py, forensics/filing_change.py, *)
(* radar/store.py, migration 0025).  Three transactions, no lock over them. *)
(*                                                                         *)
(* One issuer.  A snapshot is its filing and its time of retrieval: the     *)
(* manifest hash, its primary key, covers both.  Forms, section texts and   *)
(* relationships are those of AnalysisReuse, which reads the same           *)
(* snapshots.                                                               *)
(***************************************************************************)
EXTENDS AnalysisReuse

CONSTANTS
  FcFiling,          (* accession numbers                                    *)
  FcScenarios,       (* what is filed: functions from FcFiling to sources    *)
  FcWorker,
  FcPriorLimit,      (* limit of the listing of prior snapshots              *)
  NoPrior,           (* _select_prior returned None                          *)
  FcCategory,        (* DeltaSelector -> order of the section's category     *)
  MaxSelected,       (* MAXIMUM_SELECTED_CHANGES                             *)
  ExcerptSize,       (* MAXIMUM_EXCERPT_CHARACTERS                           *)
  FcAttemptLimit,    (* attempts of the parent job                           *)
  MaxFcClock,        (* bound: time                                          *)
  MaxFcLosses        (* bound: crashes and leases lost                       *)

ASSUME FilingChangeAssumption ==
  /\ \A z \in FcScenarios :
       /\ z \in [FcFiling -> [family : {"10-K", "S-1"}, amends : BOOLEAN, filed : Nat,
                              available : Nat,
                              sections : UNION {[S -> DeltaText] : S \in SUBSET DeltaSelector}]]
       /\ \A f \in FcFiling : z[f].available >= z[f].filed
  /\ FcCategory \in [DeltaSelector -> Nat]
  /\ \A s, t \in DeltaSelector : FcCategory[s] = FcCategory[t] => s = t
  /\ {FcPriorLimit, MaxSelected, ExcerptSize, FcAttemptLimit} \subseteq Nat \ {0} /\ ExcerptSize >= 2
  /\ {MaxFcClock, MaxFcLosses} \subseteq Nat

FcSnapshot == [filing : FcFiling, retrieved : 0..MaxFcClock]

ASSUME NoPriorAssumption ==
  NoPrior \notin [snapshot : FcSnapshot, relationship : DeltaRelationship]

VARIABLES
  fcSource,         (* the filings of the issuer                             *)
  fcSnapshots,      (* research_filing_change_snapshots                      *)
  fcSelections,     (* research_filing_change_selections                     *)
  fcJob,            (* status of the parent job of each filing               *)
  fcAttempts,       (* its attempts                                          *)
  fcWork,           (* worker -> what it is doing                            *)
  fcClock, fcLosses,
  fcFailures,       (* history: filing and exception of each failed attempt  *)
  fcOverlapped,     (* history: filings two live workers were on at once     *)
  fcChoices         (* history: what each listing found, and what it chose   *)

fcJobVars == <<fcJob, fcAttempts>>
fcStoreVars == <<fcSnapshots, fcSelections>>
fcVars == <<fcSource, fcSnapshots, fcSelections, fcJob, fcAttempts, fcWork, fcClock, fcLosses, fcFailures,
            fcOverlapped, fcChoices>>

Source(s) == fcSource[s.filing]

FcIdle == [at |-> "idle"]

Prior == [snapshot : FcSnapshot, relationship : DeltaRelationship] \cup {NoPrior}

FcStages ==
  {FcIdle}
    \cup [at : {"look_up", "list", "append", "complete"}, current : FcSnapshot,
          attempt : 0..FcAttemptLimit, prior : Prior]

FcTypeOK ==
  /\ fcSource \in FcScenarios
  /\ fcSnapshots \subseteq FcSnapshot
  /\ \A s \in fcSelections : s.previous \in fcSnapshots /\ s.current \in fcSnapshots
  /\ fcJob \in [FcFiling -> {"queued", "running", "done", "failed"}]
  /\ fcAttempts \in [FcFiling -> 0..FcAttemptLimit]
  /\ fcWork \in [FcWorker -> FcStages]
  /\ fcClock \in 0..MaxFcClock
  /\ fcLosses \in 0..MaxFcLosses

FcInit ==
  /\ fcSource \in FcScenarios
  /\ fcSnapshots = {} /\ fcSelections = {}
  /\ fcJob = [f \in FcFiling |-> "queued"]
  /\ fcAttempts = [f \in FcFiling |-> 0]
  /\ fcWork = [w \in FcWorker |-> FcIdle]
  /\ fcClock = 0 /\ fcLosses = 0
  /\ fcFailures = {} /\ fcOverlapped = {} /\ fcChoices = {}

-----------------------------------------------------------------------------
(* Choosing the prior *)

KnownBefore(p, c) ==
  /\ p.filing # c.filing
  /\ Source(p).available < Source(c).available
  /\ p.retrieved <= c.retrieved
  /\ Source(p).filed <= Source(c).filed

IsProspectus(s) == Source(s).family = "S-1"

SameForm(p, c) == Source(p).family = Source(c).family /\ Source(p).amends = Source(c).amends

(* _relationship; a set of at most one relationship.                         *)
RelationshipOf(p, c) ==
  CASE ~KnownBefore(p, c) -> {}
    [] KnownBefore(p, c) /\ Source(c).amends ->
         IF ~Source(p).amends /\ Source(p).family = Source(c).family THEN {"amendment_of"}
         ELSE IF IsProspectus(p) THEN {"prospectus_update"} ELSE {}
    [] OTHER ->
         IF ~IsProspectus(c)
         THEN IF SameForm(p, c) THEN {"successive_periodic_report"} ELSE {}
         ELSE IF IsProspectus(p) THEN {"prospectus_update"} ELSE {}

(* The order of filing_change_snapshots: latest available first, then latest *)
(* retrieved, then by manifest hash, which is any order.                     *)
Newer(p, q) ==
  \/ Source(p).available > Source(q).available
  \/ Source(p).available = Source(q).available /\ p.retrieved > q.retrieved

Candidates(c) ==
  {p \in fcSnapshots :
     p.filing # c.filing /\ Source(p).available <= c.retrieved /\ p.retrieved <= c.retrieved}

(* The LIMIT without its ORDER BY.                                           *)
UnorderedListings(c) ==
  {listed \in SUBSET Candidates(c) :
     /\ Cardinality(listed) <= FcPriorLimit
     /\ Candidates(c) \ listed # {} => Cardinality(listed) = FcPriorLimit}

(* The LIMIT of the query: what it may return of the candidates.             *)
Listings(c) ==
  {listed \in SUBSET Candidates(c) :
     /\ Cardinality(listed) <= FcPriorLimit
     /\ \A p \in Candidates(c) \ listed :
          Cardinality(listed) = FcPriorLimit /\ \A q \in listed : ~Newer(p, q)}

Compatible(c, listed) ==
  UNION {{[snapshot |-> p, relationship |-> r] : r \in RelationshipOf(p, c)} : p \in listed}

Newest(S) == {x \in S : \A y \in S : ~Newer(y.snapshot, x.snapshot)}

SelectAmong(c, listed) ==
  LET compatible == Compatible(c, listed)
      amended == {x \in compatible : x.relationship = "amendment_of"}
  IN
  CASE compatible = {} -> {NoPrior}
    [] compatible # {} /\ Source(c).amends /\ amended # {} -> Newest(amended)
    [] OTHER -> Newest(compatible)

SelectPrior(c) == UNION {SelectAmong(c, listed) : listed \in Listings(c)}

(* _validate_relationship, repeated by the trigger on the selections table.  *)
RelationshipValid(p, c, relationship) ==
  /\ KnownBefore(p, c)
  /\ CASE relationship = "amendment_of" ->
            Source(c).amends /\ ~Source(p).amends /\ Source(p).family = Source(c).family
       [] relationship = "successive_periodic_report" ->
            ~IsProspectus(p) /\ ~Source(p).amends /\ SameForm(p, c)
       [] OTHER -> IsProspectus(p) /\ IsProspectus(c)

-----------------------------------------------------------------------------
(* Comparing *)

SectionsOf(s) == Source(s).sections

ChangedSections(p, c) ==
  {s \in DOMAIN SectionsOf(p) \cup DOMAIN SectionsOf(c) :
     s \in DOMAIN SectionsOf(p) \cap DOMAIN SectionsOf(c) =>
       SectionsOf(p)[s] # SectionsOf(c)[s]}

(* The changes of the first categories, as many as fit; ties by selector are *)
(* resolved by giving every selector an order of its own.                    *)
FirstChanges(changes) ==
  {s \in changes : Cardinality({t \in changes : FcCategory[t] < FcCategory[s]}) < MaxSelected}

SideSize(sections, s, limit) ==
  IF s \notin DOMAIN sections THEN 0
  ELSE IF DeltaSize[sections[s]] < limit THEN DeltaSize[sections[s]] ELSE limit

(* _build_excerpt: half of the budget for each side of a modified section.   *)
ExcerptCharacters(p, c, s) ==
  LET modified == s \in DOMAIN SectionsOf(p) \cap DOMAIN SectionsOf(c)
      limit == IF modified THEN ExcerptSize \div 2 ELSE ExcerptSize
  IN SideSize(SectionsOf(p), s, limit) + SideSize(SectionsOf(c), s, limit)

Compare(p, c, relationship) ==
  LET changes == ChangedSections(p, c)
      selected == FirstChanges(changes)
  IN [previous |-> p, current |-> c, relationship |-> relationship, changes |-> changes,
      selected |-> selected, omitted |-> changes \ selected,
      characters |-> SumFunction([s \in selected |-> ExcerptCharacters(p, c, s)])]

(* FilingChangeSelectionReceipt.receipt_reconciles: every change is selected *)
(* or named as omitted, within the limits.                                   *)
SelectionReconciles(x) ==
  /\ x.selected \cup x.omitted = x.changes /\ x.selected \cap x.omitted = {}
  /\ Cardinality(x.selected) <= MaxSelected
  /\ x.characters <= MaxSelected * ExcerptSize
  /\ x.characters = 0 <=> x.changes = {}

-----------------------------------------------------------------------------
(* The worker *)

OnFiling(f) == {w \in FcWorker : fcWork[w] # FcIdle /\ fcWork[w].current.filing = f}

(* The parent job is claimed and the primary document fetched.               *)
FcFetch(w, f, t) ==
  /\ fcWork[w] = FcIdle /\ fcJob[f] = "queued"
  /\ t >= fcSource[f].available
  /\ fcClock' = t
  /\ fcJob' = [fcJob EXCEPT ![f] = "running"]
  /\ fcWork' = [fcWork EXCEPT ![w] =
                  [at |-> "look_up", current |-> [filing |-> f, retrieved |-> t],
                   attempt |-> fcAttempts[f], prior |-> NoPrior]]
  /\ fcOverlapped' = IF OnFiling(f) = {} THEN fcOverlapped ELSE fcOverlapped \cup {f}
  /\ UNCHANGED <<fcSource, fcStoreVars, fcAttempts, fcLosses, fcFailures, fcChoices>>

(* The guard of the updates that end an attempt: the row is being processed  *)
(* and has the attempts it was claimed with.                                 *)
FcHolds(w) ==
  LET f == fcWork[w].current.filing IN
  fcJob[f] = "running" /\ fcAttempts[f] = fcWork[w].attempt

(* An exception ends the attempt: the job is queued again or failed for good,*)
(* when this worker still has it.                                            *)
FcFail(w, why) ==
  LET f == fcWork[w].current.filing IN
  /\ fcFailures' = fcFailures \cup {[filing |-> f, why |-> why]}
  /\ fcWork' = [fcWork EXCEPT ![w] = FcIdle]
  /\ IF FcHolds(w)
     THEN /\ fcAttempts' = [fcAttempts EXCEPT ![f] = @ + 1]
          /\ fcJob' = [fcJob EXCEPT ![f] =
                         IF fcAttempts[f] + 1 >= FcAttemptLimit THEN "failed" ELSE "queued"]
     ELSE UNCHANGED fcJobVars

ExistingSnapshots(c) ==
  {s \in fcSnapshots : s.filing = c.filing /\ s.retrieved <= c.retrieved}

(* filing_change_snapshot_for_accession, then extraction when nothing is     *)
(* stored; a source without supported sections is outside the sink.          *)
FcLookUp(w) ==
  LET c == fcWork[w].current
      existing == ExistingSnapshots(c)
  IN
  /\ fcWork[w].at = "look_up"
  /\ \/ /\ Cardinality(existing) > 1
        /\ FcFail(w, "multiple_sources")
     \/ /\ Cardinality(existing) = 1
        /\ fcWork' = [fcWork EXCEPT ![w].at = "list",
                                    ![w].current = CHOOSE s \in existing : TRUE]
        /\ UNCHANGED <<fcJobVars, fcFailures>>
     \/ /\ existing = {}
        /\ fcWork' = [fcWork EXCEPT ![w].at =
                        IF DOMAIN fcSource[c.filing].sections = {} THEN "complete" ELSE "list"]
        /\ UNCHANGED <<fcJobVars, fcFailures>>
  /\ UNCHANGED <<fcSource, fcStoreVars, fcClock, fcLosses, fcOverlapped, fcChoices>>

(* filing_change_snapshots, _select_prior and the comparison, which raises   *)
(* when the relationship is not valid.                                       *)
FcList(w) ==
  LET c == fcWork[w].current IN
  /\ fcWork[w].at = "list"
  /\ \E prior \in SelectPrior(c) :
       /\ fcChoices' = fcChoices \cup {[current |-> c, known |-> fcSnapshots, prior |-> prior]}
       /\ IF prior # NoPrior /\ ~RelationshipValid(prior.snapshot, c, prior.relationship)
          THEN FcFail(w, "misrelated")
          ELSE /\ fcWork' = [fcWork EXCEPT ![w].at = "append", ![w].prior = prior]
               /\ UNCHANGED <<fcJobVars, fcFailures>>
  /\ UNCHANGED <<fcSource, fcStoreVars, fcClock, fcLosses, fcOverlapped>>

(* append_filing_change_snapshot, or append_filing_change_selection, which   *)
(* inserts both snapshots and the receipt in one transaction; an identical   *)
(* replay inserts nothing.                                                   *)
FcAppend(w) ==
  LET c == fcWork[w].current
      prior == fcWork[w].prior
  IN
  /\ fcWork[w].at = "append"
  /\ IF prior = NoPrior
     THEN fcSnapshots' = fcSnapshots \cup {c} /\ UNCHANGED fcSelections
     ELSE /\ fcSnapshots' = fcSnapshots \cup {c, prior.snapshot}
          /\ fcSelections' = fcSelections
               \cup {Compare(prior.snapshot, c, prior.relationship)}
  /\ fcWork' = [fcWork EXCEPT ![w].at = "complete", ![w].prior = NoPrior]
  /\ UNCHANGED <<fcSource, fcJobVars, fcClock, fcLosses, fcFailures, fcOverlapped, fcChoices>>

(* The parent job is completed in a transaction of its own.                  *)
FcComplete(w) ==
  LET f == fcWork[w].current.filing IN
  /\ fcWork[w].at = "complete"
  /\ fcJob' = [fcJob EXCEPT ![f] = IF FcHolds(w) THEN "done" ELSE @]
  /\ fcWork' = [fcWork EXCEPT ![w] = FcIdle]
  /\ UNCHANGED <<fcSource, fcStoreVars, fcAttempts, fcClock, fcLosses, fcFailures, fcOverlapped,
                 fcChoices>>

FcCrash(w) ==
  /\ fcWork[w] # FcIdle /\ fcLosses < MaxFcLosses
  /\ fcWork' = [fcWork EXCEPT ![w] = FcIdle]
  /\ fcLosses' = fcLosses + 1
  /\ UNCHANGED <<fcSource, fcStoreVars, fcJobVars, fcClock, fcFailures, fcOverlapped, fcChoices>>

(* requeue_stale: the lease runs out, whether or not its worker is alive.    *)
FcLeaseExpires(f) ==
  /\ fcJob[f] = "running"
  /\ OnFiling(f) = {} \/ fcLosses < MaxFcLosses
  /\ fcLosses' = IF OnFiling(f) = {} THEN fcLosses ELSE fcLosses + 1
  /\ fcJob' = [fcJob EXCEPT ![f] = "queued"]
  /\ UNCHANGED <<fcSource, fcStoreVars, fcAttempts, fcWork, fcClock, fcFailures, fcOverlapped, fcChoices>>

FcNext ==
  \/ \E w \in FcWorker :
       \/ \E f \in FcFiling, t \in {fcClock, fcClock + 1} \cap 0..MaxFcClock : FcFetch(w, f, t)
       \/ FcLookUp(w) \/ FcList(w) \/ FcAppend(w) \/ FcComplete(w) \/ FcCrash(w)
  \/ \E f \in FcFiling : FcLeaseExpires(f)

FcSpec == FcInit /\ [][FcNext]_fcVars

-----------------------------------------------------------------------------
(* Properties *)

(* As many snapshots of the issuer's other filings as the query lists, all   *)
(* retrieved by then and none of them older: p is not among the listed.      *)
CrowdedOut(p, x) ==
  \E crowd \in SUBSET (x.known \ {p}) :
    /\ Cardinality(crowd) = FcPriorLimit
    /\ \A q \in crowd :
         q.filing # x.current.filing /\ q.retrieved <= x.current.retrieved /\ ~Newer(p, q)

(* Every choice is the latest admissible one of what was stored when the     *)
(* worker listed it, the base of an amendment before anything else, and      *)
(* nothing retrieved later than the filing.  A better prior is passed over   *)
(* for one reason only: newer snapshots of the issuer, of whatever form,     *)
(* fill the listing (persist_filing_change_snapshot, filing_change_snapshots,*)
(* _select_prior).                                                           *)
PriorIsLatestKnown ==
  \A x \in fcChoices :
    LET admissible == {p \in x.known : KnownBefore(p, x.current)}
        amended(p) == Source(x.current).amends /\ ~Source(p).amends
                        /\ Source(p).family = Source(x.current).family
        related(p) == \/ amended(p)
                      \/ IsProspectus(p) /\ IsProspectus(x.current)
                      \/ ~Source(x.current).amends /\ SameForm(p, x.current)
        better(p)  == \/ x.prior = NoPrior
                      \/ amended(p) /\ ~amended(x.prior.snapshot)
                      \/ Newer(p, x.prior.snapshot) /\ (amended(x.prior.snapshot) => amended(p))
    IN
    /\ x.prior # NoPrior => x.prior.snapshot \in admissible
    /\ \A p \in admissible : related(p) /\ better(p) => CrowdedOut(p, x)

(* A filing has a second stored source, and its later attempts raise, only   *)
(* when two live workers were on it at once: a crash and a replay find the   *)
(* first one.  The only other failure is the relationship of an amended      *)
(* periodic report with a prospectus (observe_sec_primary_filing_change).    *)
SecondSourceTakesTwoWorkers ==
  /\ \A s, t \in fcSnapshots : s.filing = t.filing /\ s # t => s.filing \in fcOverlapped
  /\ \A x \in fcFailures :
       \/ x.why = "multiple_sources" /\ x.filing \in fcOverlapped
       \/ x.why = "misrelated" /\ fcSource[x.filing].amends /\ fcSource[x.filing].family = "10-K"

(* A stored selection accounts for every section that differs: it is         *)
(* selected or named as omitted, none of an earlier category is omitted for  *)
(* a later one, and the excerpts fit their budget and are empty exactly when *)
(* nothing changed (FilingChangeSelectionReceipt.receipt_reconciles,         *)
(* FilingChangeLifecycleReceipt.lifecycle_fields_reconcile).                 *)
SelectionsAccountForChanges ==
  \A x \in fcSelections :
    LET old == SectionsOf(x.previous)
        new == SectionsOf(x.current)
    IN
    /\ SelectionReconciles(x)
    /\ \A s \in x.selected, t \in x.omitted : FcCategory[s] <= FcCategory[t]
    /\ \A s \in (DOMAIN old \cup DOMAIN new) \ x.changes :
         s \in DOMAIN old \cap DOMAIN new /\ old[s] = new[s]

(* The snapshots compared here, projected to manifests                       *)
(* (build_amendment_manifest_from_filing_change_snapshot).                   *)
ManifestOf(s) ==
  [family |-> Source(s).family, amends |-> Source(s).amends, available |-> Source(s).available,
   retrieved |-> s.retrieved, rules |-> "v1", sections |-> Source(s).sections]

(* The delta gate and the filing change selection agree on a stored pair:    *)
(* the gate takes every pair but one retrieved at the same moment, and its   *)
(* delta is what the selection calls added or modified                       *)
(* (decide_amendment_delta, compare_and_select_filing_changes).              *)
DeltaAgreesWithSelection ==
  \A x \in fcSelections :
    LET p == ManifestOf(x.previous)
        c == ManifestOf(x.current)
        d == DecideDelta(p, c)
    IN
    /\ DeltaAccepted(p, c, x.relationship) <=> x.current.retrieved > x.previous.retrieved
    /\ d.disposition = "delta_ready" => d.changed = x.changes
    /\ d.disposition = "no_selected_delta" <=> x.changes = {}

(* When the parent job is done, the filing's sections are stored, and the    *)
(* comparison is too if there was a prior to compare with when they were     *)
(* listed (persist_filing_change_snapshot runs before the job completes).    *)
DoneIsStored ==
  \A f \in FcFiling :
    fcJob[f] = "done" /\ DOMAIN fcSource[f].sections # {} =>
      \E s \in fcSnapshots :
        /\ s.filing = f
        /\ \E x \in fcChoices :
             /\ x.current = s
             /\ x.prior = NoPrior \/ \E y \in fcSelections :
                  y.current = s /\ y.previous = x.prior.snapshot

(* What a stored comparison says is complete, agrees with the delta gate     *)
(* that reads the same snapshots, and is there when the job is done.         *)
ChangesAreAccountedFor ==
  SelectionsAccountForChanges /\ DeltaAgreesWithSelection /\ DoneIsStored

(* Every comparison is with the latest prior of the listing, a second source *)
(* takes two live workers, and what is stored is complete.                   *)
FilingChangesAreSound ==
  PriorIsLatestKnown /\ SecondSourceTakesTwoWorkers /\ ChangesAreAccountedFor
=============================================================================
