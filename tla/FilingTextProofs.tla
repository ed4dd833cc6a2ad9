--------------------------- MODULE FilingTextProofs ---------------------------
(***************************************************************************)
(* Proofs about what is taken from the text of filings.                     *)
(*                                                                         *)
(* FilingChange, for every set of filings, scenario and number of workers:  *)
(* whatever the workers interleave and lose, each comparison is with the    *)
(* latest prior listed, a second source takes two live workers, and what is *)
(* stored accounts for every section and agrees with the delta gate of      *)
(* AnalysisReuse.                                                           *)
(*                                                                         *)
(* EvidenceSelection, FinancingEvidence and SectionExtraction, for a text   *)
(* of any length and any hits in it: what a model is shown fits its budget  *)
(* and accounts for every section; the terms of a financing rest on         *)
(* excerpts of the text; sections do not overlap.                           *)
(*                                                                         *)
(* And, last, the union of the components that TLC runs: what is proved of  *)
(* each one holds of the union.                                             *)
(***************************************************************************)
EXTENDS MCComponents, ComponentProofs, FiniteSetTheorems, InductionLemmas, TLAPS

-----------------------------------------------------------------------------
(* The inductive invariant *)

Working(w) == fcWork[w] # FcIdle

(* A job that may still be claimed or ended has an attempt left.             *)
AttemptIsLeft == \A f \in FcFiling : fcJob[f] \in {"queued", "running"} => fcAttempts[f] < FcAttemptLimit

(* A filing is fetched once it is available, and never in the future; only   *)
(* one with sections to compare is listed and stored.                        *)
FetchedInTime ==
  /\ \A s \in fcSnapshots :
       /\ Source(s).available <= s.retrieved /\ s.retrieved <= fcClock
       /\ DOMAIN SectionsOf(s) # {}
  /\ \A w \in FcWorker : Working(w) =>
       LET c == fcWork[w].current IN
       /\ Source(c).available <= c.retrieved /\ c.retrieved <= fcClock
       /\ fcWork[w].at \in {"list", "append"} => DOMAIN SectionsOf(c) # {}

(* Two live workers on a filing were noticed; and what a worker on its own   *)
(* has looked up is still so: its snapshot is stored, or no other is.        *)
LookUpsStand ==
  \A w \in FcWorker : Working(w) =>
    LET c == fcWork[w].current IN
    \/ c.filing \in fcOverlapped
    \/ /\ \A v \in FcWorker : v # w /\ Working(v) => fcWork[v].current.filing # c.filing
       /\ fcWork[w].at = "look_up" =>
            \A s \in fcSnapshots : s.filing = c.filing => s.retrieved <= c.retrieved
       /\ fcWork[w].at \in {"list", "append"} =>
            c \in fcSnapshots \/ \A s \in fcSnapshots : s.filing # c.filing

(* A choice of the snapshot was recorded, and its comparison with the prior  *)
(* chosen is stored.                                                         *)
Stored(s) ==
  /\ s \in fcSnapshots
  /\ \E x \in fcChoices :
       /\ x.current = s
       /\ x.prior = NoPrior \/ \E y \in fcSelections :
            y.current = s /\ y.previous = x.prior.snapshot

(* What a worker is about to store was chosen, and can be stored; and one    *)
(* that is about to complete its job has stored it.                          *)
WorkIsChosen ==
  \A w \in FcWorker :
    LET c == fcWork[w].current
        prior == fcWork[w].prior
    IN
    /\ fcWork[w].at = "append" =>
         /\ \E x \in fcChoices : x.current = c /\ x.prior = prior
         /\ prior # NoPrior =>
              /\ prior.snapshot \in fcSnapshots
              /\ RelationshipValid(prior.snapshot, c, prior.relationship)
    /\ fcWork[w].at = "complete" /\ DOMAIN SectionsOf(c) # {} => Stored(c)

(* A stored selection compares two stored snapshots that are related.        *)
SelectionsCompare ==
  \A x \in fcSelections :
    \E p, c \in fcSnapshots, r \in DeltaRelationship :
      x = Compare(p, c, r) /\ RelationshipValid(p, c, r)

FcInv ==
  /\ FcTypeOK /\ AttemptIsLeft /\ FetchedInTime /\ LookUpsStand /\ WorkIsChosen
  /\ SelectionsCompare /\ PriorIsLatestKnown /\ SecondSourceTakesTwoWorkers /\ DoneIsStored

-----------------------------------------------------------------------------
(* What the definitions say *)

(* A filing of a scenario has a form, its times in order, and sections.      *)
LEMMA SourceTyped ==
  ASSUME fcSource \in FcScenarios, NEW f \in FcFiling
  PROVE  /\ fcSource[f].family \in {"10-K", "S-1"} /\ fcSource[f].amends \in BOOLEAN
         /\ fcSource[f].filed \in Nat /\ fcSource[f].available \in Nat
         /\ \E S \in SUBSET DeltaSelector : fcSource[f].sections \in [S -> DeltaText]
<1>1. fcSource[f] \in [family : {"10-K", "S-1"}, amends : BOOLEAN, filed : Nat,
                       available : Nat,
                       sections : UNION {[S -> DeltaText] : S \in SUBSET DeltaSelector}]
  BY FilingChangeAssumption
<1> QED
  BY <1>1

(* A worker that is not idle has a snapshot, its attempt and a prior.        *)
LEMMA StageFields ==
  ASSUME FcTypeOK, NEW w \in FcWorker
  PROVE  /\ Working(w) <=> fcWork[w].at \in {"look_up", "list", "append", "complete"}
         /\ Working(w) => /\ fcWork[w].current \in FcSnapshot /\ fcWork[w].prior \in Prior
                          /\ fcWork[w].attempt \in 0..FcAttemptLimit
                          /\ fcWork[w].current.filing \in FcFiling
                          /\ fcWork[w].current.retrieved \in Nat
BY DEF FcTypeOK, FcStages, FcIdle, Working, FcSnapshot

LEMMA SnapshotFields ==
  ASSUME NEW s \in FcSnapshot
  PROVE  s.filing \in FcFiling /\ s.retrieved \in Nat /\ s.retrieved \in 0..MaxFcClock
BY DEF FcSnapshot

(* An amended form's base, and what the code calls related.                  *)
BaseOf(p, c) == Source(c).amends /\ ~Source(p).amends /\ Source(p).family = Source(c).family

RelatedTo(p, c) ==
  \/ BaseOf(p, c)
  \/ IsProspectus(p) /\ IsProspectus(c)
  \/ ~Source(c).amends /\ SameForm(p, c)

(* What _relationship answers: it knows every related prior, calls the base  *)
(* of an amendment by its name, and only for an amended periodic report can  *)
(* answer with one the validation refuses.                                   *)
LEMMA RelationshipFacts ==
  ASSUME fcSource \in FcScenarios, NEW p \in FcSnapshot, NEW c \in FcSnapshot
  PROVE  /\ KnownBefore(p, c) /\ RelatedTo(p, c) => RelationshipOf(p, c) # {}
         /\ KnownBefore(p, c) /\ BaseOf(p, c) => RelationshipOf(p, c) = {"amendment_of"}
         /\ \A r \in RelationshipOf(p, c) :
              /\ KnownBefore(p, c) /\ r \in DeltaRelationship
              /\ r = "amendment_of" => BaseOf(p, c)
              /\ RelationshipValid(p, c, r) \/ (Source(c).amends /\ Source(c).family = "10-K")
<1>1. /\ Source(p).family \in {"10-K", "S-1"} /\ Source(p).amends \in BOOLEAN
      /\ Source(c).family \in {"10-K", "S-1"} /\ Source(c).amends \in BOOLEAN
  BY SourceTyped, SnapshotFields DEF Source
<1>2. KnownBefore(p, c) /\ RelatedTo(p, c) => RelationshipOf(p, c) # {}
  BY <1>1 DEF RelatedTo, BaseOf, RelationshipOf, IsProspectus, SameForm
<1>3. KnownBefore(p, c) /\ BaseOf(p, c) => RelationshipOf(p, c) = {"amendment_of"}
  BY <1>1 DEF BaseOf, RelationshipOf
<1>4. ASSUME NEW r \in RelationshipOf(p, c)
      PROVE  /\ KnownBefore(p, c) /\ r \in DeltaRelationship
             /\ r = "amendment_of" => BaseOf(p, c)
             /\ RelationshipValid(p, c, r) \/ (Source(c).amends /\ Source(c).family = "10-K")
  BY <1>1, <1>4 DEF RelationshipOf, BaseOf, RelationshipValid, IsProspectus, SameForm,
                    DeltaRelationship
<1> QED
  BY <1>2, <1>3, <1>4

(* One choice of PriorIsLatestKnown.                                         *)
BetterFor(p, x) ==
  /\ RelatedTo(p, x.current)
  /\ \/ x.prior = NoPrior
     \/ BaseOf(p, x.current) /\ ~BaseOf(x.prior.snapshot, x.current)
     \/ Newer(p, x.prior.snapshot) /\ (BaseOf(x.prior.snapshot, x.current) => BaseOf(p, x.current))

ChoiceStands(x) ==
  /\ x.prior # NoPrior => x.prior.snapshot \in x.known /\ KnownBefore(x.prior.snapshot, x.current)
  /\ \A p \in x.known : KnownBefore(p, x.current) /\ BetterFor(p, x) => CrowdedOut(p, x)

LEMMA PriorIsLatestKnownIs ==
  PriorIsLatestKnown <=> \A x \in fcChoices : ChoiceStands(x)
BY Zenon DEF PriorIsLatestKnown, ChoiceStands, BetterFor, RelatedTo, BaseOf

(* A known prior the query leaves out is crowded out by those it returns.    *)
LEMMA UnlistedIsCrowdedOut ==
  ASSUME FcTypeOK, NEW c \in FcSnapshot, Source(c).available <= c.retrieved,
         NEW listed \in Listings(c), NEW p \in fcSnapshots, KnownBefore(p, c), p \notin listed,
         NEW x, x.current = c, x.known = fcSnapshots
  PROVE  CrowdedOut(p, x)
<1>1. /\ Source(p).available \in Nat /\ Source(c).available \in Nat
      /\ c.retrieved \in Nat /\ p.retrieved \in Nat
  BY SourceTyped, SnapshotFields DEF FcTypeOK, Source
<1>2. p \in Candidates(c) \ listed
  BY <1>1 DEF KnownBefore, Candidates
<1>3. /\ listed \subseteq Candidates(c) /\ Cardinality(listed) = FcPriorLimit
      /\ \A q \in listed : ~Newer(p, q)
  BY <1>2 DEF Listings
<1>4. listed \subseteq fcSnapshots \ {p}
  BY <1>3 DEF Candidates
<1>5. \A q \in listed : q.filing # c.filing /\ q.retrieved <= c.retrieved
  BY <1>3 DEF Candidates
<1> QED
  BY <1>3, <1>4, <1>5 DEF CrowdedOut

(* _select_prior keeps the promise of PriorIsLatestKnown.                    *)
LEMMA SelectedPriorStands ==
  ASSUME FcTypeOK, FetchedInTime, NEW c \in FcSnapshot, Source(c).available <= c.retrieved,
         NEW prior \in SelectPrior(c)
  PROVE  /\ ChoiceStands([current |-> c, known |-> fcSnapshots, prior |-> prior])
         /\ prior \in Prior
         /\ prior # NoPrior =>
              /\ prior.snapshot \in fcSnapshots
              /\ prior.relationship \in RelationshipOf(prior.snapshot, c)
<1> DEFINE choice == [current |-> c, known |-> fcSnapshots, prior |-> prior]
<1>0. PICK listed \in Listings(c) : prior \in SelectAmong(c, listed)
  BY DEF SelectPrior
<1> DEFINE compatible == Compatible(c, listed)
           amended == {x \in compatible : x.relationship = "amendment_of"}
<1>1. fcSource \in FcScenarios /\ fcSnapshots \subseteq FcSnapshot /\ listed \subseteq fcSnapshots
  <2>1. listed \subseteq Candidates(c)
    BY <1>0 DEF Listings
  <2>2. Candidates(c) \subseteq fcSnapshots
    BY DEF Candidates
  <2> QED
    BY <2>1, <2>2 DEF FcTypeOK
<1>2. ASSUME NEW p \in listed, NEW r \in RelationshipOf(p, c)
      PROVE  [snapshot |-> p, relationship |-> r] \in compatible
  BY <1>2 DEF Compatible
<1>3. ASSUME NEW x \in compatible
      PROVE  /\ x = [snapshot |-> x.snapshot, relationship |-> x.relationship]
             /\ x.snapshot \in fcSnapshots /\ x.relationship \in RelationshipOf(x.snapshot, c)
             /\ x.relationship \in DeltaRelationship /\ KnownBefore(x.snapshot, c)
             /\ x # NoPrior
  <2>1. PICK p \in listed :
          x \in {[snapshot |-> p, relationship |-> r] : r \in RelationshipOf(p, c)}
    BY DEF Compatible
  <2>2. PICK r \in RelationshipOf(p, c) : x = [snapshot |-> p, relationship |-> r]
    BY <2>1
  <2>3. p \in fcSnapshots /\ p \in FcSnapshot
    BY <1>1
  <2>4. KnownBefore(p, c) /\ r \in DeltaRelationship
    BY <1>1, <2>3, RelationshipFacts
  <2>5. x # NoPrior
    BY <2>2, <2>3, <2>4, NoPriorAssumption
  <2> QED
    BY <2>2, <2>3, <2>4, <2>5
<1>4. ASSUME \A p \in listed : KnownBefore(p, c) => ~BetterFor(p, choice)
      PROVE  \A p \in fcSnapshots : KnownBefore(p, c) /\ BetterFor(p, choice) => CrowdedOut(p, choice)
  BY <1>4, UnlistedIsCrowdedOut
<1>5. CASE compatible = {}
  <2>1. prior = NoPrior
    BY <1>0, <1>5 DEF SelectAmong
  <2>2. ASSUME NEW p \in listed, KnownBefore(p, c) PROVE ~BetterFor(p, choice)
    BY <1>1, <1>2, <1>5, <2>2, RelationshipFacts DEF BetterFor
  <2> QED
    BY <1>4, <2>1, <2>2 DEF ChoiceStands, Prior
<1>6. CASE compatible # {}
  <2>1. prior \in compatible
    BY <1>0, <1>6 DEF SelectAmong, Newest
  <2>2. prior # NoPrior /\ prior.snapshot \in fcSnapshots /\ KnownBefore(prior.snapshot, c)
        /\ prior.relationship \in RelationshipOf(prior.snapshot, c)
    BY <1>3, <2>1
  <2>3. prior \in Prior
    BY <1>1, <1>3, <2>1 DEF Prior
  <2>4. ASSUME NEW p \in listed, KnownBefore(p, c), BaseOf(p, c)
        PROVE  /\ BaseOf(prior.snapshot, c) /\ ~Newer(p, prior.snapshot)
    <3> DEFINE y == [snapshot |-> p, relationship |-> "amendment_of"]
    <3>1. y \in amended
      BY <1>1, <1>2, <2>4, RelationshipFacts
    <3>2. Source(c).amends
      BY <2>4 DEF BaseOf
    <3>3. prior \in Newest(amended)
      BY <1>0, <1>6, <3>1, <3>2 DEF SelectAmong
    <3>4. prior.relationship = "amendment_of" /\ ~Newer(y.snapshot, prior.snapshot)
      BY <3>1, <3>3 DEF Newest
    <3> QED
      BY <1>1, <2>2, <3>4, RelationshipFacts
  <2>5. ASSUME NEW p \in listed, KnownBefore(p, c), RelatedTo(p, c), Newer(p, prior.snapshot)
        PROVE  BaseOf(prior.snapshot, c) /\ ~BaseOf(p, c)
    <3>1. ~BaseOf(p, c)
      BY <2>4, <2>5
    <3>2. PICK r \in RelationshipOf(p, c) : TRUE
      BY <1>1, <2>5, RelationshipFacts
    <3>3. [snapshot |-> p, relationship |-> r] \in compatible
      BY <1>2, <2>5, <3>2
    <3>4. prior \notin Newest(compatible)
      BY <2>5, <3>3 DEF Newest
    <3>5. prior \in Newest(amended)
      BY <1>0, <1>6, <3>4 DEF SelectAmong
    <3>6. prior.relationship = "amendment_of"
      BY <3>5 DEF Newest
    <3> QED
      BY <1>1, <2>2, <3>1, <3>6, RelationshipFacts
  <2>6. ASSUME NEW p \in listed, KnownBefore(p, c) PROVE ~BetterFor(p, choice)
    BY <2>2, <2>4, <2>5, <2>6 DEF BetterFor
  <2>7. ChoiceStands(choice)
    BY <1>4, <2>2, <2>6 DEF ChoiceStands
  <2> QED
    BY <2>2, <2>3, <2>7
<1> QED
  BY <1>5, <1>6
-----------------------------------------------------------------------------
(* Comparing two snapshots *)

(* The first changes, each of an order of its own, are at most MaxSelected;  *)
(* there is one if anything changed; and an omitted one comes after them.    *)
LEMMA FirstChangesFit ==
  ASSUME NEW changes \in SUBSET DeltaSelector
  PROVE  /\ FirstChanges(changes) \subseteq changes /\ IsFiniteSet(FirstChanges(changes))
         /\ Cardinality(FirstChanges(changes)) \in 0..MaxSelected
         /\ changes # {} => FirstChanges(changes) # {}
         /\ \A s \in FirstChanges(changes), t \in changes \ FirstChanges(changes) :
              FcCategory[s] <= FcCategory[t]
<1> DEFINE Earlier(s) == {t \in changes : FcCategory[t] < FcCategory[s]}
           Place(s) == Cardinality(Earlier(s))
           first == FirstChanges(changes)
<1>0. /\ IsFiniteSet(DeltaSelector) /\ FcCategory \in [DeltaSelector -> Nat]
      /\ \A s, t \in DeltaSelector : FcCategory[s] = FcCategory[t] => s = t
      /\ MaxSelected \in Nat /\ MaxSelected > 0
  BY FilingChangeAssumption, ReuseAssumption
<1>1. IsFiniteSet(changes) /\ \A S \in SUBSET changes : IsFiniteSet(S) /\ Cardinality(S) \in Nat
  BY <1>0, FS_Subset, FS_CardinalityType
<1>2. \A s \in changes : FcCategory[s] \in Nat /\ Place(s) \in Nat
  BY <1>0, <1>1
<1>3. first \subseteq changes /\ \A s \in changes : s \in first <=> Place(s) < MaxSelected
  BY DEF FirstChanges
<1>4. MaxSelected \in Nat /\ MaxSelected > 0
  BY <1>0
<1>5. \A s, t \in changes : FcCategory[s] < FcCategory[t] => Place(s) < Place(t)
  <2> SUFFICES ASSUME NEW s \in changes, NEW t \in changes, FcCategory[s] < FcCategory[t]
               PROVE  Place(s) < Place(t)
    OBVIOUS
  <2>1. Earlier(s) \subseteq Earlier(t) /\ s \in Earlier(t) /\ s \notin Earlier(s)
    <3>1. \A u \in changes : FcCategory[u] \in Nat
      BY <1>2
    <3> QED
      BY <3>1
  <2>2. IsFiniteSet(Earlier(t)) /\ Earlier(s) \in SUBSET Earlier(t) /\ Earlier(s) # Earlier(t)
    BY <1>1, <2>1
  <2> HIDE DEF Before
  <2>3. Place(s) <= Place(t) /\ Place(s) # Place(t)
    BY <2>2, FS_Subset
  <2> QED
    BY <1>2, <2>3
<1> HIDE DEF Place
<1>6. \A s \in first, t \in changes \ first : FcCategory[s] <= FcCategory[t]
  <2> SUFFICES ASSUME NEW s \in first, NEW t \in changes \ first,
                      ~(FcCategory[s] <= FcCategory[t])
               PROVE  FALSE
    OBVIOUS
  <2>1. FcCategory[t] < FcCategory[s]
    BY <1>2, <1>3
  <2>2. Place(t) < Place(s)
    BY <1>3, <1>5, <2>1
  <2> QED
    BY <1>2, <1>3, <1>4, <2>2
<1>7. ASSUME changes # {} PROVE first # {}
  <2> DEFINE ranks == {Place(s) : s \in changes}
  <2>1. ranks \in SUBSET Nat /\ ranks # {}
    BY <1>2, <1>7
  <2>2. PICK n \in ranks : \A m \in ranks : n <= m
    BY <2>1, LeastNatural
  <2>3. PICK s \in changes : n = Place(s)
    BY <2>2
  <2>4. Earlier(s) = {}
    <3> SUFFICES ASSUME NEW t \in changes, FcCategory[t] < FcCategory[s] PROVE FALSE
      OBVIOUS
    <3>1. Place(t) < Place(s) /\ Place(s) <= Place(t)
      BY <1>5, <2>2, <2>3
    <3> QED
      BY <1>2, <3>1
  <2>5. Place(s) = 0
    BY <2>4, FS_EmptySet DEF Place
  <2> QED
    BY <1>3, <1>4, <2>5
<1>8. Cardinality(first) <= MaxSelected
  <2> SUFFICES ASSUME first # {} PROVE Cardinality(first) <= MaxSelected
    BY <1>4, FS_EmptySet
  <2> DEFINE gaps == {MaxSelected - Place(s) : s \in first}
  <2>1. gaps \in SUBSET Nat /\ gaps # {}
    BY <1>2, <1>3, <1>4
  <2>2. PICK n \in gaps : \A m \in gaps : n <= m
    BY <2>1, LeastNatural
  <2>3. PICK last \in first : n = MaxSelected - Place(last)
    BY <2>2
  <2>4. \A s \in first : Place(s) <= Place(last)
    <3> SUFFICES ASSUME NEW s \in first PROVE Place(s) <= Place(last)
      OBVIOUS
    <3>1. MaxSelected - Place(last) <= MaxSelected - Place(s)
      BY <2>2, <2>3
    <3> QED
      BY <1>2, <1>3, <1>4, <3>1
  <2>5. first \ {last} \subseteq Earlier(last)
    <3> SUFFICES ASSUME NEW s \in first, s # last, ~(FcCategory[s] < FcCategory[last]) PROVE FALSE
      BY <1>3
    <3>1. s \in DeltaSelector /\ last \in DeltaSelector /\ s \in changes /\ last \in changes
      BY <1>3
    <3>2. FcCategory[last] < FcCategory[s]
      BY <1>0, <1>2, <3>1
    <3>3. Place(last) < Place(s)
      BY <1>5, <3>1, <3>2
    <3> QED
      BY <1>2, <2>4, <3>1, <3>3
  <2>6. Cardinality(first \ {last}) = Cardinality(first) - 1 /\ Cardinality(first) \in Nat
    BY <1>1, <1>3, FS_RemoveElement
  <2>7. Cardinality(first \ {last}) <= Place(last)
    BY <1>1, <2>5, FS_Subset DEF Place
  <2>8. Place(last) < MaxSelected /\ Place(last) \in Nat
    BY <1>2, <1>3
  <2> QED
    BY <1>4, <2>6, <2>7, <2>8
<1> HIDE DEF first
<1>9. FirstChanges(changes) = first
  BY DEF first
<1> QED
  BY <1>1, <1>3, <1>4, <1>6, <1>7, <1>8, <1>9

(* Every changed section has an excerpt, within its size.                    *)
LEMMA ExcerptFits ==
  ASSUME fcSource \in FcScenarios, NEW p \in FcSnapshot, NEW c \in FcSnapshot,
         NEW s \in ChangedSections(p, c)
  PROVE  ExcerptCharacters(p, c, s) \in 1..ExcerptSize
<1> USE FilingChangeAssumption, ReuseAssumption
<1>1. PICK S \in SUBSET DeltaSelector : SectionsOf(p) \in [S -> DeltaText]
  BY SourceTyped, SnapshotFields DEF SectionsOf, Source
<1>2. PICK T \in SUBSET DeltaSelector : SectionsOf(c) \in [T -> DeltaText]
  BY SourceTyped, SnapshotFields DEF SectionsOf, Source
<1>3. s \in DOMAIN SectionsOf(p) => DeltaSize[SectionsOf(p)[s]] \in Nat \ {0}
  BY <1>1, ReuseAssumption
<1>4. s \in DOMAIN SectionsOf(c) => DeltaSize[SectionsOf(c)[s]] \in Nat \ {0}
  BY <1>2, ReuseAssumption
<1>5. s \in DOMAIN SectionsOf(p) \/ s \in DOMAIN SectionsOf(c)
  BY DEF ChangedSections
<1>6. ExcerptSize \in Nat /\ ExcerptSize >= 2
  OBVIOUS
<1>7. /\ ExcerptSize \div 2 \in Nat /\ ExcerptSize \div 2 >= 1
      /\ (ExcerptSize \div 2) + (ExcerptSize \div 2) <= ExcerptSize
  BY <1>6
<1>8. CASE s \in DOMAIN SectionsOf(p) \cap DOMAIN SectionsOf(c)
  <2>1. SideSize(SectionsOf(p), s, ExcerptSize \div 2) \in 1..(ExcerptSize \div 2)
    BY <1>3, <1>7, <1>8 DEF SideSize
  <2>2. SideSize(SectionsOf(c), s, ExcerptSize \div 2) \in 1..(ExcerptSize \div 2)
    BY <1>4, <1>7, <1>8 DEF SideSize
  <2>3. ExcerptCharacters(p, c, s) = SideSize(SectionsOf(p), s, ExcerptSize \div 2)
                                       + SideSize(SectionsOf(c), s, ExcerptSize \div 2)
    BY <1>8 DEF ExcerptCharacters
  <2> QED
    BY <1>6, <1>7, <2>1, <2>2, <2>3
<1>9. CASE s \notin DOMAIN SectionsOf(p) \cap DOMAIN SectionsOf(c)
  <2>1. ExcerptCharacters(p, c, s) = SideSize(SectionsOf(p), s, ExcerptSize)
                                       + SideSize(SectionsOf(c), s, ExcerptSize)
    BY <1>9 DEF ExcerptCharacters
  <2>2. CASE s \in DOMAIN SectionsOf(p)
    BY <1>3, <1>6, <1>9, <2>1, <2>2 DEF SideSize
  <2>3. CASE s \in DOMAIN SectionsOf(c)
    BY <1>4, <1>6, <1>9, <2>1, <2>3 DEF SideSize
  <2> QED
    BY <1>5, <2>2, <2>3
<1> QED
  BY <1>8, <1>9

(* The snapshots a comparison is of, its changes and its relationship.       *)
LEMMA CompareFields ==
  ASSUME NEW p, NEW c, NEW r
  PROVE  /\ Compare(p, c, r).previous = p /\ Compare(p, c, r).current = c
         /\ Compare(p, c, r).relationship = r
         /\ Compare(p, c, r).changes = ChangedSections(p, c)
BY DEF Compare

(* A comparison keeps the contract of its receipt.                           *)
LEMMA ComparisonReconciles ==
  ASSUME fcSource \in FcScenarios, NEW p \in FcSnapshot, NEW c \in FcSnapshot, NEW r
  PROVE  LET x == Compare(p, c, r) IN
         /\ SelectionReconciles(x)
         /\ \A s \in x.selected, t \in x.omitted : FcCategory[s] <= FcCategory[t]
<1> USE FilingChangeAssumption, ReuseAssumption
<1> DEFINE changes == ChangedSections(p, c)
           selected == FirstChanges(changes)
           size == [s \in selected |-> ExcerptCharacters(p, c, s)]
<1>1. changes \in SUBSET DeltaSelector
  <2>1. /\ \E S \in SUBSET DeltaSelector : SectionsOf(p) \in [S -> DeltaText]
        /\ \E S \in SUBSET DeltaSelector : SectionsOf(c) \in [S -> DeltaText]
    BY SourceTyped, SnapshotFields DEF SectionsOf, Source
  <2> QED
    BY <2>1 DEF ChangedSections
<1>2. /\ selected \subseteq changes /\ IsFiniteSet(selected)
      /\ Cardinality(selected) \in 0..MaxSelected
      /\ changes # {} => selected # {}
      /\ \A s \in selected, t \in changes \ selected : FcCategory[s] <= FcCategory[t]
  BY <1>1, FirstChangesFit
<1>3. \A s \in selected : size[s] \in 1..ExcerptSize
  BY <1>2, ExcerptFits
<1>4. SumFunction(size) \in (1 * Cardinality(selected))..(ExcerptSize * Cardinality(selected))
  <2>1. SumFunction(size) = SumFunctionOnSet(size, selected)
    BY DEF SumFunction
  <2>2. ExcerptSize \in Int /\ 1 \in Int
    OBVIOUS
  <2> HIDE DEF size, selected
  <2>3. SumFunctionOnSet(size, selected)
          \in (1 * Cardinality(selected))..(ExcerptSize * Cardinality(selected))
    BY <1>2, <1>3, <2>2, SumBounds
  <2> QED
    BY <2>1, <2>3
<1>5. Cardinality(selected) = 0 <=> changes = {}
  <2>1. Cardinality(selected) = 0 <=> selected = {}
    BY <1>2, FS_EmptySet
  <2> QED
    BY <1>2, <2>1
<1>6. ExcerptSize * Cardinality(selected) <= MaxSelected * ExcerptSize
  <2>1. \A m, n, e \in Nat : n <= m => e * n <= m * e
    OBVIOUS
  <2> HIDE DEF selected
  <2> QED
    BY <1>2, <2>1
<1>7. Compare(p, c, r) = [previous |-> p, current |-> c, relationship |-> r, changes |-> changes,
                          selected |-> selected, omitted |-> changes \ selected,
                          characters |-> SumFunction(size)]
  BY DEF Compare
<1> HIDE DEF changes, selected, size
<1>8. SumFunction(size) <= MaxSelected * ExcerptSize
  <2>1. /\ Cardinality(selected) \in Nat /\ ExcerptSize \in Nat /\ MaxSelected \in Nat
    BY <1>2
  <2>2. ExcerptSize * Cardinality(selected) \in Int /\ MaxSelected * ExcerptSize \in Int
    BY <2>1
  <2> QED
    BY <1>4, <1>6, <2>2
<1>9. SumFunction(size) = 0 <=> changes = {}
  <2>1. CASE changes = {}
    BY <1>4, <1>5, <2>1
  <2>2. CASE changes # {}
    <3>1. Cardinality(selected) \in Nat /\ Cardinality(selected) # 0
      BY <1>2, <1>5, <2>2
    <3> QED
      BY <1>4, <2>2, <3>1
  <2> QED
    BY <2>1, <2>2
<1> QED
  BY <1>2, <1>7, <1>8, <1>9 DEF SelectionReconciles

-----------------------------------------------------------------------------
(* What a step leaves alone *)

WorkerStep(w) ==
  \/ \E f \in FcFiling, t \in {fcClock, fcClock + 1} \cap 0..MaxFcClock : FcFetch(w, f, t)
  \/ FcLookUp(w) \/ FcList(w) \/ FcAppend(w) \/ FcComplete(w) \/ FcCrash(w)

LEMMA FcNextIs ==
  FcNext <=> (\E w \in FcWorker : WorkerStep(w)) \/ (\E f \in FcFiling : FcLeaseExpires(f))
BY DEF FcNext, WorkerStep

(* What is filed stays, nothing stored or recorded is taken back, and time   *)
(* does not go back.                                                         *)
Monotone ==
  /\ fcSource' = fcSource /\ fcSnapshots \subseteq fcSnapshots'
  /\ fcSelections \subseteq fcSelections' /\ fcChoices \subseteq fcChoices'
  /\ fcOverlapped \subseteq fcOverlapped' /\ fcClock <= fcClock'

LEMMA StepIsMonotone ==
  ASSUME FcTypeOK, FcNext
  PROVE  Monotone
<1>1. fcClock \in Nat
  BY FilingChangeAssumption DEF FcTypeOK
<1>2. ASSUME NEW w \in FcWorker, WorkerStep(w) PROVE Monotone
  <2>1. ASSUME NEW f \in FcFiling, NEW t \in {fcClock, fcClock + 1}, FcFetch(w, f, t) PROVE Monotone
    BY <1>1, <2>1 DEF FcFetch, Monotone, fcStoreVars
  <2>2. CASE FcLookUp(w)
    BY <1>1, <2>2 DEF FcLookUp, Monotone, fcStoreVars
  <2>3. CASE FcList(w)
    BY <1>1, <2>3 DEF FcList, Monotone, fcStoreVars
  <2>4. CASE FcAppend(w)
    BY <1>1, <2>4 DEF FcAppend, Monotone, fcStoreVars
  <2>5. CASE FcComplete(w) \/ FcCrash(w)
    BY <1>1, <2>5 DEF FcComplete, FcCrash, Monotone, fcStoreVars
  <2> QED
    BY <1>2, <2>1, <2>2, <2>3, <2>4, <2>5 DEF WorkerStep
<1>3. ASSUME NEW f \in FcFiling, FcLeaseExpires(f) PROVE Monotone
  BY <1>1, <1>3 DEF FcLeaseExpires, Monotone, fcStoreVars
<1> QED
  BY <1>2, <1>3, FcNextIs

(* What depends on the source alone stays as it is.                          *)
LEMMA SourceFrame ==
  ASSUME fcSource' = fcSource
  PROVE  /\ \A s : Source(s)' = Source(s) /\ SectionsOf(s)' = SectionsOf(s)
         /\ \A p, c, r : RelationshipValid(p, c, r)' <=> RelationshipValid(p, c, r)
         /\ \A p, c, r : Compare(p, c, r)' = Compare(p, c, r)
         /\ \A x : ChoiceStands(x)' <=> ChoiceStands(x)
<1>1. \A s : Source(s)' = Source(s) /\ SectionsOf(s)' = SectionsOf(s)
  BY DEF Source, SectionsOf
<1>2. \A p, c, r : RelationshipValid(p, c, r)' <=> RelationshipValid(p, c, r)
  BY DEF RelationshipValid, KnownBefore, IsProspectus, SameForm, Source
<1>3. \A p, c, r : Compare(p, c, r)' = Compare(p, c, r)
  BY DEF Compare, ChangedSections, FirstChanges, ExcerptCharacters, SectionsOf, Source
<1>4. \A x : ChoiceStands(x)' <=> ChoiceStands(x)
  <2>1. \A p, q : Newer(p, q)' <=> Newer(p, q)
    BY DEF Newer, Source
  <2>2. \A p, x : CrowdedOut(p, x)' <=> CrowdedOut(p, x)
    BY <2>1 DEF CrowdedOut
  <2>3. \A p, c : RelatedTo(p, c)' <=> RelatedTo(p, c)
    BY DEF RelatedTo, BaseOf, IsProspectus, SameForm, Source
  <2>4. \A p, c : KnownBefore(p, c)' <=> KnownBefore(p, c)
    BY DEF KnownBefore, Source
  <2>5. \A p, c : BaseOf(p, c)' <=> BaseOf(p, c)
    BY DEF BaseOf, Source
  <2>6. \A p, x : BetterFor(p, x)' <=> BetterFor(p, x)
    BY <2>1, <2>3, <2>5 DEF BetterFor
  <2> QED
    BY <2>2, <2>4, <2>6 DEF ChoiceStands
<1> QED
  BY <1>1, <1>2, <1>3, <1>4

(* A worker's step is its own.                                               *)
LEMMA OthersKeepWork ==
  ASSUME FcTypeOK, NEW w \in FcWorker, WorkerStep(w), NEW v \in FcWorker, v # w
  PROVE  fcWork'[v] = fcWork[v]
BY DEF FcTypeOK, WorkerStep, FcFetch, FcLookUp, FcList, FcAppend, FcComplete, FcCrash, FcFail

(* Only an append stores a snapshot, and only the worker's own.              *)
LEMMA SnapshotsStored ==
  ASSUME FcInv, NEW w \in FcWorker, WorkerStep(w)
  PROVE  /\ fcSnapshots' \subseteq fcSnapshots \cup {fcWork[w].current}
         /\ fcSnapshots' # fcSnapshots => fcWork[w].at = "append"
<1>1. CASE FcAppend(w)
  <2>1. fcWork[w].at = "append"
    BY <1>1 DEF FcAppend
  <2>2. fcWork[w].prior # NoPrior => fcWork[w].prior.snapshot \in fcSnapshots
    BY <2>1 DEF FcInv, WorkIsChosen
  <2> QED
    BY <1>1, <2>1, <2>2 DEF FcAppend
<1>2. CASE ~FcAppend(w)
  BY <1>2 DEF WorkerStep, FcFetch, FcLookUp, FcList, FcComplete, FcCrash, fcStoreVars
<1> QED
  BY <1>1, <1>2

-----------------------------------------------------------------------------
(* What a worker's step makes of its own work *)

(* It ends; fetches a filing that is available; finds its source stored, or  *)
(* nothing; chooses a prior; or stores what it chose.                        *)
Ends(w) == fcWork'[w] = FcIdle

Fetches(w) ==
  LET d == fcWork'[w].current IN
  /\ ~Working(w)
  /\ d.filing \in FcFiling /\ d.retrieved = fcClock' /\ fcClock' \in 0..MaxFcClock
  /\ d.retrieved >= fcSource[d.filing].available
  /\ fcWork'[w] = [at |-> "look_up", current |-> [filing |-> d.filing, retrieved |-> fcClock'],
                   attempt |-> fcAttempts[d.filing], prior |-> NoPrior]
  /\ OnFiling(d.filing) # {} => d.filing \in fcOverlapped'

FindsStored(w) ==
  LET c == fcWork[w].current
      d == fcWork'[w].current
  IN
  /\ fcWork[w].at = "look_up" /\ fcWork'[w].at = "list"
  /\ d \in fcSnapshots /\ d.filing = c.filing /\ d.retrieved <= c.retrieved
  /\ fcWork'[w] = [fcWork[w] EXCEPT !.at = "list", !.current = d]

FindsNothing(w) ==
  LET c == fcWork[w].current IN
  /\ fcWork[w].at = "look_up" /\ fcWork'[w].at \in {"list", "complete"}
  /\ ExistingSnapshots(c) = {}
  /\ fcWork'[w].at = "complete" <=> DOMAIN SectionsOf(c) = {}
  /\ fcWork'[w] = [fcWork[w] EXCEPT !.at = fcWork'[w].at]

Chooses(w) ==
  LET c == fcWork[w].current IN
  /\ fcWork[w].at = "list"
  /\ \E prior \in SelectPrior(c) :
       /\ [current |-> c, known |-> fcSnapshots, prior |-> prior] \in fcChoices'
       /\ prior # NoPrior => RelationshipValid(prior.snapshot, c, prior.relationship)
       /\ fcWork'[w] = [fcWork[w] EXCEPT !.at = "append", !.prior = prior]

Stores(w) ==
  LET c == fcWork[w].current
      prior == fcWork[w].prior
  IN
  /\ fcWork[w].at = "append" /\ c \in fcSnapshots'
  /\ prior # NoPrior => Compare(prior.snapshot, c, prior.relationship) \in fcSelections'
  /\ fcWork'[w] = [fcWork[w] EXCEPT !.at = "complete", !.prior = NoPrior]

OwnWork(w) ==
  Ends(w) \/ Fetches(w) \/ FindsStored(w) \/ FindsNothing(w) \/ Chooses(w) \/ Stores(w)

LEMMA OwnStep ==
  ASSUME FcTypeOK, NEW w \in FcWorker, WorkerStep(w)
  PROVE  OwnWork(w)
<1>1. fcWork \in [FcWorker -> FcStages] /\ fcAttempts \in [FcFiling -> 0..FcAttemptLimit]
  BY DEF FcTypeOK
<1>2. ASSUME NEW f \in FcFiling, NEW t \in {fcClock, fcClock + 1} \cap 0..MaxFcClock,
             FcFetch(w, f, t)
      PROVE  OwnWork(w)
  <2>1. /\ fcWork'[w] = [at |-> "look_up", current |-> [filing |-> f, retrieved |-> t],
                         attempt |-> fcAttempts[f], prior |-> NoPrior]
        /\ ~Working(w) /\ fcClock' = t /\ t >= fcSource[f].available
        /\ OnFiling(f) # {} => f \in fcOverlapped'
    BY <1>1, <1>2 DEF FcFetch, Working
  <2>2. /\ fcWork'[w].current = [filing |-> f, retrieved |-> t]
        /\ fcWork'[w].current.filing = f /\ fcWork'[w].current.retrieved = t
    BY <2>1
  <2> QED
    BY <2>1, <2>2 DEF OwnWork, Fetches
<1>3. CASE FcLookUp(w)
  <2> DEFINE c == fcWork[w].current
             existing == ExistingSnapshots(c)
  <2>1. fcWork[w].at = "look_up"
    BY <1>3 DEF FcLookUp
  <2>2. CASE FcFail(w, "multiple_sources")
    BY <1>1, <2>2 DEF FcFail, OwnWork, Ends
  <2>3. CASE /\ Cardinality(existing) = 1
             /\ fcWork' = [fcWork EXCEPT ![w].at = "list",
                                         ![w].current = CHOOSE s \in existing : TRUE]
    <3>1. existing # {}
      BY <2>3, FS_EmptySet
    <3>2. PICK d : d \in existing /\ d = CHOOSE s \in existing : TRUE
      BY <3>1
    <3>3. fcWork'[w] = [fcWork[w] EXCEPT !.at = "list", !.current = d]
      BY <1>1, <2>3, <3>2
    <3>4. fcWork'[w].at = "list" /\ fcWork'[w].current = d
      BY <1>1, <2>1, <3>3 DEF FcStages, FcIdle
    <3>5. d \in fcSnapshots /\ d.filing = c.filing /\ d.retrieved <= c.retrieved
      BY <3>2 DEF ExistingSnapshots
    <3> QED
      BY <2>1, <3>3, <3>4, <3>5 DEF OwnWork, FindsStored
  <2>4. CASE /\ existing = {}
             /\ fcWork' = [fcWork EXCEPT ![w].at =
                             IF DOMAIN fcSource[c.filing].sections = {} THEN "complete" ELSE "list"]
    <3>1. fcWork'[w] = [fcWork[w] EXCEPT !.at =
                          IF DOMAIN SectionsOf(c) = {} THEN "complete" ELSE "list"]
      BY <1>1, <2>4 DEF SectionsOf, Source
    <3>2. fcWork'[w].at = IF DOMAIN SectionsOf(c) = {} THEN "complete" ELSE "list"
      BY <1>1, <2>1, <3>1 DEF FcStages, FcIdle
    <3> QED
      BY <2>1, <2>4, <3>1, <3>2 DEF OwnWork, FindsNothing
  <2> QED
    BY <1>3, <2>2, <2>3, <2>4 DEF FcLookUp
<1>4. CASE FcList(w)
  <2> DEFINE c == fcWork[w].current
  <2>1. fcWork[w].at = "list"
    BY <1>4 DEF FcList
  <2>2. PICK prior \in SelectPrior(c) :
          /\ fcChoices' = fcChoices \cup {[current |-> c, known |-> fcSnapshots, prior |-> prior]}
          /\ IF prior # NoPrior /\ ~RelationshipValid(prior.snapshot, c, prior.relationship)
             THEN FcFail(w, "misrelated")
             ELSE fcWork' = [fcWork EXCEPT ![w].at = "append", ![w].prior = prior]
    BY <1>4 DEF FcList
  <2>3. CASE FcFail(w, "misrelated")
    BY <1>1, <2>3 DEF FcFail, OwnWork, Ends
  <2>4. CASE /\ fcWork' = [fcWork EXCEPT ![w].at = "append", ![w].prior = prior]
             /\ prior # NoPrior => RelationshipValid(prior.snapshot, c, prior.relationship)
    BY <1>1, <2>1, <2>2, <2>4 DEF OwnWork, Chooses
  <2> QED
    BY <2>2, <2>3, <2>4
<1>5. CASE FcAppend(w)
  BY <1>1, <1>5 DEF FcAppend, OwnWork, Stores
<1>6. CASE FcComplete(w) \/ FcCrash(w)
  BY <1>1, <1>6 DEF FcComplete, FcCrash, OwnWork, Ends
<1> QED
  BY <1>2, <1>3, <1>4, <1>5, <1>6 DEF WorkerStep

-----------------------------------------------------------------------------
(* The inductive step, conjunct by conjunct *)

(* The worker's own stage stays one of the stages.                           *)
LEMMA OwnWorkTyped ==
  ASSUME FcInv, NEW w \in FcWorker, WorkerStep(w)
  PROVE  fcWork'[w] \in FcStages
<1>1. /\ FcTypeOK /\ FetchedInTime /\ fcWork[w] \in FcStages /\ FcIdle \in FcStages
      /\ fcAttempts \in [FcFiling -> 0..FcAttemptLimit]
      /\ fcSnapshots \subseteq FcSnapshot
  BY DEF FcInv, FcTypeOK, FcStages
<1>2. ASSUME NEW at \in {"look_up", "list", "append", "complete"}, NEW current \in FcSnapshot,
             NEW attempt \in 0..FcAttemptLimit, NEW prior \in Prior
      PROVE  [at |-> at, current |-> current, attempt |-> attempt, prior |-> prior] \in FcStages
  BY DEF FcStages
<1>3. Working(w) => fcWork[w] = [at |-> fcWork[w].at, current |-> fcWork[w].current,
                                 attempt |-> fcWork[w].attempt, prior |-> fcWork[w].prior]
  BY <1>1 DEF FcStages, Working
<1>4. NoPrior \in Prior
  BY DEF Prior
<1>5. CASE Ends(w)
  BY <1>1, <1>5 DEF Ends
<1>6. CASE Fetches(w)
  <2>1. [filing |-> fcWork'[w].current.filing, retrieved |-> fcClock'] \in FcSnapshot
    BY <1>6 DEF Fetches, FcSnapshot
  <2> QED
    BY <1>1, <1>2, <1>4, <1>6, <2>1 DEF Fetches
<1>7. CASE FindsStored(w)
  <2>1. Working(w) /\ fcWork'[w].current \in FcSnapshot
    BY <1>1, <1>7, StageFields DEF FindsStored
  <2>2. fcWork'[w] = [at |-> "list", current |-> fcWork'[w].current,
                      attempt |-> fcWork[w].attempt, prior |-> fcWork[w].prior]
    BY <1>3, <1>7, <2>1 DEF FindsStored
  <2> QED
    BY <1>1, <1>2, <2>1, <2>2, StageFields
<1>8. CASE FindsNothing(w)
  <2>1. Working(w)
    BY <1>1, <1>8, StageFields DEF FindsNothing
  <2>2. fcWork'[w] = [at |-> fcWork'[w].at, current |-> fcWork[w].current,
                      attempt |-> fcWork[w].attempt, prior |-> fcWork[w].prior]
    BY <1>3, <1>8, <2>1 DEF FindsNothing
  <2>3. fcWork'[w].at \in {"look_up", "list", "append", "complete"}
    BY <1>8 DEF FindsNothing
  <2> QED
    BY <1>1, <1>2, <2>1, <2>2, <2>3, StageFields
<1>9. CASE Chooses(w)
  <2>1. Working(w) /\ fcWork[w].at = "list"
    BY <1>1, <1>9, StageFields DEF Chooses
  <2>2. PICK prior \in SelectPrior(fcWork[w].current) :
          fcWork'[w] = [fcWork[w] EXCEPT !.at = "append", !.prior = prior]
    BY <1>9 DEF Chooses
  <2>3. fcWork[w].current \in FcSnapshot /\ Source(fcWork[w].current).available
                                             <= fcWork[w].current.retrieved
    BY <1>1, <2>1, StageFields DEF FetchedInTime
  <2>4. prior \in Prior
    BY <1>1, <2>3, SelectedPriorStands
  <2>5. fcWork'[w] = [at |-> "append", current |-> fcWork[w].current,
                      attempt |-> fcWork[w].attempt, prior |-> prior]
    BY <1>3, <2>1, <2>2
  <2> QED
    BY <1>1, <1>2, <2>1, <2>4, <2>5, StageFields
<1>10. CASE Stores(w)
  <2>1. Working(w)
    BY <1>1, <1>10, StageFields DEF Stores
  <2>2. fcWork'[w] = [at |-> "complete", current |-> fcWork[w].current,
                      attempt |-> fcWork[w].attempt, prior |-> NoPrior]
    BY <1>3, <1>10, <2>1 DEF Stores
  <2> QED
    BY <1>1, <1>2, <1>4, <2>1, <2>2, StageFields
<1> QED
  BY <1>1, <1>5, <1>6, <1>7, <1>8, <1>9, <1>10, OwnStep DEF OwnWork

(* The status of a job and its attempts.                                     *)
LEMMA JobStep ==
  ASSUME FcInv, FcNext
  PROVE  /\ fcJob' \in [FcFiling -> {"queued", "running", "done", "failed"}]
         /\ fcAttempts' \in [FcFiling -> 0..FcAttemptLimit] /\ AttemptIsLeft'
<1> USE DEF AttemptIsLeft
<1>1. /\ fcJob \in [FcFiling -> {"queued", "running", "done", "failed"}]
      /\ fcAttempts \in [FcFiling -> 0..FcAttemptLimit] /\ AttemptIsLeft
      /\ FcAttemptLimit \in Nat /\ FcTypeOK
  BY FilingChangeAssumption DEF FcInv, FcTypeOK
<1> DEFINE Goal == /\ fcJob' \in [FcFiling -> {"queued", "running", "done", "failed"}]
                   /\ fcAttempts' \in [FcFiling -> 0..FcAttemptLimit] /\ AttemptIsLeft'
<1>2. ASSUME NEW w \in FcWorker, NEW why, FcFail(w, why), Working(w) PROVE Goal
  <2>1. fcWork[w].current.filing \in FcFiling
    BY <1>1, <1>2, StageFields
  <2>2. CASE FcHolds(w)
    BY <1>1, <1>2, <2>1, <2>2 DEF FcFail, FcHolds
  <2>3. CASE ~FcHolds(w)
    BY <1>1, <1>2, <2>3 DEF FcFail, fcJobVars
  <2> QED
    BY <2>2, <2>3
<1>3. ASSUME NEW w \in FcWorker, WorkerStep(w) PROVE Goal
  <2>1. ASSUME NEW f \in FcFiling, NEW t, FcFetch(w, f, t) PROVE Goal
    BY <1>1, <2>1 DEF FcFetch
  <2>2. CASE FcLookUp(w)
    <3>1. Working(w)
      BY <1>1, <2>2, StageFields DEF FcLookUp
    <3> QED
      BY <1>1, <1>2, <2>2, <3>1 DEF FcLookUp, fcJobVars
  <2>3. CASE FcList(w)
    <3>1. Working(w)
      BY <1>1, <2>3, StageFields DEF FcList
    <3> QED
      BY <1>1, <1>2, <2>3, <3>1 DEF FcList, fcJobVars
  <2>4. CASE FcAppend(w) \/ FcCrash(w)
    BY <1>1, <2>4 DEF FcAppend, FcCrash, fcJobVars
  <2>5. CASE FcComplete(w)
    BY <1>1, <2>5 DEF FcComplete, FcHolds
  <2> QED
    BY <1>3, <2>1, <2>2, <2>3, <2>4, <2>5 DEF WorkerStep
<1>4. ASSUME NEW f \in FcFiling, FcLeaseExpires(f) PROVE Goal
  BY <1>1, <1>4 DEF FcLeaseExpires
<1> QED
  BY <1>3, <1>4, FcNextIs

(* Time and losses keep their bounds.                                        *)
LEMMA CounterStep ==
  ASSUME FcTypeOK, FcNext
  PROVE  fcClock' \in 0..MaxFcClock /\ fcLosses' \in 0..MaxFcLosses
<1>1. fcClock \in 0..MaxFcClock /\ fcLosses \in 0..MaxFcLosses /\ MaxFcLosses \in Nat
  BY FilingChangeAssumption DEF FcTypeOK
<1>2. ASSUME NEW w \in FcWorker, WorkerStep(w)
      PROVE  fcClock' \in 0..MaxFcClock /\ fcLosses' \in 0..MaxFcLosses
  BY <1>1, <1>2 DEF WorkerStep, FcFetch, FcLookUp, FcList, FcAppend, FcComplete, FcCrash
<1>3. ASSUME NEW f \in FcFiling, FcLeaseExpires(f)
      PROVE  fcClock' \in 0..MaxFcClock /\ fcLosses' \in 0..MaxFcLosses
  BY <1>1, <1>3 DEF FcLeaseExpires
<1> QED
  BY <1>2, <1>3, FcNextIs

(* A selection compares snapshots that are stored.                           *)
LEMMA SelectionStep ==
  ASSUME FcInv, FcNext
  PROVE  SelectionsCompare' /\ \A s \in fcSelections' :
                                 s.previous \in fcSnapshots' /\ s.current \in fcSnapshots'
<1>1. FcTypeOK /\ SelectionsCompare /\ WorkIsChosen /\ Monotone
  BY StepIsMonotone DEF FcInv
<1>2. fcSource' = fcSource /\ fcSnapshots \subseteq fcSnapshots'
  BY <1>1 DEF Monotone
<1>3. ASSUME NEW x \in fcSelections'
      PROVE  \E p, c \in fcSnapshots', r \in DeltaRelationship :
               x = Compare(p, c, r) /\ RelationshipValid(p, c, r)
  <2>1. CASE x \in fcSelections
    BY <1>1, <1>2, <2>1 DEF SelectionsCompare
  <2>2. CASE x \notin fcSelections
    <3>1. PICK w \in FcWorker : FcAppend(w) /\ fcWork[w].prior # NoPrior
      <4>1. ASSUME NEW w \in FcWorker, WorkerStep(w), ~FcAppend(w) PROVE fcSelections' = fcSelections
        BY <4>1 DEF WorkerStep, FcFetch, FcLookUp, FcList, FcComplete, FcCrash, fcStoreVars
      <4>2. ASSUME NEW f \in FcFiling, FcLeaseExpires(f) PROVE fcSelections' = fcSelections
        BY <4>2 DEF FcLeaseExpires, fcStoreVars
      <4>3. PICK w \in FcWorker : FcAppend(w)
        BY <1>3, <2>2, <4>1, <4>2, FcNextIs
      <4> QED
        BY <1>3, <2>2, <4>3 DEF FcAppend
    <3> DEFINE prior == fcWork[w].prior
               c == fcWork[w].current
    <3>2. /\ fcWork[w].at = "append" /\ c \in fcSnapshots' /\ prior.snapshot \in fcSnapshots'
          /\ x = Compare(prior.snapshot, c, prior.relationship)
      BY <1>3, <2>2, <3>1 DEF FcAppend
    <3>3. RelationshipValid(prior.snapshot, c, prior.relationship)
      BY <1>1, <3>1, <3>2 DEF WorkIsChosen
    <3>4. prior.relationship \in DeltaRelationship
      BY <1>1, <3>1, <3>2, StageFields DEF Prior
    <3> QED
      BY <3>2, <3>3, <3>4
  <2> QED
    BY <2>1, <2>2
<1>4. SelectionsCompare'
  BY <1>2, <1>3, SourceFrame DEF SelectionsCompare
<1>5. \A x \in fcSelections' : x.previous \in fcSnapshots' /\ x.current \in fcSnapshots'
  BY <1>3, CompareFields
<1> QED
  BY <1>4, <1>5

LEMMA TypeStep ==
  ASSUME FcInv, FcNext
  PROVE  FcTypeOK' /\ AttemptIsLeft'
<1>1. FcTypeOK /\ Monotone
  BY StepIsMonotone DEF FcInv
<1>2. fcSource' \in FcScenarios
  BY <1>1 DEF FcTypeOK, Monotone
<1>3. fcSnapshots' \subseteq FcSnapshot
  <2>1. ASSUME NEW w \in FcWorker, WorkerStep(w) PROVE fcSnapshots' \subseteq FcSnapshot
    <3>1. /\ fcSnapshots' \subseteq fcSnapshots \cup {fcWork[w].current}
          /\ fcSnapshots' # fcSnapshots => fcWork[w].at = "append"
      BY <2>1, SnapshotsStored
    <3> QED
      BY <1>1, <3>1, StageFields DEF FcTypeOK
  <2>2. ASSUME NEW f \in FcFiling, FcLeaseExpires(f) PROVE fcSnapshots' \subseteq FcSnapshot
    BY <1>1, <2>2 DEF FcLeaseExpires, FcTypeOK, fcStoreVars
  <2> QED
    BY <2>1, <2>2, FcNextIs
<1>4. fcWork' \in [FcWorker -> FcStages]
  <2>1. fcWork \in [FcWorker -> FcStages]
    BY <1>1 DEF FcTypeOK
  <2>2. ASSUME NEW w \in FcWorker, WorkerStep(w) PROVE fcWork' \in [FcWorker -> FcStages]
    <3>1. fcWork'[w] \in FcStages
      BY <2>2, OwnWorkTyped
    <3>2. \A v \in FcWorker : v # w => fcWork'[v] = fcWork[v]
      BY <1>1, <2>2, OthersKeepWork
    <3>3. fcWork' = [v \in FcWorker |-> fcWork'[v]]
      BY <2>1, <2>2 DEF WorkerStep, FcFetch, FcLookUp, FcList, FcAppend, FcComplete, FcCrash, FcFail
    <3> QED
      BY <2>1, <3>1, <3>2, <3>3
  <2>3. ASSUME NEW f \in FcFiling, FcLeaseExpires(f) PROVE fcWork' \in [FcWorker -> FcStages]
    BY <2>1, <2>3 DEF FcLeaseExpires
  <2> QED
    BY <2>2, <2>3, FcNextIs
<1> QED
  BY <1>1, <1>2, <1>3, <1>4, JobStep, CounterStep, SelectionStep DEF FcTypeOK

(* The lease of a job says nothing of the workers and the store.             *)
LEMMA LeaseKeepsWork ==
  ASSUME NEW f \in FcFiling, FcLeaseExpires(f)
  PROVE  /\ UNCHANGED <<fcSource, fcSnapshots, fcSelections, fcWork, fcClock, fcFailures,
                        fcOverlapped, fcChoices>>
BY DEF FcLeaseExpires, fcStoreVars

(* What the worker goes on with, by stage.                                   *)
LEMMA OwnFields ==
  ASSUME FcInv, NEW w \in FcWorker, WorkerStep(w), fcWork'[w] # FcIdle
  PROVE  /\ Fetches(w) => fcWork'[w].at = "look_up"
         /\ FindsStored(w) => Working(w)
         /\ FindsNothing(w) => Working(w) /\ fcWork'[w].current = fcWork[w].current
         /\ Chooses(w) =>
              /\ Working(w) /\ fcWork'[w].at = "append" /\ fcWork'[w].current = fcWork[w].current
              /\ \E prior \in SelectPrior(fcWork[w].current) :
                   /\ fcWork'[w].prior = prior
                   /\ [current |-> fcWork[w].current, known |-> fcSnapshots, prior |-> prior]
                        \in fcChoices'
                   /\ prior # NoPrior =>
                        RelationshipValid(prior.snapshot, fcWork[w].current, prior.relationship)
         /\ Stores(w) =>
              Working(w) /\ fcWork'[w].at = "complete" /\ fcWork'[w].current = fcWork[w].current
<1>1. FcTypeOK /\ fcWork[w] \in FcStages
  BY DEF FcInv, FcTypeOK
<1>2. CASE Fetches(w)
  <2>1. fcWork'[w].at = "look_up" /\ ~Working(w)
    BY <1>2 DEF Fetches
  <2>2. fcWork[w].at \notin {"look_up", "list", "append", "complete"}
    BY <1>1, <2>1, StageFields
  <2>3. ~FindsStored(w) /\ ~FindsNothing(w) /\ ~Chooses(w) /\ ~Stores(w)
    BY <2>2 DEF FindsStored, FindsNothing, Chooses, Stores
  <2> QED
    BY <2>1, <2>3
<1>6. CASE FindsStored(w) /\ ~FindsNothing(w)
  BY <1>1, <1>6, StageFields DEF Fetches, FindsStored, Chooses, Stores
<1>3. CASE FindsNothing(w)
  <2>1. Working(w)
    BY <1>1, <1>3, StageFields DEF FindsNothing
  <2> QED
    BY <1>1, <1>3, <2>1 DEF Fetches, FindsStored, FindsNothing, Chooses, Stores, Working, FcStages
<1>4. CASE Chooses(w)
  <2>1. Working(w)
    BY <1>1, <1>4, StageFields DEF Chooses
  <2>2. PICK prior \in SelectPrior(fcWork[w].current) :
          /\ [current |-> fcWork[w].current, known |-> fcSnapshots, prior |-> prior] \in fcChoices'
          /\ prior # NoPrior =>
               RelationshipValid(prior.snapshot, fcWork[w].current, prior.relationship)
          /\ fcWork'[w] = [fcWork[w] EXCEPT !.at = "append", !.prior = prior]
    BY <1>4 DEF Chooses
  <2>3. /\ fcWork'[w].at = "append" /\ fcWork'[w].current = fcWork[w].current
        /\ fcWork'[w].prior = prior
    BY <1>1, <2>1, <2>2 DEF Working, FcStages
  <2> QED
    BY <1>4, <2>1, <2>2, <2>3 DEF Fetches, FindsStored, FindsNothing, Chooses, Stores
<1>5. CASE Stores(w)
  <2>1. Working(w)
    BY <1>1, <1>5, StageFields DEF Stores
  <2>2. fcWork'[w].at = "complete" /\ fcWork'[w].current = fcWork[w].current
    BY <1>1, <1>5, <2>1 DEF Stores, Working, FcStages
  <2> QED
    BY <1>5, <2>1, <2>2 DEF Fetches, FindsStored, FindsNothing, Chooses, Stores
<1> QED
  BY <1>2, <1>3, <1>4, <1>5, <1>6

LEMMA TimeStep ==
  ASSUME FcInv, FcNext
  PROVE  FetchedInTime'
<1>1. FcTypeOK /\ FetchedInTime /\ Monotone /\ fcClock \in Nat /\ fcClock' \in Nat
  BY StepIsMonotone, CounterStep DEF FcInv, FcTypeOK
<1>2. fcSource' = fcSource /\ fcClock <= fcClock'
  BY <1>1 DEF Monotone
<1>3. \A s : Source(s)' = Source(s) /\ SectionsOf(s)' = SectionsOf(s)
  BY <1>2, SourceFrame
<1> DEFINE InTime(c) == Source(c).available <= c.retrieved /\ c.retrieved <= fcClock'
           StageInTime(v) ==
             fcWork'[v] # FcIdle =>
               /\ InTime(fcWork'[v].current)
               /\ fcWork'[v].at \in {"list", "append"} => DOMAIN SectionsOf(fcWork'[v].current) # {}
<1>4. \A s \in fcSnapshots : InTime(s) /\ DOMAIN SectionsOf(s) # {}
  BY <1>1, <1>2, SnapshotFields DEF FetchedInTime, FcTypeOK
<1>5. ASSUME NEW v \in FcWorker, fcWork'[v] = fcWork[v] PROVE StageInTime(v)
  BY <1>1, <1>2, <1>5, StageFields DEF FetchedInTime, Working
<1>6. ASSUME NEW w \in FcWorker, WorkerStep(w) PROVE StageInTime(w)
  <2> SUFFICES ASSUME fcWork'[w] # FcIdle PROVE StageInTime(w)
    OBVIOUS
  <2> DEFINE c == fcWork[w].current
  <2>1. Working(w) => InTime(c)
    BY <1>1, <1>2, StageFields DEF FetchedInTime
  <2>2. CASE Fetches(w)
    BY <1>1, <2>2 DEF Fetches, Source
  <2>3. CASE FindsStored(w)
    BY <1>4, <2>3 DEF FindsStored
  <2>4. CASE FindsNothing(w)
    <3>1. fcWork'[w].current = c /\ Working(w)
      BY <1>6, <2>4, OwnFields
    <3>2. fcWork'[w].at \in {"list", "append"} => DOMAIN SectionsOf(c) # {}
      BY <2>4 DEF FindsNothing
    <3> QED
      BY <2>1, <3>1, <3>2
  <2>5. CASE Chooses(w)
    <3>1. fcWork'[w].current = c /\ Working(w) /\ fcWork[w].at = "list"
      BY <1>6, <2>5, OwnFields DEF Chooses
    <3> QED
      BY <1>1, <2>1, <3>1 DEF FetchedInTime
  <2>6. CASE Stores(w)
    <3>1. fcWork'[w].current = c /\ Working(w) /\ fcWork'[w].at = "complete"
      BY <1>6, <2>6, OwnFields
    <3> QED
      BY <2>1, <3>1
  <2> QED
    BY <1>1, <1>6, <2>2, <2>3, <2>4, <2>5, <2>6, OwnStep DEF OwnWork, Ends
<1>7. ASSUME NEW w \in FcWorker, WorkerStep(w) PROVE FetchedInTime'
  <2>1. \A v \in FcWorker : StageInTime(v)
    BY <1>1, <1>5, <1>6, <1>7, OthersKeepWork
  <2>2. \A s \in fcSnapshots' : InTime(s) /\ DOMAIN SectionsOf(s) # {}
    <3>1. /\ fcSnapshots' \subseteq fcSnapshots \cup {fcWork[w].current}
          /\ fcSnapshots' # fcSnapshots => fcWork[w].at = "append"
      BY <1>7, SnapshotsStored
    <3>2. CASE fcSnapshots' = fcSnapshots
      BY <1>4, <3>2
    <3>3. CASE fcWork[w].at = "append"
      <4>1. Working(w)
        BY <1>1, <3>3, StageFields
      <4>2. InTime(fcWork[w].current) /\ DOMAIN SectionsOf(fcWork[w].current) # {}
        BY <1>1, <1>2, <3>3, <4>1, StageFields DEF FetchedInTime
      <4> QED
        BY <1>4, <3>1, <4>2
    <3> QED
      BY <3>1, <3>2, <3>3
  <2> QED
    BY <1>3, <2>1, <2>2 DEF FetchedInTime, Working
<1>8. ASSUME NEW f \in FcFiling, FcLeaseExpires(f) PROVE FetchedInTime'
  BY <1>1, <1>3, <1>8, LeaseKeepsWork DEF FetchedInTime, Working
<1> QED
  BY <1>7, <1>8, FcNextIs

LEMMA LookUpStep ==
  ASSUME FcInv, FcNext
  PROVE  LookUpsStand'
<1>1. FcTypeOK /\ FetchedInTime /\ LookUpsStand /\ Monotone /\ FcTypeOK'
  BY StepIsMonotone, TypeStep DEF FcInv
<1>2. fcSnapshots \subseteq fcSnapshots' /\ fcOverlapped \subseteq fcOverlapped' /\ fcClock <= fcClock'
  BY <1>1 DEF Monotone
<1>3. ASSUME NEW w \in FcWorker, WorkerStep(w) PROVE LookUpsStand'
  <2> DEFINE c == fcWork[w].current
             d == fcWork'[w].current
  <2>1. \A v \in FcWorker : v # w => fcWork'[v] = fcWork[v]
    BY <1>1, <1>3, OthersKeepWork
  <2>2. /\ fcSnapshots' \subseteq fcSnapshots \cup {c}
        /\ fcSnapshots' # fcSnapshots => fcWork[w].at = "append"
    BY <1>3, SnapshotsStored
  <2>3. fcWork'[w] = FcIdle \/ Fetches(w) \/ (Working(w) /\ d.filing = c.filing)
    <3>1. CASE fcWork'[w] # FcIdle /\ FindsStored(w)
      BY <1>3, <3>1, OwnFields DEF FindsStored
    <3> QED
      BY <1>1, <1>3, <3>1, OwnStep, OwnFields DEF OwnWork, Ends
  <2>4. Fetches(w) => fcSnapshots' = fcSnapshots /\ ~Working(w)
    BY <1>1, <2>2, StageFields DEF Fetches
  <2> DEFINE Stands(v) ==
               LET e == fcWork'[v].current IN
               \/ e.filing \in fcOverlapped'
               \/ /\ \A u \in FcWorker : u # v /\ fcWork'[u] # FcIdle =>
                                           fcWork'[u].current.filing # e.filing
                  /\ fcWork'[v].at = "look_up" =>
                       \A s \in fcSnapshots' : s.filing = e.filing => s.retrieved <= e.retrieved
                  /\ fcWork'[v].at \in {"list", "append"} =>
                       e \in fcSnapshots' \/ \A s \in fcSnapshots' : s.filing # e.filing
  <2>5. ASSUME NEW v \in FcWorker, v # w, fcWork'[v] # FcIdle PROVE Stands(v)
    <3> DEFINE e == fcWork[v].current
    <3>1. fcWork'[v] = fcWork[v] /\ Working(v)
      BY <2>1, <2>5 DEF Working
    <3> SUFFICES ASSUME e.filing \notin fcOverlapped' PROVE Stands(v)
      BY <3>1
    <3>2. /\ \A u \in FcWorker : u # v /\ Working(u) => fcWork[u].current.filing # e.filing
          /\ fcWork[v].at = "look_up" =>
               \A s \in fcSnapshots : s.filing = e.filing => s.retrieved <= e.retrieved
          /\ fcWork[v].at \in {"list", "append"} =>
               e \in fcSnapshots \/ \A s \in fcSnapshots : s.filing # e.filing
      BY <1>1, <1>2, <3>1 DEF LookUpsStand
    <3>3. fcWork'[w] # FcIdle => d.filing # e.filing
      <4>1. CASE Fetches(w)
        <5>1. d.filing = e.filing => v \in OnFiling(d.filing)
          BY <3>1 DEF OnFiling, Working
        <5> QED
          BY <4>1, <5>1 DEF Fetches
      <4>2. CASE Working(w) /\ d.filing = c.filing
        BY <2>5, <3>2, <4>2
      <4> QED
        BY <2>3, <4>1, <4>2
    <3>4. \A u \in FcWorker : u # v /\ fcWork'[u] # FcIdle => fcWork'[u].current.filing # e.filing
      BY <2>1, <3>2, <3>3 DEF Working
    <3>5. \A s \in fcSnapshots' : s.filing = e.filing => s \in fcSnapshots
      <4>1. CASE fcWork[w].at = "append"
        <5>1. Working(w)
          BY <1>1, <4>1, StageFields
        <5>2. c.filing # e.filing
          BY <2>5, <3>2, <5>1
        <5> QED
          BY <2>2, <5>2
      <4> QED
        BY <2>2, <4>1
    <3> HIDE DEF e
    <3>6. fcWork'[v].current = e
      BY <3>1 DEF e
    <3> QED
      BY <1>2, <3>1, <3>2, <3>4, <3>5, <3>6
  <2>6. fcWork'[w] # FcIdle => Stands(w)
    <3> SUFFICES ASSUME fcWork'[w] # FcIdle, d.filing \notin fcOverlapped' PROVE Stands(w)
      OBVIOUS
    <3>1. CASE Fetches(w)
      <4>1. /\ OnFiling(d.filing) = {} /\ d.retrieved = fcClock' /\ fcWork'[w].at = "look_up"
            /\ fcClock' \in Nat
        BY <3>1 DEF Fetches
      <4>2. \A u \in FcWorker : u # w /\ fcWork'[u] # FcIdle => fcWork'[u].current.filing # d.filing
        BY <2>1, <4>1 DEF OnFiling
      <4>3. \A s \in fcSnapshots' : s.retrieved <= d.retrieved
        <5> SUFFICES ASSUME NEW s \in fcSnapshots' PROVE s.retrieved <= d.retrieved
          OBVIOUS
        <5>1. s \in fcSnapshots /\ s.retrieved \in Nat /\ s.retrieved <= fcClock /\ fcClock \in Nat
          BY <1>1, <2>4, <3>1, SnapshotFields DEF FetchedInTime, FcTypeOK
        <5> QED
          BY <1>2, <4>1, <5>1
      <4> QED
        BY <4>1, <4>2, <4>3
    <3>2. CASE Working(w) /\ d.filing = c.filing
      <4>1. /\ \A u \in FcWorker : u # w /\ Working(u) => fcWork[u].current.filing # c.filing
            /\ fcWork[w].at = "look_up" =>
                 \A s \in fcSnapshots : s.filing = c.filing => s.retrieved <= c.retrieved
            /\ fcWork[w].at \in {"list", "append"} =>
                 c \in fcSnapshots \/ \A s \in fcSnapshots : s.filing # c.filing
        BY <1>1, <1>2, <3>2 DEF LookUpsStand
      <4>2. \A u \in FcWorker : u # w /\ fcWork'[u] # FcIdle => fcWork'[u].current.filing # d.filing
        BY <2>1, <3>2, <4>1 DEF Working
      <4>3. CASE FindsStored(w)
        <5>1. fcWork'[w].at = "list" /\ d \in fcSnapshots'
          BY <1>2, <4>3 DEF FindsStored
        <5> QED
          BY <4>2, <5>1
      <4>4. CASE FindsNothing(w)
        <5>1. d = c /\ fcWork[w].at = "look_up" /\ fcWork'[w].at # "look_up"
          BY <1>3, <4>4, OwnFields DEF FindsNothing
        <5>2. fcSnapshots' = fcSnapshots
          BY <2>2, <5>1
        <5>3. \A s \in fcSnapshots : s.filing # c.filing
          BY <4>1, <4>4, <5>1 DEF FindsNothing, ExistingSnapshots
        <5> QED
          BY <4>2, <5>1, <5>2, <5>3
      <4>5. CASE Chooses(w)
        <5>1. d = c /\ fcWork[w].at = "list" /\ fcWork'[w].at = "append"
          BY <1>3, <4>5, OwnFields DEF Chooses
        <5>2. fcSnapshots' = fcSnapshots
          BY <2>2, <5>1
        <5> QED
          BY <4>1, <4>2, <5>1, <5>2
      <4>6. CASE Stores(w)
        <5>1. fcWork'[w].at = "complete"
          BY <1>3, <4>6, OwnFields
        <5> QED
          BY <4>2, <5>1
      <4> QED
        BY <1>1, <1>3, <2>4, <3>2, <4>3, <4>4, <4>5, <4>6, OwnStep DEF OwnWork, Ends
    <3> QED
      BY <2>3, <3>1, <3>2
  <2> HIDE DEF Stands
  <2>7. \A v \in FcWorker : fcWork'[v] # FcIdle => Stands(v)
    BY <2>5, <2>6
  <2> QED
    BY <2>7 DEF LookUpsStand, Working, Stands
<1>4. ASSUME NEW f \in FcFiling, FcLeaseExpires(f) PROVE LookUpsStand'
  BY <1>1, <1>4, LeaseKeepsWork DEF LookUpsStand, Working
<1> QED
  BY <1>3, <1>4, FcNextIs

(* What is stored and recorded stays so.                                     *)
StoredNext(s) ==
  /\ s \in fcSnapshots'
  /\ \E x \in fcChoices' :
       /\ x.current = s
       /\ x.prior = NoPrior \/ \E y \in fcSelections' :
            y.current = s /\ y.previous = x.prior.snapshot

LEMMA StoredStays ==
  ASSUME Monotone, NEW s, Stored(s)
  PROVE  StoredNext(s)
BY DEF Monotone, Stored, StoredNext

LEMMA WorkStep ==
  ASSUME FcInv, FcNext
  PROVE  WorkIsChosen'
<1>1. FcTypeOK /\ FetchedInTime /\ WorkIsChosen /\ Monotone
  BY StepIsMonotone DEF FcInv
<1>2. /\ fcSource' = fcSource /\ fcSnapshots \subseteq fcSnapshots' /\ fcChoices \subseteq fcChoices'
      /\ fcSelections \subseteq fcSelections' /\ fcSnapshots \subseteq FcSnapshot
  BY <1>1 DEF Monotone, FcTypeOK
<1>3. /\ \A s : SectionsOf(s)' = SectionsOf(s)
      /\ \A p, c, r : RelationshipValid(p, c, r)' <=> RelationshipValid(p, c, r)
  BY <1>2, SourceFrame
<1> DEFINE Chosen(v) ==
             LET c == fcWork'[v].current
                 prior == fcWork'[v].prior
             IN
             /\ fcWork'[v].at = "append" =>
                  /\ \E x \in fcChoices' : x.current = c /\ x.prior = prior
                  /\ prior # NoPrior =>
                       /\ prior.snapshot \in fcSnapshots'
                       /\ RelationshipValid(prior.snapshot, c, prior.relationship)
             /\ fcWork'[v].at = "complete" /\ DOMAIN SectionsOf(c) # {} => StoredNext(c)
<1>4. ASSUME NEW v \in FcWorker, fcWork'[v] = fcWork[v] PROVE Chosen(v)
  BY <1>1, <1>2, <1>4, StoredStays DEF WorkIsChosen
<1>5. ASSUME NEW w \in FcWorker, WorkerStep(w) PROVE Chosen(w)
  <2> DEFINE c == fcWork[w].current
  <2>1. CASE fcWork'[w] = FcIdle
    BY <2>1 DEF FcIdle
  <2>2. CASE fcWork'[w] # FcIdle /\ (Fetches(w) \/ FindsStored(w))
    BY <1>5, <2>2, OwnFields DEF FindsStored
  <2>3. CASE fcWork'[w] # FcIdle /\ FindsNothing(w)
    BY <1>5, <2>3, OwnFields DEF FindsNothing
  <2>4. CASE fcWork'[w] # FcIdle /\ Chooses(w)
    <3>1. PICK prior \in SelectPrior(c) :
            /\ fcWork'[w].prior = prior
            /\ [current |-> c, known |-> fcSnapshots, prior |-> prior] \in fcChoices'
            /\ prior # NoPrior => RelationshipValid(prior.snapshot, c, prior.relationship)
      BY <1>5, <2>4, OwnFields
    <3>2. fcWork'[w].at = "append" /\ fcWork'[w].current = c /\ Working(w)
      BY <1>5, <2>4, OwnFields
    <3>3. c \in FcSnapshot /\ Source(c).available <= c.retrieved
      BY <1>1, <3>2, StageFields DEF FetchedInTime
    <3>4. prior # NoPrior => prior.snapshot \in fcSnapshots'
      BY <1>1, <1>2, <3>3, SelectedPriorStands
    <3> QED
      BY <3>1, <3>2, <3>4
  <2>5. CASE fcWork'[w] # FcIdle /\ Stores(w)
    <3> DEFINE prior == fcWork[w].prior
    <3>1. fcWork'[w].at = "complete" /\ fcWork'[w].current = c
      BY <1>5, <2>5, OwnFields
    <3>2. /\ fcWork[w].at = "append" /\ c \in fcSnapshots'
          /\ prior # NoPrior => Compare(prior.snapshot, c, prior.relationship) \in fcSelections'
      BY <2>5 DEF Stores
    <3>3. PICK x \in fcChoices' : x.current = c /\ x.prior = prior
      BY <1>1, <1>2, <3>2 DEF WorkIsChosen
    <3>4. prior # NoPrior => \E y \in fcSelections' : y.current = c /\ y.previous = prior.snapshot
      BY <3>2, CompareFields
    <3>5. StoredNext(c)
      BY <3>2, <3>3, <3>4 DEF StoredNext
    <3> QED
      BY <3>1, <3>5
  <2> QED
    BY <1>1, <1>5, <2>1, <2>2, <2>3, <2>4, <2>5, OwnStep DEF OwnWork, Ends
<1>6. ASSUME NEW w \in FcWorker, WorkerStep(w) PROVE \A v \in FcWorker : Chosen(v)
  BY <1>1, <1>4, <1>5, <1>6, OthersKeepWork
<1>7. ASSUME NEW f \in FcFiling, FcLeaseExpires(f) PROVE \A v \in FcWorker : Chosen(v)
  BY <1>4, <1>7, LeaseKeepsWork
<1> HIDE DEF Chosen
<1>8. \A v \in FcWorker : Chosen(v)
  BY <1>6, <1>7, FcNextIs
<1> QED
  BY <1>3, <1>8 DEF WorkIsChosen, Chosen, Stored, StoredNext

(* A choice is recorded by the worker that lists, and it stands.             *)
LEMMA ChoiceStep ==
  ASSUME FcInv, FcNext
  PROVE  PriorIsLatestKnown'
<1>1. FcTypeOK /\ FetchedInTime /\ Monotone /\ \A x \in fcChoices : ChoiceStands(x)
  BY StepIsMonotone, PriorIsLatestKnownIs DEF FcInv
<1>2. ASSUME NEW w \in FcWorker, WorkerStep(w), NEW x \in fcChoices' PROVE ChoiceStands(x)
  <2>1. CASE x \in fcChoices
    BY <1>1, <2>1
  <2>2. CASE x \notin fcChoices
    <3>1. FcList(w)
      BY <1>2, <2>2 DEF WorkerStep, FcFetch, FcLookUp, FcAppend, FcComplete, FcCrash
    <3> DEFINE c == fcWork[w].current
    <3>2. Working(w) /\ fcWork[w].at = "list"
      BY <1>1, <3>1, StageFields DEF FcList
    <3>3. c \in FcSnapshot /\ Source(c).available <= c.retrieved
      BY <1>1, <3>2, StageFields DEF FetchedInTime
    <3>4. PICK prior \in SelectPrior(c) : x = [current |-> c, known |-> fcSnapshots, prior |-> prior]
      BY <1>2, <2>2, <3>1 DEF FcList
    <3> QED
      BY <1>1, <3>3, <3>4, SelectedPriorStands
  <2> QED
    BY <2>1, <2>2
<1>3. ASSUME NEW f \in FcFiling, FcLeaseExpires(f), NEW x \in fcChoices' PROVE ChoiceStands(x)
  BY <1>1, <1>3, LeaseKeepsWork
<1>4. \A x \in fcChoices' : ChoiceStands(x)'
  BY <1>1, <1>2, <1>3, FcNextIs, SourceFrame DEF Monotone
<1>5. PriorIsLatestKnown' <=> \A x \in fcChoices' : ChoiceStands(x)'
  BY Zenon DEF PriorIsLatestKnown, ChoiceStands, BetterFor, RelatedTo, BaseOf
<1> QED
  BY <1>4, <1>5

(* A second source, and the failure it causes, was noticed as an overlap.    *)
LEMMA SecondSourceStep ==
  ASSUME FcInv, FcNext
  PROVE  SecondSourceTakesTwoWorkers'
<1>1. FcTypeOK /\ FetchedInTime /\ LookUpsStand /\ SecondSourceTakesTwoWorkers /\ Monotone
  BY StepIsMonotone DEF FcInv
<1>2. fcSource' = fcSource /\ fcOverlapped \subseteq fcOverlapped'
  BY <1>1 DEF Monotone
<1> DEFINE Caused(x) ==
             \/ x.why = "multiple_sources" /\ x.filing \in fcOverlapped'
             \/ x.why = "misrelated" /\ fcSource[x.filing].amends /\ fcSource[x.filing].family = "10-K"
           Distinct(s, t) == s.filing = t.filing /\ s # t => s.filing \in fcOverlapped'
<1>3. \A x \in fcFailures : Caused(x)
  BY <1>1, <1>2 DEF SecondSourceTakesTwoWorkers
<1>4. \A s, t \in fcSnapshots : Distinct(s, t)
  BY <1>1, <1>2 DEF SecondSourceTakesTwoWorkers
<1>5. ASSUME NEW w \in FcWorker, WorkerStep(w)
      PROVE  (\A x \in fcFailures' : Caused(x)) /\ \A s, t \in fcSnapshots' : Distinct(s, t)
  <2> DEFINE c == fcWork[w].current
  <2>1. \A s, t \in fcSnapshots' : Distinct(s, t)
    <3>1. /\ fcSnapshots' \subseteq fcSnapshots \cup {c}
          /\ fcSnapshots' # fcSnapshots => fcWork[w].at = "append"
      BY <1>5, SnapshotsStored
    <3>2. CASE fcWork[w].at = "append"
      <4>1. Working(w)
        BY <1>1, <3>2, StageFields
      <4>2. \/ c.filing \in fcOverlapped' \/ c \in fcSnapshots
            \/ \A s \in fcSnapshots : s.filing # c.filing
        BY <1>1, <1>2, <3>2, <4>1 DEF LookUpsStand
      <4> QED
        BY <1>4, <3>1, <4>2
    <3> QED
      BY <1>4, <3>1, <3>2
  <2>2. CASE FcLookUp(w)
    <3> DEFINE existing == ExistingSnapshots(c)
    <3>1. CASE Cardinality(existing) > 1 /\ FcFail(w, "multiple_sources")
      <4>1. \E s, t \in existing : s # t
        <5> SUFFICES ASSUME \A s, t \in existing : s = t PROVE FALSE
          OBVIOUS
        <5>1. existing = {} \/ \E s : existing = {s}
          OBVIOUS
        <5>2. Cardinality(existing) = 0 \/ Cardinality(existing) = 1
          BY <5>1, FS_EmptySet, FS_Singleton
        <5> QED
          BY <3>1, <5>2
      <4>2. c.filing \in fcOverlapped'
        BY <1>4, <4>1 DEF ExistingSnapshots
      <4>3. fcFailures' = fcFailures \cup {[filing |-> c.filing, why |-> "multiple_sources"]}
        BY <3>1 DEF FcFail
      <4> QED
        BY <1>3, <2>1, <4>2, <4>3
    <3>2. CASE fcFailures' = fcFailures
      BY <1>3, <2>1, <3>2
    <3> QED
      BY <2>2, <3>1, <3>2 DEF FcLookUp
  <2>3. CASE FcList(w)
    <3>1. Working(w) /\ fcWork[w].at = "list"
      BY <1>1, <2>3, StageFields DEF FcList
    <3>2. c \in FcSnapshot /\ Source(c).available <= c.retrieved
      BY <1>1, <3>1, StageFields DEF FetchedInTime
    <3>3. PICK prior \in SelectPrior(c) :
            IF prior # NoPrior /\ ~RelationshipValid(prior.snapshot, c, prior.relationship)
            THEN FcFail(w, "misrelated")
            ELSE UNCHANGED fcFailures
      BY <2>3 DEF FcList
    <3>4. CASE prior # NoPrior /\ ~RelationshipValid(prior.snapshot, c, prior.relationship)
      <4>1. prior.snapshot \in FcSnapshot /\ fcSource \in FcScenarios
            /\ prior.relationship \in RelationshipOf(prior.snapshot, c)
        BY <1>1, <3>2, <3>4, SelectedPriorStands DEF FcTypeOK
      <4>2. Source(c).amends /\ Source(c).family = "10-K"
        BY <3>2, <3>4, <4>1, RelationshipFacts
      <4>3. fcFailures' = fcFailures \cup {[filing |-> c.filing, why |-> "misrelated"]}
        BY <3>3, <3>4 DEF FcFail
      <4> QED
        BY <1>3, <2>1, <4>2, <4>3 DEF Source
    <3> QED
      BY <1>3, <2>1, <3>3, <3>4
  <2>4. CASE ~FcLookUp(w) /\ ~FcList(w)
    <3>1. fcFailures' = fcFailures
      BY <1>5, <2>4 DEF WorkerStep, FcFetch, FcAppend, FcComplete, FcCrash
    <3> QED
      BY <1>3, <2>1, <3>1
  <2> QED
    BY <2>2, <2>3, <2>4
<1>6. ASSUME NEW f \in FcFiling, FcLeaseExpires(f)
      PROVE  (\A x \in fcFailures' : Caused(x)) /\ \A s, t \in fcSnapshots' : Distinct(s, t)
  BY <1>3, <1>4, <1>6, LeaseKeepsWork
<1>7. (\A x \in fcFailures' : Caused(x)) /\ \A s, t \in fcSnapshots' : Distinct(s, t)
  BY <1>5, <1>6, FcNextIs
<1> QED
  BY <1>2, <1>7 DEF SecondSourceTakesTwoWorkers

(* A job is done by the worker that has stored what it found.                *)
LEMMA DoneStep ==
  ASSUME FcInv, FcNext
  PROVE  DoneIsStored'
<1>1. FcTypeOK /\ WorkIsChosen /\ DoneIsStored /\ Monotone
  BY StepIsMonotone DEF FcInv
<1>2. fcSource' = fcSource /\ fcJob \in [FcFiling -> {"queued", "running", "done", "failed"}]
  BY <1>1 DEF Monotone, FcTypeOK
<1> DEFINE Kept(f) == DOMAIN fcSource[f].sections # {} =>
                        \E s \in fcSnapshots' : s.filing = f /\ StoredNext(s)
<1>3. ASSUME NEW f \in FcFiling, fcJob[f] = "done" PROVE Kept(f)
  <2> SUFFICES ASSUME DOMAIN fcSource[f].sections # {}
               PROVE  \E s \in fcSnapshots' : s.filing = f /\ StoredNext(s)
    OBVIOUS
  <2>1. PICK s \in fcSnapshots : s.filing = f /\ Stored(s)
    BY <1>1, <1>3 DEF DoneIsStored, Stored
  <2> QED
    BY <1>1, <2>1, StoredStays DEF Monotone
<1>4. ASSUME NEW w \in FcWorker, WorkerStep(w), NEW f \in FcFiling, fcJob'[f] = "done",
             fcJob[f] # "done"
      PROVE  Kept(f)
  <2>1. FcComplete(w) /\ f = fcWork[w].current.filing
    <3>1. ASSUME NEW why, FcFail(w, why) PROVE FALSE
      BY <1>2, <1>4, <3>1 DEF FcFail, fcJobVars
    <3>2. ~FcLookUp(w)
      BY <1>4, <3>1 DEF FcLookUp, fcJobVars
    <3>3. ~FcList(w)
      BY <1>4, <3>1 DEF FcList, fcJobVars
    <3>4. ASSUME NEW g \in FcFiling, NEW t, FcFetch(w, g, t) PROVE FALSE
      BY <1>2, <1>4, <3>4 DEF FcFetch
    <3>5. FcComplete(w)
      BY <1>4, <3>2, <3>3, <3>4 DEF WorkerStep, FcAppend, FcCrash, fcJobVars
    <3> QED
      BY <1>2, <1>4, <3>5 DEF FcComplete
  <2>2. DOMAIN fcSource[f].sections # {} => Stored(fcWork[w].current)
    BY <1>1, <2>1 DEF FcComplete, WorkIsChosen, SectionsOf, Source
  <2>3. DOMAIN fcSource[f].sections # {} => StoredNext(fcWork[w].current)
    BY <1>1, <2>2, StoredStays
  <2> QED
    BY <2>1, <2>3 DEF StoredNext
<1>5. ASSUME NEW f \in FcFiling, FcLeaseExpires(f), NEW g \in FcFiling, fcJob'[g] = "done"
      PROVE  fcJob[g] = "done"
  BY <1>2, <1>5 DEF FcLeaseExpires
<1> HIDE DEF Kept
<1>6. \A f \in FcFiling : fcJob'[f] = "done" => Kept(f)
  BY <1>3, <1>4, <1>5, FcNextIs
<1> QED
  BY <1>2, <1>6 DEF DoneIsStored, Kept, StoredNext

LEMMA FcInvInit == FcInit => FcInv
<1> SUFFICES ASSUME FcInit PROVE FcInv
  OBVIOUS
<1> USE FilingChangeAssumption DEF FcInit
<1>1. /\ FcTypeOK /\ AttemptIsLeft
  BY DEF FcTypeOK, AttemptIsLeft, FcStages
<1>2. \A w \in FcWorker : ~Working(w)
  BY DEF Working
<1>3. FetchedInTime /\ LookUpsStand /\ WorkIsChosen /\ SelectionsCompare
  BY <1>2 DEF FetchedInTime, LookUpsStand, WorkIsChosen, SelectionsCompare, FcIdle
<1>4. PriorIsLatestKnown /\ SecondSourceTakesTwoWorkers /\ DoneIsStored
  BY DEF PriorIsLatestKnown, SecondSourceTakesTwoWorkers, DoneIsStored
<1> QED
  BY <1>1, <1>3, <1>4 DEF FcInv

LEMMA FcInductive == FcSpec => []FcInv
<1>1. FcInv /\ [FcNext]_fcVars => FcInv'
  <2> SUFFICES ASSUME FcInv, [FcNext]_fcVars PROVE FcInv'
    OBVIOUS
  <2>1. CASE FcNext
    BY <2>1, TypeStep, TimeStep, LookUpStep, WorkStep, SelectionStep, ChoiceStep,
       SecondSourceStep, DoneStep DEF FcInv
  <2>2. CASE UNCHANGED fcVars
    <3>1. UNCHANGED <<fcSource, fcSnapshots, fcSelections, fcJob, fcAttempts, fcWork, fcClock,
                      fcLosses, fcFailures, fcOverlapped, fcChoices>>
      BY <2>2 DEF fcVars, fcStoreVars, fcJobVars
    <3>2. FcTypeOK' /\ AttemptIsLeft' /\ FetchedInTime' /\ LookUpsStand'
      BY <3>1 DEF FcInv, FcTypeOK, AttemptIsLeft, FetchedInTime, LookUpsStand, Working, Source,
                  SectionsOf
    <3>3. WorkIsChosen'
      BY <3>1, SourceFrame DEF FcInv, WorkIsChosen, Stored
    <3>4. SelectionsCompare'
      BY <3>1, SourceFrame DEF FcInv, SelectionsCompare
    <3>5. PriorIsLatestKnown'
      <4>1. PriorIsLatestKnown' <=> \A x \in fcChoices' : ChoiceStands(x)'
        BY Zenon DEF PriorIsLatestKnown, ChoiceStands, BetterFor, RelatedTo, BaseOf
      <4> QED
        BY <3>1, <4>1, SourceFrame, PriorIsLatestKnownIs DEF FcInv
    <3>6. SecondSourceTakesTwoWorkers' /\ DoneIsStored'
      BY <3>1 DEF FcInv, SecondSourceTakesTwoWorkers, DoneIsStored
    <3> QED
      BY <3>2, <3>3, <3>4, <3>5, <3>6 DEF FcInv
  <2> QED
    BY <2>1, <2>2
<1> QED
  BY <1>1, FcInvInit, PTL DEF FcSpec

-----------------------------------------------------------------------------
(* What the stored selections say *)

LEMMA SelectionsAccount ==
  ASSUME FcInv
  PROVE  SelectionsAccountForChanges
<1> SUFFICES ASSUME NEW x \in fcSelections
             PROVE  LET old == SectionsOf(x.previous)
                        new == SectionsOf(x.current)
                    IN
                    /\ SelectionReconciles(x)
                    /\ \A s \in x.selected, t \in x.omitted : FcCategory[s] <= FcCategory[t]
                    /\ \A s \in (DOMAIN old \cup DOMAIN new) \ x.changes :
                         s \in DOMAIN old \cap DOMAIN new /\ old[s] = new[s]
  BY DEF SelectionsAccountForChanges
<1>1. PICK p \in fcSnapshots, c \in fcSnapshots, r \in DeltaRelationship : x = Compare(p, c, r)
  BY DEF FcInv, SelectionsCompare
<1>2. fcSource \in FcScenarios /\ p \in FcSnapshot /\ c \in FcSnapshot
  BY DEF FcInv, FcTypeOK
<1>3. /\ SelectionReconciles(x)
      /\ \A s \in x.selected, t \in x.omitted : FcCategory[s] <= FcCategory[t]
  BY <1>1, <1>2, ComparisonReconciles
<1>4. x.previous = p /\ x.current = c /\ x.changes = ChangedSections(p, c)
  BY <1>1, CompareFields
<1>5. \A s \in (DOMAIN SectionsOf(p) \cup DOMAIN SectionsOf(c)) \ ChangedSections(p, c) :
        /\ s \in DOMAIN SectionsOf(p) \cap DOMAIN SectionsOf(c)
        /\ SectionsOf(p)[s] = SectionsOf(c)[s]
  BY DEF ChangedSections
<1> QED
  BY <1>3, <1>4, <1>5

(* What the delta gate decides about two filings of one ruleset, both with   *)
(* sections.                                                                 *)
LEMMA DeltaDecision ==
  ASSUME NEW prior, NEW current, prior.rules = current.rules,
         DOMAIN prior.sections # {}, DOMAIN current.sections # {}
  PROVE  /\ DecideDelta(prior, current).disposition = "delta_ready" =>
              /\ Removed(prior, current) = {}
              /\ DecideDelta(prior, current).changed = Changed(prior, current)
         /\ DecideDelta(prior, current).disposition = "no_selected_delta" <=>
              Removed(prior, current) = {} /\ Changed(prior, current) = {}
<1>1. CASE Removed(prior, current) # {}
  BY <1>1 DEF DecideDelta, FullReanalysis
<1>2. CASE Removed(prior, current) = {} /\ Changed(prior, current) = {}
  BY <1>2 DEF DecideDelta, FullReanalysis
<1>3. CASE Removed(prior, current) = {} /\ Changed(prior, current) # {}
  BY <1>3 DEF DecideDelta, FullReanalysis
<1> QED
  BY <1>1, <1>2, <1>3

LEMMA SelectionsAgree ==
  ASSUME FcInv
  PROVE  DeltaAgreesWithSelection
<1> SUFFICES ASSUME NEW x \in fcSelections
             PROVE  LET p == ManifestOf(x.previous)
                        c == ManifestOf(x.current)
                        d == DecideDelta(p, c)
                    IN
                    /\ DeltaAccepted(p, c, x.relationship)
                         <=> x.current.retrieved > x.previous.retrieved
                    /\ d.disposition = "delta_ready" => d.changed = x.changes
                    /\ d.disposition = "no_selected_delta" <=> x.changes = {}
  BY DEF DeltaAgreesWithSelection
<1>1. PICK p \in fcSnapshots, c \in fcSnapshots, r \in DeltaRelationship :
        x = Compare(p, c, r) /\ RelationshipValid(p, c, r)
  BY DEF FcInv, SelectionsCompare
<1>2. x.previous = p /\ x.current = c /\ x.changes = ChangedSections(p, c) /\ x.relationship = r
  BY <1>1, CompareFields
<1> DEFINE m == ManifestOf(p)
           n == ManifestOf(c)
<1>3. /\ m.family = Source(p).family /\ m.amends = Source(p).amends
      /\ m.available = Source(p).available /\ m.retrieved = p.retrieved
      /\ m.rules = "v1" /\ m.sections = SectionsOf(p)
      /\ n.family = Source(c).family /\ n.amends = Source(c).amends
      /\ n.available = Source(c).available /\ n.retrieved = c.retrieved
      /\ n.rules = "v1" /\ n.sections = SectionsOf(c)
  BY DEF ManifestOf, SectionsOf
<1> HIDE DEF m, n
<1>4. DOMAIN SectionsOf(p) # {} /\ DOMAIN SectionsOf(c) # {}
  BY DEF FcInv, FetchedInTime
<1>5. p \in FcSnapshot /\ c \in FcSnapshot /\ fcSource \in FcScenarios
  BY DEF FcInv, FcTypeOK
<1>6. /\ Source(p).family \in {"10-K", "S-1"} /\ Source(c).family \in {"10-K", "S-1"}
      /\ Source(p).available \in Nat /\ Source(c).available \in Nat
      /\ p.retrieved \in Nat /\ c.retrieved \in Nat
      /\ Source(p).amends \in BOOLEAN /\ Source(c).amends \in BOOLEAN
  BY <1>5, SourceTyped, SnapshotFields DEF Source
<1>7. DeltaAccepted(m, n, r) <=> c.retrieved > p.retrieved
  <2>1. Related(m, n, r)
    BY <1>1, <1>3, <1>6 DEF RelationshipValid, Related, IsProspectus, SameForm, DeltaRelationship
  <2>2. n.available > m.available
    BY <1>1, <1>3, <1>6 DEF RelationshipValid, KnownBefore
  <2> QED
    BY <1>3, <2>1, <2>2 DEF DeltaAccepted
<1>8. Removed(m, n) = {} => Changed(m, n) = ChangedSections(p, c)
  BY <1>3 DEF Removed, Changed, ChangedSections
<1>9. Removed(m, n) = {} /\ Changed(m, n) = {} <=> ChangedSections(p, c) = {}
  BY <1>3 DEF Removed, Changed, ChangedSections
<1>10. /\ DecideDelta(m, n).disposition = "delta_ready" =>
            DecideDelta(m, n).changed = ChangedSections(p, c)
       /\ DecideDelta(m, n).disposition = "no_selected_delta" <=> ChangedSections(p, c) = {}
  BY <1>3, <1>4, <1>8, <1>9, DeltaDecision
<1> QED
  BY <1>2, <1>7, <1>10 DEF m, n

-----------------------------------------------------------------------------
(* Theorems *)

(* The tables, the parent jobs and the workers' stages are well typed, and   *)
(* every stored selection refers to stored snapshots.                        *)
THEOREM FilingChangeTypeCorrect == FcSpec => []FcTypeOK
<1>1. FcInv => FcTypeOK
  BY DEF FcInv
<1> QED
  BY <1>1, FcInductive, PTL

(* However the workers on an issuer's filings interleave, crash and lose     *)
(* their leases: each filing is compared with the latest prior known when it *)
(* was listed, it has a second stored source only after two live workers     *)
(* were on it at once, what a selection stores accounts for every section    *)
(* that differs and agrees with the delta gate, and a job is done only with  *)
(* its snapshot and comparison stored (persist_filing_change_snapshot,       *)
(* compare_and_select_filing_changes, decide_amendment_delta).               *)
THEOREM FilingChangesSound == FcSpec => []FilingChangesAreSound
<1>1. FcInv => FilingChangesAreSound
  BY SelectionsAccount, SelectionsAgree
     DEF FcInv, FilingChangesAreSound, ChangesAreAccountedFor
<1> QED
  BY <1>1, FcInductive, PTL

-----------------------------------------------------------------------------
(* The evidence a model reads: for texts of any length, any hits, candidates *)
(* and limits.                                                               *)

(* The windows a selection may hold: as large as the candidates they are cut *)
(* from, or smaller.                                                         *)
EvWindow ==
  [start : Nat, end : Nat, label : EvidenceLabel, priority : 0..1, boilerplate : BOOLEAN,
   keyword : BOOLEAN]

(* What a selection promises of its windows while it grows.                  *)
FitsReceipt(windows) ==
  /\ IsFiniteSet(windows) /\ Cardinality(windows) <= MaxWindows
  /\ \A x \in windows : x.start \in Nat /\ x.end \in Nat /\ x.start < x.end
                          /\ x.end - x.start <= 2 * HalfWindow
  /\ \A x, y \in windows : x # y => x.end <= y.start \/ y.end <= x.start

LEMMA TextAndLimits ==
  /\ TextLength \in Nat /\ TextLength > 0 /\ HalfWindow \in Nat /\ HalfWindow > 0
  /\ MaxWindows \in Nat /\ MaxWindows > 0 /\ EvidenceBudget \in Nat /\ EvidenceBudget > 0
  /\ Separator \in Nat
  /\ \A i \in Spaces : i \in Nat /\ i >= 1 /\ i <= TextLength - 2
BY EvidenceAssumption

(* A window around a word holds it and is no wider than it may be.           *)
LEMMA WindowAroundWord ==
  ASSUME NEW p \in Word
  PROVE  LET w == WholeWordWindow(p, 0, TextLength) IN
         /\ w \in [start : Nat, end : Nat] /\ w.start <= p /\ p < w.end
         /\ w.end - w.start <= 2 * HalfWindow
<1> DEFINE roughStart == MaxOf(0, p - HalfWindow)
           roughEnd == MinOf(TextLength, p + HalfWindow)
           before == {i \in Spaces : roughStart <= i /\ i < p}
           after == {i \in Spaces : p < i /\ i < roughEnd}
           s == IF roughStart > 0 /\ before # {} THEN Min(before) + 1 ELSE roughStart
           e == IF roughEnd < TextLength /\ after # {} THEN Max(after) ELSE roughEnd
<1>1. WholeWordWindow(p, 0, TextLength) = [start |-> s, end |-> e]
  BY DEF WholeWordWindow
<1>2. p \in Nat /\ p < TextLength
  BY TextAndLimits DEF Word, Position
<1>3. /\ roughStart \in Nat /\ roughStart <= p /\ p - HalfWindow <= roughStart
      /\ roughEnd \in Nat /\ p < roughEnd /\ roughEnd <= p + HalfWindow
  BY <1>2, TextAndLimits DEF MaxOf, MinOf
<1> HIDE DEF roughStart, roughEnd
<1>4. s \in Nat /\ s <= p /\ roughStart <= s
  <2>1. CASE before # {}
    <3>1. before \in SUBSET Nat
      BY TextAndLimits
    <3>2. Min(before) \in before
      BY <2>1, <3>1, MinOfNaturals
    <3>3. Min(before) \in Nat /\ roughStart <= Min(before) /\ Min(before) < p
      BY <3>1, <3>2
    <3> HIDE DEF before
    <3> QED
      BY <1>2, <1>3, <3>3
  <2> QED
    BY <1>3, <2>1
<1>5. e \in Nat /\ p < e /\ e <= roughEnd
  <2>1. CASE after # {}
    <3>1. after \in SUBSET (0..roughEnd)
      BY <1>3, TextAndLimits
    <3>2. Max(after) \in after
      BY <1>3, <2>1, <3>1, MaxOfNaturals
    <3>3. Max(after) \in Nat /\ p < Max(after) /\ Max(after) < roughEnd
      BY <1>3, <3>1, <3>2
    <3> HIDE DEF after
    <3> QED
      BY <1>3, <3>3
  <2> QED
    BY <1>3, <2>1
<1> HIDE DEF s, e
<1>6. e - s <= 2 * HalfWindow
  BY <1>2, <1>3, <1>4, <1>5, TextAndLimits
<1> QED
  BY <1>1, <1>4, <1>5, <1>6

-----------------------------------------------------------------------------
(* Keyword windows *)

(* A hit is refused only by a full excerpt or by a window it touches, and    *)
(* what is added touches none.                                               *)
LEMMA AddWindowFits ==
  ASSUME NEW windows \in SUBSET [start : Nat, end : Nat], FitsReceipt(windows), NEW p \in Word
  PROVE  LET w == WholeWordWindow(p, 0, TextLength) IN
         /\ AddWindow(windows, p) \in SUBSET [start : Nat, end : Nat]
         /\ FitsReceipt(AddWindow(windows, p)) /\ windows \subseteq AddWindow(windows, p)
         /\ \/ w \in AddWindow(windows, p)
            \/ Cardinality(windows) >= MaxWindows \/ Touches(w, windows)
<1> DEFINE w == WholeWordWindow(p, 0, TextLength)
<1>1. /\ w \in [start : Nat, end : Nat] /\ w.start <= p /\ p < w.end
      /\ w.end - w.start <= 2 * HalfWindow
  BY WindowAroundWord
<1>2. p \in Nat
  BY TextAndLimits DEF Word, Position
<1> HIDE DEF w
<1>3. CASE Cardinality(windows) >= MaxWindows \/ Touches(w, windows)
  BY <1>3 DEF AddWindow, w
<1>4. CASE ~(Cardinality(windows) >= MaxWindows \/ Touches(w, windows))
  <2>1. AddWindow(windows, p) = windows \cup {w}
    BY <1>4 DEF AddWindow, w
  <2>2. \A x \in windows : x.start \in Nat /\ x.end \in Nat /\ (w.start > x.end \/ w.end < x.start)
    BY <1>1, <1>4 DEF Touches
  <2>3. \A x \in windows : x.end <= w.start \/ w.end <= x.start
    BY <1>1, <2>2
  <2>4. IsFiniteSet(windows) /\ Cardinality(windows) \in Nat
    BY FS_CardinalityType DEF FitsReceipt
  <2>5. IsFiniteSet(windows \cup {w}) /\ Cardinality(windows \cup {w}) <= Cardinality(windows) + 1
    BY <2>4, FS_AddElement
  <2>6. Cardinality(windows \cup {w}) <= MaxWindows
    BY <1>4, <2>4, <2>5, TextAndLimits, FS_CardinalityType
  <2>7. w.start < w.end
    BY <1>1, <1>2
  <2>8. FitsReceipt(windows \cup {w})
    BY <1>1, <2>3, <2>5, <2>6, <2>7 DEF FitsReceipt
  <2> QED
    BY <1>1, <2>1, <2>8 DEF w
<1> QED
  BY <1>3, <1>4

LEMMA NoWindowsFit == FitsReceipt({}) /\ {} \in SUBSET [start : Nat, end : Nat]
BY TextAndLimits, FS_EmptySet DEF FitsReceipt

(* The windows of the first hits: of the first opportunity in any case, of   *)
(* the first risk unless that one is in its way.                             *)
LEMMA FirstHitsFit ==
  ASSUME NEW opportunities \in SUBSET Word, NEW risks \in SUBSET Word
  PROVE  LET first == AddFirst(AddFirst({}, opportunities), risks)
             Of(hits) == WholeWordWindow(Min(hits), 0, TextLength)
         IN
         /\ first \in SUBSET [start : Nat, end : Nat] /\ FitsReceipt(first)
         /\ opportunities # {} => Of(opportunities) \in first
         /\ risks # {} =>
              \/ Of(risks) \in first
              \/ /\ opportunities # {}
                 /\ MaxWindows = 1 \/ Touches(Of(risks), {Of(opportunities)})
<1> DEFINE Of(hits) == WholeWordWindow(Min(hits), 0, TextLength)
           one == AddFirst({}, opportunities)
           both == AddFirst(one, risks)
<1>1. \A hits \in SUBSET Word : hits # {} => Min(hits) \in Word
  <2> SUFFICES ASSUME NEW hits \in SUBSET Word, hits # {} PROVE Min(hits) \in Word
    OBVIOUS
  <2>1. hits \in SUBSET Nat
    BY DEF Word, Position
  <2> QED
    BY <2>1, MinOfNaturals
<1>2. /\ one \in SUBSET [start : Nat, end : Nat] /\ FitsReceipt(one)
      /\ opportunities = {} => one = {}
      /\ opportunities # {} => one = {Of(opportunities)}
  <2>1. CASE opportunities = {}
    BY <2>1, NoWindowsFit DEF AddFirst
  <2>2. CASE opportunities # {}
    <3> DEFINE p == Min(opportunities)
    <3>1. one = AddWindow({}, p) /\ p \in Word
      BY <1>1, <2>2 DEF AddFirst
    <3> HIDE DEF p, one
    <3>2. one \in SUBSET [start : Nat, end : Nat] /\ FitsReceipt(one)
      BY <3>1, NoWindowsFit, AddWindowFits
    <3>3. ~(Cardinality({}) >= MaxWindows) /\ ~Touches(WholeWordWindow(p, 0, TextLength), {})
      BY TextAndLimits, FS_EmptySet DEF Touches
    <3>4. one = {WholeWordWindow(p, 0, TextLength)}
      BY <3>1, <3>3 DEF AddWindow
    <3> QED
      BY <2>2, <3>2, <3>4 DEF p
  <2> QED
    BY <2>1, <2>2
<1>3. CASE risks = {}
  <2>1. both = one
    BY <1>3 DEF AddFirst
  <2> QED
    BY <1>2, <1>3, <2>1
<1>4. CASE risks # {}
  <2> DEFINE p == Min(risks)
             w == WholeWordWindow(p, 0, TextLength)
  <2>1. both = AddWindow(one, p) /\ p \in Word
    BY <1>1, <1>4 DEF AddFirst
  <2> HIDE DEF one, both, p
  <2>2. /\ both \in SUBSET [start : Nat, end : Nat] /\ FitsReceipt(both) /\ one \subseteq both
        /\ w \in both \/ Cardinality(one) >= MaxWindows \/ Touches(w, one)
    BY <1>2, <2>1, AddWindowFits
  <2>3. ~(Cardinality({}) >= MaxWindows) /\ ~Touches(w, {})
    BY TextAndLimits, FS_EmptySet DEF Touches
  <2>4. w \in both \/ (opportunities # {} /\ (MaxWindows = 1 \/ Touches(w, {Of(opportunities)})))
    <3>1. CASE opportunities = {}
      BY <1>2, <2>2, <2>3, <3>1
    <3>2. CASE opportunities # {}
      <4>1. one = {Of(opportunities)} /\ Cardinality(one) = 1
        BY <1>2, <3>2, FS_Singleton
      <4> HIDE DEF Of, w
      <4> QED
        BY <2>2, <3>2, <4>1, TextAndLimits
    <3> QED
      BY <3>1, <3>2
  <2>5. w = Of(risks)
    BY DEF p
  <2> HIDE DEF Of, w
  <2>6. opportunities # {} => Of(opportunities) \in both
    BY <1>2, <2>2
  <2>7. both = AddFirst(AddFirst({}, opportunities), risks)
    BY DEF both, one
  <2> QED
    BY <2>2, <2>4, <2>5, <2>6, <2>7 DEF Of
<1> QED
  BY <1>3, <1>4

(* The hits are looked at one after the other, the first ones first.         *)
LEMMA KeywordSteps ==
  ASSUME NEW opportunities \in SUBSET Word, NEW risks \in SUBSET Word,
         NEW first, first = AddFirst(AddFirst({}, opportunities), risks),
         first \in SUBSET [start : Nat, end : Nat]
  PROVE  \E after :
           /\ after[0] = first
           /\ KeywordWindows(opportunities, risks) = after[TextLength]
           /\ \A n \in 1..TextLength :
                after[n] = IF n - 1 \in opportunities \cup risks THEN AddWindow(after[n - 1], n - 1)
                           ELSE after[n - 1]
<1> DEFINE S == SUBSET [start : Nat, end : Nat]
           Next1(n, s) == IF n - 1 \in opportunities \cup risks THEN AddWindow(s, n - 1) ELSE s
           g == [n \in 1..TextLength |-> [s \in S |-> Next1(n, s)]]
           Step(f) == [n \in 0..TextLength |->
                         IF n = 0 THEN AddFirst(AddFirst({}, opportunities), risks)
                         ELSE IF n - 1 \in opportunities \cup risks THEN AddWindow(f[n - 1], n - 1)
                         ELSE f[n - 1]]
<1>1. KeywordWindows(opportunities, risks) = (CHOOSE f : f = Step(f))[TextLength]
  BY DEF KeywordWindows
<1>2. ASSUME NEW n \in 1..TextLength, NEW s \in S PROVE Next1(n, s) \in S
  <2>1. CASE n - 1 \in opportunities \cup risks
    <3>1. n - 1 \in Word
      BY <2>1
    <3>2. WholeWordWindow(n - 1, 0, TextLength) \in [start : Nat, end : Nat]
      BY <3>1, WindowAroundWord
    <3>3. AddWindow(s, n - 1) \in S
      BY <3>2 DEF AddWindow
    <3> QED
      BY <2>1, <3>3
  <2> QED
    BY <2>1
<1> HIDE DEF S, Next1
<1>3. /\ g \in [1..TextLength -> [S -> S]]
      /\ \A n \in 1..TextLength, s \in S : g[n][s] = Next1(n, s)
  BY <1>2
<1> HIDE DEF g
<1>4. PICK f : SolvesRecursion(f, TextLength, S, first, g)
  <2>1. TextLength \in Nat /\ first \in S
    BY TextAndLimits DEF S
  <2> QED
    BY <1>3, <2>1, RecursionSolved
<1>5. f = Step(f)
  <2>1. f \in [0..TextLength -> S] /\ f[0] = first /\ \A n \in 1..TextLength : f[n] = g[n][f[n - 1]]
    BY <1>4 DEF SolvesRecursion
  <2>2. \A n \in 1..TextLength : f[n] = Next1(n, f[n - 1])
    <3> SUFFICES ASSUME NEW n \in 1..TextLength PROVE f[n] = Next1(n, f[n - 1])
      OBVIOUS
    <3>1. f[n - 1] \in S
      BY <2>1, TextAndLimits
    <3> QED
      BY <1>3, <2>1, <3>1
  <2>3. \A n \in 0..TextLength : n = 0 \/ n \in 1..TextLength
    BY TextAndLimits
  <2>4. \A n \in 0..TextLength : f[n] = Step(f)[n]
    BY <2>1, <2>2, <2>3 DEF Next1
  <2>5. f = [n \in 0..TextLength |-> f[n]] /\ Step(f) = [n \in 0..TextLength |-> Step(f)[n]]
    BY <2>1
  <2> QED
    BY <2>4, <2>5
<1>6. PICK after : after = Step(after) /\ KeywordWindows(opportunities, risks) = after[TextLength]
  <2> HIDE DEF Step
  <2> QED
    BY <1>1, <1>5
<1>7. after[0] = first
  BY <1>6, TextAndLimits
<1>8. ASSUME NEW n \in 1..TextLength
      PROVE  after[n] = IF n - 1 \in opportunities \cup risks THEN AddWindow(after[n - 1], n - 1)
                        ELSE after[n - 1]
  <2>1. n \in 0..TextLength /\ n # 0
    BY TextAndLimits
  <2> QED
    BY <1>6, <2>1
<1> QED
  BY <1>6, <1>7, <1>8

LEMMA KeywordWindowsFit ==
  ASSUME NEW opportunities \in SUBSET Word, NEW risks \in SUBSET Word,
         NEW first, first = AddFirst(AddFirst({}, opportunities), risks)
  PROVE  FitsReceipt(KeywordWindows(opportunities, risks))
           /\ first \subseteq KeywordWindows(opportunities, risks)
<1> DEFINE W == SUBSET [start : Nat, end : Nat]
<1>1. first \in W /\ FitsReceipt(first)
  BY FirstHitsFit
<1>2. PICK after :
        /\ after[0] = first
        /\ KeywordWindows(opportunities, risks) = after[TextLength]
        /\ \A n \in 1..TextLength :
             after[n] = IF n - 1 \in opportunities \cup risks THEN AddWindow(after[n - 1], n - 1)
                        ELSE after[n - 1]
  BY <1>1, KeywordSteps
<1> DEFINE T == {n \in 0..TextLength :
                   after[n] \in W /\ FitsReceipt(after[n]) /\ first \subseteq after[n]}
<1>3. 0 \in T
  BY <1>1, <1>2, TextAndLimits
<1>4. ASSUME NEW n \in 1..TextLength, n - 1 \in T PROVE n \in T
  <2>1. n \in 0..TextLength
    BY TextAndLimits
  <2>2. after[n - 1] \in W /\ FitsReceipt(after[n - 1]) /\ first \subseteq after[n - 1]
    BY <1>4
  <2>3. CASE n - 1 \in opportunities \cup risks
    <3>1. n - 1 \in Word
      BY <2>3
    <3>2. /\ AddWindow(after[n - 1], n - 1) \in W /\ FitsReceipt(AddWindow(after[n - 1], n - 1))
          /\ after[n - 1] \subseteq AddWindow(after[n - 1], n - 1)
      BY <2>2, <3>1, AddWindowFits
    <3>3. after[n] = AddWindow(after[n - 1], n - 1)
      BY <1>2, <2>3
    <3> QED
      BY <2>1, <2>2, <3>2, <3>3
  <2>4. CASE n - 1 \notin opportunities \cup risks
    <3>1. after[n] = after[n - 1]
      BY <1>2, <2>4
    <3> QED
      BY <2>1, <2>2, <3>1
  <2> QED
    BY <2>3, <2>4
<1> HIDE DEF T
<1>5. TextLength \in Nat
  BY TextAndLimits
<1>6. \A n \in 0..TextLength : n \in T
  BY <1>3, <1>4, <1>5, BoundedInduction
<1>7. TextLength \in T
  BY <1>5, <1>6
<1> QED
  BY <1>2, <1>7 DEF T
-----------------------------------------------------------------------------
(* Form-aware windows *)

SizeIn(windows) == [x \in windows |-> x.end - x.start]

(* The characters of the windows, one window more.                           *)
LEMMA SizeOfMore ==
  ASSUME NEW windows \in SUBSET EvWindow, IsFiniteSet(windows), NEW w \in EvWindow, w \notin windows
  PROVE  /\ SizeOf(windows) \in Int
         /\ SizeOf(windows \cup {w}) = SizeOf(windows) + (w.end - w.start)
<1> DEFINE v == SizeIn(windows)
           u == SizeIn(windows \cup {w})
<1>1. \A x \in EvWindow : x.end - x.start \in Int
  BY DEF EvWindow
<1>2. (\A x \in windows : v[x] \in Int /\ u[x] = v[x]) /\ (\A x \in windows \cup {w} : u[x] \in Int)
  BY <1>1 DEF SizeIn
<1>3. u[w] = w.end - w.start
  BY DEF SizeIn
<1>4. SizeOf(windows) = SumFunctionOnSet(v, windows)
      /\ SizeOf(windows \cup {w}) = SumFunctionOnSet(u, windows \cup {w})
  BY DEF SizeOf, SizeIn
<1> HIDE DEF v, u
<1>5. IsFiniteSet(windows \cup {w}) /\ (windows \cup {w}) \ {w} = windows /\ w \in windows \cup {w}
  BY FS_AddElement
<1>6. SumFunctionOnSet(v, windows) \in Int
  <2>1. \A x \in windows : v[x] \in Int
    BY <1>2
  <2> QED
    BY ONLY <2>1, IsFiniteSet(windows), SumIsInteger
<1>7. SumFunctionOnSet(v, windows) = SumFunctionOnSet(u, windows)
  BY ONLY <1>2, IsFiniteSet(windows), SumOfEquals
<1>8. SumFunctionOnSet(u, windows \cup {w}) = u[w] + SumFunctionOnSet(u, windows)
  <2>1. \A x \in windows \cup {w} : u[x] \in Int
    BY <1>2
  <2>2. SumFunctionOnSet(u, windows \cup {w}) = u[w] + SumFunctionOnSet(u, (windows \cup {w}) \ {w})
    BY ONLY <1>5, <2>1, SumTakesOut
  <2> QED
    BY <1>5, <2>2
<1>9. u[w] \in Int
  BY <1>2
<1> QED
  BY <1>3, <1>4, <1>6, <1>7, <1>8, <1>9

LEMMA SizeOfNone == SizeOf({}) = 0
BY SumOfNone DEF SizeOf

(* What a selection of candidates promises: the receipt's contract, and the  *)
(* budget for the windows and the separators between them.                   *)
Affordable(windows) ==
  windows # {} => SizeOf(windows) + Separator * (Cardinality(windows) - 1) <= EvidenceBudget

GoodSelection(windows) ==
  windows \in SUBSET EvWindow /\ FitsReceipt(windows) /\ Affordable(windows)

(* Why a candidate may have no window of its own.                            *)
AccountedFor(c, windows) ==
  \/ \E x \in windows : x.start = c.start /\ x.label = c.label
  \/ Cardinality(windows) = MaxWindows
  \/ Available(windows) <= 0
  \/ OverlapsOne(c, windows)
  \/ RepeatsKeyword(c, windows)

LEMMA CandidateFields ==
  ASSUME NEW c \in Candidate
  PROVE  /\ c \in EvWindow /\ c.start \in Nat /\ c.end \in Nat /\ c.start < c.end
         /\ c.end - c.start <= 2 * HalfWindow /\ c.start \notin Spaces
<1>1. c \in [start : Word, end : Position \cup {TextLength}, label : EvidenceLabel, priority : 0..1,
             boilerplate : BOOLEAN, keyword : BOOLEAN]
      /\ c.start < c.end /\ c.end - c.start <= 2 * HalfWindow
  BY DEF Candidate
<1>2. \A n \in Position \cup {TextLength} : n \in Nat
  BY TextAndLimits DEF Position
<1>3. \A n \in Word : n \in Nat /\ n \notin Spaces
  BY TextAndLimits DEF Word, Position
<1> QED
  BY <1>1, <1>2, <1>3 DEF EvWindow

(* A cut candidate starts where it did, is not empty and fits.               *)
LEMMA CutFits ==
  ASSUME NEW c \in Candidate, NEW available \in Int, available > 0
  PROVE  LET w == CutTo(c, available) IN
         /\ w \in EvWindow /\ w.start = c.start /\ w.label = c.label
         /\ w.boilerplate = c.boilerplate /\ w.keyword = c.keyword
         /\ w.start < w.end /\ w.end <= c.end /\ w.end - w.start <= available
<1> DEFINE end == MinOf(c.end, c.start + available)
           inner == {i \in Spaces : c.start < i /\ i < end}
           cut == IF end < c.end /\ inner # {} THEN Max(inner) ELSE end
           last == IF cut - 1 \in Spaces THEN cut - 1 ELSE cut
<1>1. c \in EvWindow /\ c.start \in Nat /\ c.end \in Nat /\ c.start < c.end /\ c.start \notin Spaces
  BY CandidateFields
<1>2. end \in Nat /\ c.start < end /\ end <= c.end /\ end <= c.start + available
  BY <1>1 DEF MinOf
<1> HIDE DEF end
<1>3. cut \in Nat /\ c.start < cut /\ cut <= end
  <2>1. CASE inner # {}
    <3>1. inner \in SUBSET (0..end)
      BY <1>2, TextAndLimits
    <3>2. Max(inner) \in inner
      BY <1>2, <2>1, <3>1, MaxOfNaturals
    <3>3. Max(inner) \in Nat /\ c.start < Max(inner) /\ Max(inner) < end
      BY <1>2, <3>1, <3>2
    <3> HIDE DEF inner
    <3> QED
      BY <1>2, <3>3
  <2> QED
    BY <1>2, <2>1
<1> HIDE DEF cut
<1>4. last \in Nat /\ c.start < last /\ last <= cut
  <2>1. CASE cut - 1 \in Spaces
    <3>1. cut - 1 # c.start
      BY <1>1, <2>1
    <3> QED
      BY <1>1, <1>3, <2>1, <3>1
  <2> QED
    BY <1>3, <2>1
<1>5. CutTo(c, available) = [c EXCEPT !.end = last]
  BY DEF CutTo, cut, end
<1> HIDE DEF last
<1>6. last <= c.end /\ last - c.start <= available
  BY <1>1, <1>2, <1>3, <1>4
<1>7. c \in [start : Nat, end : Nat, label : EvidenceLabel, priority : 0..1, boilerplate : BOOLEAN,
             keyword : BOOLEAN]
  BY <1>1 DEF EvWindow
<1>8. LET w == [c EXCEPT !.end = last] IN
      /\ w \in [start : Nat, end : Nat, label : EvidenceLabel, priority : 0..1, boilerplate : BOOLEAN,
                keyword : BOOLEAN]
      /\ w.start = c.start /\ w.label = c.label /\ w.end = last
      /\ w.boilerplate = c.boilerplate /\ w.keyword = c.keyword
  BY <1>4, <1>7
<1> QED
  BY <1>4, <1>5, <1>6, <1>8 DEF EvWindow

(* Separators: one more costs one more, and more cost no less.               *)
LEMMA SeparatorsCost ==
  ASSUME NEW k \in Nat, NEW m \in Nat, k <= m
  PROVE  /\ Separator * k \in Nat /\ Separator * (k + 1) = Separator * k + Separator
         /\ Separator * k <= Separator * m
<1>1. Separator \in Nat
  BY TextAndLimits
<1>2. Separator * k \in Nat /\ Separator * m \in Nat /\ Separator * (k + 1) = Separator * k + Separator
  BY <1>1
<1>3. m - k \in Nat /\ Separator * (m - k) \in Nat
  BY <1>1
<1>4. Separator * m = Separator * k + Separator * (m - k)
  BY <1>1, <1>3
<1> QED
  BY <1>2, <1>3, <1>4

LEMMA GoodSelectionFacts ==
  ASSUME NEW windows, GoodSelection(windows)
  PROVE  /\ windows \in SUBSET EvWindow /\ IsFiniteSet(windows) /\ Cardinality(windows) \in Nat
         /\ Cardinality(windows) <= MaxWindows /\ SizeOf(windows) \in Int /\ SizeOf(windows) >= 0
         /\ Available(windows) \in Int
         /\ windows # {} <=> Cardinality(windows) > 0
<1>1. /\ windows \in SUBSET EvWindow /\ IsFiniteSet(windows) /\ Cardinality(windows) <= MaxWindows
      /\ \A x \in windows : x.start \in Nat /\ x.end \in Nat /\ x.start < x.end
  BY DEF GoodSelection, FitsReceipt
<1>2. Cardinality(windows) \in Nat /\ (windows # {} <=> Cardinality(windows) > 0)
  BY <1>1, FS_CardinalityType, FS_EmptySet
<1> DEFINE v == SizeIn(windows)
<1>3. \A x \in windows : v[x] \in Int /\ v[x] >= 0
  BY <1>1 DEF SizeIn
<1>4. SizeOf(windows) = SumFunctionOnSet(v, windows)
  BY DEF SizeOf, SizeIn
<1> HIDE DEF v
<1>5. SumFunctionOnSet(v, windows) \in Int
  <2>1. \A x \in windows : v[x] \in Int
    BY <1>3
  <2> QED
    BY ONLY <1>1, <2>1, SumIsInteger
<1>6. SumFunctionOnSet(v, windows) >= 0
  <2>1. 0 \in Int
    OBVIOUS
  <2>2. SumFunctionOnSet(v, windows) >= 0 * Cardinality(windows)
    BY ONLY <1>1, <1>3, <2>1, SumAtLeast
  <2>3. 0 * Cardinality(windows) = 0
    BY <1>2
  <2> QED
    BY <2>2, <2>3
<1>7. Separator * Cardinality(windows) \in Nat
  BY <1>2, SeparatorsCost
<1>8. Available(windows) \in Int
  BY <1>4, <1>5, <1>7, TextAndLimits DEF Available
<1> QED
  BY <1>1, <1>2, <1>4, <1>5, <1>6, <1>8

(* What refuses a candidate goes on refusing it as the selection grows.      *)
LEMMA ReasonsStand ==
  ASSUME NEW windows, GoodSelection(windows), NEW more, GoodSelection(more), windows \subseteq more,
         NEW c, AccountedFor(c, windows)
  PROVE  AccountedFor(c, more)
<1>1. /\ IsFiniteSet(more) /\ Cardinality(more) \in Nat /\ Cardinality(more) <= MaxWindows
      /\ more \in SUBSET EvWindow /\ Available(more) \in Int /\ SizeOf(more) \in Int
  BY GoodSelectionFacts
<1>2. Cardinality(windows) \in Nat /\ Available(windows) \in Int /\ SizeOf(windows) \in Int
  BY GoodSelectionFacts
<1>3. Cardinality(windows) <= Cardinality(more)
  BY <1>1, FS_Subset
<1>4. Cardinality(windows) = MaxWindows => Cardinality(more) = MaxWindows
  BY <1>1, <1>2, <1>3, TextAndLimits
<1>5. Available(windows) <= 0 => Available(more) <= 0
  <2> DEFINE v == SizeIn(more)
             u == SizeIn(windows)
  <2>1. \A x \in more : v[x] \in Int /\ v[x] >= 0
    BY DEF SizeIn, GoodSelection, FitsReceipt
  <2>2. \A x \in windows : v[x] \in Int /\ u[x] = v[x]
    BY <2>1 DEF SizeIn
  <2>3. IsFiniteSet(windows)
    BY GoodSelectionFacts
  <2>4. SizeOf(more) = SumFunctionOnSet(v, more) /\ SizeOf(windows) = SumFunctionOnSet(u, windows)
    BY DEF SizeOf, SizeIn
  <2> HIDE DEF v, u
  <2>5. SumFunctionOnSet(v, windows) = SumFunctionOnSet(u, windows)
    BY ONLY <2>2, <2>3, SumOfEquals
  <2>6. SumFunctionOnSet(v, windows) <= SumFunctionOnSet(v, more)
    <3>1. windows \in SUBSET more /\ (\A x \in more : v[x] \in Int) /\ \A x \in more \ windows : v[x] >= 0
      BY <2>1
    <3> QED
      BY ONLY <1>1, <3>1, SumOfMore
  <2>7. SizeOf(windows) <= SizeOf(more)
    BY <2>4, <2>5, <2>6
  <2>8. /\ Separator * Cardinality(windows) \in Nat /\ Separator * Cardinality(more) \in Nat
        /\ Separator * Cardinality(windows) <= Separator * Cardinality(more)
    BY <1>1, <1>2, <1>3, SeparatorsCost
  <2> QED
    BY <1>1, <1>2, <2>7, <2>8, TextAndLimits DEF Available
<1>6. /\ OverlapsOne(c, windows) => OverlapsOne(c, more)
      /\ RepeatsKeyword(c, windows) => RepeatsKeyword(c, more)
  BY DEF OverlapsOne, RepeatsKeyword
<1>7. (\E x \in windows : x.start = c.start /\ x.label = c.label)
      => \E x \in more : x.start = c.start /\ x.label = c.label
  OBVIOUS
<1> QED
  BY <1>4, <1>5, <1>6, <1>7 DEF AccountedFor

(* A candidate is added within the limits, or its refusal has a reason.      *)
LEMMA AddCandidateFits ==
  ASSUME NEW windows, GoodSelection(windows), NEW c \in Candidate
  PROVE  LET more == AddCandidate(windows, c) IN
         /\ GoodSelection(more) /\ windows \subseteq more /\ AccountedFor(c, more)
         /\ \A x \in more \ windows : x.boilerplate = c.boilerplate
<1> DEFINE refused == \/ Cardinality(windows) >= MaxWindows
                      \/ RepeatsKeyword(c, windows)
                      \/ OverlapsOne(c, windows)
                      \/ Available(windows) <= 0
           w == CutTo(c, Available(windows))
<1>1. /\ windows \in SUBSET EvWindow /\ IsFiniteSet(windows) /\ Cardinality(windows) \in Nat
      /\ Cardinality(windows) <= MaxWindows /\ SizeOf(windows) \in Int /\ SizeOf(windows) >= 0
      /\ Available(windows) \in Int /\ (windows # {} <=> Cardinality(windows) > 0)
  BY GoodSelectionFacts
<1>2. CASE refused
  <2>1. AddCandidate(windows, c) = windows
    BY <1>2 DEF AddCandidate
  <2>2. Cardinality(windows) >= MaxWindows => Cardinality(windows) = MaxWindows
    BY <1>1, TextAndLimits
  <2>3. AccountedFor(c, windows)
    BY <1>2, <2>2 DEF AccountedFor
  <2> QED
    BY <2>1, <2>3
<1>3. CASE ~refused
  <2>1. AddCandidate(windows, c) = windows \cup {w}
    BY <1>3 DEF AddCandidate
  <2>2. Available(windows) > 0 /\ Cardinality(windows) < MaxWindows
    BY <1>1, <1>3, TextAndLimits
  <2>3. \A x \in windows : c.start >= x.end \/ c.end <= x.start
    <3>1. \A x \in windows : ~(c.start < x.end /\ c.end > x.start)
      BY <1>3 DEF OverlapsOne
    <3>2. c.start \in Nat /\ c.end \in Nat /\ \A x \in windows : x.start \in Nat /\ x.end \in Nat
      BY CandidateFields DEF GoodSelection, FitsReceipt
    <3> QED
      BY <3>1, <3>2
  <2>4. /\ w \in EvWindow /\ w.start = c.start /\ w.label = c.label /\ w.boilerplate = c.boilerplate
        /\ w.start < w.end /\ w.end <= c.end /\ w.end - w.start <= Available(windows)
    BY <1>1, <2>2, CutFits
  <2> HIDE DEF w, refused
  <2>5. /\ c.start \in Nat /\ c.end \in Nat /\ c.end - c.start <= 2 * HalfWindow
        /\ w.start \in Nat /\ w.end \in Nat
    BY <2>4, CandidateFields DEF EvWindow
  <2>6. \A x \in windows : x.start \in Nat /\ x.end \in Nat /\ x.start < x.end
    BY DEF GoodSelection, FitsReceipt
  <2>7. \A x \in windows : x.end <= w.start \/ w.end <= x.start
    BY <2>3, <2>4, <2>5, <2>6
  <2>8. w \notin windows
    <3> SUFFICES ASSUME w \in windows PROVE FALSE
      OBVIOUS
    <3> QED
      BY <2>4, <2>5, <2>7
  <2>9. /\ IsFiniteSet(windows \cup {w})
        /\ Cardinality(windows \cup {w}) = Cardinality(windows) + 1
    BY <1>1, <2>8, FS_AddElement
  <2>10. w.end - w.start <= 2 * HalfWindow
    BY <2>4, <2>5, TextAndLimits
  <2>11. FitsReceipt(windows \cup {w})
    <3>1. Cardinality(windows \cup {w}) <= MaxWindows
      BY <1>1, <2>2, <2>9, TextAndLimits
    <3>2. \A x \in windows \cup {w} : x.start \in Nat /\ x.end \in Nat /\ x.start < x.end
                                        /\ x.end - x.start <= 2 * HalfWindow
      BY <2>4, <2>5, <2>10 DEF GoodSelection, FitsReceipt
    <3>3. \A x, y \in windows \cup {w} : x # y => x.end <= y.start \/ y.end <= x.start
      BY <2>7 DEF GoodSelection, FitsReceipt
    <3> QED
      BY <2>9, <3>1, <3>2, <3>3 DEF FitsReceipt
  <2>12. SizeOf(windows \cup {w}) = SizeOf(windows) + (w.end - w.start)
    BY <1>1, <2>4, <2>8, SizeOfMore
  <2>13. Affordable(windows \cup {w})
    <3> DEFINE cost == Separator * Cardinality(windows)
    <3>1. Available(windows) = EvidenceBudget - SizeOf(windows) - cost
      BY DEF Available
    <3>2. cost \in Nat
      BY <1>1, SeparatorsCost
    <3>3. Separator * (Cardinality(windows \cup {w}) - 1) = cost
      <4>1. Cardinality(windows \cup {w}) - 1 = Cardinality(windows)
        BY <1>1, <2>9
      <4> QED
        BY <4>1
    <3> HIDE DEF cost
    <3>4. SizeOf(windows \cup {w}) + cost <= EvidenceBudget
      BY <1>1, <2>4, <2>5, <2>12, <3>1, <3>2, TextAndLimits
    <3> QED
      BY <3>3, <3>4 DEF Affordable
  <2>14. GoodSelection(windows \cup {w})
    BY <1>1, <2>4, <2>11, <2>13 DEF GoodSelection
  <2>15. AccountedFor(c, windows \cup {w})
    BY <2>4 DEF AccountedFor
  <2> QED
    BY <2>1, <2>4, <2>14, <2>15
<1> QED
  BY <1>2, <1>3

(* The candidates of a turn are looked at one after the other.               *)
TakesTurns(after, n, ranked, turn, selected) ==
  /\ after[0] = selected
  /\ SelectFrom(selected, ranked, turn) = after[n]
  /\ \A i \in 1..n :
       after[i] = IF i \in turn THEN AddCandidate(after[i - 1], ranked[i]) ELSE after[i - 1]

LEMMA SelectionSteps ==
  ASSUME NEW n \in Nat, NEW ranked \in [1..n -> Candidate], NEW turn,
         NEW selected, GoodSelection(selected)
  PROVE  \E after : TakesTurns(after, n, ranked, turn, selected)
<1> DEFINE S == {windows \in SUBSET EvWindow : GoodSelection(windows)}
           Next1(i, s) == IF i \in turn THEN AddCandidate(s, ranked[i]) ELSE s
           g == [i \in 1..n |-> [s \in S |-> Next1(i, s)]]
           Step(f) == [i \in 0..n |->
                         IF i = 0 THEN selected
                         ELSE IF i \in turn THEN AddCandidate(f[i - 1], ranked[i])
                         ELSE f[i - 1]]
<1>1. SelectFrom(selected, ranked, turn) = (CHOOSE f : f = Step(f))[n]
  <2>1. Len(ranked) = n
    OBVIOUS
  <2> QED
    BY <2>1 DEF SelectFrom
<1>2. ASSUME NEW i \in 1..n, NEW s \in S PROVE Next1(i, s) \in S
  <2>1. ranked[i] \in Candidate /\ GoodSelection(s)
    OBVIOUS
  <2>2. GoodSelection(AddCandidate(s, ranked[i]))
    BY <2>1, AddCandidateFits
  <2>3. AddCandidate(s, ranked[i]) \in S
    BY <2>2 DEF GoodSelection
  <2> QED
    BY <2>3
<1>3. selected \in S
  BY DEF GoodSelection
<1> HIDE DEF S, Next1
<1>4. g \in [1..n -> [S -> S]] /\ \A i \in 1..n, s \in S : g[i][s] = Next1(i, s)
  BY <1>2
<1> HIDE DEF g
<1>5. PICK f : SolvesRecursion(f, n, S, selected, g)
  BY <1>3, <1>4, RecursionSolved
<1>6. f = Step(f)
  <2>1. f \in [0..n -> S] /\ f[0] = selected /\ \A i \in 1..n : f[i] = g[i][f[i - 1]]
    BY <1>5 DEF SolvesRecursion
  <2>2. \A i \in 1..n : f[i] = Next1(i, f[i - 1])
    <3> SUFFICES ASSUME NEW i \in 1..n PROVE f[i] = Next1(i, f[i - 1])
      OBVIOUS
    <3>1. f[i - 1] \in S
      BY <2>1
    <3> QED
      BY <1>4, <2>1, <3>1
  <2>3. \A i \in 0..n : i = 0 \/ i \in 1..n
    OBVIOUS
  <2>4. \A i \in 0..n : f[i] = Step(f)[i]
    BY <2>1, <2>2, <2>3 DEF Next1
  <2>5. f = [i \in 0..n |-> f[i]] /\ Step(f) = [i \in 0..n |-> Step(f)[i]]
    BY <2>1
  <2> QED
    BY <2>4, <2>5
<1>7. PICK after : after = Step(after) /\ SelectFrom(selected, ranked, turn) = after[n]
  <2> HIDE DEF Step
  <2> QED
    BY <1>1, <1>6
<1>8. after[0] = selected
  BY <1>7
<1>9. ASSUME NEW i \in 1..n
      PROVE  after[i] = IF i \in turn THEN AddCandidate(after[i - 1], ranked[i]) ELSE after[i - 1]
  <2>1. i \in 0..n /\ i # 0
    OBVIOUS
  <2> QED
    BY <1>7, <2>1
<1> QED
  BY <1>7, <1>8, <1>9 DEF TakesTurns

(* A turn keeps what was selected, accounts for every candidate of its own,  *)
(* and adds windows of these alone.                                          *)
LEMMA TurnFits ==
  ASSUME NEW n \in Nat, NEW ranked \in [1..n -> Candidate], NEW turn,
         NEW selected, GoodSelection(selected)
  PROVE  LET more == SelectFrom(selected, ranked, turn) IN
         /\ GoodSelection(more) /\ selected \subseteq more
         /\ \A i \in 1..n : i \in turn => AccountedFor(ranked[i], more)
         /\ \A x \in more \ selected : \E i \in 1..n : x.boilerplate = ranked[i].boilerplate
<1>1. PICK after : TakesTurns(after, n, ranked, turn, selected)
  BY SelectionSteps
<1> DEFINE Fits(i) ==
             /\ GoodSelection(after[i]) /\ selected \subseteq after[i]
             /\ \A j \in 1..n : j <= i /\ j \in turn => AccountedFor(ranked[j], after[i])
             /\ \A x \in after[i] \ selected : \E j \in 1..n : x.boilerplate = ranked[j].boilerplate
           T == {i \in 0..n : Fits(i)}
<1>2. 0 \in T
  BY <1>1 DEF TakesTurns
<1>3. ASSUME NEW i \in 1..n, i - 1 \in T PROVE i \in T
  <2>1. Fits(i - 1)
    BY <1>3
  <2> DEFINE old == after[i - 1]
             new == after[i]
             c == ranked[i]
  <2>2. c \in Candidate /\ new = IF i \in turn THEN AddCandidate(old, c) ELSE old
    BY <1>1 DEF TakesTurns
  <2>3. GoodSelection(old)
    BY <2>1
  <2> HIDE DEF old, new, c
  <2>4. /\ GoodSelection(new) /\ old \subseteq new /\ (i \in turn => AccountedFor(c, new))
        /\ \A x \in new \ old : x.boilerplate = c.boilerplate
    <3>1. CASE i \in turn
      BY <2>2, <2>3, <3>1, AddCandidateFits
    <3>2. CASE i \notin turn
      BY <2>2, <2>3, <3>2
    <3> QED
      BY <3>1, <3>2
  <2>5. ASSUME NEW j \in 1..n, j <= i, j \in turn PROVE AccountedFor(ranked[j], new)
    <3>1. CASE j = i
      BY <2>4, <2>5, <3>1 DEF c
    <3>2. CASE j # i
      <4>1. j <= i - 1
        BY <2>5, <3>2
      <4>2. AccountedFor(ranked[j], old)
        BY <2>1, <2>5, <4>1 DEF old
      <4> QED
        BY <2>3, <2>4, <4>2, ReasonsStand
    <3> QED
      BY <3>1, <3>2
  <2>6. ASSUME NEW x \in new \ selected PROVE \E j \in 1..n : x.boilerplate = ranked[j].boilerplate
    <3>1. CASE x \in old
      BY <2>1, <2>6, <3>1 DEF old
    <3>2. CASE x \notin old
      BY <2>4, <2>6, <3>2 DEF c
    <3> QED
      BY <3>1, <3>2
  <2>7. selected \subseteq new
    BY <2>1, <2>4 DEF old
  <2>8. Fits(i)
    BY <2>4, <2>5, <2>6, <2>7 DEF new
  <2> HIDE DEF Fits
  <2> QED
    BY <2>8
<1> HIDE DEF T
<1>4. \A i \in 0..n : i \in T
  BY <1>2, <1>3, BoundedInduction
<1>5. n \in T
  BY <1>4
<1>6. Fits(n)
  BY <1>5 DEF T
<1>7. \A i \in 1..n : i <= n
  OBVIOUS
<1> QED
  BY <1>1, <1>6, <1>7 DEF TakesTurns

LEMMA NothingSelected == GoodSelection({}) /\ Available({}) = EvidenceBudget
<1>1. Cardinality({}) = 0 /\ SizeOf({}) = 0 /\ Separator * 0 = 0
  BY FS_EmptySet, SizeOfNone, TextAndLimits
<1>2. GoodSelection({})
  BY NoWindowsFit DEF GoodSelection, Affordable
<1> QED
  BY <1>1, <1>2, TextAndLimits DEF Available

(* What is selected of some candidates, whatever order their ties are in.    *)
LEMMA SelectionFits ==
  ASSUME NEW pool \in SUBSET Candidate, IsFiniteSet(pool), NEW ranked \in Rankings(pool)
  PROVE  /\ GoodSelection(SelectWindows(ranked))
         /\ \A c \in pool : AccountedFor(c, SelectWindows(ranked))
         /\ \A x \in SelectWindows(ranked) : \E c \in pool : x.boilerplate = c.boilerplate
<1> DEFINE n == Cardinality(pool)
           diverse == Diverse(ranked)
           best == SelectFrom({}, ranked, diverse)
           rest == DOMAIN ranked \ diverse
           all == SelectFrom(best, ranked, rest)
<1>1. n \in Nat /\ ranked \in [1..n -> pool] /\ \A c \in pool : \E i \in DOMAIN ranked : ranked[i] = c
  BY FS_CardinalityType DEF Rankings
<1>2. ranked \in [1..n -> Candidate] /\ DOMAIN ranked = 1..n /\ \A i \in 1..n : ranked[i] \in pool
  BY <1>1
<1>3. SelectWindows(ranked) = all
  BY DEF SelectWindows
<1>4. \A i \in 1..n : i \in diverse \/ i \in rest
  BY <1>2
<1> HIDE DEF n, diverse, best, rest, all
<1>5. /\ GoodSelection(best) /\ \A i \in 1..n : i \in diverse => AccountedFor(ranked[i], best)
      /\ \A x \in best \ {} : \E i \in 1..n : x.boilerplate = ranked[i].boilerplate
  BY <1>1, <1>2, NothingSelected, TurnFits DEF best
<1>6. /\ GoodSelection(all) /\ best \subseteq all
      /\ \A i \in 1..n : i \in rest => AccountedFor(ranked[i], all)
      /\ \A x \in all \ best : \E i \in 1..n : x.boilerplate = ranked[i].boilerplate
  BY <1>1, <1>2, <1>5, TurnFits DEF all
<1>7. \A i \in 1..n : AccountedFor(ranked[i], all)
  BY <1>4, <1>5, <1>6, ReasonsStand
<1>8. \A x \in all : \E i \in 1..n : x.boilerplate = ranked[i].boilerplate
  BY <1>5, <1>6
<1> QED
  BY <1>1, <1>2, <1>3, <1>6, <1>7, <1>8

(* What a selection shows of its candidates.                                 *)
LEMMA SelectionIsSound ==
  ASSUME NEW candidates \in SUBSET Candidate, IsFiniteSet(candidates),
         NEW ranked \in Rankings(Substantive(candidates))
  PROVE  LET shown == SelectWindows(ranked) IN
         /\ ReceiptWindows(shown) /\ Joined(shown) <= EvidenceBudget
         /\ \A c \in candidates :
              \/ \E x \in shown : x.start = c.start /\ x.label = c.label
              \/ c.boilerplate /\ \E d \in candidates : ~d.boilerplate
              \/ Cardinality(shown) = MaxWindows
              \/ Available(shown) <= 0
              \/ OverlapsOne(c, shown)
              \/ RepeatsKeyword(c, shown)
         /\ (\E x \in shown : x.boilerplate) => \A c \in candidates : c.boilerplate
         /\ candidates # {} => shown # {}
<1> DEFINE pool == Substantive(candidates)
           shown == SelectWindows(ranked)
           kept == {c \in candidates : ~c.boilerplate}
<1>1. /\ pool \in SUBSET candidates /\ IsFiniteSet(pool)
      /\ kept = {} => pool = candidates
      /\ kept # {} => pool = kept
  <2>1. pool \in SUBSET candidates
    BY DEF Substantive
  <2>2. IsFiniteSet(pool)
    BY <2>1, FS_Subset
  <2> QED
    BY <2>1, <2>2 DEF Substantive
<1> HIDE DEF pool, shown
<1>2. pool \in SUBSET Candidate /\ ranked \in Rankings(pool)
  BY <1>1 DEF pool
<1>3. /\ GoodSelection(shown) /\ \A c \in pool : AccountedFor(c, shown)
      /\ \A x \in shown : \E c \in pool : x.boilerplate = c.boilerplate
  BY <1>1, <1>2, SelectionFits DEF shown
<1>4. ReceiptWindows(shown)
  BY <1>3 DEF GoodSelection, FitsReceipt, ReceiptWindows
<1>5. Joined(shown) <= EvidenceBudget
  <2>1. CASE shown = {}
    <3>1. Joined({}) = 0
      BY SizeOfNone DEF Joined
    <3> QED
      BY <2>1, <3>1, TextAndLimits
  <2>2. CASE shown # {}
    BY <1>3, <2>2 DEF Joined, GoodSelection, Affordable
  <2> QED
    BY <2>1, <2>2
<1>6. ASSUME NEW c \in candidates
      PROVE  \/ AccountedFor(c, shown)
             \/ c.boilerplate /\ \E d \in candidates : ~d.boilerplate
  <2>1. CASE c \in pool
    BY <1>3, <2>1
  <2>2. CASE c \notin pool
    <3>1. kept # {} /\ c \notin kept
      BY <1>1, <2>2
    <3>2. c.boilerplate /\ \E d \in candidates : ~d.boilerplate
      BY <3>1
    <3> QED
      BY <3>2
  <2> QED
    BY <2>1, <2>2
<1>7. ASSUME NEW x \in shown, x.boilerplate PROVE \A c \in candidates : c.boilerplate
  <2>1. PICK c \in pool : x.boilerplate = c.boilerplate
    BY <1>3
  <2>2. c \notin kept
    BY <1>7, <2>1
  <2>3. kept = {}
    BY <1>1, <2>1, <2>2
  <2> QED
    BY <2>3
<1>8. ASSUME candidates # {} PROVE shown # {}
  <2> SUFFICES ASSUME shown = {} PROVE FALSE
    OBVIOUS
  <2>1. PICK c \in pool : TRUE
    BY <1>1, <1>8
  <2>2. AccountedFor(c, {})
    BY <1>3, <2>1
  <2>3. ~(Cardinality({}) = MaxWindows) /\ ~(Available({}) <= 0)
    BY NothingSelected, TextAndLimits, FS_EmptySet
  <2> QED
    BY <2>2, <2>3 DEF AccountedFor, OverlapsOne, RepeatsKeyword
<1> QED
  BY <1>4, <1>5, <1>6, <1>7, <1>8 DEF shown, AccountedFor

(* Whatever the text, the hits, the candidates and the limits: what a model  *)
(* gets to read are windows that do not overlap and, joined, fit the budget; *)
(* both polarities have their window unless one is in the other's way; and   *)
(* no candidate is left out without a reason, however its ties are ordered   *)
(* (extract_research_excerpt, _select_windows).                              *)
THEOREM EvidenceSound == EvidenceSpec => []ShownEvidenceIsSound
<1>1. EvidenceInit => ShownEvidenceIsSound
  BY DEF EvidenceInit, NoEvidence, ShownEvidenceIsSound, WindowsFitTheBudget, NoPolarityIsCrowdedOut,
         NothingIsDroppedSilently
<1>2. ShownEvidenceIsSound /\ [EvidenceNext]_evidenceVars => ShownEvidenceIsSound'
  <2> SUFFICES ASSUME ShownEvidenceIsSound, [EvidenceNext]_evidenceVars PROVE ShownEvidenceIsSound'
    OBVIOUS
  <2>1. CASE EvidenceReturn
    BY <2>1 DEF EvidenceReturn, NoEvidence, ShownEvidenceIsSound, WindowsFitTheBudget,
                NoPolarityIsCrowdedOut, NothingIsDroppedSilently
  <2>2. ASSUME NEW opportunities \in SUBSET Word, NEW risks \in SUBSET Word,
               ExtractExcerpt(opportunities, risks)
        PROVE  ShownEvidenceIsSound'
    <3> DEFINE windows == KeywordWindows(opportunities, risks)
    <3>1. /\ evidence'.op = "keywords" /\ evidence'.windows = windows
          /\ evidence'.opportunities = opportunities /\ evidence'.risks = risks
      BY <2>2 DEF ExtractExcerpt
    <3> DEFINE first == AddFirst(AddFirst({}, opportunities), risks)
               Of(hits) == WholeWordWindow(Min(hits), 0, TextLength)
    <3>2. FitsReceipt(windows) /\ first \subseteq windows
      BY KeywordWindowsFit
    <3>3. ReceiptWindows(windows)
      BY <3>2 DEF FitsReceipt, ReceiptWindows
    <3>4. /\ opportunities # {} => Of(opportunities) \in first
          /\ risks # {} =>
               \/ Of(risks) \in first
               \/ /\ opportunities # {}
                  /\ MaxWindows = 1 \/ Touches(Of(risks), {Of(opportunities)})
      BY FirstHitsFit
    <3>5. /\ opportunities # {} => Of(opportunities) \in windows
          /\ risks # {} =>
               \/ Of(risks) \in windows
               \/ /\ opportunities # {}
                  /\ MaxWindows = 1 \/ Touches(Of(risks), {Of(opportunities)})
      <4> HIDE DEF Of, first, windows
      <4> QED
        BY <3>2, <3>4
    <3> HIDE DEF windows, first
    <3>6. WindowsFitTheBudget'
      BY <3>1, <3>3 DEF WindowsFitTheBudget, ReceiptWindows
    <3>7. NoPolarityIsCrowdedOut'
      BY <3>1, <3>5 DEF NoPolarityIsCrowdedOut, Touches, WholeWordWindow
    <3>8. NothingIsDroppedSilently'
      BY <3>1 DEF NothingIsDroppedSilently
    <3> QED
      BY <3>6, <3>7, <3>8 DEF ShownEvidenceIsSound
  <2>3. ASSUME NEW candidates \in SUBSET Candidate, IsFiniteSet(candidates), SelectEvidence(candidates)
        PROVE  ShownEvidenceIsSound'
    <3>1. PICK ranked \in Rankings(Substantive(candidates)) :
            evidence' = [op |-> "form", candidates |-> candidates, windows |-> SelectWindows(ranked)]
      BY <2>3 DEF SelectEvidence
    <3> DEFINE shown == SelectWindows(ranked)
    <3>2. /\ ReceiptWindows(shown) /\ Joined(shown) <= EvidenceBudget
          /\ \A c \in candidates :
               \/ \E x \in shown : x.start = c.start /\ x.label = c.label
               \/ c.boilerplate /\ \E d \in candidates : ~d.boilerplate
               \/ Cardinality(shown) = MaxWindows
               \/ Available(shown) <= 0
               \/ OverlapsOne(c, shown)
               \/ RepeatsKeyword(c, shown)
          /\ (\E x \in shown : x.boilerplate) => \A c \in candidates : c.boilerplate
          /\ candidates # {} => shown # {}
      BY <2>3, SelectionIsSound
    <3>3. evidence'.op = "form" /\ evidence'.candidates = candidates /\ evidence'.windows = shown
      BY <3>1
    <3> HIDE DEF shown
    <3>4. WindowsFitTheBudget'
      BY <3>2, <3>3 DEF WindowsFitTheBudget
    <3>5. NoPolarityIsCrowdedOut'
      BY <3>3 DEF NoPolarityIsCrowdedOut
    <3>6. NothingIsDroppedSilently'
      BY <3>2, <3>3 DEF NothingIsDroppedSilently
    <3> QED
      BY <3>4, <3>5, <3>6 DEF ShownEvidenceIsSound
  <2>4. CASE UNCHANGED evidenceVars
    <3>1. evidence' = evidence
      BY <2>4 DEF evidenceVars
    <3> QED
      BY <3>1 DEF ShownEvidenceIsSound, WindowsFitTheBudget, NoPolarityIsCrowdedOut,
                  NothingIsDroppedSilently, ReceiptWindows, Joined, SizeOf
  <2>5. CASE SelectEvidence({})
    <3>1. {} \in SUBSET Candidate /\ IsFiniteSet({})
      BY FS_EmptySet
    <3> QED
      BY <2>3, <2>5, <3>1
  <2>6. ASSUME NEW found \in [1..MaxCandidates -> Candidate], SelectEvidence(Range(found))
        PROVE  ShownEvidenceIsSound'
    <3>1. MaxCandidates \in Nat /\ IsFiniteSet(1..MaxCandidates)
      BY EvidenceAssumption, FS_Interval
    <3>2. Range(found) \in SUBSET Candidate /\ found \in Surjection(1..MaxCandidates, Range(found))
      BY DEF Range, Surjection
    <3>3. IsFiniteSet(Range(found))
      BY <3>1, <3>2, FS_Surjection
    <3> QED
      BY <2>3, <2>6, <3>2, <3>3
  <2> QED
    BY <2>1, <2>2, <2>4, <2>5, <2>6 DEF EvidenceNext
<1> QED
  BY <1>1, <1>2, PTL DEF EvidenceSpec

-----------------------------------------------------------------------------
(* Financing: the excerpts of a text of any length, with any words, phrases  *)
(* and limits.                                                               *)

(* The signals, and the excerpts a hit may make.                             *)
FtSignal == {"ATM_PROGRAM", "OFFERING_CAPACITY", "PUBLIC_OFFERING", "OFFERING_PRICE"}
FtExcerpt == [start : Nat, end : Nat, signals : SUBSET FtSignal]

LEMMA FinancingLimits ==
  /\ FtLength \in Nat /\ FtLength > 0 /\ FtHalf \in Nat /\ FtHalf > 0
  /\ FtBudget \in Nat /\ FtBudget > 0 /\ FtMaxExcerpts \in Nat /\ FtMaxExcerpts > 0
  /\ \A i \in FtSpaces : i \in Nat /\ i >= 1 /\ i <= FtLength - 2
  /\ \A s \in FtSignal : FtPhrase[s] \in Nat /\ FtPhrase[s] >= 1 /\ FtPhrase[s] <= FtHalf
<1>1. Range(FtSignals) = FtSignal
  <2>1. DOMAIN FtSignals = {1, 2, 3, 4}
    BY DEF FtSignals
  <2> QED
    BY <2>1 DEF FtSignals, FtSignal, Range
<1>2. /\ FtLength \in Nat /\ FtLength > 0 /\ FtHalf \in Nat /\ FtHalf > 0
      /\ FtBudget \in Nat /\ FtBudget > 0 /\ FtMaxExcerpts \in Nat /\ FtMaxExcerpts > 0
  BY ONLY FinancingAssumption
<1>3. \A i \in FtSpaces : i \in Nat /\ i >= 1 /\ i <= FtLength - 2
  BY ONLY <1>2, FinancingAssumption
<1>4. \A s \in FtSignal : FtPhrase[s] \in 1..FtHalf
  BY ONLY <1>1, FinancingAssumption
<1> QED
  BY ONLY <1>2, <1>3, <1>4

LEMMA WordFacts == \A p \in Words : p \in Nat /\ p < FtLength
BY FinancingLimits DEF Words

(* A hit of a text is a phrase that fits it.                                 *)
LEMMA HitFacts ==
  ASSUME NEW text \in FtTexts, NEW s, NEW p \in FindSignalHits(text, s)
  PROVE  p \in Words /\ s \in text[p] /\ s \in FtSignal /\ p + FtPhrase[s] <= FtLength
<1>1. p \in Words /\ s \in text[p]
  BY DEF FindSignalHits
<1>2. text[p] \in PhrasesAt /\ p + FtPhrase[s] <= FtLength
  BY <1>1 DEF FtTexts
<1> QED
  BY <1>1, <1>2 DEF PhrasesAt, FtSignal

(* The window around a hit holds its phrase, or is cut for want of a word    *)
(* that ends.                                                                *)
LEMMA WindowHoldsPhrase ==
  ASSUME NEW text \in FtTexts, NEW s, NEW p \in FindSignalHits(text, s)
  PROVE  LET w == EvidenceWindow(p) IN
         /\ w \in [start : Nat, end : Nat] /\ w.start <= p /\ p < w.end
         /\ p + FtPhrase[s] <= w.end \/ NoWordEnds(p, s)
<1> DEFINE roughStart == Max({0, p - FtHalf})
           roughEnd == Min({FtLength, p + FtHalf})
           before == {i \in FtSpaces : roughStart <= i /\ i < p}
           after == {i \in FtSpaces : p < i /\ i < roughEnd}
           a == IF roughStart > 0 /\ before # {} THEN Min(before) + 1 ELSE roughStart
           e == IF roughEnd < FtLength /\ after # {} THEN Max(after) ELSE roughEnd
           l == FtPhrase[s]
<1>1. EvidenceWindow(p) = [start |-> a, end |-> e]
  BY DEF EvidenceWindow
<1>2. /\ p \in Nat /\ p < FtLength /\ p + l <= FtLength
      /\ l \in Nat /\ l >= 1 /\ l <= FtHalf
  BY HitFacts, WordFacts, FinancingLimits
<1> HIDE DEF l
<1>3. roughStart \in Nat /\ roughStart <= p
  <2>1. CASE p <= FtHalf
    <3>1. {0, p - FtHalf} \cap Nat = {0} \/ p = FtHalf
      BY <1>2, <2>1, FinancingLimits
    <3>2. roughStart = 0
      BY <1>2, <2>1, FinancingLimits DEF Max
    <3> QED
      BY <1>2, <3>2
  <2>2. CASE p > FtHalf
    <3>1. roughStart = p - FtHalf
      BY <1>2, <2>2, FinancingLimits DEF Max
    <3> QED
      BY <1>2, <2>2, <3>1, FinancingLimits
  <2> QED
    BY <1>2, <2>1, <2>2, FinancingLimits
<1>4. /\ roughEnd \in Nat /\ p < roughEnd /\ roughEnd <= FtLength
      /\ roughEnd = FtLength \/ (roughEnd = p + FtHalf /\ p + FtHalf < FtLength)
  <2>1. CASE FtLength <= p + FtHalf
    <3>1. roughEnd = FtLength
      BY <1>2, <2>1, FinancingLimits DEF Min
    <3> QED
      BY <1>2, <3>1, FinancingLimits
  <2>2. CASE FtLength > p + FtHalf
    <3>1. roughEnd = p + FtHalf
      BY <1>2, <2>2, FinancingLimits DEF Min
    <3> QED
      BY <1>2, <2>2, <3>1, FinancingLimits
  <2> QED
    BY <1>2, <2>1, <2>2, FinancingLimits
<1> HIDE DEF roughStart, roughEnd
<1>5. a \in Nat /\ a <= p
  <2>1. CASE before # {}
    <3>1. before \in SUBSET Nat
      BY FinancingLimits
    <3>2. Min(before) \in before
      BY <2>1, <3>1, MinOfNaturals
    <3>3. Min(before) \in Nat /\ Min(before) < p
      BY <3>1, <3>2
    <3> HIDE DEF before
    <3> QED
      BY <1>2, <1>3, <3>3
  <2> QED
    BY <1>3, <2>1
<1>6. e \in Nat /\ p < e /\ (p + l <= e \/ NoWordEnds(p, s))
  <2>1. CASE roughEnd < FtLength /\ after # {}
    <3>1. after \in SUBSET (0..roughEnd)
      BY <1>4, FinancingLimits
    <3>2. Max(after) \in after /\ \A i \in after : i <= Max(after)
      BY <1>4, <2>1, <3>1, MaxOfNaturals
    <3>3. e = Max(after) /\ e \in Nat /\ p < e
      BY <2>1, <3>1, <3>2
    <3>4. CASE \E i \in FtSpaces : p + l <= i /\ i < p + FtHalf
      <4>1. PICK i \in FtSpaces : p + l <= i /\ i < p + FtHalf
        BY <3>4
      <4>2. i \in after
        BY <1>2, <1>4, <2>1, <4>1, FinancingLimits
      <4>3. i \in Nat /\ i <= e
        BY <3>2, <3>3, <4>2, FinancingLimits
      <4> QED
        BY <1>2, <3>3, <4>1, <4>3
    <3>5. CASE ~\E i \in FtSpaces : p + l <= i /\ i < p + FtHalf
      <4>1. \A i \in FtSpaces : i < p + l \/ p + FtHalf <= i
        BY <1>2, <3>5, FinancingLimits
      <4> QED
        BY <1>4, <2>1, <3>3, <4>1 DEF NoWordEnds, l
    <3> QED
      BY <3>4, <3>5
  <2>2. CASE ~(roughEnd < FtLength /\ after # {})
    <3>1. e = roughEnd
      BY <2>2
    <3> QED
      BY <1>2, <1>4, <3>1, FinancingLimits
  <2> QED
    BY <2>1, <2>2
<1> HIDE DEF a, e
<1> QED
  BY <1>1, <1>5, <1>6 DEF l

(* The characters of some excerpts, and of one more; they do not depend on   *)
(* the signals.                                                              *)
CharactersIn(x) == [i \in DOMAIN x |-> x[i].end - x[i].start]

LEMMA CharactersOfMore ==
  ASSUME NEW x \in Seq(FtExcerpt), NEW e \in FtExcerpt
  PROVE  /\ Characters(x) \in Int
         /\ Characters(Append(x, e)) = Characters(x) + (e.end - e.start)
<1> DEFINE n == Len(x)
           y == Append(x, e)
           v == CharactersIn(x)
           u == CharactersIn(y)
<1>1. n \in Nat /\ DOMAIN x = 1..n /\ DOMAIN y = 1..(n + 1) /\ y[n + 1] = e
      /\ \A i \in 1..n : x[i] \in FtExcerpt /\ y[i] = x[i]
  OBVIOUS
<1>2. Characters(x) = SumFunctionOnSet(v, 1..n)
      /\ Characters(y) = SumFunctionOnSet(u, 1..(n + 1))
  BY <1>1 DEF Characters, CharactersIn
<1>3. /\ \A i \in 1..n : v[i] \in Int /\ u[i] = v[i]
      /\ u[n + 1] = e.end - e.start /\ e.end - e.start \in Int
  <2>1. \A i \in 1..n : v[i] = x[i].end - x[i].start /\ u[i] = x[i].end - x[i].start
    BY <1>1 DEF CharactersIn
  <2>2. u[n + 1] = e.end - e.start
    BY <1>1 DEF CharactersIn
  <2>3. \A z \in FtExcerpt : z.end - z.start \in Int
    BY DEF FtExcerpt
  <2> QED
    BY <1>1, <2>1, <2>2, <2>3
<1>4. IsFiniteSet(1..n) /\ IsFiniteSet(1..(n + 1))
  BY <1>1, FS_Interval
<1>5. (1..(n + 1)) \ {n + 1} = 1..n /\ n + 1 \in 1..(n + 1)
  BY <1>1
<1>6. \A i \in 1..(n + 1) : u[i] \in Int
  <2>1. \A i \in 1..(n + 1) : i = n + 1 \/ i \in 1..n
    BY <1>1
  <2> QED
    BY <1>3, <2>1
<1> HIDE DEF n, y, u, v
<1>7. SumFunctionOnSet(v, 1..n) \in Int
  <2>1. \A i \in 1..n : v[i] \in Int
    BY <1>3
  <2> QED
    BY ONLY <1>4, <2>1, SumIsInteger
<1>8. SumFunctionOnSet(v, 1..n) = SumFunctionOnSet(u, 1..n)
  BY ONLY <1>3, <1>4, SumOfEquals
<1>9. SumFunctionOnSet(u, 1..(n + 1)) = u[n + 1] + SumFunctionOnSet(u, (1..(n + 1)) \ {n + 1})
  BY ONLY <1>4, <1>5, <1>6, SumTakesOut
<1>10. Characters(y) = Characters(x) + (e.end - e.start)
  <2>1. Characters(y) = u[n + 1] + SumFunctionOnSet(v, 1..n)
    BY ONLY <1>2, <1>5, <1>8, <1>9
  <2> QED
    BY ONLY <1>2, <1>3, <1>7, <2>1
<1> QED
  BY <1>2, <1>7, <1>10 DEF y

LEMMA CharactersOfNone == Characters(<<>>) = 0
<1>1. DOMAIN <<>> = {}
  OBVIOUS
<1> QED
  BY <1>1, SumOfNone DEF Characters

(* What is quoted does not depend on the signals of an excerpt.              *)
QuotesOrCut(excerpt, s, text) ==
  \/ Quotes(excerpt, s, text)
  \/ \E p \in FindSignalHits(text, s) :
       NoWordEnds(p, s) /\ EvidenceWindow(p) = [start |-> excerpt.start, end |-> excerpt.end]

(* What the excerpts of a text promise while they are made, and what they    *)
(* keep of the excerpts before.                                              *)
GoodExcerpts(text, x) ==
  /\ x \in Seq(FtExcerpt)
  /\ Len(x) <= FtMaxExcerpts /\ Characters(x) <= FtBudget
  /\ \A i \in DOMAIN x : x[i].start < x[i].end /\ \A s \in x[i].signals : QuotesOrCut(x[i], s, text)

Carried(x) == UNION {x[i].signals : i \in DOMAIN x}

Grows(x, y) ==
  /\ Carried(x) \subseteq Carried(y)
  /\ Len(x) <= Len(y) /\ Characters(x) <= Characters(y)

LEMMA ExcerptsTyped ==
  ASSUME NEW text, NEW x, GoodExcerpts(text, x)
  PROVE  /\ x \in Seq(FtExcerpt) /\ Len(x) \in Nat /\ DOMAIN x = 1..Len(x)
         /\ \A i \in DOMAIN x : /\ x[i] \in FtExcerpt /\ x[i].start \in Nat /\ x[i].end \in Nat
                                  /\ x[i].signals \in SUBSET FtSignal
         /\ Characters(x) \in Int /\ Carried(x) \in SUBSET FtSignal
<1>1. x \in Seq(FtExcerpt)
  BY DEF GoodExcerpts
<1>2. Len(x) \in Nat /\ DOMAIN x = 1..Len(x) /\ \A i \in DOMAIN x : x[i] \in FtExcerpt
  BY <1>1
<1>3. \A e \in FtExcerpt : e.start \in Nat /\ e.end \in Nat /\ e.signals \in SUBSET FtSignal
  BY DEF FtExcerpt
<1>4. Characters(x) \in Int
  <2>1. [start |-> 0, end |-> 0, signals |-> {}] \in FtExcerpt
    BY DEF FtExcerpt
  <2> QED
    BY <1>1, <2>1, CharactersOfMore
<1>5. Carried(x) \in SUBSET FtSignal
  BY <1>2, <1>3 DEF Carried
<1> QED
  BY <1>1, <1>2, <1>3, <1>4, <1>5

(* A hit that joins an excerpt changes its signals alone.                    *)
Join(x, k, s) == [x EXCEPT ![k].signals = @ \cup {s}]

LEMMA JoinedExcerpts ==
  ASSUME NEW text, NEW x, GoodExcerpts(text, x), NEW k \in DOMAIN x, NEW s \in FtSignal,
         QuotesOrCut(x[k], s, text)
  PROVE  LET y == Join(x, k, s) IN
         /\ GoodExcerpts(text, y) /\ Grows(x, y)
         /\ Len(y) = Len(x) /\ Carried(y) = Carried(x) \cup {s}
<1> DEFINE y == Join(x, k, s)
<1>1. /\ x \in Seq(FtExcerpt) /\ Len(x) \in Nat /\ DOMAIN x = 1..Len(x)
      /\ \A i \in DOMAIN x : x[i] \in FtExcerpt /\ x[i].signals \in SUBSET FtSignal
      /\ Characters(x) \in Int
  BY ExcerptsTyped
<1>2. y = [i \in 1..Len(x) |-> IF i = k THEN [x[k] EXCEPT !.signals = @ \cup {s}] ELSE x[i]]
  BY <1>1 DEF Join
<1>3. \A e \in FtExcerpt : LET d == [e EXCEPT !.signals = @ \cup {s}] IN
        d \in FtExcerpt /\ d.start = e.start /\ d.end = e.end /\ d.signals = e.signals \cup {s}
  BY DEF FtExcerpt
<1>4. /\ y \in Seq(FtExcerpt) /\ Len(y) = Len(x) /\ DOMAIN y = DOMAIN x
      /\ \A i \in DOMAIN x : y[i].start = x[i].start /\ y[i].end = x[i].end
      /\ \A i \in DOMAIN x : y[i].signals = IF i = k THEN x[k].signals \cup {s} ELSE x[i].signals
  <2>1. y \in [1..Len(x) -> FtExcerpt]
    BY <1>1, <1>2, <1>3
  <2>2. \A i \in DOMAIN x : y[i] = IF i = k THEN [x[k] EXCEPT !.signals = @ \cup {s}] ELSE x[i]
    BY <1>1, <1>2
  <2> HIDE DEF y
  <2>3. y \in Seq(FtExcerpt) /\ Len(y) = Len(x) /\ DOMAIN y = DOMAIN x
    BY <1>1, <2>1
  <2>4. ASSUME NEW i \in DOMAIN x
        PROVE  /\ y[i].start = x[i].start /\ y[i].end = x[i].end
               /\ y[i].signals = IF i = k THEN x[k].signals \cup {s} ELSE x[i].signals
    BY <1>1, <1>3, <2>2
  <2> QED
    BY <2>3, <2>4
<1> HIDE DEF y
<1>5. Characters(y) = Characters(x)
  <2>1. CharactersIn(y) = CharactersIn(x)
    BY <1>4 DEF CharactersIn
  <2>2. Characters(x) = SumFunctionOnSet(CharactersIn(x), DOMAIN x)
        /\ Characters(y) = SumFunctionOnSet(CharactersIn(y), DOMAIN y)
    BY DEF Characters, CharactersIn
  <2> QED
    BY <1>4, <2>1, <2>2
<1>6. Carried(y) = Carried(x) \cup {s}
  BY <1>4 DEF Carried
<1>7. ASSUME NEW i \in DOMAIN y
      PROVE  y[i].start < y[i].end /\ \A z \in y[i].signals : QuotesOrCut(y[i], z, text)
  <2>1. i \in DOMAIN x /\ y[i].start = x[i].start /\ y[i].end = x[i].end
    BY <1>4
  <2>2. x[i].start < x[i].end /\ \A z \in x[i].signals : QuotesOrCut(x[i], z, text)
    BY <2>1 DEF GoodExcerpts
  <2>3. \A z : QuotesOrCut(x[i], z, text) => QuotesOrCut(y[i], z, text)
    BY <2>1 DEF QuotesOrCut, Quotes
  <2>4. \A z \in y[i].signals : QuotesOrCut(x[i], z, text)
    BY <1>4, <2>1, <2>2
  <2> QED
    BY <2>1, <2>2, <2>3, <2>4
<1>8. GoodExcerpts(text, y)
  BY <1>4, <1>5, <1>7 DEF GoodExcerpts
<1>9. Grows(x, y)
  BY <1>1, <1>4, <1>5, <1>6 DEF Grows
<1> QED
  BY <1>4, <1>6, <1>8, <1>9 DEF y

(* A hit that makes an excerpt of its own.                                   *)
LEMMA AppendedExcerpts ==
  ASSUME NEW text, NEW x, GoodExcerpts(text, x), NEW e \in FtExcerpt, NEW s, e.signals = {s},
         e.start < e.end, QuotesOrCut(e, s, text),
         Len(x) < FtMaxExcerpts, Characters(x) + (e.end - e.start) <= FtBudget
  PROVE  LET y == Append(x, e) IN
         /\ GoodExcerpts(text, y) /\ Grows(x, y)
         /\ Len(y) = Len(x) + 1 /\ Carried(y) = Carried(x) \cup {s}
<1> DEFINE y == Append(x, e)
<1>1. /\ x \in Seq(FtExcerpt) /\ Len(x) \in Nat /\ DOMAIN x = 1..Len(x) /\ Characters(x) \in Int
  BY ExcerptsTyped
<1>2. Characters(y) = Characters(x) + (e.end - e.start)
  BY <1>1, CharactersOfMore
<1>3. /\ y \in Seq(FtExcerpt) /\ Len(y) = Len(x) + 1 /\ DOMAIN y = 1..(Len(x) + 1)
      /\ y[Len(x) + 1] = e /\ \A i \in DOMAIN x : y[i] = x[i]
  BY <1>1
<1>4. \A i \in DOMAIN y : i = Len(x) + 1 \/ i \in DOMAIN x
  BY <1>1, <1>3
<1>5. DOMAIN x \subseteq DOMAIN y /\ Len(x) + 1 \in DOMAIN y
  BY <1>1, <1>3
<1> HIDE DEF y
<1>6. Carried(y) = Carried(x) \cup {s}
  BY <1>3, <1>4, <1>5 DEF Carried
<1>7. \A i \in DOMAIN y : y[i].start < y[i].end /\ \A z \in y[i].signals : QuotesOrCut(y[i], z, text)
  BY <1>3, <1>4 DEF GoodExcerpts
<1>8. Len(y) <= FtMaxExcerpts /\ Len(x) <= Len(y)
  BY <1>1, <1>3, FinancingLimits
<1>9. Characters(x) <= Characters(y) /\ Characters(y) <= FtBudget
  <2>1. e.start \in Nat /\ e.end \in Nat
    BY DEF FtExcerpt
  <2> QED
    BY <1>1, <1>2, <2>1, FinancingLimits
<1>10. GoodExcerpts(text, y)
  BY <1>3, <1>7, <1>8, <1>9 DEF GoodExcerpts
<1>11. Grows(x, y)
  BY <1>6, <1>8, <1>9 DEF Grows
<1> QED
  BY <1>3, <1>6, <1>10, <1>11 DEF y

(* One hit is carried, or the excerpts have run out of their number or of    *)
(* their characters; and it adds one excerpt at most, which carries it.      *)
LEMMA AddHitFits ==
  ASSUME NEW text \in FtTexts, NEW x, GoodExcerpts(text, x), NEW s, NEW p \in FindSignalHits(text, s)
  PROVE  LET y == AddHit(text, x, p, s)
             w == EvidenceWindow(p)
         IN
         /\ GoodExcerpts(text, y) /\ Grows(x, y) /\ Carried(y) \subseteq Carried(x) \cup {s}
         /\ Len(y) = Len(x) \/ (Len(y) = Len(x) + 1 /\ s \in Carried(y))
         /\ \/ s \in Carried(y)
            \/ Len(y) = FtMaxExcerpts /\ y = x
            \/ Characters(y) + w.end - w.start > FtBudget
<1> DEFINE y == AddHit(text, x, p, s)
           w == EvidenceWindow(p)
           overlapping == {i \in DOMAIN x : w.start < x[i].end /\ w.end > x[i].start}
           first == Min(overlapping)
<1>1. /\ x \in Seq(FtExcerpt) /\ Len(x) \in Nat /\ DOMAIN x = 1..Len(x) /\ Characters(x) \in Int
  BY ExcerptsTyped
<1>2. /\ p \in Words /\ s \in text[p] /\ s \in FtSignal /\ p \in Nat /\ FtPhrase[s] \in Nat
  BY HitFacts, WordFacts, FinancingLimits
<1>3. /\ w \in [start : Nat, end : Nat] /\ w.start <= p /\ p < w.end
      /\ p + FtPhrase[s] <= w.end \/ NoWordEnds(p, s)
  BY WindowHoldsPhrase
<1>4. Grows(x, x)
  BY <1>1 DEF Grows
<1>5. Len(x) <= FtMaxExcerpts
  BY DEF GoodExcerpts
<1> HIDE DEF w
<1>6. y = IF Len(x) >= FtMaxExcerpts THEN x
          ELSE IF overlapping # {} /\ Quotes(x[first], s, text)
          THEN [x EXCEPT ![first].signals = @ \cup {s}]
          ELSE IF Characters(x) + w.end - w.start > FtBudget THEN x
          ELSE Append(x, [start |-> w.start, end |-> w.end, signals |-> {s}])
  BY DEF AddHit, w
<1> HIDE DEF y
<1>7. CASE Len(x) >= FtMaxExcerpts
  <2>1. y = x /\ Len(x) = FtMaxExcerpts
    BY <1>1, <1>5, <1>6, <1>7, FinancingLimits
  <2> QED
    BY <1>4, <2>1 DEF y, w
<1>8. CASE ~(Len(x) >= FtMaxExcerpts) /\ overlapping # {} /\ Quotes(x[first], s, text)
  <2>1. first \in DOMAIN x
    <3>1. overlapping \in SUBSET Nat
      BY <1>1
    <3>2. first \in overlapping
      BY <1>8, <3>1, MinOfNaturals
    <3> QED
      BY <3>2
  <2>2. QuotesOrCut(x[first], s, text)
    BY <1>8 DEF QuotesOrCut
  <2> HIDE DEF first, overlapping
  <2>3. y = Join(x, first, s)
    BY <1>6, <1>8 DEF Join
  <2>4. GoodExcerpts(text, y) /\ Grows(x, y) /\ Len(y) = Len(x) /\ Carried(y) = Carried(x) \cup {s}
    BY <1>2, <2>1, <2>2, <2>3, JoinedExcerpts
  <2> QED
    BY <2>4 DEF y, w
<1>9. CASE /\ ~(Len(x) >= FtMaxExcerpts) /\ ~(overlapping # {} /\ Quotes(x[first], s, text))
           /\ Characters(x) + w.end - w.start > FtBudget
  <2> HIDE DEF first, overlapping
  <2>1. y = x
    BY <1>6, <1>9
  <2> QED
    BY <1>4, <1>9, <2>1 DEF y, w
<1>10. CASE /\ ~(Len(x) >= FtMaxExcerpts) /\ ~(overlapping # {} /\ Quotes(x[first], s, text))
            /\ ~(Characters(x) + w.end - w.start > FtBudget)
  <2> DEFINE e == [start |-> w.start, end |-> w.end, signals |-> {s}]
  <2> HIDE DEF first, overlapping
  <2>1. y = Append(x, e)
    BY <1>6, <1>10
  <2>2. e \in FtExcerpt /\ e.signals = {s} /\ e.start = w.start /\ e.end = w.end
    BY <1>2, <1>3 DEF FtExcerpt
  <2>3. QuotesOrCut(e, s, text)
    <3>1. CASE p + FtPhrase[s] <= w.end
      BY <1>2, <1>3, <2>2, <3>1 DEF QuotesOrCut, Quotes
    <3>2. CASE NoWordEnds(p, s)
      <4>1. w = [start |-> w.start, end |-> w.end]
        BY <1>3
      <4> QED
        BY <2>2, <3>2, <4>1 DEF QuotesOrCut, w
    <3> QED
      BY <1>3, <3>1, <3>2
  <2> HIDE DEF e
  <2>4. e.start < e.end /\ Len(x) < FtMaxExcerpts /\ Characters(x) + (e.end - e.start) <= FtBudget
    <3>1. w.start \in Nat /\ w.end \in Nat
      BY <1>3
    <3> QED
      BY <1>1, <1>2, <1>3, <1>10, <2>2, <3>1, FinancingLimits
  <2>5. /\ GoodExcerpts(text, y) /\ Grows(x, y) /\ Len(y) = Len(x) + 1
        /\ Carried(y) = Carried(x) \cup {s}
    BY <2>1, <2>2, <2>3, <2>4, AppendedExcerpts
  <2> QED
    BY <2>5 DEF y, w
<1> QED
  BY <1>7, <1>8, <1>9, <1>10

(* What a signal's first hit is answered with: the signal is carried, or the *)
(* excerpts ran out, of their number with as many signals carried.           *)
Answered(text, x, s) ==
  LET w == EvidenceWindow(Min(FindSignalHits(text, s))) IN
  \/ s \in Carried(x)
  \/ Len(x) = FtMaxExcerpts /\ Cardinality(Carried(x)) >= FtMaxExcerpts
  \/ Characters(x) + w.end - w.start > FtBudget

LEMMA SignalsAreFinite == IsFiniteSet(FtSignal)
<1>1. IsFiniteSet({"ATM_PROGRAM"} \cup {"OFFERING_CAPACITY"})
  BY FS_Singleton, FS_Union
<1>2. IsFiniteSet({"PUBLIC_OFFERING"} \cup {"OFFERING_PRICE"})
  BY FS_Singleton, FS_Union
<1>3. FtSignal = ({"ATM_PROGRAM"} \cup {"OFFERING_CAPACITY"})
                   \cup ({"PUBLIC_OFFERING"} \cup {"OFFERING_PRICE"})
  BY DEF FtSignal
<1> QED
  BY ONLY <1>1, <1>2, <1>3, FS_Union

(* An answer stands while the excerpts grow.                                 *)
LEMMA AnswersStand ==
  ASSUME NEW text \in FtTexts, NEW x, GoodExcerpts(text, x), NEW y, GoodExcerpts(text, y), Grows(x, y),
         NEW s, FindSignalHits(text, s) # {}, Answered(text, x, s)
  PROVE  Answered(text, y, s)
<1> DEFINE hits == FindSignalHits(text, s)
           w == EvidenceWindow(Min(hits))
<1>1. /\ Len(x) \in Nat /\ Len(y) \in Nat /\ Characters(x) \in Int /\ Characters(y) \in Int
      /\ Carried(x) \in SUBSET FtSignal /\ Carried(y) \in SUBSET FtSignal
  BY ExcerptsTyped
<1>2. Carried(x) \subseteq Carried(y) /\ Len(x) <= Len(y) /\ Characters(x) <= Characters(y)
  BY DEF Grows
<1>3. Len(y) <= FtMaxExcerpts
  BY DEF GoodExcerpts
<1>4. w.start \in Nat /\ w.end \in Nat
  <2>1. Min(hits) \in hits
    <3>1. hits \in SUBSET Nat
      BY WordFacts DEF FindSignalHits
    <3> HIDE DEF hits
    <3> QED
      BY <3>1, MinOfNaturals DEF hits
  <2>2. w \in [start : Nat, end : Nat]
    <3> HIDE DEF w
    <3> QED
      BY <2>1, WindowHoldsPhrase DEF w
  <2> QED
    BY <2>2
<1>5. Cardinality(Carried(x)) <= Cardinality(Carried(y))
      /\ Cardinality(Carried(x)) \in Nat /\ Cardinality(Carried(y)) \in Nat
  <2>2. IsFiniteSet(Carried(x)) /\ IsFiniteSet(Carried(y))
    BY <1>1, SignalsAreFinite, FS_Subset
  <2> QED
    BY <1>2, <2>2, FS_Subset, FS_CardinalityType
<1>6. \/ s \in Carried(x)
      \/ Len(x) = FtMaxExcerpts /\ Cardinality(Carried(x)) >= FtMaxExcerpts
      \/ Characters(x) + w.end - w.start > FtBudget
  BY DEF Answered
<1> HIDE DEF w, hits
<1>7. \/ s \in Carried(y)
      \/ Len(y) = FtMaxExcerpts /\ Cardinality(Carried(y)) >= FtMaxExcerpts
      \/ Characters(y) + w.end - w.start > FtBudget
  <2>1. CASE s \in Carried(x)
    BY <1>2, <2>1
  <2>2. CASE Len(x) = FtMaxExcerpts /\ Cardinality(Carried(x)) >= FtMaxExcerpts
    BY <1>1, <1>2, <1>3, <1>5, <2>2, FinancingLimits
  <2>3. CASE Characters(x) + w.end - w.start > FtBudget
    BY <1>1, <1>2, <1>4, <2>3, FinancingLimits
  <2> QED
    BY <1>6, <2>1, <2>2, <2>3
<1> QED
  BY <1>7 DEF Answered, w, hits

(* The first hit of a signal that has one.                                   *)
LEMMA FirstHitIs ==
  ASSUME NEW text \in FtTexts, NEW s
  PROVE  LET hits == FindSignalHits(text, s) IN
         IF hits = {} THEN FirstHit(text, s) = {}
         ELSE /\ FirstHit(text, s) = {Min(hits)} /\ Min(FirstHit(text, s)) = Min(hits)
              /\ Min(hits) \in hits
<1> DEFINE hits == FindSignalHits(text, s)
           first == FirstHit(text, s)
<1>1. first = {p \in hits : \A q \in hits : p <= q}
  BY DEF FirstHit
<1>2. hits \in SUBSET Nat
  BY WordFacts DEF FindSignalHits
<1> HIDE DEF hits, first
<1>3. CASE hits = {}
  BY <1>1, <1>3 DEF hits, first
<1>4. CASE hits # {}
  <2> DEFINE m == Min(hits)
  <2>1. m \in hits /\ \A q \in hits : m <= q
    BY <1>2, <1>4, MinOfNaturals
  <2> HIDE DEF m
  <2>2. first = {m}
    <3>1. m \in first
      BY <1>1, <2>1
    <3>2. ASSUME NEW p \in first PROVE p = m
      <4>1. p \in hits /\ p <= m /\ m <= p
        BY <1>1, <2>1
      <4>2. p \in Int /\ m \in Int
        BY <1>2, <2>1, <4>1
      <4> QED
        BY ONLY <4>1, <4>2
    <3> QED
      BY <3>1, <3>2
  <2>3. m \in Nat
    BY <1>2, <2>1
  <2>4. Min({m}) = m
    <3>1. {m} \in SUBSET Nat /\ {m} # {}
      BY <2>3
    <3>2. Min({m}) \in {m}
      BY <3>1, MinOfNaturals
    <3> QED
      BY <3>2
  <2> QED
    BY <1>4, <2>1, <2>2, <2>4 DEF m, hits, first
<1> QED
  BY <1>3, <1>4

(* One signal's turn.                                                        *)
Prioritize(text, x, s) ==
  IF FirstHit(text, s) = {} THEN x ELSE AddHit(text, x, Min(FirstHit(text, s)), s)

PrioritizesInTurn(after, text) ==
  /\ after[0] = <<>> /\ FirstExcerpts(text) = after[4]
  /\ \A i \in 1..4 : after[i] = Prioritize(text, after[i - 1], FtSignals[i])

LEMMA PrioritizeFits ==
  ASSUME NEW text \in FtTexts, NEW x, GoodExcerpts(text, x), NEW s
  PROVE  LET y == Prioritize(text, x, s) IN
         /\ GoodExcerpts(text, y) /\ Grows(x, y) /\ Carried(y) \subseteq Carried(x) \cup {s}
         /\ Len(y) = Len(x) \/ (Len(y) = Len(x) + 1 /\ s \in Carried(y))
         /\ FindSignalHits(text, s) # {} =>
              LET w == EvidenceWindow(Min(FindSignalHits(text, s))) IN
              \/ s \in Carried(y)
              \/ Len(y) = FtMaxExcerpts /\ y = x
              \/ Characters(y) + w.end - w.start > FtBudget
<1> DEFINE hits == FindSignalHits(text, s)
           y == Prioritize(text, x, s)
<1>1. Len(x) \in Nat /\ Characters(x) \in Int
  BY ExcerptsTyped
<1>2. Grows(x, x)
  BY <1>1 DEF Grows
<1>3. CASE hits = {}
  <2>1. FirstHit(text, s) = {}
    BY <1>3, FirstHitIs
  <2>2. y = x
    BY <2>1 DEF Prioritize
  <2> QED
    BY <1>2, <1>3, <2>2
<1>4. CASE hits # {}
  <2>1. FirstHit(text, s) # {} /\ Min(FirstHit(text, s)) = Min(hits) /\ Min(hits) \in hits
    BY <1>4, FirstHitIs
  <2>2. y = AddHit(text, x, Min(hits), s)
    BY <2>1 DEF Prioritize
  <2> DEFINE p == Min(hits)
             w == EvidenceWindow(p)
  <2> HIDE DEF p, y
  <2>3. p \in FindSignalHits(text, s) /\ y = AddHit(text, x, p, s)
    BY <2>1, <2>2 DEF p
  <2>4. /\ GoodExcerpts(text, y) /\ Grows(x, y) /\ Carried(y) \subseteq Carried(x) \cup {s}
        /\ Len(y) = Len(x) \/ (Len(y) = Len(x) + 1 /\ s \in Carried(y))
        /\ \/ s \in Carried(y)
           \/ Len(y) = FtMaxExcerpts /\ y = x
           \/ Characters(y) + w.end - w.start > FtBudget
    BY <2>3, AddHitFits
  <2> QED
    BY <2>4 DEF y, p
<1> QED
  BY <1>3, <1>4

LEMMA NoExcerptsFit ==
  ASSUME NEW text
  PROVE  GoodExcerpts(text, <<>>) /\ Carried(<<>>) = {}
<1>1. /\ <<>> \in Seq(FtExcerpt) /\ Len(<<>>) = 0 /\ DOMAIN <<>> = {}
  OBVIOUS
<1> QED
  BY <1>1, CharactersOfNone, FinancingLimits DEF GoodExcerpts, Carried

LEMMA FirstExcerptsSteps ==
  ASSUME NEW text \in FtTexts
  PROVE  \E after : PrioritizesInTurn(after, text)
<1> DEFINE S == {x \in Seq(FtExcerpt) : GoodExcerpts(text, x)}
           g == [i \in 1..4 |-> [x \in S |-> Prioritize(text, x, FtSignals[i])]]
           Step(f) == [i \in 0..4 |->
                         IF i = 0 THEN <<>>
                         ELSE IF FirstHit(text, FtSignals[i]) = {} THEN f[i - 1]
                         ELSE AddHit(text, f[i - 1], Min(FirstHit(text, FtSignals[i])), FtSignals[i])]
<1>1. FirstExcerpts(text) = (CHOOSE f : f = Step(f))[4]
  <2>1. Len(FtSignals) = 4
    BY DEF FtSignals
  <2> QED
    BY <2>1 DEF FirstExcerpts
<1>2. ASSUME NEW i \in 1..4, NEW x \in S PROVE Prioritize(text, x, FtSignals[i]) \in S
  <2>1. GoodExcerpts(text, x)
    OBVIOUS
  <2>2. GoodExcerpts(text, Prioritize(text, x, FtSignals[i]))
    BY <2>1, PrioritizeFits
  <2> QED
    BY <2>2 DEF GoodExcerpts
<1>3. <<>> \in S
  BY NoExcerptsFit DEF GoodExcerpts
<1> HIDE DEF S
<1>4. g \in [1..4 -> [S -> S]] /\ \A i \in 1..4, x \in S : g[i][x] = Prioritize(text, x, FtSignals[i])
  BY <1>2
<1> HIDE DEF g
<1>5. PICK f : SolvesRecursion(f, 4, S, <<>>, g)
  <2>1. 4 \in Nat
    OBVIOUS
  <2> QED
    BY ONLY <1>3, <1>4, <2>1, RecursionSolved
<1>6. f = Step(f)
  <2>1. f \in [0..4 -> S] /\ f[0] = <<>> /\ \A i \in 1..4 : f[i] = g[i][f[i - 1]]
    BY <1>5 DEF SolvesRecursion
  <2>2. \A i \in 1..4 : f[i] = Prioritize(text, f[i - 1], FtSignals[i])
    <3> SUFFICES ASSUME NEW i \in 1..4 PROVE f[i] = Prioritize(text, f[i - 1], FtSignals[i])
      OBVIOUS
    <3>1. f[i - 1] \in S
      BY <2>1
    <3> QED
      BY <1>4, <2>1, <3>1
  <2>3. \A i \in 0..4 : i = 0 \/ i \in 1..4
    OBVIOUS
  <2>4. \A i \in 0..4 : f[i] = Step(f)[i]
    BY <2>1, <2>2, <2>3 DEF Prioritize
  <2>5. f = [i \in 0..4 |-> f[i]] /\ Step(f) = [i \in 0..4 |-> Step(f)[i]]
    BY <2>1
  <2> QED
    BY <2>4, <2>5
<1>7. PICK after : after = Step(after) /\ FirstExcerpts(text) = after[4]
  <2> HIDE DEF Step
  <2> QED
    BY <1>1, <1>6
<1>8. after[0] = <<>>
  BY <1>7
<1>9. ASSUME NEW i \in 1..4 PROVE after[i] = Prioritize(text, after[i - 1], FtSignals[i])
  <2>1. i \in 0..4 /\ i # 0
    OBVIOUS
  <2> QED
    BY <1>7, <2>1 DEF Prioritize
<1> QED
  BY <1>7, <1>8, <1>9 DEF PrioritizesInTurn

(* Every signal of the text is answered by its turn, and the excerpts never  *)
(* outnumber the signals they carry.                                         *)
LEMMA FirstExcerptsFit ==
  ASSUME NEW text \in FtTexts
  PROVE  /\ GoodExcerpts(text, FirstExcerpts(text))
         /\ \A s \in FtSignal : FindSignalHits(text, s) # {} => Answered(text, FirstExcerpts(text), s)
<1>1. PICK after : PrioritizesInTurn(after, text)
  BY FirstExcerptsSteps
<1>2. /\ after[0] = <<>> /\ FirstExcerpts(text) = after[4]
      /\ \A i \in 1..4 : after[i] = Prioritize(text, after[i - 1], FtSignals[i])
  BY <1>1 DEF PrioritizesInTurn
<1>3. \A i, j \in 1..4 : FtSignals[i] = FtSignals[j] => i = j
  BY DEF FtSignals
<1> DEFINE Turns(i) ==
             /\ GoodExcerpts(text, after[i])
             /\ Len(after[i]) <= Cardinality(Carried(after[i]))
             /\ \A s \in Carried(after[i]) : \E j \in 1..4 : j <= i /\ s = FtSignals[j]
             /\ \A j \in 1..4 : j <= i /\ FindSignalHits(text, FtSignals[j]) # {}
                                  => Answered(text, after[i], FtSignals[j])
           T == {i \in 0..4 : Turns(i)}
<1>4. 0 \in T
  <2>1. Len(<<>>) = 0 /\ Cardinality({}) = 0
    BY FS_EmptySet
  <2>2. GoodExcerpts(text, after[0]) /\ Carried(after[0]) = {} /\ Len(after[0]) = 0
    BY <1>2, <2>1, NoExcerptsFit
  <2>3. Len(after[0]) <= Cardinality(Carried(after[0]))
    BY <2>1, <2>2
  <2>4. \A j \in 1..4 : ~(j <= 0)
    OBVIOUS
  <2>5. 0 \in 0..4
    OBVIOUS
  <2> QED
    BY <2>2, <2>3, <2>4, <2>5
<1>5. ASSUME NEW i \in 1..4, i - 1 \in T PROVE i \in T
  <2> DEFINE x == after[i - 1]
             y == after[i]
             s == FtSignals[i]
  <2>1. Turns(i - 1)
    BY <1>5
  <2>2. y = Prioritize(text, x, s) /\ GoodExcerpts(text, x)
    BY <1>2, <2>1
  <2> HIDE DEF x, y, s
  <2>3. /\ GoodExcerpts(text, y) /\ Grows(x, y) /\ Carried(y) \subseteq Carried(x) \cup {s}
        /\ Len(y) = Len(x) \/ (Len(y) = Len(x) + 1 /\ s \in Carried(y))
        /\ FindSignalHits(text, s) # {} =>
             LET w == EvidenceWindow(Min(FindSignalHits(text, s))) IN
             \/ s \in Carried(y)
             \/ Len(y) = FtMaxExcerpts /\ y = x
             \/ Characters(y) + w.end - w.start > FtBudget
    BY <2>2, PrioritizeFits
  <2>4. /\ Len(x) \in Nat /\ Len(y) \in Nat
        /\ Carried(x) \in SUBSET FtSignal /\ Carried(y) \in SUBSET FtSignal
    BY <2>2, <2>3, ExcerptsTyped
  <2>5. IsFiniteSet(Carried(x)) /\ IsFiniteSet(Carried(y))
    BY <2>4, SignalsAreFinite, FS_Subset
  <2>6. s \notin Carried(x)
    <3> SUFFICES ASSUME s \in Carried(x) PROVE FALSE
      OBVIOUS
    <3>1. PICK j \in 1..4 : j <= i - 1 /\ s = FtSignals[j]
      BY <2>1 DEF x
    <3>2. j = i
      BY <1>3, <3>1 DEF s
    <3> QED
      BY <3>1, <3>2
  <2>7. Len(y) <= Cardinality(Carried(y))
    <3>1. Len(x) <= Cardinality(Carried(x)) /\ Cardinality(Carried(x)) \in Nat
          /\ Cardinality(Carried(y)) \in Nat
      BY <2>1, <2>5, FS_CardinalityType DEF x
    <3>2. Carried(x) \subseteq Carried(y)
      BY <2>3 DEF Grows
    <3>3. Cardinality(Carried(x)) <= Cardinality(Carried(y))
      BY <2>5, <3>2, FS_Subset
    <3>4. CASE Len(y) = Len(x)
      BY <2>4, <3>1, <3>3, <3>4
    <3>5. CASE Len(y) = Len(x) + 1 /\ s \in Carried(y)
      <4>1. Carried(y) = Carried(x) \cup {s}
        BY <2>3, <3>2, <3>5
      <4>2. Cardinality(Carried(x) \cup {s}) = Cardinality(Carried(x)) + 1
        BY <2>5, <2>6, FS_AddElement
      <4> QED
        BY <2>4, <3>1, <3>5, <4>1, <4>2
    <3> QED
      BY <2>3, <3>4, <3>5
  <2>8. ASSUME NEW z \in Carried(y) PROVE \E j \in 1..4 : j <= i /\ z = FtSignals[j]
    <3>1. CASE z = s
      BY <3>1 DEF s
    <3>2. CASE z \in Carried(x)
      <4>1. PICK j \in 1..4 : j <= i - 1 /\ z = FtSignals[j]
        BY <2>1, <3>2 DEF x
      <4> QED
        BY <4>1
    <3> QED
      BY <2>3, <2>8, <3>1, <3>2
  <2>9. FindSignalHits(text, s) # {} => Answered(text, y, s)
    <3> SUFFICES ASSUME FindSignalHits(text, s) # {} PROVE Answered(text, y, s)
      OBVIOUS
    <3> DEFINE w == EvidenceWindow(Min(FindSignalHits(text, s)))
    <3>1. \/ s \in Carried(y)
          \/ Len(y) = FtMaxExcerpts /\ y = x
          \/ Characters(y) + w.end - w.start > FtBudget
      BY <2>3
    <3>2. Len(y) = FtMaxExcerpts => Cardinality(Carried(y)) >= FtMaxExcerpts
      BY <2>5, <2>7, FS_CardinalityType, FinancingLimits
    <3> HIDE DEF w
    <3> QED
      BY <3>1, <3>2 DEF Answered, w
  <2>10. ASSUME NEW j \in 1..4, j <= i, FindSignalHits(text, FtSignals[j]) # {}
         PROVE  Answered(text, y, FtSignals[j])
    <3>1. CASE j = i
      BY <2>9, <2>10, <3>1 DEF s
    <3>2. CASE j # i
      <4>1. j <= i - 1
        BY <2>10, <3>2
      <4>2. Answered(text, x, FtSignals[j])
        BY <2>1, <2>10, <4>1 DEF x
      <4> QED
        BY <2>2, <2>3, <2>10, <4>2, AnswersStand
    <3> QED
      BY <3>1, <3>2
  <2>11. Turns(i)
    BY <2>3, <2>7, <2>8, <2>10 DEF y
  <2> HIDE DEF Turns
  <2> QED
    BY <2>11
<1> HIDE DEF T
<1>6. \A i \in 0..4 : i \in T
  BY <1>4, <1>5, BoundedInduction
<1>7. Turns(4)
  BY <1>6 DEF T
<1>8. ASSUME NEW s \in FtSignal PROVE \E j \in 1..4 : s = FtSignals[j]
  <2>1. /\ FtSignals[1] = "ATM_PROGRAM" /\ FtSignals[2] = "OFFERING_CAPACITY"
        /\ FtSignals[3] = "PUBLIC_OFFERING" /\ FtSignals[4] = "OFFERING_PRICE"
    BY DEF FtSignals
  <2>2. 1 \in 1..4 /\ 2 \in 1..4 /\ 3 \in 1..4 /\ 4 \in 1..4
    OBVIOUS
  <2> QED
    BY <2>1, <2>2 DEF FtSignal
<1>9. \A j \in 1..4 : j <= 4
  OBVIOUS
<1> QED
  BY <1>2, <1>7, <1>8, <1>9

(* The other hits, in the order of the text: n - 1 is a position and a name. *)
PositionAt(n) == (n - 1) \div Len(ByName)
NameAt(n) == ByName[((n - 1) % Len(ByName)) + 1]

TakeHit(text, x, n) ==
  IF PositionAt(n) \in FindSignalHits(text, NameAt(n)) \ FirstHit(text, NameAt(n))
  THEN AddHit(text, x, PositionAt(n), NameAt(n))
  ELSE x

TakesHitsInTurn(after, text, last) ==
  /\ after[0] = FirstExcerpts(text) /\ Excerpts(text) = after[last]
  /\ \A n \in 1..last : after[n] = TakeHit(text, after[n - 1], n)

LEMMA TakeHitFits ==
  ASSUME NEW text \in FtTexts, NEW x, GoodExcerpts(text, x), NEW n
  PROVE  GoodExcerpts(text, TakeHit(text, x, n)) /\ Grows(x, TakeHit(text, x, n))
<1>1. Grows(x, x)
  <2>1. Len(x) \in Nat /\ Characters(x) \in Int
    BY ExcerptsTyped
  <2> QED
    BY <2>1 DEF Grows
<1> DEFINE p == PositionAt(n)
           s == NameAt(n)
           y == TakeHit(text, x, n)
<1>2. y = IF p \in FindSignalHits(text, s) \ FirstHit(text, s) THEN AddHit(text, x, p, s) ELSE x
  BY DEF TakeHit
<1> HIDE DEF p, s, y
<1>3. GoodExcerpts(text, y) /\ Grows(x, y)
  <2>1. CASE p \in FindSignalHits(text, s) \ FirstHit(text, s)
    BY <1>2, <2>1, AddHitFits
  <2> QED
    BY <1>1, <1>2, <2>1
<1> QED
  BY <1>3 DEF y

LEMMA ExcerptsSteps ==
  ASSUME NEW text \in FtTexts
  PROVE  \E last \in Nat : \E after : TakesHitsInTurn(after, text, last)
<1> DEFINE last == FtLength * Len(ByName)
           S == {x \in Seq(FtExcerpt) : GoodExcerpts(text, x)}
           g == [n \in 1..last |-> [x \in S |-> TakeHit(text, x, n)]]
           Step(f) == [n \in 0..last |-> IF n = 0 THEN FirstExcerpts(text) ELSE TakeHit(text, f[n - 1], n)]
<1>1. Excerpts(text) = (CHOOSE f : f = Step(f))[last]
  BY DEF Excerpts, TakeHit, PositionAt, NameAt
<1>2. last \in Nat
  <2>1. Len(ByName) = 4
    BY DEF ByName
  <2> QED
    BY <2>1, FinancingLimits
<1>3. ASSUME NEW n \in 1..last, NEW x \in S PROVE TakeHit(text, x, n) \in S
  <2>1. GoodExcerpts(text, TakeHit(text, x, n))
    BY TakeHitFits
  <2> QED
    BY <2>1 DEF GoodExcerpts
<1>4. FirstExcerpts(text) \in S
  BY FirstExcerptsFit DEF GoodExcerpts
<1> HIDE DEF S, last
<1>5. g \in [1..last -> [S -> S]] /\ \A n \in 1..last, x \in S : g[n][x] = TakeHit(text, x, n)
  BY <1>3
<1> HIDE DEF g
<1>6. PICK f : SolvesRecursion(f, last, S, FirstExcerpts(text), g)
  BY ONLY <1>2, <1>4, <1>5, RecursionSolved
<1>7. f = Step(f)
  <2>1. f \in [0..last -> S] /\ f[0] = FirstExcerpts(text) /\ \A n \in 1..last : f[n] = g[n][f[n - 1]]
    BY <1>6 DEF SolvesRecursion
  <2>2. \A n \in 1..last : f[n] = TakeHit(text, f[n - 1], n)
    <3> SUFFICES ASSUME NEW n \in 1..last PROVE f[n] = TakeHit(text, f[n - 1], n)
      OBVIOUS
    <3>1. f[n - 1] \in S
      BY <1>2, <2>1
    <3> QED
      BY <1>5, <2>1, <3>1
  <2>3. \A n \in 0..last : n = 0 \/ n \in 1..last
    BY <1>2
  <2>4. \A n \in 0..last : f[n] = Step(f)[n]
    BY <2>1, <2>2, <2>3
  <2>5. f = [n \in 0..last |-> f[n]] /\ Step(f) = [n \in 0..last |-> Step(f)[n]]
    BY <2>1
  <2> QED
    BY <2>4, <2>5
<1>8. PICK after : after = Step(after) /\ Excerpts(text) = after[last]
  <2> HIDE DEF Step
  <2> QED
    BY <1>1, <1>7
<1>9. after[0] = FirstExcerpts(text)
  BY <1>2, <1>8
<1>10. ASSUME NEW n \in 1..last PROVE after[n] = TakeHit(text, after[n - 1], n)
  <2>1. n \in 0..last /\ n # 0
    BY <1>2
  <2> QED
    BY <1>8, <2>1
<1>11. TakesHitsInTurn(after, text, last)
  BY <1>8, <1>9, <1>10 DEF TakesHitsInTurn
<1> QED
  BY <1>2, <1>11

LEMMA ExcerptsFit ==
  ASSUME NEW text \in FtTexts
  PROVE  /\ GoodExcerpts(text, Excerpts(text))
         /\ \A s \in FtSignal : FindSignalHits(text, s) # {} => Answered(text, Excerpts(text), s)
<1>0. PICK last \in Nat : \E after : TakesHitsInTurn(after, text, last)
  BY ExcerptsSteps
<1>1. PICK after : TakesHitsInTurn(after, text, last)
  BY <1>0
<1>2. /\ after[0] = FirstExcerpts(text) /\ Excerpts(text) = after[last]
      /\ \A n \in 1..last : after[n] = TakeHit(text, after[n - 1], n)
  BY <1>1 DEF TakesHitsInTurn
<1> DEFINE Fits(n) ==
             /\ GoodExcerpts(text, after[n])
             /\ \A s \in FtSignal : FindSignalHits(text, s) # {} => Answered(text, after[n], s)
           T == {n \in 0..last : Fits(n)}
<1>3. 0 \in T
  BY <1>2, FirstExcerptsFit
<1>4. ASSUME NEW n \in 1..last, n - 1 \in T PROVE n \in T
  <2> DEFINE x == after[n - 1]
             y == after[n]
  <2>1. Fits(n - 1)
    BY <1>4
  <2>2. y = TakeHit(text, x, n) /\ GoodExcerpts(text, x)
    BY <1>2, <2>1
  <2> HIDE DEF x, y
  <2>3. GoodExcerpts(text, y) /\ Grows(x, y)
    BY <2>2, TakeHitFits
  <2>4. ASSUME NEW s \in FtSignal, FindSignalHits(text, s) # {} PROVE Answered(text, y, s)
    <3>1. Answered(text, x, s)
      BY <2>1, <2>4 DEF x
    <3> QED
      BY <2>2, <2>3, <2>4, <3>1, AnswersStand
  <2>5. Fits(n)
    BY <2>3, <2>4 DEF y
  <2> HIDE DEF Fits
  <2> QED
    BY <2>5
<1> HIDE DEF T
<1>5. \A n \in 0..last : n \in T
  BY <1>3, <1>4, BoundedInduction
<1>6. last \in T
  BY <1>5
<1> QED
  BY <1>2, <1>6 DEF T

-----------------------------------------------------------------------------
(* The terms *)

(* A parser that finds out the proceeds reports them by the gross amount     *)
(* alone; any other says of them what its bases say.                         *)
SaysProceeds(p) ==
  /\ p.proceeds = "if reported" => p.bases = {} /\ p.added = {"GROSS_PROCEEDS"}
  /\ p.proceeds # "if reported" =>
       /\ p.added \cap {"GROSS_PROCEEDS", "NET_PROCEEDS"} = {}
       /\ p.proceeds = "REPORTED" <=> p.bases \cap {"GROSS_PROCEEDS", "NET_PROCEEDS"} # {}

LEMMA ParsersSayProceeds ==
  ASSUME NEW terms \in TermParsers, NEW i \in DOMAIN terms
  PROVE  SaysProceeds(terms[i])
<1>1. CASE terms = ShelfAtmTerms
  <2>1. DOMAIN ShelfAtmTerms = {"RESALE_REGISTRATION", "ATM_PROGRAM"}
    BY DEF ShelfAtmTerms
  <2>2. SaysProceeds(ShelfAtmTerms["RESALE_REGISTRATION"])
    BY DEF SaysProceeds, Parser, ShelfAtmTerms
  <2>3. SaysProceeds(ShelfAtmTerms["ATM_PROGRAM"])
    BY DEF SaysProceeds, Parser, ShelfAtmTerms
  <2> QED
    BY ONLY <1>1, i \in DOMAIN terms, <2>1, <2>2, <2>3
<1>2. CASE terms = PublicOfferingTerms
  <2>1. DOMAIN PublicOfferingTerms = {"PUBLIC_OFFERING"}
    BY DEF PublicOfferingTerms
  <2>2. SaysProceeds(PublicOfferingTerms["PUBLIC_OFFERING"])
    BY DEF SaysProceeds, Parser, PublicOfferingTerms
  <2> QED
    BY ONLY <1>2, i \in DOMAIN terms, <2>1, <2>2
<1>3. CASE terms = PrivatePlacementTerms
  <2>1. DOMAIN PrivatePlacementTerms = {"PIPE"}
    BY DEF PrivatePlacementTerms
  <2>2. SaysProceeds(PrivatePlacementTerms["PIPE"])
    BY DEF SaysProceeds, Parser, PrivatePlacementTerms
  <2> QED
    BY ONLY <1>3, i \in DOMAIN terms, <2>1, <2>2
<1>4. CASE terms = ConvertiblePreferredWarrantTerms
  <2>1. DOMAIN ConvertiblePreferredWarrantTerms = {"CONVERTIBLE_DEBT", "PREFERRED_EQUITY", "WARRANT"}
    BY DEF ConvertiblePreferredWarrantTerms
  <2>2. SaysProceeds(ConvertiblePreferredWarrantTerms["CONVERTIBLE_DEBT"])
    BY DEF SaysProceeds, Parser, ConvertiblePreferredWarrantTerms
  <2>3. SaysProceeds(ConvertiblePreferredWarrantTerms["PREFERRED_EQUITY"])
    BY DEF SaysProceeds, Parser, ConvertiblePreferredWarrantTerms
  <2>4. SaysProceeds(ConvertiblePreferredWarrantTerms["WARRANT"])
    BY DEF SaysProceeds, Parser, ConvertiblePreferredWarrantTerms
  <2> QED
    BY ONLY <1>4, i \in DOMAIN terms, <2>1, <2>2, <2>3, <2>4
<1>5. CASE terms = WarrantChangeTerms
  <2>1. DOMAIN WarrantChangeTerms = {"WARRANT_REPRICING", "WARRANT_EXERCISE_INDUCEMENT"}
    BY DEF WarrantChangeTerms
  <2>2. SaysProceeds(WarrantChangeTerms["WARRANT_REPRICING"])
    BY DEF SaysProceeds, Parser, WarrantChangeTerms
  <2>3. SaysProceeds(WarrantChangeTerms["WARRANT_EXERCISE_INDUCEMENT"])
    BY DEF SaysProceeds, Parser, WarrantChangeTerms
  <2> QED
    BY ONLY <1>5, i \in DOMAIN terms, <2>1, <2>2, <2>3
<1>6. CASE terms = EquityLineTerms
  <2>1. DOMAIN EquityLineTerms = {"EQUITY_LINE"}
    BY DEF EquityLineTerms
  <2>2. SaysProceeds(EquityLineTerms["EQUITY_LINE"])
    BY DEF SaysProceeds, Parser, EquityLineTerms
  <2> QED
    BY ONLY <1>6, i \in DOMAIN terms, <2>1, <2>2
<1>7. CASE terms = DebtTerms
  <2>1. DOMAIN DebtTerms = {"DEBT"}
    BY DEF DebtTerms
  <2>2. SaysProceeds(DebtTerms["DEBT"])
    BY DEF SaysProceeds, Parser, DebtTerms
  <2> QED
    BY ONLY <1>7, i \in DOMAIN terms, <2>1, <2>2
<1> QED
  BY <1>1, <1>2, <1>3, <1>4, <1>5, <1>6, <1>7 DEF TermParsers

LEMMA ParserFacts ==
  ASSUME NEW i \in Instruments
  PROVE  SaysProceeds(FinancingParsers[i])
<1> DEFINE terms == CHOOSE terms \in TermParsers : i \in DOMAIN terms
<1>1. terms \in TermParsers /\ i \in DOMAIN terms /\ FinancingParsers[i] = terms[i]
  BY DEF Instruments, FinancingParsers
<1> HIDE DEF terms
<1> QED
  BY <1>1, ParsersSayProceeds

(* The parsers build no term its own contract refuses.                       *)
LEMMA ParsedTermIsClosed ==
  ASSUME NEW bundle, NEW i \in Instruments
  PROVE  TermIsClosed(ParsedTerm(i, bundle))
<1> DEFINE p == FinancingParsers[i]
           money == TermMoney(p, bundle)
           t == ParsedTerm(i, bundle)
<1>1. t.money = money /\ t.proceeds = ProceedsStatus(p, bundle)
  BY DEF ParsedTerm
<1>2. money = p.bases \/ money = p.bases \cup p.added
  BY DEF TermMoney
<1>3. /\ p.proceeds = "if reported" => p.bases = {} /\ p.added = {"GROSS_PROCEEDS"}
      /\ p.proceeds # "if reported" =>
           /\ p.added \cap {"GROSS_PROCEEDS", "NET_PROCEEDS"} = {}
           /\ p.proceeds = "REPORTED" <=> p.bases \cap {"GROSS_PROCEEDS", "NET_PROCEEDS"} # {}
  BY ParserFacts DEF SaysProceeds
<1>4. t.proceeds = IF p.proceeds # "if reported" THEN p.proceeds
                   ELSE IF money # {} THEN "REPORTED" ELSE "UNKNOWN"
  BY <1>1 DEF ProceedsStatus
<1> HIDE DEF p, money, t
<1>5. CASE p.proceeds = "if reported"
  BY <1>1, <1>2, <1>3, <1>4, <1>5 DEF TermIsClosed, t
<1>6. CASE p.proceeds # "if reported"
  BY <1>1, <1>2, <1>3, <1>4, <1>6 DEF TermIsClosed, t
<1> QED
  BY <1>5, <1>6

(* A context of several kinds is one of several terms.                       *)
LEMMA OneTermOneContext ==
  ASSUME NEW instrument
  PROVE  EventContext({instrument}) # "MULTI_INSTRUMENT"
<1> DEFINE Category(i) ==
             CASE i = "RESALE_REGISTRATION" -> "REGISTRATION_CAPACITY"
               [] i \in {"CONVERTIBLE_DEBT", "DEBT"} -> "DEBT_FINANCING"
               [] OTHER -> "EQUITY_FINANCING"
           categories == {Category(i) : i \in {instrument}}
           c == Category(instrument)
<1>1. categories = {c}
  OBVIOUS
<1>2. c \in {"REGISTRATION_CAPACITY", "DEBT_FINANCING", "EQUITY_FINANCING"}
  OBVIOUS
<1>3. EventContext({instrument})
        = IF Cardinality(categories) = 1 THEN CHOOSE k \in categories : TRUE ELSE "MULTI_INSTRUMENT"
  BY DEF EventContext
<1> HIDE DEF c, categories
<1>4. Cardinality(categories) = 1
  BY <1>1, FS_Singleton
<1>5. (CHOOSE k \in categories : TRUE) \in categories
  BY <1>1
<1> QED
  BY <1>1, <1>2, <1>3, <1>4, <1>5

(* A term that reads what it cannot hold.                                    *)
UnheldTerm(t, bundle) ==
  LET p == FinancingParsers[t.instrument] IN
  \E q \in p.must \cup p.may : q \in bundle.invalid /\ bundle.patterns[q] # {}

(* What a receipt says of its terms.                                         *)
LEMMA ReceiptHasCause ==
  ASSUME NEW chosen \in SUBSET Instruments, IsFiniteSet(chosen), NEW bundle \in BundleOf(chosen)
  PROVE  LET terms == ParsedTerms(bundle)
             result == ParseResult(bundle)
         IN
         /\ \A t \in terms : TermIsClosed(t)
         /\ result = "refused" =>
              ~TermsShareNothing(terms) \/ ~bundle.fits \/ \E t \in terms : UnheldTerm(t, bundle)
         /\ result = "receipt" =>
              /\ bundle.fits /\ terms # {} /\ ~\E t \in terms : UnheldTerm(t, bundle)
              /\ EventContext({t.instrument : t \in terms}) = "MULTI_INSTRUMENT" => Cardinality(terms) > 1
              /\ \A t \in terms : \A q \in FinancingParsers[t.instrument].must :
                   Cardinality({m.value : m \in bundle.patterns[q]}) = 1
<1> DEFINE terms == ParsedTerms(bundle)
           result == ParseResult(bundle)
           parsers == {FinancingParsers[i] : i \in bundle.instruments}
           conflict == \/ \E p \in parsers : \E q \in Searched(p, bundle) : Conflicting(bundle.patterns[q])
                       \/ \E p \in parsers : DueYearConflicts(p, bundle)
           beyond == \E p \in parsers : OutOfRange(p, bundle)
           named == UNION {FinancingParsers[i].must \cup FinancingParsers[i].may : i \in chosen}
<1>1. bundle.instruments = chosen /\ bundle.patterns \in [named -> Reading]
  BY DEF BundleOf
<1>2. terms = {ParsedTerm(i, bundle) : i \in {j \in chosen : Complete(FinancingParsers[j], bundle)}}
  BY <1>1 DEF ParsedTerms
<1>3. \A t \in terms : TermIsClosed(t)
  BY <1>2, ParsedTermIsClosed
<1>4. result = IF conflict THEN "conflict"
               ELSE IF beyond \/ \E t \in terms : ~TermIsClosed(t) THEN "refused"
               ELSE IF terms = {} THEN "no terms"
               ELSE IF TermsShareNothing(terms) /\ bundle.fits THEN "receipt" ELSE "refused"
  BY DEF ParseResult
<1>5. beyond <=> \E t \in terms : UnheldTerm(t, bundle)
  <2>1. \A i \in chosen : ParsedTerm(i, bundle).instrument = i
    BY DEF ParsedTerm
  <2>2. \A i \in chosen : OutOfRange(FinancingParsers[i], bundle) <=>
          Complete(FinancingParsers[i], bundle) /\ UnheldTerm(ParsedTerm(i, bundle), bundle)
    BY <2>1 DEF OutOfRange, UnheldTerm
  <2>3. beyond <=> \E i \in chosen : OutOfRange(FinancingParsers[i], bundle)
    BY <1>1
  <2> HIDE DEF terms, beyond
  <2> QED
    BY <1>2, <2>2, <2>3
<1> HIDE DEF terms, result, conflict, beyond, named
<1>6. /\ result = "refused" =>
           ~TermsShareNothing(terms) \/ ~bundle.fits \/ \E t \in terms : UnheldTerm(t, bundle)
      /\ result = "receipt" =>
           bundle.fits /\ terms # {} /\ ~conflict /\ ~\E t \in terms : UnheldTerm(t, bundle)
  BY <1>3, <1>4, <1>5
<1>7. ASSUME terms # {}, EventContext({t.instrument : t \in terms}) = "MULTI_INSTRUMENT"
      PROVE  Cardinality(terms) > 1
  <2> DEFINE complete == {j \in chosen : Complete(FinancingParsers[j], bundle)}
  <2>1. IsFiniteSet(complete)
    BY FS_Subset
  <2>2. IsFiniteSet({ParsedTerm(i, bundle) : i \in complete})
    <3> DEFINE f == [i \in complete |-> ParsedTerm(i, bundle)]
               parsed == {ParsedTerm(i, bundle) : i \in complete}
    <3>1. f \in Surjection(complete, parsed)
      BY DEF Surjection
    <3> HIDE DEF complete, f, parsed
    <3>2. IsFiniteSet(parsed)
      BY <2>1, <3>1, FS_Surjection
    <3> QED
      BY <3>2 DEF parsed
  <2>3. IsFiniteSet(terms) /\ Cardinality(terms) \in Nat /\ Cardinality(terms) # 0
    BY <1>2, <1>7, <2>2, FS_CardinalityType, FS_EmptySet
  <2>4. Cardinality(terms) # 1
    <3> SUFFICES ASSUME Cardinality(terms) = 1 PROVE FALSE
      OBVIOUS
    <3>1. PICK t : terms = {t}
      BY <2>3, FS_Singleton
    <3>2. {u.instrument : u \in terms} = {t.instrument}
      BY <3>1
    <3> QED
      BY <1>7, <3>2, OneTermOneContext
  <2> QED
    BY <2>3, <2>4
<1>8. ASSUME ~conflict, NEW t \in terms, NEW q \in FinancingParsers[t.instrument].must
      PROVE  Cardinality({m.value : m \in bundle.patterns[q]}) = 1
  <2>1. PICK i \in chosen : Complete(FinancingParsers[i], bundle) /\ t = ParsedTerm(i, bundle)
    BY <1>2
  <2>2. t.instrument = i
    BY <2>1 DEF ParsedTerm
  <2> DEFINE p == FinancingParsers[i]
             reading == bundle.patterns[q]
             values == {m.value : m \in reading}
  <2>3. q \in p.must
    BY <2>2
  <2>4. q \in named /\ reading \in Reading
    BY <1>1, <2>3 DEF named
  <2>5. reading # {}
    BY <2>1, <2>3 DEF Complete
  <2>6. ~(Cardinality(values) > 1)
    <3>1. p \in parsers /\ q \in Searched(p, bundle)
      BY <1>1, <2>3 DEF Searched
    <3> QED
      BY <1>8, <3>1 DEF conflict, Conflicting
  <2> HIDE DEF reading
  <2>7. values \in SUBSET {1, 2} /\ values # {}
    <3>1. \A m \in reading : m.value \in {1, 2}
      BY <2>4 DEF Reading
    <3> QED
      BY <2>5, <3>1
  <2>8. IsFiniteSet({1, 2})
    <3>1. IsFiniteSet({1} \cup {2}) /\ {1} \cup {2} = {1, 2}
      BY FS_Singleton, FS_Union
    <3> QED
      BY <3>1
  <2> HIDE DEF values
  <2>9. IsFiniteSet(values) /\ Cardinality(values) \in Nat /\ Cardinality(values) # 0
    BY <2>7, <2>8, FS_Subset, FS_CardinalityType, FS_EmptySet
  <2>10. Cardinality(values) = 1
    BY <2>6, <2>9
  <2> QED
    BY <2>10 DEF values, reading
<1> QED
  BY <1>3, <1>6, <1>7, <1>8 DEF terms, result

(* Whatever the text, the phrases, the windows and the limits: each signal   *)
(* of a filing is on an excerpt or the limits were reached, an excerpt       *)
(* quotes the phrases it was cut for unless the cut goes through one; and    *)
(* whatever the patterns read, a filing is refused only for what its text    *)
(* says or for an excerpt of too many signals, never for a term whose        *)
(* proceeds disagree with its amounts (extract_financing_evidence,           *)
(* parse_financing_terms, financing_convergence_decision).                   *)
THEOREM FinancingTraceable == FinancingSpec => []FinancingIsTraceable
<1>1. FinancingInit => FinancingIsTraceable
  BY DEF FinancingInit, NoFinancing, FinancingIsTraceable, EverySignalIsQuoted, RefusalsHaveACause
<1>2. FinancingIsTraceable /\ [FinancingNext]_financingVars => FinancingIsTraceable'
  <2> SUFFICES ASSUME FinancingIsTraceable, [FinancingNext]_financingVars PROVE FinancingIsTraceable'
    OBVIOUS
  <2>1. CASE FinancingReturn
    BY <2>1 DEF FinancingReturn, NoFinancing, FinancingIsTraceable, EverySignalIsQuoted,
                RefusalsHaveACause
  <2>2. ASSUME NEW text \in FtTexts, ExtractFinancingEvidence(text) PROVE FinancingIsTraceable'
    <3> DEFINE x == Excerpts(text)
    <3>1. financing'.op = "excerpts" /\ financing'.text = text /\ financing'.excerpts = x
      BY <2>2 DEF ExtractFinancingEvidence
    <3>2. GoodExcerpts(text, x) /\ \A s \in FtSignal : FindSignalHits(text, s) # {} => Answered(text, x, s)
      BY ExcerptsFit
    <3> HIDE DEF x
    <3>3. Len(x) <= FtMaxExcerpts /\ Characters(x) <= FtBudget
      BY <3>2 DEF GoodExcerpts
    <3>4. \A i \in DOMAIN x : \A s \in x[i].signals :
            \/ Quotes(x[i], s, text)
            \/ \E p \in FindSignalHits(text, s) :
                 NoWordEnds(p, s) /\ EvidenceWindow(p) = [start |-> x[i].start, end |-> x[i].end]
      BY <3>2 DEF GoodExcerpts, QuotesOrCut
    <3>5. \A s \in UNION {text[p] : p \in Words} :
            \/ \E i \in DOMAIN x : s \in x[i].signals
            \/ Len(x) = FtMaxExcerpts /\ Cardinality(UNION {x[i].signals : i \in DOMAIN x}) >= FtMaxExcerpts
            \/ LET w == EvidenceWindow(Min(FindSignalHits(text, s))) IN
               Characters(x) + w.end - w.start > FtBudget
      <4> SUFFICES ASSUME NEW s \in UNION {text[p] : p \in Words}
                   PROVE  \/ \E i \in DOMAIN x : s \in x[i].signals
                          \/ /\ Len(x) = FtMaxExcerpts
                             /\ Cardinality(UNION {x[i].signals : i \in DOMAIN x}) >= FtMaxExcerpts
                          \/ LET w == EvidenceWindow(Min(FindSignalHits(text, s))) IN
                             Characters(x) + w.end - w.start > FtBudget
        OBVIOUS
      <4>1. PICK p \in Words : s \in text[p]
        OBVIOUS
      <4>2. p \in FindSignalHits(text, s)
        BY <4>1 DEF FindSignalHits
      <4>3. s \in FtSignal
        BY <4>2, HitFacts
      <4>4. Answered(text, x, s)
        BY <3>2, <4>2, <4>3
      <4> QED
        BY <4>4 DEF Answered, Carried
    <3>6. EverySignalIsQuoted'
      BY <3>1, <3>3, <3>4, <3>5 DEF EverySignalIsQuoted, Quotes, Characters
    <3>7. RefusalsHaveACause'
      BY <3>1 DEF RefusalsHaveACause
    <3> QED
      BY <3>6, <3>7 DEF FinancingIsTraceable
  <2>3. ASSUME NEW i \in Instruments, NEW j \in Instruments, NEW bundle \in BundleOf({i, j}),
               Ingest(bundle)
        PROVE  FinancingIsTraceable'
    <3>1. {i, j} \in SUBSET Instruments /\ IsFiniteSet({i, j})
      <4>1. IsFiniteSet({i} \cup {j}) /\ {i} \cup {j} = {i, j}
        BY FS_Singleton, FS_Union
      <4> QED
        BY <4>1
    <3> DEFINE terms == ParsedTerms(bundle)
               result == ParseResult(bundle)
               context == EventContext({t.instrument : t \in ParsedTerms(bundle)})
    <3>2. /\ financing'.op = "terms" /\ financing'.bundle = bundle /\ financing'.terms = terms
          /\ financing'.result = result /\ financing'.context = context
      BY <2>3 DEF Ingest
    <3>3. /\ \A t \in terms : TermIsClosed(t)
          /\ result = "refused" =>
               ~TermsShareNothing(terms) \/ ~bundle.fits \/ \E t \in terms : UnheldTerm(t, bundle)
          /\ result = "receipt" =>
               /\ bundle.fits /\ terms # {} /\ ~\E t \in terms : UnheldTerm(t, bundle)
               /\ context = "MULTI_INSTRUMENT" => Cardinality(terms) > 1
               /\ \A t \in terms : \A q \in FinancingParsers[t.instrument].must :
                    Cardinality({m.value : m \in bundle.patterns[q]}) = 1
      BY <3>1, ReceiptHasCause
    <3> HIDE DEF terms, result, context
    <3>4. RefusalsHaveACause'
      BY <3>2, <3>3 DEF RefusalsHaveACause, TermIsClosed, TermsShareNothing, UnheldTerm
    <3>5. EverySignalIsQuoted'
      BY <3>2 DEF EverySignalIsQuoted
    <3> QED
      BY <3>4, <3>5 DEF FinancingIsTraceable
  <2>4. ASSUME NEW m \in Metadata, IngestMetadata(m) PROVE FinancingIsTraceable'
    <3>1. financing'.op = "metadata"
      BY <2>4 DEF IngestMetadata
    <3> QED
      BY <3>1 DEF FinancingIsTraceable, EverySignalIsQuoted, RefusalsHaveACause
  <2>5. CASE UNCHANGED financingVars
    <3>1. financing' = financing
      BY <2>5 DEF financingVars
    <3> QED
      BY <3>1 DEF FinancingIsTraceable, EverySignalIsQuoted, RefusalsHaveACause, Quotes, Characters,
                  TermIsClosed, TermsShareNothing
  <2> QED
    BY <2>1, <2>2, <2>3, <2>4, <2>5 DEF FinancingNext
<1> QED
  BY <1>1, <1>2, PTL DEF FinancingSpec

-----------------------------------------------------------------------------
(* Section extraction: for texts of any length, and any shortest and longest *)
(* section.                                                                  *)

(* A text is a sequence of tokens, and a token belongs to one rule at most.  *)
LEMMA TextFacts ==
  ASSUME NEW n \in Nat, NEW text \in [1..n -> Token]
  PROVE  /\ Len(text) = n /\ DOMAIN text = 1..n
         /\ \A i \in 1..n : text[i] \in Token
         /\ \A i \in 1..n : text[i] = "item" \/ text[i] = "contents" => RuleOf[text[i]] = {}
         /\ \A i \in 1..n : \A r, q : r \in RuleOf[text[i]] /\ q \in RuleOf[text[i]] => r = q
         /\ \A i \in 1..n : text[i] \in {"debt", "DEBT"} => RuleOf[text[i]] = {"debt"}
<1>1. DOMAIN text = 1..n
  OBVIOUS
<1>2. Len(text) = n
  BY <1>1
<1>3. \A t \in Token : RuleOf[t] = CASE t \in {"risks", "RISKS"} -> {"risks"}
                                     [] t \in {"debt", "DEBT"} -> {"debt"}
                                     [] OTHER -> {}
  BY DEF RuleOf
<1>4. \A i \in 1..n : text[i] \in Token
  OBVIOUS
<1> QED
  BY <1>1, <1>2, <1>3, <1>4

LEMMA SectionEnds ==
  ASSUME NEW n \in Nat, NEW text \in [1..n -> Token], NEW periodic, NEW i \in 1..n
  PROVE  /\ SectionEnd(text, periodic, i) \in (i + 1)..(n + 1)
         /\ SectionEnd(text, periodic, i) <= i + MaxSection
         /\ \/ SectionEnd(text, periodic, i) \in SectionBoundaries(text, periodic)
            \/ SectionEnd(text, periodic, i) = i + MaxSection
         /\ \A b \in SectionBoundaries(text, periodic) :
              b > i => SectionEnd(text, periodic, i) <= b
<1> DEFINE bounds == SectionBoundaries(text, periodic)
           S == {b \in bounds : b > i} \cup {i + MaxSection}
<1>1. Len(text) = n /\ DOMAIN text = 1..n
  BY TextFacts
<1>2. bounds \subseteq 1..(n + 1) /\ n + 1 \in bounds
  BY <1>1 DEF SectionBoundaries, HeadingCandidates
<1>3. MaxSection \in Nat /\ MaxSection > 0
  BY SectionAssumption
<1>4. SectionEnd(text, periodic, i) = Min(S) /\ bounds = SectionBoundaries(text, periodic)
  BY DEF SectionEnd
<1> HIDE DEF bounds
<1>5. S \in SUBSET Nat /\ S # {}
  <2>1. \A x \in S : x \in Nat
    BY <1>2, <1>3
  <2>2. i + MaxSection \in S
    OBVIOUS
  <2> HIDE DEF S
  <2> QED
    BY <2>1, <2>2
<1>6. Min(S) \in S /\ \A y \in S : Min(S) <= y
  BY <1>5, MinOfNaturals
<1>7. n + 1 \in S /\ \A x \in S : x > i /\ x \in Nat
  BY <1>2, <1>3
<1>8. i + MaxSection \in S /\ \A b \in bounds : b > i => b \in S
  OBVIOUS
<1>9. Min(S) \in Nat /\ Min(S) > i /\ Min(S) <= n + 1 /\ Min(S) <= i + MaxSection
  BY <1>6, <1>7, <1>8
<1>10. Min(S) \in bounds \/ Min(S) = i + MaxSection
  BY <1>6
<1>11. \A b \in bounds : b > i => Min(S) <= b
  BY <1>6, <1>8
<1>12. Min(S) \in (i + 1)..(n + 1)
  BY <1>9
<1> QED
  BY <1>4, <1>9, <1>10, <1>11, <1>12

(* The sections a comparison of filings is made of.                          *)
LEMMA ChangeSectionsStand ==
  ASSUME NEW n \in Nat, NEW text \in [1..n -> Token], NEW periodic \in BOOLEAN,
         ExtractChangeSections(text, periodic)
  PROVE  ChangeSectionsAreDisjoint'
<1> DEFINE found == ChangeSections(text, periodic)
           End(i) == SectionEnd(text, periodic, i)
           heads == HeadingCandidates(text, periodic)
           bounds == SectionBoundaries(text, periodic)
<1>1. /\ sectioning'.op = "change" /\ sectioning'.text = text
      /\ sectioning'.periodic = periodic /\ sectioning'.result = found
  BY DEF ExtractChangeSections
<1>2. /\ Len(text) = n /\ DOMAIN text = 1..n
      /\ \A i \in 1..n : text[i] = "item" \/ text[i] = "contents" => RuleOf[text[i]] = {}
      /\ \A i \in 1..n : \A r, q : r \in RuleOf[text[i]] /\ q \in RuleOf[text[i]] => r = q
      /\ \A i \in 1..n : text[i] \in {"debt", "DEBT"} => RuleOf[text[i]] = {"debt"}
  BY TextFacts
<1>3. \A i \in 1..n :
        /\ End(i) \in (i + 1)..(n + 1) /\ End(i) <= i + MaxSection
        /\ End(i) \in bounds \/ End(i) = i + MaxSection
        /\ \A b \in bounds : b > i => End(i) <= b
  BY SectionEnds
<1>4. /\ heads \subseteq 1..n /\ heads \subseteq bounds
      /\ \A i \in 1..n : text[i] = "item" => i \in bounds
      /\ \A b \in bounds : b \in heads \/ (b \in 1..n /\ text[b] = "item") \/ b = n + 1
  BY <1>2 DEF HeadingCandidates, SectionBoundaries
<1>5. MinSection \in Nat /\ MaxSection \in Nat /\ MinSection <= MaxSection
  BY SectionAssumption
<1>6. \A r \in DOMAIN found :
        /\ found[r].start \in SubstantiveSections(text, periodic, r)
        /\ found[r].end = End(found[r].start)
  <2> SUFFICES ASSUME NEW r \in DOMAIN found
               PROVE  /\ found[r].start \in SubstantiveSections(text, periodic, r)
                      /\ found[r].end = End(found[r].start)
    OBVIOUS
  <2> DEFINE i == Min(PreferredSections(text, periodic, r))
  <2>1. /\ PreferredSections(text, periodic, r) # {}
        /\ found[r] = [start |-> i, end |-> End(i)]
    BY DEF ChangeSections
  <2>2. PreferredSections(text, periodic, r) \subseteq SubstantiveSections(text, periodic, r)
    BY DEF PreferredSections
  <2>3. SubstantiveSections(text, periodic, r) \subseteq Nat
    BY <1>4 DEF SubstantiveSections
  <2>4. i \in PreferredSections(text, periodic, r)
    BY <2>1, <2>2, <2>3, MinOfNaturals
  <2> HIDE DEF i
  <2> QED
    BY <2>1, <2>2, <2>4
<1>7. \A r, i : i \in SubstantiveSections(text, periodic, r) =>
        /\ i \in heads /\ i \in 1..n /\ r \in RuleOf[text[i]]
        /\ End(i) - i >= MinSection /\ ~LooksLikeContents(text, i, End(i))
  BY <1>4 DEF SubstantiveSections
<1>8. \A r, q \in DOMAIN found : r # q => Apart(found[r], found[q])
  <2> SUFFICES ASSUME NEW r \in DOMAIN found, NEW q \in DOMAIN found, r # q
               PROVE  Apart(found[r], found[q])
    OBVIOUS
  <2> DEFINE i == found[r].start
             j == found[q].start
  <2>1. /\ i \in heads /\ i \in 1..n /\ r \in RuleOf[text[i]] /\ found[r].end = End(i)
        /\ j \in heads /\ j \in 1..n /\ q \in RuleOf[text[j]] /\ found[q].end = End(j)
    BY <1>6, <1>7
  <2> HIDE DEF i, j, End, heads, bounds
  <2>2. i # j
    BY <1>2, <2>1
  <2>3. (j > i => End(i) <= j) /\ (i > j => End(j) <= i)
    BY <1>3, <1>4, <2>1
  <2>4. found[r].end <= j \/ found[q].end <= i
    BY <2>1, <2>2, <2>3
  <2> QED
    BY <2>4 DEF Apart, i, j
<1>9. ASSUME NEW r \in DOMAIN found
      PROVE  /\ r \in RuleOf[text[found[r].start]]
             /\ found[r].end - found[r].start \in MinSection..MaxSection
             /\ ~\E k \in (found[r].start + 1)..(found[r].end - 1) :
                   text[k] \in {"item", "contents", "DEBT", "debt"}
  <2> DEFINE i == found[r].start
  <2>1. /\ i \in 1..n /\ r \in RuleOf[text[i]] /\ found[r].end = End(i)
        /\ End(i) - i >= MinSection /\ ~LooksLikeContents(text, i, End(i))
    BY <1>6, <1>7
  <2> HIDE DEF i
  <2>2. \A k \in i..(End(i) - 1) : text[k] # "contents"
    BY <2>1 DEF LooksLikeContents
  <2> HIDE DEF End, heads, bounds
  <2>3. End(i) \in Nat /\ End(i) <= n + 1 /\ End(i) <= i + MaxSection
    BY <1>3, <2>1
  <2>4. \A k \in (i + 1)..(End(i) - 1) : k \in 1..n /\ k > i /\ k < End(i)
    BY <2>1, <2>3
  <2>5. \A k \in 1..n : text[k] \in {"DEBT", "debt"} => k \in heads
    BY <1>2 DEF heads, HeadingCandidates
  <2>6. \A k \in (i + 1)..(End(i) - 1) : text[k] \notin {"item", "contents", "DEBT", "debt"}
    <3> SUFFICES ASSUME NEW k \in (i + 1)..(End(i) - 1),
                        text[k] \in {"item", "DEBT", "debt"}
                 PROVE  FALSE
      BY <2>1, <2>2, <2>3
    <3>1. k \in bounds
      BY <1>4, <2>4, <2>5
    <3>2. End(i) <= k
      BY <1>3, <2>1, <2>4, <3>1
    <3> QED
      BY <2>3, <2>4, <3>2
  <2>7. End(i) - i \in MinSection..MaxSection
    BY <1>5, <2>1, <2>3
  <2> QED
    BY <2>1, <2>6, <2>7 DEF i
<1>10. ASSUME NEW r \in SectionRule \ DOMAIN found, NEW i \in 1..n,
              r \in RuleOf[text[i]], periodic /\ r = "risks" => AfterItem(text, i)
       PROVE  \E j \in (i + 1)..(i + MaxSection - 1) :
                \/ j > n
                \/ text[j] \in {"item", "contents"} \/ RuleOf[text[j]] # {}
  <2>1. i \in heads
    BY <1>2, <1>10 DEF HeadingCandidates
  <2>2. SubstantiveSections(text, periodic, r) = {}
    BY <1>10 DEF ChangeSections, PreferredSections
  <2>3. End(i) - i < MinSection \/ LooksLikeContents(text, i, End(i))
    <3>1. ~(End(i) - i >= MinSection /\ ~LooksLikeContents(text, i, End(i)))
      BY <1>10, <2>1, <2>2 DEF SubstantiveSections
    <3> HIDE DEF End, heads, bounds
    <3>2. End(i) \in Nat
      BY <1>3
    <3> QED
      BY <1>5, <3>1, <3>2
  <2>4. CASE End(i) - i < MinSection
    <3> HIDE DEF End
    <3>1. End(i) \in (i + 1)..(i + MaxSection - 1) /\ End(i) # i + MaxSection
      BY <1>3, <1>5, <2>4
    <3>2. End(i) \in bounds
      BY <1>3, <3>1
    <3>3. \A b \in heads : RuleOf[text[b]] # {}
      BY DEF HeadingCandidates
    <3>4. End(i) > n \/ text[End(i)] = "item" \/ RuleOf[text[End(i)]] # {}
      BY <1>4, <3>2, <3>3
    <3> QED
      BY <3>1, <3>4
  <2>5. CASE LooksLikeContents(text, i, End(i))
    <3>1. PICK k \in i..(End(i) - 1) : text[k] = "contents"
      BY <2>5 DEF LooksLikeContents
    <3>2. k # i
      BY <1>2, <1>10, <3>1
    <3> HIDE DEF End
    <3>3. k \in (i + 1)..(i + MaxSection - 1)
      BY <1>3, <1>5, <3>1, <3>2
    <3> QED
      BY <3>1, <3>3
  <2> QED
    BY <2>3, <2>4, <2>5
<1> HIDE DEF found
<1> QED
  BY <1>1, <1>2, <1>8, <1>9, <1>10 DEF ChangeSectionsAreDisjoint

(* The sections of the evidence budget.                                      *)
LEMMA BudgetSectionsStand ==
  ASSUME NEW n \in Nat, NEW text \in [1..n -> Token], ExtractBudgetSections(text)
  PROVE  BudgetSectionsAreDisjoint'
<1> DEFINE found == BudgetSections(text)
           items == {i \in DOMAIN text : text[i] = "item"}
           loose == LooseHeadings(text)
           explicit == ExplicitHeadings(text)
<1>1. sectioning'.op = "budget" /\ sectioning'.text = text /\ sectioning'.result = found
  BY DEF ExtractBudgetSections
<1>2. /\ Len(text) = n /\ DOMAIN text = 1..n
      /\ \A i \in 1..n : text[i] = "item" => RuleOf[text[i]] = {}
  BY TextFacts
<1>3. \A B \in SUBSET (1..n), i \in 1..n :
        /\ NextBoundary(text, B, i) \in (i + 1)..(n + 1)
        /\ \A b \in B : b > i => NextBoundary(text, B, i) <= b
  <2> SUFFICES ASSUME NEW B \in SUBSET (1..n), NEW i \in 1..n
               PROVE  /\ NextBoundary(text, B, i) \in (i + 1)..(n + 1)
                      /\ \A b \in B : b > i => NextBoundary(text, B, i) <= b
    OBVIOUS
  <2> DEFINE S == {b \in B : b > i} \cup {n + 1}
  <2>1. NextBoundary(text, B, i) = Min(S)
    BY <1>2 DEF NextBoundary
  <2>2. S \subseteq Nat /\ S # {}
    <3>1. \A x \in S : x \in Nat
      OBVIOUS
    <3>2. n + 1 \in S
      OBVIOUS
    <3> HIDE DEF S
    <3> QED
      BY <3>1, <3>2
  <2>3. Min(S) \in S /\ \A y \in S : Min(S) <= y
    BY <2>2, MinOfNaturals
  <2>4. \A x \in S : x \in (i + 1)..(n + 1)
    OBVIOUS
  <2>5. \A b \in B : b > i => b \in S
    OBVIOUS
  <2> HIDE DEF S
  <2> QED
    BY <2>1, <2>3, <2>4, <2>5
<1>4. items \subseteq 1..n /\ loose \subseteq 1..n /\ explicit \subseteq loose
  BY <1>2 DEF LooseHeadings, ExplicitHeadings
<1>5. CASE explicit # {}
  <2> DEFINE Section(i) == [start |-> i - 1, end |-> NextBoundary(text, items, i)]
  <2>1. found = {Section(i) : i \in explicit}
    BY <1>5 DEF BudgetSections
  <2>2. \A j \in explicit : j - 1 \in items /\ \A i \in explicit : j - 1 # i
    BY <1>2 DEF ExplicitHeadings, AfterItem
  <2> HIDE DEF items, loose, explicit
  <2>3. \A i, j \in explicit : i < j => NextBoundary(text, items, i) <= j - 1
    <3> SUFFICES ASSUME NEW i \in explicit, NEW j \in explicit, i < j
                 PROVE  NextBoundary(text, items, i) <= j - 1
      OBVIOUS
    <3>1. i \in 1..n /\ j \in 1..n
      BY <1>4
    <3>2. j - 1 \in items /\ j - 1 > i
      BY <2>2, <3>1
    <3> QED
      BY <1>3, <1>4, <3>1, <3>2
  <2>4. \A i, j \in explicit : i # j => Apart(Section(i), Section(j))
    BY <1>4, <2>3 DEF Apart
  <2>5. \A i \in explicit : Section(i).start < Section(i).end
    BY <1>3, <1>4
  <2> HIDE DEF Section
  <2>6. \A x, y \in found : x # y => Apart(x, y)
    BY <2>1, <2>4
  <2>7. (\A x \in found : x.start < x.end) /\ found # {}
    BY <1>5, <2>1, <2>5
  <2> HIDE DEF found
  <2> QED
    BY <1>1, <2>6, <2>7 DEF BudgetSectionsAreDisjoint
<1>6. CASE explicit = {}
  <2> DEFINE B == items \cup loose
             Section(i) == [start |-> i, end |-> NextBoundary(text, B, i)]
  <2>1. found = {Section(i) : i \in loose}
    BY <1>6 DEF BudgetSections
  <2> HIDE DEF items, loose, explicit
  <2>2. B \in SUBSET (1..n) /\ loose \subseteq B
    BY <1>4
  <2> HIDE DEF B
  <2>3. \A i, j \in loose : i < j => NextBoundary(text, B, i) <= j
    BY <1>3, <1>4, <2>2
  <2>4. \A i, j \in loose : i # j => Apart(Section(i), Section(j))
    BY <1>4, <2>3 DEF Apart
  <2>5. \A i \in loose : Section(i).start < Section(i).end
    BY <1>3, <1>4, <2>2
  <2> HIDE DEF Section
  <2>6. \A x, y \in found : x # y => Apart(x, y)
    BY <2>1, <2>4
  <2>7. (\A x \in found : x.start < x.end) /\ (loose # {} => found # {})
    BY <2>1, <2>5
  <2> HIDE DEF found
  <2> QED
    BY <1>1, <2>6, <2>7 DEF BudgetSectionsAreDisjoint, loose
<1> QED
  BY <1>5, <1>6

(* Whatever a filing's text, the sections extract_filing_change_sections and *)
(* the evidence budget cut it into do not overlap, hold no other heading,    *)
(* and are missing only where every heading is short or in the contents.     *)
THEOREM SectionsDisjoint == SectionSpec => []SectionsAreDisjoint
<1>1. SectionInit => SectionsAreDisjoint
  BY DEF SectionInit, NoSectioning, SectionsAreDisjoint, ChangeSectionsAreDisjoint,
         BudgetSectionsAreDisjoint
<1>2. SectionsAreDisjoint /\ [SectionNext]_sectionVars => SectionsAreDisjoint'
  <2> SUFFICES ASSUME SectionsAreDisjoint, [SectionNext]_sectionVars
               PROVE  SectionsAreDisjoint'
    OBVIOUS
  <2>1. CASE SectionReturn
    BY <2>1 DEF SectionReturn, NoSectioning, SectionsAreDisjoint, ChangeSectionsAreDisjoint,
                BudgetSectionsAreDisjoint
  <2>2. CASE UNCHANGED sectionVars
    BY <2>2 DEF sectionVars, SectionsAreDisjoint, ChangeSectionsAreDisjoint,
                BudgetSectionsAreDisjoint
  <2>3. ASSUME NEW n \in 0..MaxTokens, NEW text \in [1..n -> Token],
               NEW periodic \in BOOLEAN, ExtractChangeSections(text, periodic)
        PROVE  SectionsAreDisjoint'
    <3>1. n \in Nat
      BY SectionAssumption
    <3>2. ChangeSectionsAreDisjoint'
      BY <2>3, <3>1, ChangeSectionsStand
    <3>3. BudgetSectionsAreDisjoint'
      BY <2>3 DEF ExtractChangeSections, BudgetSectionsAreDisjoint
    <3> QED
      BY <3>2, <3>3 DEF SectionsAreDisjoint
  <2>4. ASSUME NEW n \in 0..MaxTokens, NEW text \in [1..n -> Token], ExtractBudgetSections(text)
        PROVE  SectionsAreDisjoint'
    <3>1. n \in Nat
      BY SectionAssumption
    <3>2. BudgetSectionsAreDisjoint'
      BY <2>4, <3>1, BudgetSectionsStand
    <3>3. ChangeSectionsAreDisjoint'
      BY <2>4 DEF ExtractBudgetSections, ChangeSectionsAreDisjoint
    <3> QED
      BY <3>2, <3>3 DEF SectionsAreDisjoint
  <2> QED
    BY <2>1, <2>2, <2>3, <2>4 DEF SectionNext
<1> QED
  BY <1>1, <1>2, PTL DEF SectionSpec

-----------------------------------------------------------------------------
(* The union of the components, as TLC runs it                               *)

(* A behaviour of the union is one of every component: what is proved of a   *)
(* component's own specification holds of the union.                         *)
THEOREM PartsKeepTheirSpecifications ==
  Spec => /\ GovernorSpec /\ RoutingSpec /\ ReuseSpec /\ FcSpec /\ EvidenceSpec /\ SectionSpec
          /\ NoveltySpec /\ ConvergenceSpec /\ FinancingSpec /\ AccountingSpec /\ WebSpec
          /\ PdSpec /\ SgSpec /\ SciSpec /\ MeSpec
<1>1. Init => /\ GovernorInit /\ RoutingInit /\ ReuseInit /\ FcInit /\ EvidenceInit /\ SectionInit
              /\ NoveltyInit /\ ConvergenceInit /\ FinancingInit /\ AccountingInit /\ WebInit
              /\ PdInit /\ SgInit /\ SciInit /\ MeInit
  BY DEF Init
<1>2. [Next]_vars =>
        /\ [GovernorNext]_govVars /\ [RoutingNext]_routingVars /\ [ReuseNext]_reuseVars /\ [FcNext]_fcVars
        /\ [EvidenceNext]_evidenceVars /\ [SectionNext]_sectionVars
  BY DEF Next, vars, routingVars, reuseVars, evidenceVars, sectionVars
<1>3. [Next]_vars =>
        /\ [NoveltyNext]_noveltyVars /\ [ConvergenceNext]_convergenceVars
        /\ [FinancingNext]_financingVars /\ [AccountingNext]_accountingVars /\ [WebNext]_webVars
  BY DEF Next, vars, financingVars
<1>4. [Next]_vars => [PdNext]_pdVars /\ [SgNext]_sgVars /\ [SciNext]_sciVars /\ [MeNext]_meVars
  BY DEF Next, vars
<1> QED
  BY <1>1, <1>2, <1>3, <1>4, PTL
     DEF Spec, GovernorSpec, RoutingSpec, ReuseSpec, FcSpec, EvidenceSpec, SectionSpec,
         NoveltySpec, ConvergenceSpec, FinancingSpec, AccountingSpec, WebSpec, PdSpec, SgSpec,
         SciSpec, MeSpec

(* Every component that keeps state between steps keeps its types, whichever *)
(* one the behaviour runs.                                                   *)
THEOREM ComponentTypesCorrect == Spec => []ComponentTypesOK
<1>1. /\ GovernorTypeOK /\ FcTypeOK /\ NoveltyTypeOK /\ ConvergenceTypeOK
      /\ AccountingTypeOK /\ WebTypeOK /\ ScienceTypeOK /\ MeTypeOK
      => ComponentTypesOK
  BY DEF ComponentTypesOK
<1> QED
  BY <1>1, PartsKeepTheirSpecifications, GovernorTypeCorrect, FilingChangeTypeCorrect,
     NoveltyTypeCorrect, ConvergenceTypeCorrect, AccountingTypeCorrect, WebTypeCorrect,
     ScienceTypeCorrect, MeasurementsTypeCorrect, PTL

(* What TLC checks of the union holds for every value of the constants: the  *)
(* invariant of each component, whichever one the behaviour runs.            *)
THEOREM ComponentsSound ==
  Spec => [](/\ AdmissionIsEarned /\ RoutingIsJustified /\ ReuseLosesNothing
             /\ FilingChangesAreSound /\ ShownEvidenceIsSound /\ SectionsAreDisjoint
             /\ NoveltyStands /\ ConvergenceIsSound /\ FinancingIsTraceable
             /\ AccountingIsTraceable /\ SessionsAreAccountedFor
             /\ PredictionsAreAccountedFor /\ SignalIsSupported /\ ScienceIsSound
             /\ MeasurementsAreHonest)
BY PartsKeepTheirSpecifications, AdmissionSafe, RoutingJustified, ReuseSafe,
   FilingChangesSound, EvidenceSound, SectionsDisjoint, NoveltySafe, ConvergenceSound,
   FinancingTraceable, AccountingTraceable, SessionsAccounted, PredictionsAccountedFor,
   SignalSupported, ScienceSound, MeasurementsHonest, PTL
=============================================================================
