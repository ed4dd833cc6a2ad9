----------------------------- MODULE EventNovelty -----------------------------
(***************************************************************************)
(* Which event a filing discloses and whether it was disclosed before:      *)
(* forensics/novelty.py, the two ledgers of radar/store.py and the step     *)
(* RadarWorker._apply_event_novelty between extraction and the tier choice. *)
(*                                                                          *)
(* One issuer, one category, current events only: what the worker extracts. *)
(* A filing's disclosure is its set of entities and its set of material     *)
(* facts (dates and numeric facts with their comparator and basis); the     *)
(* fingerprints are functions of them.  published_at is always unknown.     *)
(***************************************************************************)
EXTENDS Naturals, FiniteSets

CONSTANTS
  NvFiling,        (* filings with a partnership disclosure, as 1..n: the    *)
                   (* number stands for the disclosure identity              *)
  NvEntities,      (* the entities each one names                            *)
  NvFacts,         (* the dates and numbers each one states                  *)
  NvWorker,        (* processes                                              *)
  NvPriorLimit,    (* the LIMIT 64 of event_disclosures                      *)
  MaxNvClock       (* bound: retrievals                                      *)

ASSUME NoveltyAssumption ==
  /\ NvFiling \subseteq Nat /\ NvPriorLimit \in Nat \ {0} /\ MaxNvClock \in Nat
  /\ \A f \in NvFiling : Cardinality(NvEntities[f]) >= 2

VARIABLES
  nvStored,        (* research_event_disclosures: when retrieved, 0 if absent *)
  nvLineage,       (* research_event_lineage                                 *)
  nvWork,          (* what each process is doing                             *)
  nvClock          (* the last retrieval                                     *)

noveltyVars == <<nvStored, nvLineage, nvWork, nvClock>>

(* A decision's prior and first known disclosure: a set of none or one.      *)
NvAbsent == [disposition |-> "none", prior |-> {}, first |-> {}]
NvIdle == [pc |-> "idle", filing |-> 0, retrieved |-> 0, decision |-> NvAbsent]

-----------------------------------------------------------------------------
(* The comparison *)

NvDisclosed == {f \in NvFiling : nvStored[f] > 0}

(* _source_order_key                                                         *)
SourceOrder(f, g) ==
  nvStored[f] < nvStored[g] \/ (nvStored[f] = nvStored[g] /\ f < g)

(* event_disclosures: the oldest ones of the other source documents.         *)
EventDisclosures(f) ==
  LET others == NvDisclosed \ {f}
  IN {g \in others : Cardinality({h \in others : SourceOrder(h, g)}) < NvPriorLimit}

StrictSubset(s, t) == s \subseteq t /\ s # t

(* event_fingerprints: the identity of an event, apart from its facts.       *)
EventFingerprint(f) == NvEntities[f]

EventsAreRelated(g, f) ==
  \/ EventFingerprint(g) = EventFingerprint(f)
  \/ StrictSubset(NvEntities[g], NvEntities[f])

EventsOverlapAmbiguously(g, f) == NvEntities[g] \cap NvEntities[f] # {}

EntitiesOnly(g, f) == NvEntities[f] \ NvEntities[g] # {}

HasNewMaterialFacts(g, f) ==
  NvEntities[f] \ NvEntities[g] # {} \/ NvFacts[f] \ NvFacts[g] # {}

(* _first_known: with no publication time, only a single disclosure is one.  *)
FirstKnown(related) == IF Cardinality(related) = 1 THEN related ELSE {}

Latest(related) == {g \in related : \A h \in related \ {g} : SourceOrder(h, g)}

(* classify_event_novelty with prior_search_complete false: nothing is ever  *)
(* called new.  A historical context and a duplicate of the same document    *)
(* are not reached from the worker, which excludes both.                     *)
ClassifyEventNovelty(f, priors) ==
  LET related == {g \in priors : EventsAreRelated(g, f)} IN
  IF related # {}
  THEN [disposition |-> IF \E g \in Latest(related) : ~HasNewMaterialFacts(g, f)
                        THEN "RECAP_EXISTING_EVENT" ELSE "MATERIAL_UPDATE",
        prior |-> Latest(related), first |-> FirstKnown(related)]
  ELSE IF \E g \in priors : EventsOverlapAmbiguously(g, f)
       THEN [disposition |-> "AMBIGUOUS", prior |-> {}, first |-> {}]
       ELSE [disposition |-> "INCOMPLETE", prior |-> {}, first |-> {}]

(* What makes the worker cut the disclosure's quote from the text.           *)
Withheld(decision) == decision.disposition = "RECAP_EXISTING_EVENT"

-----------------------------------------------------------------------------
(* The worker *)

(* The document is retrieved and one disclosure is extracted from it.        *)
NvRetrieve(w, f) ==
  /\ nvWork[w].pc = "idle" /\ nvClock < MaxNvClock
  /\ nvClock' = nvClock + 1
  /\ nvWork' = [nvWork EXCEPT ![w] = [pc |-> "listing", filing |-> f,
                                      retrieved |-> nvClock + 1, decision |-> NvAbsent]]
  /\ UNCHANGED <<nvStored, nvLineage>>

(* event_disclosures and the classification.                                 *)
NvClassify(w) ==
  LET f == nvWork[w].filing IN
  /\ nvWork[w].pc = "listing"
  /\ nvWork' = [nvWork EXCEPT ![w].pc = "appending",
                  ![w].decision = ClassifyEventNovelty(f, EventDisclosures(f))]
  /\ UNCHANGED <<nvStored, nvLineage, nvClock>>

(* The decision a stored lineage answers with.                               *)
StoredDecision(w) == nvLineage[nvWork[w].filing]

(* append_event_lineage: the first decision on the lineage stands.           *)
NvReadLineage(w) ==
  LET f == nvWork[w].filing IN
  /\ nvWork[w].pc = "appending"
  /\ nvWork' = IF nvLineage[f] # NvAbsent
               THEN [nvWork EXCEPT ![w].pc = "returned", ![w].decision = StoredDecision(w)]
               ELSE [nvWork EXCEPT ![w].pc = "inserting"]
  /\ UNCHANGED <<nvStored, nvLineage, nvClock>>

(* _insert_event_disclosure: the same identity with another retrieval time   *)
(* is a different record.                                                    *)
ReplayConflicts(w) == nvStored[nvWork[w].filing] \notin {0, nvWork[w].retrieved}

(* The inserts and the commit.  A second process waits for the first one's   *)
(* commit on the disclosure's key: EventNoveltyReplayConflict, which fails   *)
(* the attempt.                                                              *)
NvInsertLineage(w) ==
  LET f == nvWork[w].filing IN
  /\ nvWork[w].pc = "inserting"
  /\ IF ReplayConflicts(w)
     THEN nvWork' = [nvWork EXCEPT ![w].pc = "failed"] /\ UNCHANGED <<nvStored, nvLineage>>
     ELSE /\ nvStored' = [nvStored EXCEPT ![f] = nvWork[w].retrieved]
          /\ nvLineage' = [nvLineage EXCEPT ![f] = nvWork[w].decision]
          /\ nvWork' = [nvWork EXCEPT ![w].pc = "returned"]
  /\ UNCHANGED nvClock

(* The attempt goes on to the tier choice, or fails; either way the process  *)
(* comes back, for this filing (a retry) or for another.                     *)
NvNextAttempt(w) ==
  /\ nvWork[w].pc \in {"returned", "failed"}
  /\ nvWork' = [nvWork EXCEPT ![w] = NvIdle]
  /\ UNCHANGED <<nvStored, nvLineage, nvClock>>

NvCrash(w) ==
  /\ nvWork[w].pc \in {"listing", "appending", "inserting"}
  /\ nvWork' = [nvWork EXCEPT ![w] = NvIdle]
  /\ UNCHANGED <<nvStored, nvLineage, nvClock>>

NoveltyInit ==
  /\ nvStored = [f \in NvFiling |-> 0]
  /\ nvLineage = [f \in NvFiling |-> NvAbsent]
  /\ nvWork = [w \in NvWorker |-> NvIdle]
  /\ nvClock = 0

NoveltyNext ==
  \E w \in NvWorker :
    \/ \E f \in NvFiling : NvRetrieve(w, f)
    \/ NvClassify(w) \/ NvReadLineage(w) \/ NvInsertLineage(w)
    \/ NvNextAttempt(w) \/ NvCrash(w)

NoveltySpec == NoveltyInit /\ [][NoveltyNext]_noveltyVars

-----------------------------------------------------------------------------
(* Properties *)

NoveltyTypeOK ==
  /\ nvClock \in 0..MaxNvClock
  /\ nvStored \in [NvFiling -> 0..MaxNvClock]
  /\ \A f \in NvFiling : nvLineage[f].prior \subseteq NvFiling \ {f}
  /\ \A w \in NvWorker : nvWork[w].filing \in NvFiling \cup {0}

(* Withholding loses nothing: a filing whose quote is cut as a recap has the *)
(* entities and only facts of another filing that was decided before it and  *)
(* whose own quote was not cut, however many recaps lie between them, in     *)
(* whatever order the two processes list and append (_apply_event_novelty,   *)
(* append_event_lineage).                                                    *)
WithheldFactsWereShown ==
  \A f \in NvFiling : Withheld(nvLineage[f]) =>
    \E g \in NvFiling \ {f} :
      /\ nvLineage[g] # NvAbsent /\ ~Withheld(nvLineage[g])
      /\ NvEntities[g] = NvEntities[f] /\ NvFacts[f] \subseteq NvFacts[g]

(* Every attempt on a filing, a retry after a crash or a second live process *)
(* included, goes on with the decision the ledger holds (append_event_lineage: *)
(* "returning the first immutable decision on a stable retry").              *)
AttemptsShareTheDecision ==
  \A w \in NvWorker : nvWork[w].pc = "returned" =>
    nvWork[w].decision = nvLineage[nvWork[w].filing]

(* The ledgers are append-only and grow together: a decision is never        *)
(* changed, and a disclosure is there exactly when its decision is.          *)
LineageIsAppendOnly ==
  [][\A f \in NvFiling :
       /\ nvLineage[f] # NvAbsent => nvLineage'[f] = nvLineage[f] /\ nvStored'[f] = nvStored[f]
       /\ nvStored'[f] > 0 <=> nvLineage'[f] # NvAbsent]_noveltyVars

(* Nothing is withheld that was not shown, and all attempts on a filing go   *)
(* on with the one decision of the ledger.                                   *)
NoveltyStands == WithheldFactsWereShown /\ AttemptsShareTheDecision
=============================================================================
