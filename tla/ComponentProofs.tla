--------------------------- MODULE ComponentProofs ---------------------------
(***************************************************************************)
(* Proofs about the components that share no state with one another, each   *)
(* for every value of its constants: the resource governor, event novelty,  *)
(* compute routing, analysis reuse, web sessions, accounting events,        *)
(* measurements, outcome science, predictions, source convergence and       *)
(* signals.                                                                 *)
(***************************************************************************)
EXTENDS ResourceGovernor, EventNovelty, ComputeRouting, AnalysisReuse, WebSessions,
        AccountingEvents, Measurements, OutcomeScience, Predictions, Convergence, Signals,
        SequenceTheorems, InductionLemmas, TLAPS

(* A set of naturals has a least element, and Min is it.                     *)
LEMMA MinOfNaturals ==
  ASSUME NEW S \in SUBSET Nat, S # {}
  PROVE  Min(S) \in S /\ \A y \in S : Min(S) <= y
<1> PICK x \in S : \A y \in S : x <= y
  BY LeastNatural
<1> QED
  BY DEF Min

-----------------------------------------------------------------------------
(* The resource governor: for every set of sensors, every swap size, growth  *)
(* limit and number of observations recovery requires.                       *)

(* Before the first receipt nothing is admitted.                            *)
NothingBeforeReceipts == govMode = "none" => govAdmits = 0 /\ govStreak = 0

(* A receipt that counts towards recovery, or follows one, knew its swap:   *)
(* the next one can compare with it.                                        *)
CountedSwapIsKnown == govStreak > 0 \/ govMode = "active" => govSwap # Missing

GovernorInv ==
  GovernorTypeOK /\ AdmissionIsEarned /\ ReceiptsReconcile
    /\ NothingBeforeReceipts /\ CountedSwapIsKnown

LEMMA GovernorInvInit == GovernorInit => GovernorInv
<1> SUFFICES ASSUME GovernorInit PROVE GovernorInv
  OBVIOUS
<1>1. GovernorTypeOK
  <2>1. govActive \in BOOLEAN /\ swapSteady \in BOOLEAN
    BY DEF GovernorInit
  <2> QED
    BY <2>1, GovernorAssumption DEF GovernorInit, GovernorTypeOK, GovernorActions, Missing
<1>2. AdmissionIsEarned /\ ReceiptsReconcile /\ NothingBeforeReceipts /\ CountedSwapIsKnown
  BY DEF GovernorInit, AdmissionIsEarned, ReceiptsReconcile, NothingBeforeReceipts,
         CountedSwapIsKnown
<1> QED
  BY <1>1, <1>2 DEF GovernorInv

(* What can block an inference is a reason the contract knows.              *)
LEMMA BlockersAreReasons ==
  ASSUME NEW o \in HostObservation
  PROVE  BlockingReasons(o) \subseteq GovernorBlockReasons
BY GovernorAssumption DEF BlockingReasons, GovernorBlockReasons, BlockReason

(* An observation that nothing blocks was compared with its predecessor:    *)
(* its swap is known, and grew by less than the limit if the earlier one is *)
(* known too.                                                               *)
LEMMA UnblockedIsSteady ==
  ASSUME NEW o \in HostObservation, BlockingReasons(o) = {}
  PROVE  /\ o.swap # Missing /\ govMode # "none" /\ ~SwapGrew(o) /\ BaselineValid(o)
<1>1. ~SensorMissing(o) /\ BaselineValid(o) /\ ~SwapGrew(o)
  BY DEF BlockingReasons
<1> QED
  BY <1>1 DEF SensorMissing, BaselineValid

-----------------------------------------------------------------------------
(* The inductive step *)

(* The four decisions, each with what it makes of the receipt.              *)
LEMMA GovernorStep ==
  ASSUME GovernorInv, NEW o \in HostObservation, Observe(o)
  PROVE  GovernorInv'
<1> USE GovernorAssumption
<1> DEFINE blockers == BlockingReasons(o)
<1>1. /\ govBlockers' \subseteq GovernorBlockReasons
      /\ govActive' = o.active /\ govSwap' = o.swap
      /\ swapSteady' \in BOOLEAN
  BY BlockersAreReasons DEF Observe
<1>2. govActive' \in BOOLEAN /\ govSwap' \in {Missing} \cup 0..MaxSwap
  BY <1>1 DEF HostObservation
<1>3. goodStreak' \in 0..RecoveryRequired
  BY DEF Observe, GovernorInv, GovernorTypeOK
<1>4. CASE blockers # {} /\ GovernorDefer(o)
  <2>1. /\ govMode' = "deferred" /\ govAction' = "defer_new_inference" /\ govStreak' = 0
        /\ govDeferredAt' \in {"now", "earlier"} /\ govAdmits' = 0
        /\ govAdvisories' \subseteq GovernorAdvisories
    BY <1>4 DEF GovernorDefer, GovernorDecide, QueueAdvisories, GovernorAdvisories
  <2>2. goodStreak' = 0
    BY <1>4 DEF Observe
  <2>3. GovernorTypeOK'
    BY <1>1, <1>2, <1>3, <2>1 DEF GovernorTypeOK, GovernorActions
  <2>4. AdmissionIsEarned' /\ ReceiptsReconcile' /\ NothingBeforeReceipts'
    BY <2>1, <2>2 DEF AdmissionIsEarned, ReceiptsReconcile, NothingBeforeReceipts,
                      GovernorReceiptReconciles
  <2>5. CountedSwapIsKnown'
    BY <2>1 DEF CountedSwapIsKnown
  <2> QED
    BY <2>3, <2>4, <2>5 DEF GovernorInv
<1>5. CASE blockers = {} /\ GovernorRecovering /\ CoolDown(o)
  <2>1. /\ govMode' = "deferred" /\ govAction' = "cooldown" /\ govStreak' = govStreak + 1
        /\ govDeferredAt' = "earlier" /\ govAdmits' = 0 /\ govStreak + 1 < RecoveryRequired
        /\ govAdvisories' \subseteq GovernorAdvisories
    BY <1>5 DEF CoolDown, GovernorDecide, QueueAdvisories, GovernorAdvisories
  <2>2. govStreak = goodStreak /\ goodStreak < RecoveryRequired /\ govStreak \in Nat
    BY <1>5 DEF GovernorInv, GovernorTypeOK, AdmissionIsEarned, GovernorRecovering
  <2>3. goodStreak' = goodStreak + 1
    BY <1>5, <2>2 DEF Observe
  <2>4. GovernorTypeOK'
    BY <1>1, <1>2, <1>3, <2>1, <2>2 DEF GovernorTypeOK, GovernorActions
  <2>5. AdmissionIsEarned' /\ ReceiptsReconcile' /\ NothingBeforeReceipts'
    BY <2>1, <2>2, <2>3 DEF AdmissionIsEarned, ReceiptsReconcile, NothingBeforeReceipts,
                            GovernorReceiptReconciles
  <2>6. CountedSwapIsKnown'
    BY <1>1, <1>5, UnblockedIsSteady DEF CountedSwapIsKnown
  <2> QED
    BY <2>4, <2>5, <2>6 DEF GovernorInv
<1>6. CASE blockers = {} /\ GovernorRecovering /\ GovernorResume(o)
  <2>1. /\ govMode' = "active" /\ govStreak' = govStreak + 1 /\ govDeferredAt' = "none"
        /\ govAction' = IF o.active THEN "hold_single_flight" ELSE "resume_inference"
        /\ govAdmits' = IF o.active THEN 0 ELSE 1
        /\ govStreak + 1 >= RecoveryRequired
        /\ govAdvisories' \subseteq GovernorAdvisories
    BY <1>6 DEF GovernorResume, GovernorDecide, QueueAdvisories, GovernorAdvisories
  <2>2. /\ govStreak = goodStreak /\ goodStreak < RecoveryRequired /\ govStreak \in Nat
    BY <1>6 DEF GovernorInv, GovernorTypeOK, AdmissionIsEarned, GovernorRecovering
  <2>3. goodStreak' = RecoveryRequired /\ govStreak' = RecoveryRequired /\ govStreak > 0
    BY <1>6, <2>1, <2>2 DEF Observe
  <2>4. o.swap # Missing /\ govSwap # Missing /\ ~SwapGrew(o) /\ BaselineValid(o)
    BY <1>6, <2>3, UnblockedIsSteady DEF GovernorInv, CountedSwapIsKnown
  <2>5. swapSteady'
    <3>1. o.swap - govSwap < MaximumSwapGrowth
      <4>1. o.swap \in Int /\ govSwap \in Int
        BY <1>1, <1>2 DEF GovernorInv, GovernorTypeOK, Missing
      <4> QED
        BY <4>1, <2>4 DEF SwapGrew
    <3> QED
      BY <3>1, <2>4, Zenon DEF Observe
  <2>6. GovernorTypeOK'
    BY <1>1, <1>2, <1>3, <2>1, <2>3 DEF GovernorTypeOK, GovernorActions
  <2>7. AdmissionIsEarned'
    BY <1>1, <1>2, <2>1, <2>3, <2>5 DEF AdmissionIsEarned
  <2>8. ReceiptsReconcile' /\ NothingBeforeReceipts'
    BY <1>1, <1>2, <2>1, <2>3 DEF ReceiptsReconcile, NothingBeforeReceipts,
                                   GovernorReceiptReconciles
  <2>9. CountedSwapIsKnown'
    BY <1>1, <2>4 DEF CountedSwapIsKnown
  <2> QED
    BY <2>6, <2>7, <2>8, <2>9 DEF GovernorInv
<1>7. CASE blockers = {} /\ ~GovernorRecovering /\ StayActive(o)
  <2>1. /\ govMode' = "active" /\ govStreak' = 0 /\ govDeferredAt' = "none"
        /\ govAction' = IF o.active THEN "hold_single_flight" ELSE "proceed_inference"
        /\ govAdmits' = IF o.active THEN 0 ELSE 1
        /\ govAdvisories' \subseteq GovernorAdvisories
    BY <1>7 DEF StayActive, GovernorDecide, QueueAdvisories, GovernorAdvisories
  <2>2. o.swap # Missing /\ govMode # "none" /\ ~SwapGrew(o) /\ BaselineValid(o)
    BY <1>7, UnblockedIsSteady
  <2>3. govMode = "active"
    BY <1>7, <2>2 DEF GovernorInv, GovernorTypeOK, GovernorRecovering
  <2>4. goodStreak = RecoveryRequired /\ govSwap # Missing
    BY <2>3 DEF GovernorInv, AdmissionIsEarned, CountedSwapIsKnown
  <2>5. goodStreak' = RecoveryRequired
    BY <1>7, <2>4 DEF Observe
  <2>6. swapSteady'
    <3>1. o.swap - govSwap < MaximumSwapGrowth
      <4>1. o.swap \in Int /\ govSwap \in Int
        BY <1>1, <1>2 DEF GovernorInv, GovernorTypeOK, Missing
      <4> QED
        BY <4>1, <2>2, <2>4 DEF SwapGrew
    <3> QED
      BY <3>1, <2>2, <2>4, Zenon DEF Observe
  <2>7. GovernorTypeOK'
    BY <1>1, <1>2, <1>3, <2>1 DEF GovernorTypeOK, GovernorActions
  <2>8. AdmissionIsEarned'
    BY <1>1, <1>2, <2>1, <2>5, <2>6 DEF AdmissionIsEarned
  <2>9. ReceiptsReconcile' /\ NothingBeforeReceipts'
    BY <1>1, <1>2, <2>1 DEF ReceiptsReconcile, NothingBeforeReceipts,
                            GovernorReceiptReconciles
  <2>10. CountedSwapIsKnown'
    BY <1>1, <2>2 DEF CountedSwapIsKnown
  <2> QED
    BY <2>7, <2>8, <2>9, <2>10 DEF GovernorInv
<1> QED
  BY <1>4, <1>5, <1>6, <1>7 DEF Observe

LEMMA GovernorInductive == GovernorSpec => []GovernorInv
<1>1. GovernorInv /\ [GovernorNext]_govVars => GovernorInv'
  <2> SUFFICES ASSUME GovernorInv, [GovernorNext]_govVars PROVE GovernorInv'
    OBVIOUS
  <2>1. CASE GovernorNext
    BY <2>1, GovernorStep DEF GovernorNext
  <2>2. CASE UNCHANGED govVars
    BY <2>2 DEF govVars, GovernorInv, GovernorTypeOK, AdmissionIsEarned, ReceiptsReconcile,
                NothingBeforeReceipts, CountedSwapIsKnown, GovernorReceiptReconciles
  <2> QED
    BY <2>1, <2>2
<1> QED
  BY <1>1, GovernorInvInit, PTL DEF GovernorSpec

-----------------------------------------------------------------------------
(* Theorems *)

(* Receipts of the governor are well typed; in particular a recovery streak *)
(* never passes the number of observations required.                        *)
THEOREM GovernorTypeCorrect == GovernorSpec => []GovernorTypeOK
<1>1. GovernorInv => GovernorTypeOK
  BY DEF GovernorInv
<1> QED
  BY <1>1, GovernorInductive, PTL

(* Whatever the host reports, an inference is admitted only by a governor   *)
(* that has seen RecoveryRequired unblocked observations since the last     *)
(* blocked one and has compared the swap of the last two                    *)
(* (decide_resource_governor).                                              *)
THEOREM AdmissionSafe == GovernorSpec => []AdmissionIsEarned
<1>1. GovernorInv => AdmissionIsEarned
  BY DEF GovernorInv
<1> QED
  BY <1>1, GovernorInductive, PTL

(* The receipt contract accepts every decision, so the governor never       *)
(* raises on its own output (ResourceGovernorReceipt.decision_reconciles).  *)
THEOREM DecisionsReconcile == GovernorSpec => []ReceiptsReconcile
<1>1. GovernorInv => ReceiptsReconcile
  BY DEF GovernorInv
<1> QED
  BY <1>1, GovernorInductive, PTL

-----------------------------------------------------------------------------
(* Event novelty: for every set of filings, whatever entities and facts they *)
(* disclose, any number of processes and every limit of the comparison.      *)

NvDecision ==
  [disposition : {"MATERIAL_UPDATE", "RECAP_EXISTING_EVENT", "AMBIGUOUS", "INCOMPLETE"},
   prior : SUBSET NvFiling, first : SUBSET NvFiling]

NvStages == {"idle", "listing", "appending", "inserting", "returned", "failed"}

(* Stages of an attempt that may still append.                              *)
NvOpen == {"listing", "appending", "inserting"}

NvTypes ==
  /\ nvClock \in Nat
  /\ nvStored \in [NvFiling -> Nat]
  /\ nvLineage \in [NvFiling -> NvDecision \cup {NvAbsent}]
  /\ nvWork \in [NvWorker -> [pc : NvStages, filing : NvFiling \cup {0}, retrieved : Nat,
                              decision : NvDecision \cup {NvAbsent}]]

(* An attempt under way has a filing, and past the comparison a decision.   *)
NvHolding ==
  \A w \in NvWorker :
    /\ nvWork[w].pc # "idle" => nvWork[w].filing \in NvFiling
    /\ nvWork[w].pc \in {"appending", "inserting", "returned"} =>
         nvWork[w].decision \in NvDecision

LedgersGrowTogether == \A f \in NvFiling : nvStored[f] > 0 <=> nvLineage[f] # NvAbsent

(* A retrieval time is taken once: no stored disclosure and no other open   *)
(* attempt has that of an open attempt.                                     *)
RetrievalsAreUnique ==
  /\ \A f \in NvFiling : nvStored[f] <= nvClock
  /\ \A w \in NvWorker : nvWork[w].pc \in NvOpen =>
       /\ 0 < nvWork[w].retrieved /\ nvWork[w].retrieved <= nvClock
       /\ \A f \in NvFiling : nvStored[f] # nvWork[w].retrieved
       /\ \A v \in NvWorker \ {w} : nvWork[v].pc \in NvOpen =>
            nvWork[v].retrieved # nvWork[w].retrieved

(* Another filing with these entities and facts was decided and is shown.   *)
ShownElsewhere(f) ==
  \E g \in NvFiling \ {f} :
    /\ nvLineage[g] # NvAbsent /\ ~Withheld(nvLineage[g])
    /\ NvEntities[g] = NvEntities[f] /\ NvFacts[f] \subseteq NvFacts[g]

(* A recap that is still to be appended is shown elsewhere, or comes too    *)
(* late: the filing has its decision.  The witness may be the filing itself *)
(* when a recap of it was decided in between.                               *)
PendingRecapIsShown ==
  \A w \in NvWorker :
    nvWork[w].pc \in {"appending", "inserting"} /\ Withheld(nvWork[w].decision) =>
      nvLineage[nvWork[w].filing] # NvAbsent \/ ShownElsewhere(nvWork[w].filing)

NvInv ==
  /\ NvTypes /\ NvHolding /\ LedgersGrowTogether /\ RetrievalsAreUnique
  /\ AttemptsShareTheDecision /\ WithheldFactsWereShown /\ PendingRecapIsShown

LEMMA NvInvInit == NoveltyInit => NvInv
BY DEF NoveltyInit, NvInv, NvTypes, NvHolding, LedgersGrowTogether, RetrievalsAreUnique,
       AttemptsShareTheDecision, WithheldFactsWereShown, PendingRecapIsShown, NvIdle, NvAbsent,
       NvStages, NvOpen, Withheld

-----------------------------------------------------------------------------
(* The comparison *)

LEMMA DecisionIsNotAbsent == NvAbsent \notin NvDecision
BY DEF NvAbsent, NvDecision

(* The classification is a decision.                                        *)
LEMMA ClassificationIsDecision ==
  ASSUME NEW f \in NvFiling
  PROVE  ClassifyEventNovelty(f, EventDisclosures(f)) \in NvDecision
<1> DEFINE related == {g \in EventDisclosures(f) : EventsAreRelated(g, f)}
<1>1. related \subseteq NvFiling
  BY DEF EventDisclosures, NvDisclosed
<1>2. Latest(related) \subseteq NvFiling /\ FirstKnown(related) \subseteq NvFiling
  BY <1>1 DEF Latest, FirstKnown
<1> QED
  BY <1>2 DEF ClassifyEventNovelty, NvDecision

(* A recap repeats a filing that has a decision.                            *)
LEMMA RecapRepeats ==
  ASSUME NvInv, NEW f \in NvFiling, Withheld(ClassifyEventNovelty(f, EventDisclosures(f)))
  PROVE  \E g \in NvFiling \ {f} :
           /\ nvLineage[g] # NvAbsent
           /\ NvEntities[g] = NvEntities[f] /\ NvFacts[f] \subseteq NvFacts[g]
<1> DEFINE related == {g \in EventDisclosures(f) : EventsAreRelated(g, f)}
<1>1. \E g \in Latest(related) : ~HasNewMaterialFacts(g, f)
  BY DEF Withheld, ClassifyEventNovelty
<1>2. PICK g \in Latest(related) : ~HasNewMaterialFacts(g, f)
  BY <1>1
<1>3. g \in EventDisclosures(f) /\ EventsAreRelated(g, f)
  BY <1>2 DEF Latest
<1>4. g \in NvFiling \ {f} /\ nvStored[g] > 0
  BY <1>3 DEF EventDisclosures, NvDisclosed
<1>5. NvEntities[f] \subseteq NvEntities[g] /\ NvFacts[f] \subseteq NvFacts[g]
  BY <1>2 DEF HasNewMaterialFacts
<1>6. NvEntities[g] = NvEntities[f]
  BY <1>3, <1>5 DEF EventsAreRelated, EventFingerprint, StrictSubset
<1>7. nvLineage[g] # NvAbsent
  BY <1>4 DEF NvInv, LedgersGrowTogether
<1> QED
  BY <1>4, <1>5, <1>6, <1>7

(* ... and what was withheld of that one was shown by another.              *)
LEMMA RecapWasShown ==
  ASSUME NvInv, NEW f \in NvFiling, Withheld(ClassifyEventNovelty(f, EventDisclosures(f)))
  PROVE  nvLineage[f] # NvAbsent \/ ShownElsewhere(f)
<1>1. PICK g \in NvFiling \ {f} :
        /\ nvLineage[g] # NvAbsent
        /\ NvEntities[g] = NvEntities[f] /\ NvFacts[f] \subseteq NvFacts[g]
  BY RecapRepeats
<1>2. CASE ~Withheld(nvLineage[g])
  BY <1>1, <1>2 DEF ShownElsewhere
<1>3. CASE Withheld(nvLineage[g])
  <2>1. PICK h \in NvFiling \ {g} :
          /\ nvLineage[h] # NvAbsent /\ ~Withheld(nvLineage[h])
          /\ NvEntities[h] = NvEntities[g] /\ NvFacts[g] \subseteq NvFacts[h]
    BY <1>3 DEF NvInv, WithheldFactsWereShown
  <2> QED
    BY <1>1, <2>1 DEF ShownElsewhere
<1> QED
  BY <1>2, <1>3

-----------------------------------------------------------------------------
(* The inductive step *)

NvAttempt == [pc : NvStages, filing : NvFiling \cup {0}, retrieved : Nat,
              decision : NvDecision \cup {NvAbsent}]

(* A step of one process that appends nothing.                              *)
LEMMA WorkPreserves ==
  ASSUME NvInv, NEW w \in NvWorker, NEW r \in NvAttempt,
         nvWork' = [nvWork EXCEPT ![w] = r], UNCHANGED <<nvStored, nvLineage>>,
         nvClock' \in Nat, nvClock <= nvClock',
         r.pc # "idle" => r.filing \in NvFiling,
         r.pc \in {"appending", "inserting", "returned"} => r.decision \in NvDecision,
         r.pc = "returned" => r.decision = nvLineage[r.filing],
         r.pc \in NvOpen =>
           /\ 0 < r.retrieved /\ r.retrieved <= nvClock'
           /\ \A f \in NvFiling : nvStored[f] # r.retrieved
           /\ \A v \in NvWorker \ {w} : nvWork[v].pc \in NvOpen =>
                nvWork[v].retrieved # r.retrieved,
         r.pc \in {"appending", "inserting"} /\ Withheld(r.decision) =>
           nvLineage[r.filing] # NvAbsent \/ ShownElsewhere(r.filing)
  PROVE  NvInv'
<1>1. /\ nvWork'[w] = r
      /\ \A v \in NvWorker \ {w} : nvWork'[v] = nvWork[v]
  BY DEF NvInv, NvTypes
<1>2. NvTypes'
  BY DEF NvInv, NvTypes, NvAttempt
<1>3. NvHolding'
  BY <1>1 DEF NvInv, NvHolding
<1>4. LedgersGrowTogether' /\ WithheldFactsWereShown'
  BY DEF NvInv, LedgersGrowTogether, WithheldFactsWereShown
<1>5. RetrievalsAreUnique'
  <2>1. \A f \in NvFiling : nvStored'[f] <= nvClock'
    BY DEF NvInv, RetrievalsAreUnique, NvTypes
  <2>2. ASSUME NEW u \in NvWorker, nvWork'[u].pc \in NvOpen
        PROVE  /\ 0 < nvWork'[u].retrieved /\ nvWork'[u].retrieved <= nvClock'
               /\ \A f \in NvFiling : nvStored'[f] # nvWork'[u].retrieved
               /\ \A v \in NvWorker \ {u} : nvWork'[v].pc \in NvOpen =>
                    nvWork'[v].retrieved # nvWork'[u].retrieved
    <3>1. CASE u = w
      BY <1>1, <2>2, <3>1
    <3>2. CASE u # w
      <4>1. nvWork'[u] = nvWork[u] /\ nvWork[u].retrieved \in Nat
        BY <1>1, <3>2 DEF NvInv, NvTypes
      <4>2. 0 < nvWork[u].retrieved /\ nvWork[u].retrieved <= nvClock
        BY <2>2, <4>1 DEF NvInv, RetrievalsAreUnique
      <4>3. nvWork[u].retrieved <= nvClock'
        BY <4>1, <4>2 DEF NvInv, NvTypes
      <4>4. \A f \in NvFiling : nvStored'[f] # nvWork'[u].retrieved
        BY <2>2, <4>1 DEF NvInv, RetrievalsAreUnique
      <4>5. ASSUME NEW v \in NvWorker \ {u}, nvWork'[v].pc \in NvOpen
            PROVE  nvWork'[v].retrieved # nvWork'[u].retrieved
        <5>1. CASE v = w
          BY <1>1, <2>2, <3>2, <4>1, <4>5, <5>1
        <5>2. CASE v # w
          BY <1>1, <2>2, <4>1, <4>5, <5>2 DEF NvInv, RetrievalsAreUnique
        <5> QED
          BY <5>1, <5>2
      <4> QED
        BY <4>1, <4>2, <4>3, <4>4, <4>5
    <3> QED
      BY <3>1, <3>2
  <2> QED
    BY <2>1, <2>2 DEF RetrievalsAreUnique
<1>6. AttemptsShareTheDecision'
  BY <1>1 DEF NvInv, AttemptsShareTheDecision
<1>7. PendingRecapIsShown'
  <2>1. ASSUME NEW f \in NvFiling, ShownElsewhere(f) PROVE ShownElsewhere(f)'
    BY <2>1 DEF ShownElsewhere
  <2>2. ASSUME NEW u \in NvWorker, nvWork'[u].pc \in {"appending", "inserting"},
               Withheld(nvWork'[u].decision)
        PROVE  (nvLineage[nvWork[u].filing] # NvAbsent \/ ShownElsewhere(nvWork[u].filing))'
    <3>1. PICK f \in NvFiling : f = nvWork'[u].filing
      BY <1>3, <2>2 DEF NvHolding
    <3>2. nvLineage[f] # NvAbsent \/ ShownElsewhere(f)
      <4>1. CASE u = w
        BY <1>1, <2>2, <3>1, <4>1
      <4>2. CASE u # w
        BY <1>1, <2>2, <3>1, <4>2 DEF NvInv, PendingRecapIsShown
      <4> QED
        BY <4>1, <4>2
    <3>3. (nvLineage[f] # NvAbsent \/ ShownElsewhere(f))'
      BY <2>1, <3>2
    <3> QED
      BY <3>1, <3>3 DEF ShownElsewhere
  <2> QED
    BY <2>2 DEF PendingRecapIsShown
<1> QED
  BY <1>2, <1>3, <1>4, <1>5, <1>6, <1>7 DEF NvInv

LEMMA RetrievePreserves ==
  ASSUME NvInv, NEW w \in NvWorker, NEW f \in NvFiling, NvRetrieve(w, f)
  PROVE  NvInv'
<1> DEFINE r == [pc |-> "listing", filing |-> f, retrieved |-> nvClock + 1,
                 decision |-> NvAbsent]
<1>1. nvClock \in Nat
  BY DEF NvInv, NvTypes
<1>2. r \in NvAttempt /\ r.pc = "listing" /\ r.filing = f /\ r.retrieved = nvClock + 1
  BY <1>1 DEF NvAttempt, NvStages
<1>3. nvClock' = nvClock + 1 /\ nvClock \in Nat
  BY DEF NvRetrieve, NvInv, NvTypes
<1>4. /\ 0 < r.retrieved /\ r.retrieved <= nvClock'
      /\ \A g \in NvFiling : nvStored[g] # r.retrieved
      /\ \A v \in NvWorker \ {w} : nvWork[v].pc \in NvOpen => nvWork[v].retrieved # r.retrieved
  BY <1>2, <1>3 DEF NvInv, RetrievalsAreUnique, NvTypes
<1>5. nvWork' = [nvWork EXCEPT ![w] = r] /\ UNCHANGED <<nvStored, nvLineage>>
  BY DEF NvRetrieve
<1> HIDE DEF r
<1>6. nvClock' \in Nat /\ nvClock <= nvClock'
  BY <1>3
<1> QED
  BY <1>2, <1>4, <1>5, <1>6, WorkPreserves

LEMMA ClassifyPreserves ==
  ASSUME NvInv, NEW w \in NvWorker, NvClassify(w)
  PROVE  NvInv'
<1> DEFINE f == nvWork[w].filing
           d == ClassifyEventNovelty(f, EventDisclosures(f))
           r == [nvWork[w] EXCEPT !.pc = "appending", !.decision = d]
<1>1. nvWork[w].pc = "listing" /\ f \in NvFiling
  BY DEF NvClassify, NvInv, NvHolding
<1>2. d \in NvDecision
  BY <1>1, ClassificationIsDecision
<1>3. Withheld(d) => nvLineage[f] # NvAbsent \/ ShownElsewhere(f)
  BY <1>1, RecapWasShown
<1>4. nvWork' = [nvWork EXCEPT ![w] = r] /\ UNCHANGED <<nvStored, nvLineage, nvClock>>
  BY DEF NvClassify, NvInv, NvTypes
<1> HIDE DEF d
<1>5. r \in NvAttempt /\ r.pc = "appending" /\ r.filing = f /\ r.decision = d
      /\ r.retrieved = nvWork[w].retrieved
  BY <1>2 DEF NvAttempt, NvStages, NvInv, NvTypes
<1>6. /\ 0 < r.retrieved /\ r.retrieved <= nvClock'
      /\ \A g \in NvFiling : nvStored[g] # r.retrieved
      /\ \A v \in NvWorker \ {w} : nvWork[v].pc \in NvOpen => nvWork[v].retrieved # r.retrieved
  BY <1>1, <1>4, <1>5 DEF NvInv, RetrievalsAreUnique, NvOpen
<1>7. nvClock' \in Nat /\ nvClock <= nvClock'
  BY <1>4 DEF NvInv, NvTypes
<1> HIDE DEF r
<1> QED
  BY <1>1, <1>2, <1>3, <1>4, <1>5, <1>6, <1>7, WorkPreserves

LEMMA ReadLineagePreserves ==
  ASSUME NvInv, NEW w \in NvWorker, NvReadLineage(w)
  PROVE  NvInv'
<1> DEFINE f == nvWork[w].filing
<1>1. /\ nvWork[w].pc = "appending" /\ f \in NvFiling /\ nvWork[w] \in NvAttempt
      /\ nvWork[w].decision \in NvDecision
      /\ UNCHANGED <<nvStored, nvLineage, nvClock>> /\ nvClock' \in Nat /\ nvClock <= nvClock'
  BY DEF NvReadLineage, NvInv, NvHolding, NvTypes, NvAttempt
<1>2. CASE nvLineage[f] # NvAbsent
  <2> DEFINE r == [nvWork[w] EXCEPT !.pc = "returned", !.decision = nvLineage[f]]
  <2>1. nvWork' = [nvWork EXCEPT ![w] = r]
    BY <1>2 DEF NvReadLineage, StoredDecision, NvInv, NvTypes
  <2>2. r \in NvAttempt /\ r.pc = "returned" /\ r.filing = f /\ r.decision = nvLineage[f]
        /\ r.decision \in NvDecision
    BY <1>1, <1>2 DEF NvAttempt, NvStages, NvInv, NvTypes
  <2> HIDE DEF r
  <2> QED
    BY <1>1, <2>1, <2>2, WorkPreserves DEF NvOpen
<1>3. CASE nvLineage[f] = NvAbsent
  <2> DEFINE r == [nvWork[w] EXCEPT !.pc = "inserting"]
  <2>1. nvWork' = [nvWork EXCEPT ![w] = r]
    BY <1>3 DEF NvReadLineage, NvInv, NvTypes
  <2>2. /\ r \in NvAttempt /\ r.pc = "inserting" /\ r.filing = f
        /\ r.decision = nvWork[w].decision /\ r.retrieved = nvWork[w].retrieved
    BY <1>1 DEF NvAttempt, NvStages
  <2>3. Withheld(r.decision) => nvLineage[f] # NvAbsent \/ ShownElsewhere(f)
    BY <1>1, <2>2 DEF NvInv, PendingRecapIsShown
  <2>4. /\ 0 < r.retrieved /\ r.retrieved <= nvClock'
        /\ \A g \in NvFiling : nvStored[g] # r.retrieved
        /\ \A v \in NvWorker \ {w} : nvWork[v].pc \in NvOpen => nvWork[v].retrieved # r.retrieved
    BY <1>1, <2>2 DEF NvInv, RetrievalsAreUnique, NvOpen
  <2> HIDE DEF r
  <2> QED
    BY <1>1, <2>1, <2>2, <2>3, <2>4, WorkPreserves
<1> QED
  BY <1>2, <1>3

(* An attempt ends: with the conflict, after its decision, or in a crash.   *)
LEMMA EndPreserves ==
  ASSUME NvInv, NEW w \in NvWorker,
         \/ NvNextAttempt(w) \/ NvCrash(w)
         \/ nvWork[w].pc = "inserting" /\ nvWork' = [nvWork EXCEPT ![w].pc = "failed"]
            /\ UNCHANGED <<nvStored, nvLineage, nvClock>>
  PROVE  NvInv'
<1>1. UNCHANGED <<nvStored, nvLineage, nvClock>> /\ nvClock' \in Nat /\ nvClock <= nvClock'
  BY DEF NvNextAttempt, NvCrash, NvInv, NvTypes
<1>2. CASE nvWork' = [nvWork EXCEPT ![w] = NvIdle]
  <2>1. NvIdle \in NvAttempt /\ NvIdle.pc = "idle"
    BY DEF NvIdle, NvAttempt, NvStages
  <2> QED
    BY <1>1, <1>2, <2>1, WorkPreserves DEF NvOpen
<1>3. CASE nvWork[w].pc = "inserting" /\ nvWork' = [nvWork EXCEPT ![w].pc = "failed"]
  <2> DEFINE r == [nvWork[w] EXCEPT !.pc = "failed"]
  <2>1. nvWork' = [nvWork EXCEPT ![w] = r]
    BY <1>3 DEF NvInv, NvTypes
  <2>2. r \in NvAttempt /\ r.pc = "failed" /\ r.filing \in NvFiling
    BY <1>3 DEF NvInv, NvTypes, NvHolding, NvAttempt, NvStages
  <2> HIDE DEF r
  <2> QED
    BY <1>1, <2>1, <2>2, WorkPreserves DEF NvOpen
<1> QED
  BY <1>2, <1>3 DEF NvNextAttempt, NvCrash

(* An insert without a conflict is the first for its filing.                *)
LEMMA InsertIsFirst ==
  ASSUME NvInv, NEW w \in NvWorker, nvWork[w].pc = "inserting", ~ReplayConflicts(w)
  PROVE  /\ nvWork[w].filing \in NvFiling /\ nvWork[w].decision \in NvDecision
         /\ nvStored[nvWork[w].filing] = 0 /\ nvLineage[nvWork[w].filing] = NvAbsent
<1>1. nvWork[w].filing \in NvFiling /\ nvWork[w].decision \in NvDecision
  BY DEF NvInv, NvHolding
<1>2. nvStored[nvWork[w].filing] # nvWork[w].retrieved
  BY <1>1 DEF NvInv, RetrievalsAreUnique, NvOpen
<1>3. nvStored[nvWork[w].filing] = 0
  BY <1>2 DEF ReplayConflicts
<1>4. nvLineage[nvWork[w].filing] = NvAbsent
  BY <1>1, <1>3 DEF NvInv, LedgersGrowTogether
<1> QED
  BY <1>1, <1>3, <1>4

(* The inserts and their commit.                                            *)
LEMMA InsertPreserves ==
  ASSUME NvInv, NEW w \in NvWorker, NvInsertLineage(w), ~ReplayConflicts(w)
  PROVE  NvInv'
<1> DEFINE f == nvWork[w].filing
           d == nvWork[w].decision
<1>1. nvWork[w].pc = "inserting"
  BY DEF NvInsertLineage
<1>2. f \in NvFiling /\ d \in NvDecision /\ nvStored[f] = 0 /\ nvLineage[f] = NvAbsent
  BY <1>1, InsertIsFirst
<1>3. d # NvAbsent
  BY <1>2, DecisionIsNotAbsent
<1>4. /\ nvStored' = [nvStored EXCEPT ![f] = nvWork[w].retrieved]
      /\ nvLineage' = [nvLineage EXCEPT ![f] = d]
      /\ nvWork' = [nvWork EXCEPT ![w].pc = "returned"]
      /\ nvClock' = nvClock
  BY DEF NvInsertLineage
<1>5. 0 < nvWork[w].retrieved /\ nvWork[w].retrieved <= nvClock /\ nvWork[w].retrieved \in Nat
  BY <1>1 DEF NvInv, RetrievalsAreUnique, NvOpen, NvTypes
<1>6. /\ nvStored'[f] = nvWork[w].retrieved /\ nvLineage'[f] = d
      /\ \A g \in NvFiling \ {f} : nvStored'[g] = nvStored[g] /\ nvLineage'[g] = nvLineage[g]
  BY <1>2, <1>4 DEF NvInv, NvTypes
<1>7. /\ nvWork'[w].pc = "returned" /\ nvWork'[w].filing = f /\ nvWork'[w].decision = d
      /\ \A v \in NvWorker \ {w} : nvWork'[v] = nvWork[v]
  BY <1>4 DEF NvInv, NvTypes
<1>8. NvTypes'
  <2>1. [nvWork[w] EXCEPT !.pc = "returned"] \in NvAttempt
    BY DEF NvInv, NvTypes, NvAttempt, NvStages
  <2>2. nvWork' = [nvWork EXCEPT ![w] = [nvWork[w] EXCEPT !.pc = "returned"]]
    BY <1>4 DEF NvInv, NvTypes
  <2>3. nvWork' \in [NvWorker -> NvAttempt]
    BY <2>1, <2>2 DEF NvInv, NvTypes, NvAttempt
  <2> QED
    BY <1>2, <1>4, <1>5, <2>3 DEF NvInv, NvTypes, NvAttempt
<1>9. NvHolding'
  BY <1>2, <1>7 DEF NvInv, NvHolding
<1>10. LedgersGrowTogether'
  BY <1>3, <1>5, <1>6 DEF NvInv, LedgersGrowTogether
<1>11. RetrievalsAreUnique'
  <2>1. \A g \in NvFiling : nvStored'[g] <= nvClock'
    BY <1>4, <1>5, <1>6 DEF NvInv, RetrievalsAreUnique
  <2>2. ASSUME NEW u \in NvWorker, nvWork'[u].pc \in NvOpen
        PROVE  /\ 0 < nvWork'[u].retrieved /\ nvWork'[u].retrieved <= nvClock'
               /\ \A g \in NvFiling : nvStored'[g] # nvWork'[u].retrieved
               /\ \A v \in NvWorker \ {u} : nvWork'[v].pc \in NvOpen =>
                    nvWork'[v].retrieved # nvWork'[u].retrieved
    <3>1. u # w /\ nvWork'[u] = nvWork[u]
      BY <1>7, <2>2 DEF NvOpen
    <3>2. nvWork[u].retrieved # nvWork[w].retrieved
      BY <1>1, <2>2, <3>1 DEF NvInv, RetrievalsAreUnique, NvOpen
    <3>3. \A g \in NvFiling : nvStored'[g] # nvWork[u].retrieved
      BY <1>6, <2>2, <3>1, <3>2 DEF NvInv, RetrievalsAreUnique
    <3>4. \A v \in NvWorker \ {u} : nvWork'[v].pc \in NvOpen =>
            nvWork'[v].retrieved # nvWork'[u].retrieved
      BY <1>7, <2>2, <3>1 DEF NvInv, RetrievalsAreUnique, NvOpen
    <3> QED
      BY <1>4, <2>2, <3>1, <3>3, <3>4 DEF NvInv, RetrievalsAreUnique
  <2> QED
    BY <2>1, <2>2 DEF RetrievalsAreUnique
<1>12. AttemptsShareTheDecision'
  <2>1. ASSUME NEW u \in NvWorker \ {w}, nvWork'[u].pc = "returned"
        PROVE  nvWork'[u].decision = nvLineage'[nvWork'[u].filing]
    <3>1. nvWork[u].decision = nvLineage[nvWork[u].filing] /\ nvWork[u].filing \in NvFiling
      BY <1>7, <2>1 DEF NvInv, AttemptsShareTheDecision, NvHolding
    <3>2. CASE nvWork[u].filing # f
      BY <1>6, <1>7, <2>1, <3>1, <3>2
    <3>3. CASE nvWork[u].filing = f
      BY <1>2, <1>7, <2>1, <3>1, <3>3, DecisionIsNotAbsent DEF NvInv, NvHolding
    <3> QED
      BY <3>2, <3>3
  <2> QED
    BY <1>6, <1>7, <2>1 DEF AttemptsShareTheDecision
<1>13. ASSUME NEW g \in NvFiling, ShownElsewhere(g)
       PROVE  ShownElsewhere(g)'
  BY <1>2, <1>6, <1>13 DEF ShownElsewhere
<1>14. WithheldFactsWereShown'
  <2>1. ASSUME NEW g \in NvFiling, Withheld(nvLineage'[g]) PROVE ShownElsewhere(g)
    <3>1. CASE g = f
      BY <1>1, <1>2, <1>6, <2>1, <3>1 DEF NvInv, PendingRecapIsShown
    <3>2. CASE g # f
      BY <1>6, <2>1, <3>2 DEF NvInv, WithheldFactsWereShown, ShownElsewhere
    <3> QED
      BY <3>1, <3>2
  <2>2. ASSUME NEW g \in NvFiling, Withheld(nvLineage'[g]) PROVE ShownElsewhere(g)'
    BY <1>13, <2>1, <2>2
  <2> QED
    BY <2>2 DEF WithheldFactsWereShown, ShownElsewhere, Withheld
<1>15. PendingRecapIsShown'
  <2>1. ASSUME NEW u \in NvWorker, nvWork'[u].pc \in {"appending", "inserting"},
               Withheld(nvWork'[u].decision)
        PROVE  (nvLineage[nvWork[u].filing] # NvAbsent \/ ShownElsewhere(nvWork[u].filing))'
    <3>1. u # w /\ nvWork'[u] = nvWork[u]
      BY <1>7, <2>1
    <3>2. PICK g \in NvFiling : g = nvWork'[u].filing
      BY <1>9, <2>1 DEF NvHolding
    <3>3. nvLineage[g] # NvAbsent \/ ShownElsewhere(g)
      BY <2>1, <3>1, <3>2 DEF NvInv, PendingRecapIsShown
    <3>4. (nvLineage[g] # NvAbsent \/ ShownElsewhere(g))'
      BY <1>3, <1>6, <1>13, <3>3
    <3> QED
      BY <3>2, <3>4 DEF ShownElsewhere
  <2> QED
    BY <2>1 DEF PendingRecapIsShown
<1> QED
  BY <1>8, <1>9, <1>10, <1>11, <1>12, <1>14, <1>15 DEF NvInv

LEMMA NvInvStep == NvInv /\ [NoveltyNext]_noveltyVars => NvInv'
<1> SUFFICES ASSUME NvInv, [NoveltyNext]_noveltyVars PROVE NvInv'
  OBVIOUS
<1>1. ASSUME NEW w \in NvWorker, NEW f \in NvFiling, NvRetrieve(w, f) PROVE NvInv'
  BY <1>1, RetrievePreserves
<1>2. ASSUME NEW w \in NvWorker, NvClassify(w) PROVE NvInv'
  BY <1>2, ClassifyPreserves
<1>3. ASSUME NEW w \in NvWorker, NvReadLineage(w) PROVE NvInv'
  BY <1>3, ReadLineagePreserves
<1>4. ASSUME NEW w \in NvWorker, NvInsertLineage(w) PROVE NvInv'
  <2>1. CASE ReplayConflicts(w)
    BY <1>4, <2>1, EndPreserves DEF NvInsertLineage
  <2>2. CASE ~ReplayConflicts(w)
    BY <1>4, <2>2, InsertPreserves
  <2> QED
    BY <2>1, <2>2
<1>5. ASSUME NEW w \in NvWorker, NvNextAttempt(w) \/ NvCrash(w) PROVE NvInv'
  BY <1>5, EndPreserves
<1>6. CASE UNCHANGED noveltyVars
  BY <1>6 DEF noveltyVars, NvInv, NvTypes, NvHolding, LedgersGrowTogether, RetrievalsAreUnique,
              AttemptsShareTheDecision, WithheldFactsWereShown, PendingRecapIsShown,
              ShownElsewhere
<1> QED
  BY <1>1, <1>2, <1>3, <1>4, <1>5, <1>6 DEF NoveltyNext

LEMMA NoveltyInductive == NoveltySpec => []NvInv
BY NvInvInit, NvInvStep, PTL DEF NoveltySpec

-----------------------------------------------------------------------------
(* Theorems *)

(* However many processes compare and append in whatever order, a quote     *)
(* that is cut as a recap repeats a filing that is shown, and every attempt *)
(* goes on with the one decision of the ledger (_apply_event_novelty,       *)
(* append_event_lineage).                                                   *)
THEOREM NoveltySafe == NoveltySpec => []NoveltyStands
<1>1. NvInv => NoveltyStands
  BY DEF NvInv, NoveltyStands
<1> QED
  BY <1>1, NoveltyInductive, PTL

(* The two ledgers are append-only and grow together: no attempt changes a  *)
(* decision (research_event_disclosures, research_event_lineage).           *)
THEOREM LedgersAreAppendOnly == NoveltySpec => LineageIsAppendOnly
<1> DEFINE Kept ==
      \A f \in NvFiling :
        /\ nvLineage[f] # NvAbsent => nvLineage'[f] = nvLineage[f] /\ nvStored'[f] = nvStored[f]
        /\ nvStored'[f] > 0 <=> nvLineage'[f] # NvAbsent
<1>1. ASSUME NvInv, NvInv', [NoveltyNext]_noveltyVars PROVE Kept
  <2>1. CASE UNCHANGED <<nvStored, nvLineage>>
    BY <1>1, <2>1 DEF NvInv, LedgersGrowTogether
  <2>2. ASSUME NEW w \in NvWorker, NvInsertLineage(w), ~ReplayConflicts(w) PROVE Kept
    <3>1. \A f \in NvFiling : nvLineage[f] # NvAbsent =>
            nvLineage'[f] = nvLineage[f] /\ nvStored'[f] = nvStored[f]
      BY <1>1, <2>2, InsertIsFirst DEF NvInsertLineage, NvInv, NvTypes
    <3> QED
      BY <1>1, <3>1 DEF NvInv, LedgersGrowTogether
  <2> QED
    BY <1>1, <2>1, <2>2 DEF NoveltyNext, noveltyVars, NvRetrieve, NvClassify, NvReadLineage,
                            NvInsertLineage, NvNextAttempt, NvCrash
<1> QED
  BY <1>1, NoveltyInductive, PTL DEF NoveltySpec, LineageIsAppendOnly

(* A decision never names its own filing as what came before it.             *)
NoFilingPrecedesItself ==
  /\ nvClock <= MaxNvClock
  /\ \A f \in NvFiling : nvLineage[f].prior \subseteq NvFiling \ {f}
  /\ \A w \in NvWorker : nvWork[w].pc \in {"appending", "inserting"} =>
       nvWork[w].decision.prior \subseteq NvFiling \ {nvWork[w].filing}

LEMMA ClassificationLooksElsewhere ==
  ASSUME NEW f \in NvFiling
  PROVE  ClassifyEventNovelty(f, EventDisclosures(f)).prior \subseteq NvFiling \ {f}
<1> DEFINE related == {g \in EventDisclosures(f) : EventsAreRelated(g, f)}
<1>1. related \subseteq NvFiling \ {f}
  BY DEF EventDisclosures, NvDisclosed
<1>2. Latest(related) \subseteq NvFiling \ {f}
  BY <1>1 DEF Latest
<1>3. /\ related # {} => ClassifyEventNovelty(f, EventDisclosures(f)).prior = Latest(related)
      /\ related = {} => ClassifyEventNovelty(f, EventDisclosures(f)).prior = {}
  BY DEF ClassifyEventNovelty
<1> HIDE DEF related
<1> QED
  BY <1>2, <1>3

LEMMA NoFilingPrecedesItselfStep ==
  NvInv /\ NoFilingPrecedesItself /\ [NoveltyNext]_noveltyVars => NoFilingPrecedesItself'
<1> SUFFICES ASSUME NvInv, NoFilingPrecedesItself, [NoveltyNext]_noveltyVars
             PROVE  NoFilingPrecedesItself'
  OBVIOUS
<1>1. NvTypes /\ NvHolding
  BY DEF NvInv
<1>2. CASE UNCHANGED noveltyVars
  BY <1>2 DEF noveltyVars, NoFilingPrecedesItself
<1>3. CASE NoveltyNext
  <2> PICK w \in NvWorker :
        \/ \E f \in NvFiling : NvRetrieve(w, f)
        \/ NvClassify(w) \/ NvReadLineage(w) \/ NvInsertLineage(w)
        \/ NvNextAttempt(w) \/ NvCrash(w)
    BY <1>3 DEF NoveltyNext
  <2>1. CASE \E f \in NvFiling : NvRetrieve(w, f)
    <3>1. PICK f \in NvFiling : NvRetrieve(w, f)
      BY <2>1
    <3>2. nvClock' <= MaxNvClock
      BY <1>1, <3>1, NoveltyAssumption DEF NvRetrieve, NvTypes
    <3>3. \A v \in NvWorker : nvWork'[v].pc \in {"appending", "inserting"} => nvWork'[v] = nvWork[v]
      BY <1>1, <3>1 DEF NvRetrieve, NvTypes
    <3>4. nvLineage' = nvLineage
      BY <3>1 DEF NvRetrieve
    <3> QED
      BY <3>2, <3>3, <3>4 DEF NoFilingPrecedesItself
  <2>2. CASE NvClassify(w)
    <3> DEFINE f == nvWork[w].filing
    <3>1. f \in NvFiling
      BY <1>1, <2>2 DEF NvClassify, NvHolding
    <3>2. /\ nvWork'[w].filing = f
          /\ nvWork'[w].decision = ClassifyEventNovelty(f, EventDisclosures(f))
          /\ \A v \in NvWorker \ {w} : nvWork'[v] = nvWork[v]
          /\ nvLineage' = nvLineage /\ nvClock' = nvClock
      BY <1>1, <2>2 DEF NvClassify, NvTypes
    <3>3. ClassifyEventNovelty(f, EventDisclosures(f)).prior \subseteq NvFiling \ {f}
      BY <3>1, ClassificationLooksElsewhere
    <3> HIDE DEF f
    <3> QED
      BY <3>2, <3>3 DEF NoFilingPrecedesItself
  <2>3. CASE NvReadLineage(w)
    <3>1. /\ nvLineage' = nvLineage /\ nvClock' = nvClock
          /\ \A v \in NvWorker : nvWork'[v].filing = nvWork[v].filing
          /\ \A v \in NvWorker : nvWork'[v].pc \in {"appending", "inserting"} =>
               nvWork[v].pc \in {"appending", "inserting"} /\ nvWork'[v].decision = nvWork[v].decision
      BY <1>1, <2>3 DEF NvReadLineage, NvTypes
    <3> QED
      BY <3>1 DEF NoFilingPrecedesItself
  <2>4. CASE NvInsertLineage(w)
    <3> DEFINE f == nvWork[w].filing
    <3>1. f \in NvFiling /\ nvWork[w].decision.prior \subseteq NvFiling \ {f}
      BY <1>1, <2>4 DEF NvInsertLineage, NvHolding, NoFilingPrecedesItself
    <3>2. \A g \in NvFiling : nvLineage'[g] = nvLineage[g]
            \/ (g = f /\ nvLineage'[g] = nvWork[w].decision)
      BY <1>1, <2>4 DEF NvInsertLineage, NvTypes
    <3>3. /\ nvClock' = nvClock
          /\ \A v \in NvWorker : nvWork'[v].pc \in {"appending", "inserting"} => nvWork'[v] = nvWork[v]
      BY <1>1, <2>4 DEF NvInsertLineage, NvTypes
    <3> HIDE DEF f
    <3> QED
      BY <3>1, <3>2, <3>3 DEF NoFilingPrecedesItself
  <2>5. CASE NvNextAttempt(w) \/ NvCrash(w)
    <3>1. /\ nvLineage' = nvLineage /\ nvClock' = nvClock
          /\ \A v \in NvWorker : nvWork'[v].pc \in {"appending", "inserting"} => nvWork'[v] = nvWork[v]
      BY <1>1, <2>5 DEF NvNextAttempt, NvCrash, NvIdle, NvTypes
    <3> QED
      BY <3>1 DEF NoFilingPrecedesItself
  <2> QED
    BY <2>1, <2>2, <2>3, <2>4, <2>5
<1> QED
  BY <1>2, <1>3

(* The two ledgers and the attempts keep their types: a filing never stands  *)
(* in its own lineage (append_event_lineage).                                *)
THEOREM NoveltyTypeCorrect == NoveltySpec => []NoveltyTypeOK
<1>1. NoveltyInit => NoFilingPrecedesItself
  BY NoveltyAssumption DEF NoveltyInit, NoFilingPrecedesItself, NvAbsent, NvIdle
<1>2. NvInv /\ NoFilingPrecedesItself => NoveltyTypeOK
  <2> SUFFICES ASSUME NvInv, NoFilingPrecedesItself PROVE NoveltyTypeOK
    OBVIOUS
  <2>1. NvTypes /\ (\A f \in NvFiling : nvStored[f] <= nvClock) /\ nvClock <= MaxNvClock
    BY DEF NvInv, RetrievalsAreUnique, NoFilingPrecedesItself
  <2>2. nvClock \in 0..MaxNvClock /\ \A f \in NvFiling : nvStored[f] \in 0..MaxNvClock
    BY <2>1, NoveltyAssumption DEF NvTypes
  <2>3. nvStored \in [NvFiling -> 0..MaxNvClock]
    BY <2>1, <2>2 DEF NvTypes
  <2>4. \A w \in NvWorker : nvWork[w].filing \in NvFiling \cup {0}
    BY <2>1 DEF NvTypes
  <2> QED
    BY <2>2, <2>3, <2>4 DEF NoFilingPrecedesItself, NoveltyTypeOK
<1> QED
  BY <1>1, <1>2, NoFilingPrecedesItselfStep, NoveltyInductive, PTL DEF NoveltySpec

-----------------------------------------------------------------------------
(* Compute routing: for all observations and every route asked for.          *)

(* What each call leaves behind satisfies what is promised of it: the       *)
(* receipt's contract fails exactly on a tier without a model that was      *)
(* computed on evidence.                                                    *)
LEMMA TiersAreJustified ==
  ASSUME NEW f \in TierFacts
  PROVE  /\ ChooseTier(f).model \in BOOLEAN
         /\ ChooseTier(f).model =>
              /\ f.relevant /\ (f.uncertain => f.material)
              /\ f.contradiction \/ f.publication \/ f.ambiguous \/ f.material
         /\ f.relevant /\ f.material => ChooseTier(f).model
<1> DEFINE strong == f.contradiction \/ f.publication \/ f.ambiguous \/ f.material
<1> /\ f.relevant \in BOOLEAN /\ f.material \in BOOLEAN /\ f.ambiguous \in BOOLEAN
    /\ f.contradiction \in BOOLEAN /\ f.publication \in BOOLEAN /\ f.uncertain \in BOOLEAN
  BY DEF TierFacts
<1>1. CASE ~f.relevant
  <2> ChooseTier(f) = TierDecision(0, "skip", "no_research_signal")
    BY <1>1 DEF ChooseTier
  <2> QED
    BY <1>1 DEF TierDecision
<1>2. CASE f.relevant /\ RetainsUncertain(f)
  <2> ChooseTier(f) = TierDecision(0, "retain", "ambiguous_evidence")
    BY <1>2 DEF ChooseTier
  <2> QED
    BY <1>2 DEF TierDecision, RetainsUncertain
<1>3. CASE f.relevant /\ ~RetainsUncertain(f) /\ strong
  <2>1. \/ ChooseTier(f) = TierDecision(3, "escalate", "deterministic_contradiction")
        \/ ChooseTier(f) = TierDecision(3, "escalate", "publication_review")
        \/ ChooseTier(f) = TierDecision(1, "escalate", "ambiguous_evidence")
        \/ ChooseTier(f) = TierDecision(2, "escalate", "material_event")
    BY <1>3 DEF ChooseTier
  <2> QED
    BY <1>3, <2>1 DEF TierDecision, RetainsUncertain
<1>4. CASE f.relevant /\ ~RetainsUncertain(f) /\ ~strong
  <2> ChooseTier(f) = TierDecision(0, "retain", "no_research_signal")
    BY <1>4 DEF ChooseTier
  <2> QED
    BY <1>4 DEF TierDecision
<1> QED
  BY <1>1, <1>2, <1>3, <1>4

LEMMA RoutesReconcile ==
  ASSUME NEW f \in TierFacts, NEW d, d.model \in BOOLEAN, NEW complexity, NEW importance,
         RouteInputReconciles(d, f.evidence, complexity, importance)
  PROVE  /\ RouteReceiptReconciles(ChooseRoute(d, complexity, importance), f.evidence)
              <=> d.model \/ ~f.evidence
         /\ ChooseRoute(d, complexity, importance).model # "none" <=> d.model
         /\ d.model => f.evidence
<1> f.evidence \in BOOLEAN
  BY DEF TierFacts
<1>1. CASE ~d.model
  <2> ChooseRoute(d, complexity, importance) = NoModelRoute
    BY <1>1 DEF ChooseRoute
  <2> QED
    BY <1>1 DEF NoModelRoute, RouteReceiptReconciles
<1>2. CASE d.model
  <2>1. f.evidence
    BY <1>2 DEF RouteInputReconciles
  <2>2. \/ ChooseRoute(d, complexity, importance) = RicherRoute
        \/ ChooseRoute(d, complexity, importance) = BoundedRoute
    BY <1>2 DEF ChooseRoute
  <2> QED
    BY <1>2, <2>1, <2>2 DEF RicherRoute, BoundedRoute, RouteReceiptReconciles
<1> QED
  BY <1>1, <1>2

(* A call leaves a justified route, from whatever state it is made.         *)
LEMMA CallsAreJustified ==
  ASSUME NEW f \in TierFacts, NEW complexity, NEW importance,
         \/ RefuseInput(f, complexity, importance)
         \/ ChooseAdaptiveCompute(f, complexity, importance)
  PROVE  RoutingIsJustified'
<1> DEFINE d == ChooseTier(f)
           r == ChooseRoute(d, complexity, importance)
<1>1. /\ d.model \in BOOLEAN
      /\ d.model => /\ f.relevant /\ (f.uncertain => f.material)
                    /\ f.contradiction \/ f.publication \/ f.ambiguous \/ f.material
      /\ f.relevant /\ f.material => d.model
  BY TiersAreJustified
<1> f.evidence \in BOOLEAN
  BY DEF TierFacts
<1>2. CASE RefuseInput(f, complexity, importance)
  <2>1. /\ routing'.outcome = "input_refused" /\ routing'.facts = f /\ routing'.decision = d
    BY <1>2 DEF RefuseInput, RoutingCall
  <2> HIDE DEF d, r
  <2> QED
    BY <1>1, <2>1 DEF RoutingIsJustified, RoutesAreContractual, UncertaintyNeverEscalates
<1>3. CASE ChooseAdaptiveCompute(f, complexity, importance)
  <2>1. /\ routing'.facts = f /\ routing'.decision = d /\ routing'.receipt = r
        /\ routing'.outcome =
             IF RouteReceiptReconciles(r, f.evidence) THEN "routed" ELSE "receipt_refused"
        /\ RouteInputReconciles(d, f.evidence, complexity, importance)
    BY <1>3 DEF ChooseAdaptiveCompute, RoutingCall
  <2>2. /\ RouteReceiptReconciles(r, f.evidence) <=> d.model \/ ~f.evidence
        /\ r.model # "none" <=> d.model
        /\ d.model => f.evidence
    BY <1>1, <2>1, RoutesReconcile
  <2> HIDE DEF d, r
  <2> QED
    BY <1>1, <2>1, <2>2
    DEF RoutingIsJustified, RoutesAreContractual, UncertaintyNeverEscalates
<1> QED
  BY <1>2, <1>3

(* Whatever a filing's observations and whatever is asked of the router, a   *)
(* filing gets only the compute they justify, uncertain inputs alone never   *)
(* buy model time, and the contracts on both sides of choose_adaptive_compute *)
(* refuse what it chose in one case only.                                    *)
THEOREM RoutingJustified == RoutingSpec => []RoutingIsJustified
<1>1. RoutingInit => RoutingIsJustified
  BY DEF RoutingInit, NoRouting, RoutingIsJustified, RoutesAreContractual,
         UncertaintyNeverEscalates
<1>2. RoutingIsJustified /\ [RoutingNext]_routingVars => RoutingIsJustified'
  <2> SUFFICES ASSUME RoutingIsJustified, [RoutingNext]_routingVars
               PROVE  RoutingIsJustified'
    OBVIOUS
  <2>1. CASE RoutingReturn
    BY <2>1 DEF RoutingReturn, NoRouting, RoutingIsJustified, RoutesAreContractual,
                UncertaintyNeverEscalates
  <2>2. CASE \E f \in TierFacts, complexity \in SUBSET RouteComplexity,
                importance \in RouteImportance :
               \/ RefuseInput(f, complexity, importance)
               \/ ChooseAdaptiveCompute(f, complexity, importance)
    BY <2>2, CallsAreJustified
  <2>3. CASE UNCHANGED routingVars
    BY <2>3 DEF routingVars, RoutingIsJustified, RoutesAreContractual, UncertaintyNeverEscalates
  <2> QED
    BY <2>1, <2>2, <2>3 DEF RoutingNext
<1> QED
  BY <1>1, <1>2, PTL DEF RoutingSpec

-----------------------------------------------------------------------------
(* Reuse and deltas: for every form section, section text and size, budget   *)
(* and boundary.                                                             *)

(* Every field of a boundary has a miss reason that names it.                *)
LEMMA BoundaryIsNamed ==
  ASSUME NEW current \in Boundary, NEW cached \in Boundary
  PROVE  BoundaryMissReasons(current, cached) = {} <=> cached = current
<1>1. \A f \in BoundaryField : \E r \in MissReasons : f \in FieldsOf(r)
  <2>1. /\ FieldsOf("accession_changed") = {"accession_number"}
        /\ FieldsOf("source_changed") = {"source_content_sha256"}
        /\ FieldsOf("evidence_changed") = {"evidence_sha256", "evidence_characters"}
        /\ FieldsOf("evidence_manifest_changed") = {"evidence_manifest_sha256"}
        /\ FieldsOf("event_fingerprint_changed") = {"event_fingerprint_manifest_sha256"}
        /\ FieldsOf("tier_decision_changed") = {"tier_decision_sha256"}
        /\ FieldsOf("ruleset_changed") = {"event_novelty_ruleset_version",
                                          "evidence_budget_version",
                                          "extraction_ruleset_version"}
    BY DEF FieldsOf
  <2> QED
    BY <2>1 DEF BoundaryField, MissReasons
<1>2. ASSUME BoundaryMissReasons(current, cached) = {} PROVE cached = current
  <2>1. \A f \in BoundaryField : current[f] = cached[f]
    BY <1>1, <1>2 DEF BoundaryMissReasons
  <2> QED
    BY <2>1 DEF Boundary
<1> QED
  BY <1>2 DEF BoundaryMissReasons

(* What a look-up returns.                                                   *)
LEMMA LookUpsAreExact ==
  ASSUME NEW current \in Boundary, NEW cutoff \in ReuseMoment, NEW candidates,
         candidates = {} \/ \E c \in CacheReceipts : candidates = {c},
         LookUp(current, cutoff, candidates)
  PROVE  ReuseLosesNothing'
<1> DEFINE result == DecideCacheReuse(current, cutoff, candidates)
<1>1. /\ reuse'.op = "look_up" /\ reuse'.current = current /\ reuse'.cutoff = cutoff
      /\ reuse'.candidates = candidates /\ reuse'.result = result
  BY DEF LookUp
<1>2. result = "exact_reuse" <=>
        \E c \in candidates : c.boundary = current /\ c.validated <= cutoff
  <2>1. CASE candidates = {}
    BY <2>1 DEF DecideCacheReuse
  <2>2. ASSUME NEW c \in CacheReceipts, candidates = {c}
        PROVE  result = "exact_reuse" <=> c.boundary = current /\ c.validated <= cutoff
    <3>1. c.boundary \in Boundary /\ c.validated \in Nat /\ cutoff \in Nat
      BY ReuseAssumption DEF CacheReceipts
    <3>2. BoundaryMissReasons(current, c.boundary) = {} <=> c.boundary = current
      BY <3>1, BoundaryIsNamed
    <3>3. CASE c.validated > cutoff
      <4>1. ~(c.validated <= cutoff)
        BY <3>1, <3>3
      <4>2. result = "miss_future_result"
        BY <2>2, <3>3, <4>1 DEF DecideCacheReuse
      <4> QED
        BY <4>1, <4>2
    <3>4. CASE ~(c.validated > cutoff) /\ BoundaryMissReasons(current, c.boundary) # {}
      <4>1. c.validated <= cutoff
        BY <3>1, <3>4
      <4>2. result = "miss_boundary_changed"
        BY <2>2, <3>4, <4>1 DEF DecideCacheReuse
      <4> QED
        BY <3>2, <3>4, <4>2
    <3>5. CASE ~(c.validated > cutoff) /\ BoundaryMissReasons(current, c.boundary) = {}
      <4>1. c.validated <= cutoff
        BY <3>1, <3>5
      <4>2. result = "exact_reuse"
        BY <2>2, <3>5, <4>1 DEF DecideCacheReuse
      <4> QED
        BY <3>2, <3>5, <4>1, <4>2
    <3> QED
      BY <3>3, <3>4, <3>5
  <2> HIDE DEF result
  <2> QED
    BY <2>1, <2>2
<1>3. ReuseIsExact'
  <2> HIDE DEF result
  <2> QED
    BY <1>1, <1>2 DEF ReuseIsExact
<1>4. DeltaReconstructs'
  BY <1>1 DEF DeltaReconstructs
<1> QED
  BY <1>3, <1>4 DEF ReuseLosesNothing

(* A changed section has characters: a delta that is ready is not empty.     *)
LEMMA DeltasHaveCharacters ==
  ASSUME NEW prior \in DeltaManifest, NEW current \in DeltaManifest,
         Changed(prior, current) # {}
  PROVE  DeltaCharacters(prior, current) \in Int /\ DeltaCharacters(prior, current) >= 1
<1> DEFINE C == Changed(prior, current)
           size == [s \in C |-> DeltaSize[current.sections[s]]]
<1>1. PICK D \in SUBSET DeltaSelector : current.sections \in [D -> DeltaText]
  BY DEF DeltaManifest
<1>2. C \subseteq D
  BY <1>1 DEF Changed
<1>3. IsFiniteSet(C)
  BY <1>2, ReuseAssumption, FS_Subset
<1>4. \A s \in C : size[s] \in Int /\ size[s] >= 1
  <2> SUFFICES ASSUME NEW s \in C PROVE size[s] \in Int /\ size[s] >= 1
    OBVIOUS
  <2>1. current.sections[s] \in DeltaText
    BY <1>1, <1>2
  <2>2. DeltaSize[current.sections[s]] \in Nat \ {0}
    BY <2>1, ReuseAssumption
  <2> QED
    BY <2>2
<1>5. DeltaCharacters(prior, current) = SumFunctionOnSet(size, C)
  BY DEF DeltaCharacters, SumFunction
<1> HIDE DEF size
<1>6. SumFunctionOnSet(size, C) \in Int /\ SumFunctionOnSet(size, C) >= 1 * Cardinality(C)
  BY <1>3, <1>4, SumAtLeast
<1>7. Cardinality(C) \in Nat /\ Cardinality(C) # 0
  BY <1>3, FS_CardinalityType, FS_EmptySet
<1> QED
  BY <1>5, <1>6, <1>7

(* What the gate decides about two manifests.                                *)
LEMMA DeltasReconstruct ==
  ASSUME NEW prior \in DeltaManifest, NEW current \in DeltaManifest, NEW relationship,
         DecideAmendmentDelta(prior, current, relationship)
  PROVE  ReuseLosesNothing'
<1> DEFINE d == DecideDelta(prior, current)
           old == prior.sections
           new == current.sections
           C == Changed(prior, current)
           R == Removed(prior, current)
           N == DeltaCharacters(prior, current)
           overlay == [s \in DOMAIN old \cup d.changed |->
                         IF s \in d.changed THEN new[s] ELSE old[s]]
<1>1. /\ reuse'.op = "delta" /\ reuse'.prior = prior /\ reuse'.current = current
      /\ reuse'.result = d
  BY DEF DecideAmendmentDelta
<1>2. old = [s \in DOMAIN old |-> old[s]] /\ new = [s \in DOMAIN new |-> new[s]]
  BY DEF DeltaManifest
<1>3. /\ C = {s \in DOMAIN new : s \in DOMAIN old => new[s] # old[s]}
      /\ R = DOMAIN old \ DOMAIN new
  BY DEF Changed, Removed
<1>4. C # {} => N \in Int /\ N >= 1
  BY DeltasHaveCharacters
<1> DEFINE Promise ==
      /\ DecisionReconciles(d)
      /\ d.disposition = "delta_ready" => overlay = new /\ overlay # old /\ d.characters <= DeltaBudget
      /\ d.disposition = "no_selected_delta" => old = new
      /\ d.disposition # "full_reanalysis" => prior.rules = current.rules
<1> SUFFICES Promise
  <2>1. ASSUME Promise PROVE DeltaReconstructs'
    BY <1>1, <2>1 DEF DeltaReconstructs
  <2>2. ReuseIsExact'
    BY <1>1 DEF ReuseIsExact
  <2> HIDE DEF Promise
  <2> QED
    BY <2>1, <2>2 DEF ReuseLosesNothing
<1>5. ASSUME NEW reason \in {"missing_section_manifest", "removed_relevant_section",
                             "delta_exceeds_budget", "ruleset_changed"},
             NEW removed, d = FullReanalysis(reason, removed)
      PROVE  Promise
  <2>1. /\ d.disposition = "full_reanalysis" /\ d.reason = reason /\ d.changed = {}
        /\ d.removed = removed /\ d.characters = 0
    BY <1>5 DEF FullReanalysis
  <2> HIDE DEF d
  <2> QED
    BY <2>1 DEF DecisionReconciles
<1> HIDE DEF Promise
<1>6. CASE prior.rules # current.rules
  <2>1. d = FullReanalysis("ruleset_changed", {})
    BY <1>6 DEF DecideDelta
  <2> QED
    BY <1>5, <2>1
<1>7. CASE prior.rules = current.rules /\ (DOMAIN old = {} \/ DOMAIN new = {})
  <2>1. d = FullReanalysis("missing_section_manifest", {})
    BY <1>7 DEF DecideDelta
  <2> QED
    BY <1>5, <2>1
<1> DEFINE both == prior.rules = current.rules /\ DOMAIN old # {} /\ DOMAIN new # {}
<1>8. CASE both /\ R # {}
  <2>1. d = FullReanalysis("removed_relevant_section", R)
    BY <1>8 DEF DecideDelta
  <2> QED
    BY <1>5, <2>1
<1>9. CASE both /\ R = {} /\ C = {}
  <2>1. /\ d.disposition = "no_selected_delta" /\ d.reason = "selected_evidence_unchanged"
        /\ d.changed = {} /\ d.removed = {} /\ d.characters = 0
    BY <1>9 DEF DecideDelta
  <2>2. DOMAIN old = DOMAIN new /\ \A s \in DOMAIN old : old[s] = new[s]
    BY <1>3, <1>9
  <2>3. old = new
    BY <1>2, <2>2
  <2> HIDE DEF d, C, R, N
  <2> QED
    BY <1>9, <2>1, <2>3 DEF DecisionReconciles, Promise
<1>10. CASE both /\ R = {} /\ C # {} /\ N > DeltaBudget
  <2>1. d = FullReanalysis("delta_exceeds_budget", {})
    BY <1>10 DEF DecideDelta
  <2> QED
    BY <1>5, <2>1
<1>11. CASE both /\ R = {} /\ C # {} /\ ~(N > DeltaBudget)
  <2>1. /\ d.disposition = "delta_ready" /\ d.reason = "reliable_section_delta"
        /\ d.changed = C /\ d.removed = {} /\ d.characters = N
    BY <1>11 DEF DecideDelta
  <2>2. DOMAIN old \cup C = DOMAIN new
    BY <1>3, <1>11
  <2>3. \A s \in DOMAIN new : new[s] = IF s \in C THEN new[s] ELSE old[s]
    BY <1>3, <1>11
  <2>4. overlay = [s \in DOMAIN new |-> IF s \in C THEN new[s] ELSE old[s]]
    BY <2>1, <2>2
  <2>5. overlay = new
    BY <1>2, <2>3, <2>4
  <2>6. new # old
    BY <1>3, <1>11
  <2>7. N <= DeltaBudget
    BY <1>4, <1>11, ReuseAssumption
  <2> HIDE DEF d, C, R, N, overlay
  <2>8. DecisionReconciles(d)
    BY <1>4, <1>11, <2>1 DEF DecisionReconciles
  <2> QED
    BY <1>11, <2>1, <2>5, <2>6, <2>7, <2>8 DEF Promise
<1> HIDE DEF d, C, R, N, overlay
<1> QED
  BY <1>6, <1>7, <1>8, <1>9, <1>10, <1>11

(* Neither the cache (decide_cache_reuse) nor the delta gate                 *)
(* (decide_amendment_delta) saves a call by losing evidence: reuse is exact  *)
(* and a delta laid over the prior filing is the amended one.                *)
THEOREM ReuseSafe == ReuseSpec => []ReuseLosesNothing
<1>1. ReuseInit => ReuseLosesNothing
  BY DEF ReuseInit, NoReuse, ReuseLosesNothing, ReuseIsExact, DeltaReconstructs
<1>2. ReuseLosesNothing /\ [ReuseNext]_reuseVars => ReuseLosesNothing'
  <2> SUFFICES ASSUME ReuseLosesNothing, [ReuseNext]_reuseVars
               PROVE  ReuseLosesNothing'
    OBVIOUS
  <2>1. CASE ReuseReturn
    BY <2>1 DEF ReuseReturn, NoReuse, ReuseLosesNothing, ReuseIsExact, DeltaReconstructs
  <2>2. CASE UNCHANGED reuseVars
    BY <2>2 DEF reuseVars, ReuseLosesNothing, ReuseIsExact, DeltaReconstructs
  <2>3. ASSUME NEW current \in ReuseCurrent, NEW cutoff \in ReuseMoment,
               \/ LookUp(current, cutoff, {})
               \/ \E c \in CacheReceipts : LookUp(current, cutoff, {c})
        PROVE  ReuseLosesNothing'
    BY <2>3, CurrentAssumption, LookUpsAreExact
  <2>4. ASSUME NEW prior \in DeltaManifest, NEW current \in DeltaManifest,
               NEW relationship \in DeltaRelationship,
               \/ DecideAmendmentDelta(prior, current, relationship)
               \/ RefuseDelta(prior, current, relationship)
        PROVE  ReuseLosesNothing'
    <3>1. CASE DecideAmendmentDelta(prior, current, relationship)
      BY <3>1, DeltasReconstruct
    <3>2. CASE RefuseDelta(prior, current, relationship)
      BY <3>2 DEF RefuseDelta, ReuseLosesNothing, ReuseIsExact, DeltaReconstructs
    <3> QED
      BY <2>4, <3>1, <3>2
  <2> QED
    BY <2>1, <2>2, <2>3, <2>4 DEF ReuseNext
<1> QED
  BY <1>1, <1>2, PTL DEF ReuseSpec

-----------------------------------------------------------------------------
(* Web sessions: for any number of requests at a time, clients, tokens and   *)
(* nonces, every limit and any number of restarts.                           *)

WebRow == [client : WebClient, created : Nat, seen : Nat, revoked : BOOLEAN]
NonceRow == [client : WebClient, expires : Nat]
WebWork ==
  [at : {"form", "view", "viewed", "logout", "revoke", "revoked", "consume", "attempt", "clear",
         "issue", "issued"},
   token : WebToken \cup {"no cookie"}, nonce : WebNonce \cup {"none"}, good : BOOLEAN,
   client : WebClient, now : Nat, ended : BOOLEAN]

WebTypes ==
  /\ webClock \in 0..MaxWebClock /\ webCrashes \in 0..MaxWebCrash
  /\ webSession \in [WebToken -> WebRow \cup {NoRow}]
  /\ webNonce \in [WebNonce -> NonceRow \cup {NoRow}]
  /\ webAttempts \in [WebClient -> Seq(Nat)]
  /\ webRequests \in [WebClient -> 0..RequestLimit]
  /\ webThread \in [WebThread -> WebWork \cup {WebIdleThread}]
  /\ webPassed \in [WebNonce -> Nat]

(* A request past its first step names what that step gave it.               *)
WebTargets ==
  \A th \in WebThread :
    /\ webThread[th].at = "logout" => webThread[th].token \in WebToken
    /\ webThread[th].at \in {"consume", "attempt", "clear", "issue"} =>
         webThread[th].nonce \in WebNonce
    /\ webThread[th].at \in {"viewed", "revoke", "revoked", "issued"} =>
         webThread[th].token \in webIssued
    /\ webThread[th].at = "revoked" => webThread[th].token \in webEnded

(* A nonce that let a post through is gone for good.                         *)
SpentNonces ==
  \A n \in WebNonce : webPassed[n] # 0 => webPassed[n] = 1 /\ webNonce[n] = NoRow

(* Only issued sessions are stored, and an ended one is not open.            *)
StoredSessions ==
  /\ webIssued \subseteq WebToken /\ webEnded \subseteq webIssued
  /\ \A t \in WebToken : webSession[t] # NoRow => t \in webIssued
  /\ \A t \in webEnded : webSession[t] # NoRow => webSession[t].revoked

IsLogged(event, t) == \E a \in webAudit : a.event = event /\ a.token = t

IsAboutToLog(t) == \E th \in WebThread : webThread[th].at = "issued" /\ webThread[th].token = t

(* The audit log and the sessions, entry by entry.                           *)
AuditStands ==
  /\ \A a \in webAudit :
       /\ a.event \in {"LOGIN_SUCCEEDED", "ADMIN_VIEWED"} => a.token \in webIssued
       /\ a.event = "LOGOUT_SUCCEEDED" => a.token \in webEnded
  /\ webCrashes = 0 =>
       \A t \in webIssued : IsLogged("LOGIN_SUCCEEDED", t) \/ IsAboutToLog(t)

WebInv ==
  /\ WebTypes /\ WebTargets /\ SpentNonces /\ StoredSessions /\ EndedSessionsStayEnded
  /\ AuditStands /\ AttemptsStayWithinTheLimit

(* Rows and idle threads are not taken for one another.                      *)
LEMMA WebValues ==
  /\ NoRow \notin WebRow /\ NoRow \notin NonceRow /\ WebIdleThread \notin WebWork
  /\ \A r \in WebWork : r.at # "idle"
  /\ WebIdleThread.at = "idle"
<1>1. \A x \in WebRow : x # NoRow
  BY DEF WebRow, NoRow
<1>2. \A x \in NonceRow : x # NoRow
  BY DEF NonceRow, NoRow
<1>3. \A x \in WebWork : x.at # "idle"
  BY DEF WebWork
<1> QED
  BY <1>1, <1>2, <1>3 DEF WebIdleThread

(* The rows the limiter keeps are some of those it had.                      *)
LEMMA OldRowsAreDeleted ==
  ASSUME NEW times \in Seq(Nat), NEW threshold \in Int
  PROVE  DeleteOld(times, threshold) \in Seq(Nat) /\ Len(DeleteOld(times, threshold)) <= Len(times)
<1> DEFINE n == Len(times)
           S == Seq(Nat)
           Kept1(i, s) == IF times[i] > threshold THEN Append(s, times[i]) ELSE s
           Step(f) == [i \in 0..n |->
                         IF i = 0 THEN <<>>
                         ELSE IF times[i] > threshold THEN Append(f[i - 1], times[i])
                         ELSE f[i - 1]]
           g == [i \in 1..n |-> [s \in S |-> Kept1(i, s)]]
<1>1. n \in Nat /\ \A i \in 1..n : times[i] \in Nat
  BY LenProperties, ElementOfSeq
<1>2. <<>> \in S /\ Len(<<>>) = 0
  OBVIOUS
<1>3. ASSUME NEW i \in 1..n, NEW s \in S
      PROVE  Kept1(i, s) \in S /\ Len(Kept1(i, s)) \in Nat /\ Len(Kept1(i, s)) <= Len(s) + 1
  <2>1. Append(s, times[i]) \in S /\ Len(Append(s, times[i])) = Len(s) + 1 /\ Len(s) \in Nat
    BY <1>1, AppendProperties, LenProperties
  <2> QED
    BY <2>1
<1>4. \A f : /\ Step(f) = [i \in 0..n |-> Step(f)[i]]
             /\ Step(f)[0] = <<>>
             /\ \A i \in 1..n : Step(f)[i] = Kept1(i, f[i - 1])
  <2> TAKE f
  <2>1. 0 \in 0..n /\ \A i \in 1..n : i \in 0..n /\ i # 0
    BY <1>1
  <2> QED
    BY <2>1
<1>5. DeleteOld(times, threshold) = (CHOOSE f : f = Step(f))[n]
  BY DEF DeleteOld
<1> HIDE DEF S, Step, Kept1
<1>6. g \in [1..n -> [S -> S]] /\ \A i \in 1..n, s \in S : g[i][s] = Kept1(i, s)
  BY <1>3
<1> HIDE DEF g
<1>7. PICK f \in [0..n -> S] : f[0] = <<>> /\ \A i \in 1..n : f[i] = g[i][f[i - 1]]
  <2>1. n \in Nat /\ <<>> \in S /\ g \in [1..n -> [S -> S]]
    BY <1>1, <1>2, <1>6
  <2>2. PICK f : SolvesRecursion(f, n, S, <<>>, g)
    BY <2>1, RecursionSolved
  <2> QED
    BY <2>2 DEF SolvesRecursion
<1>8. f = Step(f)
  <2>1. ASSUME NEW i \in 1..n PROVE f[i] = Step(f)[i]
    <3>1. f[i - 1] \in S
      BY <1>1, <1>7
    <3> QED
      BY <1>4, <1>6, <1>7, <3>1
  <2>2. \A i \in 0..n : i = 0 \/ i \in 1..n
    BY <1>1
  <2>3. \A i \in 0..n : f[i] = Step(f)[i]
    BY <1>4, <1>7, <2>1, <2>2
  <2>4. f = [i \in 0..n |-> f[i]] /\ Step(f) = [i \in 0..n |-> Step(f)[i]]
    BY <1>4, <1>7
  <2> QED
    BY <2>3, <2>4
<1>9. PICK w : w = Step(w) /\ DeleteOld(times, threshold) = w[n]
  BY <1>5, <1>8
<1>10. w[0] = <<>> /\ \A i \in 1..n : w[i] = Kept1(i, w[i - 1])
  BY <1>4, <1>9
<1> DEFINE T == {i \in 0..n : w[i] \in S /\ Len(w[i]) \in Nat /\ Len(w[i]) <= i}
<1>11. 0 \in T /\ \A i \in 1..n : i - 1 \in T => i \in T
  <2>1. 0 \in 0..n /\ \A i \in 1..n : i \in 0..n
    BY <1>1
  <2>2. ASSUME NEW i \in 1..n, i - 1 \in T PROVE i \in T
    <3>1. w[i - 1] \in S /\ Len(w[i - 1]) \in Nat /\ Len(w[i - 1]) <= i - 1 /\ i \in Nat
      BY <1>1, <2>2
    <3>2. w[i] \in S /\ Len(w[i]) \in Nat /\ Len(w[i]) <= Len(w[i - 1]) + 1
      BY <1>3, <1>10, <3>1
    <3> QED
      BY <2>1, <3>1, <3>2
  <2> QED
    BY <1>2, <1>10, <2>1, <2>2
<1> HIDE DEF T
<1>12. n \in T
  <2>1. \A i \in 0..n : i \in T
    BY <1>1, <1>11, BoundedInduction
  <2> QED
    BY <1>1, <2>1
<1> QED
  BY <1>9, <1>12 DEF T, S, n

LEMMA WebConstants ==
  /\ WebIdle \in Nat \ {0} /\ WebAbsolute \in Nat \ {0} /\ NonceLife \in Nat \ {0}
  /\ LoginAttempts \in Nat \ {0} /\ LoginWindow \in Nat \ {0} /\ RequestLimit \in Nat \ {0}
  /\ MaxWebClock \in Nat /\ MaxWebCrash \in Nat
<1>1. \A x \in {WebIdle, WebAbsolute, NonceLife, LoginAttempts, LoginWindow, RequestLimit} :
        x \in Nat \ {0}
  BY WebAssumption
<1>2. \A x \in {MaxWebClock, MaxWebCrash} : x \in Nat
  BY WebAssumption
<1> QED
  BY <1>1, <1>2

LEMMA RecentAttemptsAreKept ==
  ASSUME NEW times \in Seq(Nat), NEW now \in Nat
  PROVE  Recent(times, now) \in Seq(Nat) /\ Len(Recent(times, now)) <= Len(times)
<1>1. now - LoginWindow \in Int
  BY WebConstants
<1>2. CASE webStore = "memory"
  <2> DEFINE threshold == now - LoginWindow
             late == {i \in DOMAIN times : times[i] > threshold}
             first == CHOOSE i \in late : \A j \in late : i <= j
  <2>1. Len(times) \in Nat /\ DOMAIN times = 1..Len(times) /\ \A i \in 1..Len(times) : times[i] \in Nat
    BY LenProperties, ElementOfSeq
  <2>2. Recent(times, now) = IF late = {} THEN <<>> ELSE SubSeq(times, first, Len(times))
    BY <1>2 DEF Recent, DropOldHead
  <2>3. CASE late = {}
    <3>1. Recent(times, now) = <<>>
      BY <2>2, <2>3
    <3> QED
      BY <2>1, <3>1
  <2>4. CASE late # {}
    <3>1. late \in SUBSET Nat
      BY <2>1
    <3> HIDE DEF late
    <3>2. first \in late
      <4>1. \E i \in late : \A j \in late : i <= j
        BY <2>4, <3>1, LeastNatural
      <4> QED
        BY <4>1
    <3> HIDE DEF first
    <3>3. first \in 1..Len(times)
      BY <2>1, <3>2 DEF late
    <3>4. \A i \in first..Len(times) : times[i] \in Nat
      BY <2>1, <3>3
    <3>5. /\ SubSeq(times, first, Len(times)) \in Seq(Nat)
          /\ Len(SubSeq(times, first, Len(times))) = Len(times) - first + 1
      BY <2>1, <3>3, <3>4, SubSeqProperties
    <3> QED
      BY <2>1, <2>2, <2>4, <3>3, <3>5
  <2> QED
    BY <2>3, <2>4
<1>3. CASE webStore # "memory"
  BY <1>1, <1>3, OldRowsAreDeleted DEF Recent
<1> QED
  BY <1>2, <1>3

(* A step of the request th.                                                *)
WebRequestStep(th) ==
  \/ \E client \in WebClient, request \in Request : WebRequest(th, client, request)
  \/ \E client \in WebClient : WebRefused(th, client)
  \/ Authenticate(th) \/ Revoke(th)
  \/ ConsumeNonce(th) \/ AllowAttempt(th) \/ ClearAttempts(th) \/ LoginSucceeds(th)
  \/ AppendAudit(th) \/ AuditFails(th)

LEMMA WebNextIs ==
  WebNext <=> WebTick \/ WebRestart \/ \E th \in WebThread : WebRequestStep(th)
BY DEF WebNext, WebRequestStep

(* What is stored of sessions, nonces and attempts stays well typed.         *)
LEMMA SessionsTyped ==
  ASSUME WebTypes, NEW now \in Nat, NEW client \in WebClient
  PROVE  /\ \A t \in WebToken \cup {"no cookie"} :
              Authenticated(t, now, client) \in [WebToken -> WebRow \cup {NoRow}]
         /\ \A t \in WebToken :
              /\ IssueSession(t, now, client) \in [WebToken -> WebRow \cup {NoRow}]
              /\ RevokeSession(t) \in [WebToken -> WebRow \cup {NoRow}]
         /\ Purged(now) \in [WebToken -> WebRow \cup {NoRow}]
<1> USE DEF WebTypes
<1>1. ASSUME NEW t \in WebToken, webSession[t] # NoRow PROVE Ended(t) \in WebRow \cup {NoRow}
  <2>1. webSession[t] \in WebRow
    BY <1>1
  <2>2. [webSession[t] EXCEPT !.revoked = TRUE] \in WebRow
    BY <2>1 DEF WebRow
  <2> QED
    BY <2>2 DEF Ended
<1>2. \A t \in WebToken : webSession[t] # NoRow =>
        [webSession EXCEPT ![t].seen = now] \in [WebToken -> WebRow \cup {NoRow}]
  BY DEF WebRow
<1>3. \A t \in WebToken \cup {"no cookie"} :
        Authenticated(t, now, client) \in [WebToken -> WebRow \cup {NoRow}]
  BY <1>1, <1>2 DEF Authenticated
<1>4. Purged(now) \in [WebToken -> WebRow \cup {NoRow}]
  BY DEF Purged
<1>5. \A t \in WebToken : RevokeSession(t) \in [WebToken -> WebRow \cup {NoRow}]
  BY <1>1 DEF RevokeSession
<1>6. \A t \in WebToken : IssueSession(t, now, client) \in [WebToken -> WebRow \cup {NoRow}]
  <2>1. [client |-> client, created |-> now, seen |-> now, revoked |-> FALSE] \in WebRow
    BY DEF WebRow
  <2> QED
    BY <1>4, <2>1 DEF IssueSession
<1> QED
  BY <1>3, <1>4, <1>5, <1>6

LEMMA NoncesTyped ==
  ASSUME WebTypes
  PROVE  /\ \A now : PurgedNonces(now) \in [WebNonce -> NonceRow \cup {NoRow}]
         /\ \A n, now : PopNonce(n, now) \in [WebNonce -> NonceRow \cup {NoRow}]
         /\ \A client \in WebClient, kept \in [WebNonce -> NonceRow \cup {NoRow}] :
              LoginForm(kept, client) => webNonce' \in [WebNonce -> NonceRow \cup {NoRow}]
<1> USE DEF WebTypes
<1>1. \A now : PurgedNonces(now) \in [WebNonce -> NonceRow \cup {NoRow}]
  BY DEF PurgedNonces
<1>2. \A n, now : PopNonce(n, now) \in [WebNonce -> NonceRow \cup {NoRow}]
  BY <1>1 DEF PopNonce
<1>3. ASSUME NEW client \in WebClient, NEW kept \in [WebNonce -> NonceRow \cup {NoRow}],
             LoginForm(kept, client)
      PROVE  webNonce' \in [WebNonce -> NonceRow \cup {NoRow}]
  <2>1. [client |-> client, expires |-> webClock + NonceLife] \in NonceRow
    BY WebConstants DEF NonceRow
  <2> QED
    BY <1>3, <2>1 DEF LoginForm
<1> QED
  BY <1>1, <1>2, <1>3

LEMMA AttemptsTyped ==
  ASSUME WebTypes, NEW client \in WebClient, NEW now \in Nat
  PROVE  /\ RecentAttempts(client, now) \in [WebClient -> Seq(Nat)]
         /\ \A c \in WebClient : Len(RecentAttempts(client, now)[c]) <= Len(webAttempts[c])
         /\ RecentAttempts(client, now)[client] = Recent(webAttempts[client], now)
<1>1. \A c \in WebClient : /\ webAttempts[c] \in Seq(Nat) /\ Len(webAttempts[c]) \in Nat
                           /\ Recent(webAttempts[c], now) \in Seq(Nat)
                           /\ Len(Recent(webAttempts[c], now)) <= Len(webAttempts[c])
  BY RecentAttemptsAreKept, LenProperties DEF WebTypes
<1> QED
  BY <1>1 DEF RecentAttempts

(* A request under way has every field, and keeps them as it goes on.        *)
LEMMA RequestUnderWay ==
  ASSUME WebTypes, NEW th \in WebThread, webThread[th].at # "idle"
  PROVE  LET r == webThread[th] IN
         /\ r \in WebWork /\ r # WebIdleThread
         /\ \A b \in BOOLEAN :
              /\ [r EXCEPT !.at = "viewed", !.ended = b] \in WebWork
              /\ [r EXCEPT !.at = "revoke", !.ended = b] \in WebWork
         /\ [r EXCEPT !.at = "revoked"] \in WebWork
         /\ [r EXCEPT !.at = "attempt", !.now = webClock] \in WebWork
         /\ [r EXCEPT !.at = "clear"] \in WebWork
         /\ [r EXCEPT !.at = "issue", !.now = webClock] \in WebWork
         /\ \A t \in WebToken :
              [r EXCEPT !.at = "issued", !.token = t, !.nonce = "none", !.now = webClock] \in WebWork
<1> DEFINE r == webThread[th]
<1>1. r \in WebWork \cup {WebIdleThread} /\ webClock \in Nat
  BY WebConstants DEF WebTypes
<1>2. r \in WebWork /\ r # WebIdleThread
  BY <1>1, WebValues
<1> HIDE DEF r
<1>3. /\ \A b \in BOOLEAN : /\ [r EXCEPT !.at = "viewed", !.ended = b] \in WebWork
                            /\ [r EXCEPT !.at = "revoke", !.ended = b] \in WebWork
      /\ [r EXCEPT !.at = "revoked"] \in WebWork
      /\ [r EXCEPT !.at = "clear"] \in WebWork
  BY <1>2 DEF WebWork
<1>4. /\ [r EXCEPT !.at = "attempt", !.now = webClock] \in WebWork
      /\ [r EXCEPT !.at = "issue", !.now = webClock] \in WebWork
  BY <1>1, <1>2 DEF WebWork
<1>5. \A t \in WebToken :
        [r EXCEPT !.at = "issued", !.token = t, !.nonce = "none", !.now = webClock] \in WebWork
  BY <1>1, <1>2 DEF WebWork
<1> QED
  BY <1>2, <1>3, <1>4, <1>5 DEF r

(* What the requests do to the thread that serves them: it becomes idle or   *)
(* goes on with a request that stands.                                       *)
WebMove(th) ==
  /\ webThread' = [webThread EXCEPT ![th] = webThread'[th]]
  /\ webThread'[th] \in WebWork \cup {WebIdleThread}
  /\ webThread'[th].at = "logout" => webThread'[th].token \in WebToken
  /\ webThread'[th].at \in {"consume", "attempt", "clear", "issue"} =>
       webThread'[th].nonce \in WebNonce
  /\ webThread'[th].at \in {"viewed", "revoke", "revoked", "issued"} =>
       webThread'[th].token \in webIssued'
  /\ webThread'[th].at = "revoked" => webThread'[th].token \in webEnded'
  /\ webThread'[th] # WebIdleThread => ~webThread'[th].ended

LEMMA MoveStands ==
  ASSUME WebInv, NEW th \in WebThread, NEW q \in WebWork,
         webThread' = [webThread EXCEPT ![th] = q], ~q.ended,
         q.at = "logout" => q.token \in WebToken,
         q.at \in {"consume", "attempt", "clear", "issue"} => q.nonce \in WebNonce,
         q.at \in {"viewed", "revoke", "revoked", "issued"} => q.token \in webIssued',
         q.at = "revoked" => q.token \in webEnded'
  PROVE  WebMove(th)
<1>1. webThread \in [WebThread -> WebWork \cup {WebIdleThread}]
  BY DEF WebInv, WebTypes
<1>2. webThread'[th] = q
  BY <1>1
<1> QED
  BY <1>2 DEF WebMove

LEMMA NewRequestsStand ==
  ASSUME WebInv, NEW th \in WebThread, NEW client \in WebClient, NEW request \in Request,
         WebRequest(th, client, request)
  PROVE  WebMove(th)
<1> DEFINE r == [at |-> request.at, token |-> request.token, nonce |-> request.nonce,
                 good |-> request.good, client |-> client, now |-> webClock, ended |-> FALSE]
<1>1. webThread' = [webThread EXCEPT ![th] = r] /\ webThread \in [WebThread -> WebWork \cup {WebIdleThread}]
  BY DEF WebRequest, Goto, WebInv, WebTypes
<1>2. webClock \in Nat
  BY WebConstants DEF WebInv, WebTypes
<1>3. /\ request.at \in {"form", "view", "logout", "consume"}
      /\ request.token \in WebToken \cup {"no cookie"}
      /\ request.nonce \in WebNonce \cup {"none"} /\ request.good \in BOOLEAN
      /\ request.at = "logout" => request.token \in WebToken
      /\ request.at = "consume" => request.nonce \in WebNonce
  BY DEF Request
<1>4. r \in WebWork
  BY <1>2, <1>3 DEF WebWork
<1> QED
  BY <1>1, <1>3, <1>4 DEF WebMove

LEMMA RequestsMove ==
  ASSUME WebInv, NEW th \in WebThread, WebRequestStep(th)
  PROVE  \/ WebMove(th)
         \/ UNCHANGED webThread /\ UNCHANGED webIssued /\ UNCHANGED webEnded
<1> DEFINE r == webThread[th]
<1>0. /\ webThread \in [WebThread -> WebWork \cup {WebIdleThread}]
      /\ WebTypes /\ WebTargets /\ StoredSessions /\ EndedSessionsStayEnded
  BY DEF WebInv, WebTypes
<1>1. ASSUME Return(th) PROVE WebMove(th)
  BY <1>0, <1>1, WebValues DEF Return, Goto, WebMove, WebIdleThread
<1>2. ASSUME NEW client \in WebClient, WebRefused(th, client)
      PROVE  UNCHANGED webThread /\ UNCHANGED webIssued /\ UNCHANGED webEnded
  BY <1>2 DEF WebRefused, webHistory
<1>3. CASE Authenticate(th)
  <2>1. r.at # "idle" /\ webIssued' = webIssued
    BY <1>3 DEF Authenticate
  <2>2. CASE Return(th)
    BY <1>1, <2>2
  <2>3. ASSUME NEW stage \in {"viewed", "revoke"},
               r.token # "no cookie" /\ SessionIsOpen(r.token, r.now, r.client),
               Goto(th, [r EXCEPT !.at = stage, !.ended = r.token \in webEnded])
        PROVE  WebMove(th)
    <3>1. r \in WebWork
      BY <1>0, <2>1, RequestUnderWay, Zenon
    <3>2. r.token \in WebToken
      BY <2>3, <3>1 DEF WebWork
    <3>3. webSession[r.token] # NoRow /\ ~webSession[r.token].revoked
      BY <2>3 DEF SessionIsOpen
    <3>4. r.token \in webIssued /\ r.token \notin webEnded
      BY <1>0, <3>2, <3>3 DEF StoredSessions
    <3> DEFINE q == [r EXCEPT !.at = stage, !.ended = FALSE]
    <3>5. q \in WebWork /\ q.at = stage /\ q.token = r.token
      BY <3>1 DEF WebWork
    <3>6. ~q.ended
      BY <3>1 DEF WebWork
    <3>7. webThread' = [webThread EXCEPT ![th] = q]
      <4>1. (r.token \in webEnded) = FALSE
        BY <3>4
      <4> QED
        BY <2>3, <4>1 DEF Goto
    <3> HIDE DEF q, r
    <3> QED
      BY <2>1, <2>3, <3>4, <3>5, <3>6, <3>7, MoveStands
  <2> QED
    BY <1>3, <2>2, <2>3 DEF Authenticate
<1>4. CASE Revoke(th)
  <2>1. r.at # "idle" /\ r.at = "revoke" /\ webIssued' = webIssued /\ webEnded' = webEnded \cup {r.token}
    BY <1>4 DEF Revoke
  <2>2. r \in WebWork /\ r # WebIdleThread /\ [r EXCEPT !.at = "revoked"] \in WebWork
    BY <1>0, <2>1, RequestUnderWay, Zenon
  <2>3. r.token \in webIssued /\ ~r.ended
    BY <1>0, <2>1, <2>2 DEF WebTargets, EndedSessionsStayEnded
  <2> DEFINE q == [r EXCEPT !.at = "revoked"]
  <2>4. q \in WebWork /\ q.at = "revoked" /\ q.token = r.token /\ ~q.ended
    BY <2>2, <2>3 DEF WebWork
  <2>5. webThread' = [webThread EXCEPT ![th] = q]
    BY <1>4 DEF Revoke, Goto
  <2> HIDE DEF q, r
  <2> QED
    BY <2>1, <2>3, <2>4, <2>5, MoveStands
<1>5. ASSUME NEW q \in WebWork, r.at \in {"consume", "attempt", "clear"},
             q.at \in {"attempt", "clear", "issue"}, q.nonce = r.nonce, q.ended = r.ended,
             webThread' = [webThread EXCEPT ![th] = q]
      PROVE  WebMove(th)
  <2>1. r \in WebWork /\ r # WebIdleThread
    BY <1>0, <1>5, RequestUnderWay, Zenon
  <2>2. r.nonce \in WebNonce /\ ~r.ended
    BY <1>0, <1>5, <2>1 DEF WebTargets, EndedSessionsStayEnded
  <2>3. ~q.ended /\ q.nonce \in WebNonce
    BY <1>5, <2>2
  <2> HIDE DEF r
  <2> QED
    BY <1>5, <2>3, MoveStands
<1>6. CASE ConsumeNonce(th)
  <2> DEFINE q == [r EXCEPT !.at = "attempt", !.now = webClock]
  <2>1. r.at # "idle" /\ r.at = "consume"
    BY <1>6 DEF ConsumeNonce
  <2>2. r \in WebWork /\ q \in WebWork
    BY <1>0, <2>1, RequestUnderWay, Zenon
  <2>3. q.at = "attempt" /\ q.nonce = r.nonce /\ q.ended = r.ended
    BY <2>2 DEF WebWork
  <2>4. Return(th) \/ webThread' = [webThread EXCEPT ![th] = q]
    BY <1>6 DEF ConsumeNonce, Goto
  <2> HIDE DEF q, r
  <2> QED
    BY <1>1, <1>5, <2>1, <2>2, <2>3, <2>4
<1>7. CASE AllowAttempt(th)
  <2> DEFINE q == [r EXCEPT !.at = "clear"]
  <2>1. r.at # "idle" /\ r.at = "attempt"
    BY <1>7 DEF AllowAttempt
  <2>2. r \in WebWork /\ q \in WebWork
    BY <1>0, <2>1, RequestUnderWay, Zenon
  <2>3. q.at = "clear" /\ q.nonce = r.nonce /\ q.ended = r.ended
    BY <2>2 DEF WebWork
  <2>4. Return(th) \/ webThread' = [webThread EXCEPT ![th] = q]
    BY <1>7 DEF AllowAttempt, Goto
  <2> HIDE DEF q, r
  <2> QED
    BY <1>1, <1>5, <2>1, <2>2, <2>3, <2>4
<1>8. CASE ClearAttempts(th)
  <2> DEFINE q == [r EXCEPT !.at = "issue", !.now = webClock]
  <2>1. r.at # "idle" /\ r.at = "clear"
    BY <1>8 DEF ClearAttempts
  <2>2. r \in WebWork /\ q \in WebWork
    BY <1>0, <2>1, RequestUnderWay, Zenon
  <2>3. q.at = "issue" /\ q.nonce = r.nonce /\ q.ended = r.ended
    BY <2>2 DEF WebWork
  <2>4. webThread' = [webThread EXCEPT ![th] = q]
    BY <1>8 DEF ClearAttempts, Goto
  <2> HIDE DEF q, r
  <2> QED
    BY <1>5, <2>1, <2>2, <2>3, <2>4
<1>9. CASE LoginSucceeds(th)
  <2>1. r.at # "idle" /\ r.at = "issue"
    BY <1>9 DEF LoginSucceeds
  <2> DEFINE q(t) == [r EXCEPT !.at = "issued", !.token = t, !.nonce = "none", !.now = webClock]
  <2>2. PICK t \in WebToken \ webIssued :
          webIssued' = webIssued \cup {t} /\ webThread' = [webThread EXCEPT ![th] = q(t)]
    BY <1>9 DEF LoginSucceeds, Goto
  <2>3. r \in WebWork /\ r # WebIdleThread /\ q(t) \in WebWork
    BY <1>0, <2>1, RequestUnderWay, Zenon
  <2>4. ~r.ended
    BY <1>0, <2>3 DEF EndedSessionsStayEnded
  <2>5. q(t).at = "issued" /\ q(t).token = t /\ ~q(t).ended
    BY <2>3, <2>4 DEF WebWork
  <2>6. t \in webIssued'
    BY <2>2
  <2> HIDE DEF q, r
  <2> QED
    BY <2>2, <2>3, <2>5, <2>6, MoveStands
<1>10. CASE AppendAudit(th) \/ AuditFails(th)
  BY <1>1, <1>10 DEF AppendAudit, AuditFails
<1> QED
  BY <1>1, <1>2, <1>3, <1>4, <1>6, <1>7, <1>8, <1>9, <1>10, NewRequestsStand DEF WebRequestStep

LEMMA HistoriesGrow ==
  ASSUME [WebNext]_webVars
  PROVE  webIssued \subseteq webIssued' /\ webEnded \subseteq webEnded'
<1>1. ASSUME NEW th \in WebThread, WebRequestStep(th)
      PROVE  webIssued \subseteq webIssued' /\ webEnded \subseteq webEnded'
  <2>1. ASSUME NEW client, NEW request, WebRequest(th, client, request) \/ WebRefused(th, client)
        PROVE  UNCHANGED webHistory
    BY <2>1 DEF WebRequest, WebRefused
  <2>2. CASE \/ ConsumeNonce(th) \/ AllowAttempt(th) \/ ClearAttempts(th)
             \/ AppendAudit(th) \/ AuditFails(th)
    BY <2>2 DEF ConsumeNonce, AllowAttempt, ClearAttempts, AppendAudit, AuditFails, webHistory
  <2>3. CASE Authenticate(th)
    BY <2>3 DEF Authenticate
  <2>4. CASE Revoke(th)
    BY <2>4 DEF Revoke
  <2>5. CASE LoginSucceeds(th)
    BY <2>5 DEF LoginSucceeds
  <2> QED
    BY <1>1, <2>1, <2>2, <2>3, <2>4, <2>5 DEF WebRequestStep, webHistory
<1>2. CASE WebTick \/ UNCHANGED webVars
  BY <1>2 DEF WebTick, webVars, webHistory
<1>3. CASE WebRestart
  BY <1>3 DEF WebRestart
<1> QED
  BY <1>1, <1>2, <1>3, WebNextIs

LEMMA ThreadStep ==
  ASSUME WebInv, [WebNext]_webVars
  PROVE  /\ webThread' \in [WebThread -> WebWork \cup {WebIdleThread}]
         /\ WebTargets' /\ EndedSessionsStayEnded'
<1>0. /\ webThread \in [WebThread -> WebWork \cup {WebIdleThread}]
      /\ WebTargets /\ EndedSessionsStayEnded
      /\ webIssued \subseteq webIssued' /\ webEnded \subseteq webEnded'
  BY HistoriesGrow DEF WebInv, WebTypes
<1>1. CASE UNCHANGED webThread
  BY <1>0, <1>1 DEF WebTargets, EndedSessionsStayEnded
<1>2. ASSUME NEW th \in WebThread, WebMove(th)
      PROVE  /\ webThread' \in [WebThread -> WebWork \cup {WebIdleThread}]
             /\ WebTargets' /\ EndedSessionsStayEnded'
  <2>1. \A u \in WebThread : u # th => webThread'[u] = webThread[u]
    BY <1>0, <1>2 DEF WebMove
  <2>2. webThread' \in [WebThread -> WebWork \cup {WebIdleThread}]
    BY <1>0, <1>2 DEF WebMove
  <2>3. ASSUME NEW u \in WebThread
        PROVE  /\ webThread'[u].at = "logout" => webThread'[u].token \in WebToken
               /\ webThread'[u].at \in {"consume", "attempt", "clear", "issue"} =>
                    webThread'[u].nonce \in WebNonce
               /\ webThread'[u].at \in {"viewed", "revoke", "revoked", "issued"} =>
                    webThread'[u].token \in webIssued'
               /\ webThread'[u].at = "revoked" => webThread'[u].token \in webEnded'
    <3>1. CASE u = th
      BY <1>2, <3>1 DEF WebMove
    <3>2. CASE u # th
      BY <1>0, <2>1, <3>2 DEF WebTargets
    <3> QED
      BY <3>1, <3>2
  <2>4. ASSUME NEW u \in WebThread, webThread'[u] # WebIdleThread PROVE ~webThread'[u].ended
    <3>1. CASE u = th
      BY <1>2, <2>4, <3>1 DEF WebMove
    <3>2. CASE u # th
      BY <1>0, <2>1, <2>4, <3>2 DEF EndedSessionsStayEnded
    <3> QED
      BY <3>1, <3>2
  <2> QED
    BY <2>2, <2>3, <2>4 DEF WebTargets, EndedSessionsStayEnded
<1>3. CASE WebRestart
  <2>1. \A u \in WebThread : webThread'[u] = WebIdleThread
    BY <1>3 DEF WebRestart
  <2>2. webThread' \in [WebThread -> WebWork \cup {WebIdleThread}]
    BY <1>3 DEF WebRestart
  <2> QED
    BY <2>1, <2>2 DEF WebTargets, EndedSessionsStayEnded, WebIdleThread
<1>4. CASE WebTick \/ UNCHANGED webVars
  BY <1>1, <1>4 DEF WebTick, webVars
<1> QED
  BY <1>1, <1>2, <1>3, <1>4, RequestsMove, WebNextIs

(* The stores and limits.                                                    *)
LEMMA StoreTypesStep ==
  ASSUME WebInv, [WebNext]_webVars
  PROVE  WebTypes'
<1>0. WebTypes /\ webThread' \in [WebThread -> WebWork \cup {WebIdleThread}]
  BY ThreadStep DEF WebInv
<1> DEFINE Rest == /\ webClock' \in 0..MaxWebClock /\ webCrashes' \in 0..MaxWebCrash
                   /\ webSession' \in [WebToken -> WebRow \cup {NoRow}]
                   /\ webNonce' \in [WebNonce -> NonceRow \cup {NoRow}]
                   /\ webAttempts' \in [WebClient -> Seq(Nat)]
                   /\ webRequests' \in [WebClient -> 0..RequestLimit]
                   /\ webPassed' \in [WebNonce -> Nat]
<1> SUFFICES Rest
  BY <1>0 DEF WebTypes
<1>1. ASSUME NEW th \in WebThread, WebRequestStep(th) PROVE Rest
  <2> DEFINE r == webThread[th]
  <2>1. webThread[th].at # "idle" => /\ r \in WebWork /\ r.client \in WebClient /\ r.now \in Nat
                        /\ r.token \in WebToken \cup {"no cookie"}
    <3> SUFFICES ASSUME webThread[th].at # "idle"
                 PROVE  /\ r \in WebWork /\ r.client \in WebClient /\ r.now \in Nat
                        /\ r.token \in WebToken \cup {"no cookie"}
      OBVIOUS
    <3>1. r \in WebWork
      BY <1>0, RequestUnderWay, Zenon
    <3> QED
      BY <3>1 DEF WebWork
  <2>2. ASSUME NEW client \in WebClient, NEW request \in Request, WebRequest(th, client, request)
        PROVE  Rest
    <3>1. webRequests' = [webRequests EXCEPT ![client] = @ + 1] /\ webRequests[client] < RequestLimit
      BY <2>2 DEF WebRequest, MayRequest
    <3>2. webRequests' \in [WebClient -> 0..RequestLimit]
      BY <1>0, <3>1, WebConstants DEF WebTypes
    <3> QED
      BY <1>0, <2>2, <3>2 DEF WebRequest, WebTypes, webHistory
  <2>3. ASSUME NEW client \in WebClient, WebRefused(th, client) PROVE Rest
    BY <1>0, <2>3 DEF WebRefused, WebTypes, webStateVars, webHistory
  <2>4. CASE Authenticate(th)
    <3>1. /\ webThread[th].at # "idle" /\ webSession' = Authenticated(r.token, r.now, r.client)
          /\ webNonce' = webNonce \/ LoginForm(PurgedNonces(webClock), r.client)
          /\ UNCHANGED <<webStore, webClock, webAttempts, webRequests, webIssued, webPassed, webCrashes>>
      BY <2>4 DEF Authenticate
    <3> HIDE DEF r
    <3>2. webSession' \in [WebToken -> WebRow \cup {NoRow}]
      BY <1>0, <2>1, <3>1, SessionsTyped
    <3>3. webNonce' \in [WebNonce -> NonceRow \cup {NoRow}]
      BY <1>0, <2>1, <3>1, NoncesTyped DEF WebTypes
    <3> QED
      BY <1>0, <3>1, <3>2, <3>3 DEF WebTypes
  <2>5. CASE Revoke(th)
    <3>1. /\ r.at = "revoke" /\ webThread[th].at # "idle" /\ webSession' = RevokeSession(r.token)
          /\ UNCHANGED <<webClock, webNonce, webAttempts, webRequests, webPassed, webCrashes>>
      BY <2>5 DEF Revoke
    <3>2. r.token \in WebToken
      BY <3>1 DEF WebInv, WebTargets, StoredSessions
    <3> HIDE DEF r
    <3>3. webSession' \in [WebToken -> WebRow \cup {NoRow}]
      BY <1>0, <2>1, <3>1, <3>2, SessionsTyped
    <3> QED
      BY <1>0, <3>1, <3>3 DEF WebTypes
  <2>6. CASE ConsumeNonce(th)
    <3>1. /\ r.at = "consume" /\ webThread[th].at # "idle"
          /\ \/ webNonce' = PopNonce(r.nonce, r.now)
             \/ LoginForm(PopNonce(r.nonce, r.now), r.client)
          /\ webPassed' = webPassed \/ webPassed' = [webPassed EXCEPT ![r.nonce] = @ + 1]
          /\ UNCHANGED <<webClock, webSession, webAttempts, webRequests, webCrashes>>
      BY <2>6 DEF ConsumeNonce
    <3>2. webPassed' \in [WebNonce -> Nat]
      BY <1>0, <3>1 DEF WebTypes
    <3> HIDE DEF r
    <3> DEFINE kept == PopNonce(r.nonce, r.now)
    <3>4. kept \in [WebNonce -> NonceRow \cup {NoRow}]
      BY <1>0, NoncesTyped
    <3>5. webNonce' = kept \/ LoginForm(kept, r.client)
      BY <3>1
    <3> HIDE DEF kept
    <3>3. webNonce' \in [WebNonce -> NonceRow \cup {NoRow}]
      BY <1>0, <2>1, <3>1, <3>4, <3>5, NoncesTyped
    <3> QED
      BY <1>0, <3>1, <3>2, <3>3 DEF WebTypes
  <2>7. CASE AllowAttempt(th)
    <3>1. /\ r.at = "attempt" /\ webThread[th].at # "idle"
          /\ webNonce' = webNonce \/ LoginForm(PurgedNonces(webClock), r.client)
          /\ \/ webAttempts' = RecentAttempts(r.client, r.now)
             \/ webAttempts' = [RecentAttempts(r.client, r.now) EXCEPT ![r.client] = Append(@, r.now)]
          /\ UNCHANGED <<webClock, webSession, webRequests, webPassed, webCrashes>>
      BY <2>7 DEF AllowAttempt, webHistory
    <3> HIDE DEF r
    <3>2. webNonce' \in [WebNonce -> NonceRow \cup {NoRow}]
      BY <1>0, <2>1, <3>1, NoncesTyped DEF WebTypes
    <3> DEFINE recent == RecentAttempts(r.client, r.now)
    <3>3. recent \in [WebClient -> Seq(Nat)]
      BY <1>0, <2>1, <3>1, AttemptsTyped
    <3> HIDE DEF recent
    <3>4. Append(recent[r.client], r.now) \in Seq(Nat)
      BY <2>1, <3>1, <3>3, AppendProperties
    <3>5. webAttempts' \in [WebClient -> Seq(Nat)]
      BY <3>1, <3>3, <3>4 DEF recent
    <3> QED
      BY <1>0, <3>1, <3>2, <3>5 DEF WebTypes
  <2>8. CASE ClearAttempts(th)
    <3>1. <<>> \in Seq(Nat)
      OBVIOUS
    <3> QED
      BY <1>0, <2>8, <3>1 DEF ClearAttempts, WebTypes, webHistory
  <2>9. CASE LoginSucceeds(th)
    <3>1. /\ r.at = "issue" /\ webThread[th].at # "idle"
          /\ \E t \in WebToken : webSession' = IssueSession(t, r.now, r.client)
          /\ UNCHANGED <<webClock, webNonce, webAttempts, webRequests, webPassed, webCrashes>>
      BY <2>9 DEF LoginSucceeds
    <3> HIDE DEF r
    <3>3. PICK t \in WebToken : webSession' = IssueSession(t, r.now, r.client)
      BY <3>1
    <3>2. webSession' \in [WebToken -> WebRow \cup {NoRow}]
      BY <1>0, <2>1, <3>1, <3>3, SessionsTyped
    <3> QED
      BY <1>0, <3>1, <3>2 DEF WebTypes
  <2>10. CASE AppendAudit(th)
    BY <1>0, <2>10 DEF AppendAudit, WebTypes, webStateVars, webHistory
  <2>11. CASE AuditFails(th)
    <3>1. webCrashes' \in 0..MaxWebCrash
      BY <1>0, <2>11, WebConstants DEF AuditFails, WebTypes
    <3> QED
      BY <1>0, <2>11, <3>1 DEF AuditFails, WebTypes, webStateVars, webHistory
  <2> QED
    BY <1>1, <2>2, <2>3, <2>4, <2>5, <2>6, <2>7, <2>8, <2>9, <2>10, <2>11 DEF WebRequestStep
<1>2. CASE WebTick
  BY <1>0, <1>2, WebConstants DEF WebTick, WebTypes, webStateVars, webHistory
<1>3. CASE WebRestart
  <2>1. /\ webClock' \in 0..MaxWebClock /\ webCrashes' \in 0..MaxWebCrash
        /\ webPassed' \in [WebNonce -> Nat]
    BY <1>0, <1>3, WebConstants DEF WebRestart, WebTypes
  <2>2. webNonce' \in [WebNonce -> NonceRow \cup {NoRow}]
    BY <1>3 DEF WebRestart
  <2>3. CASE webStore = "postgres"
    BY <1>0, <1>3, <2>1, <2>2, <2>3 DEF WebRestart, WebTypes
  <2>4. CASE webStore # "postgres"
    <3>1. <<>> \in Seq(Nat) /\ 0 \in 0..RequestLimit
      BY WebConstants
    <3>2. /\ webSession' = [t \in WebToken |-> NoRow] /\ webAttempts' = [c \in WebClient |-> <<>>]
          /\ webRequests' = [c \in WebClient |-> 0]
      BY <1>3, <2>4 DEF WebRestart
    <3> QED
      BY <2>1, <2>2, <3>1, <3>2
  <2> QED
    BY <2>3, <2>4
<1>4. CASE UNCHANGED webVars
  BY <1>0, <1>4 DEF webVars, WebTypes, webStateVars, webHistory
<1> QED
  BY <1>1, <1>2, <1>3, <1>4, WebNextIs

(* A nonce that was let through was popped, and its name is not given out    *)
(* again.                                                                    *)
LEMMA NonceStep ==
  ASSUME WebInv, [WebNext]_webVars
  PROVE  SpentNonces'
<1>0. WebTypes /\ SpentNonces /\ WebTargets
  BY DEF WebInv
<1> DEFINE Spent(kept) == \A n \in WebNonce : webPassed[n] # 0 => kept[n] = NoRow
<1>1. ASSUME NEW kept, NEW client, Spent(kept), LoginForm(kept, client), UNCHANGED webPassed
      PROVE  SpentNonces'
  BY <1>0, <1>1 DEF LoginForm, SpentNonces
<1>2. ASSUME NEW now PROVE Spent(PurgedNonces(now))
  BY <1>0 DEF PurgedNonces, SpentNonces
<1>3. ASSUME NEW n, NEW now PROVE Spent(PopNonce(n, now))
  BY <1>2 DEF PopNonce
<1>4. CASE UNCHANGED <<webNonce, webPassed>>
  BY <1>0, <1>4 DEF SpentNonces
<1>5. ASSUME NEW th \in WebThread, WebRequestStep(th) PROVE SpentNonces'
  <2> DEFINE r == webThread[th]
  <2>1. ASSUME NEW client, NEW request, WebRequest(th, client, request) \/ WebRefused(th, client)
        PROVE  UNCHANGED <<webNonce, webPassed>>
    BY <2>1 DEF WebRequest, WebRefused, webStateVars, webHistory
  <2>2. CASE \/ Revoke(th) \/ ClearAttempts(th) \/ LoginSucceeds(th)
             \/ AppendAudit(th) \/ AuditFails(th)
    BY <1>4, <2>2 DEF Revoke, ClearAttempts, LoginSucceeds, AppendAudit, AuditFails, webStateVars, webHistory
  <2>3. CASE Authenticate(th)
    <3>1. /\ UNCHANGED webNonce \/ LoginForm(PurgedNonces(webClock), r.client)
          /\ UNCHANGED webPassed
      BY <2>3 DEF Authenticate
    <3> HIDE DEF Spent, r
    <3> QED
      BY <1>1, <1>2, <1>4, <3>1
  <2>4. CASE AllowAttempt(th)
    <3>1. /\ UNCHANGED webNonce \/ LoginForm(PurgedNonces(webClock), r.client)
          /\ UNCHANGED webPassed
      BY <2>4 DEF AllowAttempt, webHistory
    <3> HIDE DEF Spent, r
    <3> QED
      BY <1>1, <1>2, <1>4, <3>1
  <2>5. CASE ConsumeNonce(th)
    <3>1. r.nonce \in WebNonce
      BY <1>0, <2>5 DEF ConsumeNonce, WebTargets
    <3>2. CASE /\ NonceIsGood(r.nonce, r.now, r.client)
               /\ webNonce' = PopNonce(r.nonce, r.now)
               /\ webPassed' = [webPassed EXCEPT ![r.nonce] = @ + 1]
      <4>1. webPassed[r.nonce] = 0
        BY <1>0, <3>1, <3>2 DEF NonceIsGood, SpentNonces
      <4>2. webPassed'[r.nonce] = 1 /\ webNonce'[r.nonce] = NoRow
        BY <1>0, <3>1, <3>2, <4>1 DEF PopNonce, WebTypes
      <4>3. \A n \in WebNonce : n # r.nonce => webPassed'[n] = webPassed[n]
        BY <1>0, <3>2 DEF WebTypes
      <4>4. \A n \in WebNonce : webPassed[n] # 0 => webNonce'[n] = NoRow
        BY <1>3, <3>2
      <4> HIDE DEF r
      <4> QED
        BY <1>0, <4>2, <4>3, <4>4 DEF SpentNonces
    <3>3. CASE LoginForm(PopNonce(r.nonce, r.now), r.client) /\ UNCHANGED webPassed
      <4> HIDE DEF Spent, r
      <4> QED
        BY <1>1, <1>3, <3>3
    <3> QED
      BY <2>5, <3>2, <3>3 DEF ConsumeNonce
  <2> QED
    BY <1>4, <1>5, <2>1, <2>2, <2>3, <2>4, <2>5 DEF WebRequestStep
<1>6. CASE WebRestart
  BY <1>0, <1>6 DEF WebRestart, SpentNonces
<1>7. CASE WebTick \/ UNCHANGED webVars
  BY <1>4, <1>7 DEF WebTick, webVars, webStateVars, webHistory
<1> QED
  BY <1>5, <1>6, <1>7, WebNextIs

(* A session that ended stays ended, whichever backend keeps it.             *)
LEMMA SessionStep ==
  ASSUME WebInv, [WebNext]_webVars
  PROVE  StoredSessions'
<1>0. WebTypes /\ StoredSessions /\ WebTargets
  BY DEF WebInv
<1>1. CASE UNCHANGED <<webSession, webIssued, webEnded>>
  BY <1>0, <1>1 DEF StoredSessions
<1>2. ASSUME NEW t \in WebToken, webSession[t] # NoRow
      PROVE  Ended(t) # NoRow => Ended(t).revoked
  <2>1. webSession[t] \in WebRow
    BY <1>0, <1>2 DEF WebTypes
  <2> QED
    BY <2>1 DEF Ended, WebRow
<1>3. ASSUME NEW th \in WebThread, WebRequestStep(th) PROVE StoredSessions'
  <2> DEFINE r == webThread[th]
  <2>1. ASSUME NEW client, NEW request, WebRequest(th, client, request) \/ WebRefused(th, client)
        PROVE  UNCHANGED <<webSession, webIssued, webEnded>>
    BY <2>1 DEF WebRequest, WebRefused, webStateVars, webHistory
  <2>2. CASE \/ ConsumeNonce(th) \/ AllowAttempt(th) \/ ClearAttempts(th)
             \/ AppendAudit(th) \/ AuditFails(th)
    BY <1>1, <2>2 DEF ConsumeNonce, AllowAttempt, ClearAttempts, AppendAudit, AuditFails, webStateVars, webHistory
  <2>3. CASE Authenticate(th)
    <3> DEFINE after == Authenticated(r.token, r.now, r.client)
    <3>1. /\ webSession' = after /\ webIssued' = webIssued
          /\ webEnded' = webEnded \cup {t \in WebToken : webSession[t] # NoRow
                                                         /\ (after[t] = NoRow \/ after[t].revoked)}
      BY <2>3 DEF Authenticate
    <3>2. ASSUME NEW t \in WebToken
          PROVE  /\ webSession[t] = NoRow => after[t] = NoRow
                 /\ webSession[t] # NoRow /\ webSession[t].revoked => after[t] = webSession[t]
      <4>1. after = webSession
              \/ (/\ r.token \in WebToken /\ webSession[r.token] # NoRow
                  /\ ~webSession[r.token].revoked
                  /\ \/ after = [webSession EXCEPT ![r.token].seen = r.now]
                     \/ after = [webSession EXCEPT ![r.token] = Ended(r.token)])
        <5>1. r.token \in WebToken \cup {"no cookie"}
          <6>1. r.at # "idle"
            BY <2>3 DEF Authenticate
          <6>2. r \in WebWork
            BY <1>0, <6>1, RequestUnderWay, Zenon
          <6> QED
            BY <6>2 DEF WebWork
        <5> HIDE DEF r
        <5> QED
          BY <5>1 DEF Authenticated
      <4> HIDE DEF after, r
      <4> QED
        BY <1>0, <4>1 DEF WebTypes
    <3> HIDE DEF after, r
    <3> QED
      BY <1>0, <3>1, <3>2 DEF StoredSessions
  <2>4. CASE Revoke(th)
    <3>1. /\ r.at = "revoke" /\ webSession' = RevokeSession(r.token) /\ webIssued' = webIssued
          /\ webEnded' = webEnded \cup {r.token}
      BY <2>4 DEF Revoke
    <3>2. r.token \in webIssued /\ r.token \in WebToken
      BY <1>0, <3>1 DEF WebTargets, StoredSessions
    <3> HIDE DEF r
    <3>3. CASE webSession[r.token] = NoRow
      BY <1>0, <3>1, <3>2, <3>3 DEF StoredSessions, RevokeSession
    <3>4. CASE webSession[r.token] # NoRow
      <4>1. webSession' = [webSession EXCEPT ![r.token] = Ended(r.token)]
        BY <3>1, <3>4 DEF RevokeSession
      <4>2. \A t \in WebToken : webSession'[t] = IF t = r.token THEN Ended(t) ELSE webSession[t]
        BY <1>0, <4>1 DEF WebTypes
      <4> QED
        BY <1>0, <1>2, <3>1, <3>2, <3>4, <4>2 DEF StoredSessions
    <3> QED
      BY <3>3, <3>4
  <2>5. CASE LoginSucceeds(th)
    <3>1. PICK t \in WebToken \ webIssued :
            /\ webSession' = IssueSession(t, r.now, r.client)
            /\ webIssued' = webIssued \cup {t}
            /\ webEnded' = webEnded \cup {u \in WebToken : webSession[u] # NoRow
                                                            /\ Purged(r.now)[u] = NoRow}
      BY <2>5 DEF LoginSucceeds
    <3>2. \A u \in WebToken : Purged(r.now)[u] = NoRow \/ Purged(r.now)[u] = webSession[u]
      BY DEF Purged
    <3>3. \A u \in WebToken : u # t => webSession'[u] = Purged(r.now)[u]
      BY <3>1 DEF IssueSession, Purged
    <3> HIDE DEF r
    <3>4. \A u \in WebToken : webSession[u] # NoRow => u \in webIssued
      BY <1>0 DEF StoredSessions
    <3>5. webEnded' \subseteq webIssued
      BY <1>0, <3>1, <3>4 DEF StoredSessions
    <3>6. \A u \in webEnded' : webSession'[u] # NoRow => webSession'[u].revoked
      <4> SUFFICES ASSUME NEW u \in webEnded', webSession'[u] # NoRow PROVE webSession'[u].revoked
        OBVIOUS
      <4>1. u \in WebToken /\ u # t
        BY <1>0, <3>1, <3>5 DEF StoredSessions
      <4>2. webSession'[u] = webSession[u] /\ Purged(r.now)[u] # NoRow
        BY <3>2, <3>3, <4>1
      <4>3. u \in webEnded
        BY <3>1, <4>2
      <4> QED
        BY <1>0, <4>2, <4>3 DEF StoredSessions
    <3> QED
      BY <1>0, <3>1, <3>2, <3>3, <3>4, <3>5, <3>6 DEF StoredSessions
  <2> QED
    BY <1>1, <1>3, <2>1, <2>2, <2>3, <2>4, <2>5 DEF WebRequestStep
<1>4. CASE WebRestart
  <2>1. CASE webStore = "postgres"
    BY <1>1, <1>4, <2>1 DEF WebRestart
  <2>2. CASE webStore # "postgres"
    BY <1>0, <1>4, <2>2 DEF WebRestart, StoredSessions
  <2> QED
    BY <2>1, <2>2
<1>5. CASE WebTick \/ UNCHANGED webVars
  BY <1>1, <1>5 DEF WebTick, webVars, webStateVars, webHistory
<1> QED
  BY <1>3, <1>4, <1>5, WebNextIs

(* The limiter never lets a client's attempts grow past the limit.           *)
LEMMA AttemptStep ==
  ASSUME WebInv, [WebNext]_webVars
  PROVE  AttemptsStayWithinTheLimit'
<1>0. WebTypes /\ AttemptsStayWithinTheLimit
  BY DEF WebInv
<1>1. CASE UNCHANGED webAttempts
  BY <1>0, <1>1 DEF AttemptsStayWithinTheLimit
<1>2. Len(<<>>) = 0 /\ LoginAttempts \in Nat /\ 0 <= LoginAttempts
  BY WebConstants
<1>3. ASSUME NEW th \in WebThread, WebRequestStep(th) PROVE AttemptsStayWithinTheLimit'
  <2> DEFINE r == webThread[th]
  <2>1. ASSUME NEW client, NEW request, WebRequest(th, client, request) \/ WebRefused(th, client)
        PROVE  UNCHANGED webAttempts
    BY <2>1 DEF WebRequest, WebRefused, webStateVars
  <2>2. CASE \/ Authenticate(th) \/ Revoke(th) \/ ConsumeNonce(th) \/ LoginSucceeds(th)
             \/ AppendAudit(th) \/ AuditFails(th)
    BY <1>1, <2>2 DEF Authenticate, Revoke, ConsumeNonce, LoginSucceeds, AppendAudit, AuditFails, webStateVars
  <2>3. CASE ClearAttempts(th)
    <3>1. webAttempts' = [webAttempts EXCEPT ![r.client] = <<>>]
      BY <2>3 DEF ClearAttempts
    <3>2. \A c \in WebClient : webAttempts'[c] = <<>> \/ webAttempts'[c] = webAttempts[c]
      BY <1>0, <3>1 DEF WebTypes
    <3> QED
      BY <1>0, <1>2, <3>2 DEF AttemptsStayWithinTheLimit
  <2>4. CASE AllowAttempt(th)
    <3> DEFINE recent == RecentAttempts(r.client, r.now)
    <3>1. r.client \in WebClient /\ r.now \in Nat
      <4>1. r.at # "idle"
        BY <2>4 DEF AllowAttempt
      <4>2. r \in WebWork
        BY <1>0, <4>1, RequestUnderWay, Zenon
      <4> QED
        BY <4>2 DEF WebWork
    <3>2. \/ webAttempts' = recent
          \/ /\ Len(Recent(webAttempts[r.client], r.now)) < LoginAttempts
             /\ webAttempts' = [recent EXCEPT ![r.client] = Append(@, r.now)]
      BY <2>4 DEF AllowAttempt, MayAttempt
    <3> HIDE DEF r
    <3>3. /\ recent \in [WebClient -> Seq(Nat)]
          /\ \A c \in WebClient : Len(recent[c]) <= Len(webAttempts[c])
          /\ recent[r.client] = Recent(webAttempts[r.client], r.now)
      BY <1>0, <3>1, AttemptsTyped
    <3> HIDE DEF recent
    <3>4. \A c \in WebClient : Len(recent[c]) \in Nat /\ Len(webAttempts[c]) \in Nat
      BY <1>0, <3>3, LenProperties DEF WebTypes
    <3>5. ASSUME NEW c \in WebClient PROVE Len(recent[c]) <= LoginAttempts
      <4>1. Len(webAttempts[c]) <= LoginAttempts
        BY <1>0 DEF AttemptsStayWithinTheLimit
      <4>2. Len(recent[c]) <= Len(webAttempts[c])
        BY <3>3
      <4>3. Len(recent[c]) \in Nat /\ Len(webAttempts[c]) \in Nat /\ LoginAttempts \in Nat
        BY <1>2, <3>4
      <4> HIDE DEF AttemptsStayWithinTheLimit
      <4> QED
        BY <4>1, <4>2, <4>3
    <3>6. Len(Append(recent[r.client], r.now)) = Len(recent[r.client]) + 1
      BY <3>1, <3>3, AppendProperties
    <3>7. ASSUME NEW c \in WebClient PROVE Len(webAttempts'[c]) <= LoginAttempts
      <4>1. CASE webAttempts' = recent
        BY <3>5, <4>1
      <4>2. CASE /\ Len(recent[r.client]) < LoginAttempts
                 /\ webAttempts' = [recent EXCEPT ![r.client] = Append(@, r.now)]
        <5>1. CASE c = r.client
          BY <1>2, <3>1, <3>3, <3>4, <3>6, <4>2, <5>1
        <5>2. CASE c # r.client
          BY <3>3, <3>5, <4>2, <5>2
        <5> QED
          BY <5>1, <5>2
      <4> QED
        BY <3>2, <3>3, <4>1, <4>2
    <3> QED
      BY <3>7 DEF AttemptsStayWithinTheLimit
  <2> QED
    BY <1>1, <1>3, <2>1, <2>2, <2>3, <2>4 DEF WebRequestStep
<1>4. CASE WebRestart
  BY <1>0, <1>2, <1>4 DEF WebRestart, AttemptsStayWithinTheLimit
<1>5. CASE WebTick \/ UNCHANGED webVars
  BY <1>1, <1>5 DEF WebTick, webVars, webStateVars
<1> QED
  BY <1>3, <1>4, <1>5, WebNextIs

(* What a request's step does to the log: it adds only what happened, it     *)
(* records the session its thread was about to record unless that failed,    *)
(* and a session it issues it is about to record.                            *)
LogMove(th) ==
  /\ webAudit \subseteq webAudit'
  /\ \A a \in webAudit' \ webAudit :
       /\ a.event \in {"LOGIN_SUCCEEDED", "ADMIN_VIEWED"} => a.token \in webIssued
       /\ a.event = "LOGOUT_SUCCEEDED" => a.token \in webEnded
  /\ \A u \in WebThread : u # th => webThread'[u] = webThread[u]
  /\ webThread[th].at = "issued" /\ webCrashes' = 0 =>
       \E a \in webAudit' : a.event = "LOGIN_SUCCEEDED" /\ a.token = webThread[th].token
  /\ \A t \in webIssued' \ webIssued : webThread'[th].at = "issued" /\ webThread'[th].token = t
  /\ webCrashes' = 0 => webCrashes = 0

LEMMA LogMoves ==
  ASSUME WebInv, NEW th \in WebThread, WebRequestStep(th)
  PROVE  LogMove(th)
<1>0. WebTypes /\ WebTargets
  BY DEF WebInv
<1> DEFINE r == webThread[th]
<1>1. ASSUME NEW client, NEW request, WebRequest(th, client, request) PROVE LogMove(th)
  <2>1. PICK q : webThread' = [webThread EXCEPT ![th] = q]
    BY <1>1 DEF WebRequest, Goto
  <2>2. r.at # "issued"
    BY <1>1 DEF WebRequest, WebIdleThread
  <2>3. UNCHANGED <<webAudit, webIssued, webCrashes>>
    BY <1>1 DEF WebRequest, webHistory
  <2> QED
    BY <1>0, <2>1, <2>2, <2>3 DEF LogMove, WebTypes
<1>2. ASSUME NEW client, WebRefused(th, client) PROVE LogMove(th)
  <2>1. r.at # "issued"
    BY <1>2 DEF WebRefused, WebIdleThread
  <2>2. webAudit' = webAudit \cup {[event |-> "REQUEST_RATE_LIMITED", token |-> "none"]}
    BY <1>2 DEF WebRefused, Audited
  <2>3. UNCHANGED <<webThread, webIssued, webCrashes>>
    BY <1>2 DEF WebRefused, webHistory
  <2> QED
    BY <1>0, <2>1, <2>2, <2>3 DEF LogMove
<1>3. CASE Authenticate(th)
  <2>1. r.at # "issued" /\ UNCHANGED <<webIssued, webCrashes>>
    BY <1>3 DEF Authenticate
  <2>2. \/ webAudit' = webAudit
        \/ webAudit' = webAudit \cup {[event |-> "SESSION_REJECTED", token |-> "none"]}
        \/ webAudit' = webAudit \cup {[event |-> "CSRF_REJECTED", token |-> r.token]}
    BY <1>3 DEF Authenticate, Audited
  <2>3. \E q : webThread' = [webThread EXCEPT ![th] = q]
    BY <1>3 DEF Authenticate, Goto, Return
  <2>4. \A u \in WebThread : u # th => webThread'[u] = webThread[u]
    BY <1>0, <2>3 DEF WebTypes
  <2> HIDE DEF r
  <2> QED
    BY <1>0, <2>1, <2>2, <2>4 DEF LogMove, r
<1>4. CASE Revoke(th) \/ ClearAttempts(th)
  <2>1. r.at # "issued" /\ UNCHANGED <<webAudit, webIssued, webCrashes>>
    BY <1>4 DEF Revoke, ClearAttempts, webHistory
  <2>2. \E q : webThread' = [webThread EXCEPT ![th] = q]
    BY <1>4 DEF Revoke, ClearAttempts, Goto
  <2> QED
    BY <1>0, <2>1, <2>2 DEF LogMove, WebTypes
<1>5. CASE ConsumeNonce(th)
  <2>1. r.at # "issued" /\ UNCHANGED <<webIssued, webCrashes>>
    BY <1>5 DEF ConsumeNonce
  <2>2. \/ webAudit' = webAudit
        \/ webAudit' = webAudit \cup {[event |-> "CSRF_REJECTED", token |-> "none"]}
    BY <1>5 DEF ConsumeNonce, Audited
  <2>3. \E q : webThread' = [webThread EXCEPT ![th] = q]
    BY <1>5 DEF ConsumeNonce, Goto, Return
  <2> QED
    BY <1>0, <2>1, <2>2, <2>3 DEF LogMove, WebTypes
<1>6. CASE AllowAttempt(th)
  <2>1. r.at # "issued" /\ UNCHANGED <<webIssued, webCrashes>>
    BY <1>6 DEF AllowAttempt, webHistory
  <2>2. \/ webAudit' = webAudit
        \/ webAudit' = webAudit \cup {[event |-> "LOGIN_FAILED", token |-> "none"]}
        \/ webAudit' = webAudit \cup {[event |-> "LOGIN_RATE_LIMITED", token |-> "none"]}
    BY <1>6 DEF AllowAttempt, Audited
  <2>3. \E q : webThread' = [webThread EXCEPT ![th] = q]
    BY <1>6 DEF AllowAttempt, Goto, Return
  <2> QED
    BY <1>0, <2>1, <2>2, <2>3 DEF LogMove, WebTypes
<1>7. CASE LoginSucceeds(th)
  <2>1. PICK t \in WebToken \ webIssued :
          /\ webIssued' = webIssued \cup {t}
          /\ webThread' = [webThread EXCEPT ![th] =
                             [r EXCEPT !.at = "issued", !.token = t, !.nonce = "none", !.now = webClock]]
    BY <1>7 DEF LoginSucceeds, Goto
  <2>2. r.at = "issue" /\ UNCHANGED <<webAudit, webCrashes>>
    BY <1>7 DEF LoginSucceeds
  <2>3. r \in WebWork
    BY <1>0, <2>2, RequestUnderWay, Zenon
  <2> DEFINE q == [r EXCEPT !.at = "issued", !.token = t, !.nonce = "none", !.now = webClock]
  <2>4. q.at = "issued" /\ q.token = t
    BY <2>3 DEF WebWork
  <2>5. webThread' = [webThread EXCEPT ![th] = q]
    BY <2>1
  <2> HIDE DEF q
  <2>6. webThread'[th] = q /\ \A u \in WebThread : u # th => webThread'[u] = webThread[u]
    BY <1>0, <2>5 DEF WebTypes
  <2> QED
    BY <2>1, <2>2, <2>4, <2>6 DEF LogMove
<1>8. CASE AppendAudit(th)
  <2> DEFINE entry == [event |-> EventOf[r.at], token |-> r.token]
  <2>1. /\ r.at \in {"viewed", "revoked", "issued"}
        /\ webAudit' = webAudit \cup {entry}
        /\ webThread' = [webThread EXCEPT ![th] = WebIdleThread]
        /\ UNCHANGED <<webIssued, webCrashes>>
    BY <1>8 DEF AppendAudit, Audited, Return, Goto, EventOf, webHistory
  <2>2. entry.event = EventOf[r.at] /\ entry.token = r.token
    OBVIOUS
  <2>3. /\ r.at = "viewed" => EventOf[r.at] = "ADMIN_VIEWED"
        /\ r.at = "revoked" => EventOf[r.at] = "LOGOUT_SUCCEEDED"
        /\ r.at = "issued" => EventOf[r.at] = "LOGIN_SUCCEEDED"
    BY DEF EventOf
  <2>4. r.token \in webIssued /\ (r.at = "revoked" => r.token \in webEnded)
    BY <1>0, <2>1 DEF WebTargets
  <2> HIDE DEF entry, r
  <2>5. /\ entry.event \in {"LOGIN_SUCCEEDED", "ADMIN_VIEWED"} => entry.token \in webIssued
        /\ entry.event = "LOGOUT_SUCCEEDED" => entry.token \in webEnded
        /\ r.at = "issued" => entry.event = "LOGIN_SUCCEEDED"
    BY <2>1, <2>2, <2>3, <2>4
  <2>6. \A u \in WebThread : u # th => webThread'[u] = webThread[u]
    BY <1>0, <2>1 DEF WebTypes
  <2> QED
    BY <2>1, <2>2, <2>5, <2>6 DEF LogMove, r
<1>9. CASE AuditFails(th)
  <2>1. /\ webThread' = [webThread EXCEPT ![th] = WebIdleThread]
        /\ webCrashes' = webCrashes + 1 /\ UNCHANGED <<webAudit, webIssued>>
    BY <1>9 DEF AuditFails, Return, Goto, webHistory
  <2>2. webCrashes' # 0
    BY <1>0, <2>1 DEF WebTypes
  <2>3. \A u \in WebThread : u # th => webThread'[u] = webThread[u]
    BY <1>0, <2>1 DEF WebTypes
  <2> HIDE DEF r
  <2> QED
    BY <2>1, <2>2, <2>3 DEF LogMove
<1> QED
  BY <1>1, <1>2, <1>3, <1>4, <1>5, <1>6, <1>7, <1>8, <1>9 DEF WebRequestStep

(* The log and the sessions stay in step, and a restart that loses the       *)
(* sessions kept by the process loses the log with them.                     *)
LEMMA AuditStep ==
  ASSUME WebInv, [WebNext]_webVars
  PROVE  AuditStands'
<1>0. /\ WebTypes /\ AuditStands
      /\ webIssued \subseteq webIssued' /\ webEnded \subseteq webEnded'
  BY HistoriesGrow DEF WebInv
<1>1. ASSUME NEW th \in WebThread, LogMove(th) PROVE AuditStands'
  <2>1. ASSUME NEW a \in webAudit'
        PROVE  /\ a.event \in {"LOGIN_SUCCEEDED", "ADMIN_VIEWED"} => a.token \in webIssued'
               /\ a.event = "LOGOUT_SUCCEEDED" => a.token \in webEnded'
    <3>1. CASE a \in webAudit
      BY <1>0, <3>1 DEF AuditStands
    <3>2. CASE a \notin webAudit
      BY <1>0, <1>1, <2>1, <3>2 DEF LogMove
    <3> QED
      BY <3>1, <3>2
  <2>2. ASSUME webCrashes' = 0, NEW t \in webIssued'
        PROVE  \/ \E a \in webAudit' : a.event = "LOGIN_SUCCEEDED" /\ a.token = t
               \/ \E u \in WebThread : webThread'[u].at = "issued" /\ webThread'[u].token = t
    <3>1. CASE t \notin webIssued
      BY <1>1, <2>2, <3>1 DEF LogMove
    <3>2. CASE t \in webIssued
      <4>1. IsLogged("LOGIN_SUCCEEDED", t) \/ IsAboutToLog(t)
        BY <1>0, <1>1, <2>2, <3>2 DEF LogMove, AuditStands
      <4>2. CASE IsLogged("LOGIN_SUCCEEDED", t)
        BY <1>1, <4>2 DEF LogMove, IsLogged
      <4>3. CASE IsAboutToLog(t)
        <5>1. PICK u \in WebThread : webThread[u].at = "issued" /\ webThread[u].token = t
          BY <4>3 DEF IsAboutToLog
        <5>2. CASE u = th
          BY <1>1, <2>2, <5>1, <5>2 DEF LogMove
        <5>3. CASE u # th
          BY <1>1, <5>1, <5>3 DEF LogMove
        <5> QED
          BY <5>2, <5>3
      <4> QED
        BY <4>1, <4>2, <4>3
    <3> QED
      BY <3>1, <3>2
  <2> QED
    BY <2>1, <2>2 DEF AuditStands, IsLogged, IsAboutToLog
<1>2. CASE WebRestart
  <2>1. webCrashes' # 0
    BY <1>0, <1>2 DEF WebRestart, WebTypes
  <2>2. webAudit' \subseteq webAudit
    BY <1>2 DEF WebRestart
  <2> QED
    BY <1>0, <2>1, <2>2 DEF AuditStands
<1>3. CASE WebTick \/ UNCHANGED webVars
  <2>1. UNCHANGED <<webAudit, webIssued, webEnded, webCrashes, webThread>>
    BY <1>3 DEF WebTick, webVars, webHistory
  <2>2. /\ webAudit' = webAudit /\ webIssued' = webIssued /\ webEnded' = webEnded
        /\ webCrashes' = webCrashes /\ webThread' = webThread
    BY <2>1
  <2>3. ASSUME webCrashes' = 0, NEW t \in webIssued'
        PROVE  (IsLogged("LOGIN_SUCCEEDED", t) \/ IsAboutToLog(t))'
    <3>1. IsLogged("LOGIN_SUCCEEDED", t) \/ IsAboutToLog(t)
      BY <1>0, <2>2, <2>3 DEF AuditStands
    <3> QED
      BY <2>2, <3>1 DEF IsLogged, IsAboutToLog
  <2>4. \A a \in webAudit' :
          /\ a.event \in {"LOGIN_SUCCEEDED", "ADMIN_VIEWED"} => a.token \in webIssued'
          /\ a.event = "LOGOUT_SUCCEEDED" => a.token \in webEnded'
    BY <1>0, <2>2 DEF AuditStands
  <2> QED
    BY <2>3, <2>4 DEF AuditStands, IsLogged, IsAboutToLog
<1> QED
  BY <1>1, <1>2, <1>3, LogMoves, WebNextIs

LEMMA WebInvInit == WebInit => WebInv
<1> SUFFICES ASSUME WebInit PROVE WebInv
  OBVIOUS
<1>1. WebTypes
  <2>1. MaxWebClock \in Nat /\ MaxWebCrash \in Nat /\ RequestLimit \in Nat
    BY WebAssumption
  <2>2. /\ webClock \in 0..MaxWebClock /\ webCrashes \in 0..MaxWebCrash
        /\ webRequests \in [WebClient -> 0..RequestLimit]
    BY <2>1 DEF WebInit
  <2>3. /\ webSession \in [WebToken -> WebRow \cup {NoRow}]
        /\ webNonce \in [WebNonce -> NonceRow \cup {NoRow}]
        /\ webThread \in [WebThread -> WebWork \cup {WebIdleThread}]
        /\ webPassed \in [WebNonce -> Nat]
    BY DEF WebInit
  <2>4. <<>> \in Seq(Nat)
    OBVIOUS
  <2>5. webAttempts \in [WebClient -> Seq(Nat)]
    BY <2>4 DEF WebInit
  <2> QED
    BY <2>2, <2>3, <2>5 DEF WebTypes
<1>2. WebTargets /\ EndedSessionsStayEnded
  BY DEF WebInit, WebTargets, EndedSessionsStayEnded, WebIdleThread
<1>3. SpentNonces /\ StoredSessions /\ AuditStands
  BY DEF WebInit, SpentNonces, StoredSessions, AuditStands
<1>4. AttemptsStayWithinTheLimit
  BY WebConstants DEF WebInit, AttemptsStayWithinTheLimit
<1> QED
  BY <1>1, <1>2, <1>3, <1>4 DEF WebInv

LEMMA WebInductive == WebSpec => []WebInv
<1>1. WebInv /\ [WebNext]_webVars => WebInv'
  BY ThreadStep, StoreTypesStep, NonceStep, SessionStep, AuditStep, AttemptStep DEF WebInv
<1> QED
  BY <1>1, WebInvInit, PTL DEF WebSpec

(* The clock, the restarts and the counted requests stay within their        *)
(* bounds, and every stored session is one that was issued to a client.      *)
THEOREM WebTypeCorrect == WebSpec => []WebTypeOK
<1>1. WebInv => WebTypeOK
  <2> SUFFICES ASSUME WebInv PROVE WebTypeOK
    OBVIOUS
  <2>1. \A t \in WebToken : webSession[t] # NoRow => webSession[t].client \in WebClient
    BY DEF WebInv, WebTypes, WebRow
  <2> QED
    BY <2>1 DEF WebInv, WebTypes, StoredSessions, WebTypeOK
<1> QED
  BY <1>1, WebInductive, PTL

(* A nonce admits one login, an ended session never authenticates again, the *)
(* audit log and the sessions agree, and the limiter holds, however many     *)
(* requests overlap and wherever the process restarts: security.py and the   *)
(* handlers of app.py.                                                       *)
THEOREM SessionsAccounted == WebSpec => []SessionsAreAccountedFor
<1>1. ASSUME WebInv PROVE NonceAdmitsOnce
  <2>1. \A n \in WebNonce : webPassed[n] \in Nat
    BY <1>1 DEF WebInv, WebTypes
  <2> QED
    BY <1>1, <2>1 DEF WebInv, SpentNonces, NonceAdmitsOnce
<1>2. ASSUME WebInv PROVE AuditMatchesSessions
  <2> DEFINE Recorded(event) == {a.token : a \in {b \in webAudit : b.event = event}}
  <2>1. ASSUME NEW t, t \in Recorded("LOGIN_SUCCEEDED") \/ t \in Recorded("ADMIN_VIEWED")
        PROVE  t \in webIssued
    <3>1. PICK a \in webAudit : a.event \in {"LOGIN_SUCCEEDED", "ADMIN_VIEWED"} /\ a.token = t
      BY <2>1
    <3> QED
      BY <1>2, <3>1 DEF WebInv, AuditStands
  <2>2. ASSUME NEW t \in Recorded("LOGOUT_SUCCEEDED") PROVE t \in webEnded
    <3>1. PICK a \in webAudit : a.event = "LOGOUT_SUCCEEDED" /\ a.token = t
      BY <2>2
    <3> QED
      BY <1>2, <3>1 DEF WebInv, AuditStands
  <2>3. ASSUME webCrashes = 0, NEW t \in webIssued
        PROVE  \/ t \in Recorded("LOGIN_SUCCEEDED")
               \/ t \in {webThread[th].token : th \in {u \in WebThread : webThread[u].at = "issued"}}
    <3>1. IsLogged("LOGIN_SUCCEEDED", t) \/ IsAboutToLog(t)
      BY <1>2, <2>3 DEF WebInv, AuditStands
    <3> QED
      BY <3>1 DEF IsLogged, IsAboutToLog
  <2> HIDE DEF Recorded
  <2>4. /\ Recorded("LOGIN_SUCCEEDED") \cup Recorded("ADMIN_VIEWED") \subseteq webIssued
        /\ Recorded("LOGOUT_SUCCEEDED") \subseteq webEnded
    BY <2>1, <2>2
  <2> QED
    BY <2>3, <2>4 DEF AuditMatchesSessions, Recorded
<1>3. WebInv => SessionsAreAccountedFor
  BY <1>1, <1>2 DEF WebInv, SessionsAreAccountedFor
<1> QED
  BY <1>3, WebInductive, PTL

-----------------------------------------------------------------------------
(* Accounting events: for texts of any length, any limits on the evidence,   *)
(* any disclosures, and any number of filings and workers.                   *)

LEMMA MaxOfNaturals ==
  ASSUME NEW n \in Nat, NEW S \in SUBSET (0..n), S # {}
  PROVE  Max(S) \in S /\ \A y \in S : y <= Max(S)
<1> DEFINE T == {n - x : x \in S}
<1>1. T \in SUBSET Nat /\ T # {}
  <2>1. \A x \in S : n - x \in Nat
    OBVIOUS
  <2> QED
    BY <2>1
<1>2. PICK m \in T : \A y \in T : m <= y
  BY <1>1, LeastNatural
<1>3. PICK x \in S : m = n - x
  BY <1>2
<1>4. \A y \in S : y <= x
  <2> SUFFICES ASSUME NEW y \in S PROVE y <= x
    OBVIOUS
  <2>1. n - x <= n - y
    BY <1>2, <1>3
  <2> QED
    BY <2>1
<1>5. \E z \in S : \A y \in S : z >= y
  BY <1>4
<1> QED
  BY <1>5 DEF Max

LEMMA MinOfTwo ==
  ASSUME NEW a \in Int, NEW b \in Int
  PROVE  Min({a, b}) = IF a <= b THEN a ELSE b
<1> DEFINE m == IF a <= b THEN a ELSE b
<1>1. m \in {a, b} /\ \A y \in {a, b} : m <= y
  OBVIOUS
<1>2. \A x \in {a, b} : (\A y \in {a, b} : x <= y) => x = m
  OBVIOUS
<1> HIDE DEF m
<1>3. Min({a, b}) = m
  BY <1>1, <1>2 DEF Min
<1> QED
  BY <1>3 DEF m

LEMMA MaxOfTwo ==
  ASSUME NEW a \in Int, NEW b \in Int
  PROVE  Max({a, b}) = IF a >= b THEN a ELSE b
<1> DEFINE m == IF a >= b THEN a ELSE b
<1>1. m \in {a, b} /\ \A y \in {a, b} : m >= y
  OBVIOUS
<1>2. \A x \in {a, b} : (\A y \in {a, b} : x >= y) => x = m
  OBVIOUS
<1> HIDE DEF m
<1>3. Max({a, b}) = m
  BY <1>1, <1>2 DEF Max
<1> QED
  BY <1>3 DEF m

LEMMA AccountingConstants ==
  /\ AcMaxEvidence \in Nat \ {0} /\ AcBudget \in Nat \ {0} /\ AcWindow \in Nat \ {0}
  /\ AcOpening \in Nat \ {0} /\ AcLate \in Nat /\ AcLookBack \in Nat /\ AcLookAhead \in Nat
  /\ AcLookBack < AcWindow
  /\ AcPriorLimit \in Nat \ {0} /\ MaxAcClock \in Nat \ {0}
  /\ AcFiling = 1..Len(AcDisclosed) /\ Len(AcDisclosed) \in Nat
  /\ \A f \in AcFiling : AcDisclosed[f] \in [AcKind -> Nat]
<1>1. /\ \A x \in {AcLength, AcOpening, AcWindow, AcMaxEvidence, AcBudget, AcPriorLimit, MaxAcClock} :
           x \in Nat \ {0}
      /\ \A x \in {AcLate, AcLookBack, AcLookAhead} : x \in Nat
  BY AccountingAssumption
<1>2. AcDisclosed \in Seq([AcKind -> Nat]) /\ AcLookBack < AcWindow
  BY AccountingAssumption DEF AcKind
<1> HIDE DEF AcKind
<1>3. AcFiling = 1..Len(AcDisclosed) /\ Len(AcDisclosed) \in Nat
  BY <1>2, LenProperties DEF AcFiling
<1>4. \A f \in AcFiling : AcDisclosed[f] \in [AcKind -> Nat]
  BY <1>2, <1>3, ElementOfSeq
<1> QED
  BY <1>1, <1>2, <1>3, <1>4

(* Comparisons: what is stored and what each worker holds.                   *)
AcReceiptOf(f) ==
  /\ acReceipts[f].at \in 1..acClock
  /\ DOMAIN acReceipts[f].events = {k \in AcKind : AcDisclosed[f][k] # 0}

AcStored(h) == acReceipts[h] # AcNone

AcWork ==
  {AcIdle} \cup [at : {"submissions"}, filing : AcFiling, time : Nat]
    \cup [at : {"document"}, filing : AcFiling, prior : SUBSET AcFiling]

AcTypes ==
  /\ acClock \in 0..MaxAcClock
  /\ DOMAIN acReceipts = AcFiling
  /\ \A f \in AcFiling : AcStored(f) => AcReceiptOf(f)
  /\ acStep \in [AcWorker -> AcWork]

(* A filing is with one worker, which has not stored its receipt; and what   *)
(* that worker read was stored before.                                       *)
AcHeld ==
  /\ \A w \in AcWorker : acStep[w] # AcIdle => ~AcStored(acStep[w].filing)
  /\ \A v, w \in AcWorker :
       acStep[v] # AcIdle /\ acStep[w] # AcIdle /\ acStep[v].filing = acStep[w].filing => v = w
  /\ \A w \in AcWorker : acStep[w].at = "document" =>
       \A h \in acStep[w].prior : AcStored(h) /\ h < acStep[w].filing

(* The comparison of one event of a stored receipt.                          *)
ComparedWell(f, k, e, read) ==
  /\ e.comparison # "PRIOR_COMPARISON_UNAVAILABLE" =>
       /\ e.prior \in AcFiling /\ AcStored(e.prior) /\ e.prior < f
       /\ acReceipts[e.prior].at < acReceipts[f].at
       /\ AcDisclosed[e.prior][k] # 0
  /\ e.comparison = "REPEATED_DISCLOSURE" => AcDisclosed[e.prior][k] = AcDisclosed[f][k]
  /\ e.comparison = "CHANGED_DISCLOSURE" => ~\E h \in read : AcDisclosed[h][k] = AcDisclosed[f][k]
  /\ e.comparison = "PRIOR_COMPARISON_UNAVAILABLE" => \A h \in read : AcDisclosed[h][k] = 0

AcCompared ==
  \A f \in AcFiling : AcStored(f) =>
    \A k \in DOMAIN acReceipts[f].events :
      ComparedWell(f, k, acReceipts[f].events[k], acReceipts[f].read)

AcInv == AcTypes /\ AcHeld /\ AcCompared

(* A comparison with earlier filings, each stored before time t.             *)
LEMMA ComparisonIs ==
  ASSUME NEW f \in AcFiling, NEW k \in AcKind, NEW prior \in SUBSET AcFiling, AcDisclosed[f][k] # 0
  PROVE  LET e == CompareEvent(f, k, prior) IN
         /\ e.comparison # "PRIOR_COMPARISON_UNAVAILABLE" =>
              e.prior \in prior /\ AcDisclosed[e.prior][k] # 0
         /\ e.comparison = "REPEATED_DISCLOSURE" => AcDisclosed[e.prior][k] = AcDisclosed[f][k]
         /\ e.comparison = "CHANGED_DISCLOSURE" => ~\E h \in prior : AcDisclosed[h][k] = AcDisclosed[f][k]
         /\ e.comparison = "PRIOR_COMPARISON_UNAVAILABLE" => \A h \in prior : AcDisclosed[h][k] = 0
<1> DEFINE related == {g \in prior : AcDisclosed[g][k] # 0}
           exact == {g \in related : AcDisclosed[g][k] = AcDisclosed[f][k]}
           e == CompareEvent(f, k, prior)
<1>1. related \in SUBSET (0..Len(AcDisclosed)) /\ exact \in SUBSET (0..Len(AcDisclosed))
  <2>1. \A g \in prior : g \in 0..Len(AcDisclosed)
    BY AccountingConstants
  <2> QED
    BY <2>1
<1>2. CASE exact # {}
  <2>1. e = [comparison |-> "REPEATED_DISCLOSURE", prior |-> Max(exact)]
    BY <1>2 DEF CompareEvent
  <2>2. Max(exact) \in exact
    BY <1>1, <1>2, AccountingConstants, MaxOfNaturals
  <2> QED
    BY <2>1, <2>2
<1>3. CASE exact = {} /\ related # {}
  <2>1. e = [comparison |-> "CHANGED_DISCLOSURE", prior |-> Max(related)]
    BY <1>3 DEF CompareEvent
  <2>2. Max(related) \in related
    BY <1>1, <1>3, AccountingConstants, MaxOfNaturals
  <2>3. ~\E h \in prior : AcDisclosed[h][k] = AcDisclosed[f][k]
    BY <1>3
  <2> QED
    BY <2>1, <2>2, <2>3
<1>4. CASE exact = {} /\ related = {}
  <2>1. e = [comparison |-> "PRIOR_COMPARISON_UNAVAILABLE", prior |-> 0]
    BY <1>4 DEF CompareEvent
  <2> QED
    BY <1>4, <2>1
<1>5. exact \subseteq related
  OBVIOUS
<1> HIDE DEF related, exact, e
<1> QED
  BY <1>2, <1>3, <1>4, <1>5 DEF e

LEMMA AcInit == AccountingInit => AcInv
<1> SUFFICES ASSUME AccountingInit PROVE AcInv
  OBVIOUS
<1>1. \A f \in AcFiling : ~AcStored(f)
  BY DEF AccountingInit, AcStored
<1>2. AcTypes
  BY <1>1, AccountingConstants DEF AccountingInit, AcTypes, AcWork
<1>3. AcHeld
  BY DEF AccountingInit, AcHeld, AcIdle
<1>4. AcCompared
  BY <1>1 DEF AcCompared
<1> QED
  BY <1>2, <1>3, <1>4 DEF AcInv

(* A worker's step that stores nothing leaves what is stored compared.       *)
LEMMA UnstoredStep ==
  ASSUME AcInv, UNCHANGED acReceipts, acClock' \in 0..MaxAcClock, acClock' >= acClock,
         acStep' \in [AcWorker -> AcWork], AcHeld'
  PROVE  AcInv'
<1>1. AcTypes'
  BY DEF AcInv, AcTypes, AcStored, AcReceiptOf
<1>2. AcCompared'
  BY DEF AcInv, AcCompared, ComparedWell, AcStored
<1> QED
  BY <1>1, <1>2 DEF AcInv

LEMMA FetchStep ==
  ASSUME AcInv, NEW w \in AcWorker, NEW f \in AcFiling, NEW row, FetchSubmissions(w, f, row)
  PROVE  AcInv'
<1> DEFINE q == [at |-> "submissions", filing |-> f, time |-> acClock + 1]
<1>0. AcTypes /\ AcHeld /\ acClock \in Nat /\ MaxAcClock \in Nat
  BY AccountingConstants DEF AcInv, AcTypes
<1>1. /\ UNCHANGED acReceipts
      /\ acClock' = acClock + 1 /\ acClock < MaxAcClock /\ ~AcStored(f)
      /\ \A v \in AcWorker : acStep[v] # AcIdle => acStep[v].filing # f
      /\ acStep' = acStep \/ acStep' = [acStep EXCEPT ![w] = q]
  BY DEF FetchSubmissions, AcStored
<1>2. q.at = "submissions" /\ q.filing = f /\ q \in AcWork
  BY <1>0 DEF AcWork
<1> HIDE DEF q
<1>3. acClock' \in 0..MaxAcClock /\ acClock' >= acClock
  BY <1>0, <1>1
<1>4. \A g \in AcFiling : AcStored(g)' <=> AcStored(g)
  BY <1>1 DEF AcStored
<1>5. CASE acStep' = acStep
  <2>1. acStep' \in [AcWorker -> AcWork] /\ AcHeld'
    BY <1>0, <1>1, <1>5 DEF AcTypes, AcHeld, AcStored
  <2> QED
    BY <1>1, <1>3, <2>1, UnstoredStep
<1>6. CASE acStep' = [acStep EXCEPT ![w] = q]
  <2>1. acStep' \in [AcWorker -> AcWork]
    BY <1>0, <1>2, <1>6 DEF AcTypes
  <2>2. \A v \in AcWorker : acStep'[v] = IF v = w THEN q ELSE acStep[v]
    BY <1>0, <1>6 DEF AcTypes
  <2>3. AcHeld'
    BY <1>0, <1>1, <1>2, <2>2 DEF AcHeld, AcStored
  <2> QED
    BY <1>1, <1>3, <2>1, <2>3, UnstoredStep
<1> QED
  BY <1>1, <1>5, <1>6

LEMMA ReadStep ==
  ASSUME AcInv, NEW w \in AcWorker, ReadPriorReceipts(w)
  PROVE  AcInv'
<1> DEFINE f == acStep[w].filing
           t == acStep[w].time
           read == PriorReceipts(f, t)
           q == [at |-> "document", filing |-> f, prior |-> read]
<1>0. AcTypes /\ AcHeld /\ acClock \in Nat
  BY DEF AcInv, AcTypes
<1>1. /\ acStep[w].at = "submissions" /\ acStep' = [acStep EXCEPT ![w] = q]
      /\ UNCHANGED <<acReceipts, acClock>>
  BY DEF ReadPriorReceipts
<1>2. acStep[w] # AcIdle /\ f \in AcFiling
  BY <1>0, <1>1 DEF AcTypes, AcWork, AcIdle
<1>3. read \in SUBSET AcFiling /\ \A h \in read : AcStored(h) /\ h < f
  BY DEF PriorReceipts, MayParticipate, AcStored
<1>4. q.at = "document" /\ q.filing = f /\ q.prior = read /\ q \in AcWork
  BY <1>2, <1>3 DEF AcWork
<1> HIDE DEF q, read
<1>5. \A v \in AcWorker : acStep'[v] = IF v = w THEN q ELSE acStep[v]
  BY <1>0, <1>1 DEF AcTypes
<1>6. acStep' \in [AcWorker -> AcWork]
  BY <1>0, <1>1, <1>4 DEF AcTypes
<1>7. AcHeld'
  BY <1>0, <1>1, <1>2, <1>3, <1>4, <1>5 DEF AcHeld, AcStored
<1> QED
  BY <1>0, <1>1, <1>6, <1>7, UnstoredStep DEF AcTypes

LEMMA FailureStep ==
  ASSUME AcInv, NEW w \in AcWorker, AccountingFails(w)
  PROVE  AcInv'
<1>0. AcTypes /\ AcHeld /\ acClock \in Nat
  BY DEF AcInv, AcTypes
<1>1. acStep' = [acStep EXCEPT ![w] = AcIdle] /\ UNCHANGED <<acReceipts, acClock>>
  BY DEF AccountingFails
<1>2. \A v \in AcWorker : acStep'[v] = IF v = w THEN AcIdle ELSE acStep[v]
  BY <1>0, <1>1 DEF AcTypes
<1>3. acStep' \in [AcWorker -> AcWork]
  BY <1>0, <1>1 DEF AcTypes, AcWork
<1>4. AcHeld'
  BY <1>0, <1>1, <1>2 DEF AcHeld, AcStored, AcIdle
<1> QED
  BY <1>0, <1>1, <1>3, <1>4, UnstoredStep DEF AcTypes

(* The receipt is stored once, later than every receipt it was compared with.*)
LEMMA ReceiptStep ==
  ASSUME AcInv, NEW w \in AcWorker, AppendReceipt(w)
  PROVE  AcInv'
<1> DEFINE f == acStep[w].filing
           t == acClock + 1
           read == acStep[w].prior
           prior == {g \in read : MayParticipate(g, f, t)}
           kinds == {k \in AcKind : AcDisclosed[f][k] # 0}
           events == [k \in kinds |-> CompareEvent(f, k, prior)]
           row == [at |-> t, read |-> read, events |-> events]
<1>0. AcTypes /\ AcHeld /\ AcCompared /\ acClock \in Nat /\ MaxAcClock \in Nat
  BY AccountingConstants DEF AcInv, AcTypes
<1>1. /\ acStep[w].at = "document" /\ acClock < MaxAcClock /\ acClock' = t
      /\ acReceipts' = [acReceipts EXCEPT ![f] = row]
      /\ acStep' = [acStep EXCEPT ![w] = AcIdle]
  BY DEF AppendReceipt
<1>2. acStep[w] # AcIdle /\ f \in AcFiling /\ read \in SUBSET AcFiling /\ ~AcStored(f)
  BY <1>0, <1>1 DEF AcTypes, AcWork, AcIdle, AcHeld
<1>3. \A h \in read : AcStored(h) /\ h < f /\ acReceipts[h].at \in 1..acClock
  BY <1>0, <1>1, <1>2 DEF AcHeld, AcTypes, AcReceiptOf
<1>4. prior = read
  BY <1>0, <1>3 DEF MayParticipate, AcStored
<1>5. row.at = t /\ row.read = read /\ row.events = events /\ DOMAIN events = kinds
  OBVIOUS
<1>6. row # AcNone
  BY <1>0, <1>5 DEF AcNone
<1>7. \A k \in kinds : events[k] = CompareEvent(f, k, read)
  BY <1>4
<1> HIDE DEF row, events, prior, read
<1>8. \A g \in AcFiling : acReceipts'[g] = IF g = f THEN row ELSE acReceipts[g]
  BY <1>0, <1>1 DEF AcTypes
<1>9. \A g \in AcFiling : AcStored(g)' <=> g = f \/ AcStored(g)
  BY <1>6, <1>8 DEF AcStored
<1>10. \A v \in AcWorker : acStep'[v] = IF v = w THEN AcIdle ELSE acStep[v]
  BY <1>0, <1>1 DEF AcTypes
<1>11. AcTypes'
  <2>1. acClock' \in 0..MaxAcClock
    BY <1>0, <1>1
  <2>2. DOMAIN acReceipts' = AcFiling
    BY <1>0, <1>1 DEF AcTypes
  <2>3. acStep' \in [AcWorker -> AcWork]
    BY <1>0, <1>1 DEF AcTypes, AcWork
  <2>4. ASSUME NEW g \in AcFiling, AcStored(g)' PROVE AcReceiptOf(g)'
    <3>1. CASE g = f
      BY <1>0, <1>1, <1>5, <1>8, <3>1 DEF AcReceiptOf
    <3>2. CASE g # f
      BY <1>0, <1>1, <1>8, <1>9, <2>4, <3>2 DEF AcReceiptOf, AcTypes
    <3> QED
      BY <3>1, <3>2
  <2> QED
    BY <2>1, <2>2, <2>3, <2>4 DEF AcTypes
<1>12. AcHeld'
  <2>1. ASSUME NEW v \in AcWorker, acStep'[v] # AcIdle
        PROVE  /\ v # w /\ acStep'[v] = acStep[v] /\ acStep[v].filing \in AcFiling
               /\ acStep[v].filing # f /\ ~AcStored(acStep[v].filing)
    BY <1>0, <1>2, <1>10, <2>1 DEF AcHeld, AcTypes, AcWork, AcIdle
  <2>2. \A v \in AcWorker : acStep'[v] # AcIdle => ~AcStored(acStep[v].filing)'
    BY <1>8, <2>1 DEF AcStored
  <2>3. \A u, v \in AcWorker :
          acStep'[u] # AcIdle /\ acStep'[v] # AcIdle /\ acStep'[u].filing = acStep'[v].filing => u = v
    BY <1>0, <2>1 DEF AcHeld
  <2>4. ASSUME NEW v \in AcWorker, acStep'[v].at = "document", NEW h \in acStep'[v].prior
        PROVE  AcStored(h)' /\ h < acStep'[v].filing
    <3>1. acStep'[v] # AcIdle
      BY <2>4 DEF AcIdle
    <3>2. acStep'[v] = acStep[v] /\ h \in AcFiling
      BY <1>0, <2>1, <2>4, <3>1 DEF AcTypes, AcWork, AcIdle
    <3> QED
      BY <1>0, <1>9, <2>4, <3>2 DEF AcHeld
  <2> QED
    BY <2>2, <2>3, <2>4 DEF AcHeld
<1>13. AcCompared'
  <2> SUFFICES ASSUME NEW g \in AcFiling, AcStored(g)', NEW k \in DOMAIN acReceipts'[g].events
               PROVE  ComparedWell(g, k, acReceipts[g].events[k], acReceipts[g].read)'
    BY DEF AcCompared
  <2>1. CASE g = f
    <3> DEFINE e == CompareEvent(f, k, read)
    <3>1. k \in AcKind /\ AcDisclosed[f][k] # 0 /\ events[k] = e
      BY <1>5, <1>7, <1>8, <2>1
    <3>2. /\ e.comparison # "PRIOR_COMPARISON_UNAVAILABLE" =>
               e.prior \in read /\ AcDisclosed[e.prior][k] # 0
          /\ e.comparison = "REPEATED_DISCLOSURE" => AcDisclosed[e.prior][k] = AcDisclosed[f][k]
          /\ e.comparison = "CHANGED_DISCLOSURE" =>
               ~\E h \in read : AcDisclosed[h][k] = AcDisclosed[f][k]
          /\ e.comparison = "PRIOR_COMPARISON_UNAVAILABLE" => \A h \in read : AcDisclosed[h][k] = 0
      BY <1>2, <3>1, ComparisonIs
    <3>3. acReceipts'[g].events[k] = e /\ acReceipts'[g].read = read /\ acReceipts'[f].at = t
      BY <1>5, <1>8, <2>1, <3>1
    <3> HIDE DEF e
    <3>4. \A h \in read : /\ h \in AcFiling /\ AcStored(h)' /\ h < f
                          /\ acReceipts'[h].at < t
      BY <1>0, <1>2, <1>3, <1>8, <1>9
    <3> QED
      BY <2>1, <3>2, <3>3, <3>4 DEF ComparedWell
  <2>2. CASE g # f
    <3>1. AcStored(g) /\ acReceipts'[g] = acReceipts[g]
      BY <1>8, <1>9, <2>2
    <3> DEFINE e == acReceipts[g].events[k]
    <3>2. ComparedWell(g, k, e, acReceipts[g].read)
      BY <1>0, <3>1 DEF AcCompared
    <3>3. \A h \in AcFiling : AcStored(h) => AcStored(h)' /\ acReceipts'[h] = acReceipts[h]
      BY <1>2, <1>8, <1>9
    <3> HIDE DEF e
    <3> QED
      BY <3>1, <3>2, <3>3 DEF ComparedWell, e
  <2> QED
    BY <2>1, <2>2
<1> QED
  BY <1>11, <1>12, <1>13 DEF AcInv

LEMMA AcInductive == AccountingSpec => []AcInv
<1>1. AcInv /\ [AccountingNext]_accountingVars => AcInv'
  <2> SUFFICES ASSUME AcInv, [AccountingNext]_accountingVars PROVE AcInv'
    OBVIOUS
  <2>1. CASE UNCHANGED <<acReceipts, acStep, acClock>>
    <3>1. acClock' \in 0..MaxAcClock /\ acClock' >= acClock /\ acStep' \in [AcWorker -> AcWork] /\ AcHeld'
      BY <2>1, AccountingConstants DEF AcInv, AcTypes, AcHeld, AcStored
    <3> QED
      BY <2>1, <3>1, UnstoredStep
  <2>2. CASE AccountingReturn
    BY <2>1, <2>2 DEF AccountingReturn
  <2>3. ASSUME NEW text, NEW form, ExtractAccountingEvidence(text, form) PROVE AcInv'
    BY <2>1, <2>3 DEF ExtractAccountingEvidence
  <2>4. ASSUME NEW w \in AcWorker,
               \/ \E f \in AcFiling, row \in SubmissionRow : FetchSubmissions(w, f, row)
               \/ ReadPriorReceipts(w) \/ AppendReceipt(w) \/ AccountingFails(w)
        PROVE  AcInv'
    BY <2>4, FetchStep, ReadStep, ReceiptStep, FailureStep
  <2>5. CASE UNCHANGED accountingVars
    BY <2>1, <2>5 DEF accountingVars
  <2> QED
    BY <2>2, <2>3, <2>4, <2>5 DEF AccountingNext
<1> QED
  BY <1>1, AcInit, PTL DEF AccountingSpec

(* The windows of a text of n characters.                                    *)
WindowsOf(n) == [start : 1..n, end : 1..n]

LEMMA WindowFacts ==
  ASSUME NEW n \in Nat, NEW text, NEW r, r.from \in 1..n, r.to \in 1..n,
         NEW hit \in r.from..r.to, NEW last \in hit..r.to
  PROVE  LET w == HitWindow(text, hit, last, r) IN
         /\ w \in WindowsOf(n) /\ w.start \in r.from..hit /\ w.end >= hit
         /\ WindowSize(w) \in 1..AcWindow
<1> DEFINE lower == Max({r.from, hit - AcLookBack})
           before == {i \in lower..(hit - 1) : text[i] \in {"stop", "semicolon"}}
           start == IF before = {} THEN lower ELSE Max(before) + 1
           upper == Min({r.to, last + AcLookAhead})
           after == {i \in (last + 1)..upper : text[i] = "stop"}
           end == IF after = {} THEN upper ELSE Min(after)
           reach == start + AcWindow - 1
           cut == Min({end, reach})
           w == HitWindow(text, hit, last, r)
<1>1. w = [start |-> start, end |-> cut]
  BY DEF HitWindow
<1>2. hit \in 1..n /\ last \in 1..n /\ hit <= last /\ last <= r.to /\ r.from <= hit
  OBVIOUS
<1>3. AcLookBack \in Nat /\ AcLookAhead \in Nat /\ AcWindow \in Nat /\ AcLookBack < AcWindow
  BY AccountingConstants
<1>4. lower \in r.from..hit /\ lower >= hit - AcLookBack
  <2>1. lower = IF r.from >= hit - AcLookBack THEN r.from ELSE hit - AcLookBack
    BY <1>2, <1>3, MaxOfTwo
  <2> QED
    BY <1>2, <1>3, <2>1
<1> HIDE DEF lower
<1>5. start \in r.from..hit /\ start >= hit - AcLookBack
  <2>1. before \in SUBSET (0..n) /\ \A i \in before : lower <= i /\ i < hit
    BY <1>2, <1>4
  <2> HIDE DEF before
  <2>2. before # {} => Max(before) \in before
    BY <2>1, MaxOfNaturals
  <2>3. CASE before = {}
    BY <1>2, <1>3, <1>4, <2>3
  <2>4. CASE before # {}
    <3>1. start = Max(before) + 1 /\ lower <= Max(before) /\ Max(before) < hit
      BY <2>1, <2>2, <2>4
    <3>2. Max(before) \in 0..n
      BY <2>1, <2>2, <2>4
    <3> QED
      BY <1>2, <1>3, <1>4, <3>1, <3>2
  <2> QED
    BY <2>3, <2>4
<1> HIDE DEF start
<1>6. upper \in last..r.to
  <2>1. upper = IF r.to <= last + AcLookAhead THEN r.to ELSE last + AcLookAhead
    BY <1>2, <1>3, MinOfTwo
  <2> QED
    BY <1>2, <1>3, <2>1
<1> HIDE DEF upper
<1>7. end \in last..r.to
  <2>1. \A i \in after : i \in Nat /\ last <= i /\ i <= upper
    BY <1>2, <1>6
  <2> HIDE DEF after
  <2>2. after # {} => Min(after) \in after
    BY <2>1, MinOfNaturals
  <2> QED
    BY <1>2, <1>6, <2>1, <2>2
<1> HIDE DEF end
<1>8. reach \in Int /\ reach >= hit /\ start <= reach
  BY <1>2, <1>3, <1>5
<1>9. cut = IF end <= reach THEN end ELSE reach
  BY <1>2, <1>7, <1>8, MinOfTwo
<1>10. cut >= hit /\ cut <= r.to /\ cut <= reach /\ cut \in Int
  BY <1>2, <1>7, <1>8, <1>9
<1> HIDE DEF cut, w
<1>11. w.start = start /\ w.end = cut
  BY <1>1
<1>12. start \in 1..n /\ cut \in 1..n
  BY <1>2, <1>5, <1>10
<1>13. w \in WindowsOf(n)
  BY <1>1, <1>12 DEF WindowsOf
<1>14. WindowSize(w) \in 1..AcWindow
  BY <1>2, <1>3, <1>5, <1>8, <1>10, <1>11, <1>12 DEF WindowSize
<1> QED
  BY <1>5, <1>10, <1>11, <1>13, <1>14 DEF w

LEMMA WindowsAreFinite ==
  ASSUME NEW n \in Nat, NEW S \in SUBSET WindowsOf(n)
  PROVE  IsFiniteSet(S)
<1> DEFINE f == [p \in (1..n) \X (1..n) |-> [start |-> p[1], end |-> p[2]]]
<1>1. IsFiniteSet(1..n)
  BY FS_Interval
<1>2. IsFiniteSet((1..n) \X (1..n))
  BY <1>1, FS_Product
<1>3. f \in Surjection((1..n) \X (1..n), WindowsOf(n))
  <2>1. f \in [(1..n) \X (1..n) -> WindowsOf(n)]
    BY DEF WindowsOf
  <2>2. ASSUME NEW w \in WindowsOf(n) PROVE \E p \in (1..n) \X (1..n) : f[p] = w
    <3>1. <<w.start, w.end>> \in (1..n) \X (1..n) /\ w = [start |-> w.start, end |-> w.end]
      BY DEF WindowsOf
    <3> QED
      BY <3>1
  <2> QED
    BY <2>1, <2>2 DEF Surjection
<1>4. IsFiniteSet(WindowsOf(n))
  BY <1>2, <1>3, FS_Surjection
<1> QED
  BY <1>4, FS_Subset

(* What windows hold together.                                               *)
LEMMA RetainedFacts ==
  ASSUME NEW n \in Nat, NEW S \in SUBSET WindowsOf(n), \A w \in S : WindowSize(w) \in 1..AcWindow
  PROVE  /\ RetainedCharacters(S) \in Int
         /\ RetainedCharacters({}) = 0
         /\ \A w \in S : RetainedCharacters(S) = WindowSize(w) + RetainedCharacters(S \ {w})
         /\ \A R \in SUBSET S : RetainedCharacters(R) <= RetainedCharacters(S)
<1> DEFINE size == [w \in S |-> WindowSize(w)]
<1>0. AcWindow \in Nat
  BY AccountingConstants
<1>1. \A w \in S : size[w] = WindowSize(w) /\ size[w] \in Int /\ size[w] >= 0
  BY <1>0
<1>2. \A R \in SUBSET S : IsFiniteSet(R)
  BY WindowsAreFinite
<1> HIDE DEF size
<1>3. ASSUME NEW R \in SUBSET S PROVE RetainedCharacters(R) = SumFunctionOnSet(size, R)
  <2> DEFINE part == [w \in R |-> WindowSize(w)]
  <2>1. RetainedCharacters(R) = SumFunctionOnSet(part, R)
    BY DEF RetainedCharacters
  <2>2. \A w \in R : part[w] \in Int /\ size[w] = part[w]
    BY <1>1
  <2> HIDE DEF part
  <2>3. IsFiniteSet(R)
    BY <1>2
  <2>4. SumFunctionOnSet(part, R) = SumFunctionOnSet(size, R)
    BY ONLY <2>2, <2>3, SumOfEquals
  <2> QED
    BY <2>1, <2>4
<1>4. IsFiniteSet(S) /\ \A w \in S : size[w] \in Int
  BY <1>1, <1>2
<1>5. RetainedCharacters(S) \in Int
  <2>1. SumFunctionOnSet(size, S) \in Int
    BY ONLY <1>4, SumIsInteger
  <2> QED
    BY <1>3, <2>1
<1>6. RetainedCharacters({}) = 0
  BY <1>3, SumOfNone
<1>7. ASSUME NEW w \in S
      PROVE  RetainedCharacters(S) = WindowSize(w) + RetainedCharacters(S \ {w})
  <2>1. SumFunctionOnSet(size, S) = size[w] + SumFunctionOnSet(size, S \ {w})
    BY ONLY <1>4, <1>7, SumTakesOut
  <2>2. S \ {w} \in SUBSET S /\ S \in SUBSET S
    OBVIOUS
  <2> QED
    BY <1>1, <1>3, <2>1, <2>2
<1>8. ASSUME NEW R \in SUBSET S PROVE RetainedCharacters(R) <= RetainedCharacters(S)
  <2>1. \A w \in S \ R : size[w] >= 0
    BY <1>1
  <2>2. SumFunctionOnSet(size, R) <= SumFunctionOnSet(size, S)
    BY ONLY <1>4, R \in SUBSET S, <2>1, SumOfMore
  <2> QED
    BY <1>3, <2>2
<1> QED
  BY <1>5, <1>6, <1>7, <1>8

(* Of several windows one comes last.                                        *)
LEMMA LastWindow ==
  ASSUME NEW n \in Nat, NEW S \in SUBSET WindowsOf(n), S # {}
  PROVE  \E w \in S : \A v \in S \ {w} : Precedes(v, w)
<1> DEFINE starts == {w.start : w \in S}
           latest == {w \in S : w.start = Max(starts)}
           ends == {w.end : w \in latest}
<1>0. \A w \in S : w.start \in 1..n /\ w.end \in 1..n /\ w = [start |-> w.start, end |-> w.end]
  BY DEF WindowsOf
<1>1. starts \in SUBSET (0..n) /\ starts # {}
  BY <1>0
<1>2. Max(starts) \in starts /\ \A x \in starts : x <= Max(starts)
  BY <1>1, MaxOfNaturals
<1>3. ends \in SUBSET (0..n) /\ ends # {}
  <2>1. ends # {}
    BY <1>2
  <2>2. ASSUME NEW x \in ends PROVE x \in 0..n
    <3>1. PICK w \in latest : x = w.end
      BY <2>2
    <3>2. w \in S
      BY <3>1
    <3> QED
      BY <1>0, <3>1, <3>2
  <2> QED
    BY <2>1, <2>2
<1>4. Max(ends) \in ends /\ \A x \in ends : x <= Max(ends)
  BY <1>3, MaxOfNaturals
<1>5. PICK w \in latest : w.end = Max(ends)
  BY <1>4
<1>6. ASSUME NEW v \in S \ {w} PROVE Precedes(v, w)
  <2>1. v.start <= w.start
    BY <1>2, <1>5
  <2>2. v.start = w.start => v.end <= w.end
    <3>1. v.start = w.start => v \in latest
      BY <1>5
    <3> QED
      BY <1>4, <1>5, <3>1
  <2>3. v.start # w.start \/ v.end # w.end
    BY <1>0, <1>5
  <2> HIDE DEF ends, latest, starts
  <2> QED
    BY <1>0, <1>5, <2>1, <2>2, <2>3 DEF Precedes, latest
<1> QED
  BY <1>5, <1>6

(* The windows before a last one are all the others, and the last one is     *)
(* before none.                                                              *)
LEMMA PrecedesIsOrder ==
  ASSUME NEW n \in Nat, NEW v \in WindowsOf(n), NEW w \in WindowsOf(n), Precedes(v, w)
  PROVE  ~Precedes(w, v) /\ v # w
<1>1. /\ v.start \in Int /\ v.end \in Int /\ w.start \in Int /\ w.end \in Int
  BY DEF WindowsOf
<1> QED
  BY <1>1 DEF Precedes

(* Whichever windows there are, those kept can be told in one way.           *)
LEMMA KeptIs ==
  ASSUME NEW n \in Nat, NEW W \in SUBSET WindowsOf(n)
  PROVE  LET kept == KeptWindows(W) IN
         kept \in SUBSET W /\ \A w \in W : w \in kept <=> HasRoom(kept, w)
<1> DEFINE Tells(kept, D) == \A w \in D : w \in kept <=> HasRoom(kept, w)
           T == {m \in Nat : \A D \in SUBSET W :
                   Cardinality(D) = m => \E kept \in SUBSET D : Tells(kept, D)}
<1>1. \A D \in SUBSET W : IsFiniteSet(D) /\ Cardinality(D) \in Nat
  BY WindowsAreFinite, FS_CardinalityType
<1>2. 0 \in T
  <2>1. \A D \in SUBSET W : Cardinality(D) = 0 => D = {}
    BY <1>1, FS_EmptySet
  <2> QED
    BY <2>1
<1>3. ASSUME NEW m \in Nat, m \in T PROVE m + 1 \in T
  <2> SUFFICES ASSUME NEW D \in SUBSET W, Cardinality(D) = m + 1
               PROVE  \E kept \in SUBSET D : Tells(kept, D)
    OBVIOUS
  <2>1. D # {} /\ D \in SUBSET WindowsOf(n)
    BY FS_EmptySet
  <2>2. PICK w \in D : \A v \in D \ {w} : Precedes(v, w)
    BY <2>1, LastWindow
  <2> DEFINE E == D \ {w}
  <2>3. E \in SUBSET W /\ Cardinality(E) = m
    BY <1>1, FS_RemoveElement
  <2>4. PICK old \in SUBSET E : Tells(old, E)
    BY <1>3, <2>3
  <2> DEFINE kept == IF HasRoom(old, w) THEN old \cup {w} ELSE old
  <2>5. w \in kept <=> HasRoom(old, w)
    OBVIOUS
  <2>6. kept \in SUBSET D /\ \A v \in E : v \in kept <=> v \in old
    OBVIOUS
  <2>7. ASSUME NEW v \in D PROVE HasRoom(kept, v) <=> HasRoom(old, v)
    <3>1. ~Precedes(w, v)
      BY <2>1, <2>2, PrecedesIsOrder
    <3>2. {u \in kept : Precedes(u, v)} = {u \in old : Precedes(u, v)}
      BY <3>1
    <3> HIDE DEF kept
    <3> QED
      BY <3>2 DEF HasRoom
  <2> HIDE DEF kept
  <2>8. Tells(kept, D)
    BY <2>4, <2>5, <2>6, <2>7
  <2> QED
    BY <2>6, <2>8
<1> HIDE DEF T
<1>4. \A m \in Nat : m \in T
  BY <1>2, <1>3, NaturalInduction
<1>5. Cardinality(W) \in T
  BY <1>1, <1>4
<1>6. \E kept \in SUBSET W : \A w \in W : w \in kept <=> HasRoom(kept, w)
  BY <1>5 DEF T
<1> QED
  BY <1>6, Zenon DEF KeptWindows

(* The kept windows fit, and each of the others would not fit after them.    *)
LEMMA KeptFits ==
  ASSUME NEW n \in Nat, NEW W \in SUBSET WindowsOf(n), \A w \in W : WindowSize(w) \in 1..AcWindow
  PROVE  LET kept == KeptWindows(W) IN
         /\ kept \in SUBSET W
         /\ Cardinality(kept) <= AcMaxEvidence /\ RetainedCharacters(kept) <= AcBudget
         /\ \A w \in W \ kept : \/ Cardinality(kept) = AcMaxEvidence
                                \/ RetainedCharacters(kept) + WindowSize(w) > AcBudget
<1> DEFINE kept == KeptWindows(W)
           Earlier(w) == {v \in kept : Precedes(v, w)}
<1>1. kept \in SUBSET W /\ \A w \in W : w \in kept <=> HasRoom(kept, w)
  BY KeptIs
<1> HIDE DEF kept
<1>2. \A w \in W : w \in kept <=>
        /\ Cardinality(Earlier(w)) < AcMaxEvidence
        /\ RetainedCharacters(Earlier(w)) + WindowSize(w) <= AcBudget
  BY <1>1 DEF HasRoom
<1>3. AcMaxEvidence \in Nat /\ AcBudget \in Nat /\ AcWindow \in Nat
  BY AccountingConstants
<1>4. IsFiniteSet(kept) /\ Cardinality(kept) \in Nat
  BY <1>1, WindowsAreFinite, FS_CardinalityType
<1>5. \A R \in SUBSET kept : IsFiniteSet(R) /\ Cardinality(R) <= Cardinality(kept) /\ Cardinality(R) \in Nat
  BY <1>4, FS_Subset, FS_CardinalityType
<1>6. kept \in SUBSET WindowsOf(n) /\ \A w \in kept : WindowSize(w) \in 1..AcWindow
  BY <1>1
<1>7. /\ RetainedCharacters(kept) \in Int /\ RetainedCharacters({}) = 0
      /\ \A w \in kept : RetainedCharacters(kept) = WindowSize(w) + RetainedCharacters(kept \ {w})
      /\ \A R \in SUBSET kept : RetainedCharacters(R) <= RetainedCharacters(kept)
  BY <1>6, RetainedFacts
<1>8. \A R \in SUBSET kept : RetainedCharacters(R) \in Int
  <2> SUFFICES ASSUME NEW R \in SUBSET kept PROVE RetainedCharacters(R) \in Int
    OBVIOUS
  <2>1. R \in SUBSET WindowsOf(n) /\ \A w \in R : WindowSize(w) \in 1..AcWindow
    BY <1>6
  <2> QED
    BY <2>1, RetainedFacts
<1>9. Cardinality(kept) <= AcMaxEvidence /\ RetainedCharacters(kept) <= AcBudget
  <2>1. CASE kept = {}
    <3>1. Cardinality(kept) = 0
      BY <2>1, FS_EmptySet
    <3> QED
      BY <1>3, <1>7, <2>1, <3>1
  <2>2. CASE kept # {}
    <3>1. PICK w \in kept : \A v \in kept \ {w} : Precedes(v, w)
      BY <1>6, <2>2, LastWindow
    <3>2. ~Precedes(w, w)
      BY <1>6, PrecedesIsOrder
    <3>3. Earlier(w) = kept \ {w}
      BY <3>1, <3>2
    <3>4. Cardinality(kept \ {w}) = Cardinality(kept) - 1
      BY <1>4, FS_RemoveElement
    <3>5. /\ Cardinality(kept \ {w}) < AcMaxEvidence
          /\ RetainedCharacters(kept \ {w}) + WindowSize(w) <= AcBudget
      BY <1>1, <1>2, <3>3
    <3>6. WindowSize(w) \in Int /\ RetainedCharacters(kept \ {w}) \in Int
      BY <1>6, <1>8
    <3> QED
      BY <1>3, <1>4, <1>7, <3>4, <3>5, <3>6
  <2> QED
    BY <2>1, <2>2
<1>10. ASSUME NEW w \in W \ kept
       PROVE  \/ Cardinality(kept) = AcMaxEvidence
              \/ RetainedCharacters(kept) + WindowSize(w) > AcBudget
  <2> DEFINE R == Earlier(w)
  <2>1. R \in SUBSET kept
    OBVIOUS
  <2>2. ~(Cardinality(R) < AcMaxEvidence) \/ ~(RetainedCharacters(R) + WindowSize(w) <= AcBudget)
    BY <1>2
  <2> HIDE DEF R
  <2>3. /\ Cardinality(R) <= Cardinality(kept) /\ Cardinality(R) \in Nat
        /\ RetainedCharacters(R) <= RetainedCharacters(kept) /\ RetainedCharacters(R) \in Int
    BY <1>5, <1>7, <1>8, <2>1
  <2>4. WindowSize(w) \in Int
    OBVIOUS
  <2> QED
    BY <1>3, <1>4, <1>7, <1>9, <2>2, <2>3, <2>4
<1> QED
  BY <1>1, <1>9, <1>10 DEF kept

(* The stretch that is chosen is one of the stretches.                       *)
LEMMA LongestIsStretch ==
  ASSUME NEW n \in Nat, NEW S, S # {},
         \A r \in S : r.from \in 1..n /\ r.to \in 1..n /\ r.from <= r.to
  PROVE  LongestStretch(S) \in S
<1> DEFINE short == {n - (r.to - r.from) : r \in S}
<1>1. short # {} /\ short \in SUBSET Nat
  <2>1. \A r \in S : n - (r.to - r.from) \in Nat
    OBVIOUS
  <2> QED
    BY <2>1
<1>2. PICK m \in short : \A y \in short : m <= y
  BY <1>1, LeastNatural
<1> DEFINE L == {r \in S : n - (r.to - r.from) = m}
           F == {r.from : r \in L}
<1>3. F # {} /\ F \in SUBSET Nat
  BY <1>2
<1>4. PICK x \in F : \A y \in F : x <= y
  BY <1>3, LeastNatural
<1>5. PICK r \in L : r.from = x
  BY <1>4
<1>6. \A q \in S : \/ q.to - q.from < r.to - r.from
                   \/ q.to - q.from = r.to - r.from /\ r.from <= q.from
  <2> SUFFICES ASSUME NEW q \in S
               PROVE  \/ q.to - q.from < r.to - r.from
                      \/ q.to - q.from = r.to - r.from /\ r.from <= q.from
    OBVIOUS
  <2>1. m <= n - (q.to - q.from) /\ n - (r.to - r.from) = m
    BY <1>2, <1>5
  <2>2. q.from \in Nat /\ q.to \in Nat /\ r.from \in Nat /\ r.to \in Nat
    BY <1>5
  <2>3. CASE n - (q.to - q.from) = m
    <3>1. r.from <= q.from
      BY <1>4, <1>5, <2>3
    <3>2. q.to - q.from = r.to - r.from
      BY <2>1, <2>2, <2>3
    <3> QED
      BY <3>1, <3>2
  <2>4. CASE n - (q.to - q.from) # m
    BY <2>1, <2>2, <2>4
  <2> QED
    BY <2>3, <2>4
<1>7. r \in S
  BY <1>5
<1> HIDE DEF L, F, short
<1> QED
  BY <1>6, <1>7 DEF LongestStretch

(* Every item that occurs has a stretch.                                     *)
LEMMA ItemHasStretch ==
  ASSUME NEW n \in Nat, NEW form \in AcForm, NEW text \in [1..n -> AcCharacters(form)],
         NEW i \in 1..n, text[i] \in AcItem
  PROVE  Stretches(text, text[i]) # {}
<1>0. DOMAIN text = 1..n /\ Len(text) = n
  BY LenProperties
<1> DEFINE ends == {j \in i..n : j < n => text[j + 1] \in AcItem}
<1>1. n \in ends
  OBVIOUS
<1>2. \A j \in ends : j \in Nat
  OBVIOUS
<1> DEFINE j == Min(ends)
<1>3. j \in ends /\ \A y \in ends : j <= y
  BY <1>1, <1>2, MinOfNaturals
<1> HIDE DEF j
<1>4. \A k \in (i + 1)..j : text[k] \notin AcItem
  <2> SUFFICES ASSUME NEW k \in (i + 1)..j, text[k] \in AcItem PROVE FALSE
    OBVIOUS
  <2>1. k - 1 \in i..n /\ (k - 1) + 1 = k /\ k - 1 < j
    BY <1>3
  <2>2. k - 1 \in ends
    BY <2>1
  <2>3. j <= k - 1
    BY <1>3, <2>2
  <2>4. j \in Int /\ k \in Int
    BY <1>3
  <2> HIDE DEF ends
  <2> QED
    BY <2>1, <2>3, <2>4
<1> DEFINE base == IF text[i] = "3.01" THEN "item 3.01" ELSE "item 4.02"
           r == [from |-> i, to |-> j, item |-> text[i], base |-> base]
<1>5. r.from = i /\ r.to = j /\ i <= j /\ j \in 1..n
  BY <1>3
<1>6. j < n => text[j + 1] \in AcItem
  BY <1>3
<1>7. r \in [from : DOMAIN text, to : DOMAIN text, item : {text[i]}, base : {base}]
  BY <1>0, <1>5
<1> HIDE DEF r
<1>8. r \in Stretches(text, text[i])
  BY <1>0, <1>4, <1>5, <1>6, <1>7 DEF Stretches
<1> QED
  BY <1>8

(* The regions of a text, by form.                                           *)
ItemBase == [x \in {"3.01", "4.02"} |-> IF x = "3.01" THEN "item 3.01" ELSE "item 4.02"]
LateIn(text) == {i \in DOMAIN text : text[i] = "unable to file"}

RegionIs(r, text, form) ==
  /\ r.from \in DOMAIN text /\ r.to \in DOMAIN text /\ r.from <= r.to
  /\ \/ /\ form = "8-K" /\ r.item \in {"3.01", "4.02"} /\ r.base = ItemBase[r.item]
        /\ text[r.from] = r.item
     \/ /\ form = "NT 10-K" /\ LateIn(text) # {}
        /\ r.item = "none" /\ r.base = "late filing"
     \/ form = "10-K" /\ r.item = "none" /\ r.base = "none"

LEMMA RegionsAre ==
  ASSUME NEW n \in Nat \ {0}, NEW form \in AcForm, NEW text \in [1..n -> AcCharacters(form)]
  PROVE  /\ \A r \in Regions(text, form) : RegionIs(r, text, form)
         /\ form = "8-K" => \A i \in 1..n : text[i] \in {"3.01", "4.02"} =>
                              \E r \in Regions(text, form) : r.item = text[i]
         /\ form = "NT 10-K" /\ LateIn(text) # {} => Regions(text, form) # {}
<1>0. DOMAIN text = 1..n /\ Len(text) = n
  BY LenProperties
<1>1. CASE form = "8-K"
  <2>1. Regions(text, form) = {LongestStretch(Stretches(text, item)) :
                                 item \in {x \in {"3.01", "4.02"} : Stretches(text, x) # {}}}
    BY <1>1 DEF Regions
  <2>2. ASSUME NEW item \in {"3.01", "4.02"}, Stretches(text, item) # {}
        PROVE  LongestStretch(Stretches(text, item)) \in Stretches(text, item)
    <3>1. \A r \in Stretches(text, item) : r.from \in 1..n /\ r.to \in 1..n /\ r.from <= r.to
      BY <1>0 DEF Stretches
    <3> QED
      BY <2>2, <3>1, LongestIsStretch
  <2>3. \A item \in {"3.01", "4.02"} : \A r \in Stretches(text, item) :
          r.item = item /\ RegionIs(r, text, form)
    BY <1>0, <1>1 DEF Stretches, RegionIs, ItemBase
  <2>4. \A r \in Regions(text, form) : RegionIs(r, text, form)
    BY <2>1, <2>2, <2>3
  <2>5. ASSUME NEW i \in 1..n, text[i] \in {"3.01", "4.02"}
        PROVE  \E r \in Regions(text, form) : r.item = text[i]
    <3>1. Stretches(text, text[i]) # {}
      BY <2>5, ItemHasStretch DEF AcItem
    <3> QED
      BY <2>1, <2>2, <2>3, <2>5, <3>1
  <2> QED
    BY <1>1, <2>4, <2>5
<1>2. CASE form = "NT 10-K"
  <2> DEFINE late == LateIn(text)
             first == Max({1, Min(late) - AcLate})
             region == [from |-> first, to |-> Len(text), item |-> "none", base |-> "late filing"]
  <2>1. Regions(text, form) = IF late = {} THEN {} ELSE {region}
    BY <1>2 DEF Regions, LateIn
  <2>2. ASSUME NEW x \in late PROVE x \in Nat /\ x \in 1..n
    <3>1. x \in 1..n
      BY <1>0 DEF LateIn
    <3> QED
      BY <3>1
  <2> HIDE DEF late
  <2>3. late # {} => Min(late) \in late
    BY <2>2, MinOfNaturals
  <2>4. ASSUME late # {} PROVE RegionIs(region, text, form)
    <3>1. Min(late) \in 1..n /\ AcLate \in Nat
      BY <2>2, <2>3, <2>4, AccountingConstants
    <3>2. first = IF 1 >= Min(late) - AcLate THEN 1 ELSE Min(late) - AcLate
      BY <3>1, MaxOfTwo
    <3>3. first \in 1..n
      BY <3>1, <3>2
    <3>4. /\ region.from = first /\ region.to = Len(text) /\ region.item = "none"
          /\ region.base = "late filing"
      OBVIOUS
    <3> HIDE DEF region, first
    <3> QED
      <4>0. region.from \in 1..n /\ region.to = n
        BY <1>0, <3>3, <3>4
      <4>1. region.from \in 1..n /\ region.to \in 1..n /\ region.from <= region.to
        BY ONLY n \in Nat \ {0}, <4>0
      <4>2. LateIn(text) # {}
        BY <2>4 DEF late
      <4> QED
        BY <1>0, <1>2, <3>4, <4>1, <4>2 DEF RegionIs
  <2> HIDE DEF late, region
  <2> QED
    BY <1>2, <2>1, <2>4 DEF late
<1>3. CASE form = "10-K"
  <2> DEFINE region == [from |-> 1, to |-> Len(text), item |-> "none", base |-> "none"]
  <2>1. Regions(text, form) = {region}
    BY <1>3 DEF Regions
  <2>2. RegionIs(region, text, form)
    BY <1>0, <1>3 DEF RegionIs
  <2> HIDE DEF region
  <2> QED
    BY <1>3, <2>1, <2>2
<1> QED
  BY <1>1, <1>2, <1>3 DEF AcForm

(* Every hit has a window within the limits, quotes its phrase and is of a   *)
(* kind its region allows, and every notice that opens a region is a hit.    *)
HitIs(h, r, form) ==
  /\ form = "8-K" /\ r.item = "3.01" => EventBySignal(h.signal) = "LISTING_COMPLIANCE"
  /\ form = "8-K" /\ r.item = "4.02" =>
       EventBySignal(h.signal) \in {"NON_RELIANCE_RESTATEMENT", "INTERNAL_CONTROLS"}
  /\ form = "NT 10-K" => EventBySignal(h.signal) \in {"LATE_FILING", "INTERNAL_CONTROLS"}
  /\ form = "10-K" => EventBySignal(h.signal) = "INTERNAL_CONTROLS"

QuotesPhrase(h, text, n) ==
  /\ h.window \in WindowsOf(n) /\ WindowSize(h.window) \in 1..AcWindow
  /\ h.signal \in AcSignal => \E i \in h.window.start..h.window.end : text[i] = h.signal

LEMMA HitsAre ==
  ASSUME NEW n \in Nat \ {0}, NEW form \in AcForm, NEW text \in [1..n -> AcCharacters(form)]
  PROVE  /\ \A h \in Hits(text, form) :
              QuotesPhrase(h, text, n) /\ \E r \in Regions(text, form) : HitIs(h, r, form)
         /\ \A r \in Regions(text, form) : r.base # "none" =>
              \E h \in Hits(text, form) : h.window.start = r.from /\ h.signal = r.base
<1>0. DOMAIN text = 1..n /\ Len(text) = n
  BY LenProperties
<1> DEFINE Heading(r) == HitWindow(text, r.from, Min({r.to, r.from + AcOpening - 1}), r)
           Opening(r) == IF r.base = "none" THEN {}
                         ELSE {[window |-> Heading(r), signal |-> r.base]}
           Named(r, s) == {i \in r.from..r.to : text[i] = s}
           Phrase(r, s) == HitWindow(text, Min(Named(r, s)), Min(Named(r, s)), r)
           Inner(r) == {[window |-> Phrase(r, s), signal |-> s] :
                          s \in {t \in AcSignal : /\ SignalAllowed(t, form, r.item)
                                                  /\ \E i \in r.from..r.to : text[i] = t}}
<1>1. Hits(text, form) = UNION {Opening(r) \cup Inner(r) : r \in Regions(text, form)}
  BY DEF Hits
<1>2. \A r \in Regions(text, form) : /\ RegionIs(r, text, form)
                                     /\ r.from \in 1..n /\ r.to \in 1..n /\ r.from <= r.to
  <2>1. \A r \in Regions(text, form) : RegionIs(r, text, form)
    BY RegionsAre
  <2> QED
    BY <1>0, <2>1 DEF RegionIs
<1>3. ASSUME NEW r \in Regions(text, form)
      PROVE  /\ Heading(r) \in WindowsOf(n) /\ Heading(r).start = r.from
             /\ WindowSize(Heading(r)) \in 1..AcWindow
  <2> DEFINE last == Min({r.to, r.from + AcOpening - 1})
             w == Heading(r)
  <2>1. r.from \in 1..n /\ r.to \in 1..n /\ r.from <= r.to /\ AcOpening \in Nat \ {0}
    BY <1>2, AccountingConstants
  <2>2. last = IF r.to <= r.from + AcOpening - 1 THEN r.to ELSE r.from + AcOpening - 1
    BY <2>1, MinOfTwo
  <2>3. last \in r.from..r.to /\ r.from \in r.from..r.to /\ n \in Nat
    BY <2>1, <2>2
  <2> HIDE DEF last
  <2>4. /\ w \in WindowsOf(n) /\ w.start \in r.from..r.from /\ WindowSize(w) \in 1..AcWindow
    BY <2>1, <2>3, WindowFacts DEF last
  <2>5. w.start = r.from
    BY <2>1, <2>4
  <2> QED
    BY <2>4, <2>5
<1>4. ASSUME NEW r \in Regions(text, form), NEW h \in Opening(r)
      PROVE  QuotesPhrase(h, text, n) /\ HitIs(h, r, form)
  <2>1. h.window = Heading(r) /\ h.signal = r.base /\ r.base # "none"
    BY <1>4
  <2> HIDE DEF Heading, Opening
  <2>2. /\ EventBySignal("item 3.01") = "LISTING_COMPLIANCE"
        /\ EventBySignal("item 4.02") = "NON_RELIANCE_RESTATEMENT"
        /\ EventBySignal("late filing") = "LATE_FILING"
    BY DEF EventBySignal
  <2>3. /\ form = "8-K" => r.item \in {"3.01", "4.02"} /\ r.base = ItemBase[r.item]
        /\ form = "NT 10-K" => r.base = "late filing"
        /\ form = "10-K" => r.base = "none"
    <3>1. RegionIs(r, text, form)
      BY <1>2
    <3> QED
      BY <3>1 DEF RegionIs
  <2>4. ItemBase["3.01"] = "item 3.01" /\ ItemBase["4.02"] = "item 4.02"
    BY DEF ItemBase
  <2>5. HitIs(h, r, form)
    BY <2>1, <2>2, <2>3, <2>4 DEF HitIs
  <2>6. h.signal \notin AcSignal
    BY <2>1, <2>3, <2>4 DEF AcSignal, AcForm
  <2>7. QuotesPhrase(h, text, n)
    BY <1>3, <2>1, <2>6 DEF QuotesPhrase
  <2> QED
    BY <2>5, <2>7
<1>5. ASSUME NEW r \in Regions(text, form), NEW h \in Inner(r)
      PROVE  QuotesPhrase(h, text, n) /\ HitIs(h, r, form)
  <2>1. PICK s \in AcSignal : /\ SignalAllowed(s, form, r.item)
                              /\ \E i \in r.from..r.to : text[i] = s
                              /\ h = [window |-> Phrase(r, s), signal |-> s]
    BY <1>5
  <2> DEFINE p == Min(Named(r, s))
  <2>2. h.window = HitWindow(text, p, p, r) /\ h.signal = s
    BY <2>1
  <2>3. \A i \in Named(r, s) : i \in 1..n /\ i \in Nat
    BY <1>2
  <2>4. Named(r, s) # {}
    BY <2>1
  <2> HIDE DEF Named
  <2>5. p \in Named(r, s)
    BY <2>3, <2>4, MinOfNaturals
  <2> HIDE DEF p
  <2>6. p \in r.from..r.to /\ text[p] = s /\ p \in 1..n
    BY <1>2, <2>5 DEF Named
  <2>7. /\ form = "8-K" => r.item \in {"3.01", "4.02"}
        /\ form # "8-K" => r.item = "none"
    BY <1>2 DEF RegionIs
  <2>8. EventBySignal(s) \in
           CASE r.item = "3.01" -> {"LISTING_COMPLIANCE"}
             [] r.item = "4.02" -> {"NON_RELIANCE_RESTATEMENT", "INTERNAL_CONTROLS"}
             [] form = "NT 10-K" -> {"LATE_FILING", "INTERNAL_CONTROLS"}
             [] OTHER -> {"INTERNAL_CONTROLS"}
    BY <2>1 DEF SignalAllowed
  <2>9. HitIs(h, r, form)
    BY <2>2, <2>7, <2>8 DEF HitIs
  <2> DEFINE w == HitWindow(text, p, p, r)
  <2>10. p \in p..r.to /\ n \in Nat /\ r.from \in 1..n /\ r.to \in 1..n
    BY <1>2, <2>6
  <2>11. w \in WindowsOf(n) /\ w.start \in r.from..p /\ w.end >= p /\ WindowSize(w) \in 1..AcWindow
    BY <2>6, <2>10, WindowFacts
  <2> HIDE DEF w
  <2>12. w.start \in Int /\ w.end \in Int
    BY <2>11 DEF WindowsOf
  <2>13. p \in w.start..w.end
    BY <2>6, <2>11, <2>12
  <2>14. QuotesPhrase(h, text, n)
    BY <2>2, <2>6, <2>11, <2>13 DEF QuotesPhrase, w
  <2> QED
    BY <2>9, <2>14
<1>6. ASSUME NEW r \in Regions(text, form), r.base # "none"
      PROVE  \E h \in Hits(text, form) : h.window.start = r.from /\ h.signal = r.base
  <2> DEFINE h == [window |-> Heading(r), signal |-> r.base]
  <2>1. h \in Opening(r)
    BY <1>6
  <2>2. h.window.start = r.from /\ h.signal = r.base
    BY <1>3
  <2> HIDE DEF h, Opening, Inner
  <2>3. h \in Hits(text, form)
    BY <1>1, <2>1
  <2> QED
    BY <2>2, <2>3
<1> HIDE DEF Opening, Inner
<1>7. \A h \in Hits(text, form) : QuotesPhrase(h, text, n) /\ \E r \in Regions(text, form) : HitIs(h, r, form)
  BY <1>1, <1>4, <1>5
<1> QED
  BY <1>6, <1>7

(* A window kept for a signal is cited by the event of its kind.             *)
CitedIn(events, evidence, w, s) ==
  LET k == EventBySignal(s) IN
  s \in evidence[w] /\ k \in DOMAIN events /\ w \in events[k].evidence

(* The evidence is the windows that were kept, and the events are of the     *)
(* kinds of the hits they were kept for.                                     *)
LEMMA EventsAre ==
  ASSUME NEW n \in Nat \ {0}, NEW form \in AcForm, NEW text \in [1..n -> AcCharacters(form)]
  PROVE  LET evidence == Evidence(text, form)
             events == EventsOf(evidence)
             used == RetainedCharacters(DOMAIN evidence)
         IN /\ Cardinality(DOMAIN evidence) <= AcMaxEvidence /\ used <= AcBudget
            /\ \A h \in Hits(text, form) :
                 \/ h.window \in DOMAIN evidence
                 \/ Cardinality(DOMAIN evidence) = AcMaxEvidence
                 \/ used + WindowSize(h.window) > AcBudget
            /\ \A w \in DOMAIN evidence : \A s \in evidence[w] :
                 \E h \in Hits(text, form) : h.window = w /\ h.signal = s
            /\ \A k \in DOMAIN events :
                 /\ \E h \in Hits(text, form) : EventBySignal(h.signal) = k
                 /\ events[k].evidence # {} /\ events[k].signals # {}
            /\ \A h \in Hits(text, form) :
                 h.window \in DOMAIN evidence => CitedIn(events, evidence, h.window, h.signal)
<1> DEFINE hits == Hits(text, form)
           W == {h.window : h \in hits}
           kept == KeptWindows(W)
           evidence == Evidence(text, form)
           events == EventsOf(evidence)
<1>1. DOMAIN evidence = kept
  BY DEF Evidence
<1>2. \A w \in kept : evidence[w] = {h.signal : h \in {g \in hits : g.window = w}}
  BY DEF Evidence
<1>3. n \in Nat /\ W \in SUBSET WindowsOf(n) /\ \A w \in W : WindowSize(w) \in 1..AcWindow
  <2>1. \A h \in hits : h.window \in WindowsOf(n) /\ WindowSize(h.window) \in 1..AcWindow
    BY HitsAre DEF QuotesPhrase
  <2> HIDE DEF hits
  <2> QED
    BY <2>1
<1>4. /\ DOMAIN events = {EventBySignal(s) : s \in UNION Range(evidence)}
      /\ \A k \in DOMAIN events :
           /\ events[k].signals = EventSignals(k, evidence)
           /\ events[k].evidence = {w \in DOMAIN evidence : \E s \in evidence[w] : EventBySignal(s) = k}
  BY DEF EventsOf
<1>5. UNION Range(evidence) = UNION {evidence[w] : w \in DOMAIN evidence}
  BY DEF Range
<1> HIDE DEF events, evidence, kept, W, hits
<1>6. /\ kept \in SUBSET W
      /\ Cardinality(kept) <= AcMaxEvidence /\ RetainedCharacters(kept) <= AcBudget
      /\ \A w \in W \ kept : \/ Cardinality(kept) = AcMaxEvidence
                             \/ RetainedCharacters(kept) + WindowSize(w) > AcBudget
  BY <1>3, KeptFits DEF kept
<1>7. \A h \in hits : \/ h.window \in kept
                      \/ Cardinality(kept) = AcMaxEvidence
                      \/ RetainedCharacters(kept) + WindowSize(h.window) > AcBudget
  <2>1. \A h \in hits : h.window \in W
    BY DEF W
  <2> QED
    BY <1>6, <2>1
<1>8. ASSUME NEW w \in kept, NEW s \in evidence[w]
      PROVE  \E h \in hits : h.window = w /\ h.signal = s
  BY <1>2, <1>8
<1>9. ASSUME NEW k \in DOMAIN events
      PROVE  /\ \E h \in hits : EventBySignal(h.signal) = k
             /\ events[k].evidence # {} /\ events[k].signals # {}
  <2>1. PICK s \in UNION Range(evidence) : EventBySignal(s) = k
    BY <1>4
  <2>2. PICK w \in kept : s \in evidence[w]
    BY <1>1, <1>5
  <2>3. s \in events[k].signals
    BY <1>4, <2>1 DEF EventSignals
  <2>4. w \in events[k].evidence
    BY <1>1, <1>4, <2>1, <2>2
  <2> QED
    BY <1>8, <2>1, <2>2, <2>3, <2>4
<1>10. ASSUME NEW h \in hits, h.window \in kept
       PROVE  CitedIn(events, evidence, h.window, h.signal)
  <2>1. h.signal \in evidence[h.window]
    BY <1>2, <1>10
  <2>2. h.signal \in UNION Range(evidence)
    BY <1>1, <1>5, <1>10, <2>1
  <2>3. EventBySignal(h.signal) \in DOMAIN events
    BY <1>4, <2>2
  <2>4. h.window \in events[EventBySignal(h.signal)].evidence
    BY <1>1, <1>4, <1>10, <2>1, <2>3
  <2> QED
    BY <2>1, <2>3, <2>4 DEF CitedIn
<1> QED
  BY <1>1, <1>6, <1>7, <1>8, <1>9, <1>10 DEF hits, evidence, events

(* What one extraction says of its text, whatever the text.                  *)
LEMMA NoticesStand ==
  ASSUME NEW n \in Nat \ {0}, NEW form \in AcForm, NEW text \in [1..n -> AcCharacters(form)],
         ExtractAccountingEvidence(text, form)
  PROVE  NoticesBecomeEvents'
<1> DEFINE evidence == Evidence(text, form)
           events == EventsOf(evidence)
           kinds == DOMAIN events
           Mentions(mark) == \E i \in DOMAIN text : text[i] = mark
           used == RetainedCharacters(DOMAIN evidence)
           many == Cardinality(DOMAIN evidence) = AcMaxEvidence
           full == many \/ used + AcWindow > AcBudget
<1>0. DOMAIN text = 1..n
  OBVIOUS
<1>1. /\ accounting'.text = text /\ accounting'.form = form
      /\ accounting'.evidence = evidence /\ accounting'.events = events
  BY DEF ExtractAccountingEvidence
<1>2. /\ Cardinality(DOMAIN evidence) <= AcMaxEvidence /\ used <= AcBudget
      /\ \A h \in Hits(text, form) :
           h.window \in DOMAIN evidence \/ many \/ used + WindowSize(h.window) > AcBudget
      /\ \A w \in DOMAIN evidence : \A s \in evidence[w] :
           \E h \in Hits(text, form) : h.window = w /\ h.signal = s
      /\ \A k \in kinds : /\ \E h \in Hits(text, form) : EventBySignal(h.signal) = k
                          /\ events[k].evidence # {} /\ events[k].signals # {}
      /\ \A h \in Hits(text, form) :
           h.window \in DOMAIN evidence => CitedIn(events, evidence, h.window, h.signal)
  BY EventsAre
<1>3. \A r \in Regions(text, form) : RegionIs(r, text, form)
  BY RegionsAre
<1>4. \A h \in Hits(text, form) : QuotesPhrase(h, text, n)
  BY HitsAre
<1>5. used \in Int /\ AcBudget \in Nat /\ AcWindow \in Nat
  <2>1. DOMAIN evidence \in SUBSET WindowsOf(n)
        /\ \A w \in DOMAIN evidence : WindowSize(w) \in 1..AcWindow
    <3> DEFINE W == {h.window : h \in Hits(text, form)}
    <3>1. DOMAIN evidence = KeptWindows(W)
      BY DEF Evidence
    <3>2. n \in Nat /\ W \in SUBSET WindowsOf(n) /\ \A w \in W : WindowSize(w) \in 1..AcWindow
      BY <1>4 DEF QuotesPhrase
    <3> HIDE DEF W, evidence
    <3>3. KeptWindows(W) \in SUBSET W
      BY <3>2, KeptIs
    <3> QED
      BY <3>1, <3>2, <3>3
  <2> HIDE DEF evidence
  <2> QED
    BY <2>1, RetainedFacts, AccountingConstants
<1> HIDE DEF evidence, events, used, many
<1>6. ~full => \A h \in Hits(text, form) : h.window \in DOMAIN evidence
  <2> SUFFICES ASSUME ~full, NEW h \in Hits(text, form) PROVE h.window \in DOMAIN evidence
    OBVIOUS
  <2>1. WindowSize(h.window) \in Int /\ WindowSize(h.window) <= AcWindow
    BY <1>4, <1>5 DEF QuotesPhrase
  <2> QED
    BY <1>2, <1>5, <2>1
<1> HIDE DEF full
<1>7. ASSUME NEW r \in Regions(text, form), r.base # "none", ~full
      PROVE  \E w \in DOMAIN evidence : w.start = r.from /\ CitedIn(events, evidence, w, r.base)
  <2>1. PICK h \in Hits(text, form) : h.window.start = r.from /\ h.signal = r.base
    BY <1>7, HitsAre
  <2> QED
    BY <1>2, <1>6, <1>7, <2>1
<1>8. ItemBase["3.01"] = "item 3.01" /\ ItemBase["4.02"] = "item 4.02"
  BY DEF ItemBase
<1>9. ASSUME NEW item \in {"3.01", "4.02"}, form = "8-K", Mentions(item), ~full
      PROVE  \E w \in DOMAIN evidence :
               text[w.start] = item /\ CitedIn(events, evidence, w, ItemBase[item])
  <2>0. PICK i \in 1..n : text[i] = item
    BY <1>0, <1>9
  <2>1. PICK r \in Regions(text, form) : r.item = item
    <3>1. form = "8-K" => \A j \in 1..n : text[j] \in {"3.01", "4.02"} =>
                           \E r \in Regions(text, form) : r.item = text[j]
      BY ONLY n \in Nat \ {0}, text \in [1..n -> AcCharacters(form)], form \in AcForm, RegionsAre
    <3> QED
      BY ONLY <1>9, <2>0, <3>1
  <2>2. r.base = ItemBase[item] /\ text[r.from] = item
    BY <1>3, <1>9, <2>1 DEF RegionIs
  <2>3. r.base # "none"
    BY <1>8, <2>2
  <2>4. PICK w \in DOMAIN evidence : w.start = r.from /\ CitedIn(events, evidence, w, r.base)
    BY <1>7, <1>9, <2>3
  <2> QED
    BY <2>2, <2>4
<1>10. ASSUME form = "NT 10-K", Mentions("unable to file"), ~full
       PROVE  \E w \in DOMAIN evidence : CitedIn(events, evidence, w, "late filing")
  <2>1. LateIn(text) # {}
    BY <1>10 DEF LateIn
  <2>2. PICK r \in Regions(text, form) : TRUE
    BY <1>10, <2>1, RegionsAre
  <2>3. r.base = "late filing"
    BY <1>3, <1>10, <2>2 DEF RegionIs
  <2> QED
    BY <1>7, <1>10, <2>2, <2>3
<1>11. ASSUME NEW w \in DOMAIN evidence, NEW s \in evidence[w] \cap AcSignal
       PROVE  \E i \in w.start..w.end : text[i] = s
  <2>1. PICK h \in Hits(text, form) : h.window = w /\ h.signal = s
    BY <1>2, <1>11
  <2> QED
    BY <1>4, <1>11, <2>1 DEF QuotesPhrase
<1>12. ASSUME NEW k \in kinds
      PROVE  \E r \in Regions(text, form) :
               /\ form = "8-K" /\ r.item = "3.01" => k = "LISTING_COMPLIANCE"
               /\ form = "8-K" /\ r.item = "4.02" =>
                    k \in {"NON_RELIANCE_RESTATEMENT", "INTERNAL_CONTROLS"}
               /\ form = "NT 10-K" => k \in {"LATE_FILING", "INTERNAL_CONTROLS"}
               /\ form = "10-K" => k = "INTERNAL_CONTROLS"
  <2>1. PICK h \in Hits(text, form) : EventBySignal(h.signal) = k
    BY <1>2
  <2>2. PICK r \in Regions(text, form) : HitIs(h, r, form)
    BY HitsAre
  <2> QED
    BY <2>1, <2>2 DEF HitIs
<1>13. \A r \in Regions(text, form) :
        /\ form = "8-K" => r.item \in {"3.01", "4.02"} /\ Mentions(r.item)
        /\ form = "NT 10-K" => Mentions("unable to file")
  BY <1>3 DEF RegionIs, LateIn
<1> HIDE DEF kinds, Mentions
<1>14. ASSUME "LISTING_COMPLIANCE" \in kinds PROVE form = "8-K" /\ Mentions("3.01")
  <2>1. PICK r \in Regions(text, form) :
          /\ form = "8-K" => r.item = "3.01" \/ r.item \notin {"3.01", "4.02"}
          /\ form = "8-K"
    BY <1>12, <1>14 DEF AcForm
  <2>2. r.item = "3.01" /\ Mentions(r.item)
    BY <1>13, <2>1
  <2> QED
    BY <2>1, <2>2
<1>15. ASSUME "NON_RELIANCE_RESTATEMENT" \in kinds PROVE form = "8-K" /\ Mentions("4.02")
  <2>1. PICK r \in Regions(text, form) :
          /\ form = "8-K" => r.item = "4.02" \/ r.item \notin {"3.01", "4.02"}
          /\ form = "8-K"
    BY <1>12, <1>15 DEF AcForm
  <2>2. r.item = "4.02" /\ Mentions(r.item)
    BY <1>13, <2>1
  <2> QED
    BY <2>1, <2>2
<1>16. "LATE_FILING" \in kinds => form = "NT 10-K" /\ Mentions("unable to file")
  BY <1>12, <1>13 DEF AcForm
<1>17. ASSUME form = "8-K", ~Mentions("4.02") PROVE "INTERNAL_CONTROLS" \notin kinds
  <2>1. \A r \in Regions(text, form) : r.item = "3.01"
    <3>1. \A r \in Regions(text, form) : r.item \in {"3.01", "4.02"} /\ Mentions(r.item)
      BY <1>13, <1>17
    <3> QED
      BY <1>17, <3>1
  <2> QED
    BY <1>12, <1>17, <2>1
<1>18. NoticesAreEvents(text, form, evidence, events) <=>
            LET Cites(w, s) == LET k == EventBySignal(s) IN
                               s \in evidence[w] /\ k \in kinds /\ w \in events[k].evidence
            IN
            /\ Cardinality(DOMAIN evidence) <= AcMaxEvidence /\ used <= AcBudget
            /\ \A h \in Hits(text, form) :
                 h.window \in DOMAIN evidence \/ many \/ used + WindowSize(h.window) > AcBudget
            /\ form = "8-K" /\ ~full => \A item \in {"3.01", "4.02"} : Mentions(item) =>
                 \E w \in DOMAIN evidence :
                   text[w.start] = item /\ Cites(w, IF item = "3.01" THEN "item 3.01" ELSE "item 4.02")
            /\ form = "NT 10-K" /\ ~full /\ Mentions("unable to file") =>
                 \E w \in DOMAIN evidence : Cites(w, "late filing")
            /\ \A w \in DOMAIN evidence : \A s \in evidence[w] \cap AcSignal :
                 \E i \in w.start..w.end : text[i] = s
            /\ "LISTING_COMPLIANCE" \in kinds => form = "8-K" /\ Mentions("3.01")
            /\ "NON_RELIANCE_RESTATEMENT" \in kinds => form = "8-K" /\ Mentions("4.02")
            /\ "LATE_FILING" \in kinds => form = "NT 10-K" /\ Mentions("unable to file")
            /\ form = "8-K" /\ ~Mentions("4.02") => "INTERNAL_CONTROLS" \notin kinds
            /\ \A k \in kinds : events[k].evidence # {} /\ events[k].signals # {}
  BY DEF NoticesAreEvents, kinds, Mentions, used, many, full
<1>19. form = "8-K" /\ ~full => \A item \in {"3.01", "4.02"} : Mentions(item) =>
         \E w \in DOMAIN evidence :
           /\ text[w.start] = item
           /\ CitedIn(events, evidence, w, IF item = "3.01" THEN "item 3.01" ELSE "item 4.02")
  BY <1>8, <1>9
<1>20. NoticesAreEvents(text, form, evidence, events)
  BY <1>2, <1>10, <1>11, <1>14, <1>15, <1>16, <1>17, <1>18, <1>19 DEF CitedIn, kinds
<1> QED
  BY <1>1, <1>20 DEF NoticesBecomeEvents

(* The clock stays within its bound, and the receipts and workers are those  *)
(* of the filings and processes there are.                                   *)
THEOREM AccountingTypeCorrect == AccountingSpec => []AccountingTypeOK
<1>1. AcInv => AccountingTypeOK
  BY DEF AcInv, AcTypes, AccountingTypeOK
<1> QED
  BY <1>1, AcInductive, PTL

(* An official notice becomes an event that cites it, whatever the text and  *)
(* the limits, and an event is compared only with filings known before it,   *)
(* in whatever order any number of workers retrieve, read, store, fail and   *)
(* retry (extract_accounting_evidence, build_accounting_filing_receipt).     *)
THEOREM AccountingTraceable == AccountingSpec => []AccountingIsTraceable
<1>1. AccountingInit => NoticesBecomeEvents
  <2>1. AccountingInit => accounting.op = "none"
    BY DEF AccountingInit, NoAccounting
  <2>2. accounting.op = "none" => NoticesBecomeEvents
    BY DEF NoticesBecomeEvents
  <2> QED
    BY <2>1, <2>2
<1>2. NoticesBecomeEvents /\ [AccountingNext]_accountingVars => NoticesBecomeEvents'
  <2> SUFFICES ASSUME NoticesBecomeEvents, [AccountingNext]_accountingVars
               PROVE  NoticesBecomeEvents'
    OBVIOUS
  <2>1. CASE UNCHANGED accounting
    BY <2>1 DEF NoticesBecomeEvents
  <2>2. CASE AccountingReturn
    BY <2>2 DEF AccountingReturn, NoAccounting, NoticesBecomeEvents
  <2>3. ASSUME NEW n \in 1..AcLength, NEW form \in AcForm,
               NEW text \in [1..n -> AcCharacters(form)], ExtractAccountingEvidence(text, form)
        PROVE  NoticesBecomeEvents'
    <3>1. n \in Nat \ {0}
      OBVIOUS
    <3> QED
      BY <2>3, <3>1, NoticesStand
  <2>4. ASSUME NEW w \in AcWorker,
               \/ \E f \in AcFiling, row \in SubmissionRow : FetchSubmissions(w, f, row)
               \/ ReadPriorReceipts(w) \/ AppendReceipt(w) \/ AccountingFails(w)
        PROVE  UNCHANGED accounting
    BY <2>4 DEF FetchSubmissions, ReadPriorReceipts, AppendReceipt, AccountingFails
  <2>5. CASE UNCHANGED accountingVars
    BY <2>1, <2>5 DEF accountingVars
  <2> QED
    BY <2>1, <2>2, <2>3, <2>4, <2>5 DEF AccountingNext, AcForm
<1>3. AcInv => ComparisonsLookBack
  <2> SUFFICES ASSUME AcInv, NEW f \in AcFiling, acReceipts[f] # AcNone,
                      NEW k \in DOMAIN acReceipts[f].events
               PROVE  LET e == acReceipts[f].events[k]
                          g == e.prior
                          Same(h) == AcDisclosed[h][k] = AcDisclosed[f][k]
                      IN
                      /\ e.comparison # "PRIOR_COMPARISON_UNAVAILABLE" =>
                           /\ g < f /\ acReceipts[g].at < acReceipts[f].at
                           /\ k \in DOMAIN acReceipts[g].events
                      /\ e.comparison = "REPEATED_DISCLOSURE" => Same(g)
                      /\ e.comparison = "CHANGED_DISCLOSURE" => ~\E h \in acReceipts[f].read : Same(h)
                      /\ e.comparison = "PRIOR_COMPARISON_UNAVAILABLE" =>
                           \A h \in acReceipts[f].read : AcDisclosed[h][k] = 0
    BY DEF ComparisonsLookBack
  <2>1. ComparedWell(f, k, acReceipts[f].events[k], acReceipts[f].read)
    BY DEF AcInv, AcCompared, AcStored
  <2>2. k \in AcKind
    BY DEF AcInv, AcTypes, AcStored, AcReceiptOf
  <2>3. \A g \in AcFiling : AcStored(g) /\ AcDisclosed[g][k] # 0 => k \in DOMAIN acReceipts[g].events
    BY <2>2 DEF AcInv, AcTypes, AcReceiptOf
  <2> QED
    BY <2>1, <2>3 DEF ComparedWell
<1>4. AccountingSpec => []NoticesBecomeEvents
  BY <1>1, <1>2, PTL DEF AccountingSpec
<1>5. NoticesBecomeEvents /\ ComparisonsLookBack => AccountingIsTraceable
  BY DEF AccountingIsTraceable
<1> QED
  BY <1>3, <1>4, <1>5, AcInductive, PTL

-----------------------------------------------------------------------------
(* Engineering measurements: for any filings, windows, epoch and cadence.    *)

(* The maximum of three integers.                                           *)
LEMMA MaxOfThree ==
  ASSUME NEW a \in Int, NEW b \in Int, NEW c \in Int
  PROVE  LET m == Max({a, b, c})
         IN m \in {a, b, c} /\ m >= a /\ m >= b /\ m >= c
<1>1. \E x \in {a, b, c} : \A y \in {a, b, c} : x >= y
  <2>1. CASE a >= b /\ a >= c
    BY <2>1
  <2>2. CASE b >= a /\ b >= c
    BY <2>2
  <2>3. CASE c >= a /\ c >= b
    BY <2>3
  <2> QED
    BY <2>1, <2>2, <2>3
<1> QED
  BY <1>1 DEF Max

(* A window covers what lies after its start and after the epoch.           *)
LEMMA CoverageStartIs ==
  ASSUME NEW from \in Int
  PROVE  CoverageStart(from) = IF from >= MeEpoch THEN from ELSE MeEpoch
<1>1. MeEpoch \in Nat
  BY MeasurementAssumption
<1>2. \E x \in {from, MeEpoch} : \A y \in {from, MeEpoch} : x >= y
  <2>1. CASE from >= MeEpoch
    BY <2>1, <1>1
  <2>2. CASE ~(from >= MeEpoch)
    BY <2>2, <1>1
  <2> QED
    BY <2>1, <2>2
<1>3. CoverageStart(from) \in {from, MeEpoch} /\ CoverageStart(from) >= from /\ CoverageStart(from) >= MeEpoch
  BY <1>2 DEF CoverageStart, Max
<1> QED
  BY <1>1, <1>3

-----------------------------------------------------------------------------
(* The inductive invariant *)

(* What the radar stores about a filing happens in order.                   *)
MeRowOK(r) ==
  /\ r.discovered \in MeTime /\ r.known \in MeTime /\ r.decided \in MeTime
  /\ r.published \in MeTime /\ r.alerted \in MeTime
  /\ r.lineage \in 0..MaxMeLineages
  /\ r.discovered <= meClock /\ r.decided <= meClock /\ r.alerted <= meClock
  /\ r.known <= r.discovered
  /\ r.decided # NoTime => r.discovered # NoTime /\ r.discovered <= r.decided
  /\ r.published \in {NoTime, r.decided}
  /\ r.alerted # NoTime => r.published # NoTime /\ r.published <= r.alerted

(* A latency receipt spelled out by what it was read from.                  *)
MeReceipt(f, lineage, known, discovered, published, alerted, decided) ==
  [key |-> <<f, lineage, published, alerted>>, filing |-> f,
   known |-> known, discovered |-> discovered, published |-> published, alerted |-> alerted,
   values |-> LatencyValues([known |-> known, discovered |-> discovered,
                             published |-> published, alerted |-> alerted]),
   measured |-> Max({decided, published, alerted})]

(* A stored receipt repeats the row of its filing, up to a lineage that was  *)
(* evaluated later and a delivery that was not yet there.                   *)
ReceiptHolds(l, f, lineage, known, alerted) ==
  LET r == meRows[f]
  IN /\ r.decided # NoTime
     /\ lineage <= r.lineage /\ (lineage = r.lineage => known = r.known)
     /\ alerted \in {NoTime, r.alerted}
     /\ l = MeReceipt(f, lineage, known, r.discovered, r.published, alerted, r.decided)

MeLatency(l) ==
  \E f \in MeFiling : \E lineage \in 0..MaxMeLineages : \E known \in MeTime : \E alerted \in MeTime :
     ReceiptHolds(l, f, lineage, known, alerted)

(* What is measured lies in the past.                                       *)
MePast ==
  /\ \A w \in MeWorker : meNow[w] <= meClock
  /\ \A s \in meSets : s.at \in Int /\ s.at <= meClock

MeInv ==
  /\ meClock \in 0..MaxMeClock /\ meNow \in [MeWorker -> MeTime]
  /\ meRows = [f \in MeFiling |-> meRows[f]] /\ \A f \in MeFiling : MeRowOK(meRows[f])
  /\ meCalls \in [MeFiling -> Seq([at : 0..MaxMeClock, kind : MeCallKind])]
  /\ \A f \in MeFiling : Len(meCalls[f]) <= MaxMeCalls
  /\ \A l \in meLatencies : MeLatency(l)
  /\ \A l \in meLatencies : DurationsMatch(l)
  /\ WindowsAreCovered /\ MePast
  /\ OnlyTruncationIsRefused /\ TruncationEndsTheSets

LEMMA MeConstants ==
  /\ MeEpoch \in Nat /\ MaxMeClock \in Nat /\ MaxMeCalls \in Nat /\ MaxMeLineages \in Nat
  /\ MeWindow \subseteq Nat /\ IsFiniteSet(MeFiling)
  /\ NoTime \in Int /\ NoTime \in MeTime /\ 0..MaxMeClock \subseteq MeTime
  /\ MeTime \subseteq Int /\ \A t \in MeTime : t >= NoTime
BY MeasurementAssumption DEF NoTime, MeTime

LEMMA MeInvInit == MeInit => MeInv
<1> SUFFICES ASSUME MeInit PROVE MeInv
  OBVIOUS
<1>1. \A f \in MeFiling : meRows[f] = NoMeRow /\ meCalls[f] = <<>>
  BY DEF MeInit
<1>2. \A f \in MeFiling : MeRowOK(meRows[f])
  BY <1>1, MeConstants DEF MeInit, MeRowOK, NoMeRow, NoTime, MeTime
<1>3. meCalls \in [MeFiling -> Seq([at : 0..MaxMeClock, kind : MeCallKind])]
  BY DEF MeInit
<1>4. \A f \in MeFiling : Len(meCalls[f]) <= MaxMeCalls
  BY <1>1, MeConstants
<1>5. meRows = [f \in MeFiling |-> meRows[f]]
  BY <1>1 DEF MeInit
<1>6. meClock \in 0..MaxMeClock /\ meNow \in [MeWorker -> MeTime]
  BY MeConstants DEF MeInit
<1>7. (\A l \in meLatencies : MeLatency(l) /\ DurationsMatch(l)) /\ WindowsAreCovered
  BY DEF MeInit, WindowsAreCovered
<1>8. MePast /\ OnlyTruncationIsRefused /\ TruncationEndsTheSets
  BY DEF MeInit, MePast, OnlyTruncationIsRefused, TruncationEndsTheSets, NoTime
<1> QED
  BY <1>2, <1>3, <1>4, <1>5, <1>6, <1>7, <1>8 DEF MeInv

-----------------------------------------------------------------------------
(* What a measurement finds *)

(* The receipt of a decided filing reconciles.                              *)
LEMMA LatencyReceiptsReconcile ==
  ASSUME MeInv, NEW now, NEW f \in DecidedIn(MeEpoch, now)
  PROVE  LatencyReconciles(LatencyReceipt(f, now))
<1> DEFINE r == meRows[f]
           l == LatencyReceipt(f, now)
<1>1. f \in MeFiling /\ r.decided # NoTime /\ MeRowOK(r)
  BY DEF DecidedIn, MeInv
<1>2. /\ l.known = r.known /\ l.discovered = r.discovered
      /\ l.published = r.published /\ l.alerted = r.alerted
      /\ l.measured = Max({r.decided, r.published, r.alerted})
  BY DEF LatencyReceipt, StampedAt
<1> HIDE DEF l, r
<1>3. /\ r.discovered \in Int /\ r.known \in Int /\ r.decided \in Int
      /\ r.published \in Int /\ r.alerted \in Int /\ meClock \in Int /\ NoTime \in Int
      /\ r.discovered >= NoTime
  BY <1>1, MeConstants DEF MeRowOK, MeInv
<1>4. /\ l.measured \in Int /\ l.measured >= r.decided
      /\ l.measured >= r.published /\ l.measured >= r.alerted
  <2> DEFINE m == Max({r.decided, r.published, r.alerted})
  <2>1. m \in {r.decided, r.published, r.alerted} /\ m >= r.decided /\ m >= r.published /\ m >= r.alerted
    BY <1>3, MaxOfThree, Zenon
  <2> HIDE DEF m
  <2>2. l.measured = m
    BY <1>2 DEF m
  <2> QED
    BY <1>3, <2>1, <2>2
<1>5. r.discovered <= r.decided
  BY <1>1 DEF MeRowOK
<1>6. l.measured >= Max({l.discovered, l.published, l.alerted})
  <2> DEFINE m == Max({r.discovered, r.published, r.alerted})
  <2>1. m \in {r.discovered, r.published, r.alerted}
    BY <1>3, MaxOfThree, Zenon
  <2>2. m = Max({l.discovered, l.published, l.alerted})
    BY <1>2
  <2> HIDE DEF m
  <2>3. l.measured >= m
    BY <1>3, <1>4, <1>5, <2>1
  <2> QED
    BY <2>2, <2>3
<1>7. l.known # NoTime => l.known <= l.discovered
  BY <1>1, <1>2 DEF MeRowOK
<1>8. l.published # NoTime => l.published >= l.discovered
  BY <1>1, <1>2, <1>3, <1>5 DEF MeRowOK
<1>9. l.alerted # NoTime => l.published # NoTime /\ l.alerted >= l.published
  BY <1>1, <1>2, <1>3 DEF MeRowOK
<1>10. LatencyReconciles(l)
  BY <1>6, <1>7, <1>8, <1>9 DEF LatencyReconciles
<1> QED
  BY <1>10 DEF l

(* It is the receipt that the row spells out.                               *)
LEMMA ReceiptOfRow ==
  ASSUME MeInv, NEW now, NEW f \in DecidedIn(MeEpoch, now)
  PROVE  /\ f \in MeFiling
         /\ ReceiptHolds(LatencyReceipt(f, now), f, meRows[f].lineage, meRows[f].known, meRows[f].alerted)
         /\ MeLatency(LatencyReceipt(f, now))
<1> DEFINE r == meRows[f]
<1>1. f \in MeFiling /\ r.decided # NoTime /\ MeRowOK(r)
  BY DEF DecidedIn, MeInv
<1>2. LatencyReceipt(f, now) = MeReceipt(f, r.lineage, r.known, r.discovered, r.published, r.alerted, r.decided)
  <2> DEFINE times == [known |-> r.known, discovered |-> r.discovered,
                       published |-> r.published, alerted |-> r.alerted]
  <2>1. Durations(r) = Durations(times)
    BY DEF Durations
  <2>2. LatencyValues(r) = LatencyValues(times)
    BY <2>1 DEF LatencyValues
  <2> HIDE DEF times
  <2> QED
    BY <2>2 DEF LatencyReceipt, MeReceipt, StampedAt, times
<1>3. r.lineage \in 0..MaxMeLineages /\ r.known \in MeTime /\ r.alerted \in MeTime
  BY <1>1 DEF MeRowOK
<1>4. ReceiptHolds(LatencyReceipt(f, now), f, r.lineage, r.known, r.alerted)
  BY <1>1, <1>2, <1>3, MeConstants DEF ReceiptHolds
<1> QED
  BY <1>1, <1>3, <1>4 DEF MeLatency

(* An earlier receipt under the same key is the same receipt.               *)
LEMMA ReceiptsNeverConflict ==
  ASSUME MeInv, NEW now, NEW f \in DecidedIn(MeEpoch, now)
  PROVE  ~LatencyConflicts(LatencyReceipt(f, now))
<1> SUFFICES ASSUME NEW old \in meLatencies, old.key = LatencyReceipt(f, now).key
             PROVE  old = LatencyReceipt(f, now)
  BY DEF LatencyConflicts
<1> DEFINE l == LatencyReceipt(f, now)
           r == meRows[f]
<1>1. l = MeReceipt(f, r.lineage, r.known, r.discovered, r.published, r.alerted, r.decided)
  BY ReceiptOfRow DEF ReceiptHolds
<1>2. PICK g \in MeFiling : \E lineage \in 0..MaxMeLineages : \E known \in MeTime : \E alerted \in MeTime :
         ReceiptHolds(old, g, lineage, known, alerted)
  BY DEF MeInv, MeLatency
<1>3. PICK lineage \in 0..MaxMeLineages : \E known \in MeTime : \E alerted \in MeTime :
         ReceiptHolds(old, g, lineage, known, alerted)
  BY <1>2
<1>4. PICK known \in MeTime : \E alerted \in MeTime : ReceiptHolds(old, g, lineage, known, alerted)
  BY <1>3
<1>5. PICK alerted \in MeTime : ReceiptHolds(old, g, lineage, known, alerted)
  BY <1>4
<1>6. old.key = <<g, lineage, meRows[g].published, alerted>>
  BY <1>5 DEF ReceiptHolds, MeReceipt
<1>7. l.key = <<f, r.lineage, r.published, r.alerted>>
  BY <1>1 DEF MeReceipt
<1>8. g = f /\ lineage = r.lineage /\ alerted = r.alerted
  <2>1. <<g, lineage, meRows[g].published, alerted>> = <<f, r.lineage, r.published, r.alerted>>
    BY <1>6, <1>7
  <2> QED
    BY <2>1
<1>9. known = r.known
  BY <1>5, <1>8 DEF ReceiptHolds
<1> QED
  BY <1>1, <1>5, <1>8, <1>9 DEF ReceiptHolds

(* The calls of a window are finitely many.                                 *)
LEMMA CallsAreFinite ==
  ASSUME MeInv, NEW from, NEW now
  PROVE  IsFiniteSet(CallsIn(from, now))
<1> DEFINE Pairs == MeFiling \X (1..MaxMeCalls)
           All == [filing : MeFiling, call : 1..MaxMeCalls]
           g == [p \in Pairs |-> [filing |-> p[1], call |-> p[2]]]
<1>1. IsFiniteSet(Pairs)
  <2>1. IsFiniteSet(1..MaxMeCalls) /\ IsFiniteSet(MeFiling)
    BY MeConstants, FS_Interval
  <2> QED
    BY <2>1, FS_Product, Zenon
<1>2. g \in Surjection(Pairs, All)
  <2>1. g \in [Pairs -> All]
    OBVIOUS
  <2>2. \A c \in All : \E p \in Pairs : g[p] = c
    <3> SUFFICES ASSUME NEW c \in All PROVE \E p \in Pairs : g[p] = c
      OBVIOUS
    <3>1. <<c.filing, c.call>> \in Pairs /\ g[<<c.filing, c.call>>] = c
      OBVIOUS
    <3> QED
      BY <3>1
  <2> HIDE DEF g, Pairs, All
  <2> QED
    BY <2>1, <2>2 DEF Surjection
<1> HIDE DEF g, Pairs
<1>3. IsFiniteSet(All)
  BY <1>1, <1>2, FS_Surjection
<1>4. CallsIn(from, now) \subseteq All
  <2> SUFFICES ASSUME NEW f \in MeFiling, NEW i \in DOMAIN meCalls[f]
               PROVE  [filing |-> f, call |-> i] \in All
    BY DEF CallsIn
  <2>1. meCalls[f] \in Seq([at : 0..MaxMeClock, kind : MeCallKind]) /\ Len(meCalls[f]) <= MaxMeCalls
    BY DEF MeInv
  <2>2. i \in 1..MaxMeCalls
    BY <2>1, MeConstants
  <2> QED
    BY <2>2
<1> HIDE DEF All
<1> QED
  BY <1>3, <1>4, FS_Subset

-----------------------------------------------------------------------------
(* Ratios over a window *)

(* A ratio is withheld exactly when it has no denominator, and says whether  *)
(* its window is whole.                                                     *)
LEMMA RatioIs ==
  ASSUME NEW n, NEW d \in Nat, NEW partial \in BOOLEAN
  PROVE  LET m == Ratio(n, d, partial)
         IN /\ m.availability = "available" \/ m.reason = "no observations" => ~partial
            /\ m.availability # "unavailable" <=> d > 0
            /\ m.availability # "unavailable" => m.value[1] = n /\ m.value[2] = d
<1>1. CASE d > 0
  <2>1. Ratio(n, d, partial) = [availability |-> IF partial THEN "partial" ELSE "available",
                                reason |-> "none", value |-> <<n, d>>]
    BY <1>1 DEF Ratio, Measured
  <2> QED
    BY <1>1, <2>1
<1>2. CASE ~(d > 0)
  <2>1. Ratio(n, d, partial) = Unavailable(EmptyReason(partial))
    BY <1>2 DEF Ratio
  <2>2. \A reason : Unavailable(reason).availability = "unavailable" /\ Unavailable(reason).reason = reason
    BY DEF Unavailable
  <2>3. Ratio(n, d, partial).availability = "unavailable"
    BY <2>1, <2>2
  <2>4. Ratio(n, d, partial).reason = EmptyReason(partial)
    BY <2>1, <2>2
  <2>5. EmptyReason(partial) = "no observations" => ~partial
    BY DEF EmptyReason
  <2> QED
    BY <1>2, <2>3, <2>4, <2>5
<1> QED
  BY <1>1, <1>2

(* What each ratio of a window is taken over, and what it counts.            *)
RatioMetric == {"qwenCalls", "timeouts", "publications", "deliveries"}

Counted(metric, from, now) ==
  CASE metric = "qwenCalls" -> {f \in DecidedIn(from, now) : meRows[f].deep}
    [] metric = "timeouts" -> CallsIn(from, now)
    [] metric = "publications" -> {f \in DecidedIn(from, now) : meRows[f].qualified}
    [] metric = "deliveries" -> {f \in MeFiling : /\ meRows[f].published # NoTime
                                                  /\ meRows[f].published >= from
                                                  /\ meRows[f].published <= now}

CountedHits(metric, from, now) ==
  CASE metric = "qwenCalls" -> CallsIn(from, now)
    [] metric = "timeouts" -> {c \in CallsIn(from, now) : CallKind(c) = "timeout"}
    [] metric = "publications" -> {f \in Counted("publications", from, now) : meRows[f].published # NoTime}
    [] metric = "deliveries" -> {f \in Counted("deliveries", from, now) : meRows[f].alerted # NoTime}

LEMMA RatiosOfWindow ==
  ASSUME NEW now, NEW w, NEW metric \in RatioMetric
  PROVE  LET from == CoverageStart(now - w)
         IN WindowMeasurements(now, w)[metric]
              = Ratio(Cardinality(CountedHits(metric, from, now)),
                      Cardinality(Counted(metric, from, now)), Partial(now, w))
<1> DEFINE from == CoverageStart(now - w)
           m == WindowMeasurements(now, w)
<1>1. m.qwenCalls = Ratio(Cardinality(CallsIn(from, now)),
                          Cardinality({f \in DecidedIn(from, now) : meRows[f].deep}), Partial(now, w))
  BY DEF WindowMeasurements
<1>2. m.timeouts = Ratio(Cardinality({c \in CallsIn(from, now) : CallKind(c) = "timeout"}),
                         Cardinality(CallsIn(from, now)), Partial(now, w))
  BY DEF WindowMeasurements
<1>3. m.publications =
        Ratio(Cardinality({f \in {g \in DecidedIn(from, now) : meRows[g].qualified} : meRows[f].published # NoTime}),
              Cardinality({f \in DecidedIn(from, now) : meRows[f].qualified}), Partial(now, w))
  BY DEF WindowMeasurements
<1>4. m.deliveries =
        Ratio(Cardinality({f \in {g \in MeFiling : /\ meRows[g].published # NoTime
                                                   /\ meRows[g].published >= from
                                                   /\ meRows[g].published <= now} : meRows[f].alerted # NoTime}),
              Cardinality({f \in MeFiling : /\ meRows[f].published # NoTime
                                            /\ meRows[f].published >= from
                                            /\ meRows[f].published <= now}), Partial(now, w))
  BY DEF WindowMeasurements
<1> HIDE DEF m, from
<1>5. m["qwenCalls"] = m.qwenCalls /\ m["timeouts"] = m.timeouts
      /\ m["publications"] = m.publications /\ m["deliveries"] = m.deliveries
  OBVIOUS
<1>6. m[metric] = Ratio(Cardinality(CountedHits(metric, from, now)),
                        Cardinality(Counted(metric, from, now)), Partial(now, w))
  <2>1. CASE metric = "qwenCalls"
    BY <2>1, <1>1 DEF Counted, CountedHits
  <2>2. CASE metric = "timeouts"
    BY <2>2, <1>2 DEF Counted, CountedHits
  <2>3. CASE metric = "publications"
    BY <2>3, <1>3 DEF Counted, CountedHits
  <2>4. CASE metric = "deliveries"
    BY <2>4, <1>4 DEF Counted, CountedHits
  <2> QED
    BY <2>1, <2>2, <2>3, <2>4 DEF RatioMetric
<1> QED
  BY <1>6 DEF m, from

(* What a window counts is finite, and a longer window counts it as well.    *)
LEMMA CountedIsFinite ==
  ASSUME MeInv, NEW from, NEW now, NEW metric \in RatioMetric
  PROVE  IsFiniteSet(Counted(metric, from, now))
<1>1. Counted(metric, from, now) \subseteq MeFiling \/ Counted(metric, from, now) = CallsIn(from, now)
  BY DEF Counted, RatioMetric, DecidedIn
<1> QED
  BY <1>1, CallsAreFinite, MeConstants, FS_Subset

LEMMA LongerWindowCountsMore ==
  ASSUME MeInv, NEW now \in Int, NEW w \in MeWindow, NEW long \in MeWindow, w < long,
         NEW metric \in RatioMetric
  PROVE  Counted(metric, CoverageStart(now - w), now) \subseteq Counted(metric, CoverageStart(now - long), now)
<1> DEFINE a == CoverageStart(now - w)
           b == CoverageStart(now - long)
<1>0. w \in Int /\ long \in Int /\ MeEpoch \in Int /\ now - w \in Int /\ now - long \in Int
  BY MeConstants
<1>1. a \in Int /\ b \in Int /\ b <= a /\ a >= MeEpoch /\ b >= MeEpoch
  <2>1. a = IF now - w >= MeEpoch THEN now - w ELSE MeEpoch
    BY <1>0, CoverageStartIs
  <2>2. b = IF now - long >= MeEpoch THEN now - long ELSE MeEpoch
    BY <1>0, CoverageStartIs
  <2> HIDE DEF a, b
  <2> QED
    BY <1>0, <2>1, <2>2
<1> HIDE DEF a, b
<1>2. Max({a, MeEpoch}) = a /\ Max({b, MeEpoch}) = b
  <2>1. CoverageStart(a) = a /\ CoverageStart(b) = b
    BY <1>1, <1>0, CoverageStartIs
  <2> QED
    BY <2>1 DEF CoverageStart
<1>3. DecidedIn(a, now) \subseteq DecidedIn(b, now)
  <2> SUFFICES ASSUME NEW f \in DecidedIn(a, now) PROVE f \in DecidedIn(b, now)
    OBVIOUS
  <2>1. f \in MeFiling /\ meRows[f].decided # NoTime /\ meRows[f].decided >= a /\ meRows[f].decided <= now
    BY <1>2 DEF DecidedIn
  <2>2. meRows[f].decided \in Int
    BY <2>1, MeConstants DEF MeInv, MeRowOK
  <2>3. meRows[f].decided >= b
    BY <1>1, <2>1, <2>2
  <2> QED
    BY <1>2, <2>1, <2>3 DEF DecidedIn
<1>4. CallsIn(a, now) \subseteq CallsIn(b, now)
  <2> SUFFICES ASSUME NEW c \in CallsIn(a, now) PROVE c \in CallsIn(b, now)
    OBVIOUS
  <2>a. PICK f \in MeFiling :
          c \in {[filing |-> f, call |-> i] :
                   i \in {j \in DOMAIN meCalls[f] : meCalls[f][j].at >= a /\ meCalls[f][j].at <= now}}
    BY DEF CallsIn
  <2>b. PICK i \in {j \in DOMAIN meCalls[f] : meCalls[f][j].at >= a /\ meCalls[f][j].at <= now} :
          c = [filing |-> f, call |-> i]
    BY <2>a
  <2>1. meCalls[f][i].at \in Int
    <3> DEFINE R == [at : 0..MaxMeClock, kind : MeCallKind]
               s == meCalls[f]
    <3>1. s \in Seq(R) /\ i \in DOMAIN s
      BY <2>b DEF MeInv
    <3> HIDE DEF R, s
    <3>2. s[i] \in R
      BY <3>1
    <3> USE DEF R, s
    <3> QED
      BY <3>2
  <2>2. meCalls[f][i].at >= b
    BY <1>1, <2>1, <2>b
  <2>3. i \in {j \in DOMAIN meCalls[f] : meCalls[f][j].at >= b /\ meCalls[f][j].at <= now}
    BY <2>2, <2>b
  <2> QED
    BY <2>b, <2>3 DEF CallsIn
<1>5. \A f \in MeFiling : meRows[f].published >= a => meRows[f].published >= b
  <2>1. \A f \in MeFiling : meRows[f].published \in Int
    BY MeConstants DEF MeInv, MeRowOK
  <2> QED
    BY <1>1, <2>1
<1>6. Counted(metric, a, now) \subseteq Counted(metric, b, now)
  <2>1. CASE metric = "qwenCalls"
    BY <2>1, <1>3 DEF Counted
  <2>2. CASE metric = "timeouts"
    BY <2>2, <1>4 DEF Counted
  <2>3. CASE metric = "publications"
    BY <2>3, <1>3 DEF Counted
  <2>4. CASE metric = "deliveries"
    BY <2>4, <1>5 DEF Counted
  <2> QED
    BY <2>1, <2>2, <2>3, <2>4 DEF RatioMetric
<1> QED
  BY <1>6 DEF a, b


(* A new set reconciles, and its windows cover what they claim.             *)
SetCovered(s) ==
  \A w \in MeWindow : \A metric \in RatioMetric :
     LET m == s.windows[w][metric]
     IN /\ m.availability = "available" \/ m.reason = "no observations" => s.at - w >= MeEpoch
        /\ \A long \in MeWindow :
             w < long /\ m.availability # "unavailable" =>
               /\ s.windows[long][metric].availability # "unavailable"
               /\ m.value[2] <= s.windows[long][metric].value[2]

LEMMA RatiosOfSet ==
  ASSUME MeInv, NEW now \in Int, NEW sensor, NEW w \in MeWindow, NEW metric \in RatioMetric
  PROVE  LET m == MeasurementSet(now, sensor).windows[w][metric]
             from == CoverageStart(now - w)
             d == Cardinality(Counted(metric, from, now))
         IN /\ d \in Nat
            /\ m.availability = "available" \/ m.reason = "no observations" => now - w >= MeEpoch
            /\ m.availability # "unavailable" <=> d > 0
            /\ m.availability # "unavailable" =>
                 m.value[1] = Cardinality(CountedHits(metric, from, now)) /\ m.value[2] = d
<1> DEFINE set == MeasurementSet(now, sensor)
           m == set.windows[w][metric]
           from == CoverageStart(now - w)
           d == Cardinality(Counted(metric, from, now))
           n == Cardinality(CountedHits(metric, from, now))
<1>1. set.windows[w] = WindowMeasurements(now, w)
  BY DEF MeasurementSet
<1>2. m = Ratio(n, d, Partial(now, w))
  BY <1>1, RatiosOfWindow
<1>3. d \in Nat
  BY CountedIsFinite, FS_CardinalityType
<1>4. Partial(now, w) \in BOOLEAN /\ (~Partial(now, w) => now - w >= MeEpoch)
  <2>1. now - w \in Int /\ MeEpoch \in Int
    BY MeConstants
  <2>2. CoverageStart(now - w) = IF now - w >= MeEpoch THEN now - w ELSE MeEpoch
    BY <2>1, CoverageStartIs
  <2> QED
    BY <2>1, <2>2 DEF Partial
<1> HIDE DEF set, m, d, n
<1>5. /\ m.availability = "available" \/ m.reason = "no observations" => ~Partial(now, w)
      /\ m.availability # "unavailable" <=> d > 0
      /\ m.availability # "unavailable" => m.value[1] = n /\ m.value[2] = d
  <2> DEFINE p == Partial(now, w)
  <2>1. p \in BOOLEAN /\ m = Ratio(n, d, p)
    BY <1>2, <1>4
  <2> HIDE DEF p
  <2>2. LET k == Ratio(n, d, p)
        IN /\ k.availability = "available" \/ k.reason = "no observations" => ~p
           /\ k.availability # "unavailable" <=> d > 0
           /\ k.availability # "unavailable" => k.value[1] = n /\ k.value[2] = d
    BY <1>3, <2>1, RatioIs, Zenon
  <2>3. /\ m.availability = "available" \/ m.reason = "no observations" => ~p
        /\ m.availability # "unavailable" <=> d > 0
        /\ m.availability # "unavailable" => m.value[1] = n /\ m.value[2] = d
    BY <2>1, <2>2, Zenon
  <2> QED
    BY <2>3 DEF p
<1>6. /\ d \in Nat
      /\ m.availability = "available" \/ m.reason = "no observations" => now - w >= MeEpoch
      /\ m.availability # "unavailable" <=> d > 0
      /\ m.availability # "unavailable" => m.value[1] = n /\ m.value[2] = d
  BY <1>3, <1>4, <1>5
<1> QED
  BY <1>6 DEF m, set, d, n

LEMMA SetsReconcile ==
  ASSUME MeInv, NEW now \in Int, NEW sensor
  PROVE  SetReconciles(MeasurementSet(now, sensor))
<1> DEFINE set == MeasurementSet(now, sensor)
<1> SUFFICES ASSUME NEW w \in MeWindow, NEW metric \in {"timeouts", "publications", "deliveries"},
                    set.windows[w][metric].availability # "unavailable"
             PROVE  set.windows[w][metric].value[1] <= set.windows[w][metric].value[2]
  BY DEF SetReconciles
<1> DEFINE from == CoverageStart(now - w)
<1>1. metric \in RatioMetric
  BY DEF RatioMetric
<1>2. /\ set.windows[w][metric].value[1] = Cardinality(CountedHits(metric, from, now))
      /\ set.windows[w][metric].value[2] = Cardinality(Counted(metric, from, now))
  BY <1>1, RatiosOfSet
<1>3. CountedHits(metric, from, now) \subseteq Counted(metric, from, now)
  BY DEF CountedHits, Counted
<1>4. Cardinality(CountedHits(metric, from, now)) <= Cardinality(Counted(metric, from, now))
  BY <1>1, <1>3, CountedIsFinite, FS_Subset
<1> QED
  BY <1>2, <1>4

LEMMA SetsAreCovered ==
  ASSUME MeInv, NEW now \in Int, NEW sensor
  PROVE  SetCovered(MeasurementSet(now, sensor))
<1> DEFINE set == MeasurementSet(now, sensor)
<1>1. set.at = now
  BY DEF MeasurementSet
<1> HIDE DEF set
<1>2. ASSUME NEW w \in MeWindow, NEW metric \in RatioMetric
      PROVE  set.windows[w][metric].availability = "available" \/ set.windows[w][metric].reason = "no observations"
               => set.at - w >= MeEpoch
  <2>1. set.windows[w][metric].availability = "available" \/ set.windows[w][metric].reason = "no observations"
          => now - w >= MeEpoch
    BY <1>2, RatiosOfSet, Zenon DEF set
  <2> QED
    BY <1>1, <2>1
<1>3. ASSUME NEW w \in MeWindow, NEW metric \in RatioMetric, NEW long \in MeWindow, w < long,
             set.windows[w][metric].availability # "unavailable"
      PROVE  /\ set.windows[long][metric].availability # "unavailable"
             /\ set.windows[w][metric].value[2] <= set.windows[long][metric].value[2]
  <2> DEFINE d == Cardinality(Counted(metric, CoverageStart(now - w), now))
             e == Cardinality(Counted(metric, CoverageStart(now - long), now))
  <2>1. d \in Nat /\ d > 0 /\ set.windows[w][metric].value[2] = d
    BY <1>3, RatiosOfSet DEF set
  <2>2. /\ e \in Nat
        /\ set.windows[long][metric].availability # "unavailable" <=> e > 0
        /\ set.windows[long][metric].availability # "unavailable" => set.windows[long][metric].value[2] = e
    BY <1>3, RatiosOfSet DEF set
  <2>3. d <= e
    BY <1>3, LongerWindowCountsMore, CountedIsFinite, FS_Subset
  <2> HIDE DEF d, e
  <2> QED
    BY <2>1, <2>2, <2>3
<1>4. SetCovered(set)
  BY <1>2, <1>3 DEF SetCovered
<1> QED
  BY <1>4 DEF set

LEMMA CoveredIs == WindowsAreCovered <=> \A s \in meSets : SetCovered(s)
BY DEF WindowsAreCovered, SetCovered, RatioMetric

-----------------------------------------------------------------------------
(* The inductive step *)

(* What the trigger refuses is a duration that was truncated.               *)
LEMMA MismatchIsTruncation ==
  ASSUME NEW f, NEW now, ~DurationsMatch(LatencyReceipt(f, now))
  PROVE  \E d \in Range(Durations(LatencyReceipt(f, now))) : d \in MeShort
<1> DEFINE l == LatencyReceipt(f, now)
           e == Durations(l)
<1>1. l.values = LatencyValues(meRows[f]) /\ e = Durations(meRows[f])
  BY DEF LatencyReceipt, Durations
<1>2. e = [what \in DOMAIN e |-> e[what]]
  BY DEF Durations
<1> HIDE DEF e, l
<1>3. l.values = [what \in DOMAIN e |-> Milliseconds(e[what])]
  BY <1>1 DEF LatencyValues
<1>4. PICK what \in DOMAIN e : Milliseconds(e[what]) # e[what]
  <2> SUFFICES ASSUME \A what \in DOMAIN e : Milliseconds(e[what]) = e[what] PROVE FALSE
    OBVIOUS
  <2>1. [what \in DOMAIN e |-> Milliseconds(e[what])] = [what \in DOMAIN e |-> e[what]]
    OBVIOUS
  <2>2. l.values = e
    BY <1>2, <1>3, <2>1
  <2> QED
    BY <2>2 DEF DurationsMatch, e, l
<1>5. e[what] \in MeShort
  BY <1>4 DEF Milliseconds
<1>6. e[what] \in Range(e)
  BY DEF Range
<1> QED
  BY <1>5, <1>6 DEF e, l

(* A filing whose receipt matches was not published after a truncated time.  *)
LEMMA MatchIsExact ==
  ASSUME MeInv, NEW f \in MeFiling, NEW now, DurationsMatch(LatencyReceipt(f, now)),
         meRows[f].published # NoTime
  PROVE  meRows[f].published - meRows[f].discovered \notin MeShort
<1> DEFINE r == meRows[f]
           p == r.published - r.discovered
<1>1. p \in Int
  BY MeConstants DEF MeInv, MeRowOK
<1>2. Durations(r)["publication"] = p /\ "publication" \in DOMAIN Durations(r)
  BY DEF Durations
<1>3. LatencyValues(r)["publication"] = Milliseconds(p)
  BY <1>2 DEF LatencyValues
<1>4. LatencyReceipt(f, now).values = LatencyValues(r) /\ Durations(LatencyReceipt(f, now)) = Durations(r)
  BY DEF LatencyReceipt, Durations
<1>5. LatencyValues(r) = Durations(r)
  BY <1>4 DEF DurationsMatch
<1>6. Milliseconds(p) = p
  BY <1>2, <1>3, <1>5
<1> HIDE DEF p
<1>7. p \notin MeShort
  BY <1>1, <1>6 DEF Milliseconds
<1> QED
  BY <1>7 DEF p

(* A measurement stores exact receipts, or is refused for a truncation.      *)
LEMMA CommitKeeps ==
  ASSUME MeInv, NEW w \in MeWorker, NEW sensor \in MeSensor, CommitMeasurement(w, sensor)
  PROVE  MeInv'
<1> DEFINE now == meNow[w]
           latencies == {LatencyReceipt(f, now) : f \in DecidedIn(MeEpoch, now)}
           set == MeasurementSet(now, sensor)
           refused == {x \in {[receipt |-> l, reason |-> LatencyRefusal(l)] : l \in latencies} :
                         x.reason # "none"}
                        \cup {[receipt |-> x, reason |-> "ratio"] :
                                x \in {y \in {set} : ~SetReconciles(y)}}
<1>1. now \in Int /\ now <= meClock /\ set.at = now
  BY MeConstants DEF MeInv, MePast, MeasurementSet
<1>2. \A l \in latencies : LatencyReconciles(l) /\ ~LatencyConflicts(l)
  BY LatencyReceiptsReconcile, ReceiptsNeverConflict
<1>3. SetReconciles(set) /\ SetCovered(set)
  BY <1>1, SetsReconcile, SetsAreCovered
<1>4. /\ meNow' = [meNow EXCEPT ![w] = NoTime]
      /\ meRefused' = meRefused \cup refused
      /\ \/ refused = {} /\ meSets' = meSets \cup {set} /\ meLatencies' = meLatencies \cup latencies
         \/ meSets' = meSets /\ meLatencies' = meLatencies
      /\ UNCHANGED <<meClock, meRows, meCalls>>
  <2>1. /\ meNow' = [meNow EXCEPT ![w] = NoTime]
        /\ meRefused' = meRefused \cup refused
        /\ meSets' = IF refused = {} THEN meSets \cup {set} ELSE meSets
        /\ meLatencies' = IF refused = {} THEN meLatencies \cup latencies ELSE meLatencies
        /\ UNCHANGED <<meClock, meRows, meCalls>>
    BY DEF CommitMeasurement
  <2> HIDE DEF refused, latencies, set
  <2> QED
    BY <2>1
<1>a. \A l \in latencies : LatencyRefusal(l) = IF DurationsMatch(l) THEN "none" ELSE "truncated"
  BY <1>2 DEF LatencyRefusal
<1>b. ASSUME NEW x \in refused
      PROVE  x.reason = "truncated" /\ \E d \in Range(Durations(x.receipt)) : d \in MeShort
  <2>1. PICK l \in latencies : x = [receipt |-> l, reason |-> LatencyRefusal(l)] /\ x.reason # "none"
    BY <1>3
  <2>2. PICK f \in DecidedIn(MeEpoch, now) : l = LatencyReceipt(f, now)
    OBVIOUS
  <2> HIDE DEF latencies, refused
  <2>3. x.receipt = l /\ x.reason = LatencyRefusal(l)
    BY <2>1
  <2>4. ~DurationsMatch(l) /\ x.reason = "truncated"
    BY <1>a, <2>1, <2>3
  <2> QED
    BY <2>2, <2>3, <2>4, MismatchIsTruncation
<1>c. refused = {} => \A l \in latencies : DurationsMatch(l)
  <2> SUFFICES ASSUME NEW l \in latencies, ~DurationsMatch(l) PROVE refused # {}
    OBVIOUS
  <2>1. LatencyRefusal(l) = "truncated"
    BY <1>a
  <2>2. [receipt |-> l, reason |-> LatencyRefusal(l)] \in refused
    BY <2>1
  <2> QED
    BY <2>2
<1> HIDE DEF refused
<1>d. OnlyTruncationIsRefused'
  <2>1. \A x \in meRefused : /\ x.reason = "truncated"
                             /\ \E d \in Range(Durations(x.receipt)) : d \in MeShort
    BY DEF MeInv, OnlyTruncationIsRefused
  <2> QED
    BY <1>4, <1>b, <2>1 DEF OnlyTruncationIsRefused
<1>e. \A l \in meLatencies' : DurationsMatch(l)'
  <2>1. \A l \in meLatencies' : DurationsMatch(l)
    BY <1>4, <1>c DEF MeInv
  <2> QED
    BY <2>1 DEF DurationsMatch
<1>f. TruncationEndsTheSets'
  <2> SUFFICES ASSUME NEW s \in meSets', NEW f \in MeFiling,
                      meRows[f].decided \in MeEpoch..(s.at - 1), meRows[f].published # NoTime
               PROVE  meRows[f].published - meRows[f].discovered \notin MeShort
    BY <1>4 DEF TruncationEndsTheSets
  <2>1. CASE s \in meSets
    BY <2>1 DEF MeInv, TruncationEndsTheSets
  <2>2. CASE s \notin meSets
    <3>1. s = set /\ refused = {}
      BY <1>4, <2>2
    <3> HIDE DEF set
    <3>2. meRows[f].decided \in Int /\ MeEpoch \in Nat /\ MeEpoch \in Int
      BY MeConstants DEF MeInv, MeRowOK
    <3>3. meRows[f].decided >= MeEpoch /\ meRows[f].decided <= now
      BY <1>1, <3>1, <3>2
    <3>4. Max({MeEpoch, MeEpoch}) = MeEpoch
      BY <3>2, CoverageStartIs DEF CoverageStart
    <3>5. f \in DecidedIn(MeEpoch, now)
      BY <3>2, <3>3, <3>4 DEF DecidedIn, NoTime
    <3>6. DurationsMatch(LatencyReceipt(f, now))
      BY <1>c, <3>1, <3>5
    <3> QED
      BY <3>6, MatchIsExact
  <2> QED
    BY <2>1, <2>2
<1>g. MePast'
  <2>1. \A s \in meSets' : s.at \in Int /\ s.at <= meClock
    BY <1>1, <1>4 DEF MeInv, MePast
  <2>2. \A v \in MeWorker : meNow'[v] <= meClock
    <3>1. NoTime <= meClock
      BY DEF MeInv, NoTime
    <3> QED
      BY <1>4, <3>1 DEF MeInv, MePast
  <2> QED
    BY <1>4, <2>1, <2>2 DEF MePast
<1>5. \A l \in meLatencies' : MeLatency(l)'
  <2>1. \A l \in latencies : MeLatency(l)
    BY ReceiptOfRow
  <2>2. \A l \in meLatencies : MeLatency(l)
    BY DEF MeInv
  <2>3. ASSUME NEW l \in meLatencies' PROVE MeLatency(l)'
    <3>1. MeLatency(l)
      BY <1>4, <2>1, <2>2
    <3> QED
      BY <3>1, <1>4 DEF MeLatency, ReceiptHolds
  <2> QED
    BY <2>3
<1>6. WindowsAreCovered'
  <2>1. \A s \in meSets : SetCovered(s)
    BY CoveredIs DEF MeInv
  <2>2. \A s \in meSets' : SetCovered(s)
    BY <1>3, <1>4, <2>1
  <2> QED
    BY <2>2 DEF WindowsAreCovered, SetCovered, RatioMetric
<1>7. meNow' \in [MeWorker -> MeTime]
  BY <1>4, MeConstants DEF MeInv
<1>8. \A f \in MeFiling : MeRowOK(meRows[f])'
  BY <1>4 DEF MeInv, MeRowOK
<1> HIDE DEF set, latencies
<1> QED
  BY <1>4, <1>5, <1>6, <1>7, <1>8, <1>d, <1>e, <1>f, <1>g DEF MeInv

(* The steps that store a row leave the receipts as they are, and the row    *)
(* keeps whatever a receipt repeats.                                        *)
LEMMA RowStepKeeps ==
  ASSUME MeInv, NEW f \in MeFiling, NEW q, MeRowOK(q), meRows' = [meRows EXCEPT ![f] = q],
         UNCHANGED <<meClock, meCalls, meNow, meSets, meLatencies, meRefused>>,
         \/ meRows[f].decided = NoTime /\ q.decided \in {NoTime, meClock}
         \/ /\ q.decided = meRows[f].decided /\ q.discovered = meRows[f].discovered
            /\ q.published = meRows[f].published
            /\ \/ q.lineage = meRows[f].lineage /\ q.known = meRows[f].known
               \/ q.lineage > meRows[f].lineage
            /\ meRows[f].alerted \in {NoTime, q.alerted}
  PROVE  MeInv'
<1>1. meRows'[f] = q /\ \A g \in MeFiling \ {f} : meRows'[g] = meRows[g]
  BY DEF MeInv
<1>2. meRows' = [g \in MeFiling |-> meRows'[g]]
  BY DEF MeInv
<1>3. \A g \in MeFiling : MeRowOK(meRows[g])'
  <2> SUFFICES ASSUME NEW g \in MeFiling PROVE MeRowOK(meRows[g])'
    OBVIOUS
  <2>1. CASE g = f
    BY <1>1, <2>1 DEF MeRowOK
  <2>2. CASE g # f
    <3>1. MeRowOK(meRows[g]) /\ meRows'[g] = meRows[g]
      BY <1>1, <2>2 DEF MeInv
    <3> QED
      BY <3>1 DEF MeRowOK
  <2> QED
    BY <2>1, <2>2
<1>4. \A l \in meLatencies' : MeLatency(l)'
  <2> SUFFICES ASSUME NEW l \in meLatencies PROVE MeLatency(l)'
    OBVIOUS
  <2>1. PICK g \in MeFiling : \E lineage \in 0..MaxMeLineages : \E known \in MeTime : \E alerted \in MeTime :
           ReceiptHolds(l, g, lineage, known, alerted)
    BY DEF MeInv, MeLatency
  <2>2. PICK lineage \in 0..MaxMeLineages : \E known \in MeTime : \E alerted \in MeTime :
           ReceiptHolds(l, g, lineage, known, alerted)
    BY <2>1
  <2>3. PICK known \in MeTime : \E alerted \in MeTime : ReceiptHolds(l, g, lineage, known, alerted)
    BY <2>2
  <2>4. PICK alerted \in MeTime : ReceiptHolds(l, g, lineage, known, alerted)
    BY <2>3
  <2>5. ReceiptHolds(l, g, lineage, known, alerted)'
    <3>1. CASE g # f
      BY <3>1, <2>4, <1>1 DEF ReceiptHolds
    <3>2. CASE g = f
      <4>1. meRows[f].decided # NoTime
        BY <3>2, <2>4 DEF ReceiptHolds
      <4>2. meRows[f].lineage \in Int /\ q.lineage \in Int /\ lineage \in Int
        BY MeConstants DEF MeInv, MeRowOK
      <4>3. /\ q.decided # NoTime
            /\ l = MeReceipt(f, lineage, known, q.discovered, q.published, alerted, q.decided)
        BY <3>2, <2>4, <4>1 DEF ReceiptHolds
      <4>4. lineage <= meRows[f].lineage /\ (lineage = meRows[f].lineage => known = meRows[f].known)
        BY <3>2, <2>4 DEF ReceiptHolds
      <4>5. lineage <= q.lineage /\ (lineage = q.lineage => known = q.known)
        BY <4>1, <4>2, <4>4
      <4>6. alerted \in {NoTime, q.alerted}
        BY <3>2, <2>4, <4>1 DEF ReceiptHolds
      <4> QED
        BY <3>2, <1>1, <4>3, <4>5, <4>6 DEF ReceiptHolds
    <3> QED
      BY <3>1, <3>2
  <2> QED
    BY <2>5 DEF MeLatency
<1>5. WindowsAreCovered'
  BY DEF MeInv, WindowsAreCovered
<1>6. UNCHANGED <<meClock, meCalls, meNow, meRefused>>
  OBVIOUS
<1>7. TruncationEndsTheSets'
  <2> SUFFICES ASSUME NEW s \in meSets, NEW g \in MeFiling,
                      meRows'[g].decided \in MeEpoch..(s.at - 1), meRows'[g].published # NoTime
               PROVE  meRows'[g].published - meRows'[g].discovered \notin MeShort
    BY DEF TruncationEndsTheSets
  <2>1. /\ meRows'[g].decided = meRows[g].decided /\ meRows'[g].published = meRows[g].published
        /\ meRows'[g].discovered = meRows[g].discovered
    <3>1. CASE g # f
      BY <1>1, <3>1
    <3>2. CASE g = f
      <4>1. s.at \in Int /\ s.at <= meClock /\ meClock \in Int /\ MeEpoch \in Nat
        BY MeConstants DEF MeInv, MePast
      <4>2. q.decided # meClock /\ q.decided # NoTime
        BY <1>1, <3>2, <4>1 DEF NoTime
      <4> QED
        BY <1>1, <3>2, <4>2
    <3> QED
      BY <3>1, <3>2
  <2> QED
    BY <2>1 DEF MeInv, TruncationEndsTheSets
<1>8. MePast' /\ OnlyTruncationIsRefused' /\ \A l \in meLatencies' : DurationsMatch(l)'
  BY DEF MeInv, MePast, OnlyTruncationIsRefused, DurationsMatch
<1> QED
  BY <1>2, <1>3, <1>4, <1>5, <1>6, <1>7, <1>8 DEF MeInv

LEMMA MeInvStep == MeInv /\ [MeNext]_meVars => MeInv'
<1> SUFFICES ASSUME MeInv, [MeNext]_meVars PROVE MeInv'
  OBVIOUS
<1> DEFINE OnlyTime == /\ meClock' \in 0..MaxMeClock /\ meClock' >= meClock /\ meNow' \in [MeWorker -> MeTime]
                       /\ \A w \in MeWorker : meNow'[w] <= meClock'
                       /\ UNCHANGED <<meRows, meSets, meLatencies, meRefused>>
                       /\ meCalls' \in [MeFiling -> Seq([at : 0..MaxMeClock, kind : MeCallKind])]
                       /\ \A f \in MeFiling : Len(meCalls'[f]) <= MaxMeCalls
<1>1. OnlyTime => MeInv'
  <2> SUFFICES ASSUME OnlyTime PROVE MeInv'
    OBVIOUS
  <2>1. \A f \in MeFiling : MeRowOK(meRows[f])'
    <3> SUFFICES ASSUME NEW f \in MeFiling PROVE MeRowOK(meRows[f])'
      OBVIOUS
    <3>1. MeRowOK(meRows[f])
      BY DEF MeInv
    <3>2. /\ meRows[f].discovered \in Int /\ meRows[f].decided \in Int /\ meRows[f].alerted \in Int
          /\ meClock \in Int /\ meClock' \in Int
      BY <3>1, MeConstants DEF MeRowOK, MeInv
    <3> QED
      BY <3>1, <3>2 DEF MeRowOK
  <2>2. \A l \in meLatencies' : MeLatency(l)'
    <3> SUFFICES ASSUME NEW l \in meLatencies PROVE MeLatency(l)'
      OBVIOUS
    <3>1. MeLatency(l) /\ meRows' = meRows
      BY DEF MeInv
    <3> QED
      BY <3>1 DEF MeLatency, ReceiptHolds
  <2>3. WindowsAreCovered'
    BY DEF MeInv, WindowsAreCovered
  <2>4. MePast'
    <3>1. \A s \in meSets : s.at \in Int /\ s.at <= meClock'
      BY DEF MeInv, MePast
    <3> QED
      BY <3>1 DEF MePast
  <2>5. OnlyTruncationIsRefused' /\ TruncationEndsTheSets' /\ \A l \in meLatencies' : DurationsMatch(l)'
    BY DEF MeInv, OnlyTruncationIsRefused, TruncationEndsTheSets, DurationsMatch
  <2> QED
    BY <2>1, <2>2, <2>3, <2>4, <2>5 DEF MeInv
<1> HIDE DEF OnlyTime
<1>2. CASE MeTick
  <2>1. meClock' \in 0..MaxMeClock /\ meClock' >= meClock
    BY <1>2, MeConstants DEF MeTick, MeInv
  <2>2. \A w \in MeWorker : meNow[w] <= meClock'
    BY <2>1, MeConstants DEF MeInv, MePast
  <2> QED
    BY <1>1, <1>2, <2>1, <2>2 DEF MeTick, OnlyTime, MeInv
<1>3. ASSUME NEW w \in MeWorker, BeginMeasurement(w) PROVE MeInv'
  <2>1. meNow' \in [MeWorker -> MeTime]
    BY <1>3, MeConstants DEF BeginMeasurement, MeInv
  <2>2. UNCHANGED <<meClock, meRows, meCalls, meSets, meLatencies, meRefused>>
    BY <1>3 DEF BeginMeasurement
  <2>3. meClock' \in 0..MaxMeClock /\ meClock' >= meClock
    BY <2>2 DEF MeInv
  <2>4. \A v \in MeWorker : meNow'[v] <= meClock
    BY <1>3 DEF BeginMeasurement, MeInv, MePast
  <2> QED
    BY <1>1, <2>1, <2>2, <2>3, <2>4 DEF OnlyTime, MeInv
<1>4. ASSUME NEW w \in MeWorker, NEW sensor \in MeSensor, CommitMeasurement(w, sensor) PROVE MeInv'
  BY <1>4, CommitKeeps
<1>5. ASSUME NEW f \in MeFiling PROVE MeRowOK(meRows[f])
  BY DEF MeInv
<1>t. meClock \in 0..MaxMeClock /\ meClock \in MeTime /\ meClock \in Int /\ meClock # NoTime
  BY MeConstants DEF MeInv, NoTime
<1>6. ASSUME NEW f \in MeFiling, MeDiscover(f) PROVE MeInv'
  <2> DEFINE q == [meRows[f] EXCEPT !.discovered = meClock]
  <2>1. meRows' = [meRows EXCEPT ![f] = q]
    BY <1>6 DEF MeDiscover
  <2>2. meRows[f].decided = NoTime /\ meRows[f].discovered = NoTime
    BY <1>5, <1>6 DEF MeDiscover, MeRowOK
  <2>3. /\ q.discovered = meClock /\ q.decided = meRows[f].decided /\ q.published = meRows[f].published
        /\ q.known = meRows[f].known /\ q.alerted = meRows[f].alerted
        /\ q.lineage = meRows[f].lineage
    BY <1>5 DEF MeRowOK
  <2> HIDE DEF q
  <2>a. /\ meRows[f].known <= meClock /\ meRows[f].published = NoTime /\ meRows[f].alerted = NoTime
    <3>1. MeRowOK(meRows[f])
      BY <1>5
    <3>2. meRows[f].known \in Int /\ meRows[f].known <= meRows[f].discovered /\ meRows[f].discovered <= meClock
          /\ meRows[f].discovered \in Int
      BY <3>1, MeConstants DEF MeRowOK
    <3> QED
      BY <3>1, <3>2, <1>t, <2>2 DEF MeRowOK
  <2>4. MeRowOK(q)
    BY <1>5, <1>t, <2>2, <2>3, <2>a, MeConstants DEF MeRowOK
  <2> HIDE DEF q
  <2> QED
    BY <1>6, <2>1, <2>2, <2>3, <2>4, RowStepKeeps DEF MeDiscover
<1>7. ASSUME NEW f \in MeFiling, NEW known \in {NoTime, meRows[f].discovered}, MeEvaluate(f, known)
      PROVE  MeInv'
  <2> DEFINE q == [meRows[f] EXCEPT !.lineage = @ + 1, !.known = known]
  <2>1. meRows' = [meRows EXCEPT ![f] = q]
    BY <1>7 DEF MeEvaluate
  <2>2. MeRowOK(q)
    BY <1>5, <1>7, MeConstants DEF MeRowOK, MeEvaluate
  <2>3. /\ q.decided = meRows[f].decided /\ q.discovered = meRows[f].discovered
        /\ q.published = meRows[f].published /\ q.alerted = meRows[f].alerted
        /\ q.lineage > meRows[f].lineage
    BY <1>5 DEF MeRowOK
  <2> HIDE DEF q
  <2> QED
    BY <1>7, <2>1, <2>2, <2>3, RowStepKeeps DEF MeEvaluate
<1>8. ASSUME NEW f \in MeFiling, NEW kind \in MeCallKind, MeAnalyse(f, kind) PROVE MeInv'
  <2> DEFINE R == [at : 0..MaxMeClock, kind : MeCallKind]
             c == [at |-> meClock, kind |-> kind]
  <2>1. c \in R /\ meCalls \in [MeFiling -> Seq(R)] /\ \A g \in MeFiling : Len(meCalls[g]) <= MaxMeCalls
    BY <1>t DEF MeInv
  <2>2. /\ meCalls' = [meCalls EXCEPT ![f] = Append(meCalls[f], c)] /\ Len(meCalls[f]) < MaxMeCalls
        /\ UNCHANGED <<meClock, meRows, meNow, meSets, meLatencies, meRefused>>
    BY <1>8 DEF MeAnalyse
  <2> HIDE DEF R, c
  <2>3. Append(meCalls[f], c) \in Seq(R) /\ Len(Append(meCalls[f], c)) <= MaxMeCalls
    BY <2>1, <2>2, MeConstants
  <2>4. meCalls' \in [MeFiling -> Seq(R)] /\ \A g \in MeFiling : Len(meCalls'[g]) <= MaxMeCalls
    BY <2>1, <2>2, <2>3
  <2>5. /\ meClock' \in 0..MaxMeClock /\ meClock' >= meClock /\ meNow' \in [MeWorker -> MeTime]
        /\ \A w \in MeWorker : meNow'[w] <= meClock'
    BY <2>2 DEF MeInv, MePast
  <2> QED
    BY <1>1, <2>2, <2>4, <2>5 DEF OnlyTime, R
<1>9. ASSUME NEW f \in MeFiling, NEW qualified \in BOOLEAN, MeDecide(f, qualified) PROVE MeInv'
  <2> DEFINE p == IF qualified THEN meClock ELSE NoTime
             q == [meRows[f] EXCEPT !.decided = meClock, !.qualified = qualified,
                                    !.deep = (meCalls[f] # <<>>), !.published = p]
  <2>1. meRows' = [meRows EXCEPT ![f] = q]
    BY <1>9 DEF MeDecide
  <2>2. meRows[f].decided = NoTime /\ meRows[f].discovered # NoTime /\ p \in {NoTime, meClock}
    BY <1>9 DEF MeDecide
  <2>3. /\ q.decided = meClock /\ q.published = p /\ q.discovered = meRows[f].discovered
        /\ q.known = meRows[f].known /\ q.alerted = meRows[f].alerted
        /\ q.lineage = meRows[f].lineage
    <3> HIDE DEF p
    <3> QED
      BY DEF q
  <2> HIDE DEF q, p
  <2>4. meRows[f].alerted = NoTime
    BY <1>5, <2>2 DEF MeRowOK
  <2>5. MeRowOK(q)
    BY <1>5, <1>t, <2>2, <2>3, <2>4, MeConstants DEF MeRowOK
  <2> QED
    BY <1>9, <2>1, <2>2, <2>3, <2>5, RowStepKeeps DEF MeDecide
<1>10. ASSUME NEW f \in MeFiling, NEW posted \in 0..meClock, MeDeliver(f, posted) PROVE MeInv'
  <2> DEFINE q == [meRows[f] EXCEPT !.alerted = posted]
  <2>1. meRows' = [meRows EXCEPT ![f] = q]
    BY <1>10 DEF MeDeliver
  <2>2. /\ q.decided = meRows[f].decided /\ q.published = meRows[f].published
        /\ q.discovered = meRows[f].discovered /\ q.known = meRows[f].known /\ q.alerted = posted
        /\ q.lineage = meRows[f].lineage
    BY <1>5 DEF MeRowOK
  <2> HIDE DEF q
  <2>3. posted \in MeTime /\ posted <= meClock /\ posted >= meRows[f].published
        /\ meRows[f].published # NoTime
    BY <1>10, <1>t, MeConstants DEF MeDeliver
  <2>4. MeRowOK(q)
    BY <1>5, <2>2, <2>3 DEF MeRowOK
  <2>5. meRows[f].alerted = NoTime
    BY <1>10 DEF MeDeliver
  <2> QED
    BY <1>10, <2>1, <2>2, <2>4, <2>5, RowStepKeeps DEF MeDeliver
<1>11. CASE UNCHANGED meVars
  <2>1. UNCHANGED <<meClock, meRows, meCalls, meNow, meSets, meLatencies, meRefused>>
    BY <1>11 DEF meVars
  <2>2. meClock' >= meClock /\ \A w \in MeWorker : meNow'[w] <= meClock'
    BY <2>1, <1>t DEF MeInv, MePast
  <2> QED
    BY <1>1, <2>1, <2>2 DEF OnlyTime, MeInv
<1> QED
  BY <1>2, <1>3, <1>4, <1>6, <1>7, <1>8, <1>9, <1>10, <1>11 DEF MeNext

LEMMA MeInductive == MeSpec => []MeInv
BY MeInvInit, MeInvStep, PTL DEF MeSpec

(* Type correctness of the measurement runtime.                             *)
THEOREM MeasurementsTypeCorrect == MeSpec => []MeTypeOK
<1>1. MeInv => MeTypeOK
  BY DEF MeInv, MeRowOK, MeTypeOK
<1> QED
  BY <1>1, MeInductive, PTL

(* Stored latencies are exact and only accumulate, and no window claims time *)
(* before the telemetry epoch or counts more than a longer one, whatever the *)
(* radar stores while a set is measured; nothing but a truncated duration is *)
(* ever refused, and after one to publication no set is stored any more      *)
(* (generate_engineering_measurements, validate_filing_latency_receipt).     *)
THEOREM MeasurementsHonest == MeSpec => []MeasurementsAreHonest
<1>1. MeInv => LatenciesAccumulate
  <2> SUFFICES ASSUME MeInv, NEW a \in meLatencies, NEW b \in meLatencies,
                      a.filing = b.filing, a.measured < b.measured
               PROVE  /\ b.discovered = a.discovered
                      /\ a.published # NoTime => b.published = a.published
                      /\ a.alerted # NoTime => b.alerted = a.alerted
    BY DEF LatenciesAccumulate
  <2>1. ASSUME NEW l \in meLatencies
        PROVE  LET r == meRows[l.filing]
               IN /\ l.filing \in MeFiling /\ r.decided # NoTime
                  /\ l.discovered = r.discovered /\ l.published = r.published
                  /\ l.alerted \in {NoTime, r.alerted}
                  /\ l.measured = Max({r.decided, r.published, l.alerted})
    <3>1. PICK f \in MeFiling : \E lineage \in 0..MaxMeLineages : \E known \in MeTime : \E alerted \in MeTime :
             ReceiptHolds(l, f, lineage, known, alerted)
      BY <2>1 DEF MeInv, MeLatency
    <3>2. PICK lineage \in 0..MaxMeLineages : \E known \in MeTime : \E alerted \in MeTime :
             ReceiptHolds(l, f, lineage, known, alerted)
      BY <3>1
    <3>3. PICK known \in MeTime : \E alerted \in MeTime : ReceiptHolds(l, f, lineage, known, alerted)
      BY <3>2
    <3>4. PICK alerted \in MeTime : ReceiptHolds(l, f, lineage, known, alerted)
      BY <3>3
    <3> DEFINE r == meRows[f]
    <3>5. l = MeReceipt(f, lineage, known, r.discovered, r.published, alerted, r.decided)
      BY <3>4 DEF ReceiptHolds
    <3>6. /\ l.filing = f /\ l.discovered = r.discovered /\ l.published = r.published /\ l.alerted = alerted
          /\ l.measured = Max({r.decided, r.published, alerted})
      BY <3>5 DEF MeReceipt
    <3>7. r.decided # NoTime /\ alerted \in {NoTime, r.alerted}
      BY <3>4 DEF ReceiptHolds
    <3> QED
      BY <3>6, <3>7
  <2> DEFINE r == meRows[a.filing]
  <2>2. /\ a.filing \in MeFiling /\ r.decided # NoTime
        /\ a.discovered = r.discovered /\ a.published = r.published
        /\ a.alerted \in {NoTime, r.alerted}
        /\ a.measured = Max({r.decided, r.published, a.alerted})
    BY <2>1
  <2>3. /\ b.discovered = r.discovered /\ b.published = r.published
        /\ b.alerted \in {NoTime, r.alerted}
        /\ b.measured = Max({r.decided, r.published, b.alerted})
    BY <2>1
  <2>4. MeRowOK(r)
    BY <2>2 DEF MeInv
  <2> HIDE DEF r
  <2>5. /\ r.decided \in Int /\ r.published \in Int /\ r.alerted \in Int /\ NoTime \in Int
        /\ a.alerted \in Int /\ b.alerted \in Int /\ r.decided >= NoTime
    BY <2>2, <2>3, <2>4, MeConstants DEF MeRowOK
  <2>6. a.alerted # NoTime => a.measured >= r.decided /\ a.measured >= r.published /\ a.measured >= r.alerted
    <3> DEFINE m == Max({r.decided, r.published, a.alerted})
    <3>1. m >= r.decided /\ m >= r.published /\ m >= a.alerted
      BY <2>5, MaxOfThree, Zenon
    <3> HIDE DEF m
    <3>2. a.measured = m
      BY <2>2 DEF m
    <3> QED
      BY <3>1, <3>2, <2>2
  <2>7. b.measured \in {r.decided, r.published, b.alerted}
    BY <2>3, <2>5, MaxOfThree, Zenon
  <2>8. a.alerted # NoTime => r.alerted # NoTime /\ r.decided <= r.alerted /\ r.published <= r.alerted
    BY <2>2, <2>4 DEF MeRowOK
  <2>9. a.measured \in Int
    <3>1. Max({r.decided, r.published, a.alerted}) \in {r.decided, r.published, a.alerted}
      BY <2>5, MaxOfThree, Zenon
    <3> QED
      BY <3>1, <2>2, <2>5
  <2>10. a.alerted = NoTime
    <3> SUFFICES ASSUME a.alerted # NoTime PROVE FALSE
      OBVIOUS
    <3> QED
      BY <2>3, <2>5, <2>6, <2>7, <2>8, <2>9
  <2> QED
    BY <2>2, <2>3, <2>10
<1>2. MeInv => MeasurementsAreHonest
  BY <1>1 DEF MeInv, MeasurementsAreHonest
<1> QED
  BY <1>2, MeInductive, PTL

-----------------------------------------------------------------------------
(* Outcome science: for any plans, due times, versions and sample sizes.     *)

LEMMA ScienceConstants ==
  /\ SciLock \in Nat /\ MinimumSample \in Nat /\ MinimumSample >= 1 /\ PowerSample \in Nat
  /\ MaxSciClock \in Nat /\ IsFiniteSet(SciPlan) /\ SciDue \in [SciPlan -> Nat]
BY ScienceAssumption

SciRow == [at : Int, result : SciResult \cup {"none"}, stored : BOOLEAN]

(* Rows carry the time of the cycle that stamped them; an outcome belongs to *)
(* a committed plan and is no older than the plan's target close.            *)
SciRows ==
  /\ sciClock \in 0..MaxSciClock
  /\ sciPlans \in [SciPlan -> SciRow] /\ sciOutcomes \in [SciPlan -> SciRow]
  /\ \A p \in SciPlan :
       /\ sciPlans[p].at >= -1 /\ sciPlans[p].at <= sciClock
       /\ sciOutcomes[p].at >= -1 /\ sciOutcomes[p].at <= sciClock
       /\ sciPlans[p].stored => sciPlans[p].at >= 0
       /\ sciOutcomes[p].stored => sciOutcomes[p].at >= 0
       /\ sciOutcomes[p].at >= 0 => /\ sciPlans[p].stored /\ sciOutcomes[p].at >= SciDue[p]
                                    /\ sciOutcomes[p].result \in SciResult

(* A case of a snapshot is still what the committed rows say.               *)
CaseHolds(c, cutoff) ==
  /\ c.plan \in SciPlan /\ c = SciCase(c.plan)
  /\ c.plan \in EnrolledBy(cutoff) /\ DecidedBy(c.plan, cutoff)

SnapshotHolds(s) ==
  /\ s.population.cutoff \in 0..sciClock
  /\ \A c \in s.population.cases : CaseHolds(c, s.population.cutoff)
  /\ s.population.enrolled \in Nat
  /\ s.population.enrolled <= Cardinality(EnrolledBy(s.population.cutoff))
  /\ \A c \in s.population.cases : c.origin = "forward" => sciPlans[c.plan].at >= SciLock
  /\ s.report = ScienceReport(s.population)

SciInv == SciRows /\ \A s \in sciSnapshots : SnapshotHolds(s)

LEMMA SciInvInit == SciInit => SciInv
<1> SUFFICES ASSUME SciInit PROVE SciInv
  OBVIOUS
<1>1. NoSciRow \in SciRow /\ NoSciRow.at = -1 /\ NoSciRow.stored = FALSE
  BY DEF NoSciRow, SciRow
<1>2. /\ sciClock \in 0..MaxSciClock
      /\ sciPlans \in [SciPlan -> SciRow] /\ sciOutcomes \in [SciPlan -> SciRow]
  BY <1>1, ScienceConstants DEF SciInit
<1>3. \A p \in SciPlan : sciPlans[p] = NoSciRow /\ sciOutcomes[p] = NoSciRow
  BY DEF SciInit
<1>4. sciClock = 0 /\ sciSnapshots = {}
  BY DEF SciInit
<1>5. SciRows
  BY <1>1, <1>2, <1>3, <1>4 DEF SciRows
<1> QED
  BY <1>4, <1>5 DEF SciInv

(* The plans enrolled by a cutoff are finitely many.                        *)
LEMMA EnrolledIsFinite ==
  ASSUME NEW cutoff
  PROVE  /\ IsFiniteSet(EnrolledBy(cutoff)) /\ Cardinality(EnrolledBy(cutoff)) \in Nat
         /\ \A T \in SUBSET EnrolledBy(cutoff) :
              /\ IsFiniteSet(T) /\ Cardinality(T) \in Nat
              /\ Cardinality(T) <= Cardinality(EnrolledBy(cutoff))
<1>1. EnrolledBy(cutoff) \in SUBSET SciPlan
  BY DEF EnrolledBy
<1>2. IsFiniteSet(EnrolledBy(cutoff))
  BY <1>1, ScienceConstants, FS_Subset
<1> QED
  BY <1>2, FS_Subset, FS_CardinalityType

(* What is committed stays as it is.                                        *)
RowsKept ==
  /\ sciClock' >= sciClock
  /\ \A p \in SciPlan : /\ sciPlans[p].stored => sciPlans'[p] = sciPlans[p]
                        /\ sciOutcomes[p].stored => sciOutcomes'[p] = sciOutcomes[p]

LEMMA SnapshotsKept ==
  ASSUME SciRows, SciRows', RowsKept, NEW s, SnapshotHolds(s)
  PROVE  SnapshotHolds(s)'
<1> DEFINE cutoff == s.population.cutoff
<1>1. \A p \in SciPlan : p \in EnrolledBy(cutoff) => sciPlans'[p] = sciPlans[p] /\ p \in EnrolledBy(cutoff)'
  BY DEF EnrolledBy, RowsKept
<1>2. ASSUME NEW c, CaseHolds(c, cutoff)
      PROVE  CaseHolds(c, cutoff)' /\ sciPlans'[c.plan] = sciPlans[c.plan]
  <2>1. /\ c.plan \in SciPlan /\ c = SciCase(c.plan) /\ c.plan \in EnrolledBy(cutoff)
        /\ sciOutcomes[c.plan].stored /\ sciOutcomes[c.plan].at <= cutoff
    BY <1>2 DEF CaseHolds, DecidedBy
  <2>2. sciPlans'[c.plan] = sciPlans[c.plan] /\ sciOutcomes'[c.plan] = sciOutcomes[c.plan]
    BY <1>1, <2>1 DEF RowsKept
  <2>3. c = SciCase(c.plan)'
    BY <2>1, <2>2 DEF SciCase, Origin
  <2>4. DecidedBy(c.plan, cutoff)' /\ c.plan \in EnrolledBy(cutoff)'
    BY <1>1, <2>1, <2>2 DEF DecidedBy
  <2> QED
    BY <2>1, <2>2, <2>3, <2>4 DEF CaseHolds
<1>3. Cardinality(EnrolledBy(cutoff)) <= Cardinality(EnrolledBy(cutoff)')
  <2> DEFINE E == EnrolledBy(cutoff)'
  <2>1. E \in SUBSET SciPlan
    BY DEF EnrolledBy
  <2>2. EnrolledBy(cutoff) \in SUBSET E
    BY <1>1 DEF EnrolledBy
  <2>3. IsFiniteSet(E)
    BY <2>1, ScienceConstants, FS_Subset
  <2> HIDE DEF E
  <2>4. Cardinality(EnrolledBy(cutoff)) <= Cardinality(E)
    BY <2>2, <2>3, FS_Subset
  <2> QED
    BY <2>4 DEF E
<1>4. Cardinality(EnrolledBy(cutoff)) \in Nat /\ Cardinality(EnrolledBy(cutoff)') \in Nat
  <2>1. EnrolledBy(cutoff)' \in SUBSET SciPlan
    BY DEF EnrolledBy
  <2> QED
    BY <2>1, EnrolledIsFinite, ScienceConstants, FS_Subset, FS_CardinalityType
<1>5. s.population.enrolled \in Nat /\ s.population.enrolled <= Cardinality(EnrolledBy(cutoff)')
  BY <1>3, <1>4 DEF SnapshotHolds
<1>6. cutoff \in 0..sciClock'
  BY DEF SnapshotHolds, SciRows, RowsKept
<1>7. \A c \in s.population.cases : CaseHolds(c, cutoff)' /\ sciPlans'[c.plan] = sciPlans[c.plan]
  BY <1>2 DEF SnapshotHolds
<1>8. \A c \in s.population.cases : c.origin = "forward" => sciPlans'[c.plan].at >= SciLock
  BY <1>7 DEF SnapshotHolds
<1>9. s.report = ScienceReport(s.population)
  BY DEF SnapshotHolds
<1> QED
  BY <1>5, <1>6, <1>7, <1>8, <1>9 DEF SnapshotHolds, ScienceReport, Strata

(* A new snapshot repeats the rows it was read from.                        *)
LEMMA NewSnapshotHolds ==
  ASSUME SciRows, NEW cutoff \in 0..sciClock, ~ReportIsRefused(Population(cutoff))
  PROVE  SnapshotHolds([population |-> Population(cutoff), report |-> ScienceReport(Population(cutoff))])
<1> DEFINE pop == Population(cutoff)
           s == [population |-> pop, report |-> ScienceReport(pop)]
<1>1. /\ pop.cutoff = cutoff /\ pop.enrolled = Cardinality(EnrolledBy(cutoff))
      /\ pop.cases = {SciCase(p) : p \in {q \in EnrolledBy(cutoff) : DecidedBy(q, cutoff)}}
  BY DEF Population
<1>2. s.population = pop /\ s.report = ScienceReport(pop)
  OBVIOUS
<1> HIDE DEF pop, s
<1>3. ASSUME NEW c \in pop.cases
      PROVE  CaseHolds(c, cutoff) /\ (c.origin = "forward" => sciPlans[c.plan].at >= SciLock)
  <2>1. PICK p \in EnrolledBy(cutoff) : DecidedBy(p, cutoff) /\ c = SciCase(p)
    BY <1>1, <1>3
  <2>2. c.plan = p /\ p \in SciPlan
    BY <2>1 DEF SciCase, EnrolledBy
  <2>3. CaseHolds(c, cutoff)
    BY <2>1, <2>2 DEF CaseHolds
  <2>4. c.origin = "forward" => ~(sciPlans[p].at < SciLock)
    BY <1>3, <2>2 DEF ReportIsRefused, pop
  <2>5. sciPlans[p].at \in Int /\ SciLock \in Int
    BY <2>2, ScienceConstants DEF SciRows, SciRow
  <2> QED
    BY <2>2, <2>3, <2>4, <2>5
<1>4. Cardinality(EnrolledBy(cutoff)) \in Nat
  BY EnrolledIsFinite
<1>5. SnapshotHolds(s)
  BY <1>1, <1>2, <1>3, <1>4 DEF SnapshotHolds
<1> QED
  BY <1>5 DEF s, pop

LEMMA SciInvStep == SciInv /\ [SciNext]_sciVars => SciInv'
<1> SUFFICES ASSUME SciInv, [SciNext]_sciVars PROVE SciInv'
  OBVIOUS
<1>1. SciRows /\ \A s \in sciSnapshots : SnapshotHolds(s)
  BY DEF SciInv
<1>c. sciClock \in 0..MaxSciClock /\ sciClock \in Int /\ sciClock >= 0
  BY <1>1, ScienceConstants DEF SciRows
<1>2. ASSUME SciRows', RowsKept, sciSnapshots' = sciSnapshots PROVE SciInv'
  BY <1>1, <1>2, SnapshotsKept DEF SciInv
<1>p. ASSUME NEW p \in SciPlan
      PROVE  /\ sciPlans[p] \in SciRow /\ sciOutcomes[p] \in SciRow
             /\ sciPlans[p].at \in Int /\ sciOutcomes[p].at \in Int /\ SciDue[p] \in Nat
  BY <1>1, ScienceConstants DEF SciRows, SciRow
<1>3. CASE SciTick
  <2>1. /\ sciClock' \in 0..MaxSciClock /\ sciClock' >= sciClock
        /\ UNCHANGED <<sciPlans, sciOutcomes, sciSnapshots>>
    BY <1>3, <1>c, ScienceConstants DEF SciTick
  <2>2. SciRows'
    <3>1. \A p \in SciPlan : sciPlans[p].at <= sciClock' /\ sciOutcomes[p].at <= sciClock'
      BY <1>1, <1>c, <1>p, <2>1 DEF SciRows
    <3> QED
      BY <1>1, <2>1, <3>1 DEF SciRows
  <2> QED
    BY <1>2, <2>1, <2>2 DEF RowsKept
<1>4. ASSUME NEW p \in SciPlan, StampPlan(p) PROVE SciInv'
  <2> DEFINE q == [sciPlans[p] EXCEPT !.at = sciClock]
  <2>1. /\ sciPlans' = [sciPlans EXCEPT ![p] = q] /\ sciPlans[p] = NoSciRow
        /\ UNCHANGED <<sciClock, sciOutcomes, sciSnapshots>>
    BY <1>4 DEF StampPlan
  <2>2. q \in SciRow /\ q.at = sciClock /\ q.stored = sciPlans[p].stored
    BY <1>p, <1>c DEF SciRow
  <2>4. sciPlans[p].stored = FALSE
    BY <2>1 DEF NoSciRow
  <2>3. q \in SciRow /\ q.at = sciClock /\ q.stored = FALSE
    BY <2>2, <2>4
  <2> HIDE DEF q
  <2>5. /\ sciPlans' \in [SciPlan -> SciRow] /\ sciPlans'[p] = q
        /\ \A g \in SciPlan \ {p} : sciPlans'[g] = sciPlans[g]
    BY <1>1, <2>1, <2>3 DEF SciRows
  <2>6. sciOutcomes[p].at < 0
    BY <1>1, <1>p, <2>4 DEF SciRows
  <2>7. SciRows'
    <3> SUFFICES ASSUME NEW g \in SciPlan
                 PROVE  /\ sciPlans'[g].at >= -1 /\ sciPlans'[g].at <= sciClock
                        /\ sciPlans'[g].stored => sciPlans'[g].at >= 0
                        /\ sciOutcomes[g].at >= 0 => sciPlans'[g].stored
      BY <1>1, <2>1, <2>5 DEF SciRows
    <3>1. CASE g = p
      BY <3>1, <1>c, <1>p, <2>3, <2>5, <2>6
    <3>2. CASE g # p
      BY <3>2, <1>1, <2>5 DEF SciRows
    <3> QED
      BY <3>1, <3>2
  <2>8. RowsKept
    BY <1>c, <2>1, <2>4, <2>5 DEF RowsKept
  <2> QED
    BY <1>2, <2>1, <2>7, <2>8
<1>5. ASSUME NEW p \in SciPlan, StorePlan(p) PROVE SciInv'
  <2> DEFINE q == [sciPlans[p] EXCEPT !.stored = TRUE]
  <2>1. /\ sciPlans' = [sciPlans EXCEPT ![p] = q] /\ sciPlans[p].at >= 0 /\ ~sciPlans[p].stored
        /\ UNCHANGED <<sciClock, sciOutcomes, sciSnapshots>>
    BY <1>5 DEF StorePlan
  <2>2. q \in SciRow /\ q.at = sciPlans[p].at /\ q.stored = TRUE
    BY <1>p DEF SciRow
  <2> HIDE DEF q
  <2>5. /\ sciPlans' \in [SciPlan -> SciRow] /\ sciPlans'[p] = q
        /\ \A g \in SciPlan \ {p} : sciPlans'[g] = sciPlans[g]
    BY <1>1, <2>1, <2>2 DEF SciRows
  <2>7. SciRows'
    <3> SUFFICES ASSUME NEW g \in SciPlan
                 PROVE  /\ sciPlans'[g].at >= -1 /\ sciPlans'[g].at <= sciClock
                        /\ sciPlans'[g].stored => sciPlans'[g].at >= 0
                        /\ sciOutcomes[g].at >= 0 => sciPlans'[g].stored
      BY <1>1, <2>1, <2>5 DEF SciRows
    <3>1. CASE g = p
      BY <3>1, <1>1, <2>1, <2>2, <2>5 DEF SciRows
    <3>2. CASE g # p
      BY <3>2, <1>1, <2>5 DEF SciRows
    <3> QED
      BY <3>1, <3>2
  <2>8. RowsKept
    BY <1>c, <2>1, <2>5 DEF RowsKept
  <2> QED
    BY <1>2, <2>1, <2>7, <2>8
<1>6. ASSUME NEW p \in SciPlan, NEW result \in SciResult, StampOutcome(p, result) PROVE SciInv'
  <2> DEFINE q == [at |-> sciClock, result |-> result, stored |-> FALSE]
  <2>1. /\ sciOutcomes' = [sciOutcomes EXCEPT ![p] = q] /\ sciPlans[p].stored /\ sciOutcomes[p] = NoSciRow
        /\ sciClock >= SciDue[p] /\ UNCHANGED <<sciClock, sciPlans, sciSnapshots>>
    BY <1>6 DEF StampOutcome
  <2>2. q \in SciRow /\ q.at = sciClock /\ q.stored = FALSE /\ q.result \in SciResult
    BY <1>c DEF SciRow
  <2>3. sciOutcomes[p].stored = FALSE
    BY <2>1 DEF NoSciRow
  <2> HIDE DEF q
  <2>5. /\ sciOutcomes' \in [SciPlan -> SciRow] /\ sciOutcomes'[p] = q
        /\ \A g \in SciPlan \ {p} : sciOutcomes'[g] = sciOutcomes[g]
    BY <1>1, <2>1, <2>2 DEF SciRows
  <2>7. SciRows'
    <3> SUFFICES ASSUME NEW g \in SciPlan
                 PROVE  /\ sciOutcomes'[g].at >= -1 /\ sciOutcomes'[g].at <= sciClock
                        /\ sciOutcomes'[g].stored => sciOutcomes'[g].at >= 0
                        /\ sciOutcomes'[g].at >= 0 => /\ sciPlans[g].stored /\ sciOutcomes'[g].at >= SciDue[g]
                                                      /\ sciOutcomes'[g].result \in SciResult
      BY <1>1, <2>1, <2>5 DEF SciRows
    <3>1. CASE g = p
      BY <3>1, <1>c, <2>1, <2>2, <2>5
    <3>2. CASE g # p
      BY <3>2, <1>1, <2>5 DEF SciRows
    <3> QED
      BY <3>1, <3>2
  <2>8. RowsKept
    BY <1>c, <2>1, <2>3, <2>5 DEF RowsKept
  <2> QED
    BY <1>2, <2>1, <2>7, <2>8
<1>7. ASSUME NEW p \in SciPlan, StoreOutcome(p) PROVE SciInv'
  <2> DEFINE q == [sciOutcomes[p] EXCEPT !.stored = TRUE]
  <2>1. /\ sciOutcomes' = [sciOutcomes EXCEPT ![p] = q] /\ sciOutcomes[p].at >= 0 /\ ~sciOutcomes[p].stored
        /\ UNCHANGED <<sciClock, sciPlans, sciSnapshots>>
    BY <1>7 DEF StoreOutcome
  <2>2. q \in SciRow /\ q.at = sciOutcomes[p].at /\ q.stored = TRUE /\ q.result = sciOutcomes[p].result
    BY <1>p DEF SciRow
  <2> HIDE DEF q
  <2>5. /\ sciOutcomes' \in [SciPlan -> SciRow] /\ sciOutcomes'[p] = q
        /\ \A g \in SciPlan \ {p} : sciOutcomes'[g] = sciOutcomes[g]
    BY <1>1, <2>1, <2>2 DEF SciRows
  <2>7. SciRows'
    <3> SUFFICES ASSUME NEW g \in SciPlan
                 PROVE  /\ sciOutcomes'[g].at >= -1 /\ sciOutcomes'[g].at <= sciClock
                        /\ sciOutcomes'[g].stored => sciOutcomes'[g].at >= 0
                        /\ sciOutcomes'[g].at >= 0 => /\ sciPlans[g].stored /\ sciOutcomes'[g].at >= SciDue[g]
                                                      /\ sciOutcomes'[g].result \in SciResult
      BY <1>1, <2>1, <2>5 DEF SciRows
    <3>1. CASE g = p
      BY <3>1, <1>1, <2>1, <2>2, <2>5 DEF SciRows
    <3>2. CASE g # p
      BY <3>2, <1>1, <2>5 DEF SciRows
    <3> QED
      BY <3>1, <3>2
  <2>8. RowsKept
    BY <1>c, <2>1, <2>5 DEF RowsKept
  <2> QED
    BY <1>2, <2>1, <2>7, <2>8
<1>8. ASSUME NEW cutoff \in 0..sciClock, Snapshot(cutoff) PROVE SciInv'
  <2> DEFINE s == [population |-> Population(cutoff), report |-> ScienceReport(Population(cutoff))]
  <2>1. /\ ~ReportIsRefused(Population(cutoff)) /\ sciSnapshots' = sciSnapshots \cup {s}
        /\ UNCHANGED <<sciClock, sciPlans, sciOutcomes>>
    BY <1>8 DEF Snapshot
  <2>2. SnapshotHolds(s)
    BY <1>1, <1>8, <2>1, NewSnapshotHolds
  <2>3. SciRows' /\ RowsKept
    BY <1>1, <1>c, <2>1 DEF SciRows, RowsKept
  <2> HIDE DEF s
  <2>4. \A x \in sciSnapshots' : SnapshotHolds(x)
    BY <1>1, <2>1, <2>2
  <2>5. \A x \in sciSnapshots' : SnapshotHolds(x)'
    BY <1>1, <2>3, <2>4, SnapshotsKept
  <2> QED
    BY <2>3, <2>5 DEF SciInv
<1>9. CASE UNCHANGED sciVars
  <2>1. UNCHANGED <<sciClock, sciPlans, sciOutcomes, sciSnapshots>>
    BY <1>9 DEF sciVars
  <2>2. SciRows' /\ RowsKept
    BY <1>1, <1>c, <2>1 DEF SciRows, RowsKept
  <2> QED
    BY <1>2, <2>1, <2>2
<1> QED
  BY <1>3, <1>4, <1>5, <1>6, <1>7, <1>8, <1>9 DEF SciNext

LEMMA SciInductive == SciSpec => []SciInv
BY SciInvInit, SciInvStep, PTL DEF SciSpec


-----------------------------------------------------------------------------
(* What a snapshot says *)

(* The cases of a snapshot: finitely many, one for each of their plans.     *)
LEMMA CasesOfSnapshot ==
  ASSUME SciRows, NEW s, SnapshotHolds(s)
  PROVE  /\ IsFiniteSet(s.population.cases)
         /\ \A c \in s.population.cases :
              /\ c.plan \in SciPlan /\ c.version = SciVersion[c.plan]
              /\ c.result \in SciResult
              /\ c.origin = "forward" <=> sciPlans[c.plan].at < SciDue[c.plan]
              /\ c.origin = "forward" => sciPlans[c.plan].at \in SciLock..(SciDue[c.plan] - 1)
              /\ c.appended \in SciDue[c.plan]..s.population.cutoff
<1> DEFINE C == s.population.cases
           cutoff == s.population.cutoff
           g == [c \in C |-> c.plan]
<1>1. \A c \in C : CaseHolds(c, cutoff)
  BY DEF SnapshotHolds
<1>2. g \in Injection(C, SciPlan)
  <2>1. g \in [C -> SciPlan]
    BY <1>1 DEF CaseHolds
  <2>2. \A a, b \in C : g[a] = g[b] => a = b
    BY <1>1 DEF CaseHolds
  <2> HIDE DEF g, C
  <2> QED
    BY <2>1, <2>2 DEF Injection, IsInjective
<1> HIDE DEF g
<1>3. IsFiniteSet(C)
  BY <1>2, ScienceConstants, FS_Injection
<1>4. ASSUME NEW c \in C
      PROVE  /\ c.plan \in SciPlan /\ c.version = SciVersion[c.plan]
             /\ c.result \in SciResult
             /\ c.origin = "forward" <=> sciPlans[c.plan].at < SciDue[c.plan]
             /\ c.origin = "forward" => sciPlans[c.plan].at \in SciLock..(SciDue[c.plan] - 1)
             /\ c.appended \in SciDue[c.plan]..cutoff
  <2> DEFINE p == c.plan
  <2>1. p \in SciPlan /\ c = SciCase(p) /\ p \in EnrolledBy(cutoff) /\ DecidedBy(p, cutoff)
    BY <1>1, <1>4 DEF CaseHolds
  <2>2. /\ c.version = SciVersion[p] /\ c.result = sciOutcomes[p].result /\ c.appended = sciOutcomes[p].at
        /\ c.origin = IF sciPlans[p].at < SciDue[p] THEN "forward" ELSE "reconstructed"
    BY <2>1 DEF SciCase, Origin
  <2>3. c.origin = "forward" => sciPlans[p].at >= SciLock
    BY <1>4 DEF SnapshotHolds
  <2> HIDE DEF p
  <2>4. sciOutcomes[p].stored /\ sciOutcomes[p].at <= cutoff
    BY <2>1 DEF DecidedBy
  <2>5. sciOutcomes[p].at >= SciDue[p] /\ sciOutcomes[p].result \in SciResult
    BY <2>1, <2>4 DEF SciRows
  <2>6. sciPlans[p].at \in Int /\ sciOutcomes[p].at \in Int /\ SciDue[p] \in Nat /\ SciLock \in Nat /\ cutoff \in Int
    BY <2>1, ScienceConstants DEF SciRows, SciRow, SnapshotHolds
  <2>7. /\ c.origin = "forward" <=> sciPlans[p].at < SciDue[p]
        /\ c.origin = "forward" => sciPlans[p].at \in SciLock..(SciDue[p] - 1)
    BY <2>2, <2>3, <2>6
  <2>8. c.appended \in SciDue[p]..cutoff
    BY <2>2, <2>4, <2>5, <2>6
  <2> QED
    BY <2>1, <2>2, <2>5, <2>7, <2>8 DEF p
<1> QED
  BY <1>3, <1>4

(* The sizes of two disjoint parts add up.                                  *)
LEMMA SizeOfTwoParts ==
  ASSUME NEW S, NEW A, IsFiniteSet(A), NEW B, IsFiniteSet(B), S = A \cup B, A \cap B = {}
  PROVE  Cardinality(S) = Cardinality(A) + Cardinality(B)
<1>1. Cardinality(S) = Cardinality(A \cup B)
  OBVIOUS
<1>2. Cardinality(A \cap B) = 0
  <2>1. Cardinality({}) = 0
    BY FS_EmptySet
  <2> QED
    BY <2>1
<1>3. Cardinality(A \cup B) = Cardinality(A) + Cardinality(B) - Cardinality(A \cap B)
  BY FS_Union
<1>4. Cardinality(A) \in Nat /\ Cardinality(B) \in Nat
  BY FS_CardinalityType
<1> QED
  BY <1>1, <1>2, <1>3, <1>4

(* Another read at the cutoff of a snapshot.                                *)
LEMMA ReadAgain ==
  ASSUME SciRows, NEW s, SnapshotHolds(s)
  PROVE  LET again == Population(s.population.cutoff)
         IN /\ s.population.cases \subseteq again.cases
            /\ s.population.enrolled <= again.enrolled
            /\ again.enrolled = Cardinality(again.cases) + again.notDue + again.overdue
<1> DEFINE cutoff == s.population.cutoff
           again == Population(cutoff)
           enrolled == EnrolledBy(cutoff)
           decided == {q \in enrolled : DecidedBy(q, cutoff)}
           open == {p \in enrolled : ~DecidedBy(p, cutoff)}
           later == {p \in open : SciDue[p] > cutoff}
           past == {p \in open : SciDue[p] <= cutoff}
<1>1. /\ again.enrolled = Cardinality(enrolled) /\ again.cases = {SciCase(p) : p \in decided}
      /\ again.notDue = Cardinality(later) /\ again.overdue = Cardinality(past)
  BY DEF Population
<1>2. s.population.cases \subseteq again.cases
  <2> SUFFICES ASSUME NEW c \in s.population.cases PROVE c \in again.cases
    OBVIOUS
  <2>1. CaseHolds(c, cutoff)
    BY DEF SnapshotHolds
  <2>2. c.plan \in decided /\ c = SciCase(c.plan)
    BY <2>1 DEF CaseHolds
  <2> QED
    BY <1>1, <2>2
<1>3. s.population.enrolled <= again.enrolled
  BY <1>1 DEF SnapshotHolds
<1>4. IsFiniteSet(decided) /\ IsFiniteSet(later) /\ IsFiniteSet(past) /\ IsFiniteSet(open)
      /\ decided \in SUBSET SciPlan
  BY EnrolledIsFinite DEF EnrolledBy
<1>5. Cardinality(again.cases) = Cardinality(decided)
  <2> DEFINE g == [p \in decided |-> SciCase(p)]
             R == again.cases
  <2>1. g \in [decided -> R] /\ \A p \in decided : g[p] = SciCase(p)
    BY <1>1
  <2>2. \A a, b \in decided : SciCase(a) = SciCase(b) => a = b
    <3> SUFFICES ASSUME NEW a \in decided, NEW b \in decided, SciCase(a) = SciCase(b) PROVE a = b
      OBVIOUS
    <3>1. SciCase(a).plan = a /\ SciCase(b).plan = b
      BY DEF SciCase
    <3> QED
      BY <3>1
  <2>3. \A c \in R : \E p \in decided : g[p] = c
    BY <1>1
  <2> HIDE DEF g, R, decided
  <2>4. g \in Injection(decided, R)
    BY <2>1, <2>2 DEF Injection, IsInjective
  <2>5. g \in Surjection(decided, R)
    BY <2>1, <2>3 DEF Surjection
  <2>6. Cardinality(R) = Cardinality(decided)
    BY <1>4, <2>4, <2>5, FS_Surjection
  <2> QED
    BY <2>6 DEF R
<1>6. Cardinality(open) = Cardinality(later) + Cardinality(past)
  <2>1. \A p \in SciPlan : SciDue[p] \in Int
    BY ScienceConstants
  <2>2. cutoff \in Int
    BY DEF SnapshotHolds, SciRows
  <2>3. open = later \cup past /\ later \cap past = {}
    BY <2>1, <2>2 DEF EnrolledBy
  <2> HIDE DEF open, later, past
  <2> QED
    BY <1>4, <2>3, SizeOfTwoParts
<1>7. Cardinality(enrolled) = Cardinality(decided) + Cardinality(open)
  <2>1. enrolled = decided \cup open /\ decided \cap open = {}
    OBVIOUS
  <2> HIDE DEF open, decided, enrolled
  <2> QED
    BY <1>4, <2>1, SizeOfTwoParts
<1>8. Cardinality(decided) \in Nat /\ Cardinality(later) \in Nat /\ Cardinality(past) \in Nat
  BY <1>4, FS_CardinalityType
<1> HIDE DEF again, enrolled, decided, open, later, past
<1>9. again.enrolled = Cardinality(again.cases) + again.notDue + again.overdue
  BY <1>1, <1>5, <1>6, <1>7, <1>8
<1> QED
  BY <1>2, <1>3, <1>9 DEF again

(* The stratum of a set of cases.                                           *)
LEMMA StratumIs ==
  ASSUME NEW D, IsFiniteSet(D)
  PROVE  LET t == Stratum(D)
             forward == \A c \in D : c.origin = "forward"
         IN /\ t.cases = D /\ (t.forward <=> forward)
            /\ t.completed = Cardinality(Completed(D)) /\ t.favorable = Cardinality(Favorable(D))
            /\ t.adverse = t.completed - t.favorable
            /\ t.unavailable = Cardinality(D) - t.completed
            /\ t.rate # <<>> => forward
            /\ t.disposition = "inconclusive" <=> ~(forward /\ t.completed < MinimumSample)
<1> DEFINE t == Stratum(D)
<1>1. CASE \A c \in D : c.origin = "forward"
  <2>1. t.cases = D /\ t.forward = TRUE
    BY <1>1 DEF Stratum
  <2>2. /\ t.completed = Cardinality(Completed(D)) /\ t.favorable = Cardinality(Favorable(D))
        /\ t.adverse = t.completed - t.favorable
        /\ t.unavailable = Cardinality(D) - t.completed
    BY DEF Stratum
  <2>3. t.disposition = IF t.completed < MinimumSample THEN "insufficient sample" ELSE "inconclusive"
    BY <1>1 DEF Stratum
  <2> HIDE DEF t
  <2> QED
    BY <1>1, <2>1, <2>2, <2>3 DEF t
<1>2. CASE ~ \A c \in D : c.origin = "forward"
  <2>1. t.cases = D /\ t.forward = FALSE
    BY <1>2 DEF Stratum
  <2>2. /\ t.completed = Cardinality(Completed(D)) /\ t.favorable = Cardinality(Favorable(D))
        /\ t.adverse = t.completed - t.favorable
        /\ t.unavailable = Cardinality(D) - t.completed
    BY DEF Stratum
  <2>3. t.disposition = "inconclusive" /\ t.rate = <<>>
    BY <1>2 DEF Stratum
  <2> HIDE DEF t
  <2> QED
    BY <1>2, <2>1, <2>2, <2>3 DEF t
<1> QED
  BY <1>1, <1>2


(* The cases of one stratum: those that share origin and version.           *)
Cohort(C, c) == {d \in C : d.origin = c.origin /\ d.version = c.version}

LEMMA StrataAre ==
  ASSUME NEW C, NEW t
  PROVE  t \in Strata(C) <=> \E c \in C : t = Stratum(Cohort(C, c))
<1>1. \A c \in C : {d \in C : StratumKey(d) = StratumKey(c)} = Cohort(C, c)
  BY DEF StratumKey, Cohort
<1>2. t \in Strata(C) <=> \E c \in C : t = Stratum({d \in C : StratumKey(d) = StratumKey(c)})
  BY DEF Strata
<1> QED
  BY <1>1, <1>2

(* Strata are finitely many, and no case is in two of them.                 *)
LEMMA StrataAreParts ==
  ASSUME NEW C, IsFiniteSet(C)
  PROVE  /\ IsFiniteSet(Strata(C))
         /\ \A t \in Strata(C) : /\ t.cases \in SUBSET C /\ t.cases # {} /\ t = Stratum(t.cases)
                                 /\ \A c, d \in t.cases : c.origin = d.origin /\ c.version = d.version
                                 /\ \A c \in t.cases : t.cases = Cohort(C, c)
         /\ \A t, u \in Strata(C) : t # u => t.cases \cap u.cases = {}
         /\ \A c \in C : \E t \in Strata(C) : c \in t.cases
<1>1. \A D \in SUBSET C : Stratum(D).cases = D
  BY DEF Stratum
<1>2. \A c \in C : c \in Cohort(C, c) /\ Cohort(C, c) \in SUBSET C
  BY DEF Cohort
<1>3. IsFiniteSet(Strata(C))
  <2> DEFINE g == [c \in C |-> Stratum(Cohort(C, c))]
             R == Strata(C)
  <2>1. g \in [C -> R] /\ \A t \in R : \E c \in C : g[c] = t
    BY StrataAre
  <2> HIDE DEF g, R
  <2>2. g \in Surjection(C, R)
    BY <2>1 DEF Surjection
  <2>3. IsFiniteSet(R)
    BY <2>2, FS_Surjection
  <2> QED
    BY <2>3 DEF R
<1>4. ASSUME NEW t \in Strata(C)
      PROVE  /\ t.cases \in SUBSET C /\ t.cases # {} /\ t = Stratum(t.cases)
             /\ \A c, d \in t.cases : c.origin = d.origin /\ c.version = d.version
             /\ \A c \in t.cases : t.cases = Cohort(C, c)
  <2>1. PICK c \in C : t = Stratum(Cohort(C, c))
    BY <1>4, StrataAre
  <2>2. t.cases = Cohort(C, c)
    BY <1>1, <1>2, <2>1
  <2>3. t.cases \in SUBSET C /\ t.cases # {} /\ t = Stratum(t.cases)
    BY <1>2, <2>1, <2>2
  <2>4. \A d \in t.cases : d.origin = c.origin /\ d.version = c.version
    BY <2>2 DEF Cohort
  <2>5. \A d \in t.cases : t.cases = Cohort(C, d)
    BY <2>2, <2>4 DEF Cohort
  <2> QED
    BY <2>3, <2>4, <2>5
<1>5. \A t, u \in Strata(C) : t # u => t.cases \cap u.cases = {}
  <2> SUFFICES ASSUME NEW t \in Strata(C), NEW u \in Strata(C), NEW c \in t.cases, c \in u.cases
               PROVE  t = u
    OBVIOUS
  <2>1. t.cases = u.cases
    BY <1>4
  <2>2. t = Stratum(t.cases) /\ u = Stratum(u.cases)
    BY <1>4
  <2> QED
    BY <2>1, <2>2
<1>6. \A c \in C : \E t \in Strata(C) : c \in t.cases
  <2> SUFFICES ASSUME NEW c \in C PROVE \E t \in Strata(C) : c \in t.cases
    OBVIOUS
  <2>1. Stratum(Cohort(C, c)) \in Strata(C) /\ c \in Stratum(Cohort(C, c)).cases
    BY <1>1, <1>2, StrataAre
  <2> QED
    BY <2>1
<1> QED
  BY <1>3, <1>4, <1>5, <1>6

(* The strata of a report add up to it.                                     *)
LEMMA StrataAddUp ==
  ASSUME NEW C, IsFiniteSet(C), \A c \in C : c.result \in SciResult
  PROVE  /\ Cardinality(C) = SumFunctionOnSet([t \in Strata(C) |-> t.completed + t.unavailable], Strata(C))
         /\ Cardinality(Completed(C)) - Cardinality(Favorable(C))
              = SumFunctionOnSet([t \in Strata(C) |-> t.adverse], Strata(C))
<1> DEFINE S == Strata(C)
           Adverse(D) == {c \in D : c.result = "adverse"}
           whole == [t \in S |-> t.cases]
           losses == [t \in S |-> Adverse(t.cases)]
           v == [t \in S |-> t.completed + t.unavailable]
           w == [t \in S |-> t.adverse]
<1>1. /\ IsFiniteSet(S)
      /\ \A t \in S : t.cases \in SUBSET C /\ t = Stratum(t.cases)
      /\ \A t, u \in S : t # u => t.cases \cap u.cases = {}
      /\ \A c \in C : \E t \in S : c \in t.cases
  BY StrataAreParts
<1>2. ASSUME NEW D \in SUBSET C
      PROVE  /\ IsFiniteSet(D) /\ Cardinality(D) \in Nat
             /\ Cardinality(Completed(D)) \in Nat /\ Cardinality(Favorable(D)) \in Nat
             /\ Cardinality(Adverse(D)) = Cardinality(Completed(D)) - Cardinality(Favorable(D))
  <2>1. \A E \in SUBSET C : IsFiniteSet(E) /\ Cardinality(E) \in Nat
    BY FS_Subset, FS_CardinalityType
  <2>2. Completed(D) \in SUBSET C /\ Favorable(D) \in SUBSET C /\ Adverse(D) \in SUBSET C
    BY DEF Completed, Favorable
  <2>3. Completed(D) = Favorable(D) \cup Adverse(D) /\ Favorable(D) \cap Adverse(D) = {}
    BY DEF Completed, Favorable, SciResult
  <2> HIDE DEF Adverse
  <2>4. Cardinality(Completed(D)) = Cardinality(Favorable(D)) + Cardinality(Adverse(D))
    <3>1. IsFiniteSet(Favorable(D)) /\ IsFiniteSet(Adverse(D))
      BY <2>1, <2>2
    <3> QED
      BY ONLY <2>3, <3>1, SizeOfTwoParts
  <2>5. /\ Cardinality(Completed(D)) \in Nat /\ Cardinality(Favorable(D)) \in Nat
        /\ Cardinality(Adverse(D)) \in Nat
    BY <2>1, <2>2
  <2> QED
    BY <2>1, <2>4, <2>5
<1>3. ASSUME NEW t \in S
      PROVE  t.completed + t.unavailable = Cardinality(t.cases) /\ t.adverse = Cardinality(Adverse(t.cases))
  <2> DEFINE D == t.cases
  <2>1. D \in SUBSET C /\ t = Stratum(D)
    BY <1>1, <1>3
  <2>2. /\ t.completed = Cardinality(Completed(D)) /\ t.favorable = Cardinality(Favorable(D))
        /\ t.adverse = t.completed - t.favorable
        /\ t.unavailable = Cardinality(D) - t.completed
    <3>1. IsFiniteSet(D)
      BY <1>2, <2>1
    <3> HIDE DEF D
    <3> QED
      BY ONLY <2>1, <3>1, StratumIs
  <2> HIDE DEF D, Adverse
  <2>3. /\ Cardinality(D) \in Nat /\ Cardinality(Completed(D)) \in Nat /\ Cardinality(Favorable(D)) \in Nat
        /\ Cardinality(Adverse(D)) = Cardinality(Completed(D)) - Cardinality(Favorable(D))
    BY <1>2, <2>1
  <2>4. t.completed + t.unavailable = Cardinality(D) /\ t.adverse = Cardinality(Adverse(D))
    BY <2>2, <2>3
  <2> QED
    BY <2>4 DEF D
<1>4. whole \in [S -> SUBSET C] /\ losses \in [S -> SUBSET C]
  BY <1>1
<1>5. \A t \in S : v[t] = Cardinality(whole[t]) /\ w[t] = Cardinality(losses[t])
  BY <1>3
<1>6. \A t, u \in S : t # u => whole[t] \cap whole[u] = {} /\ losses[t] \cap losses[u] = {}
  BY <1>1
<1>7. {c \in C : \E t \in S : c \in whole[t]} = C /\ {c \in C : \E t \in S : c \in losses[t]} = Adverse(C)
  BY <1>1
<1> HIDE DEF whole, losses, v, w, S, Adverse
<1>8. SumFunctionOnSet(v, S) = Cardinality({c \in C : \E t \in S : c \in whole[t]})
  <2>1. \A t \in S : v[t] = Cardinality(whole[t])
    BY <1>5
  <2>2. \A t, u \in S : t # u => whole[t] \cap whole[u] = {}
    BY <1>6
  <2> QED
    BY <1>1, <1>4, <2>1, <2>2, SumOfParts
<1>9. SumFunctionOnSet(w, S) = Cardinality({c \in C : \E t \in S : c \in losses[t]})
  <2>1. \A t \in S : w[t] = Cardinality(losses[t])
    BY <1>5
  <2>2. \A t, u \in S : t # u => losses[t] \cap losses[u] = {}
    BY <1>6
  <2> QED
    BY <1>1, <1>4, <2>1, <2>2, SumOfParts
<1>10. SumFunctionOnSet(v, S) = Cardinality(C) /\ SumFunctionOnSet(w, S) = Cardinality(Adverse(C))
  BY <1>7, <1>8, <1>9
<1>11. Cardinality(Adverse(C)) = Cardinality(Completed(C)) - Cardinality(Favorable(C))
  BY <1>2
<1> QED
  BY <1>10, <1>11 DEF v, w, S

LEMMA ReportIs ==
  ASSUME NEW population
  PROVE  LET r == ScienceReport(population)
             C == population.cases
         IN /\ r.strata = Strata(C) /\ r.sample = Cardinality(C)
            /\ r.completed = Cardinality(Completed(C)) /\ r.favorable = Cardinality(Favorable(C))
            /\ r.disposition = IF \E t \in Strata(C) : t.forward /\ t.disposition = "inconclusive"
                               THEN "inconclusive" ELSE "insufficient sample"
BY DEF ScienceReport

(* The forward cases of a version that were completed.                      *)
CompletedForward(C, v) ==
  {c \in C : c.version = v /\ c.result # "unavailable" /\ sciPlans[c.plan].at < SciDue[c.plan]}

(* A snapshot is conclusive only about one homogeneous forward cohort.      *)
LEMMA CohortsStand ==
  ASSUME SciRows, NEW s, SnapshotHolds(s)
  PROVE  LET r == s.report IN
         /\ r.disposition = "inconclusive" <=>
              \E v \in {SciVersion[p] : p \in SciPlan} :
                MinimumSample <= Cardinality(CompletedForward(s.population.cases, v))
         /\ \A t \in r.strata :
              /\ t.rate # <<>> => \A c \in t.cases : sciPlans[c.plan].at \in SciLock..(SciDue[c.plan] - 1)
              /\ t.power = "sufficient" => Cardinality({c.version : c \in t.cases}) = 1
<1> DEFINE C == s.population.cases
           r == s.report
           Done(v) == CompletedForward(C, v)
<1>1. /\ IsFiniteSet(C)
      /\ \A c \in C : /\ c.plan \in SciPlan /\ c.version = SciVersion[c.plan]
                      /\ c.origin = "forward" <=> sciPlans[c.plan].at < SciDue[c.plan]
                      /\ c.origin = "forward" => sciPlans[c.plan].at \in SciLock..(SciDue[c.plan] - 1)
  BY CasesOfSnapshot
<1>2. r.strata = Strata(C)
      /\ r.disposition = IF \E t \in Strata(C) : t.forward /\ t.disposition = "inconclusive"
                         THEN "inconclusive" ELSE "insufficient sample"
  <2>1. r = ScienceReport(s.population)
    BY DEF SnapshotHolds
  <2> HIDE DEF r
  <2> QED
    BY <2>1, ReportIs, Zenon
<1>3. ASSUME NEW t \in Strata(C)
      PROVE  /\ t.cases \in SUBSET C /\ t.cases # {} /\ t = Stratum(t.cases)
             /\ \A c, d \in t.cases : c.origin = d.origin /\ c.version = d.version
             /\ \A c \in t.cases : t.cases = Cohort(C, c)
  BY <1>1, <1>3, StrataAreParts
<1>4. ASSUME NEW t \in Strata(C)
      PROVE  LET forward == \A c \in t.cases : c.origin = "forward"
             IN /\ t.forward <=> forward
                /\ t.rate # <<>> => forward
                /\ t.completed = Cardinality(Completed(t.cases)) /\ t.completed \in Nat
                /\ t.disposition = "inconclusive" <=> ~(forward /\ t.completed < MinimumSample)
  <2> DEFINE D == t.cases
  <2>1. t = Stratum(D) /\ IsFiniteSet(D) /\ Completed(D) \in SUBSET D
    BY <1>1, <1>3, <1>4, FS_Subset DEF Completed
  <2>2. Cardinality(Completed(D)) \in Nat
    BY <2>1, FS_Subset, FS_CardinalityType
  <2> HIDE DEF D
  <2>3. LET forward == \A c \in D : c.origin = "forward"
        IN /\ t.forward <=> forward
           /\ t.rate # <<>> => forward
           /\ t.completed = Cardinality(Completed(D))
           /\ t.disposition = "inconclusive" <=> ~(forward /\ t.completed < MinimumSample)
    BY <2>1, StratumIs, Zenon
  <2>4. LET forward == \A c \in D : c.origin = "forward"
        IN /\ t.forward <=> forward
           /\ t.rate # <<>> => forward
           /\ t.completed = Cardinality(Completed(D)) /\ t.completed \in Nat
           /\ t.disposition = "inconclusive" <=> ~(forward /\ t.completed < MinimumSample)
    BY <2>2, <2>3, Zenon
  <2> QED
    BY <2>4 DEF D
<1>5. ASSUME NEW t \in Strata(C), NEW c \in t.cases, c.origin = "forward"
      PROVE  /\ \A d \in t.cases : d.origin = "forward"
             /\ Completed(t.cases) = Done(c.version)
  <2>1. t.cases = Cohort(C, c) /\ \A d \in t.cases : d.origin = "forward"
    BY <1>3, <1>5
  <2>2. Completed(Cohort(C, c)) = Done(c.version)
    BY <1>1, <1>5 DEF Cohort, Completed, CompletedForward
  <2> QED
    BY <2>1, <2>2
<1>6. ASSUME NEW t \in Strata(C), t.forward, t.disposition = "inconclusive"
      PROVE  \E v \in {SciVersion[p] : p \in SciPlan} : MinimumSample <= Cardinality(Done(v))
  <2>1. PICK c \in t.cases : c.origin = "forward"
    BY <1>3, <1>4, <1>6
  <2>2. t.completed = Cardinality(Done(c.version)) /\ t.completed \in Nat /\ ~(t.completed < MinimumSample)
    BY <1>4, <1>5, <1>6, <2>1
  <2>3. c.version \in {SciVersion[p] : p \in SciPlan}
    BY <1>1, <1>3, <2>1
  <2>4. MinimumSample <= Cardinality(Done(c.version))
    BY <2>2, ScienceConstants
  <2> HIDE DEF Done
  <2> QED
    BY <2>3, <2>4
<1>7. ASSUME NEW v \in {SciVersion[p] : p \in SciPlan}, MinimumSample <= Cardinality(Done(v))
      PROVE  \E t \in Strata(C) : t.forward /\ t.disposition = "inconclusive"
  <2>1. Done(v) # {}
    <3>1. Cardinality({}) = 0
      BY FS_EmptySet
    <3> HIDE DEF Done
    <3> QED
      BY <3>1, <1>7, ScienceConstants
  <2>2. PICK c \in C : c \in Done(v)
    BY <2>1 DEF CompletedForward
  <2>3. c.version = v /\ c.origin = "forward"
    BY <1>1, <2>2 DEF CompletedForward
  <2>4. PICK t \in Strata(C) : c \in t.cases
    BY <1>1, <2>2, StrataAreParts
  <2>5. (\A d \in t.cases : d.origin = "forward") /\ Completed(t.cases) = Done(v)
    BY <1>5, <2>3, <2>4
  <2> HIDE DEF Done
  <2>6. t.completed = Cardinality(Done(v)) /\ t.completed \in Nat
    BY <1>4, <2>4, <2>5
  <2>7. ~(t.completed < MinimumSample)
    BY <1>7, <2>6, ScienceConstants
  <2>8. t.forward /\ t.disposition = "inconclusive"
    BY <1>4, <2>4, <2>5, <2>7
  <2> QED
    BY <2>4, <2>8
<1>8. r.disposition = "inconclusive" <=>
        \E v \in {SciVersion[p] : p \in SciPlan} : MinimumSample <= Cardinality(Done(v))
  <2> HIDE DEF Done
  <2> QED
    BY <1>2, <1>6, <1>7
<1>9. ASSUME NEW t \in Strata(C)
      PROVE  /\ t.rate # <<>> => \A c \in t.cases : sciPlans[c.plan].at \in SciLock..(SciDue[c.plan] - 1)
             /\ Cardinality({c.version : c \in t.cases}) = 1
  <2>1. t.rate # <<>> => \A c \in t.cases : sciPlans[c.plan].at \in SciLock..(SciDue[c.plan] - 1)
    BY <1>1, <1>3, <1>4, <1>9
  <2>2. PICK c : c \in t.cases
    BY <1>3, <1>9
  <2>3. {d.version : d \in t.cases} = {c.version}
    BY <1>3, <1>9, <2>2
  <2>4. Cardinality({c.version}) = 1
    BY FS_Singleton
  <2> QED
    BY <2>1, <2>3, <2>4
<1> QED
  BY <1>2, <1>8, <1>9

(* Type correctness of the science reader and its writers.                  *)
THEOREM ScienceTypeCorrect == SciSpec => []ScienceTypeOK
<1>1. SciInv => ScienceTypeOK
  <2> SUFFICES ASSUME SciInv PROVE ScienceTypeOK
    OBVIOUS
  <2>1. \A p \in SciPlan : /\ sciPlans[p].at \in Int /\ sciOutcomes[p].at \in Int
                           /\ sciOutcomes[p].result \in SciResult \cup {"none"}
    BY DEF SciInv, SciRows, SciRow
  <2>2. \A p \in SciPlan : sciPlans[p].at \in -1..sciClock /\ sciOutcomes[p].at \in -1..sciClock
    BY <2>1 DEF SciInv, SciRows
  <2> QED
    BY <2>1, <2>2 DEF SciInv, SciRows, SnapshotHolds, ScienceTypeOK
<1> QED
  BY <1>1, SciInductive, PTL

(* Whatever is committed after a snapshot, its cases are found again and     *)
(* every enrolled plan is accounted for, and a report is only as conclusive  *)
(* as one homogeneous forward cohort, whose strata add up                    *)
(* (build_outcome_science_population, build_outcome_science_report).         *)
THEOREM ScienceSound == SciSpec => []ScienceIsSound
<1>1. SciInv => SnapshotsAreKept
  <2> SUFFICES ASSUME SciInv, NEW s \in sciSnapshots
               PROVE  LET again == Population(s.population.cutoff) IN
                      /\ s.population.cases \subseteq again.cases
                      /\ s.population.enrolled <= again.enrolled
                      /\ again.enrolled = Cardinality(again.cases) + again.notDue + again.overdue
                      /\ \A c \in s.population.cases : c.appended \in SciDue[c.plan]..s.population.cutoff
    BY DEF SnapshotsAreKept
  <2>1. SciRows /\ SnapshotHolds(s)
    BY DEF SciInv
  <2>2. \A c \in s.population.cases : c.appended \in SciDue[c.plan]..s.population.cutoff
    BY <2>1, CasesOfSnapshot
  <2> QED
    BY <2>1, <2>2, ReadAgain
<1>2. SciInv => CohortsAreNeverPooled
  <2> SUFFICES ASSUME SciInv, NEW s \in sciSnapshots
               PROVE  LET r == s.report IN
                      /\ r.disposition = "inconclusive" <=>
                           \E v \in {SciVersion[p] : p \in SciPlan} :
                             MinimumSample <= Cardinality(CompletedForward(s.population.cases, v))
                      /\ \A t \in r.strata :
                           /\ t.rate # <<>> =>
                                \A c \in t.cases : sciPlans[c.plan].at \in SciLock..(SciDue[c.plan] - 1)
                           /\ t.power = "sufficient" => Cardinality({c.version : c \in t.cases}) = 1
                      /\ r.sample = SumFunctionOnSet([t \in r.strata |-> t.completed + t.unavailable], r.strata)
                      /\ r.completed - r.favorable = SumFunctionOnSet([t \in r.strata |-> t.adverse], r.strata)
    BY DEF CohortsAreNeverPooled, CompletedForward
  <2> DEFINE C == s.population.cases
             r == s.report
  <2>1. SciRows /\ SnapshotHolds(s)
    BY DEF SciInv
  <2>2. IsFiniteSet(C) /\ \A c \in C : c.result \in SciResult
    BY <2>1, CasesOfSnapshot
  <2>3. /\ r.strata = Strata(C) /\ r.sample = Cardinality(C)
        /\ r.completed = Cardinality(Completed(C)) /\ r.favorable = Cardinality(Favorable(C))
    <3>1. r = ScienceReport(s.population)
      BY <2>1 DEF SnapshotHolds
    <3> HIDE DEF r
    <3> QED
      BY <3>1, ReportIs, Zenon
  <2>4. /\ Cardinality(C) = SumFunctionOnSet([t \in Strata(C) |-> t.completed + t.unavailable], Strata(C))
        /\ Cardinality(Completed(C)) - Cardinality(Favorable(C))
             = SumFunctionOnSet([t \in Strata(C) |-> t.adverse], Strata(C))
    BY <2>2, StrataAddUp
  <2>5. /\ r.sample = SumFunctionOnSet([t \in r.strata |-> t.completed + t.unavailable], r.strata)
        /\ r.completed - r.favorable = SumFunctionOnSet([t \in r.strata |-> t.adverse], r.strata)
    BY <2>3, <2>4
  <2> QED
    BY <2>1, <2>5, CohortsStand
<1>3. SciInv => ScienceIsSound
  BY <1>1, <1>2 DEF ScienceIsSound
<1> QED
  BY <1>3, SciInductive, PTL

-----------------------------------------------------------------------------
(* Predictions: for any drafts, horizon, prices and numbers of outcomes.     *)

LEMMA PredictionConstants ==
  /\ PdHorizon \in Nat /\ MaxPdDay \in Nat
  /\ \A p \in PdDraft : /\ p.asOf \in Nat /\ p.cutoff \in Nat /\ p.published \in Nat /\ p.due \in Nat
                        /\ p.rule \in {"price return", "total return"}
<1>1. PdHorizon \in Nat /\ MaxPdDay \in Nat
  BY PredictionAssumption
<1>2. PdDraft \subseteq [id : STRING, asOf : Nat, cutoff : Nat, published : Nat, due : Nat,
                         rule : {"price return", "total return"}, known : Nat, traced : BOOLEAN]
  BY PredictionAssumption
<1>3. ASSUME NEW p \in PdDraft
      PROVE  /\ p.asOf \in Nat /\ p.cutoff \in Nat /\ p.published \in Nat /\ p.due \in Nat
             /\ p.rule \in {"price return", "total return"}
  BY <1>2, <1>3
<1> QED
  BY <1>1, <1>3

(* What an evaluation input is made of.                                     *)
LEMMA InputsAre ==
  ASSUME NEW input \in PdInputs
  PROVE  /\ input.at \in 0..MaxPdDay /\ input.origin \in PdOrigin
         /\ \A s \in PdSides : input.obs[s] # MissingValues =>
              input.obs[s].on \in Nat /\ input.obs[s].seen \in Nat
<1> DEFINE Obs(lost, start, end) ==
             [s \in PdSides |-> IF s \in lost THEN MissingValues
                                ELSE IF s \in PdStarts THEN start ELSE end]
<1>1. PICK day \in PdDay, origin \in PdOrigin, actions \in {{}, {0}, {2}},
           lost \in {{}, {"assetEnd"}},
           start \in {o \in PdObservation : o.on <= o.seen /\ o.on <= 1 /\ o.seen <= 2},
           end \in {o \in PdObservation : o.on >= PdHorizon /\ o.seen >= PdHorizon /\ o.on # o.seen},
           late \in BOOLEAN :
           input = [at |-> day, cutoff |-> IF late THEN MaxPdDay ELSE day, origin |-> origin, actions |-> actions,
                    obs |-> Obs(lost, start, end)]
  BY DEF PdInputs
<1>2. input.at = day /\ input.origin = origin /\ input.obs = Obs(lost, start, end)
  BY <1>1
<1>3. \A o \in PdObservation : o.on \in Nat /\ o.seen \in Nat
  <2>1. PdDay \subseteq Nat
    <3>1. MaxPdDay \in Nat
      BY PredictionConstants
    <3> QED
      BY <3>1 DEF PdDay
  <2> QED
    BY <2>1 DEF PdObservation
<1>4. start.on \in Nat /\ start.seen \in Nat /\ end.on \in Nat /\ end.seen \in Nat
  BY <1>3
<1>5. \A s \in PdSides : input.obs[s] \in {MissingValues, start, end}
  BY <1>2
<1> QED
  BY <1>2, <1>4, <1>5 DEF PdDay

-----------------------------------------------------------------------------
(* The hash chain *)

Entries(chain, kind, i) == {j \in 1..i : chain[j][1] = kind}

(* The n-th entry of a kind is the n-th record of its list, and none is      *)
(* missing.                                                                 *)
Commits(chain, kind, list) ==
  /\ Cardinality(Entries(chain, kind, Len(chain))) = Len(list)
  /\ \A i \in Entries(chain, kind, Len(chain)) :
       chain[i][2] = list[Cardinality(Entries(chain, kind, i))].id

LEMMA EntriesAreFinite ==
  ASSUME NEW chain, NEW kind, NEW n \in Nat, NEW i \in 0..n
  PROVE  /\ IsFiniteSet(Entries(chain, kind, i)) /\ Cardinality(Entries(chain, kind, i)) \in Nat
         /\ Cardinality(Entries(chain, kind, i)) <= Cardinality(Entries(chain, kind, n))
         /\ i \in Entries(chain, kind, i) => Cardinality(Entries(chain, kind, i)) >= 1
<1>1. IsFiniteSet(1..n)
  BY FS_Interval
<1>2. Entries(chain, kind, i) \in SUBSET (1..n) /\ Entries(chain, kind, n) \in SUBSET (1..n)
  BY DEF Entries
<1>3. IsFiniteSet(Entries(chain, kind, i)) /\ IsFiniteSet(Entries(chain, kind, n))
  BY <1>1, <1>2, FS_Subset
<1>4. Entries(chain, kind, i) \in SUBSET Entries(chain, kind, n)
  BY DEF Entries
<1>5. Cardinality(Entries(chain, kind, i)) \in Nat
  BY <1>3, FS_CardinalityType
<1>6. i \in Entries(chain, kind, i) => Cardinality(Entries(chain, kind, i)) # 0
  BY <1>3, FS_EmptySet
<1>7. Cardinality(Entries(chain, kind, i)) <= Cardinality(Entries(chain, kind, n))
  BY <1>3, <1>4, FS_Subset
<1> QED
  BY <1>3, <1>5, <1>6, <1>7

(* An entry of another kind changes nothing.                                *)
LEMMA OtherKindCommits ==
  ASSUME NEW E, NEW chain \in Seq(E), NEW e \in E, NEW kind, e[1] # kind,
         NEW list, Commits(chain, kind, list)
  PROVE  Commits(Append(chain, e), kind, list)
<1> DEFINE longer == Append(chain, e)
<1>2. /\ \A i \in 1..Len(chain) : longer[i] = chain[i] /\ i \in 0..Len(chain)
      /\ Len(chain) \in Nat /\ Len(longer) = Len(chain) + 1 /\ longer[Len(chain) + 1] = e
  OBVIOUS
<1>3. Entries(chain, kind, Len(chain)) \subseteq 1..Len(chain)
  BY DEF Entries
<1> HIDE DEF longer
<1>1. /\ Entries(longer, kind, Len(longer)) = Entries(chain, kind, Len(chain))
      /\ \A i \in 0..Len(chain) : Entries(longer, kind, i) = Entries(chain, kind, i)
  <2>1. Entries(longer, kind, Len(longer)) = Entries(chain, kind, Len(chain))
    BY <1>2 DEF Entries
  <2>2. \A i \in 0..Len(chain) : Entries(longer, kind, i) = Entries(chain, kind, i)
    BY <1>2 DEF Entries
  <2> QED
    BY <2>1, <2>2
<1>4. \A i \in Entries(longer, kind, Len(longer)) : longer[i][2] = list[Cardinality(Entries(longer, kind, i))].id
  BY <1>1, <1>2, <1>3 DEF Commits
<1>5. Cardinality(Entries(longer, kind, Len(longer))) = Len(list)
  BY <1>1 DEF Commits
<1>6. Commits(longer, kind, list)
  BY <1>4, <1>5 DEF Commits
<1> QED
  BY <1>6 DEF longer

(* A record and its entry are appended together.                            *)
LEMMA OwnKindCommits ==
  ASSUME NEW E, NEW chain \in Seq(E), NEW e \in E, NEW kind, e[1] = kind,
         NEW R, NEW list \in Seq(R), NEW r \in R, e[2] = r.id, Commits(chain, kind, list)
  PROVE  Commits(Append(chain, e), kind, Append(list, r))
<1> DEFINE longer == Append(chain, e)
           records == Append(list, r)
           n == Len(chain)
           m == Len(list)
           Old == Entries(chain, kind, n)
<1>2. /\ n \in Nat /\ m \in Nat /\ Len(longer) = n + 1 /\ longer[n + 1] = e
      /\ \A i \in 1..n : longer[i] = chain[i] /\ i \in 0..n
  OBVIOUS
<1>3. Len(records) = m + 1 /\ records[m + 1] = r /\ \A k \in 1..m : records[k] = list[k]
  OBVIOUS
<1>4. Cardinality(Old) = m /\ \A i \in Old : chain[i][2] = list[Cardinality(Entries(chain, kind, i))].id
  BY DEF Commits
<1>5. Old \subseteq 1..n /\ IsFiniteSet(Old)
  <2>1. Old \subseteq 1..n
    BY DEF Entries
  <2>2. n \in 0..n
    BY <1>2
  <2> QED
    BY <1>2, <2>1, <2>2, EntriesAreFinite
<1> HIDE DEF longer, records
<1>1. /\ Entries(longer, kind, Len(longer)) = Old \cup {n + 1}
      /\ \A i \in 0..n : Entries(longer, kind, i) = Entries(chain, kind, i)
  <2>1. Entries(longer, kind, Len(longer)) = Entries(chain, kind, Len(chain)) \cup {Len(chain) + 1}
    BY <1>2 DEF Entries
  <2>2. \A i \in 0..Len(chain) : Entries(longer, kind, i) = Entries(chain, kind, i)
    BY <1>2 DEF Entries
  <2> QED
    BY <2>1, <2>2
<1> HIDE DEF n, m, Old
<1>6. Cardinality(Old \cup {n + 1}) = m + 1
  <2>1. n + 1 \notin Old
    BY <1>2, <1>5
  <2> QED
    BY <1>4, <1>5, <2>1, FS_AddElement
<1>7. ASSUME NEW i \in Old
      PROVE  longer[i][2] = records[Cardinality(Entries(longer, kind, i))].id
  <2> DEFINE k == Cardinality(Entries(chain, kind, i))
  <2>1. i \in 1..n /\ i \in 0..n /\ longer[i] = chain[i]
    BY <1>2, <1>5, <1>7
  <2>2. i \in Entries(chain, kind, i)
    BY <1>7, <2>1, <1>2 DEF Entries, Old
  <2>3. k \in Nat /\ k >= 1 /\ k <= Cardinality(Old)
    BY <1>2, <2>1, <2>2, EntriesAreFinite DEF Old
  <2>4. k \in 1..m
    BY <1>2, <1>4, <2>3
  <2>5. Entries(longer, kind, i) = Entries(chain, kind, i)
    BY <1>1, <2>1
  <2>6. chain[i][2] = list[k].id
    BY <1>4, <1>7
  <2> HIDE DEF k
  <2>7. records[k] = list[k]
    BY <1>3, <2>4
  <2>8. Cardinality(Entries(longer, kind, i)) = k
    BY <2>5 DEF k
  <2> QED
    BY <2>1, <2>6, <2>7, <2>8
<1>8. longer[n + 1][2] = records[Cardinality(Entries(longer, kind, n + 1))].id
  BY <1>1, <1>2, <1>3, <1>6
<1>9. Commits(longer, kind, records)
  <2>1. \A i \in Entries(longer, kind, Len(longer)) :
          longer[i][2] = records[Cardinality(Entries(longer, kind, i))].id
    BY <1>1, <1>7, <1>8
  <2>2. Cardinality(Entries(longer, kind, Len(longer))) = Len(records)
    BY <1>1, <1>3, <1>6
  <2> QED
    BY <2>1, <2>2 DEF Commits
<1> QED
  BY <1>9 DEF longer, records

-----------------------------------------------------------------------------
(* The inductive invariant *)

PdOutcome == {EvaluateOutcome(p, input) : p \in PdDraft, input \in PdInputs}
PdCorrection == [id : Nat, prediction : {p.id : p \in PdDraft}, at : {0, MaxPdDay}]
PdEntry == {"prediction", "correction", "outcome"}
             \X ({p.id : p \in PdDraft} \cup Nat \cup {o.id : o \in PdOutcome})

(* An outcome belongs to a published prediction and does not look ahead.     *)
Foreseen(o, p) ==
  /\ p.id = o.prediction /\ p.rule = o.rule
  /\ o.assessment # "unavailable" =>
       \A s \in PdStarts, e \in PdSides \ PdStarts :
         /\ o.obs[s].seen <= p.published
         /\ o.obs[e].on - o.obs[s].on >= PdHorizon

PdTypes ==
  /\ pdPredictions \in Seq(PdDraft) /\ pdCorrections \in Seq(PdCorrection)
  /\ pdOutcomes \in Seq(PdOutcome) /\ pdChain \in Seq(PdEntry)

(* Publications are complete, and no two share an id.                       *)
PdPublished ==
  \A i \in DOMAIN pdPredictions :
    /\ PublicationIsComplete(pdPredictions[i])
    /\ \A j \in DOMAIN pdPredictions : pdPredictions[i].id = pdPredictions[j].id => i = j

PdForeseen ==
  \A i \in DOMAIN pdOutcomes : \E k \in DOMAIN pdPredictions : Foreseen(pdOutcomes[i], pdPredictions[k])

PdChained ==
  /\ Commits(pdChain, "prediction", pdPredictions)
  /\ Commits(pdChain, "correction", pdCorrections)
  /\ Commits(pdChain, "outcome", pdOutcomes)

PdInv == PdTypes /\ PdPublished /\ PdForeseen /\ PdChained

LEMMA PdInvInit == PdInit => PdInv
<1> SUFFICES ASSUME PdInit PROVE PdInv
  OBVIOUS
<1>1. PdTypes /\ PdPublished /\ PdForeseen
  BY DEF PdInit, PdTypes, PdPublished, PdForeseen
<1>2. \A kind : Commits(<<>>, kind, <<>>)
  <2>1. \A kind : Entries(<<>>, kind, 0) = {}
    BY DEF Entries
  <2>2. Cardinality({}) = 0 /\ Len(<<>>) = 0
    BY FS_EmptySet
  <2> QED
    BY <2>1, <2>2 DEF Commits
<1> QED
  BY <1>1, <1>2 DEF PdInit, PdInv, PdChained

(* What an evaluated outcome is.                                            *)
LEMMA OutcomesAre ==
  ASSUME NEW o \in PdOutcome
  PROVE  o.appended \in 0..MaxPdDay /\ o.origin \in PdOrigin
<1>1. PICK p \in PdDraft : \E input \in PdInputs : o = EvaluateOutcome(p, input)
  BY DEF PdOutcome
<1>2. PICK input \in PdInputs : o = EvaluateOutcome(p, input)
  BY <1>1
<1>3. o.appended = input.at /\ o.origin = input.origin
  BY <1>2 DEF EvaluateOutcome
<1> QED
  BY <1>3, InputsAre

(* A consistent evaluation of a complete publication does not look ahead.   *)
LEMMA EvaluationsLookBack ==
  ASSUME NEW p \in PdDraft, NEW input \in PdInputs, PublicationIsComplete(p), EvaluationIsConsistent(p, input)
  PROVE  Foreseen(EvaluateOutcome(p, input), p)
<1> DEFINE o == EvaluateOutcome(p, input)
<1>1. /\ o.prediction = p.id /\ o.rule = p.rule /\ o.obs = input.obs
      /\ o.assessment = IF PdObserved(input) = PdSides THEN Assessment(p, input.obs) ELSE "unavailable"
  BY DEF EvaluateOutcome
<1> HIDE DEF o
<1>2. ASSUME o.assessment # "unavailable", NEW s \in PdStarts, NEW e \in PdSides \ PdStarts
      PROVE  o.obs[s].seen <= p.published /\ o.obs[e].on - o.obs[s].on >= PdHorizon
  <2>1. PdObserved(input) = PdSides
    BY <1>1, <1>2
  <2>2. s \in PdObserved(input) /\ e \in PdObserved(input) /\ s \in PdSides /\ e \in PdSides /\ e \notin PdStarts
    BY <2>1 DEF PdStarts, PdSides
  <2>3. /\ input.obs[s].on \in Nat /\ input.obs[s].seen \in Nat
        /\ input.obs[e].on \in Nat /\ input.obs[e].seen \in Nat
    BY <2>2, InputsAre DEF PdObserved
  <2>4. /\ input.obs[s].on <= p.asOf /\ input.obs[s].seen <= p.cutoff
        /\ input.obs[e].on >= p.due
    BY <2>2 DEF EvaluationIsConsistent, StartIsKnown
  <2>5. p.cutoff <= p.published /\ p.due = p.asOf + PdHorizon
    BY DEF PublicationIsComplete
  <2>6. p.asOf \in Nat /\ p.cutoff \in Nat /\ p.published \in Nat /\ p.due \in Nat /\ PdHorizon \in Nat
    BY PredictionConstants
  <2>7. input.obs[s].seen <= p.published /\ input.obs[e].on - input.obs[s].on >= PdHorizon
    BY <2>3, <2>4, <2>5, <2>6
  <2> QED
    BY <1>1, <2>7
<1>3. Foreseen(o, p)
  BY <1>1, <1>2 DEF Foreseen
<1> QED
  BY <1>3 DEF o

(* Appending to a list keeps what was in it.                                *)
LEMMA AppendKeeps ==
  ASSUME NEW R, NEW list \in Seq(R), NEW r \in R, NEW longer, longer = Append(list, r)
  PROVE  /\ longer \in Seq(R) /\ DOMAIN longer = DOMAIN list \cup {Len(list) + 1}
         /\ Len(list) + 1 \notin DOMAIN list
         /\ longer[Len(list) + 1] = r /\ \A i \in DOMAIN list : longer[i] = list[i]
OBVIOUS

LEMMA PdInvStep == PdInv /\ [PdNext]_pdVars => PdInv'
<1> SUFFICES ASSUME PdInv, [PdNext]_pdVars PROVE PdInv'
  OBVIOUS
<1>1. PdTypes /\ PdPublished /\ PdForeseen /\ PdChained
  BY DEF PdInv
<1>2. ASSUME NEW p \in PdDraft, AppendPrediction(p) PROVE PdInv'
  <2> DEFINE e == <<"prediction", p.id>>
             n == Len(pdPredictions) + 1
  <2>1. /\ PublicationIsComplete(p) /\ EnsureNew(p.id, pdPredictions)
        /\ pdPredictions' = Append(pdPredictions, p) /\ pdChain' = Append(pdChain, e)
        /\ UNCHANGED <<pdCorrections, pdOutcomes>>
    BY <1>2 DEF AppendPrediction, AppendHash
  <2>2. e \in PdEntry /\ e[1] = "prediction" /\ e[2] = p.id
    BY DEF PdEntry
  <2> HIDE DEF e
  <2>3. /\ pdPredictions' \in Seq(PdDraft) /\ DOMAIN pdPredictions' = DOMAIN pdPredictions \cup {n}
        /\ n \notin DOMAIN pdPredictions
        /\ pdPredictions'[n] = p /\ \A i \in DOMAIN pdPredictions : pdPredictions'[i] = pdPredictions[i]
    BY <1>1, <2>1, AppendKeeps DEF PdTypes
  <2>4. pdChain' \in Seq(PdEntry)
    BY <1>1, <2>1, <2>2, AppendProperties DEF PdTypes
  <2> HIDE DEF n
  <2>5. PdPublished'
    <3>1. \A i \in DOMAIN pdPredictions : pdPredictions[i].id # p.id
      BY <2>1 DEF EnsureNew
    <3> SUFFICES ASSUME NEW i \in DOMAIN pdPredictions'
                 PROVE  /\ PublicationIsComplete(pdPredictions'[i])
                        /\ \A j \in DOMAIN pdPredictions' : pdPredictions'[i].id = pdPredictions'[j].id => i = j
      BY DEF PdPublished, PublicationIsComplete
    <3> QED
      BY <1>1, <2>1, <2>3, <3>1 DEF PdPublished
  <2>6. PdForeseen'
    BY <1>1, <2>1, <2>3 DEF PdForeseen, Foreseen
  <2>7. PdChained'
    <3>1. Commits(pdChain', "prediction", pdPredictions')
      BY <1>1, <2>1, <2>2, OwnKindCommits, Zenon DEF PdTypes, PdChained
    <3>2. e[1] # "correction" /\ e[1] # "outcome"
      BY <2>2
    <3>3. Commits(pdChain', "correction", pdCorrections) /\ Commits(pdChain', "outcome", pdOutcomes)
      BY <1>1, <2>1, <2>2, <3>2, OtherKindCommits, Zenon DEF PdTypes, PdChained
    <3> QED
      BY <2>1, <3>1, <3>3 DEF PdChained
  <2> QED
    BY <1>1, <2>1, <2>3, <2>4, <2>5, <2>6, <2>7 DEF PdInv, PdTypes
<1>3. ASSUME NEW k \in DOMAIN pdPredictions, NEW day \in {0, MaxPdDay}, AppendCorrection(pdPredictions[k], day)
      PROVE  PdInv'
  <2> DEFINE p == pdPredictions[k]
             c == [id |-> Len(pdCorrections) + 1, prediction |-> p.id, at |-> day]
             e == <<"correction", c.id>>
  <2>1. /\ pdCorrections' = Append(pdCorrections, c) /\ pdChain' = Append(pdChain, e)
        /\ UNCHANGED <<pdPredictions, pdOutcomes>>
    BY <1>3 DEF AppendCorrection, AppendHash
  <2>2. p \in PdDraft /\ Len(pdCorrections) \in Nat
    BY <1>1, <1>3 DEF PdTypes
  <2>3. c \in PdCorrection /\ c.id \in Nat
    BY <1>3, <2>2 DEF PdCorrection
  <2>4. e \in PdEntry /\ e[1] = "correction" /\ e[2] = c.id
    BY <2>3 DEF PdEntry
  <2> HIDE DEF c, e, p
  <2>5. pdCorrections' \in Seq(PdCorrection) /\ pdChain' \in Seq(PdEntry)
    BY <1>1, <2>1, <2>3, <2>4, AppendProperties DEF PdTypes
  <2>6. PdPublished' /\ PdForeseen'
    BY <1>1, <2>1 DEF PdPublished, PublicationIsComplete, PdForeseen, Foreseen
  <2>7. PdChained'
    <3>1. Commits(pdChain', "correction", pdCorrections')
      BY <1>1, <2>1, <2>3, <2>4, OwnKindCommits, Zenon DEF PdTypes, PdChained
    <3>2. e[1] # "prediction" /\ e[1] # "outcome"
      BY <2>4
    <3>3. Commits(pdChain', "prediction", pdPredictions) /\ Commits(pdChain', "outcome", pdOutcomes)
      BY <1>1, <2>1, <2>4, <3>2, OtherKindCommits, Zenon DEF PdTypes, PdChained
    <3> QED
      BY <2>1, <3>1, <3>3 DEF PdChained
  <2> QED
    BY <1>1, <2>1, <2>5, <2>6, <2>7 DEF PdInv, PdTypes
<1>4. ASSUME NEW k \in DOMAIN pdPredictions, NEW input \in PdInputs, AppendOutcome(pdPredictions[k], input)
      PROVE  PdInv'
  <2> DEFINE p == pdPredictions[k]
             o == EvaluateOutcome(p, input)
             e == <<"outcome", o.id>>
             n == Len(pdOutcomes) + 1
  <2>1. /\ EvaluationIsConsistent(p, input)
        /\ pdOutcomes' = Append(pdOutcomes, o) /\ pdChain' = Append(pdChain, e)
        /\ UNCHANGED <<pdPredictions, pdCorrections>>
    BY <1>4 DEF AppendOutcome, AppendHash
  <2>2. p \in PdDraft /\ PublicationIsComplete(p)
    BY <1>1, <1>4 DEF PdTypes, PdPublished
  <2>3. Foreseen(o, p)
    BY <1>4, <2>1, <2>2, EvaluationsLookBack
  <2>4. o \in PdOutcome
    BY <1>4, <2>2 DEF PdOutcome
  <2> HIDE DEF o
  <2>5. e \in PdEntry /\ e[1] = "outcome" /\ e[2] = o.id
    BY <2>4 DEF PdEntry
  <2> HIDE DEF e
  <2>6. /\ pdOutcomes' \in Seq(PdOutcome) /\ DOMAIN pdOutcomes' = DOMAIN pdOutcomes \cup {n}
        /\ pdOutcomes'[n] = o /\ \A i \in DOMAIN pdOutcomes : pdOutcomes'[i] = pdOutcomes[i]
    BY <1>1, <2>1, <2>4, AppendKeeps DEF PdTypes
  <2>7. pdChain' \in Seq(PdEntry)
    BY <1>1, <2>1, <2>5, AppendProperties DEF PdTypes
  <2> HIDE DEF n, p
  <2>8. PdForeseen'
    <3> SUFFICES ASSUME NEW i \in DOMAIN pdOutcomes'
                 PROVE  \E j \in DOMAIN pdPredictions : Foreseen(pdOutcomes'[i], pdPredictions[j])
      BY <2>1 DEF PdForeseen, Foreseen
    <3>1. CASE i = n
      BY <1>4, <2>3, <2>6, <3>1 DEF p
    <3>2. CASE i \in DOMAIN pdOutcomes
      BY <1>1, <2>6, <3>2 DEF PdForeseen
    <3> QED
      BY <2>6, <3>1, <3>2
  <2>9. PdPublished'
    BY <1>1, <2>1 DEF PdPublished, PublicationIsComplete
  <2>10. PdChained'
    <3>1. Commits(pdChain', "outcome", pdOutcomes')
      BY <1>1, <2>1, <2>4, <2>5, OwnKindCommits, Zenon DEF PdTypes, PdChained
    <3>2. e[1] # "prediction" /\ e[1] # "correction"
      BY <2>5
    <3>3. Commits(pdChain', "prediction", pdPredictions) /\ Commits(pdChain', "correction", pdCorrections)
      BY <1>1, <2>1, <2>5, <3>2, OtherKindCommits, Zenon DEF PdTypes, PdChained
    <3> QED
      BY <2>1, <3>1, <3>3 DEF PdChained
  <2> QED
    BY <1>1, <2>1, <2>6, <2>7, <2>8, <2>9, <2>10 DEF PdInv, PdTypes
<1>5. CASE UNCHANGED pdVars
  <2>1. UNCHANGED <<pdPredictions, pdCorrections, pdOutcomes, pdChain>>
    BY <1>5 DEF pdVars
  <2> QED
    BY <1>1, <2>1 DEF PdInv, PdTypes, PdPublished, PublicationIsComplete, PdForeseen, Foreseen, PdChained
<1> QED
  BY <1>2, <1>3, <1>4, <1>5 DEF PdNext

LEMMA PdInductive == PdSpec => []PdInv
BY PdInvInit, PdInvStep, PTL DEF PdSpec


-----------------------------------------------------------------------------
(* What the report counts *)

LEMMA OutcomeTimes ==
  ASSUME PdInv
  PROVE  /\ DOMAIN pdOutcomes \subseteq Nat
         /\ \A i \in DOMAIN pdOutcomes : pdOutcomes[i].appended \in 0..MaxPdDay /\ pdOutcomes[i].origin \in PdOrigin
<1>1. pdOutcomes \in Seq(PdOutcome)
  BY DEF PdInv, PdTypes
<1>2. DOMAIN pdOutcomes \subseteq Nat /\ \A i \in DOMAIN pdOutcomes : pdOutcomes[i] \in PdOutcome
  BY <1>1
<1> QED
  BY <1>2, OutcomesAre

(* One outcome of a prediction stands: none of the others is newer.          *)
LEMMA OneOutcomeStands ==
  ASSUME PdInv, NEW p, OutcomesOf(p) # {}
  PROVE  \E k \in OutcomesOf(p) :
           /\ SelectedOutcome(p) = {pdOutcomes[k]}
           /\ \A i \in OutcomesOf(p) : pdOutcomes[k].appended >= pdOutcomes[i].appended
<1> DEFINE mine == OutcomesOf(p)
           At(i) == pdOutcomes[i].appended
           Later(i, j) == At(i) > At(j) \/ (At(i) = At(j) /\ i < j)
<1>1. /\ mine \subseteq Nat /\ mine \subseteq DOMAIN pdOutcomes
      /\ \A i \in mine : At(i) \in 0..MaxPdDay
  <2>1. mine \subseteq DOMAIN pdOutcomes
    BY DEF OutcomesOf
  <2> HIDE DEF mine
  <2>2. mine \subseteq Nat
    BY <2>1, OutcomeTimes
  <2>3. \A i \in mine : At(i) \in 0..MaxPdDay
    BY <2>1, OutcomeTimes
  <2> QED
    BY <2>1, <2>2, <2>3
<1>2. SelectedOutcome(p) = {pdOutcomes[i] : i \in {k \in mine : \A j \in mine \ {k} : Later(k, j)}}
  BY DEF SelectedOutcome
<1>3. MaxPdDay \in Nat
  BY PredictionConstants
<1> DEFINE T == {MaxPdDay - At(i) : i \in mine}
<1>4. T \in SUBSET Nat /\ T # {}
  <2>1. \A i \in mine : MaxPdDay - At(i) \in Nat
    <3> HIDE DEF At, mine
    <3> QED
      BY <1>1, <1>3
  <2> QED
    BY <2>1
<1>5. PICK t \in T : \A u \in T : t <= u
  BY <1>4, LeastNatural
<1>6. PICK a \in mine : t = MaxPdDay - At(a)
  BY <1>5
<1>7. \A i \in mine : At(i) <= At(a)
  <2> SUFFICES ASSUME NEW i \in mine PROVE At(i) <= At(a)
    OBVIOUS
  <2>1. MaxPdDay - At(a) <= MaxPdDay - At(i)
    BY <1>5, <1>6
  <2>2. At(i) \in Int /\ At(a) \in Int
    BY <1>1
  <2> HIDE DEF At
  <2> QED
    BY <1>3, <2>1, <2>2
<1> DEFINE Newest == {i \in mine : At(i) = At(a)}
<1>8. Newest \in SUBSET Nat /\ Newest # {}
  BY <1>1
<1>9. PICK k \in Newest : \A i \in Newest : k <= i
  BY <1>8, LeastNatural
<1>10. k \in mine /\ At(k) = At(a)
  BY <1>9
<1> HIDE DEF At, mine, T
<1>11. \A j \in mine \ {k} : Later(k, j)
  <2> SUFFICES ASSUME NEW j \in mine, j # k PROVE Later(k, j)
    OBVIOUS
  <2>1. At(j) \in Int /\ At(k) \in Int /\ At(j) <= At(k) /\ j \in Nat /\ k \in Nat
    BY <1>1, <1>7, <1>10
  <2>2. At(j) = At(k) => k <= j
    BY <1>9, <1>10
  <2>3. CASE At(j) = At(k)
    <3>1. k <= j
      BY <2>2, <2>3
    <3>2. k < j
      BY <2>1, <3>1
    <3> QED
      BY <2>3, <3>2
  <2>4. CASE At(j) # At(k)
    <3>1. At(k) > At(j)
      BY <2>1, <2>4
    <3> QED
      BY <3>1
  <2> QED
    BY <2>3, <2>4
<1>12. \A i \in mine : (\A j \in mine \ {i} : Later(i, j)) => i = k
  <2> SUFFICES ASSUME NEW i \in mine, \A j \in mine \ {i} : Later(i, j), i # k PROVE FALSE
    OBVIOUS
  <2>1. Later(i, k) /\ Later(k, i)
    BY <1>10, <1>11
  <2>2. At(i) \in Int /\ At(k) \in Int /\ i \in Nat /\ k \in Nat
    BY <1>1, <1>10
  <2> QED
    BY <2>1, <2>2
<1>13. {i \in mine : \A j \in mine \ {i} : Later(i, j)} = {k}
  <2> HIDE DEF Later
  <2> QED
    BY <1>10, <1>11, <1>12
<1>14. SelectedOutcome(p) = {pdOutcomes[k]}
  BY <1>2, <1>13
<1>15. \A i \in mine : At(k) >= At(i)
  BY <1>1, <1>7, <1>10
<1> QED
  BY <1>10, <1>14, <1>15 DEF mine, At


LEMMA ReportCounts ==
  ASSUME PdInv
  PROVE  LET values == UNION {SelectedOutcome(p) : p \in ToSet(pdPredictions)}
             done == {p \in ToSet(pdPredictions) : OutcomesOf(p) # {}}
         IN /\ IsFiniteSet(values) /\ Cardinality(values) = Cardinality(done)
            /\ \A o \in values : o.origin \in PdOrigin
<1> DEFINE all == ToSet(pdPredictions)
           values == UNION {SelectedOutcome(p) : p \in all}
           done == {p \in all : OutcomesOf(p) # {}}
<1>1. /\ pdPredictions \in Seq(PdDraft)
      /\ \A i, j \in DOMAIN pdPredictions : pdPredictions[i].id = pdPredictions[j].id => i = j
  BY DEF PdInv, PdTypes, PdPublished
<1>2. \A p, q \in all : p.id = q.id => p = q
  BY <1>1 DEF ToSet
<1>3. IsFiniteSet(done)
  <2> DEFINE D == DOMAIN pdPredictions
             g == [i \in D |-> pdPredictions[i]]
  <2>1. IsFiniteSet(D)
    <3>1. D = 1..Len(pdPredictions) /\ Len(pdPredictions) \in Nat
      BY <1>1
    <3>2. IsFiniteSet(1..Len(pdPredictions))
      BY <3>1, FS_Interval
    <3> QED
      BY <3>1, <3>2
  <2>2. g \in [D -> all] /\ \A p \in all : \E i \in D : g[i] = p
    BY DEF ToSet
  <2> HIDE DEF g, D, all
  <2>3. g \in Surjection(D, all)
    BY <2>2 DEF Surjection
  <2>4. IsFiniteSet(all)
    BY <2>1, <2>3, FS_Surjection
  <2> QED
    BY <2>4, FS_Subset
<1>4. ASSUME NEW p \in done
      PROVE  \E o : /\ SelectedOutcome(p) = {o} /\ o.prediction = p.id /\ o.origin \in PdOrigin
  <2>1. PICK k \in OutcomesOf(p) : SelectedOutcome(p) = {pdOutcomes[k]}
    BY <1>4, OneOutcomeStands
  <2>2. pdOutcomes[k].prediction = p.id /\ pdOutcomes[k].origin \in PdOrigin
    BY OutcomeTimes DEF OutcomesOf
  <2> QED
    BY <2>1, <2>2
<1>5. ASSUME NEW p \in all, p \notin done PROVE SelectedOutcome(p) = {}
  <2>1. OutcomesOf(p) = {}
    BY <1>5
  <2> QED
    BY <2>1 DEF SelectedOutcome
<1> DEFINE g == [p \in done |-> CHOOSE o : o \in SelectedOutcome(p)]
<1>6. ASSUME NEW p \in done
      PROVE  SelectedOutcome(p) = {g[p]} /\ g[p].prediction = p.id /\ g[p].origin \in PdOrigin
  <2>1. PICK o : SelectedOutcome(p) = {o} /\ o.prediction = p.id /\ o.origin \in PdOrigin
    BY <1>4, <1>6
  <2>2. g[p] = CHOOSE x : x \in SelectedOutcome(p)
    BY <1>6
  <2>3. g[p] = o
    BY <2>1, <2>2
  <2> HIDE DEF g
  <2> QED
    BY <2>1, <2>3
<1>7. \A o : o \in values <=> \E p \in done : o = g[p]
  <2> HIDE DEF g
  <2>1. ASSUME NEW o \in values PROVE \E p \in done : o = g[p]
    <3>1. PICK p \in all : o \in SelectedOutcome(p)
      BY <2>1
    <3>2. p \in done
      BY <1>5, <3>1
    <3> QED
      BY <1>6, <3>1, <3>2
  <2>2. ASSUME NEW p \in done PROVE g[p] \in values
    <3>1. g[p] \in SelectedOutcome(p) /\ p \in all
      BY <1>6, <2>2
    <3> QED
      BY <3>1
  <2> HIDE DEF values, done
  <2> QED
    BY <2>1, <2>2
<1>8. DOMAIN g = done /\ g = [p \in done |-> g[p]]
  OBVIOUS
<1> HIDE DEF g, values
<1>9. g \in Injection(done, values) /\ g \in Surjection(done, values)
  <2>1. g \in [done -> values]
    BY <1>7, <1>8
  <2>2. \A a, b \in done : g[a] = g[b] => a = b
    BY <1>2, <1>6
  <2>3. \A o \in values : \E p \in done : g[p] = o
    BY <1>7
  <2> HIDE DEF done
  <2> QED
    BY <2>1, <2>2, <2>3 DEF Injection, IsInjective, Surjection
<1>10. IsFiniteSet(values) /\ Cardinality(values) = Cardinality(done)
  <2> HIDE DEF done
  <2> QED
    BY <1>3, <1>9, FS_Surjection
<1>11. \A o \in values : o.origin \in PdOrigin
  BY <1>6, <1>7
<1> QED
  BY <1>10, <1>11 DEF values

(* Outcomes neither look ahead nor are counted twice, and the hash chain     *)
(* commits to every list in the order it was appended                       *)
(* (OutcomeEvaluator.evaluate and report, MemoryPredictionLedger).           *)
THEOREM PredictionsAccountedFor == PdSpec => []PredictionsAreAccountedFor
<1>1. PdInv => NoLookAhead
  <2> SUFFICES ASSUME PdInv, NEW i \in DOMAIN pdOutcomes
               PROVE  \E p \in ToSet(pdPredictions) : Foreseen(pdOutcomes[i], p)
    BY DEF NoLookAhead, Foreseen
  <2>1. PICK k \in DOMAIN pdPredictions : Foreseen(pdOutcomes[i], pdPredictions[k])
    BY DEF PdInv, PdForeseen
  <2>2. pdPredictions[k] \in ToSet(pdPredictions)
    BY DEF ToSet
  <2> QED
    BY <2>1, <2>2
<1>2. PdInv => ReportsCountOnce
  <2> SUFFICES ASSUME PdInv PROVE ReportsCountOnce
    OBVIOUS
  <2> DEFINE values == UNION {SelectedOutcome(p) : p \in ToSet(pdPredictions)}
             forward == {o \in values : o.origin = "forward"}
             rebuilt == {o \in values : o.origin = "reconstructed"}
             done == {p \in ToSet(pdPredictions) : OutcomesOf(p) # {}}
  <2>1. /\ EvaluationReport.evaluated = Cardinality(values)
        /\ EvaluationReport.forward = Cardinality(forward)
        /\ EvaluationReport.reconstructed = Cardinality(rebuilt)
        /\ EvaluationReport.mean = ForwardAvailable(values)
    BY DEF EvaluationReport
  <2>2. /\ IsFiniteSet(values) /\ Cardinality(values) = Cardinality(done)
        /\ \A o \in values : o.origin \in PdOrigin
    BY ReportCounts
  <2>3. Cardinality(values) = Cardinality(forward) + Cardinality(rebuilt)
    <3> HIDE DEF values
    <3>1. values = forward \cup rebuilt /\ forward \cap rebuilt = {}
      BY <2>2 DEF PdOrigin
    <3>2. IsFiniteSet(forward) /\ IsFiniteSet(rebuilt)
      BY <2>2, FS_Subset
    <3> HIDE DEF forward, rebuilt
    <3> QED
      BY <3>1, <3>2, SizeOfTwoParts
  <2>4. {p \in ToSet(pdPredictions) : OutcomeJob(p, MaxPdDay).status = "completed"} = done
    <3> SUFFICES ASSUME NEW p \in ToSet(pdPredictions)
                 PROVE  OutcomeJob(p, MaxPdDay).status = "completed" <=> OutcomesOf(p) # {}
      OBVIOUS
    <3>1. OutcomeJob(p, MaxPdDay).status
            = IF OutcomesOf(p) # {} THEN "completed" ELSE IF MaxPdDay < p.due THEN "not due" ELSE "ready"
      BY DEF OutcomeJob
    <3> QED
      BY <3>1
  <2>5. \A o \in ForwardAvailable(values) : o.origin = "forward" /\ o.assessment # "unavailable"
    BY DEF ForwardAvailable
  <2>6. ASSUME NEW i \in DOMAIN pdOutcomes
        PROVE  \E p \in ToSet(pdPredictions) :
                 /\ pdOutcomes[i].prediction = p.id
                 /\ \E o \in SelectedOutcome(p) : o.appended >= pdOutcomes[i].appended
    <3>1. PICK j \in DOMAIN pdPredictions : Foreseen(pdOutcomes[i], pdPredictions[j])
      BY <2>6 DEF PdInv, PdForeseen
    <3> DEFINE p == pdPredictions[j]
    <3>2. p \in ToSet(pdPredictions) /\ pdOutcomes[i].prediction = p.id
      BY <3>1 DEF ToSet, Foreseen
    <3>3. i \in OutcomesOf(p)
      BY <2>6, <3>2 DEF OutcomesOf
    <3>4. PICK k \in OutcomesOf(p) : /\ SelectedOutcome(p) = {pdOutcomes[k]}
                                     /\ \A h \in OutcomesOf(p) : pdOutcomes[k].appended >= pdOutcomes[h].appended
      BY <3>3, OneOutcomeStands
    <3> QED
      BY <3>2, <3>3, <3>4
  <2> HIDE DEF values, forward, rebuilt, done
  <2>7. EvaluationReport.evaluated = Cardinality({p \in ToSet(pdPredictions) : OutcomeJob(p, MaxPdDay).status = "completed"})
    BY <2>1, <2>2, <2>4
  <2> QED
    BY <2>1, <2>3, <2>5, <2>6, <2>7 DEF ReportsCountOnce
<1>3. PdInv => ChainCommitsToLists
  <2> SUFFICES ASSUME PdInv, NEW k \in {<<"prediction", pdPredictions>>, <<"correction", pdCorrections>>,
                                        <<"outcome", pdOutcomes>>}
               PROVE  Commits(pdChain, k[1], k[2])
    BY DEF ChainCommitsToLists, Commits, Entries
  <2> QED
    BY DEF PdInv, PdChained
<1>4. PdInv => PredictionsAreAccountedFor
  BY <1>1, <1>2, <1>3 DEF PredictionsAreAccountedFor
<1> QED
  BY <1>4, PdInductive, PTL


-----------------------------------------------------------------------------
(* Contradiction receipts: for every horizon, every bound on the numbers and *)
(* every limit on attempts and crashes.                                      *)

(* Where a receipt comes from: a request of the filing's producer, made at   *)
(* the cutoff the receipt records, in time for it.                           *)
ReceiptsAreProduced ==
  \A r \in cvReceipts :
    /\ r.cutoff \in 1..cvDay
    /\ \E q \in ProducerRequests(cvFiling, r.cutoff) :
         r = CvReceipt(q, r.cutoff) /\ ReceiptIsInTime(q, r.cutoff)

(* What the attempt has still to persist; the rest is in the ledger.         *)
JobIsAccounted ==
  /\ cvJob = [status |-> cvJob.status, attempts |-> cvJob.attempts, cutoff |-> cvJob.cutoff,
              requests |-> cvJob.requests]
  /\ cvJob.status = "working" => cvJob.attempts < CvAttemptLimit
  /\ cvJob.status \in {"working", "completed"} =>
       /\ cvJob.requests \subseteq ProducerRequests(cvFiling, cvJob.cutoff)
       /\ \A q \in ProducerRequests(cvFiling, cvJob.cutoff) \ cvJob.requests :
            CvReceipt(q, cvJob.cutoff) \in cvReceipts
  /\ cvJob.status = "completed" => cvJob.requests = {}

AssessmentIsEvaluated ==
  /\ cvAssessed.facts \in DilutionFacts
  /\ cvAssessed.result = EvaluateDilution(cvAssessed.facts, TRUE)

CvInv == ConvergenceTypeOK /\ ReceiptsAreProduced /\ JobIsAccounted /\ AssessmentIsEvaluated

LEMMA ConvergenceConstants ==
  /\ MaxCvDay \in Nat /\ MaxCvDay >= 1 /\ CvShares \in Nat
  /\ CvAttemptLimit \in Nat /\ CvAttemptLimit >= 1 /\ MaxCvCrash \in Nat
BY ConvergenceAssumption

LEMMA NoFactsAreDilutionFacts ==
  {} \in DilutionFacts /\ EvaluateDilution({}, TRUE) = CvInsufficient
<1>1. {} \in DilutionFacts
  <2> DEFINE Optional(kind, days) == {{}} \cup {{CvFact(kind, v, d)} : v \in 0..1, d \in days}
  <2>1. \A kind, days : {} \in Optional(kind, days)
    OBVIOUS
  <2>2. {} = {} \cup {} \cup {} \cup {} \cup {}
    OBVIOUS
  <2>3. DilutionFacts =
          {p \cup c \cup r \cup i \cup n :
             p \in Optional("PRIOR", 1..2), c \in Optional("CURRENT", {2}),
             r \in Optional("REGISTERED", {1}), i \in Optional("ISSUABLE", {1}),
             n \in Optional("INSTRUMENTS", {1})}
    BY DEF DilutionFacts
  <2> HIDE DEF Optional
  <2> QED
    BY <2>1, <2>2, <2>3
<1>2. EvaluateDilution({}, TRUE) = CvInsufficient
  BY DEF EvaluateDilution, Has, Positive
<1> QED
  BY <1>1, <1>2

LEMMA CvInvInit == ConvergenceInit => CvInv
<1> SUFFICES ASSUME ConvergenceInit PROVE CvInv
  OBVIOUS
<1>1. /\ cvJob.status = "queued" /\ cvJob.attempts = 0 /\ cvJob.cutoff = 1 /\ cvJob.requests = {}
      /\ cvJob = [status |-> cvJob.status, attempts |-> cvJob.attempts, cutoff |-> cvJob.cutoff,
                  requests |-> cvJob.requests]
  BY DEF ConvergenceInit
<1>2. ConvergenceTypeOK
  <2>1. cvFiling \in CvFilings /\ cvDay = 1 /\ cvCrashes = 0
    BY DEF ConvergenceInit
  <2>2. 1 \in CvDay /\ 1 \in 1..1 /\ 0 \in 0..CvAttemptLimit /\ 0 \in 0..MaxCvCrash
    BY ConvergenceConstants DEF CvDay
  <2> QED
    BY <1>1, <2>1, <2>2 DEF ConvergenceTypeOK
<1>3. ReceiptsAreProduced
  <2>1. cvReceipts = {}
    BY DEF ConvergenceInit
  <2> QED
    BY <2>1 DEF ReceiptsAreProduced
<1>4. JobIsAccounted
  BY <1>1 DEF JobIsAccounted
<1>5. AssessmentIsEvaluated
  <2>1. cvAssessed.facts = {} /\ cvAssessed.result = CvInsufficient
    BY DEF ConvergenceInit, CvNoAssessment
  <2> QED
    BY <2>1, NoFactsAreDilutionFacts DEF AssessmentIsEvaluated
<1> QED
  BY <1>2, <1>3, <1>4, <1>5 DEF CvInv

(* The job of a failed attempt.                                              *)
LEMMA FailedJob ==
  ASSUME CvInv, cvJob.status = "working"
  PROVE  /\ CvFailed.status \in {"queued", "failed"} /\ CvFailed.requests = {}
         /\ CvFailed.attempts \in 0..CvAttemptLimit /\ CvFailed.cutoff = cvJob.cutoff
         /\ CvFailed = [status |-> CvFailed.status, attempts |-> CvFailed.attempts,
                        cutoff |-> CvFailed.cutoff, requests |-> CvFailed.requests]
<1>1. cvJob = [status |-> cvJob.status, attempts |-> cvJob.attempts, cutoff |-> cvJob.cutoff,
               requests |-> cvJob.requests]
  BY DEF CvInv, JobIsAccounted
<1>2. /\ CvFailed.status = IF cvJob.attempts + 1 >= CvAttemptLimit THEN "failed" ELSE "queued"
      /\ CvFailed.attempts = cvJob.attempts + 1
      /\ CvFailed.requests = {} /\ CvFailed.cutoff = cvJob.cutoff
      /\ CvFailed = [status |-> CvFailed.status, attempts |-> CvFailed.attempts,
                     cutoff |-> CvFailed.cutoff, requests |-> CvFailed.requests]
  <2>1. PICK a, c, e, d : cvJob = [status |-> d, attempts |-> a, cutoff |-> c, requests |-> e]
    BY <1>1
  <2>2. cvJob.attempts = a /\ cvJob.cutoff = c
    BY <2>1
  <2> DEFINE n == IF cvJob.attempts + 1 >= CvAttemptLimit THEN "failed" ELSE "queued"
             m == cvJob.attempts + 1
  <2>3. CvFailed = [cvJob EXCEPT !.attempts = m, !.requests = {}, !.status = n]
    BY DEF CvFailed
  <2> HIDE DEF n, m
  <2>4. CvFailed = [status |-> n, attempts |-> m, cutoff |-> c, requests |-> {}]
    BY <2>1, <2>3
  <2>5. /\ CvFailed.status = n /\ CvFailed.attempts = m
        /\ CvFailed.requests = {} /\ CvFailed.cutoff = cvJob.cutoff
        /\ CvFailed = [status |-> CvFailed.status, attempts |-> CvFailed.attempts,
                       cutoff |-> CvFailed.cutoff, requests |-> CvFailed.requests]
    BY <2>2, <2>4
  <2> QED
    BY <2>5 DEF n, m
<1>3. cvJob.attempts \in 0..CvAttemptLimit /\ cvJob.attempts < CvAttemptLimit
  BY DEF CvInv, ConvergenceTypeOK, JobIsAccounted
<1>4. cvJob.attempts + 1 \in 0..CvAttemptLimit
  BY <1>3, ConvergenceConstants
<1> QED
  BY <1>2, <1>4

LEMMA CvInvStep == CvInv /\ [ConvergenceNext]_convergenceVars => CvInv'
<1> SUFFICES ASSUME CvInv, [ConvergenceNext]_convergenceVars PROVE CvInv'
  OBVIOUS
<1>1. /\ cvFiling \in CvFilings /\ cvDay \in CvDay /\ cvJob.cutoff \in 1..cvDay
      /\ cvJob.status \in {"queued", "working", "completed", "failed"}
      /\ cvJob.attempts \in 0..CvAttemptLimit /\ cvCrashes \in 0..MaxCvCrash
  BY DEF CvInv, ConvergenceTypeOK
<1>2. ReceiptsAreProduced /\ JobIsAccounted /\ AssessmentIsEvaluated
  BY DEF CvInv
<1>3. cvDay \in Nat /\ cvDay >= 1 /\ cvDay \in 1..cvDay
  BY <1>1, ConvergenceConstants DEF CvDay
<1>4. cvJob = [status |-> cvJob.status, attempts |-> cvJob.attempts, cutoff |-> cvJob.cutoff,
               requests |-> cvJob.requests]
  BY <1>2 DEF JobIsAccounted
<1>5. CASE CvProduce
  <2>1. /\ cvJob'.status = "working" /\ cvJob'.attempts = cvJob.attempts /\ cvJob'.cutoff = cvDay
        /\ cvJob'.requests = ProducerRequests(cvFiling, cvDay)
        /\ cvJob' = [status |-> cvJob'.status, attempts |-> cvJob'.attempts, cutoff |-> cvJob'.cutoff,
                     requests |-> cvJob'.requests]
        /\ cvJob.attempts < CvAttemptLimit
        /\ UNCHANGED <<cvFiling, cvDay, cvReceipts, cvCrashes, cvAssessed>>
    BY <1>5 DEF CvProduce
  <2>2. ConvergenceTypeOK'
    BY <1>1, <1>3, <2>1 DEF ConvergenceTypeOK
  <2>3. ReceiptsAreProduced'
    BY <1>2, <2>1 DEF ReceiptsAreProduced
  <2>4. JobIsAccounted'
    BY <2>1 DEF JobIsAccounted
  <2>5. AssessmentIsEvaluated'
    BY <1>2, <2>1 DEF AssessmentIsEvaluated
  <2> QED
    BY <2>2, <2>3, <2>4, <2>5 DEF CvInv
<1>6. CASE CvPersist
  <2>1. PICK q \in cvJob.requests :
          /\ CvAdmitted(q, cvJob.cutoff)
          /\ cvReceipts' = cvReceipts \cup {CvReceipt(q, cvJob.cutoff)}
          /\ cvJob' = [cvJob EXCEPT !.requests = @ \ {q}]
    BY <1>6 DEF CvPersist
  <2>2. /\ cvJob.status = "working"
        /\ UNCHANGED <<cvFiling, cvDay, cvCrashes, cvAssessed>>
    BY <1>6 DEF CvPersist
  <2>3. /\ cvJob'.status = "working" /\ cvJob'.attempts = cvJob.attempts
        /\ cvJob'.cutoff = cvJob.cutoff /\ cvJob'.requests = cvJob.requests \ {q}
        /\ cvJob' = [status |-> cvJob'.status, attempts |-> cvJob'.attempts, cutoff |-> cvJob'.cutoff,
                     requests |-> cvJob'.requests]
    BY <1>4, <2>1, <2>2
  <2>4. /\ cvJob.attempts < CvAttemptLimit
        /\ cvJob.requests \subseteq ProducerRequests(cvFiling, cvJob.cutoff)
        /\ \A p \in ProducerRequests(cvFiling, cvJob.cutoff) \ cvJob.requests :
             CvReceipt(p, cvJob.cutoff) \in cvReceipts
    BY <1>2, <2>2 DEF JobIsAccounted
  <2>5. ConvergenceTypeOK'
    BY <1>1, <2>2, <2>3 DEF ConvergenceTypeOK
  <2>6. ReceiptsAreProduced'
    <3>1. CvReceipt(q, cvJob.cutoff).cutoff = cvJob.cutoff
      BY DEF CvReceipt
    <3>2. ReceiptIsInTime(q, cvJob.cutoff)
      BY <2>1 DEF CvAdmitted
    <3> QED
      BY <1>1, <1>2, <2>1, <2>2, <2>4, <3>1, <3>2 DEF ReceiptsAreProduced
  <2>7. JobIsAccounted'
    BY <2>1, <2>2, <2>3, <2>4 DEF JobIsAccounted
  <2>8. AssessmentIsEvaluated'
    BY <1>2, <2>2 DEF AssessmentIsEvaluated
  <2> QED
    BY <2>5, <2>6, <2>7, <2>8 DEF CvInv
<1>7. CASE CvRefused \/ CvPersistenceFails
  <2>1. /\ cvJob.status = "working" /\ cvJob' = CvFailed
        /\ UNCHANGED <<cvFiling, cvDay, cvReceipts, cvCrashes, cvAssessed>>
    BY <1>7 DEF CvRefused, CvPersistenceFails
  <2>2. /\ cvJob'.status \in {"queued", "failed"} /\ cvJob'.requests = {}
        /\ cvJob'.attempts \in 0..CvAttemptLimit /\ cvJob'.cutoff = cvJob.cutoff
        /\ cvJob' = [status |-> cvJob'.status, attempts |-> cvJob'.attempts,
                     cutoff |-> cvJob'.cutoff, requests |-> cvJob'.requests]
    BY <2>1, FailedJob
  <2>3. ConvergenceTypeOK'
    BY <1>1, <2>1, <2>2 DEF ConvergenceTypeOK
  <2>4. ReceiptsAreProduced'
    BY <1>2, <2>1 DEF ReceiptsAreProduced
  <2>5. JobIsAccounted'
    BY <2>2 DEF JobIsAccounted
  <2>6. AssessmentIsEvaluated'
    BY <1>2, <2>1 DEF AssessmentIsEvaluated
  <2> QED
    BY <2>3, <2>4, <2>5, <2>6 DEF CvInv
<1>8. CASE CvComplete
  <2>1. /\ cvJob.status = "working" /\ cvJob.requests = {}
        /\ cvJob' = [cvJob EXCEPT !.status = "completed"]
        /\ UNCHANGED <<cvFiling, cvDay, cvReceipts, cvCrashes, cvAssessed>>
    BY <1>8 DEF CvComplete, AllPersisted
  <2>2. /\ cvJob'.status = "completed" /\ cvJob'.requests = {}
        /\ cvJob'.attempts = cvJob.attempts /\ cvJob'.cutoff = cvJob.cutoff
        /\ cvJob' = [status |-> cvJob'.status, attempts |-> cvJob'.attempts,
                     cutoff |-> cvJob'.cutoff, requests |-> cvJob'.requests]
    BY <1>4, <2>1
  <2>3. ConvergenceTypeOK'
    BY <1>1, <2>1, <2>2 DEF ConvergenceTypeOK
  <2>4. ReceiptsAreProduced'
    BY <1>2, <2>1 DEF ReceiptsAreProduced
  <2>5. \A q \in ProducerRequests(cvFiling, cvJob.cutoff) \ cvJob.requests :
          CvReceipt(q, cvJob.cutoff) \in cvReceipts
    BY <1>2, <2>1 DEF JobIsAccounted
  <2>6. JobIsAccounted'
    BY <2>1, <2>2, <2>5 DEF JobIsAccounted
  <2>7. AssessmentIsEvaluated'
    BY <1>2, <2>1 DEF AssessmentIsEvaluated
  <2> QED
    BY <2>3, <2>4, <2>6, <2>7 DEF CvInv
<1>9. CASE CvCrash
  <2>1. /\ cvCrashes < MaxCvCrash /\ cvCrashes' = cvCrashes + 1
        /\ cvJob' = [cvJob EXCEPT !.status = "queued", !.requests = {}]
        /\ UNCHANGED <<cvFiling, cvDay, cvReceipts, cvAssessed>>
    BY <1>9 DEF CvCrash
  <2>2. /\ cvJob'.status = "queued" /\ cvJob'.requests = {}
        /\ cvJob'.attempts = cvJob.attempts /\ cvJob'.cutoff = cvJob.cutoff
        /\ cvJob' = [status |-> cvJob'.status, attempts |-> cvJob'.attempts,
                     cutoff |-> cvJob'.cutoff, requests |-> cvJob'.requests]
    BY <1>4, <2>1
  <2>3. cvCrashes' \in 0..MaxCvCrash
    BY <1>1, <2>1, ConvergenceConstants
  <2>4. ConvergenceTypeOK'
    BY <1>1, <2>1, <2>2, <2>3 DEF ConvergenceTypeOK
  <2>5. ReceiptsAreProduced'
    BY <1>2, <2>1 DEF ReceiptsAreProduced
  <2>6. JobIsAccounted'
    BY <2>2 DEF JobIsAccounted
  <2>7. AssessmentIsEvaluated'
    BY <1>2, <2>1 DEF AssessmentIsEvaluated
  <2> QED
    BY <2>4, <2>5, <2>6, <2>7 DEF CvInv
<1>10. CASE CvMidnight
  <2>1. /\ cvDay < MaxCvDay /\ cvDay' = cvDay + 1
        /\ UNCHANGED <<cvFiling, cvJob, cvReceipts, cvCrashes, cvAssessed>>
    BY <1>10 DEF CvMidnight
  <2>2. cvDay' \in CvDay /\ 1..cvDay \subseteq 1..cvDay'
    BY <1>1, <1>3, <2>1, ConvergenceConstants DEF CvDay
  <2>3. ConvergenceTypeOK'
    BY <1>1, <2>1, <2>2 DEF ConvergenceTypeOK
  <2>4. ReceiptsAreProduced'
    BY <1>2, <2>1, <2>2 DEF ReceiptsAreProduced
  <2>5. JobIsAccounted'
    BY <1>2, <2>1 DEF JobIsAccounted
  <2>6. AssessmentIsEvaluated'
    BY <1>2, <2>1 DEF AssessmentIsEvaluated
  <2> QED
    BY <2>3, <2>4, <2>5, <2>6 DEF CvInv
<1>11. CASE \E facts \in DilutionFacts : CvAssess(facts)
  <2>1. PICK facts \in DilutionFacts : CvAssess(facts)
    BY <1>11
  <2>2. /\ cvAssessed'.facts = facts /\ cvAssessed'.result = EvaluateDilution(facts, TRUE)
        /\ UNCHANGED <<cvFiling, cvDay, cvJob, cvReceipts, cvCrashes>>
    BY <2>1 DEF CvAssess
  <2>3. ConvergenceTypeOK'
    BY <1>1, <2>2 DEF ConvergenceTypeOK
  <2>4. ReceiptsAreProduced'
    BY <1>2, <2>2 DEF ReceiptsAreProduced
  <2>5. JobIsAccounted'
    BY <1>2, <2>2 DEF JobIsAccounted
  <2>6. AssessmentIsEvaluated'
    BY <2>2 DEF AssessmentIsEvaluated
  <2> QED
    BY <2>3, <2>4, <2>5, <2>6 DEF CvInv
<1>12. CASE UNCHANGED convergenceVars
  <2>1. UNCHANGED <<cvFiling, cvDay, cvJob, cvReceipts, cvCrashes, cvAssessed>>
    BY <1>12 DEF convergenceVars
  <2>2. ConvergenceTypeOK'
    BY <1>1, <2>1 DEF ConvergenceTypeOK
  <2>3. ReceiptsAreProduced'
    BY <1>2, <2>1 DEF ReceiptsAreProduced
  <2>4. JobIsAccounted'
    BY <1>2, <2>1 DEF JobIsAccounted
  <2>5. AssessmentIsEvaluated'
    BY <1>2, <2>1 DEF AssessmentIsEvaluated
  <2> QED
    BY <2>2, <2>3, <2>4, <2>5 DEF CvInv
<1> QED
  BY <1>5, <1>6, <1>7, <1>8, <1>9, <1>10, <1>11, <1>12 DEF ConvergenceNext

LEMMA CvInductive == ConvergenceSpec => []CvInv
BY CvInvInit, CvInvStep, PTL DEF ConvergenceSpec

(* The convergence job's status, day, attempts and crashes keep their types. *)
THEOREM ConvergenceTypeCorrect == ConvergenceSpec => []ConvergenceTypeOK
<1>1. CvInv => ConvergenceTypeOK
  BY DEF CvInv
<1> QED
  BY <1>1, CvInductive, PTL


-----------------------------------------------------------------------------
(* What the requests of a filing have in common *)

LEMMA ReceiptFields ==
  ASSUME NEW q, NEW cutoff
  PROVE  /\ CvReceipt(q, cutoff).claim = q.claim /\ CvReceipt(q, cutoff).facts = q.facts
         /\ CvReceipt(q, cutoff).cutoff = cutoff
         /\ CvReceipt(q, cutoff).disposition = CvEvaluate(q.claim, q.facts).disposition
BY DEF CvReceipt

LEMMA FilingSources ==
  ASSUME NEW filing \in CvFilings
  PROVE  filing.source \in {"financing", "section_16", "form_144", "schedule_13", "xbrl"}
BY DEF CvFilings

LEMMA FilingTrades ==
  ASSUME NEW filing \in CvFilings, filing.source = "section_16"
  PROVE  IsFiniteSet(filing.trades) /\ filing.trades \subseteq CvTrade
<1>1. filing.trades \in AtMost(2, CvTrade)
  BY DEF CvFilings
<1>2. \/ filing.trades = {}
      \/ \E x \in CvTrade : filing.trades = {x}
      \/ \E x, y \in CvTrade : filing.trades = {x, y}
  BY <1>1 DEF AtMost
<1>3. CASE filing.trades = {}
  BY <1>3, FS_EmptySet
<1>4. CASE \E x \in CvTrade : filing.trades = {x}
  BY <1>4, FS_Singleton
<1>5. CASE \E x, y \in CvTrade : filing.trades = {x, y}
  <2>1. PICK x \in CvTrade, y \in CvTrade : filing.trades = {x, y}
    BY <1>5
  <2>2. IsFiniteSet({x}) /\ {x, y} = {x} \cup {y}
    BY FS_Singleton
  <2>3. IsFiniteSet({x} \cup {y})
    BY <2>2, FS_AddElement
  <2> QED
    BY <2>1, <2>2, <2>3
<1> QED
  BY <1>2, <1>3, <1>4, <1>5

(* The facts of a liquidity request, from the XBRL facts in sight.           *)
LiquidityFacts(known) ==
  LET latest == Max({x.period : x \in known}) IN
  {CvFact("CASH", x.value, latest) : x \in {y \in known : y.period = latest /\ y.tag # "liabilities"}}
    \cup {CvFact("CURRENT_LIABILITIES", x.value, latest) :
            x \in {y \in known : y.period = latest /\ y.tag = "liabilities"}}

LEMMA LiquidityRequest ==
  ASSUME NEW filing, NEW cutoff, NEW q \in XbrlRequests(filing, cutoff)
  PROVE  \E known : /\ q.claim.basis = known /\ q.facts = LiquidityFacts(known)
                    /\ q.claim.day = Max({x.period : x \in known})
<1> DEFINE known == {x \in filing.facts : x.available <= cutoff}
           latest == Max({x.period : x \in known})
           facts == LiquidityFacts(known)
<1>1. q = CvRequest(CvClaim("CASH_AT_LEAST_CURRENT_LIABILITIES", TRUE, "xbrl", latest, known),
                    facts, "REQUIRED_FACTS_COMPLETE")
  BY DEF XbrlRequests, Manifest, LiquidityFacts
<1> HIDE DEF known, latest, facts
<1>2. q.claim.basis = known /\ q.facts = facts /\ q.claim.day = latest
  BY <1>1 DEF CvRequest, CvClaim
<1> QED
  BY <1>2 DEF facts, latest

LEMMA LiquidityDays ==
  ASSUME NEW known, NEW f \in LiquidityFacts(known)
  PROVE  f.day = Max({x.period : x \in known})
<1> DEFINE latest == Max({x.period : x \in known})
<1>1. \E v : f = CvFact("CASH", v, latest) \/ f = CvFact("CURRENT_LIABILITIES", v, latest)
  BY DEF LiquidityFacts
<1> HIDE DEF latest
<1>2. f.day = latest
  BY <1>1 DEF CvFact
<1> QED
  BY <1>2 DEF latest

(* The request of an insider claim is that of its scope.                     *)
TradeRequest(trades, scope) ==
  CvRequest(CvClaim("NET_INSIDER_ACQUISITION", TRUE, scope, scope[1], {}),
            {CvFact("ACQUIRED", Total(InScope(trades, scope), "A"), scope[1]),
             CvFact("DISPOSED", Total(InScope(trades, scope), "D"), scope[1])},
            "REQUIRED_FACTS_COMPLETE")

LEMMA TradeRequests ==
  ASSUME NEW filing, NEW q \in Section16Requests(filing)
  PROVE  \E x \in filing.trades : q = TradeRequest(filing.trades, <<x.day, x.derivative>>)
BY DEF Section16Requests, TradeRequest

(* Every fact of a request is of the day of its claim.                       *)
LEMMA FactsAreOfTheClaim ==
  ASSUME NEW filing \in CvFilings, NEW cutoff, NEW q \in ProducerRequests(filing, cutoff)
  PROVE  \A f \in q.facts : f.day = q.claim.day
<1>1. CASE filing.source = "financing"
  <2>1. q \in FinancingRequests(filing)
    BY <1>1 DEF ProducerRequests
  <2>2. PICK n : q = CvRequest(CvClaim("DILUTION_EXPOSURE_PRESENT", TRUE, "financing", 1, {}),
                               {CvFact("INSTRUMENTS", n, 1)}, "REQUIRED_FACTS_COMPLETE")
    BY <2>1 DEF FinancingRequests
  <2> QED
    BY <2>2 DEF CvRequest, CvClaim, CvFact
<1>2. CASE filing.source = "section_16"
  <2>1. q \in Section16Requests(filing)
    BY <1>2 DEF ProducerRequests
  <2>2. PICK scope : q = TradeRequest(filing.trades, scope)
    BY <2>1, TradeRequests
  <2>3. PICK a, d : q.facts = {CvFact("ACQUIRED", a, scope[1]), CvFact("DISPOSED", d, scope[1])}
    BY <2>2 DEF TradeRequest, CvRequest, CvClaim
  <2>4. q.claim.day = scope[1]
    BY <2>2 DEF TradeRequest, CvRequest, CvClaim
  <2> QED
    BY <2>3, <2>4 DEF CvFact
<1>3. CASE filing.source = "form_144"
  <2>1. q \in Form144Requests(filing)
    BY <1>3 DEF ProducerRequests
  <2> QED
    BY <2>1 DEF Form144Requests, CvRequest, CvClaim, CvFact
<1>4. CASE filing.source = "schedule_13"
  BY <1>4 DEF ProducerRequests
<1>5. CASE filing.source = "xbrl"
  <2>1. q \in XbrlRequests(filing, cutoff)
    BY <1>5 DEF ProducerRequests
  <2>2. PICK known : /\ q.facts = LiquidityFacts(known)
                     /\ q.claim.day = Max({x.period : x \in known})
    BY <2>1, LiquidityRequest, Zenon
  <2>3. \A f \in LiquidityFacts(known) : f.day = Max({x.period : x \in known})
    BY LiquidityDays, Zenon
  <2> QED
    BY <2>2, <2>3, Zenon
<1> QED
  BY <1>1, <1>2, <1>3, <1>4, <1>5, FilingSources

(* A claim determines the facts it is judged by, whatever the cutoff: for a  *)
(* liquidity claim because it names the facts that were in sight.            *)
LEMMA ClaimsDetermineFacts ==
  ASSUME NEW filing \in CvFilings, NEW c, NEW d, NEW q \in ProducerRequests(filing, c),
         NEW p \in ProducerRequests(filing, d), q.claim = p.claim
  PROVE  q.facts = p.facts
<1>1. CASE filing.source = "financing"
  <2>1. q \in FinancingRequests(filing) /\ p \in FinancingRequests(filing)
    BY <1>1 DEF ProducerRequests
  <2> QED
    BY <2>1 DEF FinancingRequests
<1>2. CASE filing.source = "section_16"
  <2>1. q \in Section16Requests(filing) /\ p \in Section16Requests(filing)
    BY <1>2 DEF ProducerRequests
  <2>2. PICK s : q = TradeRequest(filing.trades, s)
    BY <2>1, TradeRequests
  <2>3. PICK t : p = TradeRequest(filing.trades, t)
    BY <2>1, TradeRequests
  <2>4. q.claim.scope = s
    BY <2>2 DEF TradeRequest, CvRequest, CvClaim
  <2>5. p.claim.scope = t
    BY <2>3 DEF TradeRequest, CvRequest, CvClaim
  <2> QED
    BY <2>2, <2>3, <2>4, <2>5
<1>3. CASE filing.source = "form_144"
  <2>1. q \in Form144Requests(filing) /\ p \in Form144Requests(filing)
    BY <1>3 DEF ProducerRequests
  <2> QED
    BY <2>1 DEF Form144Requests
<1>4. CASE filing.source = "schedule_13"
  BY <1>4 DEF ProducerRequests
<1>5. CASE filing.source = "xbrl"
  <2>1. q \in XbrlRequests(filing, c) /\ p \in XbrlRequests(filing, d)
    BY <1>5 DEF ProducerRequests
  <2>2. \A x, y : x \in XbrlRequests(filing, y) => x.facts = LiquidityFacts(x.claim.basis)
    <3> SUFFICES ASSUME NEW x, NEW y, x \in XbrlRequests(filing, y)
                 PROVE  x.facts = LiquidityFacts(x.claim.basis)
      OBVIOUS
    <3>1. PICK k : x.claim.basis = k /\ x.facts = LiquidityFacts(k)
      BY ONLY x \in XbrlRequests(filing, y), LiquidityRequest, Zenon
    <3> QED
      BY <3>1
  <2>3. q.facts = LiquidityFacts(q.claim.basis) /\ p.facts = LiquidityFacts(p.claim.basis)
    BY <2>1, <2>2
  <2> QED
    BY <2>3
<1> QED
  BY <1>1, <1>2, <1>3, <1>4, <1>5, FilingSources

LEMMA ReceiptsAgree == CvInv => RetriedReceiptsAgree
<1> SUFFICES ASSUME CvInv, NEW r \in cvReceipts, NEW s \in cvReceipts
             PROVE  /\ r.claim = s.claim => r.disposition = s.disposition /\ r.facts = s.facts
                    /\ \A x \in r.facts : x.day <= r.cutoff
  BY DEF RetriedReceiptsAgree
<1>1. cvFiling \in CvFilings
  BY DEF CvInv, ConvergenceTypeOK
<1>2. PICK q \in ProducerRequests(cvFiling, r.cutoff) :
        r = CvReceipt(q, r.cutoff) /\ ReceiptIsInTime(q, r.cutoff)
  BY DEF CvInv, ReceiptsAreProduced
<1>3. PICK p \in ProducerRequests(cvFiling, s.cutoff) : s = CvReceipt(p, s.cutoff)
  BY DEF CvInv, ReceiptsAreProduced
<1>4. /\ r.claim = q.claim /\ r.facts = q.facts
      /\ r.disposition = CvEvaluate(q.claim, q.facts).disposition
  BY <1>2, ReceiptFields
<1>5. /\ s.claim = p.claim /\ s.facts = p.facts
      /\ s.disposition = CvEvaluate(p.claim, p.facts).disposition
  BY <1>3, ReceiptFields
<1>6. r.claim = s.claim => r.disposition = s.disposition /\ r.facts = s.facts
  <2> SUFFICES ASSUME r.claim = s.claim PROVE r.disposition = s.disposition /\ r.facts = s.facts
    OBVIOUS
  <2>1. q.claim = p.claim
    BY <1>4, <1>5
  <2>2. q.facts = p.facts
    BY <1>1, <2>1, ClaimsDetermineFacts
  <2> QED
    BY <1>4, <1>5, <2>1, <2>2
<1>7. \A x \in r.facts : x.day <= r.cutoff
  <2>1. \A x \in q.facts : x.day = q.claim.day
    BY <1>1, FactsAreOfTheClaim
  <2>2. q.claim.day <= r.cutoff
    BY <1>2 DEF ReceiptIsInTime
  <2> QED
    BY <1>4, <2>1, <2>2
<1> QED
  BY <1>6, <1>7

LEMMA CompletedJobs == CvInv => CompletedJobHasItsReceipts
<1> SUFFICES ASSUME CvInv PROVE CompletedJobHasItsReceipts
  OBVIOUS
<1>1. cvJob.status = "completed" =>
        \A request \in ProducerRequests(cvFiling, cvJob.cutoff) :
          \E r \in cvReceipts : r.claim = request.claim /\ r.cutoff = cvJob.cutoff
  <2> SUFFICES ASSUME cvJob.status = "completed",
                      NEW request \in ProducerRequests(cvFiling, cvJob.cutoff)
               PROVE  \E r \in cvReceipts : r.claim = request.claim /\ r.cutoff = cvJob.cutoff
    OBVIOUS
  <2>1. CvReceipt(request, cvJob.cutoff) \in cvReceipts
    BY DEF CvInv, JobIsAccounted
  <2> QED
    BY <2>1, ReceiptFields
<1>2. cvFiling.source = "schedule_13" => cvReceipts = {}
  <2> SUFFICES ASSUME cvFiling.source = "schedule_13", NEW r \in cvReceipts PROVE FALSE
    OBVIOUS
  <2>1. \E q : q \in ProducerRequests(cvFiling, r.cutoff)
    BY DEF CvInv, ReceiptsAreProduced
  <2> QED
    BY <2>1 DEF ProducerRequests
<1>3. cvFiling.source = "form_144" => \A r \in cvReceipts : r.disposition = "NOT_APPLICABLE"
  <2> SUFFICES ASSUME cvFiling.source = "form_144", NEW r \in cvReceipts
               PROVE  r.disposition = "NOT_APPLICABLE"
    OBVIOUS
  <2>1. PICK q \in ProducerRequests(cvFiling, r.cutoff) : r = CvReceipt(q, r.cutoff)
    BY DEF CvInv, ReceiptsAreProduced
  <2>2. q \in Form144Requests(cvFiling)
    BY <2>1 DEF ProducerRequests
  <2>3. PICK u, d : /\ q.claim = CvClaim("NET_INSIDER_ACQUISITION", FALSE, "planned-sale", d, {})
                    /\ q.facts = {CvFact("PLANNED_SALE", u, d)}
    <3>1. q = CvRequest(CvClaim("NET_INSIDER_ACQUISITION", FALSE, "planned-sale", cvFiling.saleDay, {}),
                        {CvFact("PLANNED_SALE", cvFiling.units, cvFiling.saleDay)},
                        "NOT_APPLICABLE_CONTEXT")
      BY <2>2 DEF Form144Requests
    <3>2. /\ q.claim = CvClaim("NET_INSIDER_ACQUISITION", FALSE, "planned-sale", cvFiling.saleDay, {})
          /\ q.facts = {CvFact("PLANNED_SALE", cvFiling.units, cvFiling.saleDay)}
      BY <3>1 DEF CvRequest
    <3> QED
      BY <3>2, Zenon
  <2>4. q.claim.predicate = "NET_INSIDER_ACQUISITION"
    BY <2>3 DEF CvClaim
  <2>5. ~Has(q.facts, "ACQUIRED") /\ ~Has(q.facts, "DISPOSED") /\ Has(q.facts, "PLANNED_SALE")
    BY <2>3 DEF Has, CvFact
  <2>6. CvEvaluate(q.claim, q.facts) = EvaluateInsider(q.facts, q.claim.asserted)
    BY <2>4 DEF CvEvaluate
  <2>7. EvaluateInsider(q.facts, q.claim.asserted) = CvResult("NOT_APPLICABLE", {})
    BY <2>5 DEF EvaluateInsider
  <2>8. r.disposition = CvEvaluate(q.claim, q.facts).disposition
    BY <2>1, ReceiptFields
  <2> QED
    BY <2>6, <2>7, <2>8 DEF CvResult
<1> QED
  BY <1>1, <1>2, <1>3 DEF CompletedJobHasItsReceipts


-----------------------------------------------------------------------------
(* What the receipts of executed trades count *)

LEMMA SharesOfTrades ==
  ASSUME NEW trades, IsFiniteSet(trades), trades \subseteq CvTrade
  PROVE  /\ SharesIn(trades) \in Nat
         /\ \A x \in trades : [y \in trades |-> y.shares][x] \in Int
         /\ \A x \in trades : [y \in trades |-> y.shares][x] >= 0
<1> DEFINE w == [y \in trades |-> y.shares]
<1>1. \A x \in trades : w[x] \in Int /\ w[x] >= 0
  BY ConvergenceConstants DEF CvTrade, CvValue
<1> HIDE DEF w
<1>2. 0 \in Int
  OBVIOUS
<1>3. /\ SumFunctionOnSet(w, trades) \in Int
      /\ SumFunctionOnSet(w, trades) >= 0 * Cardinality(trades)
  BY <1>1, <1>2, SumAtLeast
<1>4. 0 * Cardinality(trades) = 0
  BY FS_CardinalityType
<1>5. SumFunctionOnSet(w, trades) \in Nat
  BY <1>3, <1>4
<1> QED
  BY <1>1, <1>5 DEF w, SharesIn

(* The sum over part of the trades.                                          *)
LEMMA SharesOfPart ==
  ASSUME NEW trades, IsFiniteSet(trades), trades \subseteq CvTrade, NEW part \in SUBSET trades
  PROVE  SharesIn(part) = SumFunctionOnSet([y \in trades |-> y.shares], part)
<1> DEFINE w == [y \in trades |-> y.shares]
           u == [y \in part |-> y.shares]
<1>1. \A x \in part : u[x] = w[x]
  OBVIOUS
<1>2. \A x \in trades : w[x] \in Int
  BY SharesOfTrades, Zenon
<1>3. IsFiniteSet(part)
  BY FS_Subset
<1> HIDE DEF w, u
<1>4. \A x \in part : w[x] \in Int /\ u[x] = w[x]
  BY <1>1, <1>2
<1>5. SumFunctionOnSet(w, part) = SumFunctionOnSet(u, part)
  BY <1>3, <1>4, SumOfEquals
<1> QED
  BY <1>5 DEF w, u, SharesIn

(* What was acquired and what was disposed of is all that was traded.        *)
LEMMA SidesAddUp ==
  ASSUME NEW trades, IsFiniteSet(trades), trades \subseteq CvTrade
  PROVE  Total(trades, "A") + Total(trades, "D") = SharesIn(trades)
<1> DEFINE w == [y \in trades |-> y.shares]
           A == {x \in trades : x.side = "A"}
           D == {x \in trades : x.side = "D"}
<1>1. A \cup D = trades /\ A \cap D = {}
  BY DEF CvTrade
<1>2. A \in SUBSET trades /\ D \in SUBSET trades
  OBVIOUS
<1>3. Total(trades, "A") = SharesIn(A) /\ Total(trades, "D") = SharesIn(D)
  BY DEF Total
<1> HIDE DEF A, D
<1>4. SharesIn(A) = SumFunctionOnSet(w, A) /\ SharesIn(D) = SumFunctionOnSet(w, D)
  BY <1>2, SharesOfPart
<1>5. \A x \in trades : w[x] \in Int
  BY SharesOfTrades, Zenon
<1>6. SharesIn(trades) = SumFunctionOnSet(w, trades)
  BY DEF SharesIn
<1> HIDE DEF w
<1>7. SumFunctionOnSet(w, A \cup D) = SumFunctionOnSet(w, A) + SumFunctionOnSet(w, D)
  <2>1. IsFiniteSet(A) /\ IsFiniteSet(D)
    BY <1>2, FS_Subset
  <2>2. \A x \in A \cup D : w[x] \in Int
    BY <1>1, <1>5
  <2> QED
    BY <1>1, <2>1, <2>2, SumOfUnion
<1> QED
  BY <1>1, <1>3, <1>4, <1>6, <1>7

(* The receipt of a filing of trades is about one date and class.            *)
LEMMA TradeReceipt ==
  ASSUME CvInv, cvFiling.source = "section_16", NEW r \in cvReceipts
  PROVE  \E x \in cvFiling.trades :
           LET scope == <<x.day, x.derivative>> IN
           /\ r = CvReceipt(TradeRequest(cvFiling.trades, scope), r.cutoff)
           /\ r.claim.scope = scope
           /\ r.facts = {CvFact("ACQUIRED", Total(InScope(cvFiling.trades, scope), "A"), x.day),
                         CvFact("DISPOSED", Total(InScope(cvFiling.trades, scope), "D"), x.day)}
           /\ r.disposition = EvaluateInsider(r.facts, TRUE).disposition
<1>1. PICK q \in ProducerRequests(cvFiling, r.cutoff) : r = CvReceipt(q, r.cutoff)
  BY DEF CvInv, ReceiptsAreProduced
<1>2. q \in Section16Requests(cvFiling)
  BY <1>1 DEF ProducerRequests
<1>3. PICK x \in cvFiling.trades : q = TradeRequest(cvFiling.trades, <<x.day, x.derivative>>)
  BY <1>2, TradeRequests
<1> DEFINE scope == <<x.day, x.derivative>>
           a == Total(InScope(cvFiling.trades, scope), "A")
           d == Total(InScope(cvFiling.trades, scope), "D")
<1>4. scope[1] = x.day
  OBVIOUS
<1>5. q = CvRequest(CvClaim("NET_INSIDER_ACQUISITION", TRUE, scope, scope[1], {}),
                    {CvFact("ACQUIRED", a, scope[1]), CvFact("DISPOSED", d, scope[1])},
                    "REQUIRED_FACTS_COMPLETE")
  BY <1>3 DEF TradeRequest
<1> HIDE DEF scope, a, d
<1>6. /\ q.claim.scope = scope /\ q.claim.predicate = "NET_INSIDER_ACQUISITION"
      /\ q.facts = {CvFact("ACQUIRED", a, x.day), CvFact("DISPOSED", d, x.day)}
  BY <1>4, <1>5 DEF CvRequest, CvClaim
<1>7. q.claim.asserted = TRUE
  BY <1>5 DEF CvRequest, CvClaim
<1>8. /\ r.claim = q.claim /\ r.facts = q.facts
      /\ r.disposition = CvEvaluate(q.claim, q.facts).disposition
  BY <1>1, ReceiptFields
<1>9. CvEvaluate(q.claim, q.facts) = EvaluateInsider(q.facts, TRUE)
  BY <1>6, <1>7 DEF CvEvaluate
<1>10. r = CvReceipt(TradeRequest(cvFiling.trades, scope), r.cutoff)
  BY <1>1, <1>3 DEF scope
<1>11. /\ r.claim.scope = scope
       /\ r.facts = {CvFact("ACQUIRED", a, x.day), CvFact("DISPOSED", d, x.day)}
       /\ r.disposition = EvaluateInsider(r.facts, TRUE).disposition
  BY <1>6, <1>8, <1>9
<1> QED
  BY <1>10, <1>11 DEF scope, a, d

LEMMA TheTradeFacts ==
  ASSUME NEW a, NEW d, NEW day, NEW facts,
         facts = {CvFact("ACQUIRED", a, day), CvFact("DISPOSED", d, day)}
  PROVE  /\ Has(facts, "ACQUIRED") /\ Has(facts, "DISPOSED")
         /\ The(facts, "ACQUIRED") = CvFact("ACQUIRED", a, day)
         /\ The(facts, "DISPOSED") = CvFact("DISPOSED", d, day)
         /\ The(facts, "ACQUIRED").value = a /\ The(facts, "DISPOSED").value = d
<1> DEFINE A == CvFact("ACQUIRED", a, day)
           D == CvFact("DISPOSED", d, day)
<1>1. A.kind = "ACQUIRED" /\ A.value = a /\ D.kind = "DISPOSED" /\ D.value = d
  BY DEF CvFact
<1> HIDE DEF A, D
<1>2. facts = {A, D}
  BY DEF A, D
<1>3. \A x \in facts : (x.kind = "ACQUIRED" => x = A) /\ (x.kind = "DISPOSED" => x = D)
  BY <1>1, <1>2
<1>4. Has(facts, "ACQUIRED") /\ Has(facts, "DISPOSED")
  BY <1>1, <1>2 DEF Has
<1>5. The(facts, "ACQUIRED") = A
  BY <1>1, <1>2, <1>3 DEF The
<1>6. The(facts, "DISPOSED") = D
  BY <1>1, <1>2, <1>3 DEF The
<1> QED
  BY <1>1, <1>4, <1>5, <1>6 DEF A, D

LEMMA TradesAreCountedOnce ==
  ASSUME CvInv, cvFiling.source = "section_16", NEW day
  PROVE  LET written == {r \in cvReceipts : r.cutoff = day}
             counted == [r \in written |->
                           The(r.facts, "ACQUIRED").value + The(r.facts, "DISPOSED").value]
         IN SumFunctionOnSet(counted, written) <= SharesIn(cvFiling.trades)
<1> DEFINE trades == cvFiling.trades
           written == {r \in cvReceipts : r.cutoff = day}
           counted == [r \in written |->
                         The(r.facts, "ACQUIRED").value + The(r.facts, "DISPOSED").value]
           w == [y \in trades |-> y.shares]
           part == [r \in written |-> InScope(trades, r.claim.scope)]
           Covered == {c \in trades : \E r \in written : c \in part[r]}
<1>1. IsFiniteSet(trades) /\ trades \subseteq CvTrade
  <2>1. cvFiling \in CvFilings
    BY DEF CvInv, ConvergenceTypeOK
  <2> QED
    BY <2>1, FilingTrades
<1>2. \A r \in written : \E x \in trades :
        /\ r = CvReceipt(TradeRequest(trades, <<x.day, x.derivative>>), day)
        /\ r.claim.scope = <<x.day, x.derivative>>
  BY TradeReceipt
<1>3. part \in [written -> SUBSET trades]
  BY DEF InScope
<1>4. \A r, s \in written : r # s => part[r] \cap part[s] = {}
  <2> SUFFICES ASSUME NEW r \in written, NEW s \in written, NEW c \in part[r], c \in part[s]
               PROVE  r = s
    OBVIOUS
  <2>1. PICK x \in trades : /\ r = CvReceipt(TradeRequest(trades, <<x.day, x.derivative>>), day)
                            /\ r.claim.scope = <<x.day, x.derivative>>
    BY <1>2
  <2>2. PICK y \in trades : /\ s = CvReceipt(TradeRequest(trades, <<y.day, y.derivative>>), day)
                            /\ s.claim.scope = <<y.day, y.derivative>>
    BY <1>2
  <2>3. c \in InScope(trades, r.claim.scope) /\ c \in InScope(trades, s.claim.scope)
    OBVIOUS
  <2>4. c.day = x.day /\ c.derivative = x.derivative
    BY <2>1, <2>3 DEF InScope
  <2>5. c.day = y.day /\ c.derivative = y.derivative
    BY <2>2, <2>3 DEF InScope
  <2> HIDE DEF written, part, trades
  <2> QED
    BY <2>1, <2>2, <2>4, <2>5
<1>5. IsFiniteSet(written)
  <2> DEFINE f == [x \in trades |-> CvReceipt(TradeRequest(trades, <<x.day, x.derivative>>), day)]
             image == {f[x] : x \in trades}
  <2>1. f \in Surjection(trades, image)
    BY DEF Surjection
  <2>2. IsFiniteSet(image)
    <3> HIDE DEF f, image
    <3> QED
      BY <1>1, <2>1, FS_Surjection
  <2>3. written \in SUBSET image
    BY <1>2
  <2> HIDE DEF image, written
  <2> QED
    BY <2>2, <2>3, FS_Subset
<1>6. \A r \in written : counted[r] = SumFunctionOnSet(w, part[r])
  <2> SUFFICES ASSUME NEW r \in written PROVE counted[r] = SumFunctionOnSet(w, part[r])
    OBVIOUS
  <2> DEFINE mine == InScope(trades, r.claim.scope)
  <2>1. \E d : r.facts = {CvFact("ACQUIRED", Total(mine, "A"), d), CvFact("DISPOSED", Total(mine, "D"), d)}
    BY TradeReceipt
  <2>2. mine \in SUBSET trades
    BY DEF InScope
  <2>3. IsFiniteSet(mine) /\ mine \subseteq CvTrade
    BY <1>1, <2>2, FS_Subset
  <2>4. part[r] = mine
    OBVIOUS
  <2>5. counted[r] = The(r.facts, "ACQUIRED").value + The(r.facts, "DISPOSED").value
    OBVIOUS
  <2> HIDE DEF mine, counted, written, part
  <2>6. The(r.facts, "ACQUIRED").value = Total(mine, "A") /\ The(r.facts, "DISPOSED").value = Total(mine, "D")
    BY <2>1, TheTradeFacts
  <2>7. Total(mine, "A") + Total(mine, "D") = SharesIn(mine)
    BY <2>3, SidesAddUp
  <2>8. SharesIn(mine) = SumFunctionOnSet(w, mine)
    BY <1>1, <2>2, SharesOfPart
  <2> QED
    BY <2>4, <2>5, <2>6, <2>7, <2>8
<1>7. (\A x \in trades : w[x] \in Int) /\ (\A x \in trades : w[x] >= 0)
  BY <1>1, SharesOfTrades, Zenon
<1>8. SharesIn(trades) = SumFunctionOnSet(w, trades)
  BY DEF SharesIn
<1>9. Covered \in SUBSET trades
  OBVIOUS
<1>10. SumFunctionOnSet(counted, written) = SumFunctionOnSet(w, Covered)
  <2> HIDE DEF counted, written, w, part, trades
  <2> QED
    BY <1>1, <1>3, <1>4, <1>5, <1>6, <1>7, SumOfSums
<1>11. SumFunctionOnSet(w, Covered) <= SumFunctionOnSet(w, trades)
  <2> HIDE DEF Covered, w, trades
  <2> QED
    BY <1>1, <1>7, <1>9, SumOfMore
<1>12. SumFunctionOnSet(counted, written) <= SharesIn(trades)
  <2> HIDE DEF Covered, counted, written, w, trades
  <2> QED
    BY <1>8, <1>10, <1>11
<1> QED
  BY <1>12

LEMMA TradesSupportTheirVerdict ==
  ASSUME CvInv, cvFiling.source = "section_16", NEW r \in cvReceipts, r.disposition = "SUPPORTED"
  PROVE  \E x \in cvFiling.trades : x.side = "A" /\ <<x.day, x.derivative>> = r.claim.scope
<1> DEFINE trades == cvFiling.trades
           mine == InScope(trades, r.claim.scope)
           a == Total(mine, "A")
           d == Total(mine, "D")
<1>1. IsFiniteSet(trades) /\ trades \subseteq CvTrade
  <2>1. cvFiling \in CvFilings
    BY DEF CvInv, ConvergenceTypeOK
  <2> QED
    BY <2>1, FilingTrades
<1>2. PICK x \in trades :
        /\ r.claim.scope = <<x.day, x.derivative>>
        /\ r.facts = {CvFact("ACQUIRED", a, x.day), CvFact("DISPOSED", d, x.day)}
        /\ r.disposition = EvaluateInsider(r.facts, TRUE).disposition
  BY TradeReceipt
<1>3. mine \in SUBSET trades
  BY DEF InScope
<1>4. d \in Nat
  <2> DEFINE D == {y \in mine : y.side = "D"}
  <2>1. d = SharesIn(D)
    BY DEF Total
  <2>2. D \in SUBSET trades
    BY <1>3
  <2> HIDE DEF D, d, mine, trades
  <2>3. IsFiniteSet(D) /\ D \subseteq CvTrade
    BY <1>1, <2>2, FS_Subset
  <2> QED
    BY <2>1, <2>3, SharesOfTrades
<1> DEFINE A == {y \in mine : y.side = "A"}
<1>5. a = SharesIn(A)
  BY DEF Total
<1>6. A # {}
  <2> SUFFICES ASSUME A = {} PROVE FALSE
    OBVIOUS
  <2>1. a = 0
    <3>1. SharesIn({}) = 0
      BY SumOfNone DEF SharesIn
    <3> QED
      BY <1>5, <3>1
  <2> HIDE DEF a, d, A, mine, trades
  <2>2. /\ Has(r.facts, "ACQUIRED") /\ Has(r.facts, "DISPOSED")
        /\ The(r.facts, "ACQUIRED") = CvFact("ACQUIRED", a, x.day)
        /\ The(r.facts, "DISPOSED") = CvFact("DISPOSED", d, x.day)
        /\ The(r.facts, "ACQUIRED").value = a /\ The(r.facts, "DISPOSED").value = d
    BY <1>2, TheTradeFacts
  <2>3. ~(The(r.facts, "ACQUIRED").value > The(r.facts, "DISPOSED").value)
    BY <1>4, <2>1, <2>2
  <2>4. The(r.facts, "ACQUIRED").day = The(r.facts, "DISPOSED").day
    BY <2>2 DEF CvFact
  <2> DEFINE observed == The(r.facts, "ACQUIRED").value > The(r.facts, "DISPOSED").value
  <2>5. EvaluateInsider(r.facts, TRUE) = CvResult(Verdict(observed, TRUE), {observed})
    BY <2>2, <2>4, Zenon DEF EvaluateInsider
  <2>6. observed # TRUE
    BY <2>3, Zenon
  <2> HIDE DEF observed
  <2>7. Verdict(observed, TRUE) = "CONFLICTED"
    BY <2>6 DEF Verdict
  <2>8. CvResult(Verdict(observed, TRUE), {observed}).disposition = Verdict(observed, TRUE)
    BY DEF CvResult
  <2> QED
    BY <1>2, <2>5, <2>7, <2>8
<1>7. PICK y \in mine : y.side = "A"
  BY <1>6
<1>8. y \in trades /\ y.day = x.day /\ y.derivative = x.derivative
  BY <1>2, <1>7 DEF InScope
<1> QED
  BY <1>2, <1>7, <1>8

LEMMA TradesCounted == CvInv => TradesCountOnce
<1> SUFFICES ASSUME CvInv, cvFiling.source = "section_16", NEW day \in CvDay
             PROVE  LET written == {r \in cvReceipts : r.cutoff = day}
                        counted == [r \in written |->
                                      The(r.facts, "ACQUIRED").value + The(r.facts, "DISPOSED").value]
                    IN /\ SumFunctionOnSet(counted, written) <= SharesIn(cvFiling.trades)
                       /\ \A r \in written : r.disposition = "SUPPORTED" =>
                            \E x \in cvFiling.trades :
                              x.side = "A" /\ <<x.day, x.derivative>> = r.claim.scope
  BY DEF TradesCountOnce
<1> QED
  BY TradesAreCountedOnce, TradesSupportTheirVerdict, Zenon


-----------------------------------------------------------------------------
(* The evaluation of a dilution claim *)

(* A set of facts has at most one of a kind, and their values are numbers.   *)
LEMMA DilutionFactsAre ==
  ASSUME NEW facts \in DilutionFacts
  PROVE  /\ \A x, y \in facts : x.kind = y.kind => x = y
         /\ \A x \in facts : x.value \in Int
<1> DEFINE Optional(kind, days) == {{}} \cup {{CvFact(kind, v, d)} : v \in 0..1, d \in days}
<1>0. DilutionFacts =
        {p \cup c \cup r \cup i \cup n :
           p \in Optional("PRIOR", 1..2), c \in Optional("CURRENT", {2}),
           r \in Optional("REGISTERED", {1}), i \in Optional("ISSUABLE", {1}),
           n \in Optional("INSTRUMENTS", {1})}
  BY DEF DilutionFacts
<1> HIDE DEF Optional
<1>1. PICK p \in Optional("PRIOR", 1..2), c \in Optional("CURRENT", {2}),
           r \in Optional("REGISTERED", {1}), i \in Optional("ISSUABLE", {1}),
           n \in Optional("INSTRUMENTS", {1}) : facts = p \cup c \cup r \cup i \cup n
  BY <1>0
<1>2. ASSUME NEW kind, NEW days, NEW o \in Optional(kind, days)
      PROVE  \A x \in o : x.kind = kind /\ x.value \in Int /\ \A y \in o : x = y
  <2>0. o = {} \/ \E v \in 0..1, d \in days : o = {CvFact(kind, v, d)}
    BY DEF Optional
  <2>1. CASE o = {}
    BY <2>1
  <2>2. CASE \E v \in 0..1, d \in days : o = {CvFact(kind, v, d)}
    <3>1. PICK v \in 0..1, d \in days : o = {CvFact(kind, v, d)}
      BY <2>2
    <3>2. CvFact(kind, v, d).kind = kind /\ CvFact(kind, v, d).value = v
      BY DEF CvFact
    <3> QED
      BY <3>1, <3>2
  <2> QED
    BY <2>0, <2>1, <2>2
<1>3. \A x \in p : x.kind = "PRIOR" /\ x.value \in Int /\ \A y \in p : x = y
  BY <1>2
<1>4. \A x \in c : x.kind = "CURRENT" /\ x.value \in Int /\ \A y \in c : x = y
  BY <1>2
<1>5. \A x \in r : x.kind = "REGISTERED" /\ x.value \in Int /\ \A y \in r : x = y
  BY <1>2
<1>6. \A x \in i : x.kind = "ISSUABLE" /\ x.value \in Int /\ \A y \in i : x = y
  BY <1>2
<1>7. \A x \in n : x.kind = "INSTRUMENTS" /\ x.value \in Int /\ \A y \in n : x = y
  BY <1>2
<1>8. \A x, y \in facts : x.kind = y.kind => x = y
  BY <1>1, <1>3, <1>4, <1>5, <1>6, <1>7
<1>9. \A x \in facts : x.value \in Int
  BY <1>1, <1>3, <1>4, <1>5, <1>6, <1>7
<1> QED
  BY <1>8, <1>9

LEMMA TheIsOfItsKind ==
  ASSUME NEW facts, NEW kind, Has(facts, kind)
  PROVE  The(facts, kind) \in facts /\ The(facts, kind).kind = kind
BY DEF Has, The

(* Without facts of other kinds the fact of a kind is the same.              *)
LEMMA TheStays ==
  ASSUME NEW facts, \A x, y \in facts : x.kind = y.kind => x = y, NEW rest \in SUBSET facts,
         NEW kind, \A x \in facts \ rest : x.kind # kind
  PROVE  /\ Has(rest, kind) <=> Has(facts, kind)
         /\ Has(facts, kind) => The(rest, kind) = The(facts, kind)
<1>1. Has(rest, kind) <=> Has(facts, kind)
  BY DEF Has
<1>2. ASSUME Has(facts, kind) PROVE The(rest, kind) = The(facts, kind)
  <2>1. The(facts, kind) \in facts /\ The(facts, kind).kind = kind
    BY <1>2, TheIsOfItsKind
  <2>2. The(rest, kind) \in rest /\ The(rest, kind).kind = kind
    BY <1>1, <1>2, TheIsOfItsKind
  <2> QED
    BY <2>1, <2>2
<1> QED
  BY <1>1, <1>2

LEMMA ObservedResults ==
  ASSUME NEW disposition, NEW observed
  PROVE  CvResult(disposition, observed).observed = observed
BY DEF CvResult

(* When the evaluation observes an exposure, and when its absence.           *)
LEMMA DilutionObserved ==
  ASSUME NEW facts
  PROVE  LET pair == Has(facts, "PRIOR") /\ Has(facts, "CURRENT")
             unordered == pair /\ The(facts, "PRIOR").day >= The(facts, "CURRENT").day
             instruments == Positive(facts, "ISSUABLE") \/ Positive(facts, "INSTRUMENTS")
             grew == The(facts, "CURRENT").value > The(facts, "PRIOR").value
             observed == EvaluateDilution(facts, TRUE).observed
         IN /\ observed = {TRUE} <=> ~unordered /\ (instruments \/ (pair /\ grew))
            /\ observed = {FALSE} => /\ pair /\ ~grew /\ ~instruments /\ AbsenceIsClosed(facts)
<1> DEFINE pair == Has(facts, "PRIOR") /\ Has(facts, "CURRENT")
           unordered == pair /\ The(facts, "PRIOR").day >= The(facts, "CURRENT").day
           instruments == Positive(facts, "ISSUABLE") \/ Positive(facts, "INSTRUMENTS")
           grew == The(facts, "CURRENT").value > The(facts, "PRIOR").value
           result == EvaluateDilution(facts, TRUE)
           yes == CvResult(Verdict(TRUE, TRUE), {TRUE})
           no == CvResult(Verdict(FALSE, TRUE), {FALSE})
<1>1. result = IF unordered THEN CvIncomparable
               ELSE IF instruments THEN yes
               ELSE IF ~pair THEN CvInsufficient
               ELSE IF grew THEN yes
               ELSE IF ~AbsenceIsClosed(facts) THEN CvInsufficient
               ELSE no
  BY DEF EvaluateDilution
<1>2. /\ yes.observed = {TRUE} /\ no.observed = {FALSE}
      /\ CvIncomparable.observed = {} /\ CvInsufficient.observed = {}
  BY DEF CvResult, CvIncomparable, CvInsufficient
<1>3. {TRUE} # {} /\ {FALSE} # {} /\ {TRUE} # {FALSE}
  OBVIOUS
<1> HIDE DEF pair, unordered, instruments, grew, result, yes, no
<1>4. result.observed = {TRUE} <=> ~unordered /\ (instruments \/ (pair /\ grew))
  BY <1>1, <1>2, <1>3
<1>5. result.observed = {FALSE} => pair /\ ~grew /\ ~instruments /\ AbsenceIsClosed(facts)
  BY <1>1, <1>2, <1>3
<1> QED
  BY <1>4, <1>5 DEF pair, unordered, instruments, grew, result

LEMMA AbsenceProved == CvInv => AbsenceOfDilutionIsProved
<1> SUFFICES ASSUME CvInv PROVE AbsenceOfDilutionIsProved
  OBVIOUS
<1> DEFINE facts == cvAssessed.facts
           observed == cvAssessed.result.observed
           silenced == {x \in facts : x.kind \in {"ISSUABLE", "INSTRUMENTS"} /\ x.value > 0}
           rest == facts \ silenced
<1>1. facts \in DilutionFacts /\ observed = EvaluateDilution(facts, TRUE).observed
  BY DEF CvInv, AssessmentIsEvaluated
<1>2. /\ \A x, y \in facts : x.kind = y.kind => x = y
      /\ \A x \in facts : x.value \in Int
  BY <1>1, DilutionFactsAre
<1>3. ASSUME observed = {FALSE}
      PROVE  /\ Has(facts, "PRIOR") /\ Has(facts, "CURRENT") /\ Has(facts, "INSTRUMENTS")
             /\ The(facts, "CURRENT").value <= The(facts, "PRIOR").value
             /\ \A kind \in {"REGISTERED", "ISSUABLE", "INSTRUMENTS"} : ~Positive(facts, kind)
  <2>1. /\ Has(facts, "PRIOR") /\ Has(facts, "CURRENT")
        /\ ~(The(facts, "CURRENT").value > The(facts, "PRIOR").value)
        /\ ~Positive(facts, "ISSUABLE") /\ ~Positive(facts, "INSTRUMENTS")
        /\ AbsenceIsClosed(facts)
    BY <1>1, <1>3, DilutionObserved, Zenon
  <2>2. The(facts, "CURRENT").value \in Int /\ The(facts, "PRIOR").value \in Int
    BY <1>2, <2>1, TheIsOfItsKind
  <2>3. Has(facts, "INSTRUMENTS") /\ ~Positive(facts, "REGISTERED")
    BY <2>1 DEF AbsenceIsClosed
  <2>4. The(facts, "CURRENT").value <= The(facts, "PRIOR").value
    BY <2>1, <2>2
  <2> QED
    BY <2>1, <2>3, <2>4
<1>4. ASSUME EvaluateDilution(rest, TRUE).observed = {TRUE} PROVE observed = {TRUE}
  <2>1. rest \in SUBSET facts /\ \A x \in facts \ rest : x.kind \in {"ISSUABLE", "INSTRUMENTS"}
    OBVIOUS
  <2>2. ~Positive(rest, "ISSUABLE") /\ ~Positive(rest, "INSTRUMENTS")
    <3> SUFFICES ASSUME NEW kind \in {"ISSUABLE", "INSTRUMENTS"}, Positive(rest, kind) PROVE FALSE
      OBVIOUS
    <3>1. The(rest, kind) \in rest /\ The(rest, kind).kind = kind /\ The(rest, kind).value > 0
      BY TheIsOfItsKind DEF Positive
    <3> QED
      BY <3>1
  <2>3. \A x \in facts \ rest : x.kind # "PRIOR"
    BY <2>1
  <2>4. \A x \in facts \ rest : x.kind # "CURRENT"
    BY <2>1
  <2> HIDE DEF rest, facts
  <2>5. /\ Has(rest, "PRIOR") <=> Has(facts, "PRIOR")
        /\ Has(facts, "PRIOR") => The(rest, "PRIOR") = The(facts, "PRIOR")
    BY <1>2, <2>1, <2>3, TheStays
  <2>6. /\ Has(rest, "CURRENT") <=> Has(facts, "CURRENT")
        /\ Has(facts, "CURRENT") => The(rest, "CURRENT") = The(facts, "CURRENT")
    BY <1>2, <2>1, <2>4, TheStays
  <2>7. /\ Has(rest, "PRIOR") /\ Has(rest, "CURRENT")
        /\ ~(The(rest, "PRIOR").day >= The(rest, "CURRENT").day)
        /\ The(rest, "CURRENT").value > The(rest, "PRIOR").value
    <3>1. /\ ~(/\ Has(rest, "PRIOR") /\ Has(rest, "CURRENT")
               /\ The(rest, "PRIOR").day >= The(rest, "CURRENT").day)
          /\ \/ Positive(rest, "ISSUABLE") \/ Positive(rest, "INSTRUMENTS")
             \/ /\ Has(rest, "PRIOR") /\ Has(rest, "CURRENT")
                /\ The(rest, "CURRENT").value > The(rest, "PRIOR").value
      BY <1>4, DilutionObserved, Zenon
    <3> QED
      BY <2>2, <3>1, Zenon
  <2>8. /\ Has(facts, "PRIOR") /\ Has(facts, "CURRENT")
        /\ ~(The(facts, "PRIOR").day >= The(facts, "CURRENT").day)
        /\ The(facts, "CURRENT").value > The(facts, "PRIOR").value
    BY <2>5, <2>6, <2>7, Zenon
  <2>9. EvaluateDilution(facts, TRUE).observed = {TRUE}
    BY <2>8, DilutionObserved, Zenon
  <2> QED
    BY <1>1, <2>9
<1> QED
  BY <1>3, <1>4 DEF AbsenceOfDilutionIsProved

(* Receipts survive retries, midnight and crashes without contradicting each *)
(* other or counting a trade twice, a completed job has all of them, and the *)
(* absence of dilution is only claimed when it is proved                     *)
(* (evaluate_and_persist, the producers and the workers that call them).     *)
THEOREM ConvergenceSound == ConvergenceSpec => []ConvergenceIsSound
<1>1. CvInv => ConvergenceIsSound
  BY ReceiptsAgree, CompletedJobs, TradesCounted, AbsenceProved DEF ConvergenceIsSound
<1> QED
  BY <1>1, CvInductive, PTL


-----------------------------------------------------------------------------
(* The ordinal signal: for every offer of metrics and analyses, every set of *)
(* evidence and every number of analyses.                                    *)

(* What a request is made of; the evidence it cites is evidence it has.      *)
SgInv ==
  /\ IsFiniteSet(sgMetrics) /\ sgMetrics \subseteq SgOffer
  /\ sgAnalyses \in Seq(SgAnalysis)
  /\ Cited(sgAnalyses) \subseteq DOMAIN SgEvidence

LEMMA SgInvInit == SgInit => SgInv
<1> SUFFICES ASSUME SgInit PROVE SgInv
  OBVIOUS
<1>1. sgMetrics = {} /\ sgAnalyses = <<>>
  BY DEF SgInit
<1>2. IsFiniteSet({}) /\ <<>> \in Seq(SgAnalysis)
  BY FS_EmptySet
<1>3. Cited(<<>>) = {}
  <2>1. SgRange(<<>>) = {}
    BY DEF SgRange
  <2> QED
    BY <2>1 DEF Cited
<1> QED
  BY <1>1, <1>2, <1>3 DEF SgInv

LEMMA SgInvStep == SgInv /\ [SgNext]_sgVars => SgInv'
<1> SUFFICES ASSUME SgInv, [SgNext]_sgVars PROVE SgInv'
  OBVIOUS
<1>1. /\ IsFiniteSet(sgMetrics) /\ sgMetrics \subseteq SgOffer
      /\ sgAnalyses \in Seq(SgAnalysis)
      /\ Cited(sgAnalyses) \subseteq DOMAIN SgEvidence
  BY DEF SgInv
<1>2. CASE \E m \in SgOffer : AddMetric(m)
  <2>1. PICK m \in SgOffer : sgMetrics' = sgMetrics \cup {m} /\ UNCHANGED sgAnalyses
    BY <1>2 DEF AddMetric
  <2>2. IsFiniteSet(sgMetrics \cup {m})
    BY <1>1, FS_AddElement
  <2>3. Cited(sgAnalyses)' = Cited(sgAnalyses)
    BY <2>1 DEF Cited, CitedBy, SgRange
  <2> QED
    BY <1>1, <2>1, <2>2, <2>3 DEF SgInv
<1>3. CASE \E a \in SgAnalysis : AddAnalysis(a)
  <2>1. PICK a \in SgAnalysis : /\ AnalysisIsAdmissible(a) /\ sgAnalyses' = Append(sgAnalyses, a)
                                /\ UNCHANGED sgMetrics
    BY <1>3 DEF AddAnalysis
  <2>2. CitedBy(a) \subseteq DOMAIN SgEvidence
    BY <2>1 DEF AnalysisIsAdmissible
  <2> DEFINE more == Append(sgAnalyses, a)
  <2>3. more \in Seq(SgAnalysis)
    BY <1>1
  <2>4. SgRange(more) \subseteq SgRange(sgAnalyses) \cup {a}
    <3> SUFFICES ASSUME NEW i \in DOMAIN more PROVE more[i] \in SgRange(sgAnalyses) \cup {a}
      BY DEF SgRange
    <3>1. CASE i = Len(sgAnalyses) + 1
      BY <1>1, <3>1
    <3>2. CASE i # Len(sgAnalyses) + 1
      <4>1. i \in DOMAIN sgAnalyses /\ more[i] = sgAnalyses[i]
        BY <1>1, <3>2
      <4> QED
        BY <4>1 DEF SgRange
    <3> QED
      BY <3>1, <3>2
  <2> HIDE DEF more
  <2>5. Cited(more) \subseteq Cited(sgAnalyses) \cup CitedBy(a)
    BY <2>4 DEF Cited
  <2>6. sgAnalyses' = more /\ sgMetrics' = sgMetrics
    BY <2>1 DEF more
  <2> QED
    BY <1>1, <2>2, <2>3, <2>5, <2>6 DEF SgInv
<1>4. CASE UNCHANGED sgVars
  BY <1>1, <1>4 DEF SgInv, sgVars
<1> QED
  BY <1>2, <1>3, <1>4 DEF SgNext

LEMMA SgInductive == SgSpec => []SgInv
BY SgInvInit, SgInvStep, PTL DEF SgSpec

-----------------------------------------------------------------------------
(* Points *)

(* How many of the bounds a value has reached.                               *)
LEMMA StepsReached ==
  ASSUME NEW n \in Nat, NEW reached \in SUBSET (1..n)
  PROVE  1 + Cardinality(reached) \in 1..(n + 1)
<1>1. IsFiniteSet(1..n) /\ Cardinality(1..n) = n
  BY FS_Interval
<1>2. IsFiniteSet(reached) /\ Cardinality(reached) <= n /\ Cardinality(reached) \in Nat
  BY <1>1, FS_Subset, FS_CardinalityType
<1> QED
  BY <1>2

(* A scale gives one of its points.                                          *)
LEMMA ScalePoints ==
  ASSUME NEW v, NEW n \in Nat, NEW bounds, DOMAIN bounds = 1..n,
         NEW points, \A k \in 1..(n + 1) : points[k] \in Nat
  PROVE  Below(v, bounds, points) \in Nat /\ NotAbove(v, bounds, points) \in Nat
<1> DEFINE up == {i \in DOMAIN bounds : v >= bounds[i]}
           over == {i \in DOMAIN bounds : v > bounds[i]}
<1>1. up \in SUBSET (1..n) /\ over \in SUBSET (1..n)
  OBVIOUS
<1>2. Below(v, bounds, points) = points[1 + Cardinality(up)]
  BY DEF Below
<1>3. NotAbove(v, bounds, points) = points[1 + Cardinality(over)]
  BY DEF NotAbove
<1> HIDE DEF up, over
<1>4. 1 + Cardinality(up) \in 1..(n + 1) /\ 1 + Cardinality(over) \in 1..(n + 1)
  BY <1>1, StepsReached
<1> QED
  BY <1>2, <1>3, <1>4

LEMMA OpportunityPoints ==
  ASSUME NEW name \in OpportunityMetrics, NEW v \in Int
  PROVE  OpportunityRule(name, v) \in Nat
<1>1. CASE name = "cumulative_price_return"
  <2>1. OpportunityRule(name, v) = Below(v, <<0, 50, 150, 300>>, <<0, 5, 12, 18, 20>>)
    BY <1>1 DEF OpportunityRule
  <2> DEFINE b == <<0, 50, 150, 300>>
             p == <<0, 5, 12, 18, 20>>
  <2>2. 4 \in Nat /\ DOMAIN b = 1..4 /\ \A k \in 1..(4 + 1) : p[k] \in Nat
    OBVIOUS
  <2>3. OpportunityRule(name, v) = Below(v, b, p)
    BY <2>1
  <2> HIDE DEF b, p
  <2> QED
    BY <2>2, <2>3, ScalePoints
<1>2. CASE name = "benchmark_relative_return"
  <2>1. OpportunityRule(name, v) = Below(v, <<0, 50, 150>>, <<0, 5, 10, 15>>)
    BY <1>2 DEF OpportunityRule
  <2> DEFINE b == <<0, 50, 150>>
             p == <<0, 5, 10, 15>>
  <2>2. 3 \in Nat /\ DOMAIN b = 1..3 /\ \A k \in 1..(3 + 1) : p[k] \in Nat
    OBVIOUS
  <2>3. OpportunityRule(name, v) = Below(v, b, p)
    BY <2>1
  <2> HIDE DEF b, p
  <2> QED
    BY <2>2, <2>3, ScalePoints
<1>3. CASE name = "period_over_period_growth"
  <2>1. OpportunityRule(name, v) = Below(v, <<0, 100, 250>>, <<0, 5, 10, 15>>)
    BY <1>3 DEF OpportunityRule
  <2> DEFINE b == <<0, 100, 250>>
             p == <<0, 5, 10, 15>>
  <2>2. 3 \in Nat /\ DOMAIN b = 1..3 /\ \A k \in 1..(3 + 1) : p[k] \in Nat
    OBVIOUS
  <2>3. OpportunityRule(name, v) = Below(v, b, p)
    BY <2>1
  <2> HIDE DEF b, p
  <2> QED
    BY <2>2, <2>3, ScalePoints
<1>4. CASE name = "gross_margin"
  <2>1. OpportunityRule(name, v) = Below(v, <<0, 200, 400>>, <<0, 3, 6, 10>>)
    BY <1>4 DEF OpportunityRule
  <2> DEFINE b == <<0, 200, 400>>
             p == <<0, 3, 6, 10>>
  <2>2. 3 \in Nat /\ DOMAIN b = 1..3 /\ \A k \in 1..(3 + 1) : p[k] \in Nat
    OBVIOUS
  <2>3. OpportunityRule(name, v) = Below(v, b, p)
    BY <2>1
  <2> HIDE DEF b, p
  <2> QED
    BY <2>2, <2>3, ScalePoints
<1>5. CASE name = "price_to_earnings_ratio"
  <2>1. OpportunityRule(name, v) = NotAbove(v, <<15000, 25000, 40000>>, <<10, 7, 4, 1>>)
    BY <1>5 DEF OpportunityRule
  <2> DEFINE b == <<15000, 25000, 40000>>
             p == <<10, 7, 4, 1>>
  <2>2. 3 \in Nat /\ DOMAIN b = 1..3 /\ \A k \in 1..(3 + 1) : p[k] \in Nat
    OBVIOUS
  <2>3. OpportunityRule(name, v) = NotAbove(v, b, p)
    BY <2>1
  <2> HIDE DEF b, p
  <2> QED
    BY <2>2, <2>3, ScalePoints
<1>6. CASE name = "relative_strength_index"
  BY <1>6 DEF OpportunityRule
<1> QED
  BY <1>1, <1>2, <1>3, <1>4, <1>5, <1>6 DEF OpportunityMetrics

LEMMA RiskPoints ==
  ASSUME NEW name \in RiskMetrics, NEW v \in Int
  PROVE  RiskRule(name, v) \in Nat
<1>1. CASE name = "annualized_historical_volatility"
  <2>1. RiskRule(name, v) = Below(v, <<250, 450, 700>>, <<5, 12, 20, 25>>)
    BY <1>1 DEF RiskRule
  <2> DEFINE b == <<250, 450, 700>>
             p == <<5, 12, 20, 25>>
  <2>2. 3 \in Nat /\ DOMAIN b = 1..3 /\ \A k \in 1..(3 + 1) : p[k] \in Nat
    OBVIOUS
  <2>3. RiskRule(name, v) = Below(v, b, p)
    BY <2>1
  <2> HIDE DEF b, p
  <2> QED
    BY <2>2, <2>3, ScalePoints
<1>2. CASE name = "maximum_drawdown"
  <2>1. RiskRule(name, v) = Below(Magnitude(v), <<150, 300, 500>>, <<5, 12, 20, 25>>)
    BY <1>2 DEF RiskRule
  <2> DEFINE b == <<150, 300, 500>>
             p == <<5, 12, 20, 25>>
  <2>2. 3 \in Nat /\ DOMAIN b = 1..3 /\ \A k \in 1..(3 + 1) : p[k] \in Nat
    OBVIOUS
  <2>3. RiskRule(name, v) = Below(Magnitude(v), b, p)
    BY <2>1
  <2> HIDE DEF b, p
  <2> QED
    BY <2>2, <2>3, ScalePoints
<1>3. CASE name = "debt_to_equity_ratio"
  <2>1. RiskRule(name, v) = Below(v, <<500, 1000, 2000>>, <<3, 8, 14, 20>>)
    BY <1>3 DEF RiskRule
  <2> DEFINE b == <<500, 1000, 2000>>
             p == <<3, 8, 14, 20>>
  <2>2. 3 \in Nat /\ DOMAIN b = 1..3 /\ \A k \in 1..(3 + 1) : p[k] \in Nat
    OBVIOUS
  <2>3. RiskRule(name, v) = Below(v, b, p)
    BY <2>1
  <2> HIDE DEF b, p
  <2> QED
    BY <2>2, <2>3, ScalePoints
<1> QED
  BY <1>1, <1>2, <1>3 DEF RiskMetrics

-----------------------------------------------------------------------------
(* Sets of traces *)

LEMMA ImageIsFinite ==
  ASSUME NEW S, IsFiniteSet(S), NEW f
  PROVE  IsFiniteSet({f[x] : x \in S})
<1> DEFINE g == [x \in S |-> f[x]]
           image == {f[x] : x \in S}
<1>1. g \in Surjection(S, image)
  BY DEF Surjection
<1> HIDE DEF g
<1> QED
  BY <1>1, FS_Surjection

LEMMA AtMostOneIsFinite ==
  ASSUME NEW S, NEW x, S \subseteq {x}
  PROVE  IsFiniteSet(S)
<1>1. IsFiniteSet({x}) /\ S \in SUBSET {x}
  BY FS_Singleton
<1> QED
  BY <1>1, FS_Subset

(* A finite set of traces with whole points.                                 *)
AreTraces(T) == IsFiniteSet(T) /\ \A t \in T : t.points \in Int

LEMMA TraceFields ==
  ASSUME NEW rule, NEW points, NEW named
  PROVE  /\ Trace(rule, points, named).rule = rule
         /\ Trace(rule, points, named).points = points
         /\ Trace(rule, points, named).evidence = named
BY DEF Trace

LEMMA TracesOfBoth ==
  ASSUME NEW A, NEW B, AreTraces(A), AreTraces(B)
  PROVE  AreTraces(A \cup B)
BY FS_Union DEF AreTraces

LEMMA PointsOfPart ==
  ASSUME NEW T, AreTraces(T), NEW R \in SUBSET T
  PROVE  /\ AreTraces(R)
         /\ Points(R) = SumFunctionOnSet([t \in T |-> t.points], R)
         /\ Points(R) \in Int
<1> DEFINE w == [t \in T |-> t.points]
           u == [t \in R |-> t.points]
<1>1. IsFiniteSet(R)
  BY FS_Subset DEF AreTraces
<1>2. \A x \in R : w[x] \in Int /\ u[x] = w[x]
  BY DEF AreTraces
<1>3. AreTraces(R)
  BY <1>1 DEF AreTraces
<1>4. Points(R) = SumFunctionOnSet(u, R)
  BY DEF Points
<1> HIDE DEF w, u
<1>5. SumFunctionOnSet(w, R) = SumFunctionOnSet(u, R)
  BY <1>1, <1>2, SumOfEquals
<1>6. SumFunctionOnSet(w, R) \in Int
  BY <1>1, <1>2, SumIsInteger
<1> QED
  BY <1>3, <1>4, <1>5, <1>6 DEF w

LEMMA PointsOfBoth ==
  ASSUME NEW A, NEW B, AreTraces(A), AreTraces(B), A \cap B = {}
  PROVE  Points(A \cup B) = Points(A) + Points(B)
<1> DEFINE T == A \cup B
           w == [t \in T |-> t.points]
<1>1. AreTraces(T)
  BY TracesOfBoth
<1>2. A \in SUBSET T /\ B \in SUBSET T /\ T \in SUBSET T
  OBVIOUS
<1>3. \A x \in T : w[x] \in Int
  BY <1>1 DEF AreTraces
<1> HIDE DEF T
<1>4. /\ Points(A) = SumFunctionOnSet(w, A) /\ Points(B) = SumFunctionOnSet(w, B)
      /\ Points(T) = SumFunctionOnSet(w, T)
  BY <1>1, <1>2, PointsOfPart
<1> HIDE DEF w
<1>5. SumFunctionOnSet(w, A \cup B) = SumFunctionOnSet(w, A) + SumFunctionOnSet(w, B)
  <2>1. IsFiniteSet(A) /\ IsFiniteSet(B) /\ \A x \in A \cup B : w[x] \in Int
    BY <1>3 DEF AreTraces, T
  <2> QED
    BY <2>1, SumOfUnion
<1> QED
  BY <1>4, <1>5 DEF T

LEMMA PointsOfMore ==
  ASSUME NEW T, AreTraces(T), NEW R \in SUBSET T, \A t \in T \ R : t.points >= 0
  PROVE  Points(R) <= Points(T)
<1> DEFINE w == [t \in T |-> t.points]
<1>1. IsFiniteSet(T) /\ (\A x \in T : w[x] \in Int) /\ (\A x \in T \ R : w[x] >= 0)
  BY DEF AreTraces
<1>2. T \in SUBSET T
  OBVIOUS
<1>3. Points(R) = SumFunctionOnSet(w, R) /\ Points(T) = SumFunctionOnSet(w, T)
  BY <1>2, PointsOfPart
<1> HIDE DEF w
<1>4. SumFunctionOnSet(w, R) <= SumFunctionOnSet(w, T)
  BY <1>1, SumOfMore
<1> QED
  BY <1>3, <1>4

LEMMA PointsOfNone == Points({}) = 0
BY SumOfNone DEF Points

LEMMA PointsOfOne ==
  ASSUME NEW t, t.points \in Int
  PROVE  AreTraces({t}) /\ Points({t}) = t.points
<1> DEFINE w == [x \in {t} |-> x.points]
<1>1. IsFiniteSet({t}) /\ (\A x \in {t} : w[x] \in Int) /\ t \in {t} /\ w[t] = t.points
  BY FS_Singleton
<1>2. Points({t}) = SumFunctionOnSet(w, {t})
  BY DEF Points
<1>3. AreTraces({t})
  BY <1>1 DEF AreTraces
<1> HIDE DEF w
<1>4. SumFunctionOnSet(w, {t}) = w[t] + SumFunctionOnSet(w, {t} \ {t})
  BY <1>1, SumTakesOut
<1>5. SumFunctionOnSet(w, {t} \ {t}) = 0
  <2>1. {t} \ {t} = {}
    OBVIOUS
  <2>2. SumFunctionOnSet(w, {}) = 0
    BY SumOfNone
  <2> QED
    BY <2>1, <2>2
<1> QED
  BY <1>1, <1>2, <1>3, <1>4, <1>5

(* A dimension without traces counts as one with a trace of no points.       *)
LEMMA ZeroTrace ==
  ASSUME NEW T, AreTraces(T), NEW rule
  PROVE  /\ AreTraces(OrZero(T, rule))
         /\ Points(OrZero(T, rule)) = Points(T)
         /\ UNION {t.evidence : t \in OrZero(T, rule)} = UNION {t.evidence : t \in T}
<1> DEFINE z == Trace(<<rule>>, 0, {})
<1>1. z.points = 0 /\ z.evidence = {}
  BY TraceFields
<1>2. T = {} => OrZero(T, rule) = {z}
  BY DEF OrZero
<1>3. T # {} => OrZero(T, rule) = T
  BY DEF OrZero
<1> HIDE DEF z
<1>4. AreTraces({z}) /\ Points({z}) = 0
  BY <1>1, PointsOfOne
<1>5. CASE T = {}
  <2>1. UNION {t.evidence : t \in {z}} = {} /\ UNION {t.evidence : t \in {}} = {}
    BY <1>1
  <2> QED
    BY <1>2, <1>4, <1>5, <2>1, PointsOfNone
<1>6. CASE T # {}
  BY <1>3, <1>6
<1> QED
  BY <1>5, <1>6

(* A score is the points of its traces, held between 0 and 100.              *)
LEMMA ScoreIs ==
  ASSUME NEW T, AreTraces(T)
  PROVE  Score(T) = IF Points(T) <= 0 THEN 0 ELSE IF Points(T) >= 100 THEN 100 ELSE Points(T)
<1>1. Points(T) \in Int
  <2>1. T \in SUBSET T
    OBVIOUS
  <2> QED
    BY <2>1, PointsOfPart
<1> DEFINE n == Points(T)
           m == Max({0, n})
<1>2. Score(T) = Min({100, m})
  BY DEF Score
<1> HIDE DEF n
<1>3. 0 \in Int /\ 100 \in Int /\ n \in Int
  BY <1>1 DEF n
<1>4. m = IF 0 >= n THEN 0 ELSE n
  BY <1>3, MaxOfTwo
<1> HIDE DEF m
<1>5. m \in Int
  BY <1>3, <1>4
<1>6. Min({100, m}) = IF 100 <= m THEN 100 ELSE m
  BY <1>3, <1>5, MinOfTwo
<1>7. Score(T) = IF n <= 0 THEN 0 ELSE IF n >= 100 THEN 100 ELSE n
  BY <1>2, <1>3, <1>4, <1>6
<1> QED
  BY <1>7 DEF n

LEMMA ScoreIsInteger ==
  ASSUME NEW T, AreTraces(T)
  PROVE  Score(T) \in Int
<1>1. Points(T) \in Int
  <2>1. T \in SUBSET T
    OBVIOUS
  <2> QED
    BY <2>1, PointsOfPart
<1> QED
  BY <1>1, ScoreIs

LEMMA ScoreGrows ==
  ASSUME NEW R, AreTraces(R), NEW T, AreTraces(T), Points(R) <= Points(T)
  PROVE  Score(R) <= Score(T)
<1>1. Points(T) \in Int /\ Points(R) \in Int
  <2>1. T \in SUBSET T /\ R \in SUBSET R
    OBVIOUS
  <2> QED
    BY <2>1, PointsOfPart
<1> DEFINE a == Points(R)
           b == Points(T)
<1>2. /\ Score(R) = IF a <= 0 THEN 0 ELSE IF a >= 100 THEN 100 ELSE a
      /\ Score(T) = IF b <= 0 THEN 0 ELSE IF b >= 100 THEN 100 ELSE b
  BY ScoreIs
<1>3. a \in Int /\ b \in Int /\ a <= b
  BY <1>1
<1> HIDE DEF a, b
<1> QED
  BY <1>2, <1>3


-----------------------------------------------------------------------------
(* What the analyses say *)

LEMMA SaidFindings ==
  ASSUME NEW analyses \in Seq(SgAnalysis), NEW categories, NEW f \in FindingsOf(analyses, categories)
  PROVE  f.item.cites \subseteq Cited(analyses)
<1>0. PICK i \in DOMAIN analyses :
        \E j \in DOMAIN analyses[i].findings : f = Said(i, j, analyses[i].findings[j])
  BY DEF FindingsOf
<1>1. PICK j \in DOMAIN analyses[i].findings : f = Said(i, j, analyses[i].findings[j])
  BY <1>0
<1>2. f.item = analyses[i].findings[j]
  BY <1>1 DEF Said
<1>3. f.item \in SgRange(analyses[i].findings) /\ analyses[i] \in SgRange(analyses)
  BY <1>1, <1>2 DEF SgRange
<1> QED
  BY <1>3 DEF Cited, CitedBy

LEMMA SaidAgainst ==
  ASSUME NEW analyses \in Seq(SgAnalysis), NEW x \in ContradictionsOf(analyses)
  PROVE  x.item.cites \subseteq Cited(analyses)
<1>0. PICK i \in DOMAIN analyses :
        \E j \in DOMAIN analyses[i].contradictions : x = Said(i, j, analyses[i].contradictions[j])
  BY DEF ContradictionsOf
<1>1. PICK j \in DOMAIN analyses[i].contradictions : x = Said(i, j, analyses[i].contradictions[j])
  BY <1>0
<1>2. x.item = analyses[i].contradictions[j]
  BY <1>1 DEF Said
<1>3. x.item \in SgRange(analyses[i].contradictions) /\ analyses[i] \in SgRange(analyses)
  BY <1>1, <1>2 DEF SgRange
<1> QED
  BY <1>3 DEF Cited, CitedBy

LEMMA AnalysesAreFinite ==
  ASSUME NEW analyses \in Seq(SgAnalysis)
  PROVE  /\ IsFiniteSet(DOMAIN analyses)
         /\ \A i \in DOMAIN analyses : /\ IsFiniteSet(DOMAIN analyses[i].findings)
                                       /\ IsFiniteSet(DOMAIN analyses[i].contradictions)
<1>1. ASSUME NEW S, NEW s \in Seq(S) PROVE IsFiniteSet(DOMAIN s)
  <2>1. DOMAIN s = 1..Len(s) /\ Len(s) \in Int /\ 1 \in Int
    OBVIOUS
  <2> QED
    BY <2>1, FS_Interval
<1>2. ASSUME NEW i \in DOMAIN analyses
      PROVE  /\ IsFiniteSet(DOMAIN analyses[i].findings)
             /\ IsFiniteSet(DOMAIN analyses[i].contradictions)
  <2>1. analyses[i] \in SgAnalysis
    OBVIOUS
  <2>2. /\ analyses[i].findings \in Seq([category : STRING, cites : SUBSET STRING])
        /\ analyses[i].contradictions \in Seq([open : BOOLEAN, cites : SUBSET STRING])
    BY <2>1, SignalAssumption
  <2> QED
    BY <1>1, <2>2
<1> QED
  BY <1>1, <1>2

LEMMA SaidIsFinite ==
  ASSUME NEW analyses \in Seq(SgAnalysis), NEW categories
  PROVE  IsFiniteSet(FindingsOf(analyses, categories)) /\ IsFiniteSet(ContradictionsOf(analyses))
<1> DEFINE D == DOMAIN analyses
           F(i) == {k \in DOMAIN analyses[i].findings : analyses[i].findings[k].category \in categories}
           f == [i \in D |-> {Said(i, j, analyses[i].findings[j]) : j \in F(i)}]
           g == [i \in D |-> {Said(i, j, analyses[i].contradictions[j]) :
                                j \in DOMAIN analyses[i].contradictions}]
<1>1. IsFiniteSet(D) /\ \A i \in D : /\ IsFiniteSet(DOMAIN analyses[i].findings)
                                     /\ IsFiniteSet(DOMAIN analyses[i].contradictions)
  BY AnalysesAreFinite
<1>2. \A i \in D : IsFiniteSet(f[i])
  <2> SUFFICES ASSUME NEW i \in D PROVE IsFiniteSet(f[i])
    OBVIOUS
  <2>1. F(i) \in SUBSET DOMAIN analyses[i].findings
    OBVIOUS
  <2>2. IsFiniteSet(F(i))
    BY <1>1, <2>1, FS_Subset
  <2> DEFINE S == F(i)
             h == [j \in S |-> Said(i, j, analyses[i].findings[j])]
  <2>3. f[i] = {h[j] : j \in S}
    OBVIOUS
  <2> HIDE DEF S, h, f
  <2>4. IsFiniteSet({h[j] : j \in S})
    BY <2>2, ImageIsFinite DEF S
  <2> QED
    BY <2>3, <2>4
<1>3. \A i \in D : IsFiniteSet(g[i])
  <2> SUFFICES ASSUME NEW i \in D PROVE IsFiniteSet(g[i])
    OBVIOUS
  <2> DEFINE S == DOMAIN analyses[i].contradictions
             h == [j \in S |-> Said(i, j, analyses[i].contradictions[j])]
  <2>1. IsFiniteSet(S)
    BY <1>1
  <2>2. g[i] = {h[j] : j \in S}
    OBVIOUS
  <2> HIDE DEF S, h, g
  <2>3. IsFiniteSet({h[j] : j \in S})
    BY <2>1, ImageIsFinite
  <2> QED
    BY <2>2, <2>3
<1>4. FindingsOf(analyses, categories) = UNION {f[i] : i \in D}
  BY DEF FindingsOf
<1>5. ContradictionsOf(analyses) = UNION {g[i] : i \in D}
  BY DEF ContradictionsOf
<1> HIDE DEF D, f, g
<1>6. IsFiniteSet({f[i] : i \in D}) /\ IsFiniteSet({g[i] : i \in D})
  BY <1>1, ImageIsFinite
<1>7. IsFiniteSet(UNION {f[i] : i \in D})
  BY <1>2, <1>6, FS_UNION
<1>8. IsFiniteSet(UNION {g[i] : i \in D})
  BY <1>3, <1>6, FS_UNION
<1> QED
  BY <1>4, <1>5, <1>7, <1>8

-----------------------------------------------------------------------------
(* The traces of each dimension *)

MetricTraces(metrics) ==
  {Trace(<<m.name>>, OpportunityRule(m.name, m.value), {}) :
     m \in {n \in metrics : n.name \in OpportunityMetrics}}

FindingTraces(findings, n, points) ==
  {Trace(<<"qualitative", Rank(f, findings)>>, points, f.item.cites) : f \in FirstOf(findings, n)}

RiskMetricTraces(metrics) ==
  {Trace(<<m.name>>, RiskRule(m.name, m.value), {}) :
     m \in {n \in metrics : n.name \in RiskMetrics}}

AgainstTraces(against) ==
  {Trace(<<"contradiction", Rank(x, against)>>, IF x.item.open THEN 15 ELSE 3, x.item.cites) :
     x \in against}

LEMMA MetricTracesAre ==
  ASSUME NEW metrics, IsFiniteSet(metrics), metrics \subseteq SgOffer
  PROVE  /\ AreTraces(MetricTraces(metrics)) /\ AreTraces(RiskMetricTraces(metrics))
         /\ \A t \in MetricTraces(metrics) : t.points >= 0 /\ t.evidence = {}
         /\ \A t \in RiskMetricTraces(metrics) : t.points >= 0 /\ t.evidence = {}
<1> DEFINE O == {n \in metrics : n.name \in OpportunityMetrics}
           R == {n \in metrics : n.name \in RiskMetrics}
           f == [m \in O |-> Trace(<<m.name>>, OpportunityRule(m.name, m.value), {})]
           g == [m \in R |-> Trace(<<m.name>>, RiskRule(m.name, m.value), {})]
<1>1. IsFiniteSet(O) /\ IsFiniteSet(R)
  <2>1. O \in SUBSET metrics /\ R \in SUBSET metrics
    OBVIOUS
  <2> QED
    BY <2>1, FS_Subset
<1>2. \A m \in O : f[m].points \in Nat /\ f[m].evidence = {}
  <2> SUFFICES ASSUME NEW m \in O PROVE f[m].points \in Nat /\ f[m].evidence = {}
    OBVIOUS
  <2>1. m.name \in OpportunityMetrics /\ m.value \in Int
    BY SignalAssumption
  <2>2. OpportunityRule(m.name, m.value) \in Nat
    BY <2>1, OpportunityPoints
  <2> QED
    BY <2>2, TraceFields
<1>3. \A m \in R : g[m].points \in Nat /\ g[m].evidence = {}
  <2> SUFFICES ASSUME NEW m \in R PROVE g[m].points \in Nat /\ g[m].evidence = {}
    OBVIOUS
  <2>1. m.name \in RiskMetrics /\ m.value \in Int
    BY SignalAssumption
  <2>2. RiskRule(m.name, m.value) \in Nat
    BY <2>1, RiskPoints
  <2> QED
    BY <2>2, TraceFields
<1>4. MetricTraces(metrics) = {f[m] : m \in O}
  BY DEF MetricTraces
<1>5. RiskMetricTraces(metrics) = {g[m] : m \in R}
  BY DEF RiskMetricTraces
<1> HIDE DEF O, R, f, g
<1>6. IsFiniteSet({f[m] : m \in O}) /\ IsFiniteSet({g[m] : m \in R})
  BY <1>1, ImageIsFinite
<1>7. \A t \in MetricTraces(metrics) : t.points \in Nat /\ t.evidence = {}
  BY <1>2, <1>4
<1>8. \A t \in RiskMetricTraces(metrics) : t.points \in Nat /\ t.evidence = {}
  BY <1>3, <1>5
<1> QED
  BY <1>4, <1>5, <1>6, <1>7, <1>8 DEF AreTraces

LEMMA FindingTracesAre ==
  ASSUME NEW analyses \in Seq(SgAnalysis), NEW categories, NEW n, NEW points \in Nat
  PROVE  LET T == FindingTraces(FindingsOf(analyses, categories), n, points)
         IN AreTraces(T) /\ \A t \in T : t.points >= 0 /\ t.evidence \subseteq Cited(analyses)
<1> DEFINE findings == FindingsOf(analyses, categories)
           S == FirstOf(findings, n)
           f == [x \in S |-> Trace(<<"qualitative", Rank(x, findings)>>, points, x.item.cites)]
           T == FindingTraces(findings, n, points)
<1>1. S \in SUBSET findings
  BY DEF FirstOf
<1>2. IsFiniteSet(S)
  <2>1. IsFiniteSet(findings)
    BY SaidIsFinite
  <2> QED
    BY <1>1, <2>1, FS_Subset
<1>3. \A x \in S : f[x].points = points /\ f[x].evidence = x.item.cites
  BY TraceFields
<1>4. \A x \in S : x.item.cites \subseteq Cited(analyses)
  BY <1>1, SaidFindings
<1>5. T = {f[x] : x \in S}
  BY DEF FindingTraces
<1> HIDE DEF findings, S, f, T
<1>6. IsFiniteSet({f[x] : x \in S})
  BY <1>2, ImageIsFinite
<1>7. \A t \in T : t.points \in Int /\ t.points >= 0 /\ t.evidence \subseteq Cited(analyses)
  BY <1>3, <1>4, <1>5
<1>8. AreTraces(T)
  BY <1>5, <1>6, <1>7 DEF AreTraces
<1> QED
  BY <1>7, <1>8 DEF T, findings

LEMMA AgainstTracesAre ==
  ASSUME NEW analyses \in Seq(SgAnalysis)
  PROVE  LET T == AgainstTraces(ContradictionsOf(analyses))
         IN AreTraces(T) /\ \A t \in T : t.points >= 0 /\ t.evidence \subseteq Cited(analyses)
<1> DEFINE S == ContradictionsOf(analyses)
           f == [x \in S |-> Trace(<<"contradiction", Rank(x, S)>>, IF x.item.open THEN 15 ELSE 3,
                                   x.item.cites)]
           T == AgainstTraces(S)
<1>1. IsFiniteSet(S)
  BY SaidIsFinite
<1>2. \A x \in S : f[x].points \in {3, 15} /\ f[x].evidence = x.item.cites
  BY TraceFields
<1>3. \A x \in S : x.item.cites \subseteq Cited(analyses)
  BY SaidAgainst
<1>4. T = {f[x] : x \in S}
  BY DEF AgainstTraces
<1> HIDE DEF S, f, T
<1>5. IsFiniteSet({f[x] : x \in S})
  BY <1>1, ImageIsFinite
<1>6. \A t \in T : t.points \in {3, 15} /\ t.evidence \subseteq Cited(analyses)
  BY <1>2, <1>3, <1>4
<1>7. AreTraces(T) /\ \A t \in T : t.points >= 0
  BY <1>4, <1>5, <1>6 DEF AreTraces
<1> QED
  BY <1>6, <1>7 DEF T, S


CoverageTraces(names) == {Trace(<<c[1]>>, 10, {}) : c \in {d \in Coverage : d[2] \cap names # {}}}

RiskCoverageTraces(names) ==
  {Trace(<<"risk coverage">>, IF RiskCoverage \cap names = RiskCoverage THEN 15 ELSE 8, {}) :
     r \in {x \in {RiskCoverage \cap names} : x # {}}}

(* The traces of the confidence that metrics have no part in.                *)
AnalysisTraces(analyses) ==
  LET cited == Cited(analyses)
      open == {x \in ContradictionsOf(analyses) : x.item.open}
      weights == SumFunctionOnSet([e \in cited |-> SourceWeight(SgEvidence[e].class)], cited)
  IN {Trace(<<"validated analysis">>, 15, {}) : r \in {x \in {analyses} : x # <<>>}}
       \cup {Trace(<<"cited sources">>, Min({20, weights}), cited) : r \in {x \in {cited} : x # {}}}
       \cup {Trace(<<"role diversity">>, Min({10, 3 * Len(analyses)}), {}) :
               r \in {x \in {analyses} : x # <<>>}}
       \cup {Trace(<<"unresolved contradiction">>, -15, UNION {x.item.cites : x \in open}) :
               r \in {x \in {open} : x # {}}}

LEMMA CoverageIsFinite == IsFiniteSet(Coverage)
<1> DEFINE a == <<"momentum", {"cumulative_price_return"}>>
           b == <<"benchmark", {"benchmark_relative_return"}>>
           c == <<"fundamentals", {"period_over_period_growth", "gross_margin", "debt_to_equity_ratio"}>>
           d == <<"valuation", {"price_to_earnings_ratio"}>>
<1>1. Coverage = {a, b, c, d}
  BY DEF Coverage
<1> HIDE DEF a, b, c, d
<1>2. IsFiniteSet({a} \cup {b})
  BY FS_Singleton, FS_AddElement
<1>3. IsFiniteSet(({a} \cup {b}) \cup {c})
  BY <1>2, FS_AddElement
<1>4. IsFiniteSet((({a} \cup {b}) \cup {c}) \cup {d})
  BY <1>3, FS_AddElement
<1>5. Coverage = (({a} \cup {b}) \cup {c}) \cup {d}
  BY <1>1
<1> QED
  BY <1>4, <1>5

CoverageRules == {"momentum", "benchmark", "fundamentals", "valuation"}
AnalysisRules ==
  {"validated analysis", "cited sources", "role diversity", "unresolved contradiction"}

LEMMA CoverageTracesAre ==
  ASSUME NEW names
  PROVE  /\ AreTraces(CoverageTraces(names))
         /\ \A t \in CoverageTraces(names) :
              t.points = 10 /\ t.evidence = {} /\ t.rule[1] \in CoverageRules
<1> DEFINE S == {d \in Coverage : d[2] \cap names # {}}
           f == [c \in S |-> Trace(<<c[1]>>, 10, {})]
<1>1. IsFiniteSet(S)
  <2>1. S \in SUBSET Coverage
    OBVIOUS
  <2> QED
    BY <2>1, CoverageIsFinite, FS_Subset
<1>2. CoverageTraces(names) = {f[c] : c \in S}
  BY DEF CoverageTraces
<1>3. \A c \in S : f[c].points = 10 /\ f[c].evidence = {} /\ f[c].rule = <<c[1]>>
  BY TraceFields
<1>4. \A c \in S : c[1] \in CoverageRules
  BY DEF Coverage, CoverageRules
<1> HIDE DEF S, f
<1>5. IsFiniteSet({f[c] : c \in S})
  BY <1>1, ImageIsFinite
<1>6. \A t \in CoverageTraces(names) :
        t.points = 10 /\ t.evidence = {} /\ t.rule[1] \in CoverageRules
  BY <1>2, <1>3, <1>4
<1> QED
  BY <1>2, <1>5, <1>6 DEF AreTraces

LEMMA RiskCoverageTracesAre ==
  ASSUME NEW names
  PROVE  /\ AreTraces(RiskCoverageTraces(names))
         /\ \A t \in RiskCoverageTraces(names) :
              t.points >= 0 /\ t.evidence = {} /\ t.rule[1] = "risk coverage"
         /\ RiskCoverage \cap names = {} => Points(RiskCoverageTraces(names)) = 0
         /\ RiskCoverage \cap names # {} =>
              Points(RiskCoverageTraces(names)) = IF RiskCoverage \subseteq names THEN 15 ELSE 8
<1> DEFINE n == IF RiskCoverage \subseteq names THEN 15 ELSE 8
           t == Trace(<<"risk coverage">>, n, {})
           T == RiskCoverageTraces(names)
<1>1. n \in Int /\ n >= 0
  OBVIOUS
<1>2. (RiskCoverage \cap names = RiskCoverage) <=> RiskCoverage \subseteq names
  OBVIOUS
<1>3. (IF RiskCoverage \cap names = RiskCoverage THEN 15 ELSE 8) = n
  BY <1>2
<1>4. /\ RiskCoverage \cap names = {} => T = {}
      /\ RiskCoverage \cap names # {} => T = {t}
  BY <1>3 DEF RiskCoverageTraces
<1> HIDE DEF n
<1>5. t.points = n /\ t.evidence = {} /\ t.rule = <<"risk coverage">>
  BY DEF Trace
<1>6. t.rule[1] = "risk coverage"
  BY DEF Trace
<1> HIDE DEF t, T
<1>7. AreTraces({t}) /\ Points({t}) = n
  BY <1>1, <1>5, PointsOfOne
<1>8. AreTraces({})
  BY FS_EmptySet DEF AreTraces
<1>9. AreTraces(T)
  BY <1>4, <1>7, <1>8
<1>10. \A x \in T : x.points >= 0 /\ x.evidence = {} /\ x.rule[1] = "risk coverage"
  BY <1>1, <1>4, <1>5, <1>6
<1>11. /\ RiskCoverage \cap names = {} => Points(T) = 0
       /\ RiskCoverage \cap names # {} => Points(T) = n
  BY <1>4, <1>7, PointsOfNone
<1> QED
  BY <1>9, <1>10, <1>11 DEF T, n

LEMMA RiskCoverageGrows ==
  ASSUME NEW names, NEW fewer \in SUBSET names
  PROVE  Points(RiskCoverageTraces(fewer)) <= Points(RiskCoverageTraces(names))
<1> DEFINE a == Points(RiskCoverageTraces(fewer))
           b == Points(RiskCoverageTraces(names))
<1>1. /\ RiskCoverage \cap fewer = {} => a = 0
      /\ RiskCoverage \cap fewer # {} => a = IF RiskCoverage \subseteq fewer THEN 15 ELSE 8
  BY RiskCoverageTracesAre
<1>2. /\ RiskCoverage \cap names = {} => b = 0
      /\ RiskCoverage \cap names # {} => b = IF RiskCoverage \subseteq names THEN 15 ELSE 8
  BY RiskCoverageTracesAre
<1>3. /\ RiskCoverage \cap names = {} => RiskCoverage \cap fewer = {}
      /\ RiskCoverage \subseteq fewer => RiskCoverage \subseteq names
  OBVIOUS
<1> HIDE DEF a, b
<1>4. a <= b
  BY <1>1, <1>2, <1>3
<1> QED
  BY <1>4 DEF a, b

LEMMA WeightsAre ==
  ASSUME NEW cited, cited \subseteq DOMAIN SgEvidence
  PROVE  SumFunctionOnSet([e \in cited |-> SourceWeight(SgEvidence[e].class)], cited) \in Int
<1> DEFINE w == [e \in cited |-> SourceWeight(SgEvidence[e].class)]
<1>1. IsFiniteSet(cited)
  <2>1. IsFiniteSet(DOMAIN SgEvidence) /\ cited \in SUBSET DOMAIN SgEvidence
    BY SignalAssumption
  <2> QED
    BY <2>1, FS_Subset
<1>2. \A e \in cited : w[e] \in Int
  <2> SUFFICES ASSUME NEW e \in cited PROVE SourceWeight(SgEvidence[e].class) \in Int
    OBVIOUS
  <2>1. SgEvidence[e].class \in SourceClass
    BY SignalAssumption
  <2> DEFINE c == SgEvidence[e].class
  <2> HIDE DEF c
  <2>2. c \in SourceClass
    BY <2>1 DEF c
  <2>3. SourceWeight(c) \in Int
    BY <2>2 DEF SourceWeight, SourceClass
  <2> QED
    BY <2>3 DEF c
<1> HIDE DEF w
<1>3. SumFunctionOnSet(w, cited) \in Int
  BY <1>1, <1>2, SumIsInteger
<1> QED
  BY <1>3 DEF w

LEMMA AnalysisTracesAre ==
  ASSUME NEW analyses \in Seq(SgAnalysis), Cited(analyses) \subseteq DOMAIN SgEvidence
  PROVE  /\ AreTraces(AnalysisTraces(analyses))
         /\ \A t \in AnalysisTraces(analyses) :
              t.evidence \subseteq Cited(analyses) /\ t.rule[1] \in AnalysisRules
         /\ Cited(analyses) # {} => \E t \in AnalysisTraces(analyses) : t.evidence = Cited(analyses)
<1> DEFINE cited == Cited(analyses)
           open == {x \in ContradictionsOf(analyses) : x.item.open}
           weights == SumFunctionOnSet([e \in cited |-> SourceWeight(SgEvidence[e].class)], cited)
           against == UNION {x.item.cites : x \in open}
           a == Trace(<<"validated analysis">>, 15, {})
           b == Trace(<<"cited sources">>, Min({20, weights}), cited)
           c == Trace(<<"role diversity">>, Min({10, 3 * Len(analyses)}), {})
           d == Trace(<<"unresolved contradiction">>, -15, against)
           T == AnalysisTraces(analyses)
           A == {a : r \in {x \in {analyses} : x # <<>>}}
           B == {b : r \in {x \in {cited} : x # {}}}
           C == {c : r \in {x \in {analyses} : x # <<>>}}
           D == {d : r \in {x \in {open} : x # {}}}
<1>1. T = ((A \cup B) \cup C) \cup D
  BY DEF AnalysisTraces
<1>2. against \subseteq cited
  BY SaidAgainst
<1>3. weights \in Int
  BY WeightsAre
<1> HIDE DEF cited, open, weights, against
<1>4. Min({20, weights}) \in Int
  <2>1. 20 \in Int
    OBVIOUS
  <2>2. Min({20, weights}) = IF 20 <= weights THEN 20 ELSE weights
    BY <1>3, <2>1, MinOfTwo
  <2> QED
    BY <1>3, <2>2
<1>5. Min({10, 3 * Len(analyses)}) \in Int
  <2> DEFINE n == 3 * Len(analyses)
  <2>1. 10 \in Int /\ n \in Int
    BY LenProperties
  <2> HIDE DEF n
  <2>2. Min({10, n}) = IF 10 <= n THEN 10 ELSE n
    BY <2>1, MinOfTwo
  <2>3. Min({10, n}) \in Int
    BY <2>1, <2>2
  <2> QED
    BY <2>3 DEF n
<1>9. A \subseteq {a} /\ B \subseteq {b} /\ C \subseteq {c} /\ D \subseteq {d}
  OBVIOUS
<1>10. cited # {} => b \in B
  OBVIOUS
<1> DEFINE m == Min({20, weights})
           k == Min({10, 3 * Len(analyses)})
<1> HIDE DEF m, k
<1>6. /\ a.points = 15 /\ a.evidence = {} /\ a.rule = <<"validated analysis">>
      /\ b.points = m /\ b.evidence = cited /\ b.rule = <<"cited sources">>
      /\ c.points = k /\ c.evidence = {} /\ c.rule = <<"role diversity">>
      /\ d.points = -15 /\ d.evidence = against /\ d.rule = <<"unresolved contradiction">>
  <2>1. a.points = 15 /\ a.evidence = {} /\ a.rule = <<"validated analysis">>
    BY DEF Trace
  <2>2. b.points = m /\ b.evidence = cited /\ b.rule = <<"cited sources">>
    BY DEF Trace, m
  <2>3. c.points = k /\ c.evidence = {} /\ c.rule = <<"role diversity">>
    BY DEF Trace, k
  <2>4. d.points = -15 /\ d.evidence = against /\ d.rule = <<"unresolved contradiction">>
    BY DEF Trace
  <2> QED
    BY <2>1, <2>2, <2>3, <2>4
<1>15. m \in Int /\ k \in Int
  BY <1>4, <1>5 DEF m, k
<1> HIDE DEF a, b, c, d, T, A, B, C, D
<1>7. /\ a.rule[1] \in AnalysisRules /\ b.rule[1] \in AnalysisRules
      /\ c.rule[1] \in AnalysisRules /\ d.rule[1] \in AnalysisRules
  <2>1. <<"validated analysis">>[1] = "validated analysis" /\ <<"cited sources">>[1] = "cited sources"
    OBVIOUS
  <2>2. /\ <<"role diversity">>[1] = "role diversity"
        /\ <<"unresolved contradiction">>[1] = "unresolved contradiction"
    OBVIOUS
  <2> QED
    BY <1>6, <2>1, <2>2, Zenon DEF AnalysisRules
<1>8. a.points \in Int /\ b.points \in Int /\ c.points \in Int /\ d.points \in Int
  <2>1. 15 \in Int /\ -15 \in Int
    OBVIOUS
  <2> QED
    BY <1>6, <1>15, <2>1, Zenon
<1>11. AreTraces(A) /\ AreTraces(B) /\ AreTraces(C) /\ AreTraces(D)
  <2>1. IsFiniteSet(A) /\ IsFiniteSet(B) /\ IsFiniteSet(C) /\ IsFiniteSet(D)
    BY <1>9, AtMostOneIsFinite
  <2> QED
    BY <1>8, <1>9, <2>1 DEF AreTraces
<1>12. AreTraces(T)
  <2>1. AreTraces(A \cup B)
    BY <1>11, TracesOfBoth
  <2>2. AreTraces((A \cup B) \cup C)
    BY <1>11, <2>1, TracesOfBoth
  <2>3. AreTraces(((A \cup B) \cup C) \cup D)
    BY <1>11, <2>2, TracesOfBoth
  <2> QED
    BY <1>1, <2>3
<1>13. \A t \in T : t.evidence \subseteq cited /\ t.rule[1] \in AnalysisRules
  BY <1>1, <1>2, <1>6, <1>7, <1>9
<1>14. cited # {} => \E t \in T : t.evidence = cited
  BY <1>1, <1>6, <1>10
<1> QED
  BY <1>12, <1>13, <1>14 DEF T, cited


-----------------------------------------------------------------------------
(* What each dimension adds up, before a dimension without traces gets one   *)

OpportunityFindings(analyses) == FindingTraces(FindingsOf(analyses, {"catalyst", "bull case"}), 2, 5)
RiskFindings(analyses) == FindingTraces(FindingsOf(analyses, {"risk", "bear case"}), 3, 10)
OpportunityParts(metrics, analyses) == MetricTraces(metrics) \cup OpportunityFindings(analyses)
RiskParts(metrics, analyses) ==
  (RiskMetricTraces(metrics) \cup RiskFindings(analyses)) \cup AgainstTraces(ContradictionsOf(analyses))
Names(metrics) == {m.name : m \in metrics}
ConfidenceParts(metrics, analyses) ==
  (CoverageTraces(Names(metrics)) \cup RiskCoverageTraces(Names(metrics))) \cup AnalysisTraces(analyses)

LEMMA DimensionsAre ==
  ASSUME NEW metrics, NEW analyses
  PROVE  /\ OpportunityTraces(metrics, analyses) = OrZero(OpportunityParts(metrics, analyses), "no inputs")
         /\ RiskTraces(metrics, analyses) = OrZero(RiskParts(metrics, analyses), "no inputs")
         /\ ConfidenceTraces(metrics, analyses) = OrZero(ConfidenceParts(metrics, analyses), "no inputs")
<1>1. OpportunityTraces(metrics, analyses) = OrZero(OpportunityParts(metrics, analyses), "no inputs")
  BY DEF OpportunityTraces, OpportunityParts, OpportunityFindings, MetricTraces, FindingTraces
<1>2. RiskTraces(metrics, analyses) = OrZero(RiskParts(metrics, analyses), "no inputs")
  BY DEF RiskTraces, RiskParts, RiskFindings, RiskMetricTraces, FindingTraces, AgainstTraces
<1>3. ConfidenceTraces(metrics, analyses) = OrZero(ConfidenceParts(metrics, analyses), "no inputs")
  <2> DEFINE names == Names(metrics)
             A == CoverageTraces(names)
             B == RiskCoverageTraces(names)
             cited == Cited(analyses)
             open == {x \in ContradictionsOf(analyses) : x.item.open}
             weights == SumFunctionOnSet([e \in cited |-> SourceWeight(SgEvidence[e].class)], cited)
             C1 == {Trace(<<"validated analysis">>, 15, {}) : r \in {x \in {analyses} : x # <<>>}}
             C2 == {Trace(<<"cited sources">>, Min({20, weights}), cited) : r \in {x \in {cited} : x # {}}}
             C3 == {Trace(<<"role diversity">>, Min({10, 3 * Len(analyses)}), {}) :
                      r \in {x \in {analyses} : x # <<>>}}
             C4 == {Trace(<<"unresolved contradiction">>, -15, UNION {x.item.cites : x \in open}) :
                      r \in {x \in {open} : x # {}}}
  <2>1. ConfidenceTraces(metrics, analyses)
          = OrZero(((((A \cup B) \cup C1) \cup C2) \cup C3) \cup C4, "no inputs")
    BY Zenon DEF ConfidenceTraces, Names, CoverageTraces, RiskCoverageTraces
  <2>2. AnalysisTraces(analyses) = ((C1 \cup C2) \cup C3) \cup C4
    BY Zenon DEF AnalysisTraces
  <2> HIDE DEF A, B, C1, C2, C3, C4
  <2>3. ((((A \cup B) \cup C1) \cup C2) \cup C3) \cup C4 = (A \cup B) \cup (((C1 \cup C2) \cup C3) \cup C4)
    OBVIOUS
  <2>4. ConfidenceParts(metrics, analyses) = (A \cup B) \cup AnalysisTraces(analyses)
    BY DEF ConfidenceParts, A, B
  <2> QED
    BY <2>1, <2>2, <2>3, <2>4
<1> QED
  BY <1>1, <1>2, <1>3

LEMMA OpportunityPartsAre ==
  ASSUME NEW metrics, IsFiniteSet(metrics), metrics \subseteq SgOffer, NEW analyses \in Seq(SgAnalysis)
  PROVE  /\ AreTraces(OpportunityParts(metrics, analyses))
         /\ \A t \in OpportunityParts(metrics, analyses) :
              t.points >= 0 /\ t.evidence \subseteq Cited(analyses)
<1> DEFINE A == MetricTraces(metrics)
           B == OpportunityFindings(analyses)
<1>1. AreTraces(A) /\ \A t \in A : t.points >= 0 /\ t.evidence = {}
  BY MetricTracesAre
<1>2. AreTraces(B) /\ \A t \in B : t.points >= 0 /\ t.evidence \subseteq Cited(analyses)
  <2>1. 5 \in Nat
    OBVIOUS
  <2> QED
    BY <2>1, FindingTracesAre, Zenon DEF OpportunityFindings
<1>3. OpportunityParts(metrics, analyses) = A \cup B
  BY DEF OpportunityParts
<1> HIDE DEF A, B
<1>4. AreTraces(A \cup B)
  BY <1>1, <1>2, TracesOfBoth
<1> QED
  BY <1>1, <1>2, <1>3, <1>4

LEMMA RiskPartsAre ==
  ASSUME NEW metrics, IsFiniteSet(metrics), metrics \subseteq SgOffer, NEW analyses \in Seq(SgAnalysis)
  PROVE  /\ AreTraces(RiskParts(metrics, analyses))
         /\ \A t \in RiskParts(metrics, analyses) :
              t.points >= 0 /\ t.evidence \subseteq Cited(analyses)
<1> DEFINE A == RiskMetricTraces(metrics)
           B == RiskFindings(analyses)
           C == AgainstTraces(ContradictionsOf(analyses))
<1>1. AreTraces(A) /\ \A t \in A : t.points >= 0 /\ t.evidence = {}
  BY MetricTracesAre
<1>2. AreTraces(B) /\ \A t \in B : t.points >= 0 /\ t.evidence \subseteq Cited(analyses)
  <2>1. 10 \in Nat
    OBVIOUS
  <2> QED
    BY <2>1, FindingTracesAre, Zenon DEF RiskFindings
<1>3. AreTraces(C) /\ \A t \in C : t.points >= 0 /\ t.evidence \subseteq Cited(analyses)
  BY AgainstTracesAre, Zenon
<1>4. RiskParts(metrics, analyses) = (A \cup B) \cup C
  BY DEF RiskParts
<1> HIDE DEF A, B, C
<1>5. AreTraces(A \cup B)
  BY <1>1, <1>2, TracesOfBoth
<1>6. AreTraces((A \cup B) \cup C)
  BY <1>3, <1>5, TracesOfBoth
<1> QED
  BY <1>1, <1>2, <1>3, <1>4, <1>6

LEMMA ConfidencePartsAre ==
  ASSUME NEW metrics, NEW analyses \in Seq(SgAnalysis), Cited(analyses) \subseteq DOMAIN SgEvidence
  PROVE  /\ AreTraces(ConfidenceParts(metrics, analyses))
         /\ \A t \in ConfidenceParts(metrics, analyses) : t.evidence \subseteq Cited(analyses)
         /\ Cited(analyses) # {} =>
              \E t \in ConfidenceParts(metrics, analyses) : t.evidence = Cited(analyses)
         /\ Points(ConfidenceParts(metrics, analyses))
              = Points(CoverageTraces(Names(metrics))) + Points(RiskCoverageTraces(Names(metrics)))
                + Points(AnalysisTraces(analyses))
<1> DEFINE A == CoverageTraces(Names(metrics))
           B == RiskCoverageTraces(Names(metrics))
           C == AnalysisTraces(analyses)
<1>1. AreTraces(A) /\ \A t \in A : t.evidence = {} /\ t.rule[1] \in CoverageRules
  BY CoverageTracesAre
<1>2. AreTraces(B) /\ \A t \in B : t.evidence = {} /\ t.rule[1] = "risk coverage"
  BY RiskCoverageTracesAre
<1>3. /\ AreTraces(C)
      /\ \A t \in C : t.evidence \subseteq Cited(analyses) /\ t.rule[1] \in AnalysisRules
      /\ Cited(analyses) # {} => \E t \in C : t.evidence = Cited(analyses)
  BY AnalysisTracesAre
<1>4. ConfidenceParts(metrics, analyses) = (A \cup B) \cup C
  BY DEF ConfidenceParts
<1> HIDE DEF A, B, C
<1>5. AreTraces(A \cup B)
  BY <1>1, <1>2, TracesOfBoth
<1>6. AreTraces((A \cup B) \cup C)
  BY <1>3, <1>5, TracesOfBoth
<1>7. /\ "risk coverage" \notin CoverageRules /\ "risk coverage" \notin AnalysisRules
      /\ CoverageRules \cap AnalysisRules = {}
  BY DEF CoverageRules, AnalysisRules
<1>8. A \cap B = {} /\ (A \cup B) \cap C = {}
  BY <1>1, <1>2, <1>3, <1>7
<1>9. Points(A \cup B) = Points(A) + Points(B)
  BY <1>1, <1>2, <1>8, PointsOfBoth
<1>10. Points((A \cup B) \cup C) = Points(A \cup B) + Points(C)
  BY <1>3, <1>5, <1>8, PointsOfBoth
<1> QED
  BY <1>1, <1>2, <1>3, <1>4, <1>6, <1>9, <1>10 DEF A, B, C

LEMMA ScoresAre ==
  ASSUME NEW metrics, IsFiniteSet(metrics), metrics \subseteq SgOffer, NEW analyses \in Seq(SgAnalysis),
         Cited(analyses) \subseteq DOMAIN SgEvidence
  PROVE  /\ AreTraces(OpportunityTraces(metrics, analyses))
         /\ AreTraces(RiskTraces(metrics, analyses))
         /\ AreTraces(ConfidenceTraces(metrics, analyses))
         /\ Score(OpportunityTraces(metrics, analyses)) \in Int
         /\ Score(RiskTraces(metrics, analyses)) \in Int
         /\ Score(ConfidenceTraces(metrics, analyses)) \in Int
<1>1. /\ AreTraces(OpportunityTraces(metrics, analyses))
      /\ AreTraces(RiskTraces(metrics, analyses))
      /\ AreTraces(ConfidenceTraces(metrics, analyses))
  <2>1. /\ AreTraces(OpportunityParts(metrics, analyses)) /\ AreTraces(RiskParts(metrics, analyses))
        /\ AreTraces(ConfidenceParts(metrics, analyses))
    BY OpportunityPartsAre, RiskPartsAre, ConfidencePartsAre
  <2> QED
    BY <2>1, DimensionsAre, ZeroTrace
<1> QED
  BY <1>1, ScoreIsInteger


-----------------------------------------------------------------------------
(* The three parts of the property *)

LEMMA EvidenceIsNamed ==
  ASSUME SgInv
  PROVE  TracesNameTheEvidence
<1> DEFINE M == sgMetrics
           N == sgAnalyses
           o == OpportunityTraces(M, N)
           r == RiskTraces(M, N)
           c == ConfidenceTraces(M, N)
           O == OpportunityParts(M, N)
           R == RiskParts(M, N)
           C == ConfidenceParts(M, N)
           cited == Cited(N)
<1>1. IsFiniteSet(M) /\ M \subseteq SgOffer /\ N \in Seq(SgAnalysis) /\ Cited(N) \subseteq DOMAIN SgEvidence
  BY DEF SgInv
<1>2. AreTraces(O) /\ \A t \in O : t.evidence \subseteq cited
  BY <1>1, OpportunityPartsAre
<1>3. AreTraces(R) /\ \A t \in R : t.evidence \subseteq cited
  BY <1>1, RiskPartsAre
<1>4. /\ AreTraces(C) /\ \A t \in C : t.evidence \subseteq cited
      /\ cited # {} => \E t \in C : t.evidence = cited
  BY <1>1, ConfidencePartsAre
<1>5. o = OrZero(O, "no inputs") /\ r = OrZero(R, "no inputs") /\ c = OrZero(C, "no inputs")
  BY DimensionsAre
<1>6. Signal(M, N).evidence = UNION {t.evidence : t \in (o \cup r) \cup c}
  BY DEF Signal
<1> HIDE DEF M, N, o, r, c, O, R, C, cited
<1>7. /\ UNION {t.evidence : t \in o} = UNION {t.evidence : t \in O}
      /\ UNION {t.evidence : t \in r} = UNION {t.evidence : t \in R}
      /\ UNION {t.evidence : t \in c} = UNION {t.evidence : t \in C}
  BY <1>2, <1>3, <1>4, <1>5, ZeroTrace
<1>8. UNION {t.evidence : t \in (o \cup r) \cup c}
        = ((UNION {t.evidence : t \in o}) \cup (UNION {t.evidence : t \in r}))
          \cup (UNION {t.evidence : t \in c})
  OBVIOUS
<1>9. UNION {t.evidence : t \in O} \subseteq cited /\ UNION {t.evidence : t \in R} \subseteq cited
  BY <1>2, <1>3
<1>10. UNION {t.evidence : t \in C} = cited
  BY <1>4
<1>11. Signal(M, N).evidence = cited
  BY <1>6, <1>7, <1>8, <1>9, <1>10
<1> QED
  BY <1>11 DEF TracesNameTheEvidence, M, N, cited

(* The label and the profile, for any three scores.                          *)
LabelsShow(label, profile, r) ==
  /\ r > 60 => /\ label \in {"speculative", "weak", "insufficient evidence"}
               /\ profile \in {"aggressive", "elevated", "unclassified"}
  /\ label = "strong" => profile = "conservative"
  /\ label = "speculative" <=> profile = "aggressive"
  /\ label = "insufficient evidence" <=> profile = "unclassified"

LEMMA LabelsAgree ==
  ASSUME NEW o \in Int, NEW r \in Int, NEW c \in Int, NEW missing \in BOOLEAN,
         NEW label, label = Label(o, r, c, missing),
         NEW profile, profile = Profile(label, o, r, c)
  PROVE  LabelsShow(label, profile, r)
<1>1. CASE missing \/ c < 55
  <2>1. label = "insufficient evidence"
    BY <1>1 DEF Label
  <2>2. profile = "unclassified"
    BY <2>1 DEF Profile
  <2>3. LabelsShow(label, profile, r)
    BY <2>1, <2>2 DEF LabelsShow
  <2> QED
    BY <2>3
<1>2. CASE ~(missing \/ c < 55)
  <2>1. label = IF o >= 70 /\ r <= 35 /\ c >= 70 THEN "strong"
                ELSE IF o >= 55 /\ r > 60 THEN "speculative"
                ELSE IF o >= 55 THEN "moderate"
                ELSE "weak"
    BY <1>2 DEF Label
  <2>2. label # "insufficient evidence"
    BY <2>1
  <2>3. profile = IF r <= 35 /\ c >= 70 THEN "conservative"
                  ELSE IF r > 60 /\ o >= 55 THEN "aggressive"
                  ELSE IF r > 35 THEN "elevated"
                  ELSE "balanced"
    BY <2>2 DEF Profile
  <2>4. LabelsShow(label, profile, r)
    BY <2>1, <2>2, <2>3 DEF LabelsShow
  <2> QED
    BY <2>4
<1> QED
  BY <1>1, <1>2

LEMMA RiskIsShown ==
  ASSUME SgInv
  PROVE  RiskIsNotConcealed
<1> DEFINE M == sgMetrics
           N == sgAnalyses
           o == Score(OpportunityTraces(M, N))
           r == Score(RiskTraces(M, N))
           c == Score(ConfidenceTraces(M, N))
           missing == IF CriticalMissing(M, N) THEN TRUE ELSE FALSE
           label == Label(o, r, c, missing)
           profile == Profile(label, o, r, c)
<1>1. IsFiniteSet(M) /\ M \subseteq SgOffer /\ N \in Seq(SgAnalysis) /\ Cited(N) \subseteq DOMAIN SgEvidence
  BY DEF SgInv
<1>2. o \in Int /\ r \in Int /\ c \in Int
  BY <1>1, ScoresAre
<1>3. Signal(M, N).label = label /\ Signal(M, N).profile = profile /\ Signal(M, N).risk = r
  <2>1. Label(o, r, c, CriticalMissing(M, N)) = label
    BY DEF Label
  <2> HIDE DEF o, r, c, label
  <2>2. /\ Signal(M, N).label = Label(o, r, c, CriticalMissing(M, N)) /\ Signal(M, N).risk = r
        /\ Signal(M, N).profile = Profile(Label(o, r, c, CriticalMissing(M, N)), o, r, c)
    BY DEF Signal, o, r, c
  <2> QED
    BY <2>1, <2>2
<1>6. label = Label(o, r, c, missing) /\ profile = Profile(label, o, r, c)
  OBVIOUS
<1>7. missing \in BOOLEAN
  <2>1. CriticalMissing(M, N) => missing = TRUE
    BY Zenon
  <2>2. ~CriticalMissing(M, N) => missing = FALSE
    BY Zenon
  <2>3. missing = TRUE \/ missing = FALSE
    BY <2>1, <2>2
  <2> HIDE DEF missing
  <2> QED
    BY <2>3
<1> HIDE DEF M, N, o, r, c, missing, label, profile
<1>4. LabelsShow(label, profile, r)
  BY <1>2, <1>6, <1>7, LabelsAgree
<1>5. Signal(M, N).risk > 60 <=> r > 60
  BY <1>3
<1> QED
  BY <1>3, <1>4, <1>5 DEF RiskIsNotConcealed, LabelsShow, M, N

(* Fewer metrics never raise a score, nor clear what is missing.             *)
LEMMA FewerMetrics ==
  ASSUME NEW metrics, IsFiniteSet(metrics), metrics \subseteq SgOffer, NEW fewer \in SUBSET metrics,
         NEW analyses \in Seq(SgAnalysis), Cited(analyses) \subseteq DOMAIN SgEvidence
  PROVE  /\ Score(OpportunityTraces(fewer, analyses)) <= Score(OpportunityTraces(metrics, analyses))
         /\ Score(RiskTraces(fewer, analyses)) <= Score(RiskTraces(metrics, analyses))
         /\ Score(ConfidenceTraces(fewer, analyses)) <= Score(ConfidenceTraces(metrics, analyses))
         /\ CriticalMissing(metrics, analyses) => CriticalMissing(fewer, analyses)
<1>1. IsFiniteSet(fewer) /\ fewer \subseteq SgOffer
  BY FS_Subset
<1>2. Names(fewer) \in SUBSET Names(metrics)
  BY DEF Names
<1>3. Score(OpportunityTraces(fewer, analyses)) <= Score(OpportunityTraces(metrics, analyses))
  <2> DEFINE R == OpportunityParts(fewer, analyses)
             T == OpportunityParts(metrics, analyses)
             r == OpportunityTraces(fewer, analyses)
             t == OpportunityTraces(metrics, analyses)
  <2>1. AreTraces(R) /\ AreTraces(T) /\ \A x \in T : x.points >= 0
    BY <1>1, OpportunityPartsAre
  <2>2. R \in SUBSET T
    <3>1. MetricTraces(fewer) \subseteq MetricTraces(metrics)
      BY DEF MetricTraces
    <3> QED
      BY <3>1 DEF OpportunityParts
  <2>3. r = OrZero(R, "no inputs") /\ t = OrZero(T, "no inputs")
    BY DimensionsAre
  <2> HIDE DEF R, T, r, t
  <2>4. Points(R) <= Points(T)
    BY <2>1, <2>2, PointsOfMore
  <2>5. AreTraces(r) /\ Points(r) = Points(R) /\ AreTraces(t) /\ Points(t) = Points(T)
    BY <2>1, <2>3, ZeroTrace
  <2>6. Score(r) <= Score(t)
    BY <2>4, <2>5, ScoreGrows
  <2> QED
    BY <2>6 DEF r, t
<1>4. Score(RiskTraces(fewer, analyses)) <= Score(RiskTraces(metrics, analyses))
  <2> DEFINE R == RiskParts(fewer, analyses)
             T == RiskParts(metrics, analyses)
             r == RiskTraces(fewer, analyses)
             t == RiskTraces(metrics, analyses)
  <2>1. AreTraces(R) /\ AreTraces(T) /\ \A x \in T : x.points >= 0
    BY <1>1, RiskPartsAre
  <2>2. R \in SUBSET T
    <3>1. RiskMetricTraces(fewer) \subseteq RiskMetricTraces(metrics)
      BY DEF RiskMetricTraces
    <3> QED
      BY <3>1 DEF RiskParts
  <2>3. r = OrZero(R, "no inputs") /\ t = OrZero(T, "no inputs")
    BY DimensionsAre
  <2> HIDE DEF R, T, r, t
  <2>4. Points(R) <= Points(T)
    BY <2>1, <2>2, PointsOfMore
  <2>5. AreTraces(r) /\ Points(r) = Points(R) /\ AreTraces(t) /\ Points(t) = Points(T)
    BY <2>1, <2>3, ZeroTrace
  <2>6. Score(r) <= Score(t)
    BY <2>4, <2>5, ScoreGrows
  <2> QED
    BY <2>6 DEF r, t
<1>5. Score(ConfidenceTraces(fewer, analyses)) <= Score(ConfidenceTraces(metrics, analyses))
  <2> DEFINE F == Names(fewer)
             M == Names(metrics)
             a == Points(CoverageTraces(F))
             b == Points(RiskCoverageTraces(F))
             A == Points(CoverageTraces(M))
             B == Points(RiskCoverageTraces(M))
             c == Points(AnalysisTraces(analyses))
             R == ConfidenceParts(fewer, analyses)
             T == ConfidenceParts(metrics, analyses)
             r == ConfidenceTraces(fewer, analyses)
             t == ConfidenceTraces(metrics, analyses)
  <2>1. AreTraces(R) /\ AreTraces(T) /\ Points(R) = a + b + c /\ Points(T) = A + B + c
    BY ConfidencePartsAre
  <2>2. a <= A
    <3>1. CoverageTraces(F) \in SUBSET CoverageTraces(M)
      BY <1>2 DEF CoverageTraces
    <3>2. AreTraces(CoverageTraces(M)) /\ \A x \in CoverageTraces(M) \ CoverageTraces(F) : x.points >= 0
      BY CoverageTracesAre
    <3> QED
      BY <3>1, <3>2, PointsOfMore
  <2>3. b <= B
    BY <1>2, RiskCoverageGrows
  <2>4. a \in Int /\ b \in Int /\ c \in Int /\ A \in Int /\ B \in Int
    <3>1. /\ AreTraces(CoverageTraces(F)) /\ AreTraces(CoverageTraces(M))
          /\ AreTraces(RiskCoverageTraces(F)) /\ AreTraces(RiskCoverageTraces(M))
          /\ AreTraces(AnalysisTraces(analyses))
      BY CoverageTracesAre, RiskCoverageTracesAre, AnalysisTracesAre
    <3>2. ASSUME NEW S, AreTraces(S) PROVE Points(S) \in Int
      <4>1. S \in SUBSET S
        OBVIOUS
      <4> QED
        BY <3>2, <4>1, PointsOfPart
    <3> QED
      BY <3>1, <3>2
  <2>5. r = OrZero(R, "no inputs") /\ t = OrZero(T, "no inputs")
    BY DimensionsAre
  <2> HIDE DEF a, b, c, A, B, R, T, r, t
  <2>6. Points(R) <= Points(T)
    BY <2>1, <2>2, <2>3, <2>4
  <2>7. AreTraces(r) /\ Points(r) = Points(R) /\ AreTraces(t) /\ Points(t) = Points(T)
    BY <2>1, <2>5, ZeroTrace
  <2>8. Score(r) <= Score(t)
    BY <2>6, <2>7, ScoreGrows
  <2> QED
    BY <2>8 DEF r, t
<1>6. CriticalMissing(metrics, analyses) => CriticalMissing(fewer, analyses)
  BY DEF CriticalMissing
<1> QED
  BY <1>3, <1>4, <1>5, <1>6

LEMMA MetricsInform ==
  ASSUME SgInv
  PROVE  MetricsOnlyInform
<1> SUFFICES ASSUME NEW m \in sgMetrics
             PROVE  LET with == Signal(sgMetrics, sgAnalyses)
                        without == Signal(sgMetrics \ {m}, sgAnalyses)
                    IN /\ without.opportunity <= with.opportunity
                       /\ without.risk <= with.risk
                       /\ without.confidence <= with.confidence
                       /\ without.label # "insufficient evidence" => with.label # "insufficient evidence"
  BY DEF MetricsOnlyInform
<1> DEFINE M == sgMetrics
           F == sgMetrics \ {m}
           N == sgAnalyses
           with == Signal(M, N)
           without == Signal(F, N)
           o == Score(OpportunityTraces(M, N))
           r == Score(RiskTraces(M, N))
           c == Score(ConfidenceTraces(M, N))
           p == Score(OpportunityTraces(F, N))
           s == Score(RiskTraces(F, N))
           d == Score(ConfidenceTraces(F, N))
           missing == CriticalMissing(M, N)
           lacking == CriticalMissing(F, N)
<1>1. /\ IsFiniteSet(M) /\ M \subseteq SgOffer /\ N \in Seq(SgAnalysis)
      /\ Cited(N) \subseteq DOMAIN SgEvidence /\ F \in SUBSET M
  BY DEF SgInv
<1>2. IsFiniteSet(F) /\ F \subseteq SgOffer
  BY <1>1, FS_Subset
<1>3. with.opportunity = o /\ with.risk = r /\ with.confidence = c /\ with.label = Label(o, r, c, missing)
  BY DEF Signal
<1>4. without.opportunity = p /\ without.risk = s /\ without.confidence = d
        /\ without.label = Label(p, s, d, lacking)
  BY DEF Signal
<1> HIDE DEF M, F, N
<1>5. p <= o /\ s <= r /\ d <= c /\ (missing => lacking)
  BY <1>1, FewerMetrics
<1>6. o \in Int /\ r \in Int /\ c \in Int /\ p \in Int /\ s \in Int /\ d \in Int
  BY <1>1, <1>2, ScoresAre
<1> HIDE DEF o, r, c, p, s, d, missing, lacking, with, without
<1>7. without.label # "insufficient evidence" => ~lacking /\ ~(d < 55)
  BY <1>4 DEF Label
<1>8. ~missing /\ ~(c < 55) => with.label # "insufficient evidence"
  BY <1>3 DEF Label
<1>9. without.label # "insufficient evidence" => with.label # "insufficient evidence"
  <2>1. ~(d < 55) => ~(c < 55)
    BY <1>5, <1>6
  <2> QED
    BY <1>5, <1>7, <1>8, <2>1, Zenon
<1>10. /\ without.opportunity <= with.opportunity /\ without.risk <= with.risk
       /\ without.confidence <= with.confidence
  BY <1>3, <1>4, <1>5
<1> QED
  BY <1>9, <1>10 DEF with, without, M, F, N

(* The signal of every request the rules admit names exactly the evidence    *)
(* its analyses cite, shows its risk in label and profile, and is never the  *)
(* worse for a metric (SignalEngine.evaluate).                               *)
THEOREM SignalSupported == SgSpec => []SignalIsSupported
<1>1. SgInv => SignalIsSupported
  BY EvidenceIsNamed, RiskIsShown, MetricsInform DEF SignalIsSupported
<1> QED
  BY <1>1, SgInductive, PTL

=============================================================================
