--------------------------- MODULE ResourceGovernor ---------------------------
(***************************************************************************)
(* The shadow resource governor (radar/resource_governor.py): a chain of    *)
(* receipts, each decided from one observation of the host and from the     *)
(* receipt before it.                                                       *)
(*                                                                         *)
(* A reading is kept as its place between the two limits of the policy.     *)
(* deferred_at is kept relative to the observation: "now" when it is this   *)
(* observation's time, "earlier" when it was carried over.                  *)
(***************************************************************************)
EXTENDS Integers

CONSTANTS
  GovernorSensor,                (* sensors with two limits: temperature, load, memory *)
  MaxSwap,               (* bound: swap in use, in units                     *)
  MaximumSwapGrowth,     (* maximum_swap_growth_bytes, in the same units     *)
  RecoveryRequired       (* recovery_observations_required                   *)

ASSUME GovernorAssumption ==
  /\ GovernorSensor \subseteq {"temperature", "load", "memory"}
  /\ MaxSwap \in Nat
  /\ MaximumSwapGrowth \in Nat \ {0}
  /\ RecoveryRequired \in Nat \ {0, 1}     \* Literal[3] in the code

Missing == -1            (* a reading the host did not give                  *)

GovernorLevel == {"safe", "between", "unsafe"}

(* latency "few": fewer than minimum_latency_samples inferences; the timeout *)
(* rate is judged on the same samples.                                       *)
HostObservation ==
  {o \in [gap : {"none", "fresh", "old"},
          reading : [GovernorSensor -> GovernorLevel \cup {"missing"}],
          swap : {Missing} \cup 0..MaxSwap,
          latency : GovernorLevel \cup {"few"}, timeouts : BOOLEAN,
          backlog : BOOLEAN, aged : BOOLEAN, active : BOOLEAN] :
     o.latency = "few" => ~o.timeouts}

BlockReason == [s \in {"temperature", "load", "memory"} |->
  CASE s = "temperature" -> "temperature_high"
    [] s = "load" -> "load_high"
    [] OTHER -> "memory_low"]

VARIABLES
  govMode,        (* "none" before the first receipt                         *)
  govAction, govBlockers, govAdvisories, govStreak, govDeferredAt,
  govAdmits,      (* maximum_new_inferences                                  *)
  govActive,      (* active_inference_count of the observation               *)
  govSwap,        (* swap_used_bytes of the observation                      *)
  goodStreak,           (* history: observations since one that blocked, capped    *)
  swapSteady          (* history: swap known, and compared with the one before   *)

govVars == <<govMode, govAction, govBlockers, govAdvisories, govStreak, govDeferredAt,
             govAdmits, govActive, govSwap, goodStreak, swapSteady>>

GovernorBlockReasons == {"baseline_unavailable", "required_sensor_unavailable", "temperature_high",
                 "load_high", "memory_low", "swap_growth", "inference_latency_high",
                 "inference_timeout_rate_high"}

GovernorAdvisories == {"safe_envelope", "recovery_confirming", "recovery_complete",
               "inference_already_active", "backlog_pressure", "aged_backlog"}

GovernorActions == {"none", "proceed_inference", "hold_single_flight", "defer_new_inference",
            "cooldown", "resume_inference"}

GovernorTypeOK ==
  /\ govMode \in {"none", "active", "deferred"}
  /\ govAction \in GovernorActions
  /\ govBlockers \subseteq GovernorBlockReasons
  /\ govAdvisories \subseteq GovernorAdvisories
  /\ govStreak \in 0..RecoveryRequired
  /\ govDeferredAt \in {"none", "now", "earlier"}
  /\ govAdmits \in 0..1
  /\ govActive \in BOOLEAN
  /\ govSwap \in {Missing} \cup 0..MaxSwap
  /\ goodStreak \in 0..RecoveryRequired
  /\ swapSteady \in BOOLEAN

GovernorInit ==
  /\ govMode = "none" /\ govAction = "none"
  /\ govBlockers = {} /\ govAdvisories = {}
  /\ govStreak = 0 /\ govDeferredAt = "none" /\ govAdmits = 0
  /\ govActive = FALSE /\ govSwap = Missing
  /\ goodStreak = 0 /\ swapSteady = FALSE

-----------------------------------------------------------------------------
(* The decision *)

GovernorRecovering == govMode = "deferred"

(* Recovery asks for more than deferral: the reading must be below the       *)
(* resume limit.                                                             *)
OverLimit(level) == level = "unsafe" \/ (level = "between" /\ GovernorRecovering)

BaselineValid(o) == govMode # "none" /\ o.gap = "fresh"

SwapGrew(o) ==
  /\ BaselineValid(o)
  /\ o.swap # Missing /\ govSwap # Missing
  /\ o.swap - govSwap >= MaximumSwapGrowth

SensorMissing(o) == o.swap = Missing \/ \E s \in GovernorSensor : o.reading[s] = "missing"

BlockingReasons(o) ==
  (IF SensorMissing(o) THEN {"required_sensor_unavailable"} ELSE {})
    \cup (IF BaselineValid(o) THEN {} ELSE {"baseline_unavailable"})
    \cup {BlockReason[s] : s \in {t \in GovernorSensor : OverLimit(o.reading[t])}}
    \cup (IF SwapGrew(o) THEN {"swap_growth"} ELSE {})
    \cup (IF OverLimit(o.latency) THEN {"inference_latency_high"} ELSE {})
    \cup (IF o.timeouts THEN {"inference_timeout_rate_high"} ELSE {})

QueueAdvisories(o) ==
  (IF o.backlog THEN {"backlog_pressure"} ELSE {})
    \cup (IF o.aged THEN {"aged_backlog"} ELSE {})

(* The parts of a receipt the decision chooses.                              *)
GovernorDecide(mode, action, streak, deferredAt, admits, advisory) ==
  /\ govMode' = mode
  /\ govAction' = action
  /\ govStreak' = streak
  /\ govDeferredAt' = deferredAt
  /\ govAdmits' = admits
  /\ govAdvisories' = advisory

KeepsStreak(o) ==
  GovernorDecide("deferred", "defer_new_inference", govStreak,
         IF GovernorRecovering THEN "earlier" ELSE "now", 0, QueueAdvisories(o))

GovernorDefer(o) ==
  GovernorDecide("deferred", "defer_new_inference", 0,
         IF GovernorRecovering THEN "earlier" ELSE "now", 0, QueueAdvisories(o))

CoolsForever(o) ==
  GovernorDecide("deferred", "cooldown", govStreak + 1, "earlier", 0,
            QueueAdvisories(o) \cup {"recovery_confirming"})

CoolDown(o) ==
  /\ govStreak + 1 < RecoveryRequired
  /\ GovernorDecide("deferred", "cooldown", govStreak + 1, "earlier", 0,
            QueueAdvisories(o) \cup {"recovery_confirming"})

GovernorResume(o) ==
  /\ govStreak + 1 >= RecoveryRequired
  /\ GovernorDecide("active", IF o.active THEN "hold_single_flight" ELSE "resume_inference",
            govStreak + 1, "none", IF o.active THEN 0 ELSE 1,
            QueueAdvisories(o) \cup {"recovery_complete"})

StayActive(o) ==
  GovernorDecide("active", IF o.active THEN "hold_single_flight" ELSE "proceed_inference", 0, "none",
         IF o.active THEN 0 ELSE 1,
         QueueAdvisories(o)
           \cup (IF o.active THEN {"inference_already_active"} ELSE {"safe_envelope"}))

(* An observation that does not advance in time is refused with an exception *)
(* and leaves no receipt.                                                    *)
Observe(o) ==
  LET blockers == BlockingReasons(o) IN
  /\ govMode # "none" => o.gap # "none"
  /\ govBlockers' = blockers
  /\ \/ blockers # {} /\ GovernorDefer(o)
     \/ blockers = {} /\ GovernorRecovering /\ (CoolDown(o) \/ GovernorResume(o))
     \/ blockers = {} /\ ~GovernorRecovering /\ StayActive(o)
  /\ govActive' = o.active
  /\ govSwap' = o.swap
  /\ goodStreak' = IF blockers # {} THEN 0 ELSE IF goodStreak < RecoveryRequired THEN goodStreak + 1 ELSE goodStreak
  /\ swapSteady' = (o.swap # Missing /\ govSwap # Missing /\ o.swap - govSwap < MaximumSwapGrowth)

(* ResourceGovernorReceipt.decision_reconciles                               *)
GovernorReceiptReconciles ==
  /\ govMode = "deferred" <=> govDeferredAt # "none"
  /\ govMode = "deferred" => govAdmits = 0
  /\ govAdmits = 1 => ~govActive
  /\ govAction \in {"defer_new_inference", "cooldown"} <=> govMode = "deferred"
  /\ govAction = "proceed_inference" => govAdmits = 1
  /\ govAction = "hold_single_flight" => govAdmits = 0 /\ govActive
  /\ govAction = "resume_inference" => govStreak = RecoveryRequired

GovernorNext == \E o \in HostObservation : Observe(o)

GovernorSpec == GovernorInit /\ [][GovernorNext]_govVars

-----------------------------------------------------------------------------
(* Properties *)

(* No inference is admitted on trust: an active governor has seen            *)
(* RecoveryRequired observations without a blocker since the last one that   *)
(* blocked, and compared the swap of the last two; a missing reading or a    *)
(* stale baseline in between starts the count again                          *)
(* (decide_resource_governor).                                               *)
AdmissionIsEarned ==
  /\ govMode = "active" => goodStreak = RecoveryRequired /\ swapSteady
  /\ govMode = "deferred" => govStreak = goodStreak /\ goodStreak < RecoveryRequired
  /\ govAdmits = 1 => govMode = "active" /\ ~govActive

(* The decision always satisfies the contract that is checked when its       *)
(* receipt is built: otherwise the governor raises instead of deciding       *)
(* (ResourceGovernorReceipt.decision_reconciles).                            *)
ReceiptsReconcile == govMode # "none" => GovernorReceiptReconciles
=============================================================================
