--------------------------- MODULE FilingLifecycle ---------------------------
(***************************************************************************)
(* What the candidate queue promises about a filing, however many workers  *)
(* work on it and however often they fail: its screening decision is made  *)
(* at most once and never revised, and a dossier appears in the very step  *)
(* that qualifies the filing and in no other.                              *)
(***************************************************************************)
CONSTANT Filing

VARIABLES decision, brief

Init ==
  /\ decision = [f \in Filing |-> "none"]
  /\ brief = [f \in Filing |-> "none"]

Qualify(f) ==
  /\ decision[f] = "none"
  /\ decision' = [decision EXCEPT ![f] = "QUALIFIED"]
  /\ \E version \in {"v2", "v3"} : brief' = [brief EXCEPT ![f] = version]

Reject(f) ==
  /\ decision[f] = "none"
  /\ \E d \in {"SCREENED_OUT", "ANALYSIS_INCOMPLETE"} :
       decision' = [decision EXCEPT ![f] = d]
  /\ UNCHANGED brief

Next == \E f \in Filing : Qualify(f) \/ Reject(f)

Spec == Init /\ [][Next]_<<decision, brief>>
=============================================================================
