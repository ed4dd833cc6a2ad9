----------------------------- MODULE MCHumanLeads -----------------------------
(* TLC instances of HumanLeads: m1 and m2 state the same hypothesis. *)
EXTENDS HumanLeads

CONSTANTS m1, m2

MCHypothesis == [m \in Message |-> "shared"]
=============================================================================
