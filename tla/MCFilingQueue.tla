---------------------------- MODULE MCFilingQueue ----------------------------
(* TLC instances of FilingQueue. *)
EXTENDS FilingQueue

CONSTANTS f1, f2

MCFiling == {f1, f2}
MCSeniority == [f \in Filing |-> IF f = f1 THEN 1 ELSE 2]
MCFocus == Filing \ {f1}
=============================================================================
