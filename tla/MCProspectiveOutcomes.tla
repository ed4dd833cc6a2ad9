------------------------ MODULE MCProspectiveOutcomes ------------------------
(* TLC instances of ProspectiveOutcomes: targets close in the order of the   *)
(* publication and then of the horizon. *)
EXTENDS ProspectiveOutcomes

MCCloseRank == [j \in Plan |-> 100 * j[1] + j[2]]
=============================================================================
