---------------------------- MODULE MCSidecarQueue ----------------------------
(* TLC instances of SidecarQueue. *)
EXTENDS SidecarQueue

CONSTANTS j1, j2

MCRank == [j \in Job |-> IF j = j1 THEN 1 ELSE 2]
=============================================================================
