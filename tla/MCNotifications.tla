--------------------------- MODULE MCNotifications ---------------------------
(* TLC instances of Notifications. *)
EXTENDS Notifications
=============================================================================
