--------------------------- MODULE MCNotifications ---------------------------
(* Two events that may share the worker, or wait for it.                      *)
EXTENDS Notifications, TLC
=============================================================================
