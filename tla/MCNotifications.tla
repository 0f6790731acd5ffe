-------------------------- MODULE MCNotifications ---------------------------
(* Instances of Notifications small enough for TLC. *)
EXTENDS Notifications, TLC

CONSTANTS m1, m2, s1, s2
=============================================================================
