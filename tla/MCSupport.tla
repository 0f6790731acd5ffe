------------------------------ MODULE MCSupport ------------------------------
(* Instances of Support small enough for TLC. *)
EXTENDS Support, TLC

CONSTANTS g1, g2, t1, c1, c2

\* The supervisor takes a thread and closes it, or leaves it to nobody.
MCUpdates == {<<g2, "RESOLVED">>, <<None, Same>>}
=============================================================================
