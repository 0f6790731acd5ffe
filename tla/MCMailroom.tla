----------------------------- MODULE MCMailroom -----------------------------
(* An instance of Mailroom small enough for TLC: an envelope, two requests on *)
(* it and three calls at once.                                                *)
EXTENDS Mailroom, TLC

Symmetry == Permutations(Requests) \cup Permutations(Callers)
=============================================================================
