---------------------------- MODULE MCChainSweep ----------------------------
(* Instances of ChainSweep small enough for TLC. *)
EXTENDS ChainSweep, TLC

CONSTANTS h1, h2, a1, a2, w1, w2
=============================================================================
