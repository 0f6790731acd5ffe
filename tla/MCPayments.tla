----------------------------- MODULE MCPayments -----------------------------
(* Instances of Payments small enough for TLC. *)
EXTENDS Payments, TLC

CONSTANTS q1, q2, k1, k2, r1, r2, h1, h2, a1, w1, w2, s1, s2

\* Every quote is for the same amount.  The filing of q1 is approved, that of q2
\* is already being worked on.
MCOwner == [q \in Quotes |-> "customer"]
MCTotal == [q \in Quotes |-> 10]
MCInitialOrder == [q \in Quotes |-> IF q = q1 THEN "APPROVED" ELSE "PROCESSING"]

Symmetry ==
  Permutations(Hashes) \cup Permutations(Workers) \cup Permutations(Staff)
    \cup Permutations(Requests) \cup Permutations(Keys)
=============================================================================
