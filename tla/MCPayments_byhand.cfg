\* A settler, two windows of either method, each of which a transfer may name, a
\* sweep, and the switch between them.
SPECIFICATION Spec
CONSTANTS
  q1 = q1  q2 = q2  k1 = k1  k2 = k2  r1 = r1  r2 = r2  h1 = h1  h2 = h2
  a1 = a1  w1 = w1  w2 = w2  s1 = s1  s2 = s2
  None = None
  Quotes = {q2}
  Methods = {"USDT", "WIRE"}
  Keys = {k1, k2}
  Requests = {r1, r2}
  Staff = {s1}
  Workers = {w1}
  Hashes = {h1}
  References = {h1}
  Addresses = {a1}
  Amounts = {10, 11}
  Depths = {1}
  Ttl = 1
  ValidUntil = 5
  MaxNudges = 3
  MaxTime = 1
  MaxChanges = 1
  MaxCrashes = 0
  Owner <- MCOwner
  Total <- MCTotal
  InitialOrder <- MCInitialOrder
SYMMETRY Symmetry
INVARIANTS
  CreditedExactlyOnce
  AmountIdentifiesPayment
  ReferenceOnOnePayment
  PaidExactlyWhenSettled
\* Automatic verification may be switched off for good: the system may stop.
CHECK_DEADLOCK FALSE
