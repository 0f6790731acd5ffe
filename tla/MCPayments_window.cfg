\* One window, a transfer of an exact, short or excessive amount, early or late,
\* and what sweeps that keep running bring about, one of them dying.
SPECIFICATION FairSpec
CONSTANTS
  q1 = q1  q2 = q2  k1 = k1  k2 = k2  r1 = r1  r2 = r2  h1 = h1  h2 = h2
  a1 = a1  w1 = w1  w2 = w2  s1 = s1  s2 = s2
  None = None
  Quotes = {q1}
  Methods = {"USDT"}
  Keys = {k1}
  Requests = {r1}
  Staff = {}
  Workers = {w1}
  Hashes = {h1}
  References = {h1}
  Addresses = {a1}
  Amounts = {9, 10, 11}
  Depths = {1}
  Ttl = 1
  ValidUntil = 5
  MaxNudges = 3
  MaxTime = 3
  MaxChanges = 1
  MaxCrashes = 1
  Owner <- MCOwner
  Total <- MCTotal
  InitialOrder <- MCInitialOrder
INVARIANTS
  TypeOK
  ChainCreditEarned
PROPERTIES
  ConfirmingIsCredited
  WindowCloses
\* Automatic verification may be switched off for good: the system may stop.
CHECK_DEADLOCK FALSE
