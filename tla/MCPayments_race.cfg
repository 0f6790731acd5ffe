\* Two sweeps race over two transfers and one window, and one of them may die.
SPECIFICATION Spec
CONSTANTS
  q1 = q1  q2 = q2  k1 = k1  k2 = k2  r1 = r1  r2 = r2  h1 = h1  h2 = h2
  a1 = a1  w1 = w1  w2 = w2  s1 = s1  s2 = s2
  None = None
  Quotes = {q1}
  Methods = {"USDT"}
  Keys = {k1}
  Requests = {r1}
  Staff = {}
  Workers = {w1, w2}
  Hashes = {h1, h2}
  References = {h1, h2}
  Addresses = {a1}
  Amounts = {10}
  Depths = {1}
  Ttl = 1
  ValidUntil = 5
  MaxNudges = 3
  MaxTime = 1
  MaxChanges = 0
  MaxCrashes = 1
  Owner <- MCOwner
  Total <- MCTotal
  InitialOrder <- MCInitialOrder
SYMMETRY Symmetry
INVARIANTS
  NoTransferDropped
PROPERTIES
  LedgerSpec
