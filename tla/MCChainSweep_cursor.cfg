\* Two overlapping sweeps that keep running, over transfers indexed
\* late: one of them fails, or the cursor row is lost, or the verifier goes off.
SPECIFICATION FairSpec
CONSTANTS
  h1 = h1  h2 = h2  a1 = a1  a2 = a2  w1 = w1  w2 = w2
  None = None
  Hashes = {h1, h2}
  Addresses = {a1}
  Workers = {w1, w2}
  Overlap = 1
  ColdWindow = 9
  MaxRows = 5
  IndexLag = 1
  MaxTime = 3
  MaxEvents = 1
INVARIANTS
  CursorPassesOnlyHandled
PROPERTIES
  EveryTransferAnswered
  SweepsCatchUp
\* The verifier may be switched off for good: the system may stop.
CHECK_DEADLOCK FALSE
