\* One administrator and the nightly sweep, which takes one entry a night.
SPECIFICATION FairSpec
CONSTANTS
  cu = cu  pa = pa  ba = ba  c1 = c1  sw = sw
  None = None
  Rows = {cu, pa, ba}
  Kind <- MCKind
  Owners <- MCOwners
  Unborn = {pa}
  Credited = {}
  Callers = {c1}
  Sweeper = sw
  Batch = 1
  MaxFails = 1
INVARIANTS
  TypeOK
  DeletedHasWayBack
  EntriesAreExact
PROPERTIES
  DestroysOnlyTrash
  DueIsSettled
\* Once every row has been purged nothing is left to do.
CHECK_DEADLOCK FALSE
