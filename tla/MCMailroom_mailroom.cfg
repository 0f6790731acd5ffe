\* One envelope, two requests on it, and three calls at once.
SPECIFICATION Spec
CONSTANTS
  Items = {i1}
  Requests = {q1, q2}
  Callers = {c1, c2, c3}
  NoItem = NoItem
  NoRequest = NoRequest
SYMMETRY Symmetry
INVARIANTS
  ActionIsExplained
  CompletedIsDone
  LeftIsLogged
\* With every request row used and the item handled nothing is left to do.
CHECK_DEADLOCK FALSE
