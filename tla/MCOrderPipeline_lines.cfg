\* Two lines, one of which returns a record, three staff requests on them, one
\* quote, and two concurrent requests about the order.
SPECIFICATION Spec
CONSTANTS
  i1 = i1  i2 = i2  f1 = f1  v1 = v1  j1 = j1  j2 = j2  j3 = j3  k1 = k1
  s1 = s1  s2 = s2  c1 = c1  c2 = c2
  Blank = Blank  Keep = Keep  NoItem = NoItem
  Customer = Customer  Nobody = Nobody  NoKey = NoKey
  Items = {i1, i2}
  Returning = {i1}
  Fields = {f1}
  Required = {f1}
  Primary = f1
  Vals = {v1}
  Jobs = {j1, j2, j3}
  Keys = {k1}
  Staff = {}
  Callers = {c1, c2}
  Admins = {}
  Resends = FALSE
SYMMETRY Symmetry
INVARIANTS
  CompletedShowsRecord
  ShownIsDated
  PaidQuoteMovedOrder
  ApprovedIsPriced
