\* Two concurrent requests, one of them an admin's, over the order and its thread.
SPECIFICATION Spec
CONSTANTS
  i1 = i1  i2 = i2  f1 = f1  v1 = v1  j1 = j1  j2 = j2  j3 = j3  k1 = k1
  s1 = s1  s2 = s2  c1 = c1  c2 = c2
  Blank = Blank  Keep = Keep  NoItem = NoItem
  Customer = Customer  Nobody = Nobody  NoKey = NoKey
  Items = {}
  Returning = {}
  Fields = {f1}
  Required = {f1}
  Primary = f1
  Vals = {v1}
  Jobs = {}
  Keys = {}
  Staff = {s1, s2}
  Callers = {c1, c2}
  Admins = {c2}
  Resends = TRUE
SYMMETRY Symmetry
PROPERTIES
  MovesAreChecked
