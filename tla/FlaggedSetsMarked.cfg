CONSTANTS
  a1 = a1
  a2 = a2
  l1 = l1
  l2 = l2
  e1 = e1
  n0 = n0
  n1 = n1
  Application = {a1, a2, a3}
  Listing = {l1}
  Home <- OneListing
  Email = {e1}
  Name = {n0, n1}
  BlankName = n0
  KeySets <- MCKeySets
  SetId = {s1, s2}
  NoSet = NoSet
  MaxRequests = 1
  MaxReviews = 1
  MaxFailures = 0
SPECIFICATION Spec
SYMMETRY Symmetry
INVARIANTS
  MarkedMeansResolved
