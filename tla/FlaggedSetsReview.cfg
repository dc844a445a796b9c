\* Reviews, writes and clearings against runs: three applications to one listing,
\* two writes after the first applications, one resolve request, one failed run.
CONSTANTS
  a1 = a1
  a2 = a2
  l1 = l1
  l2 = l2
  e1 = e1
  n0 = n0
  n1 = n1
  Application = {a1, a2, a3}
  Listing = {l1}
  Home <- OneListing
  Email = {e1}
  Name = {n0, n1}
  BlankName = n0
  KeySets = {{}, {e1, n1}}
  SetId = {s1, s2}
  NoSet = NoSet
  MaxRequests = 2
  MaxReviews = 1
  MaxFailures = 1
SPECIFICATION Spec
SYMMETRY Symmetry
INVARIANTS
  TypeOK
  ResolvedAsSeen
  SettledMeansFlagged
  OverlapIsDue
PROPERTY ResolutionStands
