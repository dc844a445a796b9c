\* A run over two listings that fails half-way: one application to each.
CONSTANTS
  a1 = a1
  a2 = a2
  l1 = l1
  l2 = l2
  e1 = e1
  n0 = n0
  n1 = n1
  Application = {a1, a3}
  Listing = {l1, l2}
  Home <- TwoListings
  Email = {}
  Name = {n0, n1}
  BlankName = n0
  KeySets = {{n1}}
  SetId = {s1}
  NoSet = NoSet
  MaxRequests = 0
  MaxReviews = 0
  MaxFailures = 1
SPECIFICATION FairSpec
PROPERTY DueIsRead
