\* Runs over two listings: two applications to each, every run goes over
\* both, and the cron job catches up with every listing.
CONSTANTS
  a1 = a1
  a2 = a2
  l1 = l1
  l2 = l2
  e1 = e1
  n0 = n0
  n1 = n1
  Application = {a1, a2, a3, a4}
  Listing = {l1, l2}
  Home <- TwoListings
  Email = {}
  Name = {n0, n1}
  BlankName = n0
  KeySets = {{n1}}
  SetId = {s1, s2}
  NoSet = NoSet
  MaxRequests = 1
  MaxReviews = 0
  MaxFailures = 1
SPECIFICATION FairSpec
INVARIANT FlagInv
PROPERTY DueIsProcessed
