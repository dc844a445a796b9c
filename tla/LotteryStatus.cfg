\* The status of the lottery: one application, no preferences, one call of
\* lotteryGenerate, three changes by people, one failure.
CONSTANTS
  a1 = a1
  a3 = a3
  q1 = q1
  q2 = q2
  Application = {a1}
  Question = {}
  Claims <- MCClaims
  General = General
  Generation = {g1}
  None = None
  MaxWrites = 1
  MaxChanges = 3
  MaxFailures = 1
SPECIFICATION FairSpec
INVARIANT PublishedWasReleased
PROPERTIES
  DueIsPublished
  OverdueExpires
CHECK_DEADLOCK FALSE
