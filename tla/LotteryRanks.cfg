\* Generations against each other and against writes: three applications, two
\* of which claim the preference, two calls of lotteryGenerate, one write to
\* an application, one failure; nobody retracts, releases or publishes.
CONSTANTS
  a1 = a1
  a3 = a3
  q1 = q1
  q2 = q2
  Application = {a1, a2, a3}
  Question = {q1}
  Claims <- MCClaims
  General = General
  Generation = {g1, g2}
  None = None
  MaxWrites = 1
  MaxChanges = 0
  MaxFailures = 1
SPECIFICATION Spec
SYMMETRY Symmetry
INVARIANTS
  TypeOK
  Ranked
CHECK_DEADLOCK FALSE
