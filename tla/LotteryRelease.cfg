CONSTANTS
  a1 = a1
  a3 = a3
  q1 = q1
  q2 = q2
  Application = {a1, a2}
  Question = {}
  Claims <- MCClaims
  General = General
  Generation = {g1}
  None = None
  MaxWrites = 1
  MaxChanges = 3
  MaxFailures = 0
SPECIFICATION Spec
PROPERTY ReleaseIncludesLate
CHECK_DEADLOCK FALSE
