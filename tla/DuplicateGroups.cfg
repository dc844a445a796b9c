\* Three keys over four applications: the chain e1 - n1 - e2, in which no
\* application is in both e-mail groups, is among the initial states.
CONSTANTS
  Application = {a1, a2, a3, a4}
  Email = {e1, e2}
  Name = {n1}
SPECIFICATION Spec
INVARIANTS
  MergeInv
  NoApplicationInTwo
  MergeIsComponents
PROPERTIES
  ImplementsMatching
  MergeEnds
CHECK_DEADLOCK FALSE
