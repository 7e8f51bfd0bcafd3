\* Every graph over four names, every iteration order of the sets.
SPECIFICATION FairSpec
CONSTANTS
  a = a  b = b  c = c  d = d
  Name = {a, b, c, d}
  Plans <- EveryPlan
INVARIANTS
  MarksExact
  VerdictCorrect
PROPERTIES
  Ends
CHECK_DEADLOCK FALSE
