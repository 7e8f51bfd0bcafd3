\* Every plan over three names, graphs over four, a pool of two threads.
SPECIFICATION FairSpec
CONSTANTS
  a = a  b = b  c = c  d = d
  value = value  none = none  w1 = w1
  Name = {a, b, c, d}
  Output = {value, none}
  None = none
  Worker = {w1}
  Rank <- MCRank
  MaxWorkers = 2
  Plans <- PlansAndShapes
  Seeds <- EverySeed
INVARIANTS
  TypeOK
  PayloadFaithful
  AlwaysProgress
  ResultTruthful
PROPERTIES
  FailStop
  ImplementsContract
  CallReturns
CHECK_DEADLOCK FALSE
