\* A plan for every strategy, and graphs that are recovered and resumed.
SPECIFICATION EngineFairSpec
CONSTANTS
  a = a  b = b  c = c
  value = value  none = none  w1 = w1  w2 = w2
  Name = {a, b, c}
  Output = {none}
  None = none
  Worker = {w1, w2}
  Rank <- MCRank
  Place <- MCRank
  Priority <- MCPriority
  MaxWorkers = 0
  MaxRetries = 2
  Seeds = {}
  Plans <- StrategiesAndGraphs
INVARIANTS
  BoundedAttempts
  ReplyTruthful
  ResumeComplete
PROPERTIES
  NoVainDispatch
  ImplementsEngineContract
  PlanAnswered
CHECK_DEADLOCK FALSE
