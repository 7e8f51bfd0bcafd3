\* The docstring of prepare_recovery_tasks on the payloads.
SPECIFICATION EngineSpec
CONSTANTS
  a = a  b = b  c = c
  value = value  none = none  w1 = w1  w2 = w2
  Name = {a, b, c}
  Output = {value, none}
  None = none
  Worker = {w1, w2}
  Rank <- MCRank
  Place <- MCRank
  Priority <- MCPriority
  MaxWorkers = 0
  MaxRetries = 1
  Seeds = {}
  Plans <- Strategies
INVARIANT
  SamePayload
CHECK_DEADLOCK FALSE
