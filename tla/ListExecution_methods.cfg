\* Every method on lists of up to three tasks.
SPECIFICATION Spec
CONSTANTS
  a = a  b = b  c = c
  value = value  none = none  w1 = w1  w2 = w2
  Name = {a, b, c}
  Output = {value, none}
  None = none
  Worker = {w1, w2}
  MaxRetries = 2
  PoolLimit = 2
  Calls <- EveryCall
INVARIANTS
  DispatchInOrder
  AnswerTruthful
PROPERTIES
  ImplementsContract
CHECK_DEADLOCK FALSE
