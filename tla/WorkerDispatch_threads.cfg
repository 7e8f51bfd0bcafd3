\* Two threads, a task each, two workers, one of them switched.
SPECIFICATION Spec
CONSTANTS
  t1 = t1  t2 = t2  w1 = w1  w2 = w2
  Thread = {t1, t2}
  Worker = {w1, w2}
  Order <- TwoWorkers
  NoHandler = {}
  Fits <- BothFit
  Strategies = {"round_robin", "priority"}
  Switched = {w1}
  MaxDispatches <- OneEach
INVARIANTS
  CountersExact
  IdleWhenQuiet
  RefusalJustified
