SPECIFICATION Spec
CONSTANTS
  t1 = t1
  t2 = t2
  t3 = t3
  t4 = t4
  NULL = NULL
  t5 = t5
  Thread = {t1, t2, t3, t4, t5}
  Queue = {"ready", "blocked"}
  Created <- Four
  Timers = {TRUE, FALSE}
  EarlyTick = TRUE
  Unblockers = {t1}
  Creators = {}
INVARIANTS
  QueuesKept ExitsTruthfully
PROPERTIES
  RoundRobin
CHECK_DEADLOCK FALSE
