SPECIFICATION Spec
CONSTANTS
  t1 = t1
  t2 = t2
  t3 = t3
  t4 = t4
  t5 = t5
  NULL = NULL
  Thread = {t1, t2, t3}
  Queue = {"ready", "blocked"}
  Created <- Three
  Timers = {TRUE}
  EarlyTick = FALSE
  Unblockers = {t1, t2}
  Creators = {}
INVARIANT QueuesKept
CHECK_DEADLOCK FALSE
