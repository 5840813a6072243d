SPECIFICATION Spec
CONSTANTS
  p0 = p0
  p1 = p1
  c0 = c0
  c1 = c1
  NULL = NULL
  Empty = Empty
  Producer = {p0, p1}
  Consumer = {c0, c1}
  Thread = {p0, p1, c0, c1}
  Queue = {"ready", "blocked", "producers", "consumers", "protect"}
  Semaphores = {"producers", "consumers", "protect"}
  Created <- TwoAndTwo
  Timers = {TRUE}
  EarlyTick = FALSE
  Modulus = 1
  Length = 1
INVARIANT QueuesExact
