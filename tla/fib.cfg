SPECIFICATION FairSpec
CONSTANTS
  p0 = p0
  p1 = p1
  c0 = c0
  c1 = c1
  NULL = NULL
  Empty = Empty
  Producer = {p0, p1}
  Consumer = {c0}
  Thread = {p0, p1, c0}
  Queue = {"ready", "blocked", "producers", "consumers", "protect"}
  Semaphores = {"producers", "consumers", "protect"}
  Created <- TwoAndOne
  Timers = {TRUE, FALSE}
  EarlyTick = FALSE
  Modulus = 2
  Length = 2
INVARIANTS
  QueuesExact
  NoLostWakeup MutualExclusion
  RunsForever
PROPERTIES
  ImplementsFIFO ConsumersFed
