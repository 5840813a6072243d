SPECIFICATION MCSpec
CONSTANTS
  NULL = NULL
  Programs = {"processor", "accumulator", "exceptions", "sieve", "runlength", "list", "heap", "arbiter", "threads"}
  Types = {0, 101}
  CatchSets = {{}, {1}, {101}}
  W = 4
  Depth = 100
  MAX_EXECUTE_TIME = 100
  Samples = {0, 1, 2, 6, 7, 8, 9, 15}
  Loads <- MCLoads
  p1 = p1
  p2 = p2
  p3 = p3
  Threads = {p1, p2}
  NumValues = 3
  Values = {1, 3}
  Width = 4
  MIN_CAPACITY = 1
  MaxDepth = 5
  MayFail = TRUE
  WIDTH = 6
  MaxValues = {1, 2, 3, 4, 8, 9, 10, 25, 26, 35, 48, 49, 50, 53, 54, 61, 62, 63}
  BYTE = 4
  Texts <- MCTexts
  Node = {n1, n2, n3, n4}
  n1 = n1
  n2 = n2
  n3 = n3
  n4 = n4
  Numbers = {1, 2, 3}
  max_values = 6
  Junk = {0, 1, 2}
  Thread = {t1, t2, t3, t4}
  Queue = {"ready", "blocked"}
  t1 = t1
  t2 = t2
  t3 = t3
  t4 = t4
INVARIANTS DivisionCorrect CountsSuccesses BuffersMatchBlocks PrimesExact RoundTrip OrderKept FirstIsSmallest GrantedInTwo
PROPERTIES ImplementsISA FailsOnlyWhenRaced GrantedInTurn ImplementsRoundRobin
