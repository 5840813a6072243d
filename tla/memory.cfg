SPECIFICATION MCSpec
CONSTANTS
  BlockSize = 2
  NumSets = 2
  LinesPerSet = 2
  NumTags = 3
  Byte = {0, 1}
  Zero = 0
  Writes <- Tracked
  MEMORY_SIZE = 15
  HeaderSize = 2
  Sizes = {1, 3}
  FreesAgain = {"whole"}
  NULL = NULL
INVARIANTS MostRecentKept Tiled HeldIntact Coalesced
PROPERTIES ImplementsMemory BestFit ImplementsHeap
