SPECIFICATION FairSpec
CONSTANTS
  MaxId = 200
  Lines <- TheLines
  MaxLines = 2
  Files <- TheFiles
INVARIANT NoDangling
INVARIANT ContextsMatch
INVARIANT NoCrash
INVARIANT NoGarbageAtPrompt
PROPERTY SweepsOnlyGarbage
PROPERTY Finishes
