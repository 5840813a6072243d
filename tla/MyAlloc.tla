------------------------------ MODULE MyAlloc ------------------------------
(***************************************************************************)
(* The explicit allocator of src/week3/myalloc/myalloc.c.                  *)
(*                                                                         *)
(* The pool is a run of blocks, each a header and a payload.  size, prev   *)
(* and next are the header fields as they stand in memory at each address: *)
(* those of a header that was merged away stay there until the client      *)
(* writes over them.  The search of myalloc is one step per block; the     *)
(* straight-line code of splitBlock and myfree is one step.                *)
(*                                                                         *)
(* Three variables are not in the code: blocks holds the addresses of the  *)
(* headers in use, held what the client asked for in each block it holds,  *)
(* and freed the headers of blocks it has freed that are still intact.         *)
(***************************************************************************)
EXTENDS Integers

CONSTANTS
  MEMORY_SIZE,   \* bytes in the pool
  HeaderSize,    \* sizeof(header)
  Sizes,         \* the sizes the client asks for
  FreesAgain,    \* which blocks it has freed already the client frees again:
                 \* "whole" ones, "merged" ones, both or neither
  NULL

PoolAddress == 0 .. MEMORY_SIZE - 1

ASSUME MyAllocAssumption ==
  /\ HeaderSize \in Nat \ {0}
  /\ MEMORY_SIZE \in Nat /\ MEMORY_SIZE > HeaderSize
  /\ Sizes \subseteq Nat
  /\ FreesAgain \subseteq {"whole", "merged"}
  /\ NULL \notin Int

VARIABLES
  size, prev, next,                        \* the headers
  pc, request,                             \* in myalloc(request), or not
  curAddress, bestAddress, minGreaterSize, \* its local variables
  blocks, held, freed

headers == <<size, prev, next>>
search  == <<request, curAddress, bestAddress, minGreaterSize>>
allocVars == <<headers, pc, search, blocks, held, freed>>

NotHeld == -1

TypeOK ==
  /\ size \in [PoolAddress -> Int]
  /\ prev \in [PoolAddress -> PoolAddress \cup {NULL}]
  /\ next \in [PoolAddress -> PoolAddress \cup {NULL}]
  /\ pc \in {"user", "look"}
  /\ request \in Sizes \cup {0}
  /\ curAddress \in Nat
  /\ bestAddress \in PoolAddress \cup {-1}
  /\ minGreaterSize \in Nat
  /\ blocks \subseteq PoolAddress
  /\ held \in [PoolAddress -> Sizes \cup {NotHeld}]
  /\ freed \subseteq PoolAddress

\* init_myalloc: the pool is one free block.
AllocInit ==
  /\ size = [a \in PoolAddress |-> IF a = 0 THEN MEMORY_SIZE - HeaderSize ELSE 0]
  /\ prev = [a \in PoolAddress |-> NULL]
  /\ next = [a \in PoolAddress |-> NULL]
  /\ pc = "user" /\ request = 0
  /\ curAddress = 0 /\ bestAddress = -1 /\ minGreaterSize = MEMORY_SIZE
  /\ blocks = {0}
  /\ held = [a \in PoolAddress |-> NotHeld]
  /\ freed = {}

-----------------------------------------------------------------------------
(* myalloc                                                                 *)

Call(s) ==
  /\ pc = "user"
  /\ pc' = "look"
  /\ request' = s
  /\ curAddress' = 0 /\ bestAddress' = -1 /\ minGreaterSize' = MEMORY_SIZE
  /\ UNCHANGED <<headers, blocks, held, freed>>

Searching == pc = "look" /\ curAddress < MEMORY_SIZE

\* The loop at an allocated block.
SkipAllocated ==
  /\ Searching
  /\ size[curAddress] < 0
  /\ curAddress' = curAddress + HeaderSize - size[curAddress]
  /\ UNCHANGED <<headers, pc, request, bestAddress, minGreaterSize, blocks, held, freed>>

\* Mutants: no room is left for the new header; and any block that is large enough
\* is better than those before.
BetterCrowded(a) == size[a] > request /\ size[a] < minGreaterSize
BetterLast(a) == size[a] > request + HeaderSize

\* It is large enough for the payload and a header, and smaller than any before.
Better(a) ==
  /\ size[a] > request + HeaderSize
  /\ size[a] < minGreaterSize

\* The loop at a free block.
LookAtFree ==
  /\ Searching
  /\ size[curAddress] >= 0
  /\ curAddress' = curAddress + HeaderSize + size[curAddress]
  /\ bestAddress' = IF Better(curAddress) THEN curAddress ELSE bestAddress
  /\ minGreaterSize' = IF Better(curAddress) THEN size[curAddress] ELSE minGreaterSize
  /\ UNCHANGED <<headers, pc, request, blocks, held, freed>>

\* The local variables are gone when myalloc returns.
LocalsDie ==
  request' = 0 /\ curAddress' = 0 /\ bestAddress' = -1 /\ minGreaterSize' = MEMORY_SIZE

SearchDone == pc = "look" /\ curAddress >= MEMORY_SIZE

\* "myalloc: cannot service request"
Fail ==
  /\ SearchDone
  /\ bestAddress < 0
  /\ pc' = "user"
  /\ LocalsDie
  /\ UNCHANGED <<headers, blocks, held, freed>>

\* The headers that lie clear of the bytes from..to-1.
Clear(S, from, to) == {a \in S : a + HeaderSize <= from \/ a >= to}

\* splitBlock(bestAddress, request), which leaves `mark' as the size of the block: the
\* header `new' is made behind the payload.  The client then fills in its data.
SplitAs(mark) ==
  LET cur == bestAddress
      new == cur + HeaderSize + request
  IN
  /\ SearchDone
  /\ cur >= 0
  /\ size' = [size EXCEPT ![cur] = mark, ![new] = size[cur] - request - HeaderSize]
  /\ next' = [next EXCEPT ![cur] = new, ![new] = next[cur]]
  /\ prev' = [a \in PoolAddress |-> IF a = new THEN cur
                                ELSE IF a = next[cur] THEN new ELSE prev[a]]
  /\ pc' = "user"
  /\ blocks' = blocks \cup {new}
  /\ held' = [held EXCEPT ![cur] = request]
  /\ freed' = Clear(freed, cur, new + HeaderSize)
  /\ LocalsDie

\* Mutant: the size is not made negative.
SplitUnmarked == SplitAs(request)

Split == SplitAs(-request)

-----------------------------------------------------------------------------
(* myfree of the payload behind the header at b                            *)

magnitude(b) == IF size[b] < 0 THEN -size[b] ELSE size[b]

\* The neighbour that a link leads to exists and is free.
IsFree(link) == link # NULL /\ size[link] > 0

\* b is merged with those of its neighbours that are free: `front' is the header
\* that stays and `behind' the one that then follows it.
MergeWith(b, nextFree, prevFree) ==
  LET front  == IF prevFree THEN prev[b] ELSE b
      behind == IF nextFree THEN next[next[b]] ELSE next[b]
      gained == magnitude(b) + IF nextFree THEN HeaderSize + size[next[b]] ELSE 0
  IN
  /\ size' = IF prevFree
             THEN [size EXCEPT ![b] = magnitude(b), ![front] = @ + HeaderSize + gained]
             ELSE [size EXCEPT ![b] = gained]
  /\ next' = [next EXCEPT ![front] = behind]
  /\ prev' = [a \in PoolAddress |-> IF a = behind /\ (nextFree \/ prevFree)
                                THEN front ELSE prev[a]]
  /\ blocks' = blocks \ ((IF prevFree THEN {b} ELSE {})
                          \cup (IF nextFree THEN {next[b]} ELSE {}))

\* Mutant: the block before is not looked at.
MergeForward(b) == MergeWith(b, IsFree(next[b]), FALSE)

Merge(b) == MergeWith(b, IsFree(next[b]), IsFree(prev[b]))

Free(b) ==
  /\ pc = "user"
  /\ held[b] # NotHeld
  /\ Merge(b)
  /\ held' = [held EXCEPT ![b] = NotHeld]
  /\ freed' = IF FreesAgain = {} THEN {} ELSE freed \cup {b}
  /\ UNCHANGED <<pc, search>>

\* errors.txt, case 3: an address that has already been freed, and that is still a
\* block or has been merged into the one before it.
FreeAgain(b) ==
  /\ pc = "user"
  /\ b \in freed
  /\ (IF b \in blocks THEN "whole" ELSE "merged") \in FreesAgain
  /\ Merge(b)
  /\ UNCHANGED <<pc, search, held, freed>>

AllocNext ==
  \/ \E s \in Sizes : Call(s)
  \/ SkipAllocated \/ LookAtFree \/ Fail \/ Split
  \/ \E b \in PoolAddress : Free(b) \/ FreeAgain(b)

AllocSpec == AllocInit /\ [][AllocNext]_allocVars

-----------------------------------------------------------------------------
after(b) == b + HeaderSize + magnitude(b)

\* The header is followed by the one its next points to, or by the end of the pool.
LinkedOn(b) == \/ after(b) = MEMORY_SIZE /\ next[b] = NULL
               \/ after(b) \in blocks /\ next[b] = after(b)

\* The header follows the one its prev points to, or is the first.
LinkedBack(b) == \/ b = 0 /\ prev[b] = NULL
                 \/ prev[b] \in blocks /\ after(prev[b]) = b

\* myalloc walks the pool by sizes and myfree by links (myalloc.c:151 and 233); both
\* must see the same blocks: from 0 on they tile the pool without gap or overlap.
Tiled ==
  /\ 0 \in blocks
  /\ \A b \in blocks : LinkedOn(b) /\ LinkedBack(b)
  /\ \A b, c \in blocks : b < c => after(b) <= c

\* Whatever is merged and split around it, a block the client holds keeps its header
\* and the size asked for (myalloc.h:18), and a block nobody holds is not lost.
HeldIntact ==
  /\ \A b \in PoolAddress : held[b] # NotHeld => b \in blocks /\ size[b] = -held[b]
  /\ \A b \in blocks : size[b] < 0 => held[b] # NotHeld

\* "Coalescing merges blocks that are newly freed, with blocks next to or before it"
\* (myalloc.c:211): two free blocks are never neighbours.
Coalesced == \A b \in blocks : ~(size[b] > 0 /\ IsFree(next[b]))

\* So a client that has freed everything finds the pool whole again.
WholeAgain == (\A b \in PoolAddress : held[b] = NotHeld) => blocks = {0}

\* "The memory allocation algorithm implements a best fit approach" (myalloc.c:116):
\* a request gets the smallest block that can be split for it, the first of equals,
\* and is refused only if there is none.
Fits(b) == size[b] > request + HeaderSize
BestFit ==
  [][pc = "look" /\ pc' = "user" =>
       IF \E b \in blocks : Fits(b)
       THEN /\ Fits(bestAddress) /\ held'[bestAddress] = request
            /\ \A b \in blocks : Fits(b) => \/ size[bestAddress] < size[b]
                                            \/ size[bestAddress] = size[b] /\ bestAddress <= b
       ELSE UNCHANGED <<headers, held>>]_allocVars

\* The payloads the client holds.
extents == {<<b + HeaderSize, held[b]>> : b \in {a \in PoolAddress : held[a] # NotHeld}}

\* The allocator gives out memory nobody else holds (testalloc.c:188).
H == INSTANCE Heap WITH Pool <- MEMORY_SIZE, live <- extents
ImplementsHeap == H!Spec
=============================================================================
