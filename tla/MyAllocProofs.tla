--------------------------- MODULE MyAllocProofs ---------------------------
(***************************************************************************)
(* The allocator is correct for every pool, header and request size, as    *)
(* long as the client asks for at least one byte and does not free a block *)
(* that has been merged away.                                              *)
(***************************************************************************)
EXTENDS MyAlloc, TLAPS

\* The uses of the allocator that the theorems are about.
ProperUse == 0 \notin Sizes /\ "merged" \notin FreesAgain

Solid == \A b \in blocks : size[b] # 0

\* A freed header that is still a block is a free one.
FreedIsFree == \A b \in freed : b \in blocks => size[b] > 0

\* best is the best of the blocks below limit, and min its size; or none of them fits.
BestBelow(best, min, limit) ==
  \/ /\ best = -1 /\ min = MEMORY_SIZE
     /\ \A b \in blocks : b < limit => ~Fits(b)
  \/ /\ best \in blocks /\ best < limit
     /\ Fits(best) /\ min = size[best]
     /\ \A b \in blocks : b < limit /\ Fits(b) =>
          \/ size[best] < size[b]
          \/ size[best] = size[b] /\ best <= b

\* The search has looked at the blocks below curAddress.
Searched ==
  pc = "look" =>
    /\ request \in Sizes
    /\ curAddress \in blocks \cup {MEMORY_SIZE}
    /\ BestBelow(bestAddress, minGreaterSize, curAddress)

Shape == Tiled /\ Solid /\ Coalesced

IInv == TypeOK /\ Shape /\ HeldIntact /\ FreedIsFree /\ Searched

-----------------------------------------------------------------------------
(* Blocks and their extents.                                               *)

LEMMA MagnitudeIsNat ==
  ASSUME TypeOK, NEW b \in PoolAddress
  PROVE  magnitude(b) \in Nat /\ (size[b] >= 0 => magnitude(b) = size[b])
         /\ (size[b] < 0 => magnitude(b) = -size[b])
         /\ (size[b] # 0 => magnitude(b) > 0)
  BY DEF TypeOK, magnitude

\* A block ends where the next begins, or at the end of the pool; only one block ends there.
LEMMA Extents ==
  ASSUME TypeOK, Tiled, NEW b \in blocks
  PROVE  /\ b \in PoolAddress
         /\ after(b) \in Nat /\ b + HeaderSize <= after(b)
         /\ after(b) <= MEMORY_SIZE
         /\ magnitude(b) < MEMORY_SIZE
         /\ \A c \in blocks : after(c) = after(b) => c = b
         /\ \A c \in blocks : c < after(b) => c <= b
<1>1. b \in PoolAddress /\ magnitude(b) \in Nat
  BY MagnitudeIsNat DEF TypeOK
<1>2. after(b) \in Nat /\ b + HeaderSize <= after(b)
  BY <1>1, MyAllocAssumption DEF after, PoolAddress
<1>3. after(b) <= MEMORY_SIZE
  <2>1. after(b) = MEMORY_SIZE \/ after(b) \in blocks
    BY DEF Tiled, LinkedOn
  <2>2. blocks \subseteq PoolAddress
    BY DEF TypeOK
  <2> QED
    BY <2>1, <2>2, <1>2, MyAllocAssumption DEF PoolAddress
<1>4. magnitude(b) < MEMORY_SIZE
  BY <1>1, <1>3, MyAllocAssumption DEF after, PoolAddress
<1>5. ASSUME NEW c \in blocks, c < after(b)
      PROVE  c <= b
  BY <1>1, <1>5, <1>2 DEF Tiled, TypeOK, PoolAddress
<1>6. ASSUME NEW c \in blocks, after(c) = after(b)
      PROVE  c = b
  <2>1. c \in PoolAddress /\ magnitude(c) \in Nat
    BY MagnitudeIsNat DEF TypeOK
  <2>2. c < after(c) /\ b < after(b)
    BY <1>1, <2>1, MyAllocAssumption DEF after, PoolAddress
  <2>3. ~(c < b) /\ ~(b < c)
    BY <1>1, <1>6, <2>1, <2>2, <1>2 DEF Tiled, PoolAddress
  <2> QED
    BY <1>1, <2>1, <2>3 DEF PoolAddress
<1> QED
  BY <1>1, <1>2, <1>3, <1>4, <1>5, <1>6

\* next and prev of neighbouring blocks mirror each other.
LEMMA Mirrored ==
  ASSUME TypeOK, Tiled, NULL \notin Int, NEW b \in blocks, NEW c \in blocks
  PROVE  next[b] = c <=> prev[c] = b
<1>1. \A x \in blocks : x \in PoolAddress /\ x \in Int /\ after(x) \in Nat /\ x < after(x)
  BY Extents, MyAllocAssumption DEF PoolAddress
<1>2. ASSUME next[b] = c PROVE prev[c] = b
  <2>1. after(b) = c
    BY <1>1, <1>2 DEF Tiled, LinkedOn
  <2>2. c # 0
    BY <1>1, <2>1 DEF PoolAddress
  <2>3. prev[c] \in blocks /\ after(prev[c]) = c
    BY <2>2 DEF Tiled, LinkedBack
  <2> QED
    BY <2>1, <2>3, Extents
<1>3. ASSUME prev[c] = b PROVE next[b] = c
  <2>1. after(b) = c
    BY <1>1, <1>3 DEF Tiled, LinkedBack
  <2>2. c < MEMORY_SIZE
    BY <1>1, MyAllocAssumption DEF PoolAddress
  <2> QED
    BY <2>1, <2>2, MyAllocAssumption DEF Tiled, LinkedOn
<1> QED
  BY <1>2, <1>3

-----------------------------------------------------------------------------
(* The search.                                                             *)

\* Steps that leave the pool alone keep what is said of the pool.
LEMMA PoolUnchanged ==
  ASSUME Shape, HeldIntact, FreedIsFree, UNCHANGED <<headers, blocks, held, freed>>
  PROVE  Shape' /\ HeldIntact' /\ FreedIsFree'
  BY DEF Shape, Tiled, Solid, Coalesced, HeldIntact, FreedIsFree, LinkedOn, LinkedBack,
         IsFree, after, magnitude, headers

LEMMA CallKeeps ==
  ASSUME IInv, NEW s \in Sizes, Call(s)
  PROVE  IInv'
<1>1. TypeOK'
  BY MyAllocAssumption DEF IInv, TypeOK, Call, headers
<1>2. Searched'
  <2>1. \A b \in blocks : ~(b < 0)
    BY MyAllocAssumption DEF IInv, TypeOK, PoolAddress
  <2>2. 0 \in blocks
    BY DEF IInv, Shape, Tiled
  <2> QED
    BY <2>1, <2>2 DEF Call, Searched, BestBelow, Fits, headers
<1>3. Shape' /\ HeldIntact' /\ FreedIsFree'
  BY PoolUnchanged DEF IInv, Call
<1> QED
  BY <1>1, <1>2, <1>3 DEF IInv

\* One more block is looked at: it does not fit, is no better, or is the new best.
LEMMA OneMoreBlock ==
  ASSUME TypeOK, Tiled, request \in Nat, NEW cur \in blocks,
         NEW best, NEW min, BestBelow(best, min, cur)
  PROVE  /\ ~Fits(cur) \/ min <= size[cur] => BestBelow(best, min, after(cur))
         /\ Fits(cur) /\ size[cur] < min => BestBelow(cur, size[cur], after(cur))
<1>1. /\ after(cur) \in Nat /\ cur < after(cur)
      /\ \A b \in blocks : b \in Nat /\ size[b] \in Int /\ size[b] < MEMORY_SIZE
  <2>1. after(cur) \in Nat /\ cur < after(cur)
    <3>1. cur \in Nat /\ after(cur) \in Nat /\ cur + HeaderSize <= after(cur)
      BY Extents DEF PoolAddress
    <3> QED
      BY <3>1, MyAllocAssumption
  <2>2. \A b \in blocks : b \in PoolAddress /\ after(b) \in Nat /\ after(b) <= MEMORY_SIZE
    BY Extents
  <2>3. \A b \in blocks : b \in Nat /\ size[b] \in Int
    BY <2>2 DEF TypeOK, PoolAddress
  <2>4. MEMORY_SIZE \in Nat /\ HeaderSize \in Nat \ {0}
    BY MyAllocAssumption
  <2>5. \A b \in blocks : size[b] < MEMORY_SIZE
    BY <2>2, <2>3, <2>4 DEF after, magnitude
  <2> QED
    BY <2>1, <2>3, <2>5
<1>2. \A b \in blocks : b < after(cur) => b < cur \/ b = cur
  BY <1>1, Extents
<1>3. request + HeaderSize \in Nat
  BY MyAllocAssumption
<1>4. ASSUME ~Fits(cur)
      PROVE  BestBelow(best, min, after(cur))
  BY <1>1, <1>2, <1>4 DEF BestBelow
<1>5. ASSUME Fits(cur), min <= size[cur]
      PROVE  BestBelow(best, min, after(cur))
  <2>1. best \in blocks /\ best < cur /\ Fits(best) /\ min = size[best]
    BY <1>1, <1>5, MyAllocAssumption DEF BestBelow
  <2>2. \A b \in blocks : b < cur /\ Fits(b) =>
          size[best] < size[b] \/ (size[best] = size[b] /\ best <= b)
    BY <1>1, <2>1 DEF BestBelow
  <2> QED
    BY <1>1, <1>2, <1>5, <2>1, <2>2 DEF BestBelow
<1>6. ASSUME Fits(cur), size[cur] < min
      PROVE  BestBelow(cur, size[cur], after(cur))
  <2>1. \A b \in blocks : b < cur /\ Fits(b) => size[cur] < size[b]
    BY <1>1, <1>6 DEF BestBelow
  <2> QED
    BY <1>1, <1>2, <1>6, <2>1 DEF BestBelow
<1> QED
  BY <1>4, <1>5, <1>6

LEMMA SearchKeeps ==
  ASSUME IInv, SkipAllocated \/ LookAtFree
  PROVE  IInv'
<1> DEFINE cur == curAddress
<1> USE MyAllocAssumption
<1>1. cur \in blocks /\ cur \in PoolAddress /\ pc = "look" /\ pc' = "look"
  BY DEF IInv, TypeOK, Searched, SkipAllocated, LookAtFree, Searching
<1>2. TypeOK /\ Tiled
  BY DEF IInv, Shape
<1>3. curAddress' = after(cur)
  BY <1>1, <1>2 DEF SkipAllocated, LookAtFree, after, magnitude, TypeOK
<1>4. after(cur) \in blocks \cup {MEMORY_SIZE}
  BY <1>1, <1>2 DEF Tiled, LinkedOn
<1>5. \A b \in blocks : b < after(cur) => b < cur \/ b = cur
  BY <1>1, <1>2, Extents DEF PoolAddress
<1>6. size[cur] \in Int /\ size[cur] < MEMORY_SIZE /\ request \in Nat
      /\ \A b \in blocks : b \in PoolAddress /\ size[b] \in Int
  BY <1>1, <1>2, Extents DEF TypeOK, magnitude
<1>7. after(cur) \in Nat
  BY <1>1, <1>2, Extents
<1>8. UNCHANGED <<size, prev, next, blocks, held, freed, request>>
  BY DEF SkipAllocated, LookAtFree, headers
<1>9. bestAddress' \in PoolAddress \cup {-1} /\ minGreaterSize' \in Nat
  <2>1. CASE SkipAllocated
    BY <2>1, <1>2 DEF SkipAllocated, TypeOK
  <2>2. CASE LookAtFree
    BY <2>2, <1>1, <1>2, <1>6 DEF LookAtFree, TypeOK
  <2> QED
    BY <2>1, <2>2
<1>10. TypeOK'
  BY <1>1, <1>2, <1>3, <1>7, <1>8, <1>9 DEF TypeOK
<1>11. Searched'
  <2>1. request \in Sizes /\ request \in Nat /\ BestBelow(bestAddress, minGreaterSize, cur)
    BY <1>1 DEF IInv, Searched
  <2>2. PICK best, min : best = bestAddress' /\ min = minGreaterSize'
    OBVIOUS
  <2>3. BestBelow(best, min, after(cur))
    <3>1. CASE SkipAllocated
      <4>1. ~Fits(cur)
        BY <3>1, <1>6 DEF Fits, SkipAllocated
      <4>2. best = bestAddress /\ min = minGreaterSize
        BY <2>2, <3>1 DEF SkipAllocated
      <4> QED
        BY <2>1, <4>1, <4>2, <1>1, <1>2, OneMoreBlock
    <3>2. CASE LookAtFree /\ Better(cur)
      <4>1. best = cur /\ min = size[cur]
        BY <2>2, <3>2 DEF LookAtFree
      <4> QED
        BY <2>1, <3>2, <4>1, <1>1, <1>2, OneMoreBlock DEF Better, Fits
    <3>3. CASE LookAtFree /\ ~Better(cur)
      <4>1. best = bestAddress /\ min = minGreaterSize
        BY <2>2, <3>3 DEF LookAtFree
      <4>2. ~Fits(cur) \/ min <= size[cur]
        BY <3>3, <4>1, <1>2, <1>6 DEF Better, Fits, TypeOK
      <4> QED
        BY <2>1, <4>1, <4>2, <1>1, <1>2, OneMoreBlock
    <3> QED
      BY <3>1, <3>2, <3>3
  <2> QED
    BY <2>1, <2>2, <2>3, <1>3, <1>4, <1>8 DEF Searched, BestBelow, Fits
<1>12. Shape' /\ HeldIntact' /\ FreedIsFree'
  BY <1>8, PoolUnchanged DEF IInv, headers
<1> QED
  BY <1>10, <1>11, <1>12 DEF IInv

LEMMA FailKeeps ==
  ASSUME IInv, Fail
  PROVE  IInv'
<1>1. TypeOK' /\ Searched'
  BY MyAllocAssumption
     DEF IInv, TypeOK, Fail, LocalsDie, SearchDone, Searched, headers
<1>2. Shape' /\ HeldIntact' /\ FreedIsFree'
  BY PoolUnchanged DEF IInv, Fail
<1> QED
  BY <1>1, <1>2 DEF IInv

-----------------------------------------------------------------------------
(* splitBlock.                                                             *)

\* Where the two halves of the split block lie.
LEMMA SplitFacts ==
  ASSUME IInv, ProperUse, Split, NEW cur, cur = bestAddress,
         NEW new, new = cur + HeaderSize + request
  PROVE  /\ request \in Nat \ {0} /\ request \in Sizes
         /\ cur \in blocks /\ cur \in PoolAddress /\ new \in PoolAddress
         /\ size[cur] \in Nat
         /\ cur < new /\ new < after(cur)
         /\ new \notin blocks /\ cur # new /\ next[cur] # new /\ next[cur] # cur
         /\ size' = [size EXCEPT ![cur] = -request, ![new] = size[cur] - request - HeaderSize]
         /\ size[cur] - request - HeaderSize > 0
         /\ next' = [next EXCEPT ![cur] = new, ![new] = next[cur]]
         /\ prev' = [a \in PoolAddress |-> IF a = new THEN cur
                                       ELSE IF a = next[cur] THEN new ELSE prev[a]]
         /\ blocks' = blocks \cup {new}
         /\ held' = [held EXCEPT ![cur] = request]
<1> USE MyAllocAssumption
<1>1. request \in Nat \ {0} /\ request \in Sizes
  BY DEF IInv, Searched, Split, SplitAs, SearchDone, ProperUse
<1>2. cur \in blocks /\ Fits(cur)
  BY DEF IInv, Searched, BestBelow, Split, SplitAs, SearchDone
<1>3. TypeOK /\ Tiled
  BY DEF IInv, Shape
<1>4. cur \in PoolAddress /\ after(cur) \in Nat /\ after(cur) <= MEMORY_SIZE
  BY <1>2, <1>3, Extents
<1>5. size[cur] \in Nat /\ magnitude(cur) = size[cur] /\ size[cur] > request + HeaderSize
  BY <1>1, <1>2, <1>3, <1>4 DEF TypeOK, magnitude, Fits
<1>6. cur < new /\ new < after(cur) /\ new \in PoolAddress
  BY <1>1, <1>4, <1>5 DEF after, PoolAddress
<1>7. new \notin blocks
  BY <1>2, <1>3, <1>6, Extents DEF PoolAddress
<1>8. next[cur] # new /\ next[cur] # cur
  BY <1>2, <1>3, <1>4, <1>6 DEF Tiled, LinkedOn, PoolAddress
<1> QED
  BY <1>1, <1>2, <1>4, <1>5, <1>6, <1>7, <1>8 DEF Split, SplitAs

LEMMA SplitKeeps ==
  ASSUME IInv, ProperUse, Split
  PROVE  IInv'
<1> USE MyAllocAssumption
<1>0. PICK cur, new : cur = bestAddress /\ new = cur + HeaderSize + request
  OBVIOUS
<1>1. /\ request \in Nat \ {0} /\ request \in Sizes
      /\ cur \in blocks /\ cur \in PoolAddress /\ new \in PoolAddress
      /\ size[cur] \in Nat
      /\ cur < new /\ new < after(cur)
      /\ new \notin blocks /\ cur # new /\ next[cur] # new /\ next[cur] # cur
      /\ size[cur] - request - HeaderSize > 0
  BY <1>0, SplitFacts
<1>2. /\ size' = [size EXCEPT ![cur] = -request, ![new] = size[cur] - request - HeaderSize]
      /\ next' = [next EXCEPT ![cur] = new, ![new] = next[cur]]
      /\ prev' = [a \in PoolAddress |-> IF a = new THEN cur
                                    ELSE IF a = next[cur] THEN new ELSE prev[a]]
      /\ blocks' = blocks \cup {new}
      /\ held' = [held EXCEPT ![cur] = request]
  BY <1>0, SplitFacts
<1>3. TypeOK /\ Tiled /\ Solid /\ Coalesced /\ HeldIntact
  BY DEF IInv, Shape
<1>4. TypeOK'
  <2>1. freed' \subseteq freed
    BY DEF Split, SplitAs, Clear
  <2>2. pc' = "user" /\ request' = 0 /\ curAddress' = 0 /\ bestAddress' = -1
        /\ minGreaterSize' = MEMORY_SIZE
    BY DEF Split, SplitAs, LocalsDie
  <2> QED
    BY <1>1, <1>2, <1>3, <2>1, <2>2 DEF TypeOK
<1>5. Searched'
  BY DEF Split, SplitAs, Searched
<1>6. /\ size'[cur] = -request /\ size'[new] = size[cur] - request - HeaderSize
      /\ next'[cur] = new /\ next'[new] = next[cur]
      /\ prev'[new] = cur /\ prev'[cur] = prev[cur]
      /\ \A b \in blocks : b # cur => size'[b] = size[b] /\ next'[b] = next[b]
      /\ \A b \in blocks : prev'[b] = IF b = next[cur] THEN new ELSE prev[b]
  BY <1>1, <1>2, <1>3 DEF TypeOK
<1>7. /\ after(cur)' = new /\ after(new)' = after(cur)
      /\ \A b \in blocks : b # cur => after(b)' = after(b)
  <2>1. magnitude(cur)' = request
    BY <1>1, <1>6 DEF magnitude
  <2>2. magnitude(new)' = size[cur] - request - HeaderSize /\ magnitude(cur) = size[cur]
    BY <1>1, <1>6 DEF magnitude
  <2>3. \A b \in blocks : b # cur => magnitude(b)' = magnitude(b)
    BY <1>6 DEF magnitude
  <2> QED
    BY <1>0, <1>1, <2>1, <2>2, <2>3 DEF after, PoolAddress
<1>8. /\ after(cur) \in Nat
      /\ \A b \in blocks : b \in PoolAddress /\ b \in Nat /\ after(b) \in Nat /\ b < after(b)
      /\ \A b \in blocks : b < after(cur) => b <= cur
  BY <1>1, <1>3, Extents DEF PoolAddress
<1>9. Tiled'
  <2>1. (0 \in blocks)'
    BY <1>2, <1>3 DEF Tiled
  <2>2. ASSUME NEW b \in blocks'
        PROVE  LinkedOn(b)'
    <3>1. CASE b = cur
      BY <1>2, <1>6, <1>7, <3>1 DEF LinkedOn
    <3>2. CASE b = new
      BY <1>1, <1>2, <1>3, <1>6, <1>7, <3>2 DEF Tiled, LinkedOn
    <3>3. CASE b \in blocks /\ b # cur
      <4>1. LinkedOn(b)
        BY <1>3, <3>3 DEF Tiled
      <4>2. next'[b] = next[b] /\ after(b)' = after(b)
        BY <1>6, <1>7, <3>3
      <4> QED
        BY <1>2, <4>1, <4>2 DEF LinkedOn
    <3> QED
      BY <1>2, <3>1, <3>2, <3>3
  <2>3. ASSUME NEW b \in blocks'
        PROVE  LinkedBack(b)'
    <3>1. CASE b = new
      BY <1>1, <1>2, <1>6, <1>7, <3>1 DEF LinkedBack
    <3>2. CASE b \in blocks /\ b = next[cur]
      <4>1. b = after(cur)
        BY <1>1, <1>3, <1>8, <3>2 DEF Tiled, LinkedOn
      <4> QED
        BY <1>2, <1>6, <1>7, <3>2, <4>1 DEF LinkedBack
    <3>3. CASE b \in blocks /\ b # next[cur]
      <4>1. prev[b] # cur
        BY <1>1, <1>3, <3>3, Mirrored
      <4>2. prev'[b] = prev[b]
        BY <1>6, <3>3
      <4> QED
        BY <1>2, <1>3, <1>7, <3>3, <4>1, <4>2 DEF Tiled, LinkedBack
    <3> QED
      BY <1>2, <3>1, <3>2, <3>3
  <2>4. ASSUME NEW b \in blocks', NEW c \in blocks', b < c
        PROVE  after(b)' <= c
    <3>1. CASE b \in blocks /\ c \in blocks
      BY <1>1, <1>3, <1>7, <1>8, <2>4, <3>1 DEF Tiled, PoolAddress
    <3>2. CASE b = new /\ c \in blocks
      BY <1>1, <1>3, <1>7, <1>8, <2>4, <3>2 DEF Tiled, PoolAddress
    <3>3. CASE b \in blocks /\ c = new
      <4>1. b <= cur
        BY <1>1, <1>8, <2>4, <3>3 DEF PoolAddress
      <4> QED
        BY <1>1, <1>3, <1>7, <1>8, <3>3, <4>1 DEF Tiled, PoolAddress
    <3> QED
      BY <1>1, <1>2, <2>4, <3>1, <3>2, <3>3 DEF PoolAddress
  <2> QED
    BY <2>1, <2>2, <2>3, <2>4 DEF Tiled
<1>10. Solid'
  <2>1. -request # 0 /\ size[cur] - request - HeaderSize # 0
    BY <1>1
  <2> QED
    BY <1>2, <1>3, <1>6, <2>1 DEF Solid
<1>11. Coalesced'
  <2>1. ASSUME NEW b \in blocks', (size[b] > 0)', IsFree(next[b])'
        PROVE  FALSE
    <3>1. CASE b = new
      <4>1. next'[new] \in blocks /\ size'[next'[new]] = size[next[cur]] /\ next[cur] # NULL
        BY <1>1, <1>3, <1>6, <2>1, <3>1 DEF IsFree, Tiled, LinkedOn
      <4> QED
        BY <1>1, <1>3, <1>6, <2>1, <3>1, <4>1 DEF IsFree, Coalesced
    <3>2. CASE b \in blocks
      <4>1. b # cur
        BY <1>1, <1>6, <2>1
      <4>2. next[b] \in blocks /\ next[b] # NULL /\ next'[b] = next[b]
        BY <1>3, <1>6, <2>1, <3>2, <4>1 DEF IsFree, Tiled, LinkedOn
      <4>3. next[b] # cur
        BY <1>1, <1>6, <2>1, <4>2 DEF IsFree
      <4> QED
        BY <1>3, <1>6, <2>1, <3>2, <4>1, <4>2, <4>3 DEF IsFree, Coalesced
    <3> QED
      BY <1>2, <3>1, <3>2
  <2> QED
    BY <2>1 DEF Coalesced
<1>12. HeldIntact'
  <2>1. \A b \in PoolAddress : held'[b] = IF b = cur THEN request ELSE held[b]
    BY <1>1, <1>2, <1>3 DEF TypeOK
  <2>2. request # NotHeld
    BY <1>1 DEF NotHeld
  <2>3. ASSUME NEW b \in PoolAddress, held'[b] # NotHeld
        PROVE  b \in blocks' /\ size'[b] = -held'[b]
    <3>1. CASE b = cur
      BY <1>1, <1>2, <1>6, <2>1, <3>1
    <3>2. CASE b # cur
      <4>1. b \in blocks /\ size[b] = -held[b] /\ held'[b] = held[b]
        BY <1>3, <2>1, <2>3, <3>2 DEF HeldIntact
      <4> QED
        BY <1>2, <1>6, <3>2, <4>1
    <3> QED
      BY <3>1, <3>2
  <2>4. ASSUME NEW b \in blocks', size'[b] < 0
        PROVE  held'[b] # NotHeld
    <3>1. b # new
      BY <1>1, <1>6, <2>4
    <3> QED
      BY <1>1, <1>2, <1>3, <1>6, <1>8, <2>1, <2>2, <2>4, <3>1 DEF HeldIntact
  <2> QED
    BY <2>3, <2>4 DEF HeldIntact
<1>13. FreedIsFree'
  <2>1. ASSUME NEW b \in freed', b \in blocks'
        PROVE  size'[b] > 0
    <3>1. b \in freed /\ b # cur /\ b # new
      <4>1. b \in freed /\ b \in Nat /\ (b + HeaderSize <= cur \/ b >= new + HeaderSize)
        BY <1>0, <1>3, <2>1 DEF Split, SplitAs, Clear, TypeOK, PoolAddress
      <4> QED
        BY <1>1, <4>1 DEF PoolAddress
    <3> QED
      BY <1>2, <1>6, <2>1, <3>1 DEF IInv, FreedIsFree
  <2> QED
    BY <2>1 DEF FreedIsFree
<1> QED
  BY <1>4, <1>5, <1>9, <1>10, <1>11, <1>12, <1>13 DEF IInv, Shape

-----------------------------------------------------------------------------
(* myfree.                                                                 *)

\* What a merge of b amounts to: the blocks from front up to edge have become one.
Merged(front, edge) ==
  /\ front \in blocks /\ front < edge
  /\ edge = MEMORY_SIZE \/ edge \in blocks
  /\ blocks' = {c \in blocks : c <= front \/ c >= edge}
  /\ size' \in [PoolAddress -> Int]
  /\ size'[front] = edge - front - HeaderSize /\ size'[front] > 0
  /\ next' \in [PoolAddress -> PoolAddress \cup {NULL}]
  /\ next'[front] = IF edge = MEMORY_SIZE THEN NULL ELSE edge
  /\ prev' \in [PoolAddress -> PoolAddress \cup {NULL}]
  /\ edge # MEMORY_SIZE => prev'[edge] = front
  /\ \A c \in blocks' : c # front => size'[c] = size[c] /\ next'[c] = next[c]
  /\ \A c \in blocks' : c # edge => prev'[c] = prev[c]

\* The blocks beside the merged one are not free.
Fenced(front, edge) ==
  /\ edge \in blocks => size[edge] <= 0
  /\ front # 0 => size[prev[front]] <= 0

LEMMA MergeFacts ==
  ASSUME TypeOK, Shape, NEW b \in blocks, Merge(b)
  PROVE  \E front \in blocks, edge \in Nat :
           /\ Merged(front, edge) /\ Fenced(front, edge)
           /\ front <= b /\ b < edge
           /\ \A c \in blocks : front <= c /\ c < edge /\ c # b => size[c] > 0
<1> USE MyAllocAssumption
<1> DEFINE n == next[b]
           p == prev[b]
           nf == IsFree(n)
           pf == IsFree(p)
           front == IF pf THEN p ELSE b
           edge == IF nf THEN after(n) ELSE after(b)
           behind == IF nf THEN next[n] ELSE n
           gained == magnitude(b) + IF nf THEN HeaderSize + size[n] ELSE 0
<1>1. Tiled /\ Solid /\ Coalesced
  BY DEF Shape
<1>2. /\ \A c \in blocks : /\ c \in PoolAddress /\ c \in Nat /\ size[c] \in Int
                           /\ magnitude(c) \in Nat /\ magnitude(c) > 0
                           /\ (size[c] > 0 => magnitude(c) = size[c])
                           /\ after(c) \in Nat /\ c < after(c)
                           /\ after(c) = c + HeaderSize + magnitude(c)
                           /\ after(c) <= MEMORY_SIZE
      /\ \A c, d \in blocks : d < after(c) => d <= c
  <2>1. ASSUME NEW c \in blocks
        PROVE  /\ c \in PoolAddress /\ c \in Nat /\ size[c] \in Int
               /\ magnitude(c) \in Nat /\ magnitude(c) > 0
               /\ (size[c] > 0 => magnitude(c) = size[c])
               /\ after(c) \in Nat /\ c < after(c)
               /\ after(c) = c + HeaderSize + magnitude(c)
               /\ after(c) <= MEMORY_SIZE
    <3>1. c \in PoolAddress /\ c \in Nat /\ size[c] \in Int /\ size[c] # 0
      BY <1>1 DEF Solid, TypeOK, PoolAddress
    <3>2. magnitude(c) \in Nat /\ magnitude(c) > 0 /\ (size[c] > 0 => magnitude(c) = size[c])
      BY <3>1, MagnitudeIsNat
    <3>3. after(c) = c + HeaderSize + magnitude(c)
      BY DEF after
    <3>4. after(c) \in Nat /\ c < after(c) /\ after(c) <= MEMORY_SIZE
      BY <1>1, <3>1, <3>2, <3>3, Extents
    <3> QED
      BY <3>1, <3>2, <3>3, <3>4
  <2>2. \A c, d \in blocks : d < after(c) => d <= c
    BY <1>1, Extents
  <2> QED
    BY <2>1, <2>2
<1>3. nf => /\ n \in blocks /\ after(b) = n /\ size[n] > 0 /\ n # NULL
  BY <1>1 DEF IsFree, Tiled, LinkedOn
<1>4. pf => /\ p \in blocks /\ after(p) = b /\ size[p] > 0 /\ p # NULL
  BY <1>1 DEF IsFree, Tiled, LinkedBack
<1>5. front \in blocks /\ front <= b /\ (pf => front < b)
  BY <1>2, <1>4
<1>6. edge \in Nat /\ b < edge /\ edge <= MEMORY_SIZE
  BY <1>2, <1>3
<1>7. /\ edge = MEMORY_SIZE \/ edge \in blocks
      /\ behind = IF edge = MEMORY_SIZE THEN NULL ELSE edge
  <2>1. \A c \in blocks : LinkedOn(c) /\ MEMORY_SIZE \notin blocks
    BY <1>1, <1>2 DEF Tiled, PoolAddress
  <2> QED
    BY <2>1, <1>3 DEF LinkedOn
<1>8. \A c \in blocks : c < edge /\ front < c => c = b \/ (nf /\ c = n)
  <2>1. ASSUME NEW c \in blocks, c < edge, front < c
        PROVE  c = b \/ (nf /\ c = n)
    <3>1. b <= c
      BY <1>2, <1>4, <2>1
    <3>2. c <= b \/ (nf /\ c <= n)
      BY <1>2, <1>3, <2>1
    <3>3. nf /\ b < c => n <= c
      BY <1>1, <1>2, <1>3, <2>1 DEF Tiled
    <3> QED
      BY <1>2, <1>3, <2>1, <3>1, <3>2, <3>3
  <2> QED
    BY <2>1
<1>9. /\ size' = IF pf THEN [size EXCEPT ![b] = magnitude(b), ![front] = @ + HeaderSize + gained]
                 ELSE [size EXCEPT ![b] = gained]
      /\ next' = [next EXCEPT ![front] = behind]
      /\ prev' = [a \in PoolAddress |-> IF a = behind /\ (nf \/ pf) THEN front ELSE prev[a]]
      /\ blocks' = blocks \ ((IF pf THEN {b} ELSE {}) \cup (IF nf THEN {n} ELSE {}))
  BY DEF Merge, MergeWith
<1>10. Merged(front, edge)
  <2>1. blocks' = {c \in blocks : c <= front \/ c >= edge}
    <3>1. ASSUME NEW c \in blocks
          PROVE  c \in blocks' <=> c <= front \/ c >= edge
      <4>1. c = b => (c \in blocks' <=> ~pf) /\ (c <= front <=> ~pf) /\ ~(c >= edge)
        BY <1>2, <1>3, <1>5, <1>6, <1>9
      <4>2. nf /\ c = n => c \notin blocks' /\ ~(c <= front) /\ ~(c >= edge)
        BY <1>2, <1>3, <1>5, <1>6, <1>9
      <4>3. c # b /\ ~(nf /\ c = n) => c \in blocks' /\ (c <= front \/ c >= edge)
        BY <1>2, <1>5, <1>6, <1>8, <1>9
      <4> QED
        BY <4>1, <4>2, <4>3
    <3> QED
      BY <3>1, <1>9
  <2>2. /\ size' \in [PoolAddress -> Int]
        /\ size'[front] = edge - front - HeaderSize /\ size'[front] > 0
        /\ \A c \in blocks' : c # front => size'[c] = size[c]
    <3>1. gained \in Nat /\ gained > 0 /\ b + HeaderSize + gained = edge
      BY <1>2, <1>3
    <3>2. CASE pf
      <4>1. size' = [size EXCEPT ![b] = magnitude(b), ![front] = size[front] + HeaderSize + gained]
        BY <1>2, <1>5, <1>9, <3>2 DEF TypeOK
      <4>2. front + HeaderSize + size[front] = b
        BY <1>2, <1>4, <3>2
      <4>3. size'[front] = size[front] + HeaderSize + gained /\ size[front] > 0
        BY <1>2, <1>4, <1>5, <3>2, <4>1 DEF TypeOK
      <4>4. \A c \in blocks' : c # b
        BY <1>9, <3>2
      <4> QED
        BY <1>2, <1>5, <1>6, <1>9, <3>1, <4>1, <4>2, <4>3, <4>4 DEF TypeOK
    <3>3. CASE ~pf
      <4>1. size' = [size EXCEPT ![b] = gained] /\ front = b
        BY <1>9, <3>3
      <4> QED
        BY <1>2, <1>6, <1>9, <3>1, <4>1 DEF TypeOK
    <3> QED
      BY <3>2, <3>3
  <2>3. /\ next' \in [PoolAddress -> PoolAddress \cup {NULL}]
        /\ next'[front] = IF edge = MEMORY_SIZE THEN NULL ELSE edge
        /\ \A c \in blocks' : c # front => next'[c] = next[c]
    BY <1>2, <1>5, <1>7, <1>9 DEF TypeOK
  <2>4. /\ prev' \in [PoolAddress -> PoolAddress \cup {NULL}]
        /\ edge # MEMORY_SIZE => prev'[edge] = front
        /\ \A c \in blocks' : c # edge => prev'[c] = prev[c]
    <3>1. prev' \in [PoolAddress -> PoolAddress \cup {NULL}]
      BY <1>2, <1>5, <1>9 DEF TypeOK
    <3>2. ASSUME edge # MEMORY_SIZE
          PROVE  prev'[edge] = front
      <4>1. edge \in blocks /\ behind = edge
        BY <1>7, <3>2
      <4>2. CASE nf \/ pf
        BY <1>2, <1>9, <4>1, <4>2
      <4>3. CASE ~nf /\ ~pf
        <5>1. prev[edge] = b
          BY <1>1, <4>1, <4>3, Mirrored
        <5> QED
          BY <1>2, <1>9, <4>1, <4>3, <5>1
      <4> QED
        BY <4>2, <4>3
    <3>3. ASSUME NEW c \in blocks', c # edge
          PROVE  prev'[c] = prev[c]
      <4>1. c \in PoolAddress /\ c # NULL
        BY <1>2, <1>9 DEF PoolAddress
      <4>2. c # behind
        BY <1>7, <3>3, <4>1
      <4> QED
        BY <1>9, <4>1, <4>2
    <3> QED
      BY <3>1, <3>2, <3>3
  <2> QED
    BY <1>2, <1>5, <1>6, <1>7, <2>1, <2>2, <2>3, <2>4 DEF Merged
<1>11. Fenced(front, edge)
  <2>1. ASSUME edge \in blocks
        PROVE  size[edge] <= 0
    <3>1. behind = edge /\ edge # NULL
      BY <1>2, <1>7, <2>1 DEF PoolAddress
    <3> QED
      BY <1>1, <1>2, <1>3, <2>1, <3>1 DEF Coalesced, IsFree
  <2>2. ASSUME front # 0
        PROVE  size[prev[front]] <= 0
    <3>1. prev[front] \in blocks /\ prev[front] # NULL
      BY <1>1, <1>2, <1>5, <2>2 DEF Tiled, LinkedBack, PoolAddress
    <3>2. next[prev[front]] = front /\ front # NULL
      BY <1>1, <1>2, <1>5, <3>1, Mirrored DEF PoolAddress
    <3> QED
      BY <1>1, <1>2, <1>4, <1>5, <3>1, <3>2 DEF Coalesced, IsFree
  <2> QED
    BY <2>1, <2>2 DEF Fenced
<1>12. \A c \in blocks : front <= c /\ c < edge /\ c # b => size[c] > 0
  BY <1>2, <1>3, <1>4, <1>5, <1>8
<1> QED
  BY <1>5, <1>6, <1>10, <1>11, <1>12

LEMMA MergeKeepsShape ==
  ASSUME TypeOK, Shape, NEW front \in blocks, NEW edge \in Nat,
         Merged(front, edge), Fenced(front, edge)
  PROVE  Shape'
<1> USE MyAllocAssumption
<1>1. Tiled /\ Solid /\ Coalesced
  BY DEF Shape
<1>2. /\ \A c \in blocks : /\ c \in PoolAddress /\ c \in Nat /\ c # NULL /\ c < MEMORY_SIZE
                           /\ after(c) \in Nat /\ c < after(c) /\ size[c] \in Int
      /\ \A c, d \in blocks : d < after(c) => d <= c
  <2>1. \A c \in blocks : after(c) \in Nat /\ c + HeaderSize <= after(c)
    BY <1>1, Extents
  <2>2. \A c, d \in blocks : d < after(c) => d <= c
    BY <1>1, Extents
  <2> QED
    BY <2>1, <2>2 DEF TypeOK, PoolAddress
<1>3. /\ front < edge
      /\ edge = MEMORY_SIZE \/ edge \in blocks
      /\ blocks' = {c \in blocks : c <= front \/ c >= edge}
      /\ size'[front] = edge - front - HeaderSize /\ size'[front] > 0
      /\ next'[front] = IF edge = MEMORY_SIZE THEN NULL ELSE edge
      /\ edge # MEMORY_SIZE => prev'[edge] = front
      /\ \A c \in blocks' : c # front => size'[c] = size[c] /\ next'[c] = next[c]
      /\ \A c \in blocks' : c # edge => prev'[c] = prev[c]
  BY DEF Merged
<1>4. /\ after(front)' = edge
      /\ \A c \in blocks' : c # front => after(c)' = after(c)
  <2>1. magnitude(front)' = edge - front - HeaderSize
    BY <1>2, <1>3 DEF magnitude
  <2>2. \A c \in blocks' : c # front => magnitude(c)' = magnitude(c)
    BY <1>3 DEF magnitude
  <2> QED
    BY <1>2, <2>1, <2>2 DEF after
<1>5. front \in blocks' /\ (edge # MEMORY_SIZE => edge \in blocks')
  BY <1>2, <1>3
<1>6. Tiled'
  <2>1. 0 \in blocks'
    BY <1>1, <1>2, <1>3 DEF Tiled
  <2>2. ASSUME NEW b \in blocks'
        PROVE  LinkedOn(b)'
    <3>1. CASE b = front
      BY <1>3, <1>4, <1>5, <3>1 DEF LinkedOn
    <3>2. CASE b # front
      <4>1. after(b) \in blocks => after(b) \in blocks'
        <5>1. CASE b < front
          BY <1>1, <1>2, <1>3, <5>1 DEF Tiled
        <5>2. CASE b >= edge
          BY <1>2, <1>3, <5>2
        <5> QED
          BY <1>2, <1>3, <3>2, <5>1, <5>2
      <4> QED
        BY <1>1, <1>3, <1>4, <3>2, <4>1 DEF Tiled, LinkedOn
    <3> QED
      BY <3>1, <3>2
  <2>3. ASSUME NEW b \in blocks'
        PROVE  LinkedBack(b)'
    <3>1. CASE b = edge
      BY <1>2, <1>3, <1>4, <1>5, <3>1 DEF LinkedBack
    <3>2. CASE b # edge /\ b # 0
      <4>1. prev[b] \in blocks /\ after(prev[b]) = b /\ prev'[b] = prev[b]
        BY <1>1, <1>3, <3>2 DEF Tiled, LinkedBack
      <4>2. prev[b] < front \/ prev[b] >= edge
        <5>1. CASE b <= front
          BY <1>2, <1>3, <4>1, <5>1
        <5>2. CASE b > edge
          BY <1>1, <1>2, <1>3, <4>1, <5>2 DEF Tiled
        <5> QED
          BY <1>2, <1>3, <3>2, <5>1, <5>2
      <4> QED
        BY <1>2, <1>3, <1>4, <4>1, <4>2 DEF LinkedBack
    <3>3. CASE b # edge /\ b = 0
      <4>1. LinkedBack(b) /\ prev'[b] = prev[b]
        BY <1>1, <1>3, <3>3 DEF Tiled
      <4>2. prev[b] = NULL
        BY <1>2, <3>3, <4>1 DEF LinkedBack
      <4> QED
        BY <3>3, <4>1, <4>2 DEF LinkedBack
    <3> QED
      BY <3>1, <3>2, <3>3
  <2>4. ASSUME NEW b \in blocks', NEW c \in blocks', b < c
        PROVE  after(b)' <= c
    <3>1. CASE b = front
      BY <1>2, <1>3, <1>4, <2>4, <3>1
    <3>2. CASE b # front
      BY <1>1, <1>2, <1>3, <1>4, <2>4, <3>2 DEF Tiled
    <3> QED
      BY <3>1, <3>2
  <2> QED
    BY <2>1, <2>2, <2>3, <2>4 DEF Tiled
<1>7. Solid'
  <2>1. ASSUME NEW b \in blocks'
        PROVE  size'[b] # 0
    BY <1>1, <1>2, <1>3 DEF Solid
  <2> QED
    BY <2>1 DEF Solid
<1>8. Coalesced'
  <2>1. ASSUME NEW b \in blocks', size'[b] > 0, next'[b] # NULL, size'[next'[b]] > 0
        PROVE  FALSE
    <3>1. CASE b = front
      <4>1. edge \in blocks /\ edge \in blocks' /\ next'[b] = edge /\ edge # front
        BY <1>2, <1>3, <1>5, <2>1, <3>1
      <4> QED
        BY <1>2, <1>3, <2>1, <4>1 DEF Fenced
    <3>2. CASE b # front
      <4>1. b \in blocks /\ size[b] > 0 /\ next'[b] = next[b] /\ next[b] \in blocks
        BY <1>1, <1>3, <2>1, <3>2 DEF Tiled, LinkedOn
      <4>2. CASE next[b] = front
        <5>1. prev[front] = b
          BY <1>1, <4>1, <4>2, Mirrored
        <5>2. front # 0
          BY <1>1, <1>2, <4>1, <5>1 DEF Tiled, LinkedBack
        <5> QED
          BY <1>2, <4>1, <5>1, <5>2 DEF Fenced
      <4>3. CASE next[b] # front
        <5>1. next[b] \in blocks'
          BY <1>6, <2>1, <4>1 DEF Tiled, LinkedOn
        <5> QED
          BY <1>1, <1>3, <2>1, <4>1, <4>3, <5>1 DEF Coalesced, IsFree
      <4> QED
        BY <4>2, <4>3
    <3> QED
      BY <3>1, <3>2
  <2> QED
    BY <2>1 DEF Coalesced, IsFree
<1> QED
  BY <1>6, <1>7, <1>8 DEF Shape

\* A merge of b, which nobody holds any more, keeps all of the invariant.
LEMMA MergeKeeps ==
  ASSUME IInv, NEW b \in blocks, Merge(b),
         UNCHANGED <<pc, search>>, pc = "user",
         held' = [held EXCEPT ![b] = NotHeld],
         freed' \subseteq freed \cup {b}
  PROVE  IInv'
<1> USE MyAllocAssumption
<1>1. TypeOK /\ Shape /\ HeldIntact
  BY DEF IInv
<1>2. PICK front \in blocks, edge \in Nat :
           /\ Merged(front, edge) /\ Fenced(front, edge)
           /\ front <= b /\ b < edge
           /\ \A c \in blocks : front <= c /\ c < edge /\ c # b => size[c] > 0
  BY <1>1, MergeFacts
<1>3. /\ blocks' = {c \in blocks : c <= front \/ c >= edge}
      /\ size' \in [PoolAddress -> Int] /\ size'[front] > 0
      /\ next' \in [PoolAddress -> PoolAddress \cup {NULL}]
      /\ prev' \in [PoolAddress -> PoolAddress \cup {NULL}]
      /\ \A c \in blocks' : c # front => size'[c] = size[c]
  BY <1>2 DEF Merged
<1>4. TypeOK'
  BY <1>1, <1>3 DEF TypeOK, search
<1>5. Shape'
  BY <1>1, <1>2, MergeKeepsShape
<1>6. \A c \in blocks : c \in PoolAddress /\ c \in Nat /\ size[c] \in Int /\ held[c] \in Int
  <2>1. Sizes \cup {NotHeld} \subseteq Int
    BY DEF NotHeld
  <2> QED
    BY <1>1, <2>1 DEF TypeOK, PoolAddress
<1>7. \A c \in PoolAddress : held'[c] = IF c = b THEN NotHeld ELSE held[c]
  BY <1>1, <1>6 DEF TypeOK
<1>8. HeldIntact'
  <2>1. ASSUME NEW c \in PoolAddress, held'[c] # NotHeld
        PROVE  c \in blocks' /\ size'[c] = -held'[c]
    <3>1. c # b /\ c \in blocks /\ held'[c] = held[c] /\ size[c] = -held[c]
      BY <1>1, <1>7, <2>1 DEF HeldIntact
    <3>2. ~(size[c] > 0)
      <4>1. held[c] \in Nat
        BY <1>1, <2>1, <3>1 DEF TypeOK
      <4> QED
        BY <3>1, <4>1
    <3>3. c < front \/ c >= edge
      BY <1>2, <1>6, <3>1, <3>2
    <3> QED
      BY <1>2, <1>3, <1>6, <3>1, <3>3
  <2>2. ASSUME NEW c \in blocks', size'[c] < 0
        PROVE  held'[c] # NotHeld
    <3>1. c # front /\ c \in blocks /\ size[c] < 0
      BY <1>2, <1>3, <1>6, <2>2
    <3>2. c # b
      BY <1>2, <1>3, <1>6, <2>2, <3>1
    <3> QED
      BY <1>1, <1>6, <1>7, <3>1, <3>2 DEF HeldIntact
  <2> QED
    BY <2>1, <2>2 DEF HeldIntact
<1>9. FreedIsFree'
  <2>1. ASSUME NEW c \in freed', c \in blocks'
        PROVE  size'[c] > 0
    <3>1. CASE c = front
      BY <1>3, <3>1
    <3>2. CASE c # front
      <4>1. c # b
        BY <1>2, <1>3, <1>6, <2>1, <3>2
      <4> QED
        BY <1>3, <2>1, <3>2, <4>1 DEF IInv, FreedIsFree
    <3> QED
      BY <3>1, <3>2
  <2> QED
    BY <2>1 DEF FreedIsFree
<1>10. Searched'
  BY DEF Searched
<1> QED
  BY <1>4, <1>5, <1>8, <1>9, <1>10 DEF IInv

-----------------------------------------------------------------------------
LEMMA Invariance ==
  ASSUME ProperUse
  PROVE  AllocSpec => []IInv
<1>1. AllocInit => IInv
  <2> SUFFICES ASSUME AllocInit PROVE IInv
    OBVIOUS
  <2> USE MyAllocAssumption
  <2>1. TypeOK
    BY DEF AllocInit, TypeOK, PoolAddress, NotHeld
  <2>2. size[0] = MEMORY_SIZE - HeaderSize /\ after(0) = MEMORY_SIZE /\ blocks = {0}
        /\ next[0] = NULL /\ prev[0] = NULL
    BY DEF AllocInit, PoolAddress, after, magnitude
  <2>3. Shape
    BY <2>2 DEF Shape, Tiled, Solid, Coalesced, LinkedOn, LinkedBack, IsFree
  <2>4. HeldIntact /\ FreedIsFree /\ Searched
    BY <2>2 DEF AllocInit, HeldIntact, FreedIsFree, Searched
  <2> QED
    BY <2>1, <2>3, <2>4 DEF IInv
<1>2. IInv /\ [AllocNext]_allocVars => IInv'
  <2> SUFFICES ASSUME IInv, [AllocNext]_allocVars PROVE IInv'
    OBVIOUS
  <2>1. ASSUME NEW s \in Sizes, Call(s) PROVE IInv'
    BY <2>1, CallKeeps
  <2>2. CASE SkipAllocated \/ LookAtFree
    BY <2>2, SearchKeeps
  <2>3. CASE Fail
    BY <2>3, FailKeeps
  <2>4. CASE Split
    BY <2>4, SplitKeeps
  <2>5. ASSUME NEW b \in PoolAddress, Free(b) PROVE IInv'
    <3>1. b \in blocks
      BY <2>5 DEF IInv, HeldIntact, Free
    <3>2. freed' \subseteq freed \cup {b}
      BY <2>5 DEF Free
    <3> QED
      BY <2>5, <3>1, <3>2, MergeKeeps DEF Free
  <2>6. ASSUME NEW b \in PoolAddress, FreeAgain(b) PROVE IInv'
    <3>1. b \in blocks /\ size[b] > 0
      BY <2>6 DEF FreeAgain, ProperUse, IInv, FreedIsFree
    <3>2. held[b] = NotHeld
      <4>1. held[b] # NotHeld => held[b] \in Nat /\ size[b] = -held[b]
        BY MyAllocAssumption DEF IInv, HeldIntact, TypeOK
      <4> QED
        BY <3>1, <4>1
    <3>3. held' = [held EXCEPT ![b] = NotHeld]
      BY <2>6, <3>2 DEF FreeAgain, IInv, TypeOK
    <3> QED
      BY <2>6, <3>1, <3>3, MergeKeeps DEF FreeAgain
  <2>7. CASE UNCHANGED allocVars
    <3>1. Shape' /\ HeldIntact' /\ FreedIsFree'
      BY <2>7, PoolUnchanged DEF IInv, allocVars
    <3> QED
      BY <2>7, <3>1 DEF allocVars, headers, search, IInv, TypeOK, Searched, BestBelow, Fits
  <2> QED
    BY <2>1, <2>2, <2>3, <2>4, <2>5, <2>6, <2>7 DEF AllocNext
<1> QED
  BY <1>1, <1>2, PTL DEF AllocSpec

\* The blocks that myalloc walks by size and myfree by links are the same tiling of
\* the pool, for every pool and header size and every sequence of calls.
THEOREM PoolTiled ==
  ASSUME ProperUse
  PROVE  AllocSpec => []Tiled
<1>1. IInv => Tiled
  BY DEF IInv, Shape
<1> QED
  BY <1>1, Invariance, PTL

\* A block the client holds keeps its header and size until it is freed (myalloc.h:18).
THEOREM HoldersSafe ==
  ASSUME ProperUse
  PROVE  AllocSpec => []HeldIntact
<1>1. IInv => HeldIntact
  BY DEF IInv
<1> QED
  BY <1>1, Invariance, PTL

\* "Coalescing merges blocks that are newly freed" (myalloc.c:211): no two free blocks
\* are ever neighbours.
THEOREM NeverFragmented ==
  ASSUME ProperUse
  PROVE  AllocSpec => []Coalesced
<1>1. IInv => Coalesced
  BY DEF IInv, Shape
<1> QED
  BY <1>1, Invariance, PTL

\* Once everything is freed the pool is a single block again.
THEOREM PoolRecovered ==
  ASSUME ProperUse
  PROVE  AllocSpec => []WholeAgain
<1>1. IInv => WholeAgain
  <2> SUFFICES ASSUME IInv, \A b \in PoolAddress : held[b] = NotHeld
               PROVE  blocks = {0}
    BY DEF WholeAgain
  <2>1. TypeOK /\ Tiled
    BY DEF IInv, Shape
  <2>2. \A b \in blocks : b \in PoolAddress /\ size[b] > 0
    BY <2>1 DEF IInv, Shape, Solid, HeldIntact, TypeOK
  <2>3. 0 \in blocks /\ next[0] \notin blocks
    BY <2>1, <2>2, MyAllocAssumption DEF IInv, Shape, Coalesced, IsFree, Tiled, PoolAddress
  <2>4. after(0) = MEMORY_SIZE
    BY <2>1, <2>3 DEF Tiled, LinkedOn
  <2>5. \A b \in blocks : ~(0 < b)
    BY <2>1, <2>2, <2>3, <2>4, MyAllocAssumption DEF Tiled, PoolAddress
  <2> QED
    BY <2>2, <2>3, <2>5, MyAllocAssumption DEF PoolAddress
<1> QED
  BY <1>1, Invariance, PTL

\* "The memory allocation algorithm implements a best fit approach" (myalloc.c:116).
THEOREM AlwaysBestFit ==
  ASSUME ProperUse
  PROVE  AllocSpec => BestFit
<1>1. IInv /\ [AllocNext]_allocVars =>
        (pc = "look" /\ pc' = "user" =>
           IF \E b \in blocks : Fits(b)
           THEN /\ Fits(bestAddress) /\ held'[bestAddress] = request
                /\ \A b \in blocks : Fits(b) => \/ size[bestAddress] < size[b]
                                                \/ size[bestAddress] = size[b] /\ bestAddress <= b
           ELSE UNCHANGED <<headers, held>>)
  <2> SUFFICES ASSUME IInv, [AllocNext]_allocVars, pc = "look", pc' = "user"
               PROVE  IF \E b \in blocks : Fits(b)
           THEN /\ Fits(bestAddress) /\ held'[bestAddress] = request
                /\ \A b \in blocks : Fits(b) => \/ size[bestAddress] < size[b]
                                                \/ size[bestAddress] = size[b] /\ bestAddress <= b
           ELSE UNCHANGED <<headers, held>>
    OBVIOUS
  <2>1. (Fail \/ Split) /\ SearchDone
    BY DEF AllocNext, allocVars, Call, SkipAllocated, LookAtFree, Searching, Fail, Split, SplitAs, Free, FreeAgain
  <2>2. \A b \in blocks : b < curAddress
    BY <2>1, MyAllocAssumption DEF SearchDone, IInv, TypeOK, PoolAddress
  <2>3. BestBelow(bestAddress, minGreaterSize, curAddress)
    BY DEF IInv, Searched
  <2>4. CASE Fail
    <3>1. ~(bestAddress \in blocks)
      BY <2>4, MyAllocAssumption DEF Fail, IInv, TypeOK, PoolAddress
    <3> QED
      BY <2>2, <2>3, <2>4, <3>1 DEF BestBelow, Fail
  <2>5. CASE Split
    <3>1. bestAddress \in blocks /\ bestAddress \in PoolAddress
      BY <2>3, <2>5 DEF BestBelow, Split, SplitAs, IInv, TypeOK
    <3>2. held'[bestAddress] = request
      BY <2>5, <3>1 DEF Split, SplitAs, IInv, TypeOK
    <3> QED
      BY <2>2, <2>3, <2>5, <3>1, <3>2 DEF BestBelow, Split, SplitAs
  <2> QED
    BY <2>1, <2>4, <2>5
<1> QED
  BY <1>1, Invariance, PTL DEF AllocSpec, BestFit

-----------------------------------------------------------------------------
(* The promise to the client.                                              *)

\* What the client holds begins and ends within its block.
LEMMA HeldWithin ==
  ASSUME IInv, ProperUse, NEW b \in PoolAddress, held[b] # NotHeld
  PROVE  /\ b \in blocks /\ held[b] \in Sizes /\ held[b] \in Nat \ {0}
         /\ size[b] < 0 /\ after(b) = b + HeaderSize + held[b]
<1>1. b \in blocks /\ size[b] = -held[b]
  BY DEF IInv, HeldIntact
<1>2. held[b] \in Sizes /\ held[b] \in Nat \ {0}
  BY MyAllocAssumption DEF IInv, TypeOK, ProperUse
<1>3. magnitude(b) = held[b]
  BY <1>1, <1>2 DEF magnitude
<1> QED
  BY <1>1, <1>2, <1>3 DEF after

\* splitBlock gives out an extent of the pool that overlaps none the client holds.
LEMMA SplitAllocates ==
  ASSUME IInv, ProperUse, Split
  PROVE  H!Alloc
<1> USE MyAllocAssumption
<1> DEFINE cur == bestAddress
           new == cur + HeaderSize + request
           x == <<cur + HeaderSize, request>>
<1>1. /\ request \in Nat \ {0} /\ request \in Sizes
      /\ cur \in blocks /\ cur \in PoolAddress /\ new \in PoolAddress
      /\ size[cur] \in Nat
      /\ cur < new /\ new < after(cur)
  BY SplitFacts
<1>2. held[cur] = NotHeld
  BY <1>1, HeldWithin
<1>3. held' = [held EXCEPT ![cur] = request] /\ DOMAIN held = PoolAddress /\ request # NotHeld
  BY <1>1 DEF Split, SplitAs, IInv, TypeOK, NotHeld
<1>4. cur \in Nat /\ new \in Nat /\ after(cur) \in Nat /\ after(cur) <= MEMORY_SIZE
  BY <1>1, Extents DEF PoolAddress, IInv, Shape
<1> HIDE DEF cur
<1>5. x \in (0 .. MEMORY_SIZE) \X Sizes
  BY <1>1, <1>4
<1>6. H!Bytes(x) = cur + HeaderSize .. new - 1
  BY <1>1, <1>4 DEF H!Bytes
<1>7. H!Bytes(x) \subseteq 0 .. MEMORY_SIZE - 1
  BY <1>1, <1>4, <1>6
<1>8. ASSUME NEW y \in extents
      PROVE  y[1] # x[1] /\ H!Bytes(x) \cap H!Bytes(y) = {}
  <2>1. PICK b \in PoolAddress : held[b] # NotHeld /\ y = <<b + HeaderSize, held[b]>>
    BY DEF extents
  <2>2. /\ b \in blocks /\ held[b] \in Nat \ {0} /\ b # cur /\ b \in Nat
        /\ after(b) = b + HeaderSize + held[b]
    BY <1>2, <2>1, HeldWithin DEF PoolAddress
  <2>3. H!Bytes(y) = b + HeaderSize .. after(b) - 1
    BY <2>1, <2>2 DEF H!Bytes
  <2>4. after(b) <= cur \/ after(cur) <= b
    BY <1>1, <1>4, <2>2 DEF IInv, Shape, Tiled
  <2>5. after(b) \in Nat
    BY <2>2
  <2>6. ASSUME NEW z \in H!Bytes(x), z \in H!Bytes(y) PROVE FALSE
    <3>1. z \in Int /\ cur + HeaderSize <= z /\ z <= new - 1
      BY <1>4, <1>6
    <3>2. b + HeaderSize <= z /\ z <= after(b) - 1
      BY <2>2, <2>3, <2>5, <2>6
    <3> HIDE DEF new
    <3> QED
      BY <1>1, <1>4, <2>2, <2>4, <2>5, <3>1, <3>2
  <2> QED
    BY <1>4, <2>1, <2>2, <2>6
<1>9. extents' = extents \cup {x}
  <2>1. \A b \in PoolAddress : held'[b] = IF b = cur THEN request ELSE held[b]
    BY <1>3
  <2>2. {b \in PoolAddress : held'[b] # NotHeld} = {b \in PoolAddress : held[b] # NotHeld} \cup {cur}
    BY <1>1, <1>3, <2>1
  <2> HIDE DEF x
  <2>3. x = <<cur + HeaderSize, held'[cur]>>
    BY <1>1, <2>1 DEF x
  <2> QED
    BY <1>2, <2>1, <2>2, <2>3 DEF extents
<1> QED
  BY <1>5, <1>7, <1>8, <1>9 DEF H!Alloc

\* myfree gives one extent back.
LEMMA FreeReleases ==
  ASSUME IInv, NEW b \in PoolAddress, Free(b)
  PROVE  H!Free
<1> DEFINE x == <<b + HeaderSize, held[b]>>
<1>1. held[b] # NotHeld /\ held' = [held EXCEPT ![b] = NotHeld] /\ DOMAIN held = PoolAddress
  BY DEF Free, IInv, TypeOK
<1>2. x \in extents
  BY <1>1 DEF extents
<1>3. \A c \in PoolAddress : held'[c] = IF c = b THEN NotHeld ELSE held[c]
  BY <1>1
<1>4. \A c \in PoolAddress : c # b => c + HeaderSize # b + HeaderSize
  BY MyAllocAssumption DEF PoolAddress
<1>5. extents' = extents \ {x}
  <2>1. ASSUME NEW y PROVE y \in extents' <=> y \in extents \ {x}
    <3>1. y \in extents' <=> \E c \in PoolAddress : held'[c] # NotHeld /\ y = <<c + HeaderSize, held'[c]>>
      BY DEF extents
    <3>2. y \in extents <=> \E c \in PoolAddress : held[c] # NotHeld /\ y = <<c + HeaderSize, held[c]>>
      BY DEF extents
    <3>3. \A c \in PoolAddress : <<c + HeaderSize, held[c]>> = x => c = b
      BY <1>4
    <3> HIDE DEF x
    <3>4. x = <<b + HeaderSize, held[b]>>
      BY DEF x
    <3> QED
      BY <1>3, <3>1, <3>2, <3>3, <3>4
  <2> QED
    BY <2>1
<1> QED
  BY <1>2, <1>5 DEF H!Free

\* "No overlap" for every pool, header and request size and every sequence of calls:
\* the allocator gives out memory that nobody else holds, or refuses, and what it gave
\* out stays as it is until the client frees it (testalloc.c:188).
THEOREM AllocatorIsHeap ==
  ASSUME ProperUse
  PROVE  AllocSpec => ImplementsHeap
<1>1. AllocInit => H!Init
  BY DEF AllocInit, H!Init, extents
<1>2. IInv /\ [AllocNext]_allocVars => [H!Next]_extents
  <2> SUFFICES ASSUME IInv, [AllocNext]_allocVars PROVE H!Next \/ extents' = extents
    OBVIOUS
  <2>1. UNCHANGED held => extents' = extents
    BY DEF extents
  <2>2. CASE \/ \E s \in Sizes : Call(s)
             \/ SkipAllocated \/ LookAtFree \/ Fail
             \/ \E b \in PoolAddress : FreeAgain(b)
             \/ UNCHANGED allocVars
    BY <2>1, <2>2 DEF Call, SkipAllocated, LookAtFree, Fail, FreeAgain, allocVars
  <2>3. CASE Split
    BY <2>3, SplitAllocates DEF H!Next
  <2>4. CASE \E b \in PoolAddress : Free(b)
    BY <2>4, FreeReleases DEF H!Next
  <2> QED
    BY <2>2, <2>3, <2>4 DEF AllocNext
<1> QED
  BY <1>1, <1>2, Invariance, PTL DEF AllocSpec, ImplementsHeap, H!Spec
=============================================================================
