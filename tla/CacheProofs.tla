---------------------------- MODULE CacheProofs ----------------------------
(* The cache implements a flat memory, for any geometry, any bytes and any
   choice of the victim: of choose_victim only its range is used.  And what
   choose_victim chooses is the least recently used block. *)
EXTENDS Cache, FiniteSetTheorems, TLAPS

-----------------------------------------------------------------------------
(* An address is its tag, set number and offset.                           *)

LEMMA Division ==
  ASSUME NEW n \in Nat, NEW d \in Nat \ {0}
  PROVE  /\ n \div d \in Nat /\ n % d \in 0 .. d - 1
         /\ n = (n \div d) * d + (n % d)
OBVIOUS

LEMMA AtLeast ==
  ASSUME NEW q \in Int, NEW d \in Nat \ {0}, q >= 1
  PROVE  q * d >= d
OBVIOUS

LEMMA Monotone ==
  ASSUME NEW p \in Int, NEW q \in Int, NEW d \in Nat \ {0}, p <= q
  PROVE  p * d <= q * d
OBVIOUS

\* Quotient and remainder are the only way to write n as q * d + r with r below d.
LEMMA DivisionUnique ==
  ASSUME NEW d \in Nat \ {0}, NEW q \in Nat, NEW r \in 0 .. d - 1
  PROVE  /\ q * d + r \in Nat
         /\ (q * d + r) \div d = q
         /\ (q * d + r) % d = r
<1>1. q * d \in Nat
  OBVIOUS
<1> DEFINE n == q * d + r
           p == n \div d
<1>2. n \in Nat
  BY <1>1
<1> HIDE DEF n
<1>3. /\ p \in Nat /\ n % d \in 0 .. d - 1
      /\ n = p * d + (n % d)
  BY <1>2, Division
<1> HIDE DEF p
<1>4. q * d - p * d = (n % d) - r
  BY <1>1, <1>3 DEF n
<1>5. /\ (q - p) * d = q * d - p * d
      /\ (p - q) * d = p * d - q * d
  BY <1>3
<1>6. ~(q - p >= 1)
  BY <1>3, <1>4, <1>5, AtLeast
<1>7. ~(p - q >= 1)
  BY <1>3, <1>4, <1>5, AtLeast
<1>8. q = p
  BY <1>3, <1>6, <1>7
<1> QED
  BY <1>2, <1>3, <1>4, <1>8 DEF n, p

LEMMA Decompose ==
  ASSUME NEW a \in Address
  PROVE  /\ Tag(a) \in Tags /\ SetNo(a) \in Sets /\ Offset(a) \in Offsets
         /\ block_start_from_address(a) = block_start_from_line_info(Tag(a), SetNo(a))
         /\ a = block_start_from_address(a) + Offset(a)
<1> USE CacheAssumption
<1>1. a \in Nat
  BY DEF Address
<1>2. /\ Block(a) \in Nat /\ Offset(a) \in Offsets
      /\ a = Block(a) * BlockSize + Offset(a)
  BY <1>1, Division DEF Block, Offset, Offsets
<1>3. /\ Tag(a) \in Nat /\ SetNo(a) \in Sets
      /\ Block(a) = Tag(a) * NumSets + SetNo(a)
  BY <1>2, Division DEF Tag, SetNo, Sets
<1>4. Tag(a) < NumTags
  <2> SUFFICES ASSUME NumTags <= Tag(a) PROVE FALSE
    BY <1>3
  <2>1. NumTags * NumSets <= Tag(a) * NumSets
    BY <1>3, Monotone
  <2>2. NumTags * NumSets \in Nat /\ NumTags * NumSets <= Block(a)
    BY <1>2, <1>3, <2>1 DEF Sets
  <2>3. (NumTags * NumSets) * BlockSize <= Block(a) * BlockSize
    BY <1>2, <2>2, Monotone
  <2> QED
    BY <1>1, <1>2, <2>2, <2>3 DEF Address, Offsets
<1> QED
  BY <1>2, <1>3, <1>4 DEF Tags, block_start_from_address, block_start_from_line_info

LEMMA Compose ==
  ASSUME NEW t \in Tags, NEW s \in Sets, NEW o \in Offsets
  PROVE  LET x == block_start_from_line_info(t, s) + o
         IN  x \in Address /\ Tag(x) = t /\ SetNo(x) = s /\ Offset(x) = o
<1> USE CacheAssumption
<1> DEFINE b == t * NumSets + s
           x == b * BlockSize + o
<1>1. /\ b \in Nat /\ b \div NumSets = t /\ b % NumSets = s
  BY DivisionUnique DEF Tags, Sets
<1>2. b < NumTags * NumSets
  <2>1. (t + 1) * NumSets <= NumTags * NumSets
    BY Monotone DEF Tags
  <2>2. (t + 1) * NumSets = t * NumSets + NumSets
    BY DEF Tags
  <2> QED
    BY <2>1, <2>2 DEF Tags, Sets
<1> HIDE DEF b
<1>3. /\ x \in Nat /\ x \div BlockSize = b /\ x % BlockSize = o
  BY <1>1, DivisionUnique DEF Offsets
<1>4. x < (NumTags * NumSets) * BlockSize
  <2>1. NumTags * NumSets \in Nat
    OBVIOUS
  <2>2. (b + 1) * BlockSize <= (NumTags * NumSets) * BlockSize
    BY <1>1, <1>2, <2>1, Monotone
  <2>3. (b + 1) * BlockSize = b * BlockSize + BlockSize
    BY <1>1
  <2>4. b * BlockSize \in Nat /\ (NumTags * NumSets) * BlockSize \in Nat
    BY <1>1, <2>1
  <2> QED
    BY <2>2, <2>3, <2>4 DEF Offsets
<1>5. x \in Address
  BY <1>3, <1>4 DEF Address
<1> HIDE DEF x
<1>6. Block(x) = b /\ Offset(x) = o
  BY <1>3 DEF Block, Offset
<1>7. Tag(x) = t /\ SetNo(x) = s
  BY <1>1, <1>6 DEF Tag, SetNo
<1>8. block_start_from_line_info(t, s) + o = x
  BY DEF x, b, block_start_from_line_info
<1> QED
  BY <1>5, <1>6, <1>7, <1>8

-----------------------------------------------------------------------------
(* Facts about any contents L of the lines and M of the next level.        *)

LineArray == [Sets -> [Lines -> CacheLine]]
Memory == [Address -> Byte]

HoldsIn(L, s, l, t) == L[s][l].valid /\ L[s][l].tag = t

SeenIn(L, M, x) ==
  IF \A l \in Lines : ~HoldsIn(L, SetNo(x), l, Tag(x)) THEN M[x]
  ELSE L[SetNo(x)][CHOOSE l \in Lines : HoldsIn(L, SetNo(x), l, Tag(x))].block[Offset(x)]

\* OneCopy and CleanCurrent, said of addresses.
Single(L) ==
  \A s \in Sets : \A k, l \in Lines : \A t \in Tags :
    HoldsIn(L, s, k, t) /\ HoldsIn(L, s, l, t) => k = l

Current(L, M) ==
  \A x \in Address : \A l \in Lines :
    HoldsIn(L, SetNo(x), l, Tag(x)) /\ ~L[SetNo(x)][l].dirty =>
      L[SetNo(x)][l].block[Offset(x)] = M[x]

LEMMA SeenHeld ==
  ASSUME NEW L \in LineArray, NEW M \in Memory, Single(L),
         NEW x \in Address, NEW l \in Lines, HoldsIn(L, SetNo(x), l, Tag(x))
  PROVE  SeenIn(L, M, x) = L[SetNo(x)][l].block[Offset(x)]
<1>1. SetNo(x) \in Sets /\ Tag(x) \in Tags
  BY Decompose
<1> DEFINE k == CHOOSE j \in Lines : HoldsIn(L, SetNo(x), j, Tag(x))
<1>2. k \in Lines /\ HoldsIn(L, SetNo(x), k, Tag(x))
  OBVIOUS
<1>3. k = l
  BY <1>1, <1>2 DEF Single
<1> HIDE DEF k
<1>4. SeenIn(L, M, x) = L[SetNo(x)][k].block[Offset(x)]
  BY DEF SeenIn, k
<1> QED
  BY <1>3, <1>4

LEMMA SeenType ==
  ASSUME NEW L \in LineArray, NEW M \in Memory, Single(L), NEW x \in Address
  PROVE  SeenIn(L, M, x) \in Byte
<1>1. SetNo(x) \in Sets /\ Offset(x) \in Offsets
  BY Decompose
<1>2. CASE \A l \in Lines : ~HoldsIn(L, SetNo(x), l, Tag(x))
  BY <1>2 DEF SeenIn, Memory
<1>3. ASSUME NEW l \in Lines, HoldsIn(L, SetNo(x), l, Tag(x))
      PROVE  SeenIn(L, M, x) \in Byte
  <2>1. L[SetNo(x)][l].block \in [Offsets -> Byte]
    BY <1>1 DEF LineArray, CacheLine
  <2> QED
    BY <1>1, <1>3, <2>1, SeenHeld
<1> QED
  BY <1>2, <1>3

\* Line l of the set of a may hold the contents N of the block of a, once the next
\* level is M2: a line that is overwritten has been saved, no other line is concerned.
Fits(L, M, a, l, N, M2) ==
  /\ L \in LineArray /\ M \in Memory /\ Single(L) /\ Current(L, M)
  /\ N \in CacheLine /\ N.valid /\ N.tag = Tag(a)
  /\ \A k \in Lines : HoldsIn(L, SetNo(a), k, Tag(a)) => k = l
  /\ M2 \in Memory
  /\ \A x \in Address :
       M2[x] # M[x] => SetNo(x) = SetNo(a) /\ HoldsIn(L, SetNo(x), l, Tag(x))
  /\ \A x \in Address :
       /\ SetNo(x) = SetNo(a) /\ HoldsIn(L, SetNo(x), l, Tag(x)) /\ Tag(x) # Tag(a)
       => M2[x] = SeenIn(L, M, x)
  /\ ~N.dirty => \A x \in Address :
       SetNo(x) = SetNo(a) /\ Tag(x) = Tag(a) => N.block[Offset(x)] = M2[x]

Put(L, s, l, N) == [L EXCEPT ![s] = [@ EXCEPT ![l] = N]]

LEMMA Replace ==
  ASSUME NEW L, NEW M, NEW a \in Address, NEW l \in Lines, NEW N, NEW M2,
         Fits(L, M, a, l, N, M2),
         NEW L2, L2 = Put(L, SetNo(a), l, N)
  PROVE  /\ L2 \in LineArray /\ Single(L2) /\ Current(L2, M2)
         /\ \A x \in Address :
              SeenIn(L2, M2, x) = IF SetNo(x) = SetNo(a) /\ Tag(x) = Tag(a)
                                  THEN N.block[Offset(x)] ELSE SeenIn(L, M, x)
<1> USE DEF Fits, Put
<1>a. L \in LineArray /\ M \in Memory /\ Single(L) /\ M2 \in Memory
  OBVIOUS
<1>b. N.tag = Tag(a)
  OBVIOUS
<1> DEFINE s == SetNo(a)
           t == Tag(a)
<1>1. s \in Sets /\ t \in Tags
  BY Decompose
<1>2. /\ L2 \in LineArray
      /\ L2[s][l] = N
      /\ \A k \in Lines \ {l} : L2[s][k] = L[s][k]
      /\ \A r \in Sets \ {s} : L2[r] = L[r]
  BY <1>1 DEF LineArray
<1> HIDE DEF s, t
<1>3. \A k \in Lines : HoldsIn(L, s, k, t) => k = l
  BY DEF s, t
<1>4. Single(L2)
  <2> SUFFICES ASSUME NEW r \in Sets, NEW j \in Lines, NEW k \in Lines, NEW u \in Tags,
                      HoldsIn(L2, r, j, u), HoldsIn(L2, r, k, u)
               PROVE  j = k
    BY DEF Single
  <2>1. CASE r # s
    BY <1>2, <2>1 DEF Single, HoldsIn
  <2>2. CASE r = s /\ j # l /\ k # l
    BY <1>2, <2>2 DEF Single, HoldsIn
  <2>3. CASE r = s /\ (j = l \/ k = l)
    <3>1. u = t
      BY <1>2, <2>3 DEF HoldsIn, t
    <3> QED
      BY <1>2, <1>3, <2>3, <3>1 DEF HoldsIn
  <2> QED
    BY <2>1, <2>2, <2>3
<1>5. ASSUME NEW x \in Address, NEW k \in Lines, HoldsIn(L2, SetNo(x), k, Tag(x)),
             ~(SetNo(x) = s /\ k = l)
      PROVE  /\ L2[SetNo(x)][k] = L[SetNo(x)][k]
             /\ HoldsIn(L, SetNo(x), k, Tag(x))
             /\ M2[x] = M[x]
             /\ ~(SetNo(x) = s /\ Tag(x) = t)
  <2>1. SetNo(x) \in Sets /\ Tag(x) \in Tags
    BY Decompose
  <2>2. /\ L2[SetNo(x)][k] = L[SetNo(x)][k]
        /\ HoldsIn(L, SetNo(x), k, Tag(x))
    BY <1>2, <1>5, <2>1 DEF HoldsIn
  <2>3. M2[x] = M[x]
    BY <1>5, <2>1, <2>2 DEF Single, s
  <2> QED
    BY <1>3, <1>5, <2>2, <2>3
<1>6. Current(L2, M2)
  <2> SUFFICES ASSUME NEW x \in Address, NEW k \in Lines, HoldsIn(L2, SetNo(x), k, Tag(x)),
                      ~L2[SetNo(x)][k].dirty
               PROVE  L2[SetNo(x)][k].block[Offset(x)] = M2[x]
    BY DEF Current
  <2>1. CASE SetNo(x) = s /\ k = l
    BY <1>2, <2>1 DEF HoldsIn, s, t
  <2>2. CASE ~(SetNo(x) = s /\ k = l)
    <3>1. /\ L2[SetNo(x)][k] = L[SetNo(x)][k]
          /\ HoldsIn(L, SetNo(x), k, Tag(x))
          /\ M2[x] = M[x]
      BY <1>5, <2>2
    <3>2. ~L[SetNo(x)][k].dirty
      BY <3>1
    <3>3. L[SetNo(x)][k].block[Offset(x)] = M[x]
      BY <3>1, <3>2 DEF Current
    <3> QED
      BY <3>1, <3>3
  <2> QED
    BY <2>1, <2>2
<1>7. ASSUME NEW x \in Address
      PROVE  SeenIn(L2, M2, x) = IF SetNo(x) = s /\ Tag(x) = t
                                 THEN N.block[Offset(x)] ELSE SeenIn(L, M, x)
  <2>1. SetNo(x) \in Sets /\ Tag(x) \in Tags
    BY Decompose
  <2>2. CASE SetNo(x) = s /\ Tag(x) = t
    <3>1. HoldsIn(L2, SetNo(x), l, Tag(x))
      BY <1>2, <2>2 DEF HoldsIn, t
    <3>2. SeenIn(L2, M2, x) = L2[SetNo(x)][l].block[Offset(x)]
      <4> HIDE DEF Fits, Put
      <4> QED
        BY <1>a, <1>2, <1>4, <3>1, SeenHeld
    <3>3. L2[SetNo(x)][l] = N
      BY <1>2, <2>2
    <3> QED
      BY <2>2, <3>2, <3>3
  <2>3. ASSUME ~(SetNo(x) = s /\ Tag(x) = t),
               NEW k \in Lines, HoldsIn(L2, SetNo(x), k, Tag(x))
        PROVE  SeenIn(L2, M2, x) = SeenIn(L, M, x)
    <3> HIDE DEF Fits, Put
    <3>1. ~(SetNo(x) = s /\ k = l)
      BY <1>2, <1>b, <2>3 DEF HoldsIn, t
    <3>2. /\ L2[SetNo(x)][k] = L[SetNo(x)][k]
          /\ HoldsIn(L, SetNo(x), k, Tag(x))
      BY <1>5, <2>3, <3>1
    <3>3. SeenIn(L2, M2, x) = L2[SetNo(x)][k].block[Offset(x)]
      BY <1>a, <1>2, <1>4, <2>3, SeenHeld
    <3>4. SeenIn(L, M, x) = L[SetNo(x)][k].block[Offset(x)]
      BY <1>a, <3>2, SeenHeld
    <3> QED
      BY <3>2, <3>3, <3>4
  <2>4. CASE /\ ~(SetNo(x) = s /\ Tag(x) = t)
             /\ \A k \in Lines : ~HoldsIn(L2, SetNo(x), k, Tag(x))
    <3>1. SeenIn(L2, M2, x) = M2[x]
      BY <2>4 DEF SeenIn
    <3>2. CASE SetNo(x) = s /\ HoldsIn(L, SetNo(x), l, Tag(x))
      BY <2>4, <3>1, <3>2 DEF s, t
    <3>3. CASE ~(SetNo(x) = s /\ HoldsIn(L, SetNo(x), l, Tag(x)))
      <4>1. M2[x] = M[x]
        BY <3>3 DEF s
      <4>2. \A k \in Lines : ~HoldsIn(L, SetNo(x), k, Tag(x))
        BY <1>2, <2>1, <2>4, <3>3 DEF HoldsIn
      <4> QED
        BY <2>4, <3>1, <4>1, <4>2 DEF SeenIn
    <3> QED
      BY <3>2, <3>3
  <2> QED
    BY <2>2, <2>3, <2>4
<1> QED
  BY <1>2, <1>4, <1>6, <1>7 DEF s, t

-----------------------------------------------------------------------------
(* The steps of the cache.                                                 *)

CInv ==
  /\ lines \in LineArray /\ next_memory \in Memory /\ result \in Byte
  /\ Single(lines) /\ Current(lines, next_memory)

SeenNow(x) == SeenIn(lines, next_memory, x)

LEMMA ViewIs == view = [x \in Address |-> SeenNow(x)]
BY DEF view, Seen, SeenNow, SeenIn, Missing, Holds, HoldsIn

LEMMA NextView == view' = [x \in Address |-> SeenNow(x)']
BY DEF view, Seen, SeenNow, SeenIn, Missing, Holds, HoldsIn

LEMMA InitInv ==
  ASSUME Init
  PROVE  CInv /\ \A x \in Address : SeenNow(x) = Zero
<1>1. 0 \in Tags /\ Zero \in Byte
  BY CacheAssumption DEF Tags
<1>2. lines \in LineArray /\ next_memory \in Memory /\ result \in Byte
  BY <1>1 DEF Init, LineArray, CacheLine, Memory
<1>3. \A s \in Sets : \A l \in Lines : \A t \in Tags : ~HoldsIn(lines, s, l, t)
  BY DEF Init, HoldsIn
<1>4. \A x \in Address : \A l \in Lines : ~HoldsIn(lines, SetNo(x), l, Tag(x))
  BY <1>3, Decompose
<1>5. Single(lines) /\ Current(lines, next_memory)
  BY <1>3, <1>4 DEF Single, Current
<1>6. \A x \in Address : SeenNow(x) = Zero
  BY <1>4 DEF SeenNow, SeenIn, Init
<1> QED
  BY <1>2, <1>5, <1>6 DEF CInv

\* What write_back_cache_line writes, said of the address it goes to.
LEMMA Over ==
  ASSUME CInv, NEW s \in Sets, NEW l \in Lines, NEW x \in Address
  PROVE  /\ DirtyOver(s, l, x) <=>
              SetNo(x) = s /\ HoldsIn(lines, s, l, Tag(x)) /\ lines[s][l].dirty
         /\ DirtyOver(s, l, x) => ByteOver(s, l, x) = lines[s][l].block[Offset(x)]
<1> DEFINE t == lines[s][l].tag
           b == block_start_from_line_info(t, s)
<1>1. t \in Tags
  BY DEF CInv, LineArray, CacheLine
<1>2. /\ SetNo(x) \in Sets /\ Tag(x) \in Tags /\ Offset(x) \in Offsets
      /\ x = block_start_from_line_info(Tag(x), SetNo(x)) + Offset(x)
  BY Decompose
<1>3. b \in Int /\ x \in Int
  BY <1>1, CacheAssumption DEF block_start_from_line_info, Tags, Sets, Address
<1>4. x - b \in Offsets <=> SetNo(x) = s /\ Tag(x) = t
  <2>1. ASSUME x - b \in Offsets PROVE SetNo(x) = s /\ Tag(x) = t
    <3>1. x = b + (x - b)
      BY <1>3
    <3>2. LET y == b + (x - b) IN Tag(y) = t /\ SetNo(y) = s
      BY <1>1, <2>1, Compose
    <3> QED
      BY <3>1, <3>2
  <2>2. ASSUME SetNo(x) = s, Tag(x) = t PROVE x - b \in Offsets
    <3>1. x = b + Offset(x)
      BY <1>2, <2>2
    <3>2. Offset(x) \in Int
      BY <1>2 DEF Offsets
    <3> HIDE DEF b
    <3>3. x - b = Offset(x)
      BY <1>3, <3>1, <3>2
    <3> QED
      BY <1>2, <3>3
  <2> QED
    BY <2>1, <2>2
<1>5. ASSUME SetNo(x) = s, Tag(x) = t PROVE x - b = Offset(x)
  <2>1. x = b + Offset(x)
    BY <1>2, <1>5
  <2>2. Offset(x) \in Int
    BY <1>2 DEF Offsets
  <2> HIDE DEF b
  <2> QED
    BY <1>3, <2>1, <2>2
<1>6. DirtyOver(s, l, x) <=>
        lines[s][l].valid /\ lines[s][l].dirty /\ SetNo(x) = s /\ Tag(x) = t
  BY <1>4 DEF DirtyOver
<1>7. ByteOver(s, l, x) = lines[s][l].block[x - b]
  BY DEF ByteOver
<1> QED
  BY <1>5, <1>6, <1>7 DEF HoldsIn

\* After the victim is written back, the next level has what was seen of its block.
LEMMA EvictFacts ==
  ASSUME CInv, NEW s \in Sets, NEW l \in Lines
  PROVE  /\ evict(s, l) \in Memory
         /\ \A x \in Address :
              /\ evict(s, l)[x] # next_memory[x] =>
                   SetNo(x) = s /\ HoldsIn(lines, SetNo(x), l, Tag(x))
              /\ SetNo(x) = s /\ HoldsIn(lines, SetNo(x), l, Tag(x)) =>
                   evict(s, l)[x] = SeenNow(x)
<1> DEFINE e(x) == IF DirtyOver(s, l, x) THEN ByteOver(s, l, x) ELSE next_memory[x]
<1>1. evict(s, l) = [x \in Address |-> e(x)]
  BY DEF evict
<1>2. ASSUME NEW x \in Address
      PROVE  /\ e(x) \in Byte
             /\ e(x) # next_memory[x] => SetNo(x) = s /\ HoldsIn(lines, SetNo(x), l, Tag(x))
             /\ SetNo(x) = s /\ HoldsIn(lines, SetNo(x), l, Tag(x)) => e(x) = SeenNow(x)
  <2>1. lines[s][l].block \in [Offsets -> Byte] /\ next_memory[x] \in Byte
    BY DEF CInv, LineArray, CacheLine, Memory
  <2>2. Offset(x) \in Offsets
    BY Decompose
  <2>3. CASE DirtyOver(s, l, x)
    <3>1. /\ SetNo(x) = s /\ HoldsIn(lines, SetNo(x), l, Tag(x))
          /\ e(x) = lines[SetNo(x)][l].block[Offset(x)]
      BY <2>3, Over
    <3>2. SeenNow(x) = lines[SetNo(x)][l].block[Offset(x)]
      BY <3>1, SeenHeld DEF CInv, SeenNow
    <3> QED
      BY <2>1, <2>2, <3>1, <3>2
  <2>4. CASE ~DirtyOver(s, l, x)
    <3>1. e(x) = next_memory[x]
      BY <2>4
    <3>2. ASSUME SetNo(x) = s, HoldsIn(lines, SetNo(x), l, Tag(x))
          PROVE  e(x) = SeenNow(x)
      <4>1. ~lines[SetNo(x)][l].dirty
        BY <2>4, <3>2, Over
      <4>2. lines[SetNo(x)][l].block[Offset(x)] = next_memory[x]
        BY <3>2, <4>1 DEF CInv, Current
      <4>3. SeenNow(x) = lines[SetNo(x)][l].block[Offset(x)]
        BY <3>2, SeenHeld DEF CInv, SeenNow
      <4> QED
        BY <3>1, <4>2, <4>3
    <3> QED
      BY <2>1, <3>1, <3>2
  <2> QED
    BY <2>3, <2>4
<1> HIDE DEF e
<1> QED
  BY <1>1, <1>2 DEF Memory

\* What resolve_cache_access must achieve: line l may hold the block of address a, with
\* the contents N, once the next level is M2.
Sound(a, l, N, M2) ==
  /\ N \in CacheLine /\ N.valid /\ N.tag = Tag(a)
  /\ \A k \in Lines : HoldsIn(lines, SetNo(a), k, Tag(a)) => k = l
  /\ M2 \in Memory
  /\ \A x \in Address :
       M2[x] # next_memory[x] => SetNo(x) = SetNo(a) /\ HoldsIn(lines, SetNo(x), l, Tag(x))
  /\ \A x \in Address :
       /\ SetNo(x) = SetNo(a) /\ HoldsIn(lines, SetNo(x), l, Tag(x)) /\ Tag(x) # Tag(a)
       => M2[x] = SeenNow(x)
  /\ \A x \in Address :
       SetNo(x) = SetNo(a) /\ Tag(x) = Tag(a) =>
         /\ N.block[Offset(x)] = SeenNow(x)
         /\ ~N.dirty => N.block[Offset(x)] = M2[x]

LEMMA HitSound ==
  ASSUME CInv, NEW a \in Address, NEW l \in Lines, Found(SetNo(a), l, Tag(a))
  PROVE  Sound(a, l, lines[SetNo(a)][l], next_memory)
<1> DEFINE N == lines[SetNo(a)][l]
<1>1. SetNo(a) \in Sets /\ Tag(a) \in Tags
  BY Decompose
<1>2. HoldsIn(lines, SetNo(a), l, Tag(a)) /\ N.valid /\ N.tag = Tag(a)
  BY DEF Found, Holds, HoldsIn
<1>3. N \in CacheLine
  BY <1>1 DEF CInv, LineArray
<1>4. \A k \in Lines : HoldsIn(lines, SetNo(a), k, Tag(a)) => k = l
  BY <1>1, <1>2 DEF CInv, Single
<1>5. ASSUME NEW x \in Address, SetNo(x) = SetNo(a), Tag(x) = Tag(a)
      PROVE  /\ N.block[Offset(x)] = SeenNow(x)
             /\ ~N.dirty => N.block[Offset(x)] = next_memory[x]
  <2>1. HoldsIn(lines, SetNo(x), l, Tag(x))
    BY <1>2, <1>5
  <2>2. SeenNow(x) = lines[SetNo(x)][l].block[Offset(x)]
    BY <2>1, SeenHeld DEF CInv, SeenNow
  <2> QED
    BY <1>5, <2>1, <2>2 DEF CInv, Current
<1>6. \A x \in Address :
        SetNo(x) = SetNo(a) /\ HoldsIn(lines, SetNo(x), l, Tag(x)) => Tag(x) = Tag(a)
  BY <1>2 DEF HoldsIn
<1> HIDE DEF N
<1> QED
  BY <1>2, <1>3, <1>4, <1>5, <1>6 DEF Sound, CInv, N

LEMMA MissSound ==
  ASSUME CInv, NEW a \in Address, NEW l \in Lines, Missing(SetNo(a), Tag(a))
  PROVE  Sound(a, l, Loaded(evict(SetNo(a), l), a), evict(SetNo(a), l))
<1> DEFINE M2 == evict(SetNo(a), l)
           N  == Loaded(M2, a)
<1>1. SetNo(a) \in Sets /\ Tag(a) \in Tags
  BY Decompose
<1>2. /\ M2 \in Memory
      /\ \A x \in Address :
           /\ M2[x] # next_memory[x] =>
                SetNo(x) = SetNo(a) /\ HoldsIn(lines, SetNo(x), l, Tag(x))
           /\ SetNo(x) = SetNo(a) /\ HoldsIn(lines, SetNo(x), l, Tag(x)) => M2[x] = SeenNow(x)
  BY <1>1, EvictFacts
<1> HIDE DEF M2
<1>3. \A k \in Lines : ~HoldsIn(lines, SetNo(a), k, Tag(a))
  BY DEF Missing, Holds, HoldsIn
<1>4. block_start_from_address(a) = block_start_from_line_info(Tag(a), SetNo(a))
  BY Decompose
<1>5. N.block = [o \in Offsets |-> M2[block_start_from_line_info(Tag(a), SetNo(a)) + o]]
  BY <1>4 DEF Loaded
<1>6. \A o \in Offsets : M2[block_start_from_line_info(Tag(a), SetNo(a)) + o] \in Byte
  BY <1>1, <1>2, Compose DEF Memory
<1>7. N.block \in [Offsets -> Byte]
  BY <1>5, <1>6
<1>8. /\ N \in CacheLine /\ N.valid /\ N.tag = Tag(a)
  BY <1>1, <1>7 DEF Loaded, CacheLine
<1>9. ASSUME NEW x \in Address, SetNo(x) = SetNo(a), Tag(x) = Tag(a)
      PROVE  N.block[Offset(x)] = SeenNow(x) /\ N.block[Offset(x)] = M2[x]
  <2>1. /\ Offset(x) \in Offsets
        /\ x = block_start_from_line_info(Tag(a), SetNo(a)) + Offset(x)
    BY <1>9, Decompose
  <2>2. N.block[Offset(x)] = M2[x]
    BY <1>5, <2>1
  <2>3. \A k \in Lines : ~HoldsIn(lines, SetNo(x), k, Tag(x))
    BY <1>3, <1>9
  <2>4. M2[x] = next_memory[x]
    BY <1>2, <2>3
  <2>5. SeenNow(x) = next_memory[x]
    BY <2>3 DEF SeenNow, SeenIn
  <2> QED
    BY <2>2, <2>4, <2>5
<1> HIDE DEF N
<1> QED
  BY <1>2, <1>3, <1>8, <1>9 DEF Sound, M2, N

\* An access that leaves the serving line unchanged but for its bytes and dirty bit.
LEMMA AccessInv ==
  ASSUME CInv, NEW a \in Address, NEW l \in Lines, NEW N, NEW M2, Sound(a, l, N, M2),
         NEW after \in CacheLine, after.valid, after.tag = Tag(a),
         after.dirty \/ after = N,
         Leave(a, l, after), next_memory' = M2, result' \in Byte
  PROVE  /\ CInv'
         /\ \A x \in Address :
              SeenNow(x)' = IF SetNo(x) = SetNo(a) /\ Tag(x) = Tag(a)
                            THEN after.block[Offset(x)] ELSE SeenNow(x)
<1>1. lines' = [lines EXCEPT ![SetNo(a)] = [@ EXCEPT ![l] = after]]
  BY DEF Leave
<1>2. PICK L2 : L2 = lines'
  OBVIOUS
<1>3. PICK L : L = lines
  OBVIOUS
<1>4. PICK M : M = next_memory
  OBVIOUS
<1>5. ~after.dirty => \A x \in Address :
        SetNo(x) = SetNo(a) /\ Tag(x) = Tag(a) => after.block[Offset(x)] = M2[x]
  BY DEF Sound
<1>6. /\ Fits(L, M, a, l, after, M2)
      /\ L2 = Put(L, SetNo(a), l, after)
  BY <1>1, <1>2, <1>3, <1>4, <1>5 DEF CInv, Sound, SeenNow, Fits, Put
<1>7. /\ L2 \in LineArray /\ Single(L2) /\ Current(L2, M2)
      /\ \A x \in Address :
           SeenIn(L2, M2, x) = IF SetNo(x) = SetNo(a) /\ Tag(x) = Tag(a)
                               THEN after.block[Offset(x)] ELSE SeenIn(L, M, x)
  BY <1>6, Replace
<1>8. CInv'
  BY <1>2, <1>6, <1>7 DEF CInv, Fits
<1>9. \A x \in Address : SeenNow(x)' = SeenIn(L2, M2, x) /\ SeenNow(x) = SeenIn(L, M, x)
  BY <1>2, <1>3, <1>4 DEF SeenNow
<1> QED
  BY <1>7, <1>8, <1>9

LEMMA ReadStep ==
  ASSUME CInv, NEW a \in Address, NEW l \in Lines, NEW N, NEW M2, Sound(a, l, N, M2),
         Read(a, l, N), next_memory' = M2
  PROVE  CInv' /\ view' = view /\ result' = view[a]
<1>1. N \in CacheLine /\ N.valid /\ N.tag = Tag(a) /\ Leave(a, l, N)
  BY DEF Sound, Read
<1>2. result' = SeenNow(a)
  BY DEF Sound, Read
<1>3. result' \in Byte
  BY <1>2, SeenType DEF SeenNow, CInv
<1>4. /\ CInv'
      /\ \A x \in Address :
           SeenNow(x)' = IF SetNo(x) = SetNo(a) /\ Tag(x) = Tag(a)
                         THEN N.block[Offset(x)] ELSE SeenNow(x)
  BY <1>1, <1>3, AccessInv
<1>5. \A x \in Address : SeenNow(x)' = SeenNow(x)
  BY <1>4 DEF Sound
<1> QED
  BY <1>2, <1>4, <1>5, ViewIs, NextView

LEMMA WriteStep ==
  ASSUME CInv, NEW a \in Address, NEW b \in Byte, NEW l \in Lines, NEW N, NEW M2,
         Sound(a, l, N, M2), Write(a, b, l, N), next_memory' = M2
  PROVE  CInv' /\ view' = [view EXCEPT ![a] = b] /\ result' = result
<1> DEFINE after == [valid |-> N.valid, dirty |-> TRUE, tag |-> N.tag,
                     block |-> [N.block EXCEPT ![Offset(a)] = b]]
<1>1. N \in CacheLine /\ N.valid /\ N.tag = Tag(a)
  BY DEF Sound
<1>2. Offset(a) \in Offsets
  BY Decompose
<1>3. N.block \in [Offsets -> Byte] /\ N.tag \in Tags
  BY <1>1 DEF CacheLine
<1>4. /\ after \in CacheLine /\ after.valid /\ after.dirty /\ after.tag = Tag(a)
      /\ after.block[Offset(a)] = b
      /\ \A o \in Offsets \ {Offset(a)} : after.block[o] = N.block[o]
  BY <1>1, <1>2, <1>3 DEF CacheLine
<1>5. Leave(a, l, after) /\ result' = result
  BY DEF Write
<1>6. result' \in Byte
  BY <1>5 DEF CInv
<1> HIDE DEF after
<1>7. /\ CInv'
      /\ \A x \in Address :
           SeenNow(x)' = IF SetNo(x) = SetNo(a) /\ Tag(x) = Tag(a)
                         THEN after.block[Offset(x)] ELSE SeenNow(x)
  BY <1>4, <1>5, <1>6, AccessInv
<1>8. ASSUME NEW x \in Address
      PROVE  SeenNow(x)' = IF x = a THEN b ELSE SeenNow(x)
  <2>1. CASE x = a
    BY <1>4, <1>7, <2>1
  <2>2. CASE SetNo(x) = SetNo(a) /\ Tag(x) = Tag(a) /\ x # a
    <3>1. Offset(x) \in Offsets /\ Offset(x) # Offset(a)
      <4>1. /\ x = block_start_from_line_info(Tag(x), SetNo(x)) + Offset(x)
            /\ Offset(x) \in Offsets
        BY Decompose
      <4>2. a = block_start_from_line_info(Tag(a), SetNo(a)) + Offset(a)
        BY Decompose
      <4> QED
        BY <2>2, <4>1, <4>2
    <3>2. after.block[Offset(x)] = N.block[Offset(x)]
      BY <1>4, <3>1
    <3>3. N.block[Offset(x)] = SeenNow(x)
      BY <2>2 DEF Sound
    <3> QED
      BY <1>7, <2>2, <3>2, <3>3
  <2>3. CASE ~(SetNo(x) = SetNo(a) /\ Tag(x) = Tag(a))
    BY <1>7, <2>3
  <2> QED
    BY <2>1, <2>2, <2>3
<1> QED
  BY <1>5, <1>7, <1>8, ViewIs, NextView

\* flush_cache writes out what is seen, so nothing that is seen changes.
LEMMA FlushStep ==
  ASSUME CInv, Flush
  PROVE  CInv' /\ view' = view /\ next_memory' = view /\ result' = result
<1> DEFINE v(x) == IF DirtyLines(x) # {}
                   THEN ByteOver(LastOver(x)[1], LastOver(x)[2], x) ELSE next_memory[x]
<1>1. next_memory' = [x \in Address |-> v(x)] /\ lines' = lines /\ result' = result
  BY DEF Flush
<1>2. ASSUME NEW x \in Address PROVE v(x) = SeenNow(x)
  <2>1. SetNo(x) \in Sets /\ Tag(x) \in Tags
    BY Decompose
  <2>2. ASSUME NEW w \in DirtyLines(x)
        PROVE  /\ w \in Sets \X Lines /\ w[1] = SetNo(x)
               /\ HoldsIn(lines, SetNo(x), w[2], Tag(x))
               /\ ByteOver(w[1], w[2], x) = SeenNow(x)
    <3>1. w \in Sets \X Lines /\ w[1] \in Sets /\ w[2] \in Lines
          /\ DirtyOver(w[1], w[2], x)
      BY DEF DirtyLines
    <3>2. /\ w[1] = SetNo(x) /\ HoldsIn(lines, w[1], w[2], Tag(x))
          /\ ByteOver(w[1], w[2], x) = lines[w[1]][w[2]].block[Offset(x)]
      BY <3>1, Over
    <3>3. SeenNow(x) = lines[SetNo(x)][w[2]].block[Offset(x)]
      BY <3>1, <3>2, SeenHeld DEF CInv, SeenNow
    <3> QED
      BY <3>1, <3>2, <3>3
  <2>3. CASE DirtyLines(x) # {}
    <3>1. PICK w \in DirtyLines(x) : TRUE
      BY <2>3
    <3>2. \A u \in DirtyLines(x) : u = w
      <4> SUFFICES ASSUME NEW u \in DirtyLines(x) PROVE u = w
        OBVIOUS
      <4>1. /\ u \in Sets \X Lines /\ u[1] = SetNo(x)
            /\ HoldsIn(lines, SetNo(x), u[2], Tag(x))
        BY <2>2
      <4>2. /\ w \in Sets \X Lines /\ w[1] = SetNo(x)
            /\ HoldsIn(lines, SetNo(x), w[2], Tag(x))
        BY <2>2
      <4>3. u[2] = w[2]
        BY <2>1, <4>1, <4>2 DEF CInv, Single
      <4> QED
        BY <4>1, <4>2, <4>3
    <3>3. \A u \in DirtyLines(x) : u[1] < w[1] \/ (u[1] = w[1] /\ u[2] <= w[2])
      <4>1. w[2] \in Nat
        BY CacheAssumption DEF DirtyLines, Lines
      <4> QED
        BY <3>2, <4>1
    <3>4. LastOver(x) \in DirtyLines(x)
      BY <3>1, <3>3 DEF LastOver
    <3>5. ByteOver(LastOver(x)[1], LastOver(x)[2], x) = SeenNow(x)
      BY <2>2, <3>4
    <3> QED
      BY <2>3, <3>5
  <2>4. CASE DirtyLines(x) = {}
    <3>1. v(x) = next_memory[x]
      BY <2>4
    <3>2. CASE \A l \in Lines : ~HoldsIn(lines, SetNo(x), l, Tag(x))
      BY <3>1, <3>2 DEF SeenNow, SeenIn
    <3>3. ASSUME NEW l \in Lines, HoldsIn(lines, SetNo(x), l, Tag(x))
          PROVE  SeenNow(x) = next_memory[x]
      <4>1. ~DirtyOver(SetNo(x), l, x)
        <5> SUFFICES ASSUME DirtyOver(SetNo(x), l, x) PROVE FALSE
          OBVIOUS
        <5> DEFINE w == <<SetNo(x), l>>
        <5>1. w \in Sets \X Lines /\ DirtyOver(w[1], w[2], x)
          BY <2>1
        <5> QED
          BY <2>4, <5>1 DEF DirtyLines
      <4>2. ~lines[SetNo(x)][l].dirty
        BY <2>1, <3>3, <4>1, Over
      <4>3. lines[SetNo(x)][l].block[Offset(x)] = next_memory[x]
        BY <3>3, <4>2 DEF CInv, Current
      <4>4. SeenNow(x) = lines[SetNo(x)][l].block[Offset(x)]
        BY <3>3, SeenHeld DEF CInv, SeenNow
      <4> QED
        BY <4>3, <4>4
    <3> QED
      BY <3>1, <3>2, <3>3
  <2> QED
    BY <2>3, <2>4
<1> HIDE DEF v
<1>3. \A x \in Address : SeenNow(x) \in Byte
  BY SeenType DEF CInv, SeenNow
<1>4. next_memory' = view
  BY <1>1, <1>2, ViewIs
<1>5. next_memory' \in Memory
  BY <1>1, <1>2, <1>3 DEF Memory
<1>6. \A x \in Address : next_memory'[x] = SeenNow(x)
  BY <1>1, <1>2
<1>7. PICK L : L = lines
  OBVIOUS
<1>8. PICK M2 : M2 = next_memory'
  OBVIOUS
<1>9. /\ L \in LineArray /\ M2 \in Memory /\ Single(L)
      /\ \A x \in Address : M2[x] = SeenIn(L, next_memory, x)
  BY <1>5, <1>6, <1>7, <1>8 DEF CInv, SeenNow
<1>10. ASSUME NEW x \in Address, NEW l \in Lines, HoldsIn(L, SetNo(x), l, Tag(x))
       PROVE  L[SetNo(x)][l].block[Offset(x)] = M2[x]
  <2>1. next_memory \in Memory
    BY DEF CInv
  <2> QED
    BY <1>9, <1>10, <2>1, SeenHeld
<1>11. Current(L, M2)
  BY <1>10 DEF Current
<1>12. CInv'
  BY <1>1, <1>7, <1>8, <1>9, <1>11 DEF CInv
<1>13. ASSUME NEW x \in Address PROVE SeenIn(L, M2, x) = M2[x]
  <2>1. CASE \A l \in Lines : ~HoldsIn(L, SetNo(x), l, Tag(x))
    BY <2>1 DEF SeenIn
  <2>2. ASSUME NEW l \in Lines, HoldsIn(L, SetNo(x), l, Tag(x))
        PROVE  SeenIn(L, M2, x) = M2[x]
    <3>1. SeenIn(L, M2, x) = L[SetNo(x)][l].block[Offset(x)]
      BY <1>9, <2>2, SeenHeld
    <3> QED
      BY <1>10, <2>2, <3>1
  <2> QED
    BY <2>1, <2>2
<1>14. \A x \in Address : SeenNow(x)' = SeenNow(x)
  <2>1. \A x \in Address : SeenNow(x)' = SeenIn(L, M2, x)
    BY <1>1, <1>7, <1>8 DEF SeenNow
  <2> QED
    BY <1>6, <1>8, <1>13, <2>1
<1> QED
  BY <1>1, <1>4, <1>12, <1>14, ViewIs, NextView

LEMMA NextStep ==
  ASSUME CInv, [Next]_vars
  PROVE  CInv' /\ [Flat!Next]_<<view, result>>
<1>1. ASSUME NEW l \in Lines, NEW a \in Address, ReadHit(a, l)
      PROVE  CInv' /\ Flat!Read(a)
  <2>1. Sound(a, l, lines[SetNo(a)][l], next_memory)
    BY <1>1, HitSound DEF ReadHit
  <2>2. Read(a, l, lines[SetNo(a)][l]) /\ next_memory' = next_memory
    BY <1>1 DEF ReadHit
  <2> QED
    BY <2>1, <2>2, ReadStep DEF Flat!Read
<1>2. ASSUME NEW l \in Lines, NEW a \in Address, ReadMiss(a, l)
      PROVE  CInv' /\ Flat!Read(a)
  <2> DEFINE M2 == evict(SetNo(a), l)
  <2>1. Sound(a, l, Loaded(M2, a), M2)
    BY <1>2, MissSound DEF ReadMiss
  <2>2. Read(a, l, Loaded(M2, a)) /\ next_memory' = M2
    BY <1>2 DEF ReadMiss
  <2> QED
    BY <2>1, <2>2, ReadStep DEF Flat!Read
<1>3. ASSUME NEW l \in Lines, NEW a \in Address, NEW b \in Byte, WriteHit(a, b, l)
      PROVE  CInv' /\ Flat!Write(a, b)
  <2>1. Sound(a, l, lines[SetNo(a)][l], next_memory)
    BY <1>3, HitSound DEF WriteHit
  <2>2. Write(a, b, l, lines[SetNo(a)][l]) /\ next_memory' = next_memory
    BY <1>3 DEF WriteHit
  <2> QED
    BY <2>1, <2>2, WriteStep DEF Flat!Write
<1>4. ASSUME NEW l \in Lines, NEW a \in Address, NEW b \in Byte, WriteMiss(a, b, l)
      PROVE  CInv' /\ Flat!Write(a, b)
  <2> DEFINE M2 == evict(SetNo(a), l)
  <2>1. Sound(a, l, Loaded(M2, a), M2)
    BY <1>4, MissSound DEF WriteMiss
  <2>2. Write(a, b, l, Loaded(M2, a)) /\ next_memory' = M2
    BY <1>4 DEF WriteMiss
  <2> QED
    BY <2>1, <2>2, WriteStep DEF Flat!Write
<1>5. CASE Flush
  BY <1>5, FlushStep
<1>6. CASE UNCHANGED vars
  <2>1. lines' = lines /\ next_memory' = next_memory /\ result' = result
    BY <1>6 DEF vars
  <2>2. CInv'
    BY <2>1 DEF CInv
  <2>3. \A x \in Address : SeenNow(x)' = SeenNow(x)
    BY <2>1 DEF SeenNow
  <2> QED
    BY <2>1, <2>2, <2>3, ViewIs, NextView
<1>7. \A w \in Writes : w[1] \in Address /\ w[2] \in Byte
  BY CacheAssumption
<1>8. CASE \E l \in Lines : \E a \in Address : ReadHit(a, l) \/ ReadMiss(a, l)
  <2>1. PICK l \in Lines, a \in Address : ReadHit(a, l) \/ ReadMiss(a, l)
    BY <1>8
  <2>2. CInv' /\ Flat!Read(a)
    BY <1>1, <1>2, <2>1
  <2> QED
    BY <2>2 DEF Flat!Next
<1>9. CASE \E l \in Lines : \E w \in Writes : WriteHit(w[1], w[2], l) \/ WriteMiss(w[1], w[2], l)
  <2>1. PICK l \in Lines, w \in Writes : WriteHit(w[1], w[2], l) \/ WriteMiss(w[1], w[2], l)
    BY <1>9
  <2>2. CInv' /\ Flat!Write(w[1], w[2])
    BY <1>3, <1>4, <1>7, <2>1
  <2> QED
    BY <1>7, <2>2 DEF Flat!Next
<1> QED
  BY <1>5, <1>6, <1>8, <1>9 DEF Next

-----------------------------------------------------------------------------
(* The replacement policy.                                                 *)

Distinct(seq) == \A i, j \in 1 .. Len(seq) : seq[i] = seq[j] => i = j
In(x, seq)    == \E j \in 1 .. Len(seq) : seq[j] = x

\* A use makes an element the last and keeps the order of the others.
LEMMA UsedElements ==
  ASSUME NEW S, NEW seq \in Seq(S), Distinct(seq), NEW x \in S
  PROVE  LET n == Len(seq)
             new == Used(seq, x)
         IN  /\ new \in Seq(S)
             /\ \A k \in 1 .. n : seq[k] = x =>
                  /\ Len(new) = n
                  /\ \A i \in 1 .. n : new[i] = IF i < k THEN seq[i]
                                                ELSE IF i < n THEN seq[i + 1] ELSE x
             /\ ~In(x, seq) =>
                  /\ Len(new) = n + 1 /\ new[n + 1] = x
                  /\ \A i \in 1 .. n : new[i] = seq[i]
<1> DEFINE n == Len(seq)
           new == Used(seq, x)
<1>1. n \in Nat
  OBVIOUS
<1>2. ASSUME NEW k \in 1 .. n, seq[k] = x
      PROVE  /\ new \in Seq(S) /\ Len(new) = n
             /\ \A i \in 1 .. n : new[i] = IF i < k THEN seq[i]
                                           ELSE IF i < n THEN seq[i + 1] ELSE x
  <2> DEFINE before == SubSeq(seq, 1, k - 1)
             after == SubSeq(seq, k + 1, n)
             rest == before \o after
  <2>1. (CHOOSE j \in 1 .. n : seq[j] = x) = k
    BY <1>2 DEF Distinct
  <2>2. new = Append(rest, x)
    BY <1>2, <2>1 DEF Used
  <2>3. k - 1 \in 0 .. n /\ k + 1 \in 1 .. n + 1 /\ n - k \in Nat
    BY <1>1, <1>2
  <2>4. /\ before \in Seq(S) /\ Len(before) = k - 1
        /\ \A i \in 1 .. k - 1 : before[i] = seq[i]
    BY <1>1, <2>3
  <2>5. /\ after \in Seq(S) /\ Len(after) = n - k
        /\ \A i \in 1 .. n - k : after[i] = seq[k + i]
    BY <1>1, <2>3
  <2> HIDE DEF before, after, n
  <2>6. /\ rest \in Seq(S) /\ Len(rest) = n - 1
        /\ \A i \in 1 .. n - 1 : rest[i] = IF i < k THEN seq[i] ELSE seq[i + 1]
    <3>1. rest \in Seq(S) /\ Len(rest) = (k - 1) + (n - k)
      <4>1. before \in Seq(S) /\ after \in Seq(S)
        BY <2>4, <2>5
      <4>2. rest \in Seq(S) /\ Len(rest) = Len(before) + Len(after)
        BY <4>1
      <4> QED
        BY <2>4, <2>5, <4>2
    <3>2. (k - 1) + (n - k) = n - 1
      BY <1>1, <1>2
    <3>3. ASSUME NEW i \in 1 .. n - 1 PROVE rest[i] = IF i < k THEN seq[i] ELSE seq[i + 1]
      <4>1. CASE i < k
        <5>1. i \in 1 .. k - 1
          BY <1>1, <1>2, <3>3, <4>1
        <5>2. i \in 1 .. Len(before) /\ i \in 1 .. Len(before) + Len(after)
          BY <1>1, <1>2, <2>3, <2>4, <2>5, <3>3, <5>1
        <5>3. rest[i] = before[i]
          BY <2>4, <2>5, <5>2
        <5> QED
          BY <2>4, <4>1, <5>1, <5>3
      <4>2. CASE ~(i < k)
        <5> DEFINE d == i - (k - 1)
        <5>1. d \in 1 .. n - k /\ k + d = i + 1 /\ d = i - Len(before) /\ i > Len(before)
          BY <1>1, <1>2, <2>4, <3>3, <4>2
        <5>2. i \in 1 .. Len(before) + Len(after)
          BY <1>1, <1>2, <2>4, <2>5, <3>2, <3>3
        <5> HIDE DEF d
        <5>3. rest[i] = after[d]
          <6>1. before \in Seq(S) /\ after \in Seq(S)
            BY <2>4, <2>5
          <6> QED
            BY <5>1, <5>2, <6>1
        <5> QED
          BY <2>5, <4>2, <5>1, <5>3
      <4> QED
        BY <4>1, <4>2
    <3> QED
      BY <3>1, <3>2, <3>3
  <2> HIDE DEF rest
  <2>7. Len(rest) + 1 = n /\ \A i \in 1 .. n : i # n => i \in 1 .. n - 1 /\ i < n
    BY <1>1, <1>2, <2>6
  <2>8. /\ new \in Seq(S) /\ Len(new) = n /\ new[n] = x
        /\ \A i \in 1 .. n - 1 : new[i] = rest[i]
    BY <2>2, <2>6, <2>7
  <2>9. ~(n < k)
    BY <1>1, <1>2
  <2> HIDE DEF new
  <2>10. ASSUME NEW i \in 1 .. n
         PROVE  new[i] = IF i < k THEN seq[i] ELSE IF i < n THEN seq[i + 1] ELSE x
    <3>1. CASE i = n
      BY <1>1, <2>8, <2>9, <3>1
    <3>2. CASE i # n
      BY <2>6, <2>7, <2>8, <3>2
    <3> QED
      BY <3>1, <3>2
  <2> QED
    BY <2>8, <2>10
<1>3. ASSUME ~In(x, seq)
      PROVE  /\ new \in Seq(S) /\ Len(new) = n + 1 /\ new[n + 1] = x
             /\ \A i \in 1 .. n : new[i] = seq[i]
  <2>1. new = Append(seq, x)
    BY <1>3 DEF Used, In
  <2> QED
    BY <2>1
<1>4. In(x, seq) \/ ~In(x, seq)
  OBVIOUS
<1> HIDE DEF new, n
<1>5. new \in Seq(S)
  <2>1. CASE In(x, seq)
    BY <1>2, <2>1 DEF In, n
  <2> QED
    BY <1>3, <2>1
<1> QED
  BY <1>2, <1>3, <1>5 DEF new, n

\* A use adds the element, if it was not there, and nothing is there twice.
LEMMA UsedSet ==
  ASSUME NEW S, NEW seq \in Seq(S), Distinct(seq), NEW x \in S
  PROVE  /\ Distinct(Used(seq, x))
         /\ \A y : In(y, Used(seq, x)) <=> y = x \/ In(y, seq)
<1> DEFINE n == Len(seq)
           new == Used(seq, x)
<1>1. n \in Nat
  OBVIOUS
<1>2. CASE ~In(x, seq)
  <2>1. /\ Len(new) = n + 1 /\ new[n + 1] = x
        /\ \A i \in 1 .. n : new[i] = seq[i]
    BY <1>2, UsedElements
  <2> HIDE DEF new, n
  <2>2. \A i : i \in 1 .. n + 1 <=> i \in 1 .. n \/ i = n + 1
    BY <1>1
  <2>3. \A i \in 1 .. n : seq[i] # x
    BY <1>2 DEF In, n
  <2>4. Distinct(new)
    BY <2>1, <2>2, <2>3 DEF Distinct, n
  <2>5. \A y : In(y, new) <=> y = x \/ In(y, seq)
    BY <2>1, <2>2 DEF In, n
  <2> QED
    BY <2>4, <2>5 DEF new
<1>3. CASE In(x, seq)
  <2>1. PICK k \in 1 .. n : seq[k] = x
    BY <1>3 DEF In
  <2>2. /\ Len(new) = n
        /\ \A i \in 1 .. n : new[i] = IF i < k THEN seq[i]
                                      ELSE IF i < n THEN seq[i + 1] ELSE x
    BY <2>1, UsedElements
  <2> HIDE DEF new
  <2>3. \A i, j \in 1 .. n : seq[i] = seq[j] => i = j
    BY DEF Distinct
  <2> HIDE DEF n
  <2>4. ASSUME NEW i \in 1 .. n, NEW j \in 1 .. n, new[i] = new[j] PROVE i = j
    <3> DEFINE from(z) == IF z < k THEN z ELSE IF z < n THEN z + 1 ELSE k
    <3>1. \A z \in 1 .. n : from(z) \in 1 .. n /\ new[z] = seq[from(z)]
      BY <1>1, <2>1, <2>2
    <3>2. from(i) = from(j) => i = j
      BY <1>1, <2>1, <2>4
    <3> HIDE DEF from
    <3> QED
      BY <2>3, <2>4, <3>1, <3>2
  <2>5. ASSUME NEW y PROVE In(y, new) <=> In(y, seq)
    <3>1. ASSUME NEW i \in 1 .. n PROVE \E j \in 1 .. n : seq[j] = new[i]
      <4>1. CASE i < k
        BY <2>2, <4>1
      <4>2. CASE ~(i < k) /\ i < n
        <5>1. i + 1 \in 1 .. n
          BY <1>1, <4>2
        <5> QED
          BY <2>2, <4>2, <5>1
      <4>3. CASE ~(i < k) /\ ~(i < n)
        BY <2>1, <2>2, <4>3
      <4> QED
        BY <4>1, <4>2, <4>3
    <3>2. ASSUME NEW j \in 1 .. n PROVE \E i \in 1 .. n : new[i] = seq[j]
      <4>1. CASE j < k
        BY <2>2, <4>1
      <4>2. CASE j = k
        <5>1. n \in 1 .. n /\ ~(n < k) /\ ~(n < n)
          BY <1>1, <2>1
        <5> QED
          BY <2>1, <2>2, <4>2, <5>1
      <4>3. CASE ~(j < k) /\ j # k
        <5> DEFINE i == j - 1
        <5>1. i \in 1 .. n /\ ~(i < k) /\ i < n /\ i + 1 = j
          BY <1>1, <2>1, <4>3
        <5> HIDE DEF i
        <5> QED
          BY <2>2, <5>1
      <4> QED
        BY <4>1, <4>2, <4>3
    <3> QED
      BY <2>2, <3>1, <3>2 DEF In, n
  <2>6. Distinct(new)
    BY <2>2, <2>4 DEF Distinct
  <2> QED
    BY <1>3, <2>5, <2>6 DEF new
<1> QED
  BY <1>2, <1>3

\* The lines of one set, in the order of their use: exactly the valid ones, holding the
\* tags that were used last, in the same order.
InOrder(row, u, r) ==
  /\ u \in Seq(Lines) /\ Distinct(u) /\ r \in Seq(Tags) /\ Distinct(r)
  /\ \A l \in Lines : row[l].valid <=> In(l, u)
  /\ Len(u) <= Len(r) /\ (Len(u) < LinesPerSet => Len(u) = Len(r))
  /\ \A j \in 1 .. Len(u) : row[u[j]].tag = r[(Len(r) - Len(u)) + j]

\* There are LinesPerSet valid lines if and only if there is no other.
LEMMA FullSet ==
  ASSUME NEW u \in Seq(Lines), Distinct(u)
  PROVE  /\ Len(u) <= LinesPerSet
         /\ Len(u) = LinesPerSet <=> \A l \in Lines : In(l, u)
<1> DEFINE n == Len(u)
           Held == {l \in Lines : In(l, u)}
<1>1. n \in Nat /\ LinesPerSet \in Nat
  BY CacheAssumption
<1>2. IsFiniteSet(Lines) /\ Cardinality(Lines) = LinesPerSet
  <2>1. IsFiniteSet(0 .. LinesPerSet - 1)
        /\ Cardinality(0 .. LinesPerSet - 1) = IF 0 > LinesPerSet - 1 THEN 0 ELSE (LinesPerSet - 1) - 0 + 1
    BY <1>1, FS_Interval
  <2>2. (IF 0 > LinesPerSet - 1 THEN 0 ELSE (LinesPerSet - 1) - 0 + 1) = LinesPerSet
    BY CacheAssumption
  <2> QED
    BY <2>1, <2>2 DEF Lines
<1>3. IsFiniteSet(1 .. n) /\ Cardinality(1 .. n) = n
  <2>1. IsFiniteSet(1 .. n) /\ Cardinality(1 .. n) = IF 1 > n THEN 0 ELSE n - 1 + 1
    BY <1>1, FS_Interval
  <2>2. (IF 1 > n THEN 0 ELSE n - 1 + 1) = n
    BY <1>1
  <2> QED
    BY <2>1, <2>2
<1>4. Cardinality(Held) = n
  <2>1. \A i \in 1 .. n : u[i] \in Held
    BY DEF In
  <2>2. \A l \in Held : \E i \in 1 .. n : u[i] = l
    BY DEF In
  <2>3. u \in [1 .. n -> Held]
    BY <2>1
  <2>4. \A i, j \in 1 .. n : u[i] = u[j] => i = j
    BY DEF Distinct
  <2> HIDE DEF Held, n
  <2>5. u \in Bijection(1 .. n, Held)
    BY <2>2, <2>3, <2>4 DEF Bijection, Injection, Surjection, IsInjective
  <2>6. ExistsBijection(1 .. n, Held)
    BY <2>5 DEF ExistsBijection
  <2> QED
    BY <1>3, <2>6, FS_Bijection
<1>5. Held \in SUBSET Lines
  OBVIOUS
<1>6. Held = Lines <=> \A l \in Lines : In(l, u)
  OBVIOUS
<1> HIDE DEF Held, n
<1>7. Cardinality(Held) <= Cardinality(Lines) /\ (Cardinality(Held) = Cardinality(Lines) => Held = Lines)
  BY <1>2, <1>5, FS_Subset
<1> QED
  BY <1>2, <1>4, <1>6, <1>7 DEF n

\* The line that is used is the one with the tag, or the victim if there is none.
Chosen(row, u, l, t) ==
  \/ row[l].valid /\ row[l].tag = t
  \/ /\ \A k \in Lines : ~(row[k].valid /\ row[k].tag = t)
     /\ IF \A k \in Lines : row[k].valid THEN l = Head(u) ELSE ~row[l].valid

\* An access to a set keeps its order.
LEMMA UseKeepsOrder ==
  ASSUME NEW row, NEW u, NEW r, InOrder(row, u, r), NEW l \in Lines, NEW t \in Tags,
         Chosen(row, u, l, t),
         NEW new, \A k \in Lines \ {l} : new[k] = row[k], new[l].valid, new[l].tag = t
  PROVE  InOrder(new, Used(u, l), Used(r, t))
<1> DEFINE n == Len(u)
           m == Len(r)
           u2 == Used(u, l)
           r2 == Used(r, t)
<1>1. /\ u \in Seq(Lines) /\ Distinct(u) /\ r \in Seq(Tags) /\ Distinct(r)
      /\ n \in Nat /\ m \in Nat /\ n <= m /\ (n < LinesPerSet => n = m)
      /\ n <= LinesPerSet /\ LinesPerSet \in Nat \ {0}
      /\ \A j \in 1 .. n : u[j] \in Lines /\ row[u[j]].valid /\ row[u[j]].tag = r[(m - n) + j]
  <2>1. u \in Seq(Lines) /\ Distinct(u) /\ r \in Seq(Tags) /\ Distinct(r)
    BY DEF InOrder
  <2>2. \A j \in 1 .. n : u[j] \in Lines /\ In(u[j], u)
    BY <2>1 DEF In
  <2> QED
    BY <2>1, <2>2, FullSet, CacheAssumption DEF InOrder
<1>2. /\ u2 \in Seq(Lines) /\ Distinct(u2) /\ \A y : In(y, u2) <=> y = l \/ In(y, u)
      /\ r2 \in Seq(Tags) /\ Distinct(r2)
  <2>1. u2 \in Seq(Lines) /\ r2 \in Seq(Tags)
    BY <1>1, UsedElements
  <2>2. Distinct(u2) /\ \A y : In(y, u2) <=> y = l \/ In(y, u)
    BY <1>1, UsedSet
  <2>3. Distinct(r2)
    BY <1>1, UsedSet
  <2> QED
    BY <2>1, <2>2, <2>3
<1>3. \A k \in Lines : new[k].valid <=> In(k, u2)
  BY <1>2 DEF InOrder
<1>4. /\ \A k \in 1 .. n : u[k] = l =>
            /\ Len(u2) = n
            /\ \A i \in 1 .. n : u2[i] = IF i < k THEN u[i] ELSE IF i < n THEN u[i + 1] ELSE l
      /\ ~In(l, u) => Len(u2) = n + 1 /\ u2[n + 1] = l /\ \A i \in 1 .. n : u2[i] = u[i]
  BY <1>1, UsedElements
<1>5. /\ \A k \in 1 .. m : r[k] = t =>
            /\ Len(r2) = m
            /\ \A i \in 1 .. m : r2[i] = IF i < k THEN r[i] ELSE IF i < m THEN r[i + 1] ELSE t
      /\ ~In(t, r) => Len(r2) = m + 1 /\ r2[m + 1] = t /\ \A i \in 1 .. m : r2[i] = r[i]
  BY <1>1, UsedElements
<1>6. \A i, j \in 1 .. n : u[i] = u[j] => i = j
  BY <1>1 DEF Distinct
<1> SUFFICES /\ Len(u2) <= Len(r2) /\ (Len(u2) < LinesPerSet => Len(u2) = Len(r2))
             /\ \A j \in 1 .. Len(u2) : new[u2[j]].tag = r2[(Len(r2) - Len(u2)) + j]
  BY <1>2, <1>3 DEF InOrder
<1> HIDE DEF u2, r2
<1>7. CASE row[l].valid /\ row[l].tag = t
  <2>1. PICK k \in 1 .. n : u[k] = l
    BY <1>7 DEF InOrder, In
  <2> HIDE DEF n, m
  <2> DEFINE kr == (m - n) + k
  <2>2. kr \in 1 .. m /\ r[kr] = t
    BY <1>1, <1>7, <2>1
  <2>3. /\ Len(u2) = n /\ Len(r2) = m
        /\ \A i \in 1 .. n : u2[i] = IF i < k THEN u[i] ELSE IF i < n THEN u[i + 1] ELSE l
        /\ \A i \in 1 .. m : r2[i] = IF i < kr THEN r[i] ELSE IF i < m THEN r[i + 1] ELSE t
    BY <1>4, <1>5, <2>1, <2>2
  <2>4. ASSUME NEW j \in 1 .. n PROVE new[u2[j]].tag = r2[(m - n) + j]
    <3> DEFINE jr == (m - n) + j
    <3>1. jr \in 1 .. m /\ (j < k <=> jr < kr) /\ (j < n <=> jr < m)
      BY <1>1, <2>1, <2>2
    <3>2. CASE j < k
      <4>1. u2[j] = u[j] /\ r2[jr] = r[jr] /\ j # k
        BY <1>1, <2>1, <2>3, <3>1, <3>2
      <4>2. u[j] # l
        BY <1>6, <2>1, <4>1 DEF n
      <4> QED
        BY <1>1, <4>1, <4>2
    <3>3. CASE ~(j < k) /\ j < n
      <4>1. j + 1 \in 1 .. n /\ j + 1 # k /\ jr + 1 = (m - n) + (j + 1)
        BY <1>1, <2>1, <3>3
      <4>2. u2[j] = u[j + 1] /\ r2[jr] = r[jr + 1]
        BY <2>3, <3>1, <3>3
      <4>3. u[j + 1] # l
        BY <1>6, <2>1, <4>1 DEF n
      <4> HIDE DEF jr
      <4>4. row[u[j + 1]].tag = r[jr + 1]
        BY <1>1, <4>1
      <4> QED
        BY <1>1, <4>1, <4>2, <4>3, <4>4 DEF jr
    <3>4. CASE ~(j < k) /\ ~(j < n)
      BY <2>3, <3>1, <3>4
    <3> QED
      BY <3>2, <3>3, <3>4
  <2> QED
    BY <1>1, <2>3, <2>4
<1>8. CASE /\ \A k \in Lines : ~(row[k].valid /\ row[k].tag = t)
           /\ ~(\A k \in Lines : row[k].valid)
  <2>1. ~row[l].valid /\ ~In(l, u) /\ n = m
    <3>1. n # LinesPerSet
      BY <1>1, <1>8, FullSet DEF InOrder
    <3>2. ~row[l].valid
      BY <1>8 DEF Chosen
    <3> QED
      BY <1>1, <3>1, <3>2 DEF InOrder
  <2> HIDE DEF n, m
  <2>2. (m - n) = 0
    BY <1>1, <2>1
  <2>3. \A j \in 1 .. n : u[j] # l /\ row[u[j]].tag = r[j]
    BY <1>1, <2>1, <2>2 DEF In, n
  <2>4. ~In(t, r)
    BY <1>1, <1>8, <2>1, <2>3 DEF In, m
  <2>5. /\ Len(u2) = n + 1 /\ u2[n + 1] = l /\ \A i \in 1 .. n : u2[i] = u[i]
        /\ Len(r2) = n + 1 /\ r2[n + 1] = t /\ \A i \in 1 .. n : r2[i] = r[i]
    BY <1>4, <1>5, <2>1, <2>4
  <2>6. (n + 1) - (n + 1) = 0 /\ \A j \in 1 .. n + 1 : (j \in 1 .. n \/ j = n + 1) /\ 0 + j = j
    BY <1>1
  <2>7. \A j \in 1 .. n + 1 : new[u2[j]].tag = r2[j]
    BY <1>1, <2>3, <2>5, <2>6
  <2> QED
    BY <1>1, <2>5, <2>6, <2>7
<1>9. CASE /\ \A k \in Lines : ~(row[k].valid /\ row[k].tag = t)
           /\ \A k \in Lines : row[k].valid
  <2>1. n = LinesPerSet /\ l = Head(u)
    BY <1>1, <1>9, FullSet DEF InOrder, Chosen
  <2>2. u[1] = l /\ 1 \in 1 .. n
    BY <1>1, <2>1
  <2> HIDE DEF n, m
  <2>3. /\ Len(u2) = n
        /\ \A j \in 1 .. n : u2[j] = IF j < n THEN u[j + 1] ELSE l
    <3>1. \A j \in 1 .. n : ~(j < 1)
      BY <1>1
    <3> QED
      BY <1>4, <2>2, <3>1
  <2>4. ASSUME NEW j \in 1 .. n, j < n
        PROVE  j + 1 \in 1 .. n /\ new[u[j + 1]].tag = r[(m - n) + (j + 1)]
    <3>1. j + 1 \in 1 .. n /\ j + 1 # 1
      BY <1>1, <2>4
    <3>2. u[j + 1] # l
      BY <1>6, <2>2, <3>1 DEF n
    <3> QED
      BY <1>1, <3>1, <3>2
  <2>5. CASE ~In(t, r)
    <3>1. Len(r2) = m + 1 /\ r2[m + 1] = t /\ \A i \in 1 .. m : r2[i] = r[i]
      BY <1>5, <2>5
    <3>2. ASSUME NEW j \in 1 .. n PROVE new[u2[j]].tag = r2[((m + 1) - n) + j]
      <4>1. CASE j < n
        <5>1. ((m + 1) - n) + j = (m - n) + (j + 1) /\ (m - n) + (j + 1) \in 1 .. m
          BY <1>1, <4>1
        <5>2. u2[j] = u[j + 1] /\ new[u[j + 1]].tag = r[(m - n) + (j + 1)]
          BY <2>3, <2>4, <4>1
        <5>3. r2[(m - n) + (j + 1)] = r[(m - n) + (j + 1)]
          BY <3>1, <5>1
        <5> QED
          BY <5>1, <5>2, <5>3
      <4>2. CASE ~(j < n)
        <5>1. ((m + 1) - n) + j = m + 1
          BY <1>1, <4>2
        <5> QED
          BY <2>3, <3>1, <4>2, <5>1
      <4> QED
        BY <4>1, <4>2
    <3>3. n <= m + 1 /\ ~(n < LinesPerSet)
      BY <1>1, <2>1
    <3> QED
      BY <2>3, <3>1, <3>2, <3>3
  <2>6. CASE In(t, r)
    <3>1. PICK k \in 1 .. m : r[k] = t
      BY <2>6 DEF In, m
    <3>2. k <= m - n
      <4>1. ASSUME k > m - n PROVE FALSE
        <5> DEFINE j == k - (m - n)
        <5>1. j \in 1 .. n /\ (m - n) + j = k
          BY <1>1, <3>1, <4>1
        <5> HIDE DEF j
        <5> QED
          BY <1>1, <1>9, <3>1, <5>1
      <4> QED
        BY <1>1, <3>1, <4>1
    <3>3. /\ Len(r2) = m
          /\ \A i \in 1 .. m : r2[i] = IF i < k THEN r[i] ELSE IF i < m THEN r[i + 1] ELSE t
      BY <1>5, <3>1
    <3>4. ASSUME NEW j \in 1 .. n PROVE new[u2[j]].tag = r2[(m - n) + j]
      <4> DEFINE i == (m - n) + j
      <4>1. i \in 1 .. m /\ ~(i < k) /\ (i < m <=> j < n) /\ i + 1 = (m - n) + (j + 1)
        BY <1>1, <3>1, <3>2
      <4> HIDE DEF i
      <4>2. r2[i] = IF j < n THEN r[(m - n) + (j + 1)] ELSE t
        BY <3>3, <4>1
      <4>3. new[u2[j]].tag = r2[i]
        BY <2>3, <2>4, <4>2
      <4> QED
        BY <4>3 DEF i
    <3> QED
      BY <1>1, <2>1, <2>3, <3>3, <3>4
  <2> QED
    BY <2>5, <2>6
<1> QED
  BY <1>7, <1>8, <1>9 DEF Chosen

LRUInv ==
  /\ DOMAIN lines = Sets /\ DOMAIN uses = Sets /\ DOMAIN recent = Sets
  /\ \A s \in Sets : DOMAIN lines[s] = Lines /\ InOrder(lines[s], uses[s], recent[s])

LEMMA LeaveKeepsOrder ==
  ASSUME LRUInv, NEW a \in Address, NEW l \in Lines, NEW after,
         Chosen(lines[SetNo(a)], uses[SetNo(a)], l, Tag(a)),
         after.valid, after.tag = Tag(a), Leave(a, l, after)
  PROVE  LRUInv'
<1> DEFINE s == SetNo(a)
           t == Tag(a)
<1>1. s \in Sets /\ t \in Tags
  BY Decompose
<1> HIDE DEF s, t
<1>2. /\ lines' = [lines EXCEPT ![s] = [@ EXCEPT ![l] = after]]
      /\ uses' = [uses EXCEPT ![s] = Used(@, l)]
      /\ recent' = [recent EXCEPT ![s] = Used(@, t)]
  BY DEF Leave, s, t
<1>3. DOMAIN lines' = Sets /\ DOMAIN uses' = Sets /\ DOMAIN recent' = Sets
  BY <1>2 DEF LRUInv
<1>4. ASSUME NEW r \in Sets, r # s
      PROVE  lines'[r] = lines[r] /\ uses'[r] = uses[r] /\ recent'[r] = recent[r]
  BY <1>2, <1>4 DEF LRUInv
<1>5. /\ lines'[s] = [lines[s] EXCEPT ![l] = after]
      /\ uses'[s] = Used(uses[s], l) /\ recent'[s] = Used(recent[s], t)
  BY <1>1, <1>2 DEF LRUInv
<1>6. /\ DOMAIN lines'[s] = Lines /\ lines'[s][l] = after
      /\ \A k \in Lines \ {l} : lines'[s][k] = lines[s][k]
  BY <1>1, <1>5 DEF LRUInv
<1>7. Chosen(lines[s], uses[s], l, t) /\ after.valid /\ after.tag = t
  BY DEF s, t
<1>8. InOrder(lines[s], uses[s], recent[s])
  BY <1>1 DEF LRUInv
<1>9. InOrder(lines'[s], uses'[s], recent'[s])
  BY <1>1, <1>5, <1>6, <1>7, <1>8, UseKeepsOrder
<1> QED
  BY <1>3, <1>4, <1>6, <1>9 DEF LRUInv

LEMMA Inductive == Spec => []CInv
<1>1. Init => CInv
  BY InitInv
<1>2. CInv /\ [Next]_vars => CInv'
  BY NextStep
<1> QED
  BY <1>1, <1>2, PTL DEF Spec

\* A block is never in two lines, for any geometry and whatever victims are chosen
\* (cache.c:340).
THEOREM BlocksHeldOnce == Spec => []OneCopy
<1>1. CInv => OneCopy
  <2> SUFFICES ASSUME CInv, NEW s \in Sets, NEW k \in Lines, NEW l \in Lines,
                      lines[s][k].valid, Holds(s, l, lines[s][k].tag)
               PROVE  k = l
    BY DEF OneCopy
  <2>1. lines[s][k].tag \in Tags
    BY DEF CInv, LineArray, CacheLine
  <2> QED
    BY <2>1 DEF CInv, Single, Holds, HoldsIn
<1> QED
  BY <1>1, Inductive, PTL

\* A clean line may always be dropped: the next level has the same bytes (cache.c:424).
THEOREM CleanLinesCurrent == Spec => []CleanCurrent
<1>1. CInv => CleanCurrent
  <2> SUFFICES ASSUME CInv, NEW s \in Sets, NEW l \in Lines, NEW o \in Offsets,
                      lines[s][l].valid, ~lines[s][l].dirty
               PROVE  lines[s][l].block[o]
                        = next_memory[block_start_from_line_info(lines[s][l].tag, s) + o]
    BY DEF CleanCurrent
  <2>1. lines[s][l].tag \in Tags
    BY DEF CInv, LineArray, CacheLine
  <2> DEFINE x == block_start_from_line_info(lines[s][l].tag, s) + o
  <2>2. x \in Address /\ Tag(x) = lines[s][l].tag /\ SetNo(x) = s /\ Offset(x) = o
    BY <2>1, Compose
  <2> HIDE DEF x
  <2>3. HoldsIn(lines, SetNo(x), l, Tag(x)) /\ ~lines[SetNo(x)][l].dirty
    BY <2>2 DEF HoldsIn
  <2>4. lines[SetNo(x)][l].block[Offset(x)] = next_memory[x]
    BY <2>2, <2>3 DEF CInv, Current
  <2> QED
    BY <2>2, <2>4 DEF x
<1> QED
  BY <1>1, Inductive, PTL

\* flush_cache leaves the next level with all that is seen through the cache, the
\* promise that testmem.c:47 tests (cache.c:204).
THEOREM FlushWritesAll == Spec => FlushComplete
<1>1. CInv /\ [Next]_vars => [Flush => next_memory' = view]_vars
  BY FlushStep
<1> QED
  BY <1>1, Inductive, PTL DEF Spec, FlushComplete

\* The cache is a flat memory to its user, whatever the geometry, the bytes and the
\* victims (cache.c:112 and 136); so a cache of a cache is one too.
THEOREM CacheIsMemory == Spec => ImplementsMemory
<1>1. Init => Flat!Init
  <2> SUFFICES ASSUME Init PROVE Flat!Init
    OBVIOUS
  <2>1. \A x \in Address : SeenNow(x) = Zero
    BY InitInv
  <2> QED
    BY <2>1, ViewIs DEF Flat!Init, Init
<1>2. CInv /\ [Next]_vars => [Flat!Next]_<<view, result>>
  BY NextStep
<1> QED
  BY <1>1, <1>2, Inductive, PTL DEF Spec, ImplementsMemory, Flat!Spec

LEMMA EmptyInOrder == Init => LRUInv
<1> SUFFICES ASSUME Init, NEW s \in Sets
             PROVE  DOMAIN lines[s] = Lines /\ InOrder(lines[s], uses[s], recent[s])
  BY DEF LRUInv, Init
<1>1. /\ DOMAIN lines[s] = Lines /\ \A l \in Lines : ~lines[s][l].valid
      /\ uses[s] = << >> /\ recent[s] = << >>
  BY DEF Init
<1> QED
  BY <1>1 DEF InOrder, Distinct, In

\* The victim of a miss and the line of a hit are chosen lines.
LEMMA OrderStep == LRUInv /\ [Next]_vars => LRUInv'
<1> SUFFICES ASSUME LRUInv, [Next]_vars PROVE LRUInv'
  OBVIOUS
<1>1. ASSUME NEW a \in Address, NEW l \in Lines, Found(SetNo(a), l, Tag(a))
      PROVE  /\ lines[SetNo(a)][l].valid /\ lines[SetNo(a)][l].tag = Tag(a)
             /\ Chosen(lines[SetNo(a)], uses[SetNo(a)], l, Tag(a))
  BY <1>1 DEF Found, Holds, Chosen
<1>2. ASSUME NEW a \in Address, NEW l \in Lines, Missing(SetNo(a), Tag(a)), Victim(SetNo(a), l)
      PROVE  Chosen(lines[SetNo(a)], uses[SetNo(a)], l, Tag(a))
  BY <1>2 DEF Missing, Victim, Holds, Chosen
<1>3. ASSUME NEW a \in Address, NEW l \in Lines, ReadHit(a, l) PROVE LRUInv'
  BY <1>1, <1>3, LeaveKeepsOrder DEF ReadHit, Read
<1>4. ASSUME NEW a \in Address, NEW l \in Lines, ReadMiss(a, l) PROVE LRUInv'
  BY <1>2, <1>4, LeaveKeepsOrder DEF ReadMiss, Read, Loaded
<1>5. ASSUME NEW a \in Address, NEW b, NEW l \in Lines, WriteHit(a, b, l) PROVE LRUInv'
  <2> DEFINE line == lines[SetNo(a)][l]
             after == [valid |-> line.valid, dirty |-> TRUE, tag |-> line.tag,
                       block |-> [line.block EXCEPT ![Offset(a)] = b]]
  <2>1. Leave(a, l, after) /\ Found(SetNo(a), l, Tag(a))
    BY <1>5 DEF WriteHit, Write
  <2>2. after.valid /\ after.tag = Tag(a)
    BY <1>1, <2>1
  <2> HIDE DEF after
  <2> QED
    BY <1>1, <2>1, <2>2, LeaveKeepsOrder
<1>6. ASSUME NEW a \in Address, NEW b, NEW l \in Lines, WriteMiss(a, b, l) PROVE LRUInv'
  <2> DEFINE line == Loaded(evict(SetNo(a), l), a)
             after == [valid |-> line.valid, dirty |-> TRUE, tag |-> line.tag,
                       block |-> [line.block EXCEPT ![Offset(a)] = b]]
  <2>1. Leave(a, l, after) /\ Missing(SetNo(a), Tag(a)) /\ Victim(SetNo(a), l)
    BY <1>6 DEF WriteMiss, Write
  <2>2. after.valid /\ after.tag = Tag(a)
    BY DEF Loaded
  <2> HIDE DEF after
  <2> QED
    BY <1>2, <2>1, <2>2, LeaveKeepsOrder
<1>7. \A w \in Writes : w[1] \in Address /\ w[2] \in Byte
  BY CacheAssumption
<1>8. CASE Flush \/ UNCHANGED vars
  BY <1>8 DEF Flush, vars, LRUInv
<1> QED
  BY <1>3, <1>4, <1>5, <1>6, <1>7, <1>8 DEF Next

\* The policy is LRU for any geometry and any accesses: a set always holds the
\* LinesPerSet blocks of it that were used last, whether read or written (cache.c:14
\* and 381).
THEOREM LeastRecentlyUsedLeaves == Spec => []MostRecentKept
<1>1. Init => LRUInv
  BY EmptyInOrder
<1>2. LRUInv /\ [Next]_vars => LRUInv'
  BY OrderStep
<1>3. LRUInv => MostRecentKept
  <2> SUFFICES ASSUME LRUInv, NEW s \in Sets
               PROVE  {lines[s][l].tag : l \in {k \in Lines : lines[s][k].valid}}
                        = {recent[s][j] : j \in {k \in 1 .. Len(recent[s]) :
                                                   k > Len(recent[s]) - LinesPerSet}}
    BY DEF MostRecentKept
  <2> DEFINE u == uses[s]
             r == recent[s]
             n == Len(u)
             m == Len(r)
  <2>1. InOrder(lines[s], u, r)
    BY DEF LRUInv
  <2>2. /\ n \in Nat /\ m \in Nat /\ n <= m /\ (n < LinesPerSet => n = m)
        /\ n <= LinesPerSet /\ LinesPerSet \in Nat
        /\ \A l \in Lines : lines[s][l].valid <=> In(l, u)
        /\ \A j \in 1 .. n : u[j] \in Lines /\ lines[s][u[j]].tag = r[(m - n) + j]
    <3>1. u \in Seq(Lines) /\ Distinct(u) /\ r \in Seq(Tags)
      BY <2>1 DEF InOrder
    <3>2. n \in Nat /\ m \in Nat /\ \A j \in 1 .. n : u[j] \in Lines
      BY <3>1
    <3>3. n <= LinesPerSet /\ LinesPerSet \in Nat
      BY <3>1, FullSet, CacheAssumption
    <3> QED
      BY <2>1, <3>2, <3>3 DEF InOrder
  <2> HIDE DEF m, r
  <2>3. \A l \in Lines : lines[s][l].valid => \E j \in 1 .. n : u[j] = l
    BY <2>2 DEF In
  <2>4. \A j \in 1 .. n : lines[s][u[j]].valid
    BY <2>2 DEF In
  <2> HIDE DEF u, n
  <2>5. \A k \in 1 .. m : k > m - LinesPerSet <=> k > m - n
    BY <2>2
  <2>6. ASSUME NEW l \in Lines, lines[s][l].valid
        PROVE  \E k \in 1 .. m : k > m - LinesPerSet /\ r[k] = lines[s][l].tag
    <3>1. PICK j \in 1 .. n : u[j] = l
      BY <2>3, <2>6
    <3>2. (m - n) + j \in 1 .. m /\ (m - n) + j > m - n
      BY <2>2
    <3> QED
      BY <2>2, <2>5, <3>1, <3>2
  <2>7. ASSUME NEW k \in 1 .. m, k > m - LinesPerSet
        PROVE  \E l \in Lines : lines[s][l].valid /\ lines[s][l].tag = r[k]
    <3> DEFINE j == k - (m - n)
    <3>1. j \in 1 .. n /\ (m - n) + j = k
      BY <2>2, <2>5, <2>7
    <3> HIDE DEF j
    <3> QED
      BY <2>2, <2>4, <3>1
  <2> QED
    BY <2>6, <2>7 DEF m, r
<1> QED
  BY <1>1, <1>2, <1>3, PTL DEF Spec
=============================================================================
