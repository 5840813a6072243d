------------------------------- MODULE Cache -------------------------------
(***************************************************************************)
(* The write-back cache of src/week5/cachesim/cache.c in front of another  *)
(* memory, with its least-recently-used replacement policy.                *)
(*                                                                         *)
(* The program has one thread, so each call of read_byte, write_byte and   *)
(* flush_cache is one step.  next_memory is the memory that the cache is a *)
(* cache of: the flat one of memory.c, or another cache, which to its user *)
(* is the same.  Of recentTime, a clock that only grows, nothing but the   *)
(* order is used: uses holds the valid lines of each set in that order.    *)
(***************************************************************************)
EXTENDS Integers, Sequences, FiniteSets

CONSTANTS
  BlockSize, NumSets, LinesPerSet,   \* the geometry, as in B:S:E of cmdline.c
  NumTags,                           \* mem_size in units of NumSets blocks, rounded up: a
                                     \* program may leave the addresses at the end alone
  Byte, Zero,
  Writes                             \* the pairs of address and byte written

Offsets == 0 .. BlockSize - 1
Sets    == 0 .. NumSets - 1
Lines   == 0 .. LinesPerSet - 1
Tags    == 0 .. NumTags - 1
Address == 0 .. (NumTags * NumSets) * BlockSize - 1

ASSUME CacheAssumption ==
  /\ BlockSize \in Nat \ {0} /\ NumSets \in Nat \ {0}
  /\ LinesPerSet \in Nat \ {0} /\ NumTags \in Nat \ {0}
  /\ Zero \in Byte
  /\ Writes \subseteq Address \X Byte

VARIABLES
  lines,         \* the cache lines of each set
  uses,          \* the valid lines of each set, the least recently used first
  next_memory,   \* the bytes of the next level
  result,        \* what read_byte returned last
  recent         \* history: the tags of each set by their last use, latest last

vars == <<lines, uses, next_memory, result, recent>>

CacheLine == [valid : BOOLEAN, dirty : BOOLEAN, tag : Tags, block : [Offsets -> Byte]]

\* init_cache over a memory of zeros: every line is invalid.
Init ==
  /\ lines = [s \in Sets |-> [l \in Lines |->
       [valid |-> FALSE, dirty |-> FALSE, tag |-> 0, block |-> [o \in Offsets |-> Zero]]]]
  /\ uses = [s \in Sets |-> << >>]
  /\ next_memory = [a \in Address |-> Zero]
  /\ result = Zero
  /\ recent = [s \in Sets |-> << >>]

-----------------------------------------------------------------------------
(* decompose_address and its inverses; the sizes are powers of two, so the *)
(* masks and shifts of the code are these divisions.                       *)

Block(a)  == a \div BlockSize
Offset(a) == a % BlockSize
SetNo(a)  == Block(a) % NumSets

Tag(a) == Block(a) \div NumSets

block_start_from_address(a) == Block(a) * BlockSize

block_start_from_line_info(tag, s) == (tag * NumSets + s) * BlockSize

-----------------------------------------------------------------------------
\* Line l of set s is a valid line with this tag.
Holds(s, l, tag) == lines[s][l].valid /\ lines[s][l].tag = tag

\* find_line_in_set finds l, or no line at all.
Found(s, l, tag) == Holds(s, l, tag) /\ \A k \in 0 .. l - 1 : ~Holds(s, k, tag)
Missing(s, tag)  == \A l \in Lines : ~Holds(s, l, tag)

\* Mutant: the comparison of the times is the wrong way round.
VictimNewest(s, l) ==
  IF \A k \in Lines : lines[s][k].valid
  THEN l = uses[s][Len(uses[s])]
  ELSE ~lines[s][l].valid /\ \A k \in 0 .. l - 1 : lines[s][k].valid

\* choose_victim: the first invalid line, or else the least recently used one.
Victim(s, l) ==
  IF \A k \in Lines : lines[s][k].valid
  THEN l = Head(uses[s])
  ELSE ~lines[s][l].valid /\ \A k \in 0 .. l - 1 : lines[s][k].valid

\* The lines of set s that write_back_cache_line would copy over address x.
DirtyOver(s, l, x) ==
  /\ lines[s][l].valid /\ lines[s][l].dirty
  /\ x - block_start_from_line_info(lines[s][l].tag, s) \in Offsets

ByteOver(s, l, x) == lines[s][l].block[x - block_start_from_line_info(lines[s][l].tag, s)]

\* Mutant: the victim is not written back.
evict_clean(s, l) == next_memory

\* The next level after evict_cache_line.
evict(s, l) ==
  [x \in Address |-> IF DirtyOver(s, l, x) THEN ByteOver(s, l, x) ELSE next_memory[x]]

\* load_cache_line for address a, from the next level as it is then.
Loaded(memory, a) ==
  [valid |-> TRUE, dirty |-> FALSE, tag |-> Tag(a),
   block |-> [o \in Offsets |-> memory[block_start_from_address(a) + o]]]

\* A sequence in the order of use once x, which it may hold already, has been used.
Used(seq, x) ==
  IF \E j \in 1 .. Len(seq) : seq[j] = x
  THEN LET j == CHOOSE j \in 1 .. Len(seq) : seq[j] = x
       IN  Append(SubSeq(seq, 1, j - 1) \o SubSeq(seq, j + 1, Len(seq)), x)
  ELSE Append(seq, x)

\* resolve_cache_access: line l of the set of a now is `line' and holds a; the access
\* then leaves it as `after', as the one most recently used.
Leave(a, l, after) ==
  LET s == SetNo(a) IN
  /\ lines' = [lines EXCEPT ![s] = [@ EXCEPT ![l] = after]]
  /\ uses' = [uses EXCEPT ![s] = Used(@, l)]
  /\ recent' = [recent EXCEPT ![s] = Used(@, Tag(a))]

Read(a, l, line) == Leave(a, l, line) /\ result' = line.block[Offset(a)]

Write(a, b, l, line) ==
  /\ Leave(a, l, [valid |-> line.valid, dirty |-> TRUE, tag |-> line.tag,
                  block |-> [line.block EXCEPT ![Offset(a)] = b]])
  /\ UNCHANGED result

\* cache_read_byte
ReadHit(a, l) ==
  /\ Found(SetNo(a), l, Tag(a))
  /\ Read(a, l, lines[SetNo(a)][l])
  /\ UNCHANGED next_memory

ReadMiss(a, l) ==
  /\ Missing(SetNo(a), Tag(a))
  /\ Victim(SetNo(a), l)
  /\ next_memory' = evict(SetNo(a), l)
  /\ Read(a, l, Loaded(evict(SetNo(a), l), a))

\* cache_write_byte
WriteHit(a, b, l) ==
  /\ Found(SetNo(a), l, Tag(a))
  /\ Write(a, b, l, lines[SetNo(a)][l])
  /\ UNCHANGED next_memory

WriteMiss(a, b, l) ==
  /\ Missing(SetNo(a), Tag(a))
  /\ Victim(SetNo(a), l)
  /\ next_memory' = evict(SetNo(a), l)
  /\ Write(a, b, l, Loaded(evict(SetNo(a), l), a))

\* The line that flush_cache writes over address x: the last one, were there several.
DirtyLines(x) == {w \in Sets \X Lines : DirtyOver(w[1], w[2], x)}
LastOver(x) == CHOOSE w \in DirtyLines(x) :
  \A v \in DirtyLines(x) : v[1] < w[1] \/ (v[1] = w[1] /\ v[2] <= w[2])

\* flush_cache: the dirty lines are written out, and stay dirty.
Flush ==
  /\ next_memory' = [x \in Address |->
       IF DirtyLines(x) # {} THEN ByteOver(LastOver(x)[1], LastOver(x)[2], x)
                             ELSE next_memory[x]]
  /\ UNCHANGED <<lines, uses, result, recent>>

Next ==
  \/ \E l \in Lines :
       \/ \E a \in Address : ReadHit(a, l) \/ ReadMiss(a, l)
       \/ \E w \in Writes : WriteHit(w[1], w[2], l) \/ WriteMiss(w[1], w[2], l)
  \/ Flush

Spec == Init /\ [][Next]_vars

-----------------------------------------------------------------------------
\* A block is in at most one line (cache.c:340 takes the first it finds): a second
\* copy would miss the writes to the first.
OneCopy ==
  \A s \in Sets : \A k, l \in Lines :
    lines[s][k].valid /\ Holds(s, l, lines[s][k].tag) => k = l

\* A line that evict_cache_line may drop without writing it back (cache.c:424) is
\* the same as the next level's copy.
CleanCurrent ==
  \A s \in Sets : \A l \in Lines : \A o \in Offsets :
    lines[s][l].valid /\ ~lines[s][l].dirty =>
      lines[s][l].block[o] = next_memory[block_start_from_line_info(lines[s][l].tag, s) + o]

\* The policy is LRU (cache.c:14 and 381): a set holds exactly the LinesPerSet
\* blocks of it that were used last, by a read or by a write, whatever came before.
MostRecentKept ==
  \A s \in Sets :
    {lines[s][l].tag : l \in {k \in Lines : lines[s][k].valid}}
      = {recent[s][j] : j \in {k \in 1 .. Len(recent[s]) : k > Len(recent[s]) - LinesPerSet}}

\* What the user of the cache sees at address x.
Seen(x) ==
  IF Missing(SetNo(x), Tag(x)) THEN next_memory[x]
  ELSE lines[SetNo(x)][CHOOSE l \in Lines : Holds(SetNo(x), l, Tag(x))].block[Offset(x)]

view == [x \in Address |-> Seen(x)]

\* testmem.c:47: after flush_cache "all modified data in the cache is properly
\* reflected in the next level" (cache.c:204), and nothing else is changed.
FlushComplete == [][Flush => next_memory' = view]_vars

\* Through any evictions and flushes the cache is a memory: what is read at an
\* address is what was last written there (cache.c:112 and 136).
Flat == INSTANCE FlatMemory WITH bytes <- view
ImplementsMemory == Flat!Spec
=============================================================================
