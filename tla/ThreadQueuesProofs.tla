------------------------- MODULE ThreadQueuesProofs -------------------------
(***************************************************************************)
(* What the queue operations of sthread.c do to lists, for any number of   *)
(* threads: while no thread is on two queues, queue_append, queue_take and *)
(* queue_remove are appending, taking the head and taking out, and touch   *)
(* no other queue; and what Chain reads off the links is the list.         *)
(***************************************************************************)
EXTENDS ThreadQueues, Integers, FiniteSetTheorems, WellFoundedInduction, TLAPS

\* The queue operations keep the links well typed, even links that are wrong:
\* a damaged list is still made of threads and nulls.
LEMMA AppendType ==
  ASSUME NEW L \in Links, NEW q \in Queue, NEW t \in Thread
  PROVE  queue_append(L, q, t) \in Links
<1>1. CASE queue_empty(L, q)
  BY <1>1 DEF queue_append, Links, Pointer
<1>2. CASE ~queue_empty(L, q)
  <2>1. L.tail[q] \in Pointer
    BY DEF Links
  <2>2. QED
    BY <1>2, <2>1 DEF queue_append, Links, Pointer
<1>3. QED
  BY <1>1, <1>2

LEMMA TakeType ==
  ASSUME NEW L \in Links, NEW q \in Queue
  PROVE  queue_take(L, q) \in Links
<1>1. CASE queue_empty(L, q)
  BY <1>1 DEF queue_take
<1>2. CASE ~queue_empty(L, q)
  <2>1. L.head[q] \in Thread
    BY <1>2 DEF Links, Pointer, queue_empty
  <2>2. L.next[L.head[q]] \in Pointer
    BY <2>1 DEF Links
  <2>3. QED
    BY <1>2, <2>1, <2>2 DEF queue_take, Links, Pointer
<1>3. QED
  BY <1>1, <1>2

LEMMA RemoveType ==
  ASSUME NEW L \in Links, NEW q \in Queue, NEW t \in Thread
  PROVE  queue_remove(L, q, t) \in Links
<1>1. L.next[t] \in Pointer /\ L.prev[t] \in Pointer
  BY DEF Links
<1>2. QED
  BY <1>1 DEF queue_remove, Links, Pointer

-----------------------------------------------------------------------------
(* Queues that are lists.                                                  *)

In(s) == {s[k] : k \in 1 .. Len(s)}

Distinct(s) == \A j, k \in 1 .. Len(s) : s[j] = s[k] => j = k

\* Queue q of the links L is the list of the threads of s: next leads through them
\* from head to tail, prev leads back, and both end at a null.
Listed(L, q, s) ==
  /\ s \in Seq(Thread) /\ Distinct(s)
  /\ s = <<>> => L.head[q] = NULL
  /\ s # <<>> => L.head[q] = s[1] /\ L.tail[q] = s[Len(s)]
  /\ \A k \in 1 .. Len(s) :
       /\ L.next[s[k]] = IF k = Len(s) THEN NULL ELSE s[k + 1]
       /\ L.prev[s[k]] = IF k = 1 THEN NULL ELSE s[k - 1]

\* The list without its k-th thread.
Without(s, k) == [j \in 1 .. Len(s) - 1 |-> IF j < k THEN s[j] ELSE s[j + 1]]

\* Two sequences of one length with the same elements are equal.
LEMMA EqualSeqs ==
  ASSUME NEW S, NEW s \in Seq(S), NEW u \in Seq(S), Len(s) = Len(u),
         \A k \in 1 .. Len(s) : s[k] = u[k]
  PROVE  s = u
OBVIOUS

LEMMA AppendElements ==
  ASSUME NEW S, NEW s \in Seq(S), NEW t \in S
  PROVE  /\ Append(s, t) \in Seq(S) /\ Len(Append(s, t)) = Len(s) + 1 /\ Append(s, t) # <<>>
         /\ \A k \in 1 .. Len(s) : Append(s, t)[k] = s[k]
         /\ Append(s, t)[Len(s) + 1] = t
         /\ In(Append(s, t)) = In(s) \cup {t}
         /\ Distinct(s) /\ t \notin In(s) => Distinct(Append(s, t))
<1>1. /\ Append(s, t) \in Seq(S) /\ Len(Append(s, t)) = Len(s) + 1 /\ Append(s, t) # <<>>
      /\ \A k \in 1 .. Len(s) : Append(s, t)[k] = s[k]
      /\ Append(s, t)[Len(s) + 1] = t
  OBVIOUS
<1>2. Len(s) \in Nat
  OBVIOUS
<1> DEFINE a == Append(s, t)
<1> HIDE DEF a
<1>3. /\ Len(a) = Len(s) + 1 /\ \A k \in 1 .. Len(s) : a[k] = s[k]
      /\ a[Len(s) + 1] = t
  BY <1>1 DEF a
<1>4. In(a) = In(s) \cup {t}
  BY <1>2, <1>3 DEF In
<1>5. Distinct(s) /\ t \notin In(s) => Distinct(a)
  BY <1>2, <1>3 DEF Distinct, In
<1> QED
  BY <1>1, <1>4, <1>5 DEF a

LEMMA TailElements ==
  ASSUME NEW S, NEW s \in Seq(S), s # <<>>
  PROVE  /\ Tail(s) \in Seq(S) /\ Len(Tail(s)) = Len(s) - 1 /\ Len(s) \in Nat \ {0}
         /\ \A k \in 1 .. Len(s) - 1 : Tail(s)[k] = s[k + 1]
         /\ Distinct(s) => Distinct(Tail(s)) /\ In(Tail(s)) = In(s) \ {s[1]}
         /\ s[1] \in In(s) /\ Head(s) = s[1]
<1>1. /\ Tail(s) \in Seq(S) /\ Len(Tail(s)) = Len(s) - 1 /\ Len(s) \in Nat \ {0}
      /\ \A k \in 1 .. Len(s) - 1 : Tail(s)[k] = s[k + 1]
      /\ Head(s) = s[1]
  OBVIOUS
<1> DEFINE a == Tail(s)
<1> HIDE DEF a
<1>2. /\ Len(a) = Len(s) - 1 /\ \A k \in 1 .. Len(s) - 1 : a[k] = s[k + 1]
  BY <1>1 DEF a
<1>3. Distinct(s) => Distinct(a)
  BY <1>1, <1>2 DEF Distinct
<1>4. ASSUME Distinct(s) PROVE In(a) = In(s) \ {s[1]}
  <2>1. ASSUME NEW x \in In(a) PROVE x \in In(s) \ {s[1]}
    <3>1. PICK k \in 1 .. Len(s) - 1 : x = s[k + 1]
      BY <1>1, <1>2 DEF In
    <3>2. k + 1 \in 1 .. Len(s) /\ k + 1 # 1 /\ 1 \in 1 .. Len(s)
      BY <1>1
    <3> QED
      BY <1>4, <3>1, <3>2 DEF Distinct, In
  <2>2. ASSUME NEW x \in In(s) \ {s[1]} PROVE x \in In(a)
    <3>1. PICK k \in 1 .. Len(s) : x = s[k]
      BY DEF In
    <3>2. k - 1 \in 1 .. Len(s) - 1 /\ (k - 1) + 1 = k
      BY <1>1, <3>1
    <3>3. a[k - 1] = x
      BY <1>2, <3>1, <3>2
    <3> QED
      BY <1>2, <3>2, <3>3 DEF In
  <2> QED
    BY <2>1, <2>2
<1>5. s[1] \in In(s)
  BY <1>1 DEF In
<1> QED
  BY <1>1, <1>3, <1>4, <1>5 DEF a

LEMMA WithoutElements ==
  ASSUME NEW S, NEW s \in Seq(S), Distinct(s), NEW k \in 1 .. Len(s)
  PROVE  /\ Without(s, k) \in Seq(S) /\ Len(Without(s, k)) = Len(s) - 1
         /\ Distinct(Without(s, k))
         /\ In(Without(s, k)) = In(s) \ {s[k]}
<1>1. Len(s) \in Nat \ {0} /\ s \in [1 .. Len(s) -> S]
  OBVIOUS
<1> DEFINE a == Without(s, k)
<1>2. /\ a \in Seq(S) /\ Len(a) = Len(s) - 1
      /\ \A j \in 1 .. Len(s) - 1 : a[j] = IF j < k THEN s[j] ELSE s[j + 1]
  BY <1>1 DEF Without
<1> HIDE DEF a
<1>3. Distinct(a)
  BY <1>1, <1>2 DEF Distinct
<1>4. In(a) = In(s) \ {s[k]}
  <2>1. ASSUME NEW x \in In(a) PROVE x \in In(s) \ {s[k]}
    <3>1. PICK j \in 1 .. Len(s) - 1 : x = a[j]
      BY <1>2 DEF In
    <3>2. CASE j < k
      BY <1>1, <1>2, <3>1, <3>2 DEF In, Distinct
    <3>3. CASE ~(j < k)
      <4>1. j + 1 \in 1 .. Len(s) /\ j + 1 # k
        BY <1>1, <3>1, <3>3
      <4> QED
        BY <1>1, <1>2, <3>1, <3>3, <4>1 DEF In, Distinct
    <3> QED
      BY <3>2, <3>3
  <2>2. ASSUME NEW x \in In(s) \ {s[k]} PROVE x \in In(a)
    <3>1. PICK j \in 1 .. Len(s) : x = s[j]
      BY DEF In
    <3>2. CASE j < k
      <4>1. j \in 1 .. Len(s) - 1
        BY <1>1, <3>2
      <4> QED
        BY <1>2, <3>1, <3>2, <4>1 DEF In
    <3>3. CASE ~(j < k)
      <4>1. j - 1 \in 1 .. Len(s) - 1 /\ (j - 1) + 1 = j /\ ~(j - 1 < k)
        BY <1>1, <3>1, <3>3
      <4>2. a[j - 1] = x
        BY <1>2, <3>1, <4>1
      <4> QED
        BY <1>2, <4>1, <4>2 DEF In
    <3> QED
      BY <3>2, <3>3
  <2> QED
    BY <2>1, <2>2
<1> QED
  BY <1>2, <1>3, <1>4 DEF a

LEMMA ListedFacts ==
  ASSUME NEW L, NEW q, NEW s, Listed(L, q, s)
  PROVE  /\ s \in Seq(Thread) /\ Len(s) \in Nat
         /\ \A k \in 1 .. Len(s) : s[k] \in Thread /\ s[k] # NULL /\ s[k] \in In(s)
         /\ \A j, k \in 1 .. Len(s) : s[j] = s[k] => j = k
         /\ s # <<>> => /\ Len(s) > 0 /\ L.head[q] = s[1] /\ L.tail[q] = s[Len(s)]
                        /\ L.head[q] # NULL /\ L.tail[q] # NULL
         /\ s = <<>> <=> L.head[q] = NULL
<1>1. s \in Seq(Thread) /\ Len(s) \in Nat
  BY DEF Listed
<1>2. \A k \in 1 .. Len(s) : s[k] \in Thread /\ s[k] # NULL
  BY <1>1, QueueAssumption
<1>3. \A k \in 1 .. Len(s) : s[k] \in In(s)
  BY DEF In
<1>4. \A j, k \in 1 .. Len(s) : s[j] = s[k] => j = k
  BY DEF Listed, Distinct
<1>5. CASE s = <<>>
  BY <1>1, <1>2, <1>3, <1>4, <1>5 DEF Listed
<1>6. CASE s # <<>>
  <2>1. Len(s) > 0 /\ 1 \in 1 .. Len(s) /\ Len(s) \in 1 .. Len(s)
    BY <1>1, <1>6
  <2>2. L.head[q] = s[1] /\ L.tail[q] = s[Len(s)]
    BY <1>6 DEF Listed
  <2> QED
    BY <1>1, <1>2, <1>3, <1>4, <1>6, <2>1, <2>2
<1> QED
  BY <1>5, <1>6

\* queue_append of a thread that is on no queue.
LEMMA AppendListed ==
  ASSUME NEW L \in Links, NEW q \in Queue, NEW s, Listed(L, q, s), NEW t \in Thread \ In(s)
  PROVE  /\ Listed(queue_append(L, q, t), q, Append(s, t))
         /\ ~append_faults(L, q)
<1> DEFINE M == queue_append(L, q, t)
           u == Append(s, t)
           n == Len(s)
<1>1. /\ s \in Seq(Thread) /\ n \in Nat /\ Distinct(s)
      /\ \A k \in 1 .. n : s[k] \in Thread /\ s[k] # NULL /\ s[k] # t
      /\ \A j, k \in 1 .. n : s[j] = s[k] => j = k
  <2>1. Distinct(s)
    BY DEF Listed
  <2> QED
    BY <2>1, ListedFacts
<1>2. /\ u \in Seq(Thread) /\ Len(u) = n + 1 /\ u # <<>> /\ Distinct(u)
      /\ \A k \in 1 .. n : u[k] = s[k]
      /\ u[n + 1] = t
  BY <1>1, AppendElements
<1>3. CASE s = <<>>
  <2>1. queue_empty(L, q) /\ n = 0
    BY <1>3, ListedFacts DEF queue_empty
  <2>2. /\ M.head[q] = t /\ M.tail[q] = t /\ M.next[t] = NULL /\ M.prev[t] = NULL
    BY <2>1 DEF queue_append, Links
  <2> HIDE DEF M, u, n
  <2>3. Listed(M, q, u)
    BY <1>2, <2>1, <2>2 DEF Listed
  <2> QED
    BY <2>1, <2>3 DEF append_faults, M, u
<1>4. CASE s # <<>>
  <2>1. /\ ~queue_empty(L, q) /\ L.head[q] = s[1] /\ L.tail[q] = s[n] /\ n \in 1 .. n
        /\ L.tail[q] # NULL /\ 1 \in 1 .. n
    BY <1>1, <1>4, ListedFacts DEF queue_empty
  <2>2. /\ M.head[q] = s[1] /\ M.tail[q] = t
        /\ M.prev = [L.prev EXCEPT ![t] = s[n]]
        /\ M.next = [x \in Thread |-> IF x = t THEN NULL ELSE IF x = s[n] THEN t ELSE L.next[x]]
    BY <2>1 DEF queue_append, Links
  <2>3. /\ M.next[t] = NULL /\ M.prev[t] = s[n]
        /\ \A k \in 1 .. n : /\ M.next[s[k]] = IF k = n THEN t ELSE s[k + 1]
                             /\ M.prev[s[k]] = IF k = 1 THEN NULL ELSE s[k - 1]
    <3>1. M.next[t] = NULL /\ M.prev[t] = s[n]
      BY <2>2 DEF Links
    <3>2. ASSUME NEW k \in 1 .. n
          PROVE  M.next[s[k]] = IF k = n THEN t ELSE s[k + 1]
      <4>1. s[k] \in Thread /\ s[k] # t /\ (s[k] = s[n] <=> k = n)
        BY <1>1, <2>1
      <4>2. M.next[s[k]] = IF s[k] = s[n] THEN t ELSE L.next[s[k]]
        BY <2>2, <4>1
      <4> QED
        BY <4>1, <4>2 DEF Listed
    <3>3. ASSUME NEW k \in 1 .. n
          PROVE  M.prev[s[k]] = IF k = 1 THEN NULL ELSE s[k - 1]
      <4>1. s[k] \in Thread /\ s[k] # t
        BY <1>1
      <4>2. M.prev[s[k]] = L.prev[s[k]]
        BY <2>2, <4>1 DEF Links
      <4> QED
        BY <4>2 DEF Listed
    <3> QED
      BY <3>1, <3>2, <3>3
  <2> HIDE DEF M, u, n
  <2>4. \A k \in 1 .. n + 1 : /\ M.next[u[k]] = IF k = n + 1 THEN NULL ELSE u[k + 1]
                              /\ M.prev[u[k]] = IF k = 1 THEN NULL ELSE u[k - 1]
    <3> SUFFICES ASSUME NEW k \in 1 .. n + 1
                 PROVE  /\ M.next[u[k]] = IF k = n + 1 THEN NULL ELSE u[k + 1]
                        /\ M.prev[u[k]] = IF k = 1 THEN NULL ELSE u[k - 1]
      OBVIOUS
    <3>1. CASE k = n + 1
      <4>1. k # 1 /\ k - 1 = n
        BY <1>1, <2>1, <3>1
      <4> QED
        BY <1>2, <2>1, <2>3, <3>1, <4>1
    <3>2. CASE k \in 1 .. n
      <4>1. k # n + 1 /\ u[k] = s[k]
        BY <1>1, <1>2, <3>2
      <4>2. u[k + 1] = IF k = n THEN t ELSE s[k + 1]
        BY <1>1, <1>2, <3>2
      <4>3. k # 1 => u[k - 1] = s[k - 1]
        BY <1>1, <1>2, <3>2
      <4> QED
        BY <2>3, <3>2, <4>1, <4>2, <4>3
    <3> QED
      BY <1>1, <3>1, <3>2
  <2>5. M.head[q] = u[1] /\ M.tail[q] = u[Len(u)]
    BY <1>2, <2>1, <2>2
  <2>6. Listed(M, q, u)
    BY <1>2, <2>4, <2>5 DEF Listed
  <2> QED
    BY <2>1, <2>6 DEF append_faults, M, u
<1> QED
  BY <1>3, <1>4

\* A change of the links of threads that are not on the list, and of another queue's
\* head and tail, leaves the list.
LEMMA ListedElsewhere ==
  ASSUME NEW L, NEW M, NEW q, NEW s, Listed(L, q, s),
         M.head[q] = L.head[q], M.tail[q] = L.tail[q],
         \A x \in In(s) : M.next[x] = L.next[x] /\ M.prev[x] = L.prev[x]
  PROVE  Listed(M, q, s)
<1>1. \A k \in 1 .. Len(s) : s[k] \in In(s)
  BY DEF In
<1> QED
  BY <1>1 DEF Listed

LEMMA AppendElsewhere ==
  ASSUME NEW L \in Links, NEW q \in Queue, NEW s, Listed(L, q, s), NEW t \in Thread,
         NEW r \in Queue \ {q}, NEW u, Listed(L, r, u), t \notin In(u), In(s) \cap In(u) = {}
  PROVE  Listed(queue_append(L, q, t), r, u)
<1> DEFINE M == queue_append(L, q, t)
<1>1. M.head[r] = L.head[r] /\ M.tail[r] = L.tail[r]
  BY DEF queue_append, Links
<1>2. ASSUME NEW x \in In(u) PROVE M.next[x] = L.next[x] /\ M.prev[x] = L.prev[x]
  <2>1. x \in Thread /\ x # t
    BY ListedFacts DEF In
  <2>2. M.prev[x] = L.prev[x]
    BY <2>1 DEF queue_append, Links
  <2>3. CASE queue_empty(L, q)
    BY <2>1, <2>2, <2>3 DEF queue_append, Links
  <2>4. CASE ~queue_empty(L, q)
    <3>1. L.tail[q] \in In(s)
      BY <2>4, ListedFacts DEF queue_empty, In
    <3> QED
      BY <2>1, <2>2, <3>1 DEF queue_append, Links
  <2> QED
    BY <2>3, <2>4
<1> QED
  BY <1>1, <1>2, ListedElsewhere

\* queue_take of a queue with threads on it.
LEMMA TakeListed ==
  ASSUME NEW L \in Links, NEW q \in Queue, NEW s, Listed(L, q, s), s # <<>>
  PROVE  /\ Listed(queue_take(L, q), q, Tail(s))
         /\ L.head[q] = s[1] /\ ~take_faults(L, q)
<1> DEFINE M == queue_take(L, q)
           u == Tail(s)
           n == Len(s)
<1>1. /\ n \in Nat \ {0} /\ Distinct(s) /\ ~queue_empty(L, q)
      /\ L.head[q] = s[1] /\ L.tail[q] = s[n] /\ 1 \in 1 .. n /\ n \in 1 .. n
      /\ \A k \in 1 .. n : s[k] \in Thread /\ s[k] # NULL
      /\ \A j, k \in 1 .. n : s[j] = s[k] => j = k
  <2>1. Distinct(s)
    BY DEF Listed
  <2>2. n \in Nat \ {0}
    BY ListedFacts
  <2> QED
    BY <2>1, <2>2, ListedFacts DEF queue_empty
<1>2. /\ u \in Seq(Thread) /\ Len(u) = n - 1 /\ Distinct(u)
      /\ \A k \in 1 .. n - 1 : u[k] = s[k + 1]
  BY <1>1, TailElements, ListedFacts
<1>3. CASE n = 1
  <2>1. M.head[q] = NULL
    BY <1>1, <1>3 DEF queue_take, Links
  <2> HIDE DEF M, u, n
  <2>2. u = <<>>
    BY <1>2, <1>3
  <2>3. Listed(M, q, u)
    BY <1>2, <1>3, <2>1, <2>2 DEF Listed
  <2> QED
    BY <1>1, <1>3, <2>3 DEF take_faults, M, u
<1>4. CASE n # 1
  <2>1. /\ s[1] # s[n] /\ L.next[s[1]] = s[2] /\ s[2] \in Thread /\ s[2] # NULL
    <3> HIDE DEF n
    <3>0. n \in Nat \ {0}
      BY <1>1
    <3>1. 2 \in 1 .. n /\ 1 \in 1 .. n /\ n \in 1 .. n /\ 1 # n
      BY <3>0, <1>4
    <3>2. L.next[s[1]] = IF 1 = n THEN NULL ELSE s[1 + 1]
      BY <3>1 DEF Listed, n
    <3> QED
      BY <1>1, <3>1, <3>2
  <2>2. /\ M.prev = [x \in Thread |-> IF x = s[2] THEN NULL ELSE L.prev[x]]
        /\ M.next = L.next /\ M.head[q] = s[2] /\ M.tail[q] = s[n]
    BY <1>1, <2>1 DEF queue_take, Links
  <2> HIDE DEF M, u, n
  <2>3. ASSUME NEW k \in 1 .. n - 1
        PROVE  /\ M.next[u[k]] = IF k = n - 1 THEN NULL ELSE u[k + 1]
               /\ M.prev[u[k]] = IF k = 1 THEN NULL ELSE u[k - 1]
    <3>1. /\ u[k] = s[k + 1] /\ k + 1 \in 1 .. n /\ 2 \in 1 .. n
          /\ (k + 1 = n <=> k = n - 1) /\ (k + 1) + 1 = (k + 1) + 1
      BY <1>1, <1>2, <1>4
    <3>2. k # n - 1 => u[k + 1] = s[(k + 1) + 1]
      BY <1>1, <1>2
    <3>3. M.next[u[k]] = IF k + 1 = n THEN NULL ELSE s[(k + 1) + 1]
      BY <2>2, <3>1 DEF Listed, n
    <3>4. CASE k = 1
      BY <1>1, <2>2, <3>1, <3>2, <3>3, <3>4
    <3>5. CASE k # 1
      <4>1. u[k - 1] = s[(k + 1) - 1] /\ (k + 1) # 1 /\ k + 1 # 2 /\ k + 1 # n => (k + 1) + 1 \in 1 .. n
        BY <1>1, <1>2, <3>5
      <4>2. u[k - 1] = s[(k + 1) - 1]
        BY <1>1, <1>2, <3>5
      <4>3. s[k + 1] # s[2]
        BY <1>1, <3>1, <3>5
      <4>4. L.prev[s[k + 1]] = s[(k + 1) - 1]
        BY <3>1, <3>5 DEF Listed, n
      <4> QED
        BY <1>1, <2>2, <3>1, <3>2, <3>3, <3>5, <4>2, <4>3, <4>4
    <3> QED
      BY <3>4, <3>5
  <2>4. u # <<>> /\ M.head[q] = u[1] /\ M.tail[q] = u[n - 1]
    BY <1>1, <1>2, <1>4, <2>2
  <2>5. Listed(M, q, u)
    BY <1>2, <2>3, <2>4 DEF Listed
  <2> QED
    BY <1>1, <2>1, <2>5 DEF take_faults, M, u
<1> QED
  BY <1>3, <1>4

LEMMA TakeElsewhere ==
  ASSUME NEW L \in Links, NEW q \in Queue, NEW s, Listed(L, q, s),
         NEW r \in Queue \ {q}, NEW u, Listed(L, r, u), In(s) \cap In(u) = {}
  PROVE  Listed(queue_take(L, q), r, u)
<1> DEFINE M == queue_take(L, q)
<1>1. CASE s = <<>>
  BY <1>1, ListedFacts DEF queue_take, queue_empty
<1>2. CASE s # <<>>
  <2>1. /\ Len(s) \in Nat \ {0} /\ L.head[q] = s[1] /\ L.tail[q] = s[Len(s)]
        /\ ~queue_empty(L, q)
    BY <1>2, ListedFacts DEF queue_empty
  <2>2. M.head[r] = L.head[r] /\ M.tail[r] = L.tail[r]
    BY DEF queue_take, Links
  <2>3. ASSUME NEW x \in In(u) PROVE M.next[x] = L.next[x] /\ M.prev[x] = L.prev[x]
    <3>1. x \in Thread
      BY ListedFacts DEF In
    <3>2. CASE L.head[q] = L.tail[q]
      BY <2>1, <3>2 DEF queue_take
    <3>3. CASE L.head[q] # L.tail[q]
      <4>1. Len(s) # 1 /\ 2 \in 1 .. Len(s) /\ 1 \in 1 .. Len(s)
        BY <2>1, <3>3
      <4>2. L.next[L.head[q]] = s[2] /\ s[2] \in In(s)
        BY <2>1, <4>1 DEF Listed, In
      <4>3. x # L.next[L.head[q]]
        BY <4>2
      <4> QED
        BY <2>1, <3>1, <3>3, <4>3 DEF queue_take, Links
    <3> QED
      BY <3>2, <3>3
  <2> QED
    BY <2>2, <2>3, ListedElsewhere
<1> QED
  BY <1>1, <1>2

\* queue_remove of any thread of the list.
LEMMA RemoveListed ==
  ASSUME NEW L \in Links, NEW q \in Queue, NEW s, Listed(L, q, s), NEW k \in 1 .. Len(s)
  PROVE  Listed(queue_remove(L, q, s[k]), q, Without(s, k))
<1> DEFINE t == s[k]
           M == queue_remove(L, q, t)
           u == Without(s, k)
           n == Len(s)
           before == IF k = 1 THEN NULL ELSE s[k - 1]
           after == IF k = n THEN NULL ELSE s[k + 1]
<1>1. /\ n \in Nat \ {0} /\ k \in 1 .. n /\ Distinct(s) /\ s \in Seq(Thread)
      /\ \A j \in 1 .. n : s[j] \in Thread /\ s[j] # NULL
      /\ \A j, m \in 1 .. n : s[j] = s[m] => j = m
  <2>1. Distinct(s)
    BY DEF Listed
  <2>2. n \in Nat \ {0}
    BY ListedFacts
  <2> QED
    BY <2>1, <2>2, ListedFacts
<1>2. L.next[t] = after /\ L.prev[t] = before
  BY DEF Listed
<1>3. L.head[q] = s[1] /\ L.tail[q] = s[n] /\ 1 \in 1 .. n /\ n \in 1 .. n
  BY <1>1, ListedFacts
<1>4. /\ M.next = [x \in Thread |-> IF x = before THEN after ELSE L.next[x]]
      /\ M.prev = [x \in Thread |-> IF x = after THEN before ELSE L.prev[x]]
      /\ M.head[q] = (IF s[1] = t THEN after ELSE s[1])
      /\ M.tail[q] = (IF s[n] = t THEN before ELSE s[n])
  BY <1>2, <1>3 DEF queue_remove, Links
<1>5. /\ u \in Seq(Thread) /\ Len(u) = n - 1 /\ Distinct(u)
  BY <1>1, WithoutElements
<1>6. \A j \in 1 .. n - 1 : u[j] = IF j < k THEN s[j] ELSE s[j + 1]
  BY DEF Without
<1>7. \A j \in 1 .. n : /\ L.next[s[j]] = IF j = n THEN NULL ELSE s[j + 1]
                        /\ L.prev[s[j]] = IF j = 1 THEN NULL ELSE s[j - 1]
  BY DEF Listed
<1> HIDE DEF M, u, n
<1>8. ASSUME NEW j \in 1 .. n - 1
      PROVE  /\ M.next[u[j]] = IF j = n - 1 THEN NULL ELSE u[j + 1]
             /\ M.prev[u[j]] = IF j = 1 THEN NULL ELSE u[j - 1]
  <2>1. CASE j < k
    <3>1. u[j] = s[j] /\ j \in 1 .. n /\ j # n
      BY <1>1, <1>6, <2>1
    <3>2. M.next[u[j]] = IF j = n - 1 THEN NULL ELSE u[j + 1]
      <4>1. CASE j = k - 1
        <5>1. before = s[j]
          BY <1>1, <4>1
        <5>2. M.next[u[j]] = after
          BY <1>1, <1>4, <3>1, <5>1
        <5>3. k # n => j # n - 1 /\ u[j + 1] = s[k + 1]
          BY <1>1, <1>6, <4>1
        <5>4. k = n => j = n - 1
          BY <1>1, <4>1
        <5> QED
          BY <5>2, <5>3, <5>4
      <4>2. CASE j # k - 1
        <5>1. s[j] # before
          BY <1>1, <3>1, <4>2
        <5>2. M.next[u[j]] = s[j + 1]
          <6>1. M.next[s[j]] = L.next[s[j]]
            BY <1>1, <1>4, <3>1, <5>1
          <6> QED
            BY <1>7, <3>1, <6>1
        <5>3. j # n - 1 /\ u[j + 1] = s[j + 1]
          BY <1>1, <1>6, <2>1, <4>2
        <5> QED
          BY <5>2, <5>3
      <4> QED
        BY <4>1, <4>2
    <3>3. s[j] # after
      BY <1>1, <2>1, <3>1
    <3>4. M.prev[u[j]] = IF j = 1 THEN NULL ELSE s[j - 1]
      BY <1>1, <1>4, <1>7, <3>1, <3>3
    <3>5. j # 1 => u[j - 1] = s[j - 1]
      BY <1>1, <1>6, <2>1
    <3> QED
      BY <3>2, <3>4, <3>5
  <2>2. CASE ~(j < k)
    <3>1. u[j] = s[j + 1] /\ j + 1 \in 1 .. n /\ j + 1 # k
      BY <1>1, <1>6, <2>2
    <3>2. s[j + 1] # before
      BY <1>1, <2>2, <3>1
    <3>3. M.next[u[j]] = IF j + 1 = n THEN NULL ELSE s[(j + 1) + 1]
      <4>1. M.next[s[j + 1]] = L.next[s[j + 1]]
        BY <1>1, <1>4, <3>1, <3>2
      <4> QED
        BY <1>7, <3>1, <4>1
    <3>4. (j + 1 = n <=> j = n - 1) /\ (j # n - 1 => u[j + 1] = s[(j + 1) + 1])
      <4>1. j + 1 = n <=> j = n - 1
        BY <1>1
      <4>2. j # n - 1 => j + 1 \in 1 .. n - 1 /\ ~(j + 1 < k)
        BY <1>1, <2>2
      <4> QED
        BY <1>6, <4>1, <4>2
    <3>5. M.prev[u[j]] = IF j = 1 THEN NULL ELSE u[j - 1]
      <4>1. CASE j = k
        <5>1. after = s[j + 1]
          BY <1>1, <3>1, <4>1
        <5>2. M.prev[u[j]] = before
          BY <1>1, <1>4, <3>1, <5>1
        <5>3. j # 1 => u[j - 1] = s[k - 1]
          BY <1>1, <1>6, <4>1
        <5> QED
          BY <4>1, <5>2, <5>3
      <4>2. CASE j # k
        <5>1. s[j + 1] # after
          BY <1>1, <3>1, <4>2
        <5>2. (j + 1) - 1 = j /\ j + 1 # 1 /\ j # 1
          BY <1>1, <2>2, <4>2
        <5>3. L.prev[s[j + 1]] = s[j]
          BY <1>7, <3>1, <5>2
        <5>4. M.prev[u[j]] = s[j]
          BY <1>1, <1>4, <3>1, <5>1, <5>3
        <5>5. j - 1 \in 1 .. n - 1 /\ ~(j - 1 < k) /\ (j - 1) + 1 = j
          BY <1>1, <2>2, <4>2
        <5>6. u[j - 1] = s[j]
          BY <1>6, <5>5
        <5> QED
          BY <5>2, <5>4, <5>6
      <4> QED
        BY <4>1, <4>2
    <3> QED
      BY <3>3, <3>4, <3>5
  <2> QED
    BY <1>1, <2>1, <2>2
<1>9. u = <<>> => M.head[q] = NULL
  <2>1. u = <<>> => n = 1 /\ k = 1
    BY <1>1, <1>5
  <2> QED
    BY <1>4, <2>1 DEF n
<1>10. u # <<>> => M.head[q] = u[1] /\ M.tail[q] = u[n - 1]
  <2> SUFFICES ASSUME u # <<>> PROVE M.head[q] = u[1] /\ M.tail[q] = u[n - 1]
    OBVIOUS
  <2>1. n - 1 \in Nat \ {0} /\ 1 \in 1 .. n - 1 /\ n - 1 \in 1 .. n - 1
    BY <1>1, <1>5
  <2>2. M.head[q] = u[1]
    <3>1. CASE k = 1
      BY <1>1, <1>4, <1>6, <2>1, <3>1
    <3>2. CASE k # 1
      <4>1. s[1] # t /\ u[1] = s[1]
        BY <1>1, <1>3, <1>6, <2>1, <3>2
      <4> QED
        BY <1>4, <4>1
    <3> QED
      BY <3>1, <3>2
  <2>3. M.tail[q] = u[n - 1]
    <3>1. CASE k = n
      <4>1. before = s[n - 1] /\ u[n - 1] = s[n - 1]
        BY <1>1, <1>6, <2>1, <3>1
      <4> QED
        BY <1>1, <1>4, <3>1, <4>1
    <3>2. CASE k # n
      <4>1. s[n] # t /\ u[n - 1] = s[n]
        BY <1>1, <1>3, <1>6, <2>1, <3>2
      <4> QED
        BY <1>4, <4>1
    <3> QED
      BY <3>1, <3>2
  <2> QED
    BY <2>2, <2>3
<1>11. Listed(M, q, u)
  BY <1>5, <1>8, <1>9, <1>10 DEF Listed
<1> QED
  BY <1>11 DEF M, u

\* The tail of a list is one of its threads, and so are the links of each of them.
LEMMA TailIn ==
  ASSUME NEW L, NEW q, NEW s, Listed(L, q, s), ~queue_empty(L, q)
  PROVE  L.tail[q] \in In(s)
<1>1. s # <<>>
  BY DEF Listed, queue_empty
<1>2. Len(s) \in 1 .. Len(s)
  BY <1>1, ListedFacts
<1> QED
  BY <1>1, <1>2, ListedFacts

LEMMA LinksIn ==
  ASSUME NEW L, NEW q, NEW s, Listed(L, q, s), NEW t \in In(s)
  PROVE  L.next[t] \in In(s) \cup {NULL} /\ L.prev[t] \in In(s) \cup {NULL}
<1>1. PICK k \in 1 .. Len(s) : t = s[k]
  BY DEF In
<1>2. /\ L.next[t] = IF k = Len(s) THEN NULL ELSE s[k + 1]
      /\ L.prev[t] = IF k = 1 THEN NULL ELSE s[k - 1]
  BY <1>1 DEF Listed
<1>3. /\ k # Len(s) => k + 1 \in 1 .. Len(s)
      /\ k # 1 => k - 1 \in 1 .. Len(s)
  BY ListedFacts
<1> QED
  BY <1>2, <1>3 DEF In

LEMMA RemoveElsewhere ==
  ASSUME NEW L \in Links, NEW q \in Queue, NEW s, Listed(L, q, s), NEW t \in In(s),
         NEW r \in Queue \ {q}, NEW u, Listed(L, r, u), In(s) \cap In(u) = {}
  PROVE  Listed(queue_remove(L, q, t), r, u)
<1> DEFINE M == queue_remove(L, q, t)
<1>2. M.head[r] = L.head[r] /\ M.tail[r] = L.tail[r]
  BY DEF queue_remove, Links
<1>3. L.next[t] \in In(s) \cup {NULL} /\ L.prev[t] \in In(s) \cup {NULL}
  BY LinksIn
<1>4. ASSUME NEW x \in In(u) PROVE M.next[x] = L.next[x] /\ M.prev[x] = L.prev[x]
  <2>1. x \in Thread /\ x # NULL
    BY ListedFacts DEF In
  <2> QED
    BY <1>3, <2>1 DEF queue_remove, Links
<1> QED
  BY <1>2, <1>4, ListedElsewhere

-----------------------------------------------------------------------------
(* What Chain reads off the links of a list.                               *)

\* The least element of a set of natural numbers, with which a counterexample is
\* taken to be the first.
LEMMA LeastNat ==
  ASSUME NEW T \in SUBSET Nat, T # {}
  PROVE  \E n \in T : \A m \in T : n <= m
<1>1. IsWellFoundedOn(OpToRel(<, Nat), Nat)
  BY NatLessThanWellFounded
<1>2. PICK n \in T : \A m \in T : ~(<<m, n>> \in OpToRel(<, Nat))
  BY <1>1, WFMin
<1>3. \A m \in T : ~(m < n)
  BY <1>2 DEF OpToRel
<1> QED
  BY <1>3

\* A list of distinct threads is no longer than there are threads.
LEMMA ListBounded ==
  ASSUME NEW s \in Seq(Thread), Distinct(s)
  PROVE  Len(s) <= Cardinality(Thread) /\ Cardinality(In(s)) = Len(s) /\ Cardinality(Thread) \in Nat
<1>1. s \in Injection(1 .. Len(s), Thread)
  BY DEF Distinct, Injection, IsInjective
<1>2. IsFiniteSet(1 .. Len(s)) /\ Cardinality(1 .. Len(s)) = Len(s)
  <2> DEFINE n == Len(s)
  <2>1. n \in Nat /\ 1 \in Int /\ n \in Int
    OBVIOUS
  <2> HIDE DEF n
  <2>2. IsFiniteSet(1 .. n) /\ Cardinality(1 .. n) = IF 1 > n THEN 0 ELSE n - 1 + 1
    BY <2>1, FS_Interval
  <2>3. (IF 1 > n THEN 0 ELSE n - 1 + 1) = n
    BY <2>1
  <2> QED
    BY <2>2, <2>3 DEF n
<1>3. Len(s) <= Cardinality(Thread)
  BY <1>1, <1>2, FS_Injection, QueueAssumption
<1>4. s \in Bijection(1 .. Len(s), In(s))
  BY DEF Distinct, In, Injection, IsInjective, Surjection, Bijection
<1>5. Cardinality(In(s)) = Len(s)
  <2>1. ExistsBijection(1 .. Len(s), In(s))
    BY <1>4 DEF ExistsBijection
  <2> QED
    BY <1>2, <2>1, FS_Bijection
<1> QED
  BY <1>3, <1>5, FS_CardinalityType, QueueAssumption

\* The walk along a list collects its threads one by one: after n steps it has the
\* first n + 1 of them, and once it has them all it stays as it is.
Walked(s, n) == IF s = <<>> THEN <<>> ELSE IF n + 1 <= Len(s) THEN SubSeq(s, 1, n + 1) ELSE s

\* Chain reads the list off the links.
LEMMA ChainListed ==
  ASSUME NEW L \in Links, NEW q \in Queue, NEW s, Listed(L, q, s)
  PROVE  Chain(L, q) = s
<1> DEFINE C == Cardinality(Thread)
           First == IF queue_empty(L, q) THEN <<>> ELSE <<L.head[q]>>
           Step(sofar) == LET last == sofar[Len(sofar)]
                          IN  IF sofar = <<>> \/ last = L.tail[q] \/ L.next[last] = NULL
                              THEN sofar ELSE Append(sofar, L.next[last])
           f == [n \in 0 .. C |-> Walked(s, n)]
           Rec(w) == w = [n \in 0 .. C |-> IF n = 0 THEN First ELSE Step(w[n - 1])]
<1>1. s \in Seq(Thread) /\ Len(s) <= C /\ C \in Nat /\ Len(s) \in Nat
  BY ListBounded DEF Listed
<1>2. Walked(s, 0) = First
  <2>1. CASE s = <<>>
    BY <2>1 DEF Listed, Walked, queue_empty
  <2>2. CASE s # <<>>
    <3>1. L.head[q] = s[1] /\ s[1] # NULL /\ 1 <= Len(s)
      BY <1>1, <2>2, ListedFacts
    <3> DEFINE a == SubSeq(s, 1, 0 + 1)
               b == <<s[1]>>
    <3>2. a = b
      <4>1. a \in Seq(Thread) /\ Len(a) = 1 /\ a[1] = s[1]
        BY <1>1, <3>1
      <4>2. b \in Seq(Thread) /\ Len(b) = 1 /\ b[1] = s[1]
        BY <1>1, <3>1
      <4> HIDE DEF a, b
      <4> QED
        BY <4>1, <4>2, EqualSeqs
    <3> QED
      BY <2>2, <3>1, <3>2 DEF Walked, queue_empty
  <2> QED
    BY <2>1, <2>2
<1>3. ASSUME NEW n \in 1 .. C PROVE Walked(s, n) = Step(Walked(s, n - 1))
  <2>1. CASE s = <<>>
    BY <2>1 DEF Walked
  <2>2. CASE s # <<>> /\ n <= Len(s)
    <3> DEFINE w == SubSeq(s, 1, n)
    <3>1. n \in 1 .. Len(s) /\ (n - 1) + 1 = n
      BY <1>1, <2>2
    <3>2. w \in Seq(Thread) /\ Len(w) = n /\ w # <<>> /\ w[n] = s[n]
      BY <1>1, <3>1
    <3>3. Walked(s, n - 1) = w
      BY <2>2, <3>1 DEF Walked
    <3>4. L.next[s[n]] = IF n = Len(s) THEN NULL ELSE s[n + 1]
      BY <3>1 DEF Listed
    <3>5. CASE n = Len(s)
      <4>1. Walked(s, n) = s
        <5>1. ~(n + 1 <= Len(s))
          BY <1>1, <3>5
        <5> QED
          BY <2>2, <5>1 DEF Walked
      <4>2. w = s
        <5>1. \A k \in 1 .. Len(w) : w[k] = s[k]
          BY <1>1, <3>1, <3>2
        <5> QED
          BY <1>1, <3>2, <3>5, <5>1, EqualSeqs
      <4> QED
        BY <3>2, <3>3, <3>4, <3>5, <4>1, <4>2
    <3>6. CASE n # Len(s)
      <4>1. n + 1 \in 1 .. Len(s) /\ n + 1 <= Len(s)
        BY <1>1, <3>1, <3>6
      <4>2. Walked(s, n) = SubSeq(s, 1, n + 1)
        BY <2>2, <4>1 DEF Walked
      <4>3. SubSeq(s, 1, n + 1) = Append(w, s[n + 1])
        BY <1>1, <3>1, <4>1
      <4>4. s[n] # L.tail[q] /\ s[n + 1] # NULL
        <5>1. L.tail[q] = s[Len(s)] /\ Len(s) \in 1 .. Len(s)
          BY <2>2, ListedFacts DEF Listed
        <5> QED
          BY <3>1, <3>6, <4>1, <5>1, ListedFacts
      <4> HIDE DEF w
      <4> QED
        BY <3>2, <3>3, <3>4, <3>6, <4>2, <4>3, <4>4
    <3> QED
      BY <3>5, <3>6
  <2>3. CASE s # <<>> /\ ~(n <= Len(s))
    <3>1. Walked(s, n) = s
      BY <1>1, <2>3 DEF Walked
    <3>2. Walked(s, n - 1) = s
      <4>1. CASE (n - 1) + 1 <= Len(s)
        BY <1>1, <2>3, <4>1
      <4> QED
        BY <2>3, <4>1 DEF Walked
    <3>3. L.tail[q] = s[Len(s)]
      BY <2>3 DEF Listed
    <3> QED
      BY <3>1, <3>2, <3>3
  <2> QED
    BY <2>1, <2>2, <2>3
<1> HIDE DEF First, Step
<1>4. Rec(f)
  <2>1. ASSUME NEW n \in 0 .. C PROVE f[n] = IF n = 0 THEN First ELSE Step(f[n - 1])
    <3>1. CASE n = 0
      BY <1>2, <3>1
    <3>2. CASE n # 0
      <4>1. n \in 1 .. C /\ n - 1 \in 0 .. C
        BY <1>1, <3>2
      <4>2. f[n - 1] = Walked(s, n - 1)
        BY <4>1
      <4> QED
        BY <1>3, <3>2, <4>1, <4>2
    <3> QED
      BY <3>1, <3>2
  <2> QED
    BY <2>1
<1>5. ASSUME NEW w, Rec(w) PROVE w = f
  <2> DEFINE T == {n \in 0 .. C : w[n] # f[n]}
  <2>1. T \in SUBSET Nat
    BY <1>1
  <2>2. ASSUME T # {} PROVE FALSE
    <3>1. PICK n \in T : \A m \in T : n <= m
      BY <2>1, <2>2, LeastNat
    <3>2. w[n] = IF n = 0 THEN First ELSE Step(w[n - 1])
      BY <1>5, <3>1
    <3>3. f[n] = IF n = 0 THEN First ELSE Step(f[n - 1])
      BY <1>4, <3>1
    <3>4. n # 0 => n - 1 \in 0 .. C /\ ~(n <= n - 1)
      BY <1>1, <3>1
    <3>5. n # 0 => w[n - 1] = f[n - 1]
      BY <3>1, <3>4
    <3> QED
      BY <3>1, <3>2, <3>3, <3>5
  <2>3. \A n \in 0 .. C : w[n] = f[n]
    BY <2>2
  <2> QED
    BY <1>5, <2>3
<1>6. Chain(L, q) = (CHOOSE w : Rec(w))[C]
  BY DEF Chain, First, Step
<1>7. (CHOOSE w : Rec(w)) = f
  BY <1>4, <1>5
<1>8. Walked(s, C) = s
  <2>1. ~(C + 1 <= Len(s))
    BY <1>1
  <2> QED
    BY <2>1 DEF Walked
<1>9. f[C] = Walked(s, C)
  BY <1>1
<1> QED
  BY <1>6, <1>7, <1>8, <1>9

\* What the definitions about Chain say of a list.
LEMMA ListReads ==
  ASSUME NEW L \in Links, NEW q \in Queue, NEW s, Listed(L, q, s)
  PROVE  /\ Chain(L, q) = s /\ Members(L, q) = In(s)
         /\ WellFormed(L, q) /\ LinkedBack(L, q)
<1>1. Chain(L, q) = s /\ s \in Seq(Thread) /\ DOMAIN s = 1 .. Len(s)
  BY ChainListed DEF Listed
<1>2. Members(L, q) = In(s)
  BY <1>1 DEF Members, In
<1>3. Cardinality(In(s)) = Len(s)
  BY ListBounded DEF Listed
<1>4. WellFormed(L, q)
  BY <1>1, <1>2, <1>3 DEF WellFormed, Listed
<1>5. LinkedBack(L, q)
  BY <1>1 DEF LinkedBack, Listed
<1> QED
  BY <1>1, <1>2, <1>4, <1>5

-----------------------------------------------------------------------------
(* The ready queue and the blocked queue, which share the links.           *)

\* The two queues are the lists r and b, and no thread is on both.
Lists(L, r, b) ==
  /\ L \in Links
  /\ Listed(L, "ready", r) /\ Listed(L, "blocked", b)
  /\ In(r) \cap In(b) = {}

LEMMA NoLists == Lists(NoLinks, <<>>, <<>>) /\ In(<<>>) = {}
<1>1. NoLinks \in Links
  BY DEF NoLinks, Links, Pointer
<1>2. In(<<>>) = {}
  BY DEF In
<1>3. Listed(NoLinks, "ready", <<>>) /\ Listed(NoLinks, "blocked", <<>>)
  BY QueueAssumption DEF Listed, NoLinks, Distinct
<1> QED
  BY <1>1, <1>2, <1>3 DEF Lists

\* What the code tests and reads of the queues.
LEMMA ListsFacts ==
  ASSUME NEW L, NEW r, NEW b, Lists(L, r, b)
  PROVE  /\ L \in Links /\ r \in Seq(Thread) /\ b \in Seq(Thread)
         /\ In(r) \subseteq Thread /\ In(b) \subseteq Thread /\ In(r) \cap In(b) = {}
         /\ queue_empty(L, "ready") <=> r = <<>>
         /\ queue_empty(L, "blocked") <=> b = <<>>
         /\ In(r) = {} <=> r = <<>>
         /\ In(b) = {} <=> b = <<>>
         /\ Chain(L, "ready") = r
         /\ r # <<>> => L.tail["ready"] \in Thread
<1>1. /\ L \in Links /\ Listed(L, "ready", r) /\ Listed(L, "blocked", b)
      /\ r \in Seq(Thread) /\ b \in Seq(Thread)
  BY DEF Lists, Listed
<1>2. ASSUME NEW q, NEW s, Listed(L, q, s)
      PROVE  /\ In(s) \subseteq Thread
             /\ queue_empty(L, q) <=> s = <<>>
             /\ In(s) = {} <=> s = <<>>
  <2>1. In(s) \subseteq Thread
    BY <1>2, ListedFacts DEF In
  <2>2. s = <<>> => In(s) = {} /\ queue_empty(L, q)
    BY <1>2 DEF In, Listed, queue_empty
  <2>3. s # <<>> => In(s) # {} /\ ~queue_empty(L, q)
    <3>1. s # <<>> => 1 \in 1 .. Len(s)
      BY <1>2, ListedFacts
    <3> QED
      BY <1>2, <3>1, ListedFacts DEF queue_empty
  <2> QED
    BY <2>1, <2>2, <2>3
<1>3. r # <<>> => L.tail["ready"] \in Thread
  <2>1. r # <<>> => Len(r) \in 1 .. Len(r)
    BY <1>1, ListedFacts
  <2> QED
    BY <1>1, <2>1, ListedFacts
<1>4. Chain(L, "ready") = r
  BY <1>1, ListReads, QueueAssumption
<1>5. In(r) \cap In(b) = {}
  BY DEF Lists
<1> QED
  BY <1>1, <1>2, <1>3, <1>4, <1>5

\* What QueuesExact says of the queues.
LEMMA ListsExact ==
  ASSUME NEW L, NEW r, NEW b, Lists(L, r, b)
  PROVE  /\ WellFormed(L, "ready") /\ Members(L, "ready") = In(r)
         /\ WellFormed(L, "blocked") /\ LinkedBack(L, "blocked")
         /\ Members(L, "blocked") = In(b)
BY ListReads, QueueAssumption DEF Lists

LEMMA AppendLists ==
  ASSUME NEW L, NEW r, NEW b, Lists(L, r, b), NEW t \in Thread \ (In(r) \cup In(b))
  PROVE  /\ Lists(queue_append(L, "ready", t), Append(r, t), b)
         /\ In(Append(r, t)) = In(r) \cup {t}
         /\ Lists(queue_append(L, "blocked", t), r, Append(b, t))
         /\ In(Append(b, t)) = In(b) \cup {t}
         /\ ~append_faults(L, "ready") /\ ~append_faults(L, "blocked")
<1>1. /\ L \in Links /\ Listed(L, "ready", r) /\ Listed(L, "blocked", b)
      /\ r \in Seq(Thread) /\ b \in Seq(Thread) /\ In(r) \cap In(b) = {}
      /\ "ready" \in Queue /\ "blocked" \in Queue
  BY QueueAssumption DEF Lists, Listed
<1>2. /\ Listed(queue_append(L, "ready", t), "ready", Append(r, t))
      /\ Listed(queue_append(L, "blocked", t), "blocked", Append(b, t))
      /\ ~append_faults(L, "ready") /\ ~append_faults(L, "blocked")
  BY <1>1, AppendListed
<1>3. /\ Listed(queue_append(L, "ready", t), "blocked", b)
      /\ Listed(queue_append(L, "blocked", t), "ready", r)
  BY <1>1, AppendElsewhere
<1>4. In(Append(r, t)) = In(r) \cup {t} /\ In(Append(b, t)) = In(b) \cup {t}
  BY <1>1, AppendElements
<1>5. queue_append(L, "ready", t) \in Links /\ queue_append(L, "blocked", t) \in Links
  BY <1>1, AppendType
<1> QED
  BY <1>1, <1>2, <1>3, <1>4, <1>5 DEF Lists

LEMMA TakeLists ==
  ASSUME NEW L, NEW r, NEW b, Lists(L, r, b)
  PROVE  /\ ~take_faults(L, "ready")
         /\ r = <<>> => L.head["ready"] = NULL /\ queue_take(L, "ready") = L
         /\ r # <<>> =>
              /\ L.head["ready"] = Head(r) /\ Head(r) \in In(r)
              /\ Lists(queue_take(L, "ready"), Tail(r), b)
              /\ In(Tail(r)) = In(r) \ {Head(r)}
              /\ r = <<Head(r)>> \o Tail(r)
<1>1. /\ L \in Links /\ Listed(L, "ready", r) /\ Listed(L, "blocked", b)
      /\ r \in Seq(Thread) /\ In(r) \cap In(b) = {} /\ Distinct(r)
      /\ "ready" \in Queue /\ "blocked" \in Queue
  BY QueueAssumption DEF Lists, Listed
<1>2. CASE r = <<>>
  <2>1. L.head["ready"] = NULL
    BY <1>1, <1>2 DEF Listed
  <2> QED
    BY <1>2, <2>1 DEF queue_take, take_faults, queue_empty
<1>3. CASE r # <<>>
  <2>1. Listed(queue_take(L, "ready"), "ready", Tail(r)) /\ L.head["ready"] = r[1]
        /\ ~take_faults(L, "ready")
    BY <1>1, <1>3, TakeListed
  <2>2. Listed(queue_take(L, "ready"), "blocked", b)
    BY <1>1, TakeElsewhere
  <2>3. In(Tail(r)) = In(r) \ {r[1]} /\ r[1] \in In(r) /\ Head(r) = r[1]
    BY <1>1, <1>3, TailElements
  <2>4. queue_take(L, "ready") \in Links
    BY <1>1, TakeType
  <2>5. r = <<Head(r)>> \o Tail(r)
    BY <1>1, <1>3
  <2> QED
    BY <1>1, <1>3, <2>1, <2>2, <2>3, <2>4, <2>5 DEF Lists
<1> QED
  BY <1>2, <1>3

LEMMA RemoveLists ==
  ASSUME NEW L, NEW r, NEW b, Lists(L, r, b), NEW t \in In(b)
  PROVE  \E u : Lists(queue_remove(L, "blocked", t), r, u) /\ In(u) = In(b) \ {t}
<1>1. /\ L \in Links /\ Listed(L, "ready", r) /\ Listed(L, "blocked", b)
      /\ b \in Seq(Thread) /\ In(r) \cap In(b) = {} /\ Distinct(b)
      /\ "ready" \in Queue /\ "blocked" \in Queue
  BY QueueAssumption DEF Lists, Listed
<1>2. PICK k \in 1 .. Len(b) : t = b[k]
  BY DEF In
<1> DEFINE u == Without(b, k)
<1>3. Listed(queue_remove(L, "blocked", t), "blocked", u)
  BY <1>1, <1>2, RemoveListed
<1>4. Listed(queue_remove(L, "blocked", t), "ready", r)
  BY <1>1, RemoveElsewhere
<1>5. In(u) = In(b) \ {t}
  BY <1>1, <1>2, WithoutElements
<1>6. t \in Thread
  BY <1>1, <1>2, ListedFacts
<1>7. queue_remove(L, "blocked", t) \in Links
  BY <1>1, <1>6, RemoveType
<1>8. Lists(queue_remove(L, "blocked", t), r, u)
  BY <1>1, <1>3, <1>4, <1>5, <1>7 DEF Lists
<1> QED
  BY <1>5, <1>8

-----------------------------------------------------------------------------
(* The queues and the states of the threads.                               *)

\* The links of these threads are null, as those of a new thread.
Nulled(L, new) == \A u \in new : L.next[u] = NULL /\ L.prev[u] = NULL

\* The links L hold the threads that are Ready, and those that are Blocked, when st
\* are the states of the threads, and nothing has been written to a new one.
Hold(L, st) ==
  \E r, b \in Seq(Thread) :
    /\ Lists(L, r, b)
    /\ In(r) = {t \in Thread : st[t] = "Ready"}
    /\ In(b) = {t \in Thread : st[t] = "Blocked"}
    /\ Nulled(L, {t \in Thread : st[t] = "Unborn"})

LEMMA HoldAlike ==
  ASSUME NEW L, NEW st, Hold(L, st), NEW ts,
         \A t \in Thread : /\ ts[t] = "Ready" <=> st[t] = "Ready"
                           /\ ts[t] = "Blocked" <=> st[t] = "Blocked"
                           /\ ts[t] = "Unborn" => st[t] = "Unborn"
  PROVE  Hold(L, ts)
<1>1. PICK r, b \in Seq(Thread) :
        /\ Lists(L, r, b)
        /\ In(r) = {t \in Thread : st[t] = "Ready"}
        /\ In(b) = {t \in Thread : st[t] = "Blocked"}
        /\ Nulled(L, {t \in Thread : st[t] = "Unborn"})
  BY DEF Hold
<1>2. In(r) = {t \in Thread : ts[t] = "Ready"} /\ In(b) = {t \in Thread : ts[t] = "Blocked"}
  BY <1>1
<1>3. Nulled(L, {t \in Thread : ts[t] = "Unborn"})
  BY <1>1 DEF Nulled
<1> QED
  BY <1>1, <1>2, <1>3 DEF Hold

\* A thread that is on no queue is put on one.
LEMMA HoldAppend ==
  ASSUME NEW L, NEW S, NEW st \in [Thread -> S], Hold(L, st), "Ready" \in S, "Blocked" \in S,
         NEW u \in Thread, st[u] \notin {"Ready", "Blocked"}
  PROVE  /\ L \in Links
         /\ Hold(queue_append(L, "ready", u), [st EXCEPT ![u] = "Ready"])
         /\ Hold(queue_append(L, "blocked", u), [st EXCEPT ![u] = "Blocked"])
         /\ ~append_faults(L, "ready") /\ ~append_faults(L, "blocked")
         /\ Chain(L, "ready") \in Seq(Thread)
         /\ Chain(queue_append(L, "ready", u), "ready") = Append(Chain(L, "ready"), u)
         /\ Chain(queue_append(L, "blocked", u), "ready") = Chain(L, "ready")
<1>1. PICK r, b \in Seq(Thread) :
        /\ Lists(L, r, b)
        /\ In(r) = {t \in Thread : st[t] = "Ready"}
        /\ In(b) = {t \in Thread : st[t] = "Blocked"}
        /\ Nulled(L, {t \in Thread : st[t] = "Unborn"})
  BY DEF Hold
<1>2. u \in Thread \ (In(r) \cup In(b))
  BY <1>1
<1> DEFINE M == queue_append(L, "ready", u)
           N == queue_append(L, "blocked", u)
           a == Append(r, u)
           d == Append(b, u)
<1>3. /\ Lists(M, a, b) /\ In(a) = In(r) \cup {u}
      /\ Lists(N, r, d) /\ In(d) = In(b) \cup {u}
      /\ ~append_faults(L, "ready") /\ ~append_faults(L, "blocked")
  BY <1>1, <1>2, AppendLists
<1>4. /\ L \in Links /\ Chain(L, "ready") = r /\ Chain(M, "ready") = a /\ Chain(N, "ready") = r
      /\ a \in Seq(Thread) /\ d \in Seq(Thread)
  BY <1>1, <1>3, ListsFacts
<1>5. ASSUME NEW v \in Thread \ {u}, st[v] = "Unborn"
      PROVE  /\ M.next[v] = NULL /\ M.prev[v] = NULL
             /\ N.next[v] = NULL /\ N.prev[v] = NULL
  <2>1. L.next[v] = NULL /\ L.prev[v] = NULL
    BY <1>1, <1>5 DEF Nulled
  <2>2. v \notin In(r) /\ v \notin In(b)
    BY <1>1, <1>5
  <2>3. ~queue_empty(L, "ready") => L.tail["ready"] \in In(r)
    BY <1>1, TailIn DEF Lists
  <2>4. ~queue_empty(L, "blocked") => L.tail["blocked"] \in In(b)
    BY <1>1, TailIn DEF Lists
  <2> QED
    BY <1>4, <2>1, <2>2, <2>3, <2>4 DEF queue_append, Links
<1> HIDE DEF M, N, a, d
<1>6. Hold(M, [st EXCEPT ![u] = "Ready"])
  <2> DEFINE ts == [st EXCEPT ![u] = "Ready"]
  <2>1. In(a) = {t \in Thread : ts[t] = "Ready"} /\ In(b) = {t \in Thread : ts[t] = "Blocked"}
    BY <1>1, <1>2, <1>3
  <2>2. Nulled(M, {t \in Thread : ts[t] = "Unborn"})
    BY <1>5 DEF Nulled
  <2> QED
    BY <1>3, <1>4, <2>1, <2>2 DEF Hold
<1>7. Hold(N, [st EXCEPT ![u] = "Blocked"])
  <2> DEFINE ts == [st EXCEPT ![u] = "Blocked"]
  <2>1. In(r) = {t \in Thread : ts[t] = "Ready"} /\ In(d) = {t \in Thread : ts[t] = "Blocked"}
    BY <1>1, <1>2, <1>3
  <2>2. Nulled(N, {t \in Thread : ts[t] = "Unborn"})
    BY <1>5 DEF Nulled
  <2> QED
    BY <1>3, <1>4, <2>1, <2>2 DEF Hold
<1> QED
  BY <1>3, <1>4, <1>6, <1>7 DEF M, N, a

\* The first of the ready threads is taken to run.
LEMMA HoldTake ==
  ASSUME NEW L, NEW S, NEW st \in [Thread -> S], Hold(L, st), "Running" \in S
  PROVE  LET h == L.head["ready"]
             M == queue_take(L, "ready")
         IN  /\ ~take_faults(L, "ready") /\ L \in Links
             /\ h = NULL <=> Chain(L, "ready") = <<>>
             /\ h = NULL => M = L /\ \A t \in Thread : st[t] # "Ready"
             /\ h # NULL => /\ h \in Thread /\ st[h] = "Ready"
                            /\ Hold(M, [st EXCEPT ![h] = "Running"])
                            /\ Chain(L, "ready") = <<h>> \o Chain(M, "ready")
                            /\ h = Head(Chain(L, "ready"))
                            /\ Chain(M, "ready") = Tail(Chain(L, "ready"))
             /\ queue_empty(L, "blocked") <=> \A t \in Thread : st[t] # "Blocked"
<1> DEFINE h == L.head["ready"]
           M == queue_take(L, "ready")
<1>1. PICK r, b \in Seq(Thread) :
        /\ Lists(L, r, b)
        /\ In(r) = {t \in Thread : st[t] = "Ready"}
        /\ In(b) = {t \in Thread : st[t] = "Blocked"}
        /\ Nulled(L, {t \in Thread : st[t] = "Unborn"})
  BY DEF Hold
<1>2. /\ L \in Links /\ Chain(L, "ready") = r
      /\ In(r) = {} <=> r = <<>>
      /\ In(b) = {} <=> b = <<>>
      /\ queue_empty(L, "ready") <=> r = <<>>
      /\ queue_empty(L, "blocked") <=> b = <<>>
  BY <1>1, ListsFacts
<1>3. queue_empty(L, "blocked") <=> \A t \in Thread : st[t] # "Blocked"
  BY <1>1, <1>2
<1>4. ~take_faults(L, "ready")
  BY <1>1, TakeLists
<1>5. h = NULL <=> r = <<>>
  BY <1>2 DEF queue_empty
<1>6. h = NULL => M = L /\ \A t \in Thread : st[t] # "Ready"
  BY <1>1, <1>2, <1>5, TakeLists
<1>7. ASSUME h # NULL
      PROVE  /\ h \in Thread /\ st[h] = "Ready"
             /\ Hold(M, [st EXCEPT ![h] = "Running"])
             /\ Chain(L, "ready") = <<h>> \o Chain(M, "ready")
             /\ h = Head(Chain(L, "ready"))
             /\ Chain(M, "ready") = Tail(Chain(L, "ready"))
  <2> DEFINE a == Tail(r)
             ts == [st EXCEPT ![h] = "Running"]
  <2>1. /\ h = Head(r) /\ h \in In(r) /\ Lists(M, a, b)
        /\ In(a) = In(r) \ {h} /\ r = <<h>> \o a
    <3>1. r # <<>>
      BY <1>5, <1>7
    <3>2. h = Head(r) /\ Head(r) \in In(r) /\ r = <<Head(r)>> \o a
      BY <1>1, <3>1, TakeLists
    <3>3. Lists(M, a, b) /\ In(a) = In(r) \ {Head(r)}
      BY <1>1, <3>1, TakeLists
    <3> QED
      BY <3>2, <3>3
  <2>2. Chain(M, "ready") = a /\ a \in Seq(Thread)
    BY <2>1, ListsFacts
  <2>3. h \in Thread /\ st[h] = "Ready"
    BY <1>1, <2>1
  <2>4. ASSUME NEW v \in Thread, st[v] = "Unborn" PROVE M.next[v] = NULL /\ M.prev[v] = NULL
    <3>1. L.next[v] = NULL /\ L.prev[v] = NULL
      BY <1>1, <2>4 DEF Nulled
    <3> QED
      BY <1>2, <2>4, <3>1 DEF queue_take, Links
  <2> HIDE DEF M, a, h
  <2>5. In(a) = {t \in Thread : ts[t] = "Ready"} /\ In(b) = {t \in Thread : ts[t] = "Blocked"}
    BY <1>1, <2>1, <2>3
  <2>6. Nulled(M, {t \in Thread : ts[t] = "Unborn"})
    BY <2>3, <2>4 DEF Nulled
  <2>7. Hold(M, ts)
    BY <1>1, <2>1, <2>2, <2>5, <2>6 DEF Hold
  <2> QED
    BY <1>2, <2>1, <2>2, <2>3, <2>7 DEF a
<1> QED
  BY <1>2, <1>3, <1>4, <1>5, <1>6, <1>7

\* A blocked thread goes over to the ready queue.
LEMMA HoldRequeue ==
  ASSUME NEW L, NEW S, NEW st \in [Thread -> S], Hold(L, st), "Ready" \in S,
         NEW u \in Thread, st[u] = "Blocked"
  PROVE  LET M == queue_remove(L, "blocked", u)
         IN  /\ ~append_faults(M, "ready") /\ M \in Links
             /\ Hold(queue_append(M, "ready", u), [st EXCEPT ![u] = "Ready"])
             /\ Chain(L, "ready") \in Seq(Thread)
             /\ Chain(queue_append(M, "ready", u), "ready") = Append(Chain(L, "ready"), u)
<1> DEFINE M == queue_remove(L, "blocked", u)
           N == queue_append(M, "ready", u)
           ts == [st EXCEPT ![u] = "Ready"]
<1>1. PICK r, b \in Seq(Thread) :
        /\ Lists(L, r, b)
        /\ In(r) = {t \in Thread : st[t] = "Ready"}
        /\ In(b) = {t \in Thread : st[t] = "Blocked"}
        /\ Nulled(L, {t \in Thread : st[t] = "Unborn"})
  BY DEF Hold
<1>2. u \in In(b) /\ u \notin In(r)
  BY <1>1
<1>3. PICK d : Lists(M, r, d) /\ In(d) = In(b) \ {u}
  BY <1>1, <1>2, RemoveLists
<1> DEFINE a == Append(r, u)
<1>4. /\ Lists(N, a, d) /\ In(a) = In(r) \cup {u} /\ ~append_faults(M, "ready")
  BY <1>2, <1>3, AppendLists
<1>5. /\ L \in Links /\ M \in Links /\ d \in Seq(Thread) /\ a \in Seq(Thread)
      /\ Chain(L, "ready") = r /\ Chain(N, "ready") = a
  BY <1>1, <1>3, <1>4, ListsFacts
<1>6. ASSUME NEW v \in Thread, st[v] = "Unborn" PROVE N.next[v] = NULL /\ N.prev[v] = NULL
  <2>1. L.next[v] = NULL /\ L.prev[v] = NULL
    BY <1>1, <1>6 DEF Nulled
  <2>2. v \notin In(r) /\ v \notin In(b) /\ v # u
    BY <1>1, <1>6
  <2>3. L.next[u] \in In(b) \cup {NULL} /\ L.prev[u] \in In(b) \cup {NULL}
    BY <1>1, <1>2, LinksIn DEF Lists
  <2>4. M.next[v] = NULL /\ M.prev[v] = NULL
    BY <2>1, <2>2, <2>3, QueueAssumption DEF queue_remove
  <2>5. ~queue_empty(M, "ready") => M.tail["ready"] \in In(r)
    BY <1>3, TailIn DEF Lists
  <2> HIDE DEF M
  <2> QED
    BY <1>5, <2>2, <2>4, <2>5 DEF queue_append, Links
<1> HIDE DEF M, N, a
<1>7. In(a) = {t \in Thread : ts[t] = "Ready"} /\ In(d) = {t \in Thread : ts[t] = "Blocked"}
  BY <1>1, <1>2, <1>3, <1>4
<1>8. Nulled(N, {t \in Thread : ts[t] = "Unborn"})
  BY <1>6 DEF Nulled
<1>9. Hold(N, ts)
  BY <1>4, <1>5, <1>7, <1>8 DEF Hold
<1> QED
  BY <1>1, <1>4, <1>5, <1>9 DEF N, a, M
=============================================================================
