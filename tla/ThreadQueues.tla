--------------------------- MODULE ThreadQueues ---------------------------
(***************************************************************************)
(* The intrusive doubly linked queues of src/week7/sthread.c.              *)
(*                                                                         *)
(* A Thread has ONE pair of prev/next fields, used by whatever queue the   *)
(* thread is put on: the ready queue, the blocked queue and every          *)
(* semaphore's threadQueue.  All the links of the program are therefore    *)
(* one value L with the fields prev and next (per thread) and head and     *)
(* tail (per queue); an operation of the code is a function from L to L.   *)
(***************************************************************************)
EXTENDS Naturals, FiniteSets, Sequences

CONSTANTS
  Thread,   \* the threads of the program (addresses of struct _thread)
  Queue,    \* the names of its queues
  NULL      \* the null pointer

ASSUME QueueAssumption ==
  /\ NULL \notin Thread /\ IsFiniteSet(Thread)
  /\ {"ready", "blocked"} \subseteq Queue

Pointer == Thread \cup {NULL}

Links == [prev : [Thread -> Pointer], next : [Thread -> Pointer],
          head : [Queue -> Pointer],  tail : [Queue -> Pointer]]

NoLinks == [prev |-> [t \in Thread |-> NULL], next |-> [t \in Thread |-> NULL],
            head |-> [q \in Queue |-> NULL],  tail |-> [q \in Queue |-> NULL]]

-----------------------------------------------------------------------------
queue_empty(L, q) == L.head[q] = NULL

\* Mutant: threads are pushed on the head of the queue, as queue_append's own
\* comment (sthread.c:121) has it.
append_at_head(L, q, t) ==
  LET alone == queue_empty(L, q)
      front == L.head[q]
  IN  [prev |-> [u \in Thread |-> IF u = t THEN NULL ELSE IF u = front THEN t ELSE L.prev[u]],
       next |-> [L.next EXCEPT ![t] = front],
       head |-> [L.head EXCEPT ![q] = t],
       tail |-> IF alone THEN [L.tail EXCEPT ![q] = t] ELSE L.tail]

queue_append(L, q, t) ==
  LET alone == queue_empty(L, q)
      last  == L.tail[q]
  IN  [prev |-> [L.prev EXCEPT ![t] = IF alone THEN NULL ELSE last],
       next |-> [u \in Thread |-> IF u = t THEN NULL
                                  ELSE IF u = last /\ ~alone THEN t ELSE L.next[u]],
       head |-> IF alone THEN [L.head EXCEPT ![q] = t] ELSE L.head,
       tail |-> [L.tail EXCEPT ![q] = t]]

\* queuep->tail->next is written through a null tail
append_faults(L, q) == ~queue_empty(L, q) /\ L.tail[q] = NULL

\* The thread queue_take returns is L.head[q]; its own links stay as they are.
queue_take(L, q) ==
  LET first  == L.head[q]
      second == L.next[first]
  IN  IF queue_empty(L, q) THEN L
      ELSE IF first = L.tail[q]
      THEN [prev |-> L.prev, next |-> L.next,
            head |-> [L.head EXCEPT ![q] = NULL], tail |-> [L.tail EXCEPT ![q] = NULL]]
      ELSE [prev |-> [u \in Thread |-> IF u = second THEN NULL ELSE L.prev[u]],
            next |-> L.next,
            head |-> [L.head EXCEPT ![q] = second], tail |-> L.tail]

\* threadp->next->prev is written through a null next
take_faults(L, q) ==
  /\ ~queue_empty(L, q)
  /\ L.head[q] # L.tail[q]
  /\ L.next[L.head[q]] = NULL

\* Mutant: queue_remove forgets that t may be the tail.
remove_keeps_tail(L, q, t) ==
  [prev |-> [u \in Thread |-> IF u = L.next[t] THEN L.prev[t] ELSE L.prev[u]],
   next |-> [u \in Thread |-> IF u = L.prev[t] THEN L.next[t] ELSE L.next[u]],
   head |-> [L.head EXCEPT ![q] = IF @ = t THEN L.next[t] ELSE @],
   tail |-> L.tail]

queue_remove(L, q, t) ==
  [prev |-> [u \in Thread |-> IF u = L.next[t] THEN L.prev[t] ELSE L.prev[u]],
   next |-> [u \in Thread |-> IF u = L.prev[t] THEN L.next[t] ELSE L.next[u]],
   head |-> [L.head EXCEPT ![q] = IF @ = t THEN L.next[t] ELSE @],
   tail |-> [L.tail EXCEPT ![q] = IF @ = t THEN L.prev[t] ELSE @]]

-----------------------------------------------------------------------------
(* What the links stand for.                                               *)

\* The threads met from the head of q along next, up to its tail.  A walk that
\* runs into a cycle is cut after one thread too many, and so has a repetition.
Chain(L, q) ==
  LET walk[n \in 0 .. Cardinality(Thread)] ==
        IF n = 0
        THEN IF queue_empty(L, q) THEN <<>> ELSE <<L.head[q]>>
        ELSE LET sofar == walk[n - 1]
                 last  == sofar[Len(sofar)]
             IN  IF sofar = <<>> \/ last = L.tail[q] \/ L.next[last] = NULL
                 THEN sofar ELSE Append(sofar, L.next[last])
  IN  walk[Cardinality(Thread)]

Members(L, q) == {Chain(L, q)[k] : k \in DOMAIN Chain(L, q)}

\* A queue is well formed when the walk meets no thread twice and ends at tail.
\* With LinkedBack the prev fields mirror the walk too, which queue_remove needs.
WellFormed(L, q) ==
  LET c == Chain(L, q) IN
  /\ Len(c) = Cardinality(Members(L, q))
  /\ c # <<>> => L.tail[q] = c[Len(c)]

LinkedBack(L, q) ==
  LET c == Chain(L, q) IN
  \A k \in DOMAIN c : L.prev[c[k]] = IF k = 1 THEN NULL ELSE c[k - 1]
=============================================================================
