--------------------------- MODULE SThreadClient ---------------------------
(***************************************************************************)
(* The thread API of src/week7/sthread.c under arbitrary use: a running    *)
(* thread may at any time yield, block itself, unblock a blocked thread,   *)
(* create a thread or return from its function.                            *)
(***************************************************************************)
EXTENDS SThread

CONSTANTS
  Unblockers,  \* threads that call sthread_unblock(., 1) while the timer is on
  Creators     \* threads that call sthread_create while the timer is on

ASSUME ClientAssumption ==
  Unblockers \subseteq Thread /\ Creators \subseteq Thread

VARIABLES
  pc,          \* where each thread is in the API function it called
  target       \* threadp, the argument or result of that function

vars == <<timer, schedVars, pc, target>>

Init ==
  /\ SThreadInit
  /\ pc = [t \in Thread |-> "user"]
  /\ target = [t \in Thread |-> NULL]

At(t, label) == Executing(t) /\ pc[t] = label

Goto(t, label) == pc' = [pc EXCEPT ![t] = label] /\ UNCHANGED target

Return(t) == pc' = [pc EXCEPT ![t] = "user"] /\ target' = [target EXCEPT ![t] = NULL]

-----------------------------------------------------------------------------
(* sthread_yield, sthread_block(1) and __sthread_finish begin with the     *)
(* lock and end in the scheduler.                                          *)

YieldLock(t) == At(t, "user") /\ TakeLock /\ Goto(t, "yield")

Yield(t) == At(t, "yield") /\ Schedule(state) /\ Goto(t, "user")

BlockLock(t) == At(t, "user") /\ TakeLock /\ Goto(t, "block")

Block(t) ==
  /\ At(t, "block")
  /\ Schedule([state EXCEPT ![t] = "Blocked"])
  /\ Goto(t, "user")

FinishLock(t) == At(t, "user") /\ TakeLock /\ Goto(t, "finish")

Finish(t) ==
  /\ At(t, "finish")
  /\ Schedule([state EXCEPT ![t] = "Finished"])
  /\ Goto(t, "user")

-----------------------------------------------------------------------------
(* sthread_unblock(u, 1): the state of u is asserted before the lock is    *)
(* taken; a caller only names a thread that is blocked.                    *)

UnblockAssert(t, u) ==
  /\ At(t, "user") /\ (timer => t \in Unblockers)
  /\ state[u] = "Blocked"
  /\ pc' = [pc EXCEPT ![t] = "unblock_lock"]
  /\ target' = [target EXCEPT ![t] = u]
  /\ UNCHANGED schedVars

UnblockLock(t) == At(t, "unblock_lock") /\ TakeLock /\ Goto(t, "unblock")

Unblock(t) ==
  /\ At(t, "unblock")
  /\ Requeue(links, target[t])
  /\ Return(t)

-----------------------------------------------------------------------------
(* sthread_create: queue_append on the ready queue, without the lock.      *)

\* Allocate u and choose a branch of queue_append; u's own fields are private.
Create(t, u) ==
  /\ At(t, "user") /\ (timer => t \in Creators)
  /\ state[u] = "Unborn"
  /\ state' = [state EXCEPT ![u] = "Ready"]
  /\ target' = [target EXCEPT ![t] = u]
  /\ pc' = [pc EXCEPT ![t] = IF queue_empty(links, "ready") THEN "create"
                             ELSE "create_tail_next"]
  /\ UNCHANGED <<status, lock, current, links>>

\* queuep->head = threadp;
CreateHead(t) ==
  /\ At(t, "create")
  /\ links' = [links EXCEPT !.head["ready"] = target[t]]
  /\ Goto(t, "create_tail")
  /\ UNCHANGED <<status, lock, current, state>>

\* queuep->tail->next = threadp;
CreateTailNext(t) ==
  /\ At(t, "create_tail_next")
  /\ status' = IF links.tail["ready"] = NULL THEN "segv" ELSE status
  /\ links' = [links EXCEPT !.next = [u \in Thread |->
                 IF u = links.tail["ready"] THEN target[t] ELSE @[u]]]
  /\ Goto(t, "create_prev")
  /\ UNCHANGED <<lock, current, state>>

\* threadp->prev = queuep->tail; threadp->next = NULL;
CreatePrev(t) ==
  /\ At(t, "create_prev")
  /\ links' = [links EXCEPT !.prev[target[t]] = links.tail["ready"],
                            !.next[target[t]] = NULL]
  /\ Goto(t, "create_tail")
  /\ UNCHANGED <<status, lock, current, state>>

\* queuep->tail = threadp;
CreateTail(t) ==
  /\ At(t, "create_tail")
  /\ links' = [links EXCEPT !.tail["ready"] = target[t]]
  /\ Return(t)
  /\ UNCHANGED <<status, lock, current, state>>

-----------------------------------------------------------------------------
Step(t) ==
  \/ YieldLock(t) \/ Yield(t) \/ BlockLock(t) \/ Block(t)
  \/ FinishLock(t) \/ Finish(t)
  \/ \E u \in Thread : UnblockAssert(t, u) \/ Create(t, u)
  \/ UnblockLock(t) \/ Unblock(t)
  \/ CreateHead(t) \/ CreateTailNext(t) \/ CreatePrev(t) \/ CreateTail(t)

Next ==
  \/ (Boot \/ Preempt) /\ UNCHANGED <<timer, pc, target>>
  \/ UNCHANGED timer /\ \E t \in Thread : Step(t)

Spec == Init /\ [][Next]_vars

-----------------------------------------------------------------------------
\* No thread is between two statements of sthread_create's queue_append.
NotCreating ==
  \A t \in Thread :
    pc[t] \notin {"create", "create_tail_next", "create_prev", "create_tail"}

\* sthread.c:104 and 46: whatever the threads call and wherever the timer
\* strikes, the ready queue is a list of exactly the Ready threads, and likewise
\* the blocked queue, under unblocking in any order.
QueuesKept == NotCreating => QueuesExact

\* "All threads completed" and "deadlocked" are said truthfully (sthread.c:251): at
\* exit(0) every created thread has finished; at exit(1) the rest are all Blocked.
ExitsTruthfully ==
  /\ status = "completed" =>
       \A t \in Thread : state[t] \in {"Finished", "Unborn"}
  /\ status = "deadlocked" =>
       /\ \A t \in Thread : state[t] \in {"Finished", "Unborn", "Blocked"}
       /\ \E t \in Thread : state[t] = "Blocked"

\* The scheduler is entered: by its three callers, or by a tick that changes threads.
Switching ==
  \/ current' # current
  \/ \E t \in Thread : pc[t] \in {"yield", "block", "finish"} /\ pc'[t] = "user"

\* The ready queue is served first come, first served (sthread.c:251): a switch
\* takes its first thread and puts the old one, if still Ready, behind all others.
RoundRobin ==
  [][status = "run" /\ status' = "run" /\ Switching =>
       Chain(links, "ready") \o
         (IF state[current] = "Running" /\ ~(pc[current] \in {"block", "finish"})
          THEN <<current>> ELSE <<>>)
         = <<current'>> \o Chain(links', "ready")]_vars
=============================================================================
