----------------------------- MODULE CoopThreads -----------------------------
(***************************************************************************)
(* The cooperative threads of week6/sthreads: sthread.c, and the context   *)
(* switch of glue.s, which week7 later makes preemptive.  The queues are   *)
(* those of ThreadQueues: the code is the same.  Only the current thread   *)
(* runs, and each call that it makes runs to its end or to the switch, so  *)
(* that a call is one step; what a thread does between its calls is        *)
(* nobody's concern here.  A Thread that has been freed may be allocated   *)
(* again.                                                                  *)
(***************************************************************************)
EXTENDS ThreadQueues

VARIABLES links, state, current, status

vars == <<links, state, current, status>>

\* "Free" is no state of the code: the memory of the thread is not allocated.
Init == /\ links = NoLinks
        /\ state = [t \in Thread |-> "Free"]
        /\ current = NULL
        /\ status = "main"

\* Mutant: a thread that has blocked and one that has yielded are queued alike.
QueueAlways(L, t, s) == queue_append(L, "ready", t)

(* queue_add()                                                             *)
queue_add(L, t, s) == queue_append(L, IF s = "Ready" THEN "ready" ELSE "blocked", t)

(* The second half of __sthread_scheduler(), and __sthread_restore: the    *)
(* head of the ready queue runs, or the process ends.                      *)
Dispatch(L, st) ==
    LET chosen == L.head["ready"]
    IN  /\ links' = queue_take(L, "ready")
        /\ IF take_faults(L, "ready") THEN status' = "segv" /\ UNCHANGED <<state, current>>
           ELSE IF chosen = NULL
           THEN /\ status' = IF queue_empty(L, "blocked") THEN "completed" ELSE "deadlocked"
                /\ current' = NULL /\ state' = st
           ELSE /\ status' = "run"
                /\ current' = chosen /\ state' = [st EXCEPT ![chosen] = "Running"]

(* __sthread_schedule: the context is saved, and the scheduler deletes the *)
(* current thread or queues it.                                            *)
__sthread_schedule(s) ==
    IF s = "Finished" THEN Dispatch(links, [state EXCEPT ![current] = "Free"])
    ELSE LET saved == IF s = "Running" THEN "Ready" ELSE s
         IN  Dispatch(queue_add(links, current, saved), [state EXCEPT ![current] = saved])

(* sthread_create(), by main() or by a thread                              *)
sthread_create ==
    /\ status \in {"main", "run"}
    /\ \E t \in Thread :
          /\ state[t] = "Free"
          /\ state' = [state EXCEPT ![t] = "Ready"]
          /\ links' = queue_add(links, t, "Ready")
    /\ UNCHANGED <<current, status>>

(* sthread_start(): the scheduler is called without a context              *)
sthread_start == status = "main" /\ Dispatch(links, state)

Running == status = "run"

sthread_yield    == Running /\ __sthread_schedule(state[current])
sthread_block    == Running /\ __sthread_schedule("Blocked")
__sthread_finish == Running /\ __sthread_schedule("Finished")

(* sthread_unblock() asserts that the thread is blocked.                   *)
sthread_unblock ==
    /\ Running
    /\ \E t \in Thread :
          /\ state[t] = "Blocked"
          /\ state' = [state EXCEPT ![t] = "Ready"]
          /\ links' = queue_add(queue_remove(links, "blocked", t), t, "Ready")
    /\ UNCHANGED <<current, status>>

Over == status \in {"completed", "deadlocked", "segv"} /\ UNCHANGED vars

Next == \/ sthread_create \/ sthread_start \/ sthread_yield \/ sthread_block
        \/ __sthread_finish \/ sthread_unblock \/ Over

Spec == Init /\ [][Next]_vars

-----------------------------------------------------------------------------

Promise == INSTANCE RoundRobin WITH ready   <- Chain(links, "ready"),
                                    blocked <- {t \in Thread : state[t] = "Blocked"}

(* Whatever the threads do, they take turns in the order in which they     *)
(* became ready, no thread is lost from the queues or met twice, and the   *)
(* process calls itself deadlocked exactly when only blocked threads are   *)
(* left: through every reuse of the links by the two queues.               *)
ImplementsRoundRobin == Promise!Spec
=============================================================================
