------------------------------ MODULE SThread ------------------------------
(***************************************************************************)
(* The user-level thread scheduler of week 7: sthread.c, the lock and the  *)
(* context switch of glue.s, and the timer of timer.c.                     *)
(*                                                                         *)
(* One CPU runs everything, so only the thread in `current' takes steps;   *)
(* interleaving comes from Preempt, the SIGALRM handler, which may run     *)
(* between any two steps.  A thread's saved machine context is its program *)
(* counter, kept by the modules that extend this one.  What main() does    *)
(* before the first thread runs is the first four values of `status'.      *)
(***************************************************************************)
EXTENDS ThreadQueues

CONSTANTS
  Created,     \* the threads main() creates, in that order
  Timers,      \* the arguments main() may give to sthread_start
  EarlyTick    \* may the first tick come before sthread_start has the lock?

ASSUME SThreadAssumption ==
  /\ Created \in Seq(Thread)
  /\ \A j, k \in DOMAIN Created : Created[j] = Created[k] => j = k
  /\ Timers \subseteq BOOLEAN
  /\ EarlyTick \in BOOLEAN

VARIABLES
  timer,       \* the argument it gives, fixed at the start
  status,      \* how far the process is: booting, running its threads, or dead
  lock,        \* scheduler_lock
  current,     \* the thread that is running, NULL before the first
  state,       \* threadp->state; "Unborn" before sthread_create
  links        \* prev, next and the queues' heads and tails

\* Everything but the argument, which no step changes.
schedVars == <<status, lock, current, state, links>>

Booting == {"create", "timer", "lock", "start"}
Exited  == {"completed", "deadlocked", "segv", "abort", "nomatch"}
Status  == Booting \cup {"run"} \cup Exited

ThreadState == {"Unborn", "Ready", "Running", "Blocked", "Finished"}

SThreadTypeOK ==
  /\ status \in Status
  /\ lock \in {0, 1}
  /\ current \in Pointer
  /\ state \in [Thread -> ThreadState]
  /\ links \in Links

SThreadInit ==
  /\ timer \in Timers
  /\ status = "create"
  /\ lock = 0
  /\ current = NULL
  /\ state = [t \in Thread |-> "Unborn"]
  /\ links = NoLinks

\* Thread t has the CPU.
Executing(t) == status = "run" /\ current = t

-----------------------------------------------------------------------------
(* The scheduler.  Its callers hold the lock, so no tick comes in between  *)
(* and each call is one step, up to the unlock in __sthread_restore.       *)

\* Mutant: the queue looked at before leaving is the empty ready queue.
DispatchExits(L, st, fault) ==
  LET chosen == L.head["ready"] IN
  /\ links' = queue_take(L, "ready")
  /\ current' = chosen
  /\ state' = [t \in Thread |-> IF t = chosen THEN "Running" ELSE st[t]]
  /\ lock' = IF chosen = NULL THEN lock ELSE 0
  /\ status' = IF chosen # NULL THEN "run" ELSE "completed"

\* The second half of __sthread_scheduler and __sthread_restore: run the head
\* of the ready queue, or leave the process if there is none.
Dispatch(L, st, fault) ==
  LET chosen == L.head["ready"] IN
  /\ links' = queue_take(L, "ready")
  /\ current' = chosen
  /\ state' = [t \in Thread |-> IF t = chosen THEN "Running" ELSE st[t]]
  /\ lock' = IF chosen = NULL THEN lock ELSE 0
  /\ status' = IF fault \/ take_faults(L, "ready") THEN "segv"
               ELSE IF chosen # NULL THEN "run"
               ELSE IF queue_empty(L, "blocked") THEN "completed" ELSE "deadlocked"

QueueFor(s) == IF s = "Ready" THEN "ready" ELSE "blocked"

\* __sthread_scheduler with a context, entered with the thread states st.
\* A finished thread is deleted, which here is to be on no queue any more.
Schedule(st) ==
  LET saved == IF st[current] = "Running" THEN "Ready" ELSE st[current]
      q     == QueueFor(saved)
  IN  IF saved = "Finished"
      THEN Dispatch(links, st, FALSE)
      ELSE Dispatch(queue_append(links, q, current),
                    [st EXCEPT ![current] = saved], append_faults(links, q))

\* Mutant: queue_add is called before the state is set to Ready.
RequeueBeforeReady(L, u) ==
  /\ links' = queue_append(queue_remove(L, "blocked", u), "blocked", u)
  /\ state' = [state EXCEPT ![u] = "Ready"]
  /\ lock' = 0
  /\ UNCHANGED <<current, status>>

\* The tail of sthread_unblock, with the lock held: L are the links and u the thread.
Requeue(L, u) ==
  LET removed == queue_remove(L, "blocked", u) IN
  /\ links' = queue_append(removed, "ready", u)
  /\ state' = [state EXCEPT ![u] = "Ready"]
  /\ lock' = 0
  /\ status' = IF append_faults(removed, "ready") THEN "segv" ELSE status
  /\ UNCHANGED current

\* __sthread_lock as C code calls it: the result is ignored.
TakeLock == lock' = 1 /\ UNCHANGED <<status, current, state, links>>

\* __sthread_unlock
DropLock == lock' = 0 /\ UNCHANGED <<status, current, state, links>>

-----------------------------------------------------------------------------
(* main(): create the threads, then sthread_start.                         *)

MainCreate ==
  /\ status = "create"
  /\ \E k \in DOMAIN Created :
       /\ \A j \in DOMAIN Created : state[Created[j]] = "Unborn" <=> j >= k
       /\ state' = [state EXCEPT ![Created[k]] = "Ready"]
       /\ links' = queue_append(links, "ready", Created[k])
       /\ status' = IF k = Len(Created) THEN "timer" ELSE "create"
  /\ UNCHANGED <<lock, current>>

\* if (timer) start_timer();
StartTimer ==
  /\ status = "timer"
  /\ status' = "lock"
  /\ UNCHANGED <<lock, current, state, links>>

\* __sthread_lock();
StartLock ==
  /\ status = "lock"
  /\ status' = "start"
  /\ lock' = 1
  /\ UNCHANGED <<current, state, links>>

\* __sthread_start: the scheduler is called with no context.
StartThreads ==
  /\ status = "start"
  /\ Dispatch(links, state, FALSE)

\* A tick between start_timer and __sthread_lock: the handler gets the lock and
\* returns into __sthread_schedule, which pushes onto scheduler_context, still 0.
TickBeforeStart ==
  /\ timer /\ EarlyTick
  /\ status = "lock"
  /\ lock' = 1
  /\ status' = "segv"
  /\ UNCHANGED <<current, state, links>>

Boot == MainCreate \/ StartTimer \/ StartLock \/ StartThreads \/ TickBeforeStart

\* timer_action: with the lock free the handler takes it and returns into
\* __sthread_schedule; with the lock taken the tick is ignored, which is a stutter.
Preempt ==
  /\ timer
  /\ status = "run"
  /\ lock = 0
  /\ Schedule(state)

-----------------------------------------------------------------------------
(* Properties of the scheduler.                                            *)

\* The comment on `current' (sthread.c:92): during normal operation exactly one
\* thread is Running, and `current' points to it.
OneRunning ==
  status = "run" => {t \in Thread : state[t] = "Running"} = {current}

\* The comment on the queues (sthread.c:104): while nobody is in the middle of
\* changing them, the threads of the ready queue are Ready, and (sthread.c:46)
\* every Ready thread is kept there, once, in a list that can be walked to its tail.
\* The same of the blocked queue (sthread.c:106 and 53), whose prev fields must
\* also be right because sthread_unblock takes threads out of its middle.
QueuesExact ==
  status = "run" /\ lock = 0 =>
    /\ WellFormed(links, "ready")
    /\ Members(links, "ready") = {t \in Thread : state[t] = "Ready"}
    /\ WellFormed(links, "blocked") /\ LinkedBack(links, "blocked")
    /\ Members(links, "blocked") = {t \in Thread : state[t] = "Blocked"}
=============================================================================
