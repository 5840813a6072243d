----------------------------- MODULE Semaphore -----------------------------
(***************************************************************************)
(* The semaphores of src/week7/semaphore.c on top of the scheduler.        *)
(*                                                                         *)
(* pc says where a thread is inside semaphore_wait or semaphore_signal     *)
(* ("user" outside) and arg on which semaphore.  Each statement that a     *)
(* tick could separate from the next one, were the lock not held, is a     *)
(* step.  A semaphore's threadQueue is the queue of ThreadQueues that has  *)
(* the semaphore's name.                                                   *)
(***************************************************************************)
EXTENDS SThread

CONSTANT Semaphores    \* the semaphores of the program

ASSUME SemaphoreAssumption == Semaphores \subseteq Queue \ {"ready", "blocked"}

VARIABLES
  i,      \* semp->i
  pc,     \* where each thread is in a semaphore operation
  arg     \* semp, the semaphore it operates on

semVars == <<i, pc, arg>>

Label == {"user", "wait_test", "wait_block", "wait_relock", "wait_dec",
          "signal_inc", "signal_wake", "signal_relock", "signal_unlock"}

SemaphoreTypeOK ==
  /\ i \in [Semaphores -> Nat]
  /\ pc \in [Thread -> Label]
  /\ arg \in [Thread -> Semaphores]

\* new_semaphore for every semaphore; s is a placeholder until the first call.
SemaphoreInit(initial, s) ==
  /\ i = initial
  /\ pc = [t \in Thread |-> "user"]
  /\ arg = [t \in Thread |-> s]

At(t, label) == Executing(t) /\ pc[t] = label

Goto(t, label) == pc' = [pc EXCEPT ![t] = label] /\ UNCHANGED arg

Call(t, label, s) ==
  /\ At(t, "user")
  /\ TakeLock
  /\ pc' = [pc EXCEPT ![t] = label]
  /\ arg' = [arg EXCEPT ![t] = s]
  /\ UNCHANGED i

-----------------------------------------------------------------------------
(* semaphore_wait                                                          *)

WaitLock(t, s) == Call(t, "wait_test", s)

\* while (semp->i == 0): queue_append(semp->threadQueue, sthread_current())
WaitEnqueue(t) ==
  /\ At(t, "wait_test")
  /\ i[arg[t]] = 0
  /\ links' = queue_append(links, arg[t], t)
  /\ status' = IF append_faults(links, arg[t]) THEN "segv" ELSE status
  /\ Goto(t, "wait_block")
  /\ UNCHANGED <<lock, current, state, i>>

\* sthread_block(0); the thread resumes at the re-lock
WaitBlock(t) ==
  /\ At(t, "wait_block")
  /\ Schedule([state EXCEPT ![t] = "Blocked"])
  /\ Goto(t, "wait_relock")
  /\ UNCHANGED i

\* Mutant: `if' in place of `while'; a woken thread takes its unit untested.
WaitOnce(t) ==
  /\ At(t, "wait_relock")
  /\ TakeLock
  /\ Goto(t, "wait_dec")
  /\ UNCHANGED i

WaitRelock(t) ==
  /\ At(t, "wait_relock")
  /\ TakeLock
  /\ Goto(t, "wait_test")
  /\ UNCHANGED i

WaitPass(t) ==
  /\ At(t, "wait_test")
  /\ i[arg[t]] # 0
  /\ Goto(t, "wait_dec")
  /\ UNCHANGED <<schedVars, i>>

\* semp->i--; __sthread_unlock();
WaitDec(t) ==
  /\ At(t, "wait_dec")
  /\ i' = [i EXCEPT ![arg[t]] = @ - 1]
  /\ DropLock
  /\ Goto(t, "user")

-----------------------------------------------------------------------------
(* semaphore_signal                                                        *)

SignalLock(t, s) == Call(t, "signal_inc", s)

\* Mutant: a waiter is woken only when the semaphore leaves zero.
SignalIncFromZero(t) ==
  /\ At(t, "signal_inc")
  /\ i' = [i EXCEPT ![arg[t]] = @ + 1]
  /\ Goto(t, IF queue_empty(links, arg[t]) \/ i[arg[t]] > 0
             THEN "signal_unlock" ELSE "signal_wake")
  /\ UNCHANGED schedVars

\* semp->i++; if (!queue_empty(semp->threadQueue))
SignalInc(t) ==
  /\ At(t, "signal_inc")
  /\ i' = [i EXCEPT ![arg[t]] = @ + 1]
  /\ Goto(t, IF queue_empty(links, arg[t]) THEN "signal_unlock" ELSE "signal_wake")
  /\ UNCHANGED schedVars

\* sthread_unblock(queue_take(semp->threadQueue), 0), which drops the lock.  It
\* asserts that there is a thread and that it is Blocked, or the process aborts.
SignalWake(t) ==
  /\ At(t, "signal_wake")
  /\ LET woken == links.head[arg[t]] IN
     IF woken # NULL /\ state[woken] = "Blocked" /\ ~take_faults(links, arg[t])
     THEN Requeue(queue_take(links, arg[t]), woken)
     ELSE /\ status' = IF take_faults(links, arg[t]) THEN "segv" ELSE "abort"
          /\ UNCHANGED <<lock, current, state, links>>
  /\ Goto(t, "signal_relock")
  /\ UNCHANGED i

SignalRelock(t) ==
  /\ At(t, "signal_relock")
  /\ TakeLock
  /\ Goto(t, "signal_unlock")
  /\ UNCHANGED i

SignalUnlock(t) ==
  /\ At(t, "signal_unlock")
  /\ DropLock
  /\ Goto(t, "user")
  /\ UNCHANGED i

SemaphoreStep(t) ==
  \/ WaitEnqueue(t) \/ WaitBlock(t) \/ WaitRelock(t) \/ WaitPass(t) \/ WaitDec(t)
  \/ SignalInc(t) \/ SignalWake(t) \/ SignalRelock(t) \/ SignalUnlock(t)

-----------------------------------------------------------------------------
\* Every __sthread_lock in the C code ignores its result (glue.s:26), which is
\* right only if the lock is always free there; and every statement between a lock
\* and its unlock must run with the lock held, whichever thread took it last.
LockDiscipline ==
  \A t \in Thread : Executing(t) =>
    (lock = 0 <=> pc[t] \in {"user", "wait_relock", "signal_relock"})

\* Threads unblocked for s that have not looked at s again.
Woken(s) == {t \in Thread : pc[t] = "wait_relock" /\ arg[t] = s /\ state[t] # "Blocked"}

\* No lost wake-up: while a thread is blocked on s, every unit of s is covered by
\* a thread already woken for it (semaphore.c:66 and 107; a woken thread may find
\* that another one took the unit and must then queue again).
NoLostWakeup ==
  status = "run" /\ lock = 0 =>
    \A s \in Semaphores : ~queue_empty(links, s) => i[s] <= Cardinality(Woken(s))

=============================================================================
