--------------------------- MODULE FibTestProofs ---------------------------
(***************************************************************************)
(* Mutual exclusion in the bounded buffer, the discipline of the scheduler *)
(* lock it rests on, and the refinement of the bounded FIFO queue, for any *)
(* number of producers and consumers, any length of the buffer and any     *)
(* timing of the ticks: that argument makes no use of the shape of the     *)
(* thread queues, and holds even in the instances in which those get       *)
(* damaged.  The last part is about the queues themselves, which are right *)
(* in a program of fibtest.c's size: that no wake-up is lost, that the     *)
(* program never stops, and that two queues can share one pair of links    *)
(* are one invariant, each being needed for the others.                    *)
(***************************************************************************)
EXTENDS FibTest, ThreadQueuesProofs

-----------------------------------------------------------------------------
\* The invariant of the scheduler's own variables: their types, a thread on the
\* CPU while the process runs, and that thread alone in state Running.
SchedInv ==
  /\ SThreadTypeOK
  /\ status = "run" => current \in Thread
  /\ status \in Booting => \A t \in Thread : state[t] # "Running"
  /\ OneRunning

\* What __sthread_scheduler does with a list of any shape: if the process goes on,
\* some thread has the CPU, alone, with the lock free.
LEMMA DispatchFacts ==
  ASSUME NEW L \in Links, NEW st \in [Thread -> ThreadState], NEW fault \in BOOLEAN,
         \A t \in Thread : st[t] # "Running",
         lock \in {0, 1},
         Dispatch(L, st, fault)
  PROVE  SchedInv' /\ status' \notin Booting /\ (status' = "run" => lock' = 0)
<1> DEFINE chosen == L.head["ready"]
<1>1. "ready" \in Queue
  BY QueueAssumption
<1>2. chosen \in Pointer
  BY <1>1 DEF Links
<1>3. links' \in Links
  BY <1>1, TakeType DEF Dispatch
<1>4. state' \in [Thread -> ThreadState]
  BY DEF Dispatch, ThreadState
<1>5. /\ status' \in {"segv", "run", "completed", "deadlocked"}
      /\ status' = "run" => chosen # NULL
  BY DEF Dispatch
<1>6. status' = "run" => chosen \in Thread /\ current' = chosen /\ lock' = 0
  BY <1>2, <1>5 DEF Dispatch, Pointer
<1>7. SThreadTypeOK'
  BY <1>2, <1>3, <1>4, <1>5 DEF SThreadTypeOK, Dispatch, Status, Exited
<1>8. OneRunning'
  <2> SUFFICES ASSUME status' = "run"
               PROVE  \A t \in Thread : state'[t] = "Running" <=> t = current'
    BY <1>6 DEF OneRunning
  <2> QED
    BY <1>6 DEF Dispatch
<1>9. status' \notin Booting
  BY <1>5 DEF Booting
<1> QED
  BY <1>6, <1>7, <1>8, <1>9 DEF SchedInv

\* A call of the scheduler by the running thread, which has set its own state to
\* Blocked or Finished or left it Running.
LEMMA ScheduleFacts ==
  ASSUME SchedInv, status = "run", NEW st \in [Thread -> ThreadState],
         \A t \in Thread \ {current} : st[t] = state[t],
         st[current] \in {"Running", "Blocked", "Finished"},
         Schedule(st)
  PROVE  SchedInv' /\ status' \notin Booting /\ (status' = "run" => lock' = 0)
<1>1. current \in Thread /\ links \in Links /\ lock \in {0, 1}
  BY DEF SchedInv, SThreadTypeOK
<1>2. \A t \in Thread \ {current} : st[t] # "Running"
  BY DEF SchedInv, OneRunning
<1> DEFINE saved == IF st[current] = "Running" THEN "Ready" ELSE st[current]
           q == QueueFor(saved)
<1>3. CASE saved = "Finished"
  <2>1. Dispatch(links, st, FALSE)
    BY <1>3 DEF Schedule
  <2>2. \A t \in Thread : st[t] # "Running"
    BY <1>1, <1>2, <1>3
  <2> QED
    BY <1>1, <2>1, <2>2, DispatchFacts
<1>4. CASE saved # "Finished"
  <2> DEFINE L  == queue_append(links, q, current)
             s2 == [st EXCEPT ![current] = saved]
             f  == append_faults(links, q)
  <2>1. Dispatch(L, s2, f)
    BY <1>4 DEF Schedule
  <2>2. q \in Queue
    BY QueueAssumption DEF QueueFor
  <2>3. L \in Links
    BY <1>1, <2>2, AppendType
  <2>4. /\ s2 \in [Thread -> ThreadState]
        /\ \A t \in Thread : s2[t] # "Running"
    BY <1>1, <1>2 DEF ThreadState
  <2>5. f \in BOOLEAN
    BY DEF append_faults
  <2> HIDE DEF L, s2, f
  <2> QED
    BY <1>1, <2>1, <2>3, <2>4, <2>5, DispatchFacts
<1> QED
  BY <1>3, <1>4

\* sthread_unblock of a Blocked thread, which cannot be the running one.
LEMMA RequeueFacts ==
  ASSUME SchedInv, status = "run", NEW L \in Links, NEW u \in Thread,
         state[u] = "Blocked",
         Requeue(L, u)
  PROVE  SchedInv' /\ lock' = 0 /\ status' \in {"run", "segv"} /\ current' = current
<1> DEFINE removed == queue_remove(L, "blocked", u)
<1>1. removed \in Links
  BY QueueAssumption, RemoveType
<1>2. links' \in Links
  BY <1>1, QueueAssumption, AppendType DEF Requeue
<1>3. /\ status' \in {"run", "segv"} /\ lock' = 0 /\ current' = current
      /\ state' = [state EXCEPT ![u] = "Ready"]
  BY DEF Requeue
<1>4. state' \in [Thread -> ThreadState]
  BY <1>3 DEF SchedInv, SThreadTypeOK, ThreadState
<1>5. OneRunning'
  BY <1>3 DEF SchedInv, OneRunning, SThreadTypeOK
<1> QED
  BY <1>2, <1>3, <1>4, <1>5 DEF SchedInv, SThreadTypeOK, Status, Exited, Booting

\* main() before the first thread runs, and its call of the scheduler.
LEMMA BootFacts ==
  ASSUME SchedInv, Boot
  PROVE  SchedInv' /\ (status' = "run" => lock' = 0) /\ status \in Booting
<1>1. CASE MainCreate
  <2>1. PICK k \in DOMAIN Created :
          /\ state' = [state EXCEPT ![Created[k]] = "Ready"]
          /\ links' = queue_append(links, "ready", Created[k])
          /\ status' \in {"create", "timer"}
    BY <1>1 DEF MainCreate
  <2>2. Created[k] \in Thread
    BY SThreadAssumption
  <2>3. links' \in Links
    BY <2>1, <2>2, QueueAssumption, AppendType DEF SchedInv, SThreadTypeOK
  <2>4. /\ state' \in [Thread -> ThreadState]
        /\ \A t \in Thread : state'[t] # "Running"
    BY <1>1, <2>1, <2>2 DEF MainCreate, SchedInv, SThreadTypeOK, ThreadState, Booting
  <2> QED
    BY <1>1, <2>1, <2>3, <2>4
    DEF MainCreate, SchedInv, SThreadTypeOK, Status, Booting, OneRunning
<1>2. CASE StartThreads
  <2>1. /\ status = "start" /\ Dispatch(links, state, FALSE)
        /\ \A t \in Thread : state[t] # "Running"
        /\ links \in Links /\ state \in [Thread -> ThreadState] /\ lock \in {0, 1}
    BY <1>2 DEF StartThreads, SchedInv, SThreadTypeOK, Booting
  <2> QED
    BY <2>1, DispatchFacts DEF Booting
<1>3. CASE StartTimer \/ StartLock \/ TickBeforeStart
  BY <1>3 DEF StartTimer, StartLock, TickBeforeStart, SchedInv, SThreadTypeOK,
              Status, Booting, Exited, OneRunning
<1> QED
  BY <1>1, <1>2, <1>3 DEF Boot

-----------------------------------------------------------------------------
(* The bounded buffer. *)

\* The statements at which a thread runs with the lock free.
Unlocked == {"user", "wait_relock", "signal_relock"}

\* No thread has run yet.
NotStarted == status \in Booting => \A t \in Thread : pc[t] = "user"

\* A thread without the CPU is where it can be without the lock.
SuspendedUnlocked ==
  status = "run" => \A t \in Thread : t # current => pc[t] \in Unlocked

\* The semaphore operation a thread is in is the one its loop is at.
WaitLabel == {"wait_test", "wait_block", "wait_relock", "wait_dec"}
CallSites ==
  \A t \in Thread :
    /\ pc[t] \in WaitLabel =>
         <<at[t], arg[t]>> \in {<<"add_enter", "producers">>, <<"add_store", "protect">>,
                                <<"take_enter", "consumers">>, <<"take_copy", "protect">>}
    /\ pc[t] \in Label \ (WaitLabel \cup {"user"}) =>
         <<at[t], arg[t]>> \in {<<"add_leave", "consumers">>, <<"next", "protect">>,
                                <<"take_leave", "producers">>, <<"check", "protect">>}

\* What the loop of semaphore_wait has tested is still so at the decrement.
TestHolds == \A t \in Thread : pc[t] = "wait_dec" => i[arg[t]] > 0

\* The unit of protect is in the semaphore or in the hands of one thread.
ProtectUnit ==
  /\ i["protect"] \in {0, 1}
  /\ \A t \in Thread : Critical(t) => i["protect"] = 0

IInv ==
  /\ TypeOK /\ SchedInv /\ NotStarted /\ SuspendedUnlocked /\ LockDiscipline
  /\ CallSites /\ TestHolds /\ ProtectUnit /\ MutualExclusion

LEMMA InitInv == Init => IInv
<1> SUFFICES ASSUME Init PROVE IInv
  OBVIOUS
<1> USE DEF Init, SThreadInit, SemaphoreInit
<1>1. SThreadTypeOK
  BY DEF SThreadTypeOK, Status, Booting, Pointer, ThreadState, NoLinks, Links
<1>2. SchedInv
  BY <1>1 DEF SchedInv, Booting, OneRunning
<1>3. SemaphoreTypeOK
  BY FibTestAssumption DEF SemaphoreTypeOK, Label
<1>4. TypeOK
  BY <1>1, <1>3, FibTestAssumption DEF TypeOK, AddSite, TakeSite, Element
<1>5. NotStarted /\ SuspendedUnlocked /\ LockDiscipline /\ TestHolds
  BY DEF NotStarted, SuspendedUnlocked, LockDiscipline, TestHolds, Executing
<1>6. CallSites
  BY DEF CallSites, WaitLabel
<1>7. \A t \in Thread : ~Critical(t)
  BY DEF Critical
<1>8. ProtectUnit /\ MutualExclusion
  BY <1>7, FibTestAssumption DEF ProtectUnit, MutualExclusion
<1> QED
  BY <1>2, <1>4, <1>5, <1>6, <1>8 DEF IInv

-----------------------------------------------------------------------------
(* The steps of semaphore_wait and semaphore_signal.                       *)

\* Taking or dropping the lock, or neither, leaves the scheduler's invariant.
LEMMA LockStepInv ==
  ASSUME SchedInv, lock' \in {0, 1}, UNCHANGED <<status, current, state, links>>
  PROVE  SchedInv'
BY DEF SchedInv, SThreadTypeOK, OneRunning

LEMMA SemaphoreStepInv ==
  ASSUME IInv, UNCHANGED timer, NEW t \in Thread, SemaphoreStep(t),
         UNCHANGED <<at, elem, bufVars>>
  PROVE  IInv'
<1> USE DEF IInv, TypeOK, bufVars
<1> DEFINE Control == NotStarted /\ SuspendedUnlocked /\ LockDiscipline /\ CallSites /\ TestHolds
<1>1. /\ status = "run" /\ current = t
      /\ links \in Links /\ state \in [Thread -> ThreadState]
  BY DEF SemaphoreStep, WaitEnqueue, WaitBlock, WaitRelock, WaitPass, WaitDec, SignalInc,
         SignalWake, SignalRelock, SignalUnlock, At, Executing, SThreadTypeOK
<1>2. arg[t] \in Queue /\ arg[t] \in Semaphores
  BY SemaphoreAssumption DEF SemaphoreTypeOK
<1>3. CASE WaitEnqueue(t)
  <2>1. SchedInv'
    <3>1. links' \in Links
      BY <1>1, <1>2, <1>3, AppendType DEF WaitEnqueue
    <3>2. status' \in {"run", "segv"}
      BY <1>1, <1>3 DEF WaitEnqueue
    <3> QED
      BY <1>1, <1>3, <3>1, <3>2
      DEF WaitEnqueue, SchedInv, SThreadTypeOK, Status, Exited, Booting, OneRunning
  <2>2. SemaphoreTypeOK'
    BY <1>2, <1>3 DEF WaitEnqueue, Goto, At, SemaphoreTypeOK, Label, TestHolds
  <2>3. Control'
    BY <1>1, <1>2, <1>3, <2>1 DEF WaitEnqueue, Goto, At, SchedInv, NotStarted, SuspendedUnlocked,
       LockDiscipline, CallSites, TestHolds, SemaphoreTypeOK, Executing, Booting, Unlocked,
       WaitLabel, Label
  <2>4. ProtectUnit' /\ MutualExclusion'
    <3>1. \A u \in Thread : Critical(u)' <=> Critical(u)
      BY <1>3 DEF WaitEnqueue, Goto, At, Critical, CallSites, SemaphoreTypeOK, WaitLabel, Label
    <3> QED
      BY <1>3, <3>1 DEF WaitEnqueue, ProtectUnit, MutualExclusion
  <2> QED
    BY <2>1, <2>2, <2>3, <2>4 DEF SchedInv
<1>4. CASE WaitBlock(t)
  <2>1. SchedInv' /\ status' \notin Booting /\ (status' = "run" => lock' = 0)
    <3>1. [state EXCEPT ![t] = "Blocked"] \in [Thread -> ThreadState]
      BY <1>1 DEF ThreadState
    <3> QED
      BY <1>1, <1>4, <3>1, ScheduleFacts DEF WaitBlock
  <2>2. SemaphoreTypeOK'
    BY <1>2, <1>4 DEF WaitBlock, Goto, At, SemaphoreTypeOK, Label, TestHolds
  <2>3. Control'
    BY <1>1, <1>2, <1>4, <2>1 DEF WaitBlock, Goto, At, SchedInv, NotStarted, SuspendedUnlocked,
       LockDiscipline, CallSites, TestHolds, SemaphoreTypeOK, Executing, Booting, Unlocked,
       WaitLabel, Label
  <2>4. ProtectUnit' /\ MutualExclusion'
    <3>1. \A u \in Thread : Critical(u)' <=> Critical(u)
      BY <1>4 DEF WaitBlock, Goto, At, Critical, CallSites, SemaphoreTypeOK, WaitLabel, Label
    <3> QED
      BY <1>4, <3>1 DEF WaitBlock, ProtectUnit, MutualExclusion
  <2> QED
    BY <2>1, <2>2, <2>3, <2>4 DEF SchedInv
<1>5. CASE WaitRelock(t)
  <2>1. SchedInv'
    BY <1>5, LockStepInv DEF WaitRelock, TakeLock, SchedInv, SThreadTypeOK
  <2>2. SemaphoreTypeOK'
    BY <1>2, <1>5 DEF WaitRelock, Goto, At, SemaphoreTypeOK, Label, TestHolds
  <2>3. Control'
    BY <1>1, <1>2, <1>5, <2>1 DEF WaitRelock, Goto, At, TakeLock, SchedInv, NotStarted, SuspendedUnlocked,
       LockDiscipline, CallSites, TestHolds, SemaphoreTypeOK, Executing, Booting, Unlocked,
       WaitLabel, Label
  <2>4. ProtectUnit' /\ MutualExclusion'
    <3>1. \A u \in Thread : Critical(u)' <=> Critical(u)
      BY <1>5 DEF WaitRelock, Goto, At, Critical, CallSites, SemaphoreTypeOK, WaitLabel, Label
    <3> QED
      BY <1>5, <3>1 DEF WaitRelock, ProtectUnit, MutualExclusion
  <2> QED
    BY <2>1, <2>2, <2>3, <2>4 DEF SchedInv
<1>6. CASE WaitPass(t)
  <2>1. SchedInv'
    BY <1>6, LockStepInv DEF WaitPass, schedVars, SchedInv, SThreadTypeOK
  <2>2. SemaphoreTypeOK'
    BY <1>2, <1>6 DEF WaitPass, Goto, At, SemaphoreTypeOK, Label, TestHolds
  <2>3. Control'
    BY <1>1, <1>2, <1>6, <2>1 DEF WaitPass, Goto, At, schedVars, SchedInv, NotStarted, SuspendedUnlocked,
       LockDiscipline, CallSites, TestHolds, SemaphoreTypeOK, Executing, Booting, Unlocked,
       WaitLabel, Label
  <2>4. ProtectUnit' /\ MutualExclusion'
    <3>1. \A u \in Thread : Critical(u)' <=> Critical(u)
      BY <1>6 DEF WaitPass, Goto, At, Critical, CallSites, SemaphoreTypeOK, WaitLabel, Label
    <3> QED
      BY <1>6, <3>1 DEF WaitPass, ProtectUnit, MutualExclusion
  <2> QED
    BY <2>1, <2>2, <2>3, <2>4 DEF SchedInv
<1>7. CASE WaitDec(t)
  <2>1. SchedInv'
    BY <1>7, LockStepInv DEF WaitDec, DropLock, SchedInv, SThreadTypeOK
  <2>2. SemaphoreTypeOK'
    BY <1>2, <1>7 DEF WaitDec, Goto, At, SemaphoreTypeOK, Label, TestHolds
  <2>3. Control'
    BY <1>1, <1>2, <1>7, <2>1 DEF WaitDec, Goto, At, DropLock, SchedInv, NotStarted, SuspendedUnlocked,
       LockDiscipline, CallSites, TestHolds, SemaphoreTypeOK, Executing, Booting, Unlocked,
       WaitLabel, Label
  <2>4. ProtectUnit' /\ MutualExclusion'
    <3>1. i' = [i EXCEPT ![arg[t]] = @ - 1] /\ pc' = [pc EXCEPT ![t] = "user"] /\ arg' = arg
      BY <1>7 DEF WaitDec, Goto
    <3>2. i[arg[t]] > 0 /\ i \in [Semaphores -> Nat] /\ "protect" \in Semaphores
      BY <1>7, FibTestAssumption DEF WaitDec, At, TestHolds, SemaphoreTypeOK
    <3>3. CASE arg[t] = "protect"
      <4>1. \A u \in Thread : ~Critical(u)
        BY <3>2, <3>3 DEF ProtectUnit
      <4>2. \A u \in Thread : Critical(u)' => u = t
        BY <3>1, <4>1 DEF Critical, SemaphoreTypeOK
      <4>3. i'["protect"] = 0
        BY <3>1, <3>2, <3>3 DEF ProtectUnit
      <4> QED
        BY <4>2, <4>3 DEF ProtectUnit, MutualExclusion
    <3>4. CASE arg[t] # "protect"
      <4>1. \A u \in Thread : Critical(u)' <=> Critical(u)
        BY <1>7, <3>1, <3>4 DEF WaitDec, At, Critical, CallSites, SemaphoreTypeOK, WaitLabel
      <4>2. i'["protect"] = i["protect"]
        BY <3>1, <3>2, <3>4
      <4> QED
        BY <4>1, <4>2 DEF ProtectUnit, MutualExclusion
    <3> QED
      BY <3>3, <3>4
  <2> QED
    BY <2>1, <2>2, <2>3, <2>4 DEF SchedInv
<1>8. CASE SignalInc(t)
  <2>1. SchedInv'
    BY <1>8, LockStepInv DEF SignalInc, schedVars, SchedInv, SThreadTypeOK
  <2>2. SemaphoreTypeOK'
    BY <1>2, <1>8 DEF SignalInc, Goto, At, SemaphoreTypeOK, Label, TestHolds
  <2>3. Control'
    BY <1>1, <1>2, <1>8, <2>1 DEF SignalInc, Goto, At, schedVars, SchedInv, NotStarted, SuspendedUnlocked,
       LockDiscipline, CallSites, TestHolds, SemaphoreTypeOK, Executing, Booting, Unlocked,
       WaitLabel, Label
  <2>4. ProtectUnit' /\ MutualExclusion'
    <3>1. /\ i' = [i EXCEPT ![arg[t]] = @ + 1]
          /\ pc' = [pc EXCEPT ![t] = pc'[t]] /\ pc'[t] \in {"signal_unlock", "signal_wake"}
      BY <1>8 DEF SignalInc, Goto, SemaphoreTypeOK
    <3>2. i \in [Semaphores -> Nat] /\ "protect" \in Semaphores
      BY FibTestAssumption DEF SemaphoreTypeOK
    <3>3. CASE arg[t] = "protect"
      <4>1. Critical(t)
        BY <1>8, <3>3 DEF SignalInc, At, Critical, CallSites, WaitLabel, Label
      <4>2. \A u \in Thread : ~Critical(u)'
        BY <1>8, <3>1, <3>3, <4>1
        DEF SignalInc, At, Critical, MutualExclusion, CallSites, WaitLabel, Label, SemaphoreTypeOK
      <4>3. i'["protect"] = 1
        BY <3>1, <3>2, <3>3, <4>1 DEF ProtectUnit
      <4> QED
        BY <4>2, <4>3 DEF ProtectUnit, MutualExclusion
    <3>4. CASE arg[t] # "protect"
      <4>1. \A u \in Thread : Critical(u)' <=> Critical(u)
        BY <1>8, <3>1, <3>4
        DEF SignalInc, At, Critical, CallSites, SemaphoreTypeOK, WaitLabel, Label
      <4>2. i'["protect"] = i["protect"]
        BY <3>1, <3>2, <3>4
      <4> QED
        BY <4>1, <4>2 DEF ProtectUnit, MutualExclusion
    <3> QED
      BY <3>3, <3>4
  <2> QED
    BY <2>1, <2>2, <2>3, <2>4 DEF SchedInv
<1>9. CASE SignalWake(t)
  <2>1. /\ SchedInv'
        /\ (status' = "run" => lock' = 0 /\ current' = current)
        /\ status' \notin Booting
    <3> DEFINE woken == links.head[arg[t]]
               wakes == woken # NULL /\ state[woken] = "Blocked" /\ ~take_faults(links, arg[t])
    <3>1. CASE wakes
      <4>1. woken \in Thread
        BY <1>1, <1>2, <3>1 DEF Links, Pointer
      <4>2. queue_take(links, arg[t]) \in Links
        BY <1>1, <1>2, TakeType
      <4>3. Requeue(queue_take(links, arg[t]), woken)
        BY <1>9, <3>1 DEF SignalWake
      <4> QED
        BY <1>1, <3>1, <4>1, <4>2, <4>3, RequeueFacts DEF Booting
    <3>2. CASE ~wakes
      <4>1. status' \in {"segv", "abort"} /\ UNCHANGED <<lock, current, state, links>>
        BY <1>9, <3>2 DEF SignalWake
      <4> QED
        BY <1>1, <4>1 DEF SchedInv, SThreadTypeOK, Status, Exited, Booting, OneRunning
    <3> QED
      BY <3>1, <3>2
  <2>2. SemaphoreTypeOK'
    BY <1>2, <1>9 DEF SignalWake, Goto, At, SemaphoreTypeOK, Label, TestHolds
  <2>3. Control'
    BY <1>1, <1>2, <1>9, <2>1 DEF SignalWake, Goto, At, SchedInv, NotStarted, SuspendedUnlocked,
       LockDiscipline, CallSites, TestHolds, SemaphoreTypeOK, Executing, Booting, Unlocked,
       WaitLabel, Label
  <2>4. ProtectUnit' /\ MutualExclusion'
    <3>1. \A u \in Thread : Critical(u)' <=> Critical(u)
      BY <1>9 DEF SignalWake, Goto, At, Critical, CallSites, SemaphoreTypeOK, WaitLabel, Label
    <3> QED
      BY <1>9, <3>1 DEF SignalWake, ProtectUnit, MutualExclusion
  <2> QED
    BY <2>1, <2>2, <2>3, <2>4 DEF SchedInv
<1>10. CASE SignalRelock(t)
  <2>1. SchedInv'
    BY <1>10, LockStepInv DEF SignalRelock, TakeLock, SchedInv, SThreadTypeOK
  <2>2. SemaphoreTypeOK'
    BY <1>2, <1>10 DEF SignalRelock, Goto, At, SemaphoreTypeOK, Label, TestHolds
  <2>3. Control'
    BY <1>1, <1>2, <1>10, <2>1 DEF SignalRelock, Goto, At, TakeLock, SchedInv, NotStarted, SuspendedUnlocked,
       LockDiscipline, CallSites, TestHolds, SemaphoreTypeOK, Executing, Booting, Unlocked,
       WaitLabel, Label
  <2>4. ProtectUnit' /\ MutualExclusion'
    <3>1. \A u \in Thread : Critical(u)' <=> Critical(u)
      BY <1>10 DEF SignalRelock, Goto, At, Critical, CallSites, SemaphoreTypeOK, WaitLabel, Label
    <3> QED
      BY <1>10, <3>1 DEF SignalRelock, ProtectUnit, MutualExclusion
  <2> QED
    BY <2>1, <2>2, <2>3, <2>4 DEF SchedInv
<1>11. CASE SignalUnlock(t)
  <2>1. SchedInv'
    BY <1>11, LockStepInv DEF SignalUnlock, DropLock, SchedInv, SThreadTypeOK
  <2>2. SemaphoreTypeOK'
    BY <1>2, <1>11 DEF SignalUnlock, Goto, At, SemaphoreTypeOK, Label, TestHolds
  <2>3. Control'
    BY <1>1, <1>2, <1>11, <2>1 DEF SignalUnlock, Goto, At, DropLock, SchedInv, NotStarted, SuspendedUnlocked,
       LockDiscipline, CallSites, TestHolds, SemaphoreTypeOK, Executing, Booting, Unlocked,
       WaitLabel, Label
  <2>4. ProtectUnit' /\ MutualExclusion'
    <3>1. \A u \in Thread : Critical(u)' <=> Critical(u)
      BY <1>11 DEF SignalUnlock, Goto, At, Critical, CallSites, SemaphoreTypeOK, WaitLabel, Label
    <3> QED
      BY <1>11, <3>1 DEF SignalUnlock, ProtectUnit, MutualExclusion
  <2> QED
    BY <2>1, <2>2, <2>3, <2>4 DEF SchedInv
<1> QED
  BY <1>3, <1>4, <1>5, <1>6, <1>7, <1>8, <1>9, <1>10, <1>11 DEF SemaphoreStep

-----------------------------------------------------------------------------
(* The steps of the producers and consumers.                               *)

\* A call of semaphore_wait or semaphore_signal takes the lock.
LEMMA CallInv ==
  ASSUME IInv, NEW t \in Thread, NEW s \in Semaphores, NEW label \in {"wait_test", "signal_inc"},
         Call(t, label, s)
  PROVE  SchedInv' /\ SemaphoreTypeOK' /\ NotStarted' /\ SuspendedUnlocked' /\ LockDiscipline'
<1> USE DEF IInv, TypeOK
<1>1. status = "run" /\ current = t
  BY DEF Call, At, Executing
<1>2. SchedInv'
  BY LockStepInv DEF Call, TakeLock
<1>3. SemaphoreTypeOK'
  BY DEF Call, SemaphoreTypeOK, Label
<1> QED
  BY <1>1, <1>2, <1>3 DEF Call, TakeLock, NotStarted, SuspendedUnlocked, LockDiscipline,
     Executing, Booting, SemaphoreTypeOK, Label, Unlocked

LEMMA BufferStepInv ==
  ASSUME IInv, UNCHANGED timer, NEW t \in Thread, BufferStep(t)
  PROVE  IInv'
<1> USE DEF IInv
<1>1. "protect" \in Semaphores /\ "producers" \in Semaphores /\ "consumers" \in Semaphores
  BY FibTestAssumption
<1>2. CASE AddWaitSpace(t)
  <2>1. SchedInv' /\ SemaphoreTypeOK' /\ NotStarted' /\ SuspendedUnlocked' /\ LockDiscipline'
    BY <1>1, <1>2, CallInv DEF AddWaitSpace, WaitLock
  <2>2. TypeOK'
    BY <1>2, <2>1 DEF AddWaitSpace, Move, At, TypeOK, SchedInv, bufVars, AddSite, TakeSite
  <2>3. CallSites' /\ TestHolds'
    BY <1>2 DEF AddWaitSpace, WaitLock, Call, Move, At, TypeOK, SemaphoreTypeOK, CallSites,
       TestHolds, WaitLabel, Label
  <2>4. ProtectUnit' /\ MutualExclusion'
    <3>1. \A u \in Thread : Critical(u)' <=> Critical(u)
      BY <1>2 DEF AddWaitSpace, WaitLock, Call, Move, At, TypeOK, SemaphoreTypeOK, Critical
    <3> QED
      BY <1>2, <3>1 DEF AddWaitSpace, WaitLock, Call, ProtectUnit, MutualExclusion
  <2> QED
    BY <2>1, <2>2, <2>3, <2>4
<1>3. CASE AddWaitProtect(t)
  <2>1. SchedInv' /\ SemaphoreTypeOK' /\ NotStarted' /\ SuspendedUnlocked' /\ LockDiscipline'
    BY <1>1, <1>3, CallInv DEF AddWaitProtect, WaitLock
  <2>2. TypeOK'
    BY <1>3, <2>1 DEF AddWaitProtect, Move, At, TypeOK, SchedInv, bufVars, AddSite, TakeSite
  <2>3. CallSites' /\ TestHolds'
    BY <1>3 DEF AddWaitProtect, WaitLock, Call, Move, At, TypeOK, SemaphoreTypeOK, CallSites,
       TestHolds, WaitLabel, Label
  <2>4. ProtectUnit' /\ MutualExclusion'
    <3>1. \A u \in Thread : Critical(u)' <=> Critical(u)
      BY <1>3 DEF AddWaitProtect, WaitLock, Call, Move, At, TypeOK, SemaphoreTypeOK, Critical
    <3> QED
      BY <1>3, <3>1 DEF AddWaitProtect, WaitLock, Call, ProtectUnit, MutualExclusion
  <2> QED
    BY <2>1, <2>2, <2>3, <2>4
<1>4. CASE AddSignalItem(t)
  <2>1. SchedInv' /\ SemaphoreTypeOK' /\ NotStarted' /\ SuspendedUnlocked' /\ LockDiscipline'
    BY <1>1, <1>4, CallInv DEF AddSignalItem, SignalLock
  <2>2. TypeOK'
    BY <1>4, <2>1 DEF AddSignalItem, Move, At, TypeOK, SchedInv, bufVars, AddSite, TakeSite
  <2>3. CallSites' /\ TestHolds'
    BY <1>4 DEF AddSignalItem, SignalLock, Call, Move, At, TypeOK, SemaphoreTypeOK, CallSites,
       TestHolds, WaitLabel, Label
  <2>4. ProtectUnit' /\ MutualExclusion'
    <3>1. \A u \in Thread : Critical(u)' <=> Critical(u)
      BY <1>4 DEF AddSignalItem, SignalLock, Call, Move, At, TypeOK, SemaphoreTypeOK, Critical
    <3> QED
      BY <1>4, <3>1 DEF AddSignalItem, SignalLock, Call, ProtectUnit, MutualExclusion
  <2> QED
    BY <2>1, <2>2, <2>3, <2>4
<1>5. CASE AddSignalProtect(t)
  <2>1. SchedInv' /\ SemaphoreTypeOK' /\ NotStarted' /\ SuspendedUnlocked' /\ LockDiscipline'
    BY <1>1, <1>5, CallInv DEF AddSignalProtect, SignalLock
  <2>2. TypeOK'
    BY <1>5, <2>1 DEF AddSignalProtect, Move, At, TypeOK, SchedInv, bufVars, AddSite, TakeSite
  <2>3. CallSites' /\ TestHolds'
    BY <1>5 DEF AddSignalProtect, SignalLock, Call, Move, At, TypeOK, SemaphoreTypeOK, CallSites,
       TestHolds, WaitLabel, Label
  <2>4. ProtectUnit' /\ MutualExclusion'
    <3>1. \A u \in Thread : Critical(u)' <=> Critical(u)
      BY <1>5 DEF AddSignalProtect, SignalLock, Call, Move, At, TypeOK, SemaphoreTypeOK, Critical
    <3> QED
      BY <1>5, <3>1 DEF AddSignalProtect, SignalLock, Call, ProtectUnit, MutualExclusion
  <2> QED
    BY <2>1, <2>2, <2>3, <2>4
<1>6. CASE TakeWaitItem(t)
  <2>1. SchedInv' /\ SemaphoreTypeOK' /\ NotStarted' /\ SuspendedUnlocked' /\ LockDiscipline'
    BY <1>1, <1>6, CallInv DEF TakeWaitItem, WaitLock
  <2>2. TypeOK'
    BY <1>6, <2>1 DEF TakeWaitItem, Move, At, TypeOK, SchedInv, bufVars, AddSite, TakeSite
  <2>3. CallSites' /\ TestHolds'
    BY <1>6 DEF TakeWaitItem, WaitLock, Call, Move, At, TypeOK, SemaphoreTypeOK, CallSites,
       TestHolds, WaitLabel, Label
  <2>4. ProtectUnit' /\ MutualExclusion'
    <3>1. \A u \in Thread : Critical(u)' <=> Critical(u)
      BY <1>6 DEF TakeWaitItem, WaitLock, Call, Move, At, TypeOK, SemaphoreTypeOK, Critical
    <3> QED
      BY <1>6, <3>1 DEF TakeWaitItem, WaitLock, Call, ProtectUnit, MutualExclusion
  <2> QED
    BY <2>1, <2>2, <2>3, <2>4
<1>7. CASE TakeWaitProtect(t)
  <2>1. SchedInv' /\ SemaphoreTypeOK' /\ NotStarted' /\ SuspendedUnlocked' /\ LockDiscipline'
    BY <1>1, <1>7, CallInv DEF TakeWaitProtect, WaitLock
  <2>2. TypeOK'
    BY <1>7, <2>1 DEF TakeWaitProtect, Move, At, TypeOK, SchedInv, bufVars, AddSite, TakeSite
  <2>3. CallSites' /\ TestHolds'
    BY <1>7 DEF TakeWaitProtect, WaitLock, Call, Move, At, TypeOK, SemaphoreTypeOK, CallSites,
       TestHolds, WaitLabel, Label
  <2>4. ProtectUnit' /\ MutualExclusion'
    <3>1. \A u \in Thread : Critical(u)' <=> Critical(u)
      BY <1>7 DEF TakeWaitProtect, WaitLock, Call, Move, At, TypeOK, SemaphoreTypeOK, Critical
    <3> QED
      BY <1>7, <3>1 DEF TakeWaitProtect, WaitLock, Call, ProtectUnit, MutualExclusion
  <2> QED
    BY <2>1, <2>2, <2>3, <2>4
<1>8. CASE TakeSignalSpace(t)
  <2>1. SchedInv' /\ SemaphoreTypeOK' /\ NotStarted' /\ SuspendedUnlocked' /\ LockDiscipline'
    BY <1>1, <1>8, CallInv DEF TakeSignalSpace, SignalLock
  <2>2. TypeOK'
    BY <1>8, <2>1 DEF TakeSignalSpace, Move, At, TypeOK, SchedInv, bufVars, AddSite, TakeSite
  <2>3. CallSites' /\ TestHolds'
    BY <1>8 DEF TakeSignalSpace, SignalLock, Call, Move, At, TypeOK, SemaphoreTypeOK, CallSites,
       TestHolds, WaitLabel, Label
  <2>4. ProtectUnit' /\ MutualExclusion'
    <3>1. \A u \in Thread : Critical(u)' <=> Critical(u)
      BY <1>8 DEF TakeSignalSpace, SignalLock, Call, Move, At, TypeOK, SemaphoreTypeOK, Critical
    <3> QED
      BY <1>8, <3>1 DEF TakeSignalSpace, SignalLock, Call, ProtectUnit, MutualExclusion
  <2> QED
    BY <2>1, <2>2, <2>3, <2>4
<1>9. CASE TakeSignalProtect(t)
  <2>1. SchedInv' /\ SemaphoreTypeOK' /\ NotStarted' /\ SuspendedUnlocked' /\ LockDiscipline'
    BY <1>1, <1>9, CallInv DEF TakeSignalProtect, SignalLock
  <2>2. TypeOK'
    BY <1>9, <2>1 DEF TakeSignalProtect, Move, At, TypeOK, SchedInv, bufVars, AddSite, TakeSite
  <2>3. CallSites' /\ TestHolds'
    BY <1>9 DEF TakeSignalProtect, SignalLock, Call, Move, At, TypeOK, SemaphoreTypeOK, CallSites,
       TestHolds, WaitLabel, Label
  <2>4. ProtectUnit' /\ MutualExclusion'
    <3>1. \A u \in Thread : Critical(u)' <=> Critical(u)
      BY <1>9 DEF TakeSignalProtect, SignalLock, Call, Move, At, TypeOK, SemaphoreTypeOK, Critical
    <3> QED
      BY <1>9, <3>1 DEF TakeSignalProtect, SignalLock, Call, ProtectUnit, MutualExclusion
  <2> QED
    BY <2>1, <2>2, <2>3, <2>4
<1>10. CASE AddStore(t)
  <2>1. TypeOK'
    BY <1>10, FibTestAssumption DEF AddStore, Move, At, TypeOK, SThreadTypeOK, SemaphoreTypeOK,
       schedVars, semVars, AddSite, TakeSite, Element
  <2>2. \A u \in Thread : Critical(u)' <=> Critical(u)
    BY <1>10 DEF AddStore, Move, At, TypeOK, semVars, Critical
  <2> QED
    BY <1>10, <2>1, <2>2 DEF AddStore, Move, At, TypeOK, schedVars, semVars, SchedInv, OneRunning,
       NotStarted, SuspendedUnlocked, LockDiscipline, Executing, CallSites, TestHolds,
       ProtectUnit, MutualExclusion, WaitLabel, Label
<1>11. CASE AddCount(t)
  <2>1. TypeOK'
    BY <1>11, FibTestAssumption DEF AddCount, Move, At, TypeOK, SThreadTypeOK, SemaphoreTypeOK,
       schedVars, semVars, AddSite, TakeSite, Element
  <2>2. \A u \in Thread : Critical(u)' <=> Critical(u)
    BY <1>11 DEF AddCount, Move, At, TypeOK, semVars, Critical
  <2> QED
    BY <1>11, <2>1, <2>2 DEF AddCount, Move, At, TypeOK, schedVars, semVars, SchedInv, OneRunning,
       NotStarted, SuspendedUnlocked, LockDiscipline, Executing, CallSites, TestHolds,
       ProtectUnit, MutualExclusion, WaitLabel, Label
<1>12. CASE ProducerNext(t)
  <2>1. TypeOK'
    <3>1. t \in Producer /\ elem[t] \in Element
      BY <1>12 DEF ProducerNext, Move, TypeOK, AddSite
    <3>2. (elem[t].arg + 1) % Modulus \in 0 .. Modulus - 1
      BY <3>1, FibTestAssumption DEF Element
    <3> DEFINE new == [elem[t] EXCEPT !.arg = (elem[t].arg + 1) % Modulus]
    <3>3. elem' = [elem EXCEPT ![t] = new]
      BY <1>12 DEF ProducerNext
    <3>4. new \in Element
      BY <3>1, <3>2 DEF Element
    <3> HIDE DEF new
    <3>5. elem' \in [Thread -> Element \cup {Empty}] /\ \A u \in Producer : elem'[u] \in Element
      BY <3>1, <3>3, <3>4 DEF TypeOK
    <3> QED
      BY <1>12, <3>5 DEF ProducerNext, Move, At, TypeOK, SThreadTypeOK, SemaphoreTypeOK,
         schedVars, semVars, bufVars, AddSite, TakeSite
  <2>2. \A u \in Thread : Critical(u)' <=> Critical(u)
    BY <1>12 DEF ProducerNext, Move, At, TypeOK, semVars, Critical
  <2> QED
    BY <1>12, <2>1, <2>2 DEF ProducerNext, Move, At, TypeOK, schedVars, semVars, SchedInv, OneRunning,
       NotStarted, SuspendedUnlocked, LockDiscipline, Executing, CallSites, TestHolds,
       ProtectUnit, MutualExclusion, WaitLabel, Label
<1>13. CASE TakeCopy(t)
  <2>1. TypeOK'
    BY <1>13, FibTestAssumption DEF TakeCopy, Move, At, TypeOK, SThreadTypeOK, SemaphoreTypeOK,
       schedVars, semVars, AddSite, TakeSite, Element
  <2>2. \A u \in Thread : Critical(u)' <=> Critical(u)
    BY <1>13 DEF TakeCopy, Move, At, TypeOK, semVars, Critical
  <2> QED
    BY <1>13, <2>1, <2>2 DEF TakeCopy, Move, At, TypeOK, schedVars, semVars, SchedInv, OneRunning,
       NotStarted, SuspendedUnlocked, LockDiscipline, Executing, CallSites, TestHolds,
       ProtectUnit, MutualExclusion, WaitLabel, Label
<1>14. CASE TakeAdvance(t)
  <2>1. TypeOK'
    BY <1>14, FibTestAssumption DEF TakeAdvance, Move, At, TypeOK, SThreadTypeOK, SemaphoreTypeOK,
       schedVars, semVars, AddSite, TakeSite, Element
  <2>2. \A u \in Thread : Critical(u)' <=> Critical(u)
    BY <1>14 DEF TakeAdvance, Move, At, TypeOK, semVars, Critical
  <2> QED
    BY <1>14, <2>1, <2>2 DEF TakeAdvance, Move, At, TypeOK, schedVars, semVars, SchedInv, OneRunning,
       NotStarted, SuspendedUnlocked, LockDiscipline, Executing, CallSites, TestHolds,
       ProtectUnit, MutualExclusion, WaitLabel, Label
<1>15. CASE ConsumerCheck(t)
  <2>1. SchedInv'
    BY <1>15 DEF ConsumerCheck, Move, At, Executing, SchedInv, SThreadTypeOK, Status, Exited,
       Booting, OneRunning
  <2>2. TypeOK'
    BY <1>15, <2>1 DEF ConsumerCheck, Move, TypeOK, SchedInv, SemaphoreTypeOK, semVars, bufVars,
       AddSite, TakeSite
  <2>3. \A u \in Thread : Critical(u)' <=> Critical(u)
    BY <1>15 DEF ConsumerCheck, Move, At, TypeOK, semVars, Critical
  <2> QED
    BY <1>15, <2>1, <2>2, <2>3 DEF ConsumerCheck, Move, At, TypeOK, semVars, NotStarted,
       SuspendedUnlocked, LockDiscipline, Executing, Booting, CallSites, TestHolds,
       ProtectUnit, MutualExclusion, WaitLabel, Label
<1> QED
  BY <1>2, <1>3, <1>4, <1>5, <1>6, <1>7, <1>8, <1>9, <1>10, <1>11, <1>12, <1>13, <1>14, <1>15 DEF BufferStep

-----------------------------------------------------------------------------
(* The steps of main() and of the timer.                                   *)

LEMMA SystemInv ==
  ASSUME IInv, System
  PROVE  IInv'
<1> USE DEF IInv, System, programVars, semVars, bufVars
<1>1. CASE Boot
  <2>1. SchedInv' /\ (status' = "run" => lock' = 0) /\ status \in Booting
    BY <1>1, BootFacts
  <2>2. \A t \in Thread : pc[t] = "user"
    BY <2>1 DEF NotStarted
  <2>3. NotStarted' /\ SuspendedUnlocked' /\ LockDiscipline'
    BY <2>1, <2>2 DEF NotStarted, SuspendedUnlocked, LockDiscipline, Executing, Unlocked
  <2> QED
    BY <2>1, <2>3 DEF TypeOK, SchedInv, SemaphoreTypeOK, CallSites, TestHolds, ProtectUnit,
       MutualExclusion, Critical
<1>2. CASE Preempt
  <2>1. /\ status = "run" /\ lock = 0 /\ current \in Thread
        /\ state \in [Thread -> ThreadState] /\ state[current] = "Running"
    BY <1>2 DEF Preempt, SchedInv, SThreadTypeOK, OneRunning
  <2>2. SchedInv' /\ status' \notin Booting /\ (status' = "run" => lock' = 0)
    BY <1>2, <2>1, ScheduleFacts DEF Preempt
  <2>3. \A t \in Thread : pc[t] \in Unlocked
    BY <2>1 DEF SuspendedUnlocked, LockDiscipline, Executing, Unlocked
  <2>4. NotStarted' /\ SuspendedUnlocked' /\ LockDiscipline'
    BY <2>2, <2>3 DEF NotStarted, SuspendedUnlocked, LockDiscipline, Executing, Unlocked
  <2> QED
    BY <2>2, <2>4 DEF TypeOK, SchedInv, SemaphoreTypeOK, CallSites, TestHolds, ProtectUnit,
       MutualExclusion, Critical
<1> QED
  BY <1>1, <1>2

-----------------------------------------------------------------------------
\* The inductive invariant of the whole program, for every set of threads, length
\* of the buffer, modulus, order of creation and setting of the timer.
THEOREM Invariance == Spec => []IInv
<1>1. Init => IInv
  BY InitInv
<1>2. IInv /\ [Next]_vars => IInv'
  <2> SUFFICES ASSUME IInv, [Next]_vars PROVE IInv'
    OBVIOUS
  <2>1. CASE System
    BY <2>1, SystemInv
  <2>2. ASSUME NEW t \in Thread, Step(t) PROVE IInv'
    BY <2>2, SemaphoreStepInv, BufferStepInv DEF Step
  <2>3. CASE UNCHANGED vars
    BY <2>3 DEF vars, schedVars, semVars, bufVars, IInv, TypeOK, SThreadTypeOK, SemaphoreTypeOK,
       SchedInv, OneRunning, NotStarted, SuspendedUnlocked, LockDiscipline, Executing, CallSites,
       TestHolds, ProtectUnit, MutualExclusion, Critical
  <2> QED
    BY <2>1, <2>2, <2>3 DEF Next
<1> QED
  BY <1>1, <1>2, PTL DEF Spec

\* Every variable of the program keeps its type; in particular no semaphore is ever
\* decremented below zero (semaphore.c:84).
THEOREM TypeCorrect == Spec => []TypeOK
BY Invariance, PTL DEF IInv

\* sthread.c:92 for any number of threads: while the process runs, `current' is
\* Running and no other thread is.
THEOREM CurrentAloneRuns == Spec => []OneRunning
BY Invariance, PTL DEF IInv, SchedInv

\* Every __sthread_lock in sthread.c and semaphore.c finds the lock free, so that
\* ignoring its result is sound, and what must be done under the lock is.
THEOREM LockNeverContended == Spec => []LockDiscipline
BY Invariance, PTL DEF IInv

\* bounded_buffer.c:39 for any number of producers and consumers: at most one
\* thread is between wait(protect) and signal(protect).
THEOREM BufferMutex == Spec => []MutualExclusion
BY Invariance, PTL DEF IInv
-----------------------------------------------------------------------------
(* The buffer is a first-in first-out queue.  What the semaphores count is *)
(* in three places: the semaphore, the buffer, and the hands of threads.   *)

\* The threads that hold a unit of "producers": they have passed the wait for it
\* and have not counted their element, or have freed a slot and not signalled it.
SpaceHeld ==
  {t \in Thread : \/ at[t] \in {"add_enter", "take_notify"} /\ pc[t] = "user"
                  \/ at[t] \in {"add_store", "add_count"}
                  \/ at[t] = "take_leave" /\ pc[t] = "signal_inc"}

\* The same for "consumers".
ItemHeld ==
  {t \in Thread : \/ at[t] \in {"take_enter", "add_notify"} /\ pc[t] = "user"
                  \/ at[t] \in {"take_copy", "take_advance"}
                  \/ at[t] = "add_leave" /\ pc[t] = "signal_inc"}

\* Every slot of the buffer is one unit of "producers" or holds an element, and
\* every element is one unit of "consumers".
UnitsAccounted ==
  /\ IsFiniteSet(SpaceHeld) /\ IsFiniteSet(ItemHeld)
  /\ count \in 0 .. Length
  /\ i["producers"] + Cardinality(SpaceHeld) + count = Length
  /\ i["consumers"] + Cardinality(ItemHeld) = count

\* A producer's elements carry its id; the one it has stored and not counted is in
\* the slot behind the last.
Stored ==
  \A t \in Producer :
    /\ elem[t].id = t
    /\ at[t] = "add_count" => buffer[(first + count) % Length] = elem[t]

\* Every slot counted, and not yet copied out, holds an element, and so does what
\* a consumer has copied until it has checked it.
Filled ==
  /\ \A k \in DOMAIN fifo : fifo[k] \in Element
  /\ \A t \in Consumer : at[t] \in {"take_advance", "take_notify", "take_leave", "check"}
                           => elem[t] \in Element
  /\ status # "nomatch"

FifoInv == UnitsAccounted /\ Stored /\ Filled

\* Going round the buffer once more than there are slots is going back.
LEMMA Wrap ==
  ASSUME NEW x \in 0 .. 2 * Length - 1
  PROVE  /\ x < Length => x % Length = x
         /\ x >= Length => x % Length = x - Length
         /\ x % Length \in 0 .. Length - 1
BY FibTestAssumption

\* The slot that is j slots round from slot f, and that no other within a round is.
LEMMA Slot ==
  ASSUME NEW f \in 0 .. Length - 1, NEW j \in 0 .. Length
  PROVE  /\ f + j < Length => (f + j) % Length = f + j
         /\ f + j >= Length => (f + j) % Length = f + j - Length
         /\ (f + j) % Length \in 0 .. Length - 1
<1> DEFINE x == f + j
<1>1. x \in 0 .. 2 * Length - 1
  BY FibTestAssumption
<1> HIDE DEF x
<1>2. /\ x < Length => x % Length = x
      /\ x >= Length => x % Length = x - Length
      /\ x % Length \in 0 .. Length - 1
  BY <1>1, Wrap
<1> QED
  BY <1>2, FibTestAssumption DEF x

LEMMA SlotsDiffer ==
  ASSUME NEW f \in 0 .. Length - 1, NEW j \in 0 .. Length, NEW k \in 0 .. Length,
         j < k, k < j + Length
  PROVE  (f + j) % Length # (f + k) % Length
<1> DEFINE sj == (f + j) % Length
           sk == (f + k) % Length
<1>1. /\ f + j < Length => sj = f + j
      /\ f + j >= Length => sj = f + j - Length
  BY Slot
<1>2. /\ f + k < Length => sk = f + k
      /\ f + k >= Length => sk = f + k - Length
  BY Slot
<1> HIDE DEF sj, sk
<1> QED
  <2>1. sj # sk
    BY <1>1, <1>2, FibTestAssumption
  <2> QED
    BY <2>1 DEF sj, sk

\* Going on from the next slot is going one further from this one.
LEMMA SlotShift ==
  ASSUME NEW f \in 0 .. Length - 1, NEW j \in 0 .. Length - 1
  PROVE  (((f + 1) % Length) + j) % Length = (f + (j + 1)) % Length
<1> DEFINE g == (f + 1) % Length
           sj == (g + j) % Length
           sk == (f + (j + 1)) % Length
<1>1. /\ f + 1 < Length => g = f + 1
      /\ f + 1 >= Length => g = f + 1 - Length
      /\ g \in 0 .. Length - 1
  BY Slot, FibTestAssumption
<1>2. /\ f + (j + 1) < Length => sk = f + (j + 1)
      /\ f + (j + 1) >= Length => sk = f + (j + 1) - Length
  <2>1. j + 1 \in 0 .. Length
    BY FibTestAssumption
  <2> QED
    BY <2>1, Slot
<1> HIDE DEF g
<1>3. /\ g + j < Length => sj = g + j
      /\ g + j >= Length => sj = g + j - Length
  <2>1. j \in 0 .. Length
    BY FibTestAssumption
  <2> QED
    BY <1>1, <2>1, Slot
<1> HIDE DEF sj, sk
<1>4. sj = sk
  BY <1>1, <1>2, <1>3, FibTestAssumption
<1> QED
  BY <1>4 DEF sj, sk, g

\* Two sequences of one length with the same elements are equal.
LEMMA SeqEqual ==
  ASSUME NEW S, NEW s \in Seq(S), NEW u \in Seq(S), Len(s) = Len(u),
         \A k \in 1 .. Len(s) : s[k] = u[k]
  PROVE  s = u
OBVIOUS

\* A unit handed on from one holder to another.
LEMMA HandOn ==
  ASSUME NEW a \in Int, NEW b \in Int, NEW c \in Int
  PROVE  a + (b - 1) + (c + 1) = a + b + c
OBVIOUS

LEMMA HandBack ==
  ASSUME NEW a \in Int, NEW b \in Int, NEW c \in Int
  PROVE  a + (b + 1) + (c - 1) = a + b + c
OBVIOUS

LEMMA GrowByOne ==
  ASSUME NEW S, IsFiniteSet(S), NEW t, t \notin S
  PROVE  IsFiniteSet(S \cup {t}) /\ Cardinality(S \cup {t}) = Cardinality(S) + 1 /\ Cardinality(S) \in Nat
BY FS_AddElement, FS_CardinalityType

LEMMA ShrinkByOne ==
  ASSUME NEW S, IsFiniteSet(S), NEW t \in S
  PROVE  /\ IsFiniteSet(S \ {t}) /\ Cardinality(S \ {t}) = Cardinality(S) - 1
         /\ Cardinality(S) \in Nat /\ Cardinality(S) > 0
<1>1. IsFiniteSet(S \ {t}) /\ Cardinality(S \ {t}) = Cardinality(S) - 1 /\ Cardinality(S) \in Nat
  BY FS_RemoveElement, FS_CardinalityType
<1>2. Cardinality(S \ {t}) \in Nat
  BY <1>1, FS_CardinalityType
<1> QED
  BY <1>1, <1>2

\* The units stay where they are in a step that moves none.
LEMMA UnitsStay ==
  ASSUME UnitsAccounted, SpaceHeld' = SpaceHeld, ItemHeld' = ItemHeld, count' = count,
         i'["producers"] = i["producers"], i'["consumers"] = i["consumers"]
  PROVE  UnitsAccounted'
BY DEF UnitsAccounted

LEMMA FifoInit == Init => FifoInv
<1> SUFFICES ASSUME Init PROVE FifoInv
  OBVIOUS
<1> USE DEF Init, SThreadInit, SemaphoreInit
<1>1. SpaceHeld = {} /\ ItemHeld = {}
  BY DEF SpaceHeld, ItemHeld
<1>2. IsFiniteSet({}) /\ Cardinality({}) = 0
  BY FS_EmptySet
<1>3. UnitsAccounted
  BY <1>1, <1>2, FibTestAssumption DEF UnitsAccounted
<1>4. Stored
  BY FibTestAssumption DEF Stored
<1>5. Filled
  <2>1. \A t \in Thread : at[t] \in {"add", "take"}
    OBVIOUS
  <2>2. DOMAIN fifo = 1 .. 0
    BY <2>1 DEF fifo
  <2> QED
    BY <2>1, <2>2, FibTestAssumption DEF Filled
<1> QED
  BY <1>3, <1>4, <1>5 DEF FifoInv

\* The semaphore operations move the units between the semaphores and the threads'
\* hands, and touch neither the buffer nor the places of the loops.
LEMMA SemaphoreStepUnits ==
  ASSUME IInv, FifoInv, NEW t \in Thread, SemaphoreStep(t), UNCHANGED <<at, elem, bufVars>>
  PROVE  FifoInv'
<1> USE DEF FifoInv, bufVars
<1>1. /\ pc \in [Thread -> Label] /\ arg \in [Thread -> Semaphores] /\ i \in [Semaphores -> Nat]
      /\ "producers" \in Semaphores /\ "consumers" \in Semaphores
      /\ t \in Producer <=> at[t] \in AddSite
      /\ CallSites
  BY FibTestAssumption DEF IInv, TypeOK, SemaphoreTypeOK
<1>2. Stored'
  BY DEF Stored
<1>3. status' # "nomatch"
  <2>1. status # "nomatch"
    BY DEF Filled
  <2> QED
    BY <2>1 DEF SemaphoreStep, WaitEnqueue, WaitBlock, WaitRelock, WaitPass, WaitDec, SignalInc,
       SignalWake, SignalRelock, SignalUnlock, schedVars, TakeLock, DropLock, Schedule, Dispatch,
       Requeue
<1>4. Filled'
  <2>1. fifo' = fifo
    BY DEF fifo
  <2> QED
    BY <1>3, <2>1 DEF Filled
<1>5. UnitsAccounted'
  <2>1. CASE WaitDec(t)
    <3>1. /\ pc[t] = "wait_dec" /\ pc' = [pc EXCEPT ![t] = "user"]
          /\ i' = [i EXCEPT ![arg[t]] = @ - 1] /\ i[arg[t]] > 0
      BY <2>1 DEF WaitDec, At, Goto, IInv, TestHolds
    <3>2. CASE arg[t] = "producers"
      <4>1. at[t] = "add_enter"
        BY <1>1, <3>1, <3>2 DEF CallSites, WaitLabel
      <4>2. SpaceHeld' = SpaceHeld \cup {t} /\ t \notin SpaceHeld /\ ItemHeld' = ItemHeld
        BY <1>1, <3>1, <4>1 DEF SpaceHeld, ItemHeld
      <4>3. /\ IsFiniteSet(SpaceHeld') /\ Cardinality(SpaceHeld) \in Nat
            /\ Cardinality(SpaceHeld') = Cardinality(SpaceHeld) + 1
        BY <4>2, GrowByOne DEF UnitsAccounted
      <4>4. /\ i'["producers"] = i["producers"] - 1 /\ i["producers"] \in Nat
            /\ i'["consumers"] = i["consumers"]
        BY <1>1, <3>1, <3>2
      <4> QED
        BY <4>2, <4>3, <4>4, FibTestAssumption DEF UnitsAccounted
    <3>3. CASE arg[t] = "consumers"
      <4>1. at[t] = "take_enter"
        BY <1>1, <3>1, <3>3 DEF CallSites, WaitLabel
      <4>2. ItemHeld' = ItemHeld \cup {t} /\ t \notin ItemHeld /\ SpaceHeld' = SpaceHeld
        BY <1>1, <3>1, <4>1 DEF SpaceHeld, ItemHeld
      <4>3. /\ IsFiniteSet(ItemHeld') /\ Cardinality(ItemHeld) \in Nat
            /\ Cardinality(ItemHeld') = Cardinality(ItemHeld) + 1
        BY <4>2, GrowByOne DEF UnitsAccounted
      <4>4. /\ i'["consumers"] = i["consumers"] - 1 /\ i["consumers"] \in Nat
            /\ i'["producers"] = i["producers"]
        BY <1>1, <3>1, <3>3
      <4> QED
        BY <4>2, <4>3, <4>4, FibTestAssumption DEF UnitsAccounted
    <3>4. CASE arg[t] \notin {"producers", "consumers"}
      <4>1. at[t] \in {"add_store", "take_copy"}
        BY <1>1, <3>1, <3>4 DEF CallSites, WaitLabel
      <4>2. ItemHeld' = ItemHeld /\ SpaceHeld' = SpaceHeld
        BY <1>1, <3>1, <4>1 DEF SpaceHeld, ItemHeld
      <4> QED
        BY <1>1, <3>1, <3>4, <4>2, UnitsStay
    <3> QED
      BY <3>2, <3>3, <3>4
  <2>2. CASE SignalInc(t)
    <3>1. /\ pc[t] = "signal_inc" /\ pc' = [pc EXCEPT ![t] = pc'[t]]
          /\ pc'[t] \in {"signal_unlock", "signal_wake"}
          /\ i' = [i EXCEPT ![arg[t]] = @ + 1]
      BY <1>1, <2>2 DEF SignalInc, At, Goto
    <3>2. CASE arg[t] = "producers"
      <4>1. at[t] = "take_leave"
        BY <1>1, <3>1, <3>2 DEF CallSites, WaitLabel, Label
      <4>2. SpaceHeld' = SpaceHeld \ {t} /\ t \in SpaceHeld /\ ItemHeld' = ItemHeld
        BY <1>1, <3>1, <4>1 DEF SpaceHeld, ItemHeld
      <4>3. /\ IsFiniteSet(SpaceHeld') /\ Cardinality(SpaceHeld) \in Nat
            /\ Cardinality(SpaceHeld') = Cardinality(SpaceHeld) - 1
        BY <4>2, ShrinkByOne DEF UnitsAccounted
      <4>4. /\ i'["producers"] = i["producers"] + 1 /\ i["producers"] \in Nat
            /\ i'["consumers"] = i["consumers"]
        BY <1>1, <3>1, <3>2
      <4> QED
        BY <4>2, <4>3, <4>4, FibTestAssumption DEF UnitsAccounted
    <3>3. CASE arg[t] = "consumers"
      <4>1. at[t] = "add_leave"
        BY <1>1, <3>1, <3>3 DEF CallSites, WaitLabel, Label
      <4>2. ItemHeld' = ItemHeld \ {t} /\ t \in ItemHeld /\ SpaceHeld' = SpaceHeld
        BY <1>1, <3>1, <4>1 DEF SpaceHeld, ItemHeld
      <4>3. /\ IsFiniteSet(ItemHeld') /\ Cardinality(ItemHeld) \in Nat
            /\ Cardinality(ItemHeld') = Cardinality(ItemHeld) - 1
        BY <4>2, ShrinkByOne DEF UnitsAccounted
      <4>4. /\ i'["consumers"] = i["consumers"] + 1 /\ i["consumers"] \in Nat
            /\ i'["producers"] = i["producers"]
        BY <1>1, <3>1, <3>3
      <4> QED
        BY <4>2, <4>3, <4>4, FibTestAssumption DEF UnitsAccounted
    <3>4. CASE arg[t] \notin {"producers", "consumers"}
      <4>1. at[t] \in {"next", "check"}
        BY <1>1, <3>1, <3>4 DEF CallSites, WaitLabel, Label
      <4>2. ItemHeld' = ItemHeld /\ SpaceHeld' = SpaceHeld
        BY <1>1, <3>1, <4>1 DEF SpaceHeld, ItemHeld
      <4> QED
        BY <1>1, <3>1, <3>4, <4>2, UnitsStay
    <3> QED
      BY <3>2, <3>3, <3>4
  <2>3. CASE ~(WaitDec(t) \/ SignalInc(t))
    <3>1. /\ pc' = [pc EXCEPT ![t] = pc'[t]]
          /\ \/ {pc[t], pc'[t]} \cap {"user", "signal_inc"} = {}
             \/ pc[t] = "signal_unlock" /\ pc'[t] = "user"
      BY <1>1, <2>3 DEF SemaphoreStep, WaitEnqueue, WaitBlock, WaitRelock, WaitPass, SignalWake,
         SignalRelock, SignalUnlock, At, Goto, Label
    <3>2. i' = i
      BY <2>3 DEF SemaphoreStep, WaitEnqueue, WaitBlock, WaitRelock, WaitPass, SignalWake,
         SignalRelock, SignalUnlock
    <3>3. pc[t] = "signal_unlock" => at[t] \in {"add_leave", "next", "take_leave", "check"}
      BY <1>1 DEF CallSites, WaitLabel, Label
    <3>4. SpaceHeld' = SpaceHeld /\ ItemHeld' = ItemHeld
      BY <1>1, <3>1, <3>3 DEF SpaceHeld, ItemHeld
    <3> QED
      BY <3>2, <3>4, UnitsStay
  <2> QED
    BY <2>1, <2>2, <2>3
<1> QED
  BY <1>2, <1>4, <1>5

\* What the abstract queue is, while no consumer has copied an element out and not
\* advanced first, and while one has.
LEMMA FifoValue ==
  ASSUME UnitsAccounted, first \in 0 .. Length - 1
  PROVE  /\ (\A u \in Thread : at[u] # "take_advance") =>
              fifo = [k \in 1 .. count |-> buffer[(first + k - 1) % Length]]
         /\ (\E u \in Thread : at[u] = "take_advance") =>
              fifo = [k \in 1 .. count - 1 |-> buffer[(first + k) % Length]]
<1>1. CASE \A u \in Thread : at[u] # "take_advance"
  <2>1. count - 0 = count /\ \A k \in 1 .. count : first + 0 + k - 1 = first + k - 1
    BY FibTestAssumption DEF UnitsAccounted
  <2>2. fifo = [k \in 1 .. count - 0 |-> buffer[(first + 0 + k - 1) % Length]]
    BY <1>1 DEF fifo
  <2> QED
    BY <1>1, <2>1, <2>2
<1>2. CASE \E u \in Thread : at[u] = "take_advance"
  <2>1. \A k \in 1 .. count - 1 : first + 1 + k - 1 = first + k
    BY FibTestAssumption DEF UnitsAccounted
  <2>2. fifo = [k \in 1 .. count - 1 |-> buffer[(first + 1 + k - 1) % Length]]
    BY <1>2 DEF fifo
  <2> QED
    BY <1>2, <2>1, <2>2
<1> QED
  BY <1>1, <1>2

\* The calls of the semaphores in the two loops take a unit along or leave it.
LEMMA CallUnits ==
  ASSUME IInv, FifoInv, NEW t \in Thread,
         \/ AddWaitSpace(t) \/ AddWaitProtect(t) \/ AddSignalItem(t) \/ AddSignalProtect(t)
         \/ TakeWaitItem(t) \/ TakeWaitProtect(t) \/ TakeSignalSpace(t) \/ TakeSignalProtect(t)
  PROVE  FifoInv' /\ UNCHANGED <<fifo, turn>>
<1> USE DEF FifoInv
<1> DEFINE Hop == {<<"add", "add_enter", "wait_test">>, <<"add_enter", "add_store", "wait_test">>,
                   <<"add_notify", "add_leave", "signal_inc">>, <<"add_leave", "next", "signal_inc">>,
                   <<"take", "take_enter", "wait_test">>, <<"take_enter", "take_copy", "wait_test">>,
                   <<"take_notify", "take_leave", "signal_inc">>, <<"take_leave", "check", "signal_inc">>}
<1>1. /\ pc[t] = "user" /\ <<at[t], at'[t], pc'[t]>> \in Hop
      /\ at \in [Thread -> AddSite \cup TakeSite] /\ pc \in [Thread -> Label]
      /\ at' = [at EXCEPT ![t] = at'[t]] /\ pc' = [pc EXCEPT ![t] = pc'[t]]
      /\ UNCHANGED <<elem, buffer, first, count, i, status>>
  BY DEF AddWaitSpace, AddWaitProtect, AddSignalItem, AddSignalProtect, TakeWaitItem,
     TakeWaitProtect, TakeSignalSpace, TakeSignalProtect, Move, At, WaitLock, SignalLock, Call,
     TakeLock, bufVars, IInv, TypeOK, SemaphoreTypeOK
<1>2. /\ \A u \in Thread : at'[u] = "take_advance" <=> at[u] = "take_advance"
      /\ \A u \in Thread : at'[u] = "add_count" <=> at[u] = "add_count"
      /\ \A u \in Producer : at'[u] \in {"add_notify", "add_leave", "next"}
                                <=> at[u] \in {"add_notify", "add_leave", "next"}
      /\ \A u \in Consumer : at'[u] \in {"take_advance", "take_notify", "take_leave", "check"}
                               <=> at[u] \in {"take_advance", "take_notify", "take_leave", "check"}
  BY <1>1, FibTestAssumption
<1>3. fifo' = fifo
  BY <1>1, <1>2 DEF fifo
<1>4. turn' = turn
  BY <1>1, <1>2 DEF turn
<1>5. SpaceHeld' = SpaceHeld /\ ItemHeld' = ItemHeld
  BY <1>1 DEF SpaceHeld, ItemHeld
<1>6. UnitsAccounted'
  BY <1>1, <1>5, UnitsStay
<1>7. Stored'
  BY <1>1, <1>2, FibTestAssumption DEF Stored
<1>8. Filled'
  BY <1>1, <1>2, <1>3 DEF Filled
<1> QED
  BY <1>3, <1>4, <1>6, <1>7, <1>8

\* A thread in the critical section is the only one that can be at a statement
\* between the waits and signals of protect.
LEMMA OnlyOneInside ==
  ASSUME IInv, NEW t \in Thread, Critical(t)
  PROVE  \A u \in Thread \ {t} : at[u] \notin {"add_count", "take_advance"}
BY DEF IInv, MutualExclusion, Critical

\* The element goes into the slot behind the last, which no other element is in.
LEMMA AddStoreFifo ==
  ASSUME IInv, FifoInv, NEW t \in Thread, AddStore(t)
  PROVE  FifoInv' /\ UNCHANGED <<fifo, turn>>
<1> USE DEF FifoInv
<1>1. /\ at[t] = "add_store" /\ pc[t] = "user" /\ at' = [at EXCEPT ![t] = "add_count"]
      /\ buffer' = [buffer EXCEPT ![(first + count) % Length] = elem[t]]
      /\ UNCHANGED <<pc, elem, first, count, i, status>>
  BY DEF AddStore, Move, At, semVars, schedVars
<1>2. /\ t \in Producer /\ first \in 0 .. Length - 1
      /\ at \in [Thread -> AddSite \cup TakeSite]
      /\ buffer \in [0 .. Length - 1 -> Element \cup {Empty}]
  BY <1>1 DEF IInv, TypeOK, AddSite
<1>3. \A u \in Thread \ {t} : at[u] \notin {"add_count", "take_advance"}
  BY <1>1, OnlyOneInside DEF Critical
<1>4. SpaceHeld' = SpaceHeld /\ ItemHeld' = ItemHeld
  BY <1>1, <1>2 DEF SpaceHeld, ItemHeld
<1>5. UnitsAccounted'
  BY <1>1, <1>4, UnitsStay
<1>6. count \in 0 .. Length - 1
  <2>1. t \in SpaceHeld
    BY <1>1 DEF SpaceHeld
  <2>2. Cardinality(SpaceHeld) \in Nat /\ Cardinality(SpaceHeld) > 0
    BY <2>1, ShrinkByOne DEF UnitsAccounted
  <2>3. i["producers"] \in Nat
    BY FibTestAssumption DEF IInv, TypeOK, SemaphoreTypeOK
  <2> QED
    BY <2>2, <2>3, FibTestAssumption DEF UnitsAccounted
<1> DEFINE last == (first + count) % Length
<1>7. last \in 0 .. Length - 1
  BY <1>2, <1>6, Slot, FibTestAssumption
<1>8. \A k \in 1 .. count : /\ (first + k - 1) % Length # last
                            /\ (first + k - 1) % Length \in 0 .. Length - 1
  <2> SUFFICES ASSUME NEW k \in 1 .. count
               PROVE  /\ (first + k - 1) % Length # last
                      /\ (first + k - 1) % Length \in 0 .. Length - 1
    OBVIOUS
  <2>1. /\ k - 1 \in 0 .. Length /\ count \in 0 .. Length /\ k - 1 < count
        /\ count < k - 1 + Length /\ first + (k - 1) = first + k - 1
    BY <1>2, <1>6, FibTestAssumption
  <2>2. /\ (first + (k - 1)) % Length # last
        /\ (first + (k - 1)) % Length \in 0 .. Length - 1
    BY <1>2, <2>1, Slot, SlotsDiffer
  <2> QED
    BY <2>1, <2>2
<1>9. fifo' = fifo
  <2>1. \A u \in Thread : at[u] # "take_advance" /\ at'[u] # "take_advance"
    BY <1>1, <1>2, <1>3
  <2>2. fifo = [k \in 1 .. count |-> buffer[(first + k - 1) % Length]]
    BY <1>2, <2>1, FifoValue
  <2>3. fifo' = [k \in 1 .. count |-> buffer'[(first + k - 1) % Length]]
    <3>1. count - 0 = count /\ \A k \in 1 .. count : first + 0 + k - 1 = first + k - 1
      BY <1>2, <1>6
    <3> QED
      BY <1>1, <2>1, <3>1 DEF fifo
  <2>4. \A k \in 1 .. count : buffer'[(first + k - 1) % Length] = buffer[(first + k - 1) % Length]
    <3> SUFFICES ASSUME NEW k \in 1 .. count
                 PROVE  buffer'[(first + k - 1) % Length] = buffer[(first + k - 1) % Length]
      OBVIOUS
    <3>1. /\ (first + k - 1) % Length # last
          /\ (first + k - 1) % Length \in 0 .. Length - 1
      BY <1>8
    <3>2. buffer' = [buffer EXCEPT ![last] = elem[t]]
      BY <1>1
    <3> HIDE DEF last
    <3> QED
      BY <1>2, <3>1, <3>2
  <2> QED
    BY <2>2, <2>3, <2>4
<1>10. turn' = turn
  BY <1>1, <1>2 DEF turn
<1>11. Stored'
  BY <1>1, <1>2, <1>3, <1>7, FibTestAssumption DEF Stored
<1>12. Filled'
  BY <1>1, <1>2, <1>9, FibTestAssumption DEF Filled
<1> QED
  BY <1>5, <1>9, <1>10, <1>11, <1>12

\* Counting the element puts it into the abstract queue, which has room for it.
LEMMA AddCountPuts ==
  ASSUME IInv, FifoInv, NEW t \in Thread, AddCount(t)
  PROVE  FifoInv' /\ FIFO!Next
<1> USE DEF FifoInv
<1>1. /\ at[t] = "add_count" /\ pc[t] = "user" /\ at' = [at EXCEPT ![t] = "add_notify"]
      /\ count' = count + 1
      /\ UNCHANGED <<pc, elem, buffer, first, i, status>>
  BY DEF AddCount, Move, At, semVars, schedVars
<1>2. /\ t \in Producer /\ first \in 0 .. Length - 1
      /\ at \in [Thread -> AddSite \cup TakeSite] /\ pc \in [Thread -> Label]
      /\ buffer \in [0 .. Length - 1 -> Element \cup {Empty}]
      /\ elem[t] \in Element /\ elem[t].id = t
      /\ i["producers"] \in Nat /\ i["consumers"] \in Nat
  BY <1>1, FibTestAssumption DEF IInv, TypeOK, AddSite, SemaphoreTypeOK, Stored
<1>3. \A u \in Thread \ {t} : at[u] \notin {"add_count", "take_advance"}
  BY <1>1, OnlyOneInside DEF Critical
<1>4. /\ SpaceHeld' = SpaceHeld \ {t} /\ t \in SpaceHeld
      /\ ItemHeld' = ItemHeld \cup {t} /\ t \notin ItemHeld
  BY <1>1, <1>2 DEF SpaceHeld, ItemHeld
<1>5. /\ count \in 0 .. Length - 1 /\ UnitsAccounted'
  <2>1. /\ IsFiniteSet(SpaceHeld') /\ Cardinality(SpaceHeld') = Cardinality(SpaceHeld) - 1
        /\ Cardinality(SpaceHeld) \in Nat /\ Cardinality(SpaceHeld) > 0
    BY <1>4, ShrinkByOne DEF UnitsAccounted
  <2>2. /\ IsFiniteSet(ItemHeld') /\ Cardinality(ItemHeld') = Cardinality(ItemHeld) + 1
        /\ Cardinality(ItemHeld) \in Nat
    BY <1>4, GrowByOne DEF UnitsAccounted
  <2>3. count \in 0 .. Length - 1
    BY <1>2, <2>1, FibTestAssumption DEF UnitsAccounted
  <2>4. count' \in 0 .. Length /\ i'["producers"] + Cardinality(SpaceHeld') + count' = Length
    <3>1. count' \in 0 .. Length
      BY <1>1, <2>3, FibTestAssumption
    <3>2. i["producers"] + Cardinality(SpaceHeld) + count = Length
      BY DEF UnitsAccounted
    <3>3. i["producers"] + (Cardinality(SpaceHeld) - 1) + (count + 1) = Length
      <4>1. /\ i["producers"] \in Int /\ Cardinality(SpaceHeld) \in Int /\ count \in Int
        BY <1>2, <2>1, <2>3, FibTestAssumption
      <4> QED
        BY <3>2, <4>1, HandOn
    <3> QED
      BY <1>1, <2>1, <3>1, <3>3
  <2>5. i'["consumers"] + Cardinality(ItemHeld') = count'
    BY <1>1, <1>2, <2>2, <2>3, FibTestAssumption DEF UnitsAccounted
  <2> QED
    BY <2>1, <2>2, <2>3, <2>4, <2>5 DEF UnitsAccounted
<1> DEFINE slot(k) == buffer[(first + k - 1) % Length]
           new == [id |-> t, arg |-> elem[t].arg]
<1>6. fifo = [k \in 1 .. count |-> slot(k)]
  <2>1. \A u \in Thread : at[u] # "take_advance"
    BY <1>1, <1>3
  <2> QED
    BY <1>2, <2>1, FifoValue
<1>7. fifo' = [k \in 1 .. count + 1 |-> slot(k)]
  <2>1. \A u \in Thread : at'[u] # "take_advance"
    BY <1>1, <1>2, <1>3
  <2>2. (count + 1) - 0 = count + 1 /\ \A k \in 1 .. count + 1 : first + 0 + k - 1 = first + k - 1
    BY <1>2, <1>5
  <2>3. fifo' = [k \in 1 .. (count + 1) - 0 |-> buffer[(first + 0 + k - 1) % Length]]
    BY <1>1, <2>1 DEF fifo
  <2> QED
    BY <2>2, <2>3
<1>8. slot(count + 1) = new /\ new \in Element
  <2>1. first + (count + 1) - 1 = first + count
    BY <1>2, <1>5
  <2>2. slot(count + 1) = elem[t]
    BY <1>1, <1>2, <2>1 DEF Stored
  <2>3. elem[t] = new
    BY <1>2 DEF Element
  <2> QED
    BY <1>2, <2>2, <2>3
<1>9. \A k \in 1 .. count : slot(k) \in Element
  BY <1>6 DEF Filled
<1> HIDE DEF slot, new
<1>10. /\ Len(fifo) < Length
       /\ fifo' = Append(fifo, new)
  <2>1. fifo \in Seq(Element) /\ Len(fifo) = count
    BY <1>5, <1>6, <1>9
  <2>2. \A k \in 1 .. count + 1 : fifo'[k] = IF k = count + 1 THEN new ELSE fifo[k]
    BY <1>5, <1>6, <1>7, <1>8
  <2>3. fifo' \in Seq(Element) /\ Len(fifo') = count + 1
    BY <1>5, <1>7, <1>8, <1>9
  <2> QED
    <3>1. Append(fifo, new) \in Seq(Element) /\ Len(Append(fifo, new)) = count + 1
      BY <1>8, <2>1
    <3>2. \A k \in 1 .. count + 1 : Append(fifo, new)[k] = IF k = count + 1 THEN new ELSE fifo[k]
      BY <1>5, <1>8, <2>1
    <3>3. fifo' = Append(fifo, new)
      BY <1>5, <2>2, <2>3, <3>1, <3>2, SeqEqual
    <3> QED
      BY <1>5, <2>1, <3>3, FibTestAssumption
<1>11. turn' = [turn EXCEPT ![t] = (@ + 1) % Modulus] /\ turn[t] = elem[t].arg
  BY <1>1, <1>2, FibTestAssumption DEF turn
<1>12. FIFO!Put(t)
  BY <1>2, <1>10, <1>11 DEF FIFO!Put, new
<1>13. Stored'
  BY <1>1, <1>2, <1>3, FibTestAssumption DEF Stored
<1>14. Filled'
  <2>1. \A k \in DOMAIN fifo' : fifo'[k] \in Element
    BY <1>5, <1>7, <1>8, <1>9
  <2> QED
    BY <1>1, <1>2, <2>1, FibTestAssumption DEF Filled
<1> QED
  BY <1>2, <1>5, <1>12, <1>13, <1>14 DEF FIFO!Next

\* Copying out takes the oldest element out of the abstract queue, which has one.
LEMMA TakeCopyGets ==
  ASSUME IInv, FifoInv, NEW t \in Thread, TakeCopy(t)
  PROVE  FifoInv' /\ FIFO!Next
<1> USE DEF FifoInv
<1>1. /\ at[t] = "take_copy" /\ pc[t] = "user" /\ at' = [at EXCEPT ![t] = "take_advance"]
      /\ elem' = [elem EXCEPT ![t] = buffer[first]]
      /\ buffer' = [buffer EXCEPT ![first] = Empty]
      /\ UNCHANGED <<pc, first, count, i, status>>
  BY DEF TakeCopy, Move, At, semVars, schedVars
<1>2. /\ t \in Thread \ Producer /\ first \in 0 .. Length - 1
      /\ at \in [Thread -> AddSite \cup TakeSite]
      /\ buffer \in [0 .. Length - 1 -> Element \cup {Empty}]
      /\ elem \in [Thread -> Element \cup {Empty}]
      /\ i["consumers"] \in Nat
  BY <1>1, FibTestAssumption DEF IInv, TypeOK, AddSite, SemaphoreTypeOK
<1>3. \A u \in Thread \ {t} : at[u] \notin {"add_count", "take_advance"}
  BY <1>1, OnlyOneInside DEF Critical
<1>4. SpaceHeld' = SpaceHeld /\ ItemHeld' = ItemHeld /\ t \in ItemHeld
  BY <1>1, <1>2 DEF SpaceHeld, ItemHeld
<1>5. UnitsAccounted'
  BY <1>1, <1>4, UnitsStay
<1>6. count \in 1 .. Length
  <2>1. Cardinality(ItemHeld) \in Nat /\ Cardinality(ItemHeld) > 0
    BY <1>4, ShrinkByOne DEF UnitsAccounted
  <2> QED
    BY <1>2, <2>1, FibTestAssumption DEF UnitsAccounted
<1> DEFINE slot(k) == buffer[(first + k - 1) % Length]
<1>7. fifo = [k \in 1 .. count |-> slot(k)]
  <2>1. \A u \in Thread : at[u] # "take_advance"
    BY <1>1, <1>3
  <2> QED
    BY <1>2, <2>1, FifoValue
<1>8. fifo' = [k \in 1 .. count - 1 |-> slot(k + 1)]
  <2>1. \E u \in Thread : at'[u] = "take_advance"
    BY <1>1, <1>2
  <2>2. fifo' = [k \in 1 .. count - 1 |-> buffer'[(first + 1 + k - 1) % Length]]
    BY <1>1, <2>1 DEF fifo
  <2>3. \A k \in 1 .. count - 1 : buffer'[(first + 1 + k - 1) % Length] = slot(k + 1)
    <3> SUFFICES ASSUME NEW k \in 1 .. count - 1
                 PROVE  buffer'[(first + 1 + k - 1) % Length] = slot(k + 1)
      OBVIOUS
    <3>1. /\ first + 1 + k - 1 = first + k /\ first + (k + 1) - 1 = first + k
          /\ k \in 0 .. Length /\ 0 \in 0 .. Length /\ 0 < k /\ k < 0 + Length
          /\ first + 0 = first
      BY <1>2, <1>6, FibTestAssumption
    <3>2. (first + k) % Length \in 0 .. Length - 1 /\ (first + 0) % Length # (first + k) % Length
      BY <1>2, <3>1, Slot, SlotsDiffer
    <3>3. first % Length = first
      BY <1>2, FibTestAssumption
    <3> QED
      BY <1>1, <1>2, <3>1, <3>2, <3>3
  <2> QED
    BY <2>2, <2>3
<1>9. \A k \in 1 .. count : slot(k) \in Element
  BY <1>7 DEF Filled
<1>10. slot(1) = buffer[first] /\ buffer[first] \in Element
  <2>1. first + 1 - 1 = first + 0 /\ first + 0 < Length /\ 0 \in 0 .. Length /\ 1 \in 1 .. count
        /\ first + 0 = first
    BY <1>2, <1>6, FibTestAssumption
  <2>2. (first + 0) % Length = first
    BY <1>2, <2>1, Slot
  <2> QED
    BY <1>9, <2>1, <2>2
<1>11. FIFO!Get
  <2> HIDE DEF slot
  <2>1. fifo \in Seq(Element) /\ Len(fifo) = count /\ fifo # <<>>
    BY <1>6, <1>7, <1>9, FibTestAssumption
  <2>2. Tail(fifo) \in Seq(Element) /\ Len(Tail(fifo)) = count - 1
        /\ \A k \in 1 .. count - 1 : Tail(fifo)[k] = fifo[k + 1]
    BY <1>6, <2>1, FibTestAssumption
  <2>3. /\ fifo' \in Seq(Element) /\ Len(fifo') = count - 1
        /\ \A k \in 1 .. count - 1 : fifo'[k] = fifo[k + 1]
    <3>1. \A k \in 1 .. count - 1 : k + 1 \in 1 .. count
      BY <1>6, FibTestAssumption
    <3>2. count - 1 \in Nat
      BY <1>6, FibTestAssumption
    <3> QED
      BY <1>7, <1>8, <1>9, <3>1, <3>2
  <2>4. fifo' = Tail(fifo)
    BY <2>2, <2>3, SeqEqual
  <2>5. turn' = turn
    BY <1>1, <1>2, FibTestAssumption DEF turn
  <2> QED
    BY <2>1, <2>4, <2>5 DEF FIFO!Get
<1>12. Stored'
  BY <1>1, <1>2, <1>3, FibTestAssumption DEF Stored
<1>13. Filled'
  <2>1. \A k \in DOMAIN fifo' : fifo'[k] \in Element
    <3>1. \A k \in 1 .. count - 1 : k + 1 \in 1 .. count
      BY <1>6, FibTestAssumption
    <3> HIDE DEF slot
    <3> QED
      BY <1>8, <1>9, <3>1
  <2> QED
    BY <1>1, <1>2, <1>10, <2>1, FibTestAssumption DEF Filled
<1> QED
  BY <1>5, <1>11, <1>12, <1>13 DEF FIFO!Next

\* Advancing takes the slot, whose element has left the abstract queue already.
LEMMA TakeAdvanceFifo ==
  ASSUME IInv, FifoInv, NEW t \in Thread, TakeAdvance(t)
  PROVE  FifoInv' /\ UNCHANGED <<fifo, turn>>
<1> USE DEF FifoInv
<1>1. /\ at[t] = "take_advance" /\ pc[t] = "user" /\ at' = [at EXCEPT ![t] = "take_notify"]
      /\ count' = count - 1 /\ first' = (first + 1) % Length
      /\ UNCHANGED <<pc, elem, buffer, i, status>>
  BY DEF TakeAdvance, Move, At, semVars, schedVars
<1>2. /\ t \in Consumer /\ t \notin Producer /\ first \in 0 .. Length - 1
      /\ at \in [Thread -> AddSite \cup TakeSite] /\ pc \in [Thread -> Label]
      /\ i["producers"] \in Nat /\ i["consumers"] \in Nat
  BY <1>1, FibTestAssumption DEF IInv, TypeOK, AddSite, SemaphoreTypeOK
<1>3. \A u \in Thread \ {t} : at[u] \notin {"add_count", "take_advance"}
  BY <1>1, OnlyOneInside DEF Critical
<1>4. /\ ItemHeld' = ItemHeld \ {t} /\ t \in ItemHeld
      /\ SpaceHeld' = SpaceHeld \cup {t} /\ t \notin SpaceHeld
  BY <1>1, <1>2 DEF SpaceHeld, ItemHeld
<1>5. count \in 1 .. Length /\ UnitsAccounted'
  <2>1. /\ IsFiniteSet(ItemHeld') /\ Cardinality(ItemHeld') = Cardinality(ItemHeld) - 1
        /\ Cardinality(ItemHeld) \in Nat /\ Cardinality(ItemHeld) > 0
    BY <1>4, ShrinkByOne DEF UnitsAccounted
  <2>2. /\ IsFiniteSet(SpaceHeld') /\ Cardinality(SpaceHeld') = Cardinality(SpaceHeld) + 1
        /\ Cardinality(SpaceHeld) \in Nat
    BY <1>4, GrowByOne DEF UnitsAccounted
  <2>3. count \in 1 .. Length /\ count \in Int
    BY <1>2, <2>1, FibTestAssumption DEF UnitsAccounted
  <2>4. i'["producers"] + Cardinality(SpaceHeld') + count' = Length
    <3>1. i["producers"] + Cardinality(SpaceHeld) + count = Length
      BY DEF UnitsAccounted
    <3>2. i["producers"] + (Cardinality(SpaceHeld) + 1) + (count - 1) = Length
      BY <1>2, <2>2, <2>3, <3>1, HandBack
    <3> QED
      BY <1>1, <2>2, <3>2
  <2>5. i'["consumers"] + Cardinality(ItemHeld') = count'
    BY <1>1, <1>2, <2>1, <2>3, FibTestAssumption DEF UnitsAccounted
  <2>6. count' \in 0 .. Length
    BY <1>1, <2>3, FibTestAssumption
  <2> QED
    BY <2>1, <2>2, <2>3, <2>4, <2>5, <2>6 DEF UnitsAccounted
<1>6. fifo' = fifo
  <2>1. fifo = [k \in 1 .. count - 1 |-> buffer[(first + k) % Length]]
    BY <1>1, <1>2, FifoValue
  <2>2. \A u \in Thread : at'[u] # "take_advance"
    BY <1>1, <1>2, <1>3
  <2>3. fifo' = [k \in 1 .. count - 1 - 0 |-> buffer[(first' + 0 + k - 1) % Length]]
    BY <1>1, <2>2 DEF fifo
  <2>4. first' \in 0 .. Length - 1
    BY <1>1, <1>2, Slot, FibTestAssumption
  <2>5. count - 1 - 0 = count - 1
    BY <1>5, FibTestAssumption
  <2>6. \A k \in 1 .. count - 1 : (first' + 0 + k - 1) % Length = (first + k) % Length
    <3> SUFFICES ASSUME NEW k \in 1 .. count - 1
                 PROVE  (first' + 0 + k - 1) % Length = (first + k) % Length
      OBVIOUS
    <3>1. k - 1 \in 0 .. Length - 1 /\ (k - 1) + 1 = k /\ first' + 0 + k - 1 = first' + (k - 1)
      BY <1>5, <2>4, FibTestAssumption
    <3>2. (((first + 1) % Length) + (k - 1)) % Length = (first + ((k - 1) + 1)) % Length
      BY <1>2, <3>1, SlotShift
    <3> QED
      BY <1>1, <3>1, <3>2
  <2> QED
    BY <2>1, <2>3, <2>5, <2>6
<1>7. turn' = turn
  BY <1>1, <1>2 DEF turn
<1>8. Stored'
  BY <1>1, <1>2, <1>3, FibTestAssumption DEF Stored
<1>9. Filled'
  BY <1>1, <1>2, <1>6 DEF Filled
<1> QED
  BY <1>5, <1>6, <1>7, <1>8, <1>9

\* The next argument has been the producer's turn since it counted its element.
LEMMA ProducerNextFifo ==
  ASSUME IInv, FifoInv, NEW t \in Thread, ProducerNext(t)
  PROVE  FifoInv' /\ UNCHANGED <<fifo, turn>>
<1> USE DEF FifoInv
<1>1. /\ at[t] = "next" /\ at' = [at EXCEPT ![t] = "add"]
      /\ elem' = [elem EXCEPT ![t].arg = (@ + 1) % Modulus]
      /\ UNCHANGED <<pc, buffer, first, count, i, status>>
  BY DEF ProducerNext, Move, At, semVars, schedVars, bufVars
<1>2. /\ t \in Producer /\ t \notin Consumer
      /\ at \in [Thread -> AddSite \cup TakeSite]
      /\ elem \in [Thread -> Element \cup {Empty}] /\ elem[t] \in Element
  BY <1>1, FibTestAssumption DEF IInv, TypeOK, AddSite
<1>3. elem'[t].id = elem[t].id /\ elem'[t].arg = (elem[t].arg + 1) % Modulus
      /\ \A u \in Thread \ {t} : elem'[u] = elem[u]
  BY <1>1, <1>2 DEF Element
<1>4. SpaceHeld' = SpaceHeld /\ ItemHeld' = ItemHeld
  BY <1>1, <1>2 DEF SpaceHeld, ItemHeld
<1>5. UnitsAccounted'
  BY <1>1, <1>4, UnitsStay
<1>6. fifo' = fifo
  BY <1>1, <1>2 DEF fifo
<1>7. turn' = turn
  BY <1>1, <1>2, <1>3, FibTestAssumption DEF turn
<1>8. Stored'
  BY <1>1, <1>2, <1>3, FibTestAssumption DEF Stored
<1>9. Filled'
  BY <1>1, <1>2, <1>3, <1>6, FibTestAssumption DEF Filled
<1> QED
  BY <1>5, <1>6, <1>7, <1>8, <1>9

\* The check finds an element.
LEMMA ConsumerCheckFifo ==
  ASSUME IInv, FifoInv, NEW t \in Thread, ConsumerCheck(t)
  PROVE  FifoInv' /\ UNCHANGED <<fifo, turn>>
<1> USE DEF FifoInv
<1>1. /\ at[t] = "check" /\ at' = [at EXCEPT ![t] = "take"]
      /\ status' = (IF elem[t] = Empty THEN "nomatch" ELSE status)
      /\ UNCHANGED <<pc, elem, buffer, first, count, i>>
  BY DEF ConsumerCheck, Move, At, semVars, bufVars
<1>2. /\ t \in Consumer /\ t \notin Producer
      /\ at \in [Thread -> AddSite \cup TakeSite]
  BY <1>1, FibTestAssumption DEF IInv, TypeOK, AddSite
<1>3. elem[t] \in Element /\ status' # "nomatch"
  BY <1>1, <1>2, FibTestAssumption DEF Filled, Element
<1>4. SpaceHeld' = SpaceHeld /\ ItemHeld' = ItemHeld
  BY <1>1, <1>2 DEF SpaceHeld, ItemHeld
<1>5. UnitsAccounted'
  BY <1>1, <1>4, UnitsStay
<1>6. fifo' = fifo
  BY <1>1, <1>2 DEF fifo
<1>7. turn' = turn
  BY <1>1, <1>2, FibTestAssumption DEF turn
<1>8. Stored'
  BY <1>1, <1>2, FibTestAssumption DEF Stored
<1>9. Filled'
  BY <1>1, <1>2, <1>3, <1>6, FibTestAssumption DEF Filled
<1> QED
  BY <1>5, <1>6, <1>7, <1>8, <1>9

\* Boot and ticks change neither the semaphores nor the program.
LEMMA SystemFifo ==
  ASSUME FifoInv, System
  PROVE  FifoInv' /\ UNCHANGED <<fifo, turn>>
<1> USE DEF FifoInv, System, programVars, semVars, bufVars
<1>1. fifo' = fifo /\ turn' = turn
  BY DEF fifo, turn
<1>2. SpaceHeld' = SpaceHeld /\ ItemHeld' = ItemHeld
  BY DEF SpaceHeld, ItemHeld
<1>3. UnitsAccounted'
  BY <1>2, UnitsStay
<1>4. Stored'
  BY DEF Stored
<1>5. status' # "nomatch"
  <2>1. status # "nomatch"
    BY DEF Filled
  <2> QED
    BY <2>1 DEF Boot, MainCreate, StartTimer, StartLock, StartThreads, TickBeforeStart, Preempt,
       Schedule, Dispatch
<1>6. Filled'
  BY <1>1, <1>5 DEF Filled
<1> QED
  BY <1>1, <1>3, <1>4, <1>6

LEMMA FifoStep ==
  ASSUME IInv, FifoInv, [Next]_vars
  PROVE  FifoInv' /\ [FIFO!Next]_<<fifo, turn>>
<1>1. CASE System
  BY <1>1, SystemFifo
<1>2. ASSUME NEW t \in Thread, Step(t) PROVE FifoInv' /\ [FIFO!Next]_<<fifo, turn>>
  <2>1. CASE SemaphoreStep(t) /\ UNCHANGED <<at, elem, bufVars>>
    <3>1. UNCHANGED <<fifo, turn>>
      BY <2>1 DEF fifo, turn, bufVars
    <3> QED
      BY <2>1, <3>1, SemaphoreStepUnits
  <2>2. CASE BufferStep(t)
    BY <2>2, CallUnits, AddStoreFifo, AddCountPuts, TakeCopyGets, TakeAdvanceFifo,
       ProducerNextFifo, ConsumerCheckFifo DEF BufferStep
  <2> QED
    BY <1>2, <2>1, <2>2 DEF Step
<1>3. CASE UNCHANGED vars
  BY <1>3 DEF vars, schedVars, semVars, bufVars, fifo, turn, FifoInv, UnitsAccounted, SpaceHeld,
     ItemHeld, Stored, Filled
<1> QED
  BY <1>1, <1>2, <1>3 DEF Next

LEMMA FifoInvariance == Spec => []FifoInv
<1>1. IInv /\ FifoInv /\ [Next]_vars => FifoInv'
  BY FifoStep
<1> QED
  BY <1>1, FifoInit, Invariance, PTL DEF Spec

\* bounded_buffer.c:92-140 for any number of producers and consumers, any length and
\* any timing: the elements got are those put, first in first out, none lost or got
\* twice, each producer's in order, and never more than length of them at a time.
THEOREM BufferIsFIFO == Spec => ImplementsFIFO
<1>1. Init => FIFO!Init
  <2> SUFFICES ASSUME Init PROVE FIFO!Init
    OBVIOUS
  <2>1. UnitsAccounted /\ first \in 0 .. Length - 1 /\ count = 0
    BY FifoInit, FibTestAssumption DEF Init, FifoInv
  <2>2. \A t \in Thread : at[t] \in {"add", "take"}
    BY DEF Init
  <2>3. fifo = [k \in 1 .. 0 |-> buffer[(first + k - 1) % Length]]
    BY <2>1, <2>2, FifoValue
  <2>4. fifo = <<>>
    BY <2>3
  <2>5. turn = [p \in Producer |-> 0]
    BY <2>2, FibTestAssumption DEF turn, Init
  <2> QED
    BY <2>4, <2>5 DEF FIFO!Init
<1>2. IInv /\ FifoInv /\ [Next]_vars => [FIFO!Next]_<<fifo, turn>>
  BY FifoStep
<1> QED
  BY <1>1, <1>2, Invariance, FifoInvariance, PTL DEF Spec, ImplementsFIFO, FIFO!Spec

\* fibtest.c: no consumer ever finds a value that does not match, because it never
\* gets an element out of an empty slot.
THEOREM EveryValueMatches == Spec => [](status # "nomatch")
BY FifoInvariance, PTL DEF FifoInv, Filled
-----------------------------------------------------------------------------
(* A waiter is on two queues and has one pair of links: semaphore_wait     *)
(* puts the thread on the semaphore's threadQueue, and sthread_block puts  *)
(* it on the blocked queue over the same fields.                           *)

\* The links M and N are those of the same ready queue and the same blocked queue.
SameQueues(M, N) ==
  /\ M.prev = N.prev /\ M.next = N.next
  /\ \A q \in {"ready", "blocked"} : M.head[q] = N.head[q] /\ M.tail[q] = N.tail[q]

LEMMA SameHold ==
  ASSUME NEW M \in Links, NEW N, SameQueues(M, N), NEW st, Hold(N, st)
  PROVE  Hold(M, st)
<1>1. PICK r, b \in Seq(Thread) :
        /\ Lists(N, r, b)
        /\ In(r) = {t \in Thread : st[t] = "Ready"}
        /\ In(b) = {t \in Thread : st[t] = "Blocked"}
        /\ Nulled(N, {t \in Thread : st[t] = "Unborn"})
  BY DEF Hold
<1>2. Listed(M, "ready", r) /\ Listed(M, "blocked", b)
  BY <1>1, ListedElsewhere DEF Lists, SameQueues
<1>3. Nulled(M, {t \in Thread : st[t] = "Unborn"})
  BY <1>1 DEF Nulled, SameQueues
<1> QED
  BY <1>1, <1>2, <1>3 DEF Hold, Lists

LEMMA SameAppend ==
  ASSUME NEW M \in Links, NEW N \in Links, SameQueues(M, N),
         NEW q \in {"ready", "blocked"}, NEW t \in Thread
  PROVE  /\ SameQueues(queue_append(M, q, t), queue_append(N, q, t))
         /\ append_faults(M, q) <=> append_faults(N, q)
<1>1. M.head[q] = N.head[q] /\ M.tail[q] = N.tail[q] /\ M.prev = N.prev /\ M.next = N.next
  BY DEF SameQueues
<1>2. queue_empty(M, q) <=> queue_empty(N, q)
  BY <1>1 DEF queue_empty
<1>3. append_faults(M, q) <=> append_faults(N, q)
  BY <1>1, <1>2 DEF append_faults
<1> DEFINE A == queue_append(M, q, t)
           B == queue_append(N, q, t)
<1>4. A.prev = B.prev /\ A.next = B.next
  BY <1>1, <1>2 DEF queue_append
<1>5. ASSUME NEW r \in {"ready", "blocked"}
      PROVE  A.head[r] = B.head[r] /\ A.tail[r] = B.tail[r]
  <2>1. r \in Queue /\ q \in Queue
    BY QueueAssumption
  <2>2. M.head[r] = N.head[r] /\ M.tail[r] = N.tail[r]
    BY DEF SameQueues
  <2> QED
    BY <1>1, <1>2, <2>1, <2>2 DEF queue_append, Links
<1> QED
  BY <1>3, <1>4, <1>5 DEF SameQueues

\* What a thread may read of the links when they hold the ready and the blocked threads.
LEMMA HoldFacts ==
  ASSUME NEW L, NEW st, Hold(L, st)
  PROVE  /\ L \in Links
         /\ L.head["ready"] = NULL <=> \A t \in Thread : st[t] # "Ready"
         /\ L.head["blocked"] = NULL <=> \A t \in Thread : st[t] # "Blocked"
         /\ L.head["ready"] # NULL => L.tail["ready"] \in Thread /\ st[L.tail["ready"]] = "Ready"
         /\ L.head["blocked"] # NULL => /\ L.tail["blocked"] \in Thread
                                        /\ st[L.tail["blocked"]] = "Blocked"
                                        /\ L.next[L.tail["blocked"]] = NULL
         /\ \A u \in Thread : st[u] = "Blocked" =>
              /\ L.prev[u] # NULL => L.prev[u] \in Thread /\ L.next[L.prev[u]] = u
              /\ L.next[u] # u
<1>1. PICK r, b \in Seq(Thread) :
        /\ Lists(L, r, b)
        /\ In(r) = {t \in Thread : st[t] = "Ready"}
        /\ In(b) = {t \in Thread : st[t] = "Blocked"}
  BY DEF Hold
<1>2. L \in Links /\ Listed(L, "ready", r) /\ Listed(L, "blocked", b)
  BY <1>1 DEF Lists
<1>3. /\ L.head["ready"] = NULL <=> In(r) = {}
      /\ L.head["blocked"] = NULL <=> In(b) = {}
  BY <1>1, ListsFacts DEF queue_empty
<1>4. L.head["ready"] # NULL => L.tail["ready"] \in In(r)
  BY <1>2, TailIn DEF queue_empty
<1>5. L.head["blocked"] # NULL => L.tail["blocked"] \in In(b) /\ L.next[L.tail["blocked"]] = NULL
  <2> SUFFICES ASSUME L.head["blocked"] # NULL
               PROVE  L.tail["blocked"] \in In(b) /\ L.next[L.tail["blocked"]] = NULL
    OBVIOUS
  <2>1. L.tail["blocked"] \in In(b)
    BY <1>2, TailIn DEF queue_empty
  <2>2. b # <<>> /\ Len(b) \in 1 .. Len(b)
    BY <1>2, ListedFacts
  <2>3. L.tail["blocked"] = b[Len(b)] /\ L.next[b[Len(b)]] = NULL
    BY <1>2, <2>2 DEF Listed
  <2> QED
    BY <2>1, <2>3
<1>6. ASSUME NEW u \in In(b)
      PROVE  /\ L.prev[u] # NULL => L.prev[u] \in Thread /\ L.next[L.prev[u]] = u
             /\ L.next[u] # u
  <2>1. PICK k \in 1 .. Len(b) : u = b[k]
    BY DEF In
  <2>2. /\ Len(b) \in Nat /\ b[k] \in Thread /\ b[k] # NULL
        /\ \A j \in 1 .. Len(b) : b[j] \in Thread
        /\ \A j \in 1 .. Len(b) : b[j] = b[k] => j = k
    BY <1>2, <2>1, ListedFacts
  <2>3. L.next[b[k]] = IF k = Len(b) THEN NULL ELSE b[k + 1]
    BY <1>2 DEF Listed
  <2>4. L.prev[b[k]] = IF k = 1 THEN NULL ELSE b[k - 1]
    BY <1>2 DEF Listed
  <2>5. L.next[u] # u
    <3>1. k # Len(b) => k + 1 \in 1 .. Len(b) /\ k + 1 # k
      BY <2>2
    <3> QED
      BY <2>1, <2>2, <2>3, <3>1
  <2>6. ASSUME L.prev[u] # NULL PROVE L.prev[u] \in Thread /\ L.next[L.prev[u]] = u
    <3>1. k # 1 /\ L.prev[u] = b[k - 1]
      BY <2>1, <2>4, <2>6
    <3>2. k - 1 \in 1 .. Len(b) /\ k - 1 # Len(b) /\ (k - 1) + 1 = k
      BY <2>2, <3>1
    <3>3. L.next[b[k - 1]] = b[(k - 1) + 1]
      BY <1>2, <3>2 DEF Listed
    <3> QED
      BY <2>1, <2>2, <3>1, <3>2, <3>3
  <2> QED
    BY <2>5, <2>6
<1> HIDE DEF Hold
<1>7. In(r) \subseteq Thread /\ In(b) \subseteq Thread
  BY <1>1
<1>8. \A u \in Thread : st[u] = "Blocked" => u \in In(b)
  BY <1>1
<1> QED
  BY <1>1, <1>2, <1>3, <1>4, <1>5, <1>6, <1>7, <1>8

\* semaphore_wait's queue_append followed by that of sthread_block: when the last
\* waiter of the semaphore is also the last blocked thread, the second writes what
\* the first has written, and the blocked queue is as if there were no semaphore.
LEMMA EnqueueThenBlock ==
  ASSUME NEW L \in Links, NEW q \in Queue \ {"ready", "blocked"}, NEW t \in Thread,
         L.head[q] # NULL => L.head["blocked"] # NULL /\ L.tail["blocked"] = L.tail[q],
         L.head["blocked"] # NULL => L.tail["blocked"] # t
  PROVE  LET Q == queue_append(L, q, t)
             M == queue_append(Q, "blocked", t)
         IN  /\ Q \in Links /\ M \in Links
             /\ SameQueues(M, queue_append(L, "blocked", t))
             /\ append_faults(Q, "blocked") <=> append_faults(L, "blocked")
             /\ M.head[q] = IF L.head[q] = NULL THEN t ELSE L.head[q]
             /\ M.tail[q] = t
             /\ \A r \in Queue \ {"ready", "blocked", q} :
                  M.head[r] = L.head[r] /\ M.tail[r] = L.tail[r]
<1> DEFINE Q == queue_append(L, q, t)
           M == queue_append(Q, "blocked", t)
           N == queue_append(L, "blocked", t)
<1>1. "ready" \in Queue /\ "blocked" \in Queue /\ Q \in Links /\ M \in Links /\ N \in Links
  BY QueueAssumption, AppendType
<1>2. /\ \A r \in Queue \ {q} : Q.head[r] = L.head[r] /\ Q.tail[r] = L.tail[r]
      /\ Q.head[q] = IF L.head[q] = NULL THEN t ELSE L.head[q]
      /\ Q.tail[q] = t
      /\ \A u \in Thread : u # t => Q.prev[u] = L.prev[u]
      /\ \A u \in Thread : u # t =>
           Q.next[u] = IF L.head[q] # NULL /\ u = L.tail[q] THEN t ELSE L.next[u]
  BY DEF queue_append, queue_empty, Links
<1>3. /\ \A u \in Thread : N.prev[u] = IF u = t THEN IF L.head["blocked"] = NULL THEN NULL
                                                    ELSE L.tail["blocked"]
                                       ELSE L.prev[u]
      /\ \A u \in Thread : N.next[u] = IF u = t THEN NULL
                                       ELSE IF u = L.tail["blocked"] /\ L.head["blocked"] # NULL
                                       THEN t ELSE L.next[u]
      /\ \A r \in Queue : N.head[r] = IF r = "blocked" /\ L.head["blocked"] = NULL
                                      THEN t ELSE L.head[r]
      /\ \A r \in Queue : N.tail[r] = IF r = "blocked" THEN t ELSE L.tail[r]
  BY <1>1 DEF queue_append, queue_empty, Links
<1> HIDE DEF N
<1>4. /\ \A u \in Thread : M.prev[u] = IF u = t THEN IF Q.head["blocked"] = NULL THEN NULL
                                                    ELSE Q.tail["blocked"]
                                       ELSE Q.prev[u]
      /\ \A u \in Thread : M.next[u] = IF u = t THEN NULL
                                       ELSE IF u = Q.tail["blocked"] /\ Q.head["blocked"] # NULL
                                       THEN t ELSE Q.next[u]
      /\ \A r \in Queue : M.head[r] = IF r = "blocked" /\ Q.head["blocked"] = NULL
                                      THEN t ELSE Q.head[r]
      /\ \A r \in Queue : M.tail[r] = IF r = "blocked" THEN t ELSE Q.tail[r]
  <2> HIDE DEF Q
  <2> QED
    BY <1>1 DEF queue_append, queue_empty, Links
<1>5. append_faults(Q, "blocked") <=> append_faults(L, "blocked")
  BY <1>1, <1>2 DEF append_faults, queue_empty
<1> HIDE DEF M, Q
<1>6. \A u \in Thread : M.prev[u] = N.prev[u] /\ M.next[u] = N.next[u]
  BY <1>1, <1>2, <1>3, <1>4
<1>7. M.prev = N.prev /\ M.next = N.next
  BY <1>1, <1>6 DEF Links
<1>8. \A r \in {"ready", "blocked"} : M.head[r] = N.head[r] /\ M.tail[r] = N.tail[r]
  BY <1>1, <1>2, <1>3, <1>4
<1>9. /\ M.head[q] = IF L.head[q] = NULL THEN t ELSE L.head[q]
      /\ M.tail[q] = t
      /\ \A r \in Queue \ {"ready", "blocked", q} : M.head[r] = L.head[r] /\ M.tail[r] = L.tail[r]
  BY <1>1, <1>2, <1>4
<1> QED
  BY <1>1, <1>5, <1>7, <1>8, <1>9 DEF SameQueues, M, Q, N

\* semaphore_signal's queue_take followed by the queue_remove of sthread_unblock: the
\* first cuts the prev of the second waiter, the second mends it.
LEMMA TakeThenRemove ==
  ASSUME NEW L \in Links, NEW q \in Queue \ {"ready", "blocked"}, NEW u \in Thread,
         L.head[q] = u, L.tail[q] \in Thread,
         u # L.tail[q] => L.next[u] = L.tail[q]
  PROVE  LET T == queue_take(L, q)
             M == queue_remove(T, "blocked", u)
         IN  /\ ~take_faults(L, q) /\ T \in Links /\ M \in Links
             /\ SameQueues(M, queue_remove(L, "blocked", u))
             /\ M.head[q] = IF u = L.tail[q] THEN NULL ELSE L.tail[q]
             /\ u # L.tail[q] => M.tail[q] = L.tail[q]
             /\ \A r \in Queue \ {"ready", "blocked", q} :
                  M.head[r] = L.head[r] /\ M.tail[r] = L.tail[r]
<1> DEFINE T == queue_take(L, q)
           M == queue_remove(T, "blocked", u)
           N == queue_remove(L, "blocked", u)
<1>1. /\ "ready" \in Queue /\ "blocked" \in Queue /\ T \in Links /\ M \in Links /\ N \in Links
      /\ NULL \notin Thread
  BY QueueAssumption, TakeType, RemoveType
<1>2. /\ T.next = L.next
      /\ \A r \in Queue \ {q} : T.head[r] = L.head[r] /\ T.tail[r] = L.tail[r]
      /\ T.head[q] = IF u = L.tail[q] THEN NULL ELSE L.tail[q]
      /\ u # L.tail[q] => T.tail[q] = L.tail[q]
      /\ \A v \in Thread : T.prev[v] = IF u # L.tail[q] /\ v = L.tail[q] THEN NULL ELSE L.prev[v]
  BY <1>1 DEF queue_take, queue_empty, Links
<1>3. ~take_faults(L, q)
  BY <1>1 DEF take_faults
<1>4. /\ \A v \in Thread : N.prev[v] = IF v = L.next[u] THEN L.prev[u] ELSE L.prev[v]
      /\ \A v \in Thread : N.next[v] = IF v = L.prev[u] THEN L.next[u] ELSE L.next[v]
      /\ \A r \in Queue : N.head[r] = IF r = "blocked" /\ L.head[r] = u THEN L.next[u] ELSE L.head[r]
      /\ \A r \in Queue : N.tail[r] = IF r = "blocked" /\ L.tail[r] = u THEN L.prev[u] ELSE L.tail[r]
  BY <1>1 DEF queue_remove, Links
<1> HIDE DEF N, T
<1>5. /\ \A v \in Thread : M.prev[v] = IF v = T.next[u] THEN T.prev[u] ELSE T.prev[v]
      /\ \A v \in Thread : M.next[v] = IF v = T.prev[u] THEN T.next[u] ELSE T.next[v]
      /\ \A r \in Queue : M.head[r] = IF r = "blocked" /\ T.head[r] = u THEN T.next[u] ELSE T.head[r]
      /\ \A r \in Queue : M.tail[r] = IF r = "blocked" /\ T.tail[r] = u THEN T.prev[u] ELSE T.tail[r]
  BY <1>1 DEF queue_remove, Links
<1> HIDE DEF M
<1>6. T.prev[u] = L.prev[u]
  BY <1>2
<1>7. \A v \in Thread : M.prev[v] = N.prev[v] /\ M.next[v] = N.next[v]
  BY <1>2, <1>4, <1>5, <1>6
<1>8. M.prev = N.prev /\ M.next = N.next
  BY <1>1, <1>7 DEF Links
<1>9. \A r \in {"ready", "blocked"} : M.head[r] = N.head[r] /\ M.tail[r] = N.tail[r]
  BY <1>1, <1>2, <1>4, <1>5, <1>6
<1>10. /\ M.head[q] = IF u = L.tail[q] THEN NULL ELSE L.tail[q]
       /\ u # L.tail[q] => M.tail[q] = L.tail[q]
       /\ \A r \in Queue \ {"ready", "blocked", q} : M.head[r] = L.head[r] /\ M.tail[r] = L.tail[r]
  BY <1>1, <1>2, <1>5
<1> QED
  BY <1>1, <1>3, <1>8, <1>9, <1>10 DEF SameQueues, M, T, N

-----------------------------------------------------------------------------
\* The threads blocked on semaphore s, when st are the states and a the semaphores.
Waiters(st, a, s) == {t \in Thread : st[t] = "Blocked" /\ a[t] = s}

\* The threadQueue of each semaphore holds its waiters; there are never more than two.
SemQueues(L, st, a) ==
  \A s \in Semaphores :
    IF L.head[s] = NULL
    THEN Waiters(st, a, s) = {}
    ELSE /\ Waiters(st, a, s) = {L.head[s], L.tail[s]}
         /\ L.head[s] # L.tail[s] => L.next[L.head[s]] = L.tail[s]

\* All the queues of the program are right, though they share the links.
Shared(L, st, a) == Hold(L, st) /\ SemQueues(L, st, a)

LEMMA SemFacts ==
  ASSUME NEW L, NEW st, NEW a, SemQueues(L, st, a), NEW s \in Semaphores
  PROVE  /\ s \in Queue \ {"ready", "blocked"}
         /\ L.head[s] = NULL <=> \A t \in Thread : ~(st[t] = "Blocked" /\ a[t] = s)
         /\ L.head[s] # NULL =>
              /\ L.head[s] \in Thread /\ st[L.head[s]] = "Blocked" /\ a[L.head[s]] = s
              /\ L.tail[s] \in Thread /\ st[L.tail[s]] = "Blocked" /\ a[L.tail[s]] = s
              /\ \A t \in Thread : st[t] = "Blocked" /\ a[t] = s => t \in {L.head[s], L.tail[s]}
              /\ L.head[s] # L.tail[s] => L.next[L.head[s]] = L.tail[s]
<1>1. s \in Queue \ {"ready", "blocked"}
  BY SemaphoreAssumption
<1>2. CASE L.head[s] = NULL
  <2>1. Waiters(st, a, s) = {}
    BY <1>2 DEF SemQueues
  <2> QED
    BY <1>1, <1>2, <2>1 DEF Waiters
<1>3. CASE L.head[s] # NULL
  <2>1. /\ Waiters(st, a, s) = {L.head[s], L.tail[s]}
        /\ L.head[s] # L.tail[s] => L.next[L.head[s]] = L.tail[s]
    BY <1>3 DEF SemQueues
  <2>2. L.head[s] \in Waiters(st, a, s) /\ L.tail[s] \in Waiters(st, a, s)
    BY <2>1
  <2> QED
    BY <1>1, <1>3, <2>1, <2>2 DEF Waiters
<1> QED
  BY <1>2, <1>3

\* The semaphores' queues see nothing of a change to the other queues.
LEMMA SemQueuesAlike ==
  ASSUME NEW L, NEW st, NEW a, SemQueues(L, st, a), NEW M, NEW ts, NEW b,
         \A s \in Semaphores : M.head[s] = L.head[s] /\ M.tail[s] = L.tail[s],
         \A t \in Thread : st[t] = "Blocked" => M.next[t] = L.next[t] /\ b[t] = a[t],
         \A t \in Thread : ts[t] = "Blocked" <=> st[t] = "Blocked"
  PROVE  SemQueues(M, ts, b)
<1> SUFFICES ASSUME NEW s \in Semaphores
             PROVE  IF M.head[s] = NULL
                    THEN Waiters(ts, b, s) = {}
                    ELSE /\ Waiters(ts, b, s) = {M.head[s], M.tail[s]}
                         /\ M.head[s] # M.tail[s] => M.next[M.head[s]] = M.tail[s]
  BY DEF SemQueues
<1>1. Waiters(ts, b, s) = Waiters(st, a, s)
  BY DEF Waiters
<1>2. M.head[s] = L.head[s] /\ M.tail[s] = L.tail[s]
  OBVIOUS
<1>3. L.head[s] # NULL => L.head[s] \in Thread /\ st[L.head[s]] = "Blocked"
  BY SemFacts
<1> QED
  BY <1>1, <1>2, <1>3 DEF SemQueues

LEMMA SharedAlike ==
  ASSUME NEW L, NEW st, NEW a, Shared(L, st, a), NEW ts, NEW b,
         \A t \in Thread : /\ ts[t] = "Ready" <=> st[t] = "Ready"
                           /\ ts[t] = "Blocked" <=> st[t] = "Blocked"
                           /\ ts[t] = "Unborn" => st[t] = "Unborn"
                           /\ st[t] = "Blocked" => b[t] = a[t]
  PROVE  Shared(L, ts, b)
<1>1. Hold(L, ts)
  BY HoldAlike DEF Shared
<1>2. SemQueues(L, ts, b)
  BY SemQueuesAlike DEF Shared
<1> QED
  BY <1>1, <1>2 DEF Shared

\* A thread goes to the ready queue.
LEMMA SharedReady ==
  ASSUME NEW L, NEW st \in [Thread -> ThreadState], NEW a, Shared(L, st, a),
         NEW u \in Thread, st[u] \notin {"Ready", "Blocked"}
  PROVE  /\ Shared(queue_append(L, "ready", u), [st EXCEPT ![u] = "Ready"], a)
         /\ ~append_faults(L, "ready")
<1> DEFINE M == queue_append(L, "ready", u)
           ts == [st EXCEPT ![u] = "Ready"]
<1>1. Hold(L, st) /\ SemQueues(L, st, a) /\ "Ready" \in ThreadState /\ "Blocked" \in ThreadState
  BY DEF Shared, ThreadState
<1>2. L \in Links /\ Hold(M, ts) /\ ~append_faults(L, "ready")
  BY <1>1, HoldAppend
<1>3. L.head["ready"] # NULL => L.tail["ready"] \in Thread /\ st[L.tail["ready"]] = "Ready"
  BY <1>1, HoldFacts
<1>4. \A s \in Semaphores : M.head[s] = L.head[s] /\ M.tail[s] = L.tail[s]
  BY <1>2, SemaphoreAssumption DEF queue_append, Links
<1>5. \A t \in Thread : st[t] = "Blocked" => M.next[t] = L.next[t]
  BY <1>3 DEF queue_append, queue_empty
<1>6. \A t \in Thread : ts[t] = "Blocked" <=> st[t] = "Blocked"
  OBVIOUS
<1>7. SemQueues(M, ts, a)
  <2> HIDE DEF M, ts
  <2> QED
    BY <1>1, <1>4, <1>5, <1>6, SemQueuesAlike
<1> QED
  BY <1>2, <1>7 DEF Shared

\* The first of the ready threads is taken to run.
LEMMA SharedTake ==
  ASSUME NEW L, NEW st \in [Thread -> ThreadState], NEW a, Shared(L, st, a)
  PROVE  LET h == L.head["ready"]
         IN  /\ ~take_faults(L, "ready")
             /\ h = NULL <=> \A t \in Thread : st[t] # "Ready"
             /\ h # NULL => /\ h \in Thread /\ st[h] = "Ready"
                            /\ Shared(queue_take(L, "ready"), [st EXCEPT ![h] = "Running"], a)
<1> DEFINE h == L.head["ready"]
           M == queue_take(L, "ready")
           ts == [st EXCEPT ![h] = "Running"]
<1>1. Hold(L, st) /\ SemQueues(L, st, a) /\ "Running" \in ThreadState
  BY DEF Shared, ThreadState
<1>2. /\ ~take_faults(L, "ready") /\ L \in Links
      /\ h # NULL => h \in Thread /\ st[h] = "Ready" /\ Hold(M, ts)
  BY <1>1, HoldTake
<1>3. h = NULL <=> \A t \in Thread : st[t] # "Ready"
  BY <1>1, HoldFacts
<1>4. ASSUME h # NULL PROVE Shared(M, ts, a)
  <2>1. \A s \in Semaphores : M.head[s] = L.head[s] /\ M.tail[s] = L.tail[s]
    BY <1>2, SemaphoreAssumption DEF queue_take, Links
  <2>2. \A t \in Thread : st[t] = "Blocked" => M.next[t] = L.next[t]
    BY DEF queue_take
  <2>3. \A t \in Thread : ts[t] = "Blocked" <=> st[t] = "Blocked"
    BY <1>2, <1>4
  <2>4. SemQueues(M, ts, a)
    <3> HIDE DEF M, ts
    <3> QED
      BY <1>1, <2>1, <2>2, <2>3, SemQueuesAlike
  <2> QED
    BY <1>2, <1>4, <2>4 DEF Shared
<1> QED
  BY <1>2, <1>3, <1>4

\* The running thread waits on the semaphore a[t].  If other threads wait there too,
\* they are all the blocked threads, which is where the number of threads counts.
LEMMA SharedWait ==
  ASSUME NEW L, NEW st \in [Thread -> ThreadState], NEW a \in [Thread -> Semaphores],
         Shared(L, st, a),
         NEW t \in Thread, st[t] \notin {"Ready", "Blocked"},
         \A u, v \in Thread : st[u] = "Blocked" /\ st[v] = "Blocked" => u = v
  PROVE  LET Q == queue_append(L, a[t], t)
         IN  /\ ~append_faults(L, a[t]) /\ ~append_faults(Q, "blocked")
             /\ Shared(queue_append(Q, "blocked", t), [st EXCEPT ![t] = "Blocked"], a)
<1> DEFINE q == a[t]
           Q == queue_append(L, q, t)
           M == queue_append(Q, "blocked", t)
           N == queue_append(L, "blocked", t)
           ts == [st EXCEPT ![t] = "Blocked"]
<1>1. /\ Hold(L, st) /\ SemQueues(L, st, a) /\ q \in Semaphores /\ NULL \notin Thread
      /\ "Ready" \in ThreadState /\ "Blocked" \in ThreadState
  BY QueueAssumption DEF Shared, ThreadState
<1>2. L \in Links /\ Hold(N, ts) /\ ~append_faults(L, "blocked")
  BY <1>1, HoldAppend
<1>3. /\ L.head["blocked"] = NULL <=> \A u \in Thread : st[u] # "Blocked"
      /\ L.head["blocked"] # NULL => /\ L.tail["blocked"] \in Thread
                                     /\ st[L.tail["blocked"]] = "Blocked"
                                     /\ L.next[L.tail["blocked"]] = NULL
  BY <1>1, HoldFacts
<1>4. /\ q \in Queue \ {"ready", "blocked"}
      /\ L.head[q] # NULL => /\ L.head[q] \in Thread /\ st[L.head[q]] = "Blocked" /\ a[L.head[q]] = q
                             /\ L.tail[q] \in Thread /\ st[L.tail[q]] = "Blocked"
  BY <1>1, SemFacts
<1>5. ~append_faults(L, q)
  BY <1>1, <1>4 DEF append_faults, queue_empty
<1>6. L.head[q] # NULL => /\ L.head["blocked"] # NULL /\ L.tail["blocked"] = L.tail[q]
                          /\ L.head[q] = L.tail[q]
  BY <1>3, <1>4
<1>7. /\ M \in Links /\ SameQueues(M, N)
      /\ append_faults(Q, "blocked") <=> append_faults(L, "blocked")
      /\ M.head[q] = IF L.head[q] = NULL THEN t ELSE L.head[q]
      /\ M.tail[q] = t
      /\ \A r \in Queue \ {"ready", "blocked", q} : M.head[r] = L.head[r] /\ M.tail[r] = L.tail[r]
  BY <1>2, <1>3, <1>4, <1>6, EnqueueThenBlock
<1>8. Hold(M, ts)
  BY <1>2, <1>7, SameHold
<1>9. \A u \in Thread : M.next[u] = IF u = t THEN NULL
                                    ELSE IF u = L.tail["blocked"] /\ L.head["blocked"] # NULL
                                    THEN t ELSE L.next[u]
  <2>1. M.next = N.next
    BY <1>7 DEF SameQueues
  <2>2. N.next = [u \in Thread |-> IF u = t THEN NULL
                                   ELSE IF u = L.tail["blocked"] /\ ~(L.head["blocked"] = NULL)
                                   THEN t ELSE L.next[u]]
    BY DEF queue_append, queue_empty
  <2> HIDE DEF M, N
  <2> QED
    BY <2>1, <2>2
<1>10. ASSUME NEW s \in Semaphores
       PROVE  IF M.head[s] = NULL
              THEN Waiters(ts, a, s) = {}
              ELSE /\ Waiters(ts, a, s) = {M.head[s], M.tail[s]}
                   /\ M.head[s] # M.tail[s] => M.next[M.head[s]] = M.tail[s]
  <2> HIDE DEF M, Q, N
  <2>1. CASE s = q
    <3>1. Waiters(ts, a, q) = Waiters(st, a, q) \cup {t}
      BY DEF Waiters
    <3>2. CASE L.head[q] = NULL
      <4>1. Waiters(st, a, q) = {}
        BY <1>1, <3>2 DEF SemQueues
      <4>2. M.head[q] = t /\ M.tail[q] = t
        BY <1>7, <3>2
      <4> QED
        BY <1>1, <2>1, <3>1, <4>1, <4>2
    <3>3. CASE L.head[q] # NULL
      <4>1. Waiters(st, a, q) = {L.head[q]}
        BY <1>1, <1>4, <1>6, <3>3 DEF SemQueues
      <4>2. M.head[q] = L.head[q] /\ M.tail[q] = t /\ M.head[q] # NULL /\ M.head[q] # t
        BY <1>4, <1>7, <3>3
      <4>3. M.next[M.head[q]] = t
        BY <1>4, <1>6, <1>9, <3>3, <4>2
      <4> QED
        BY <2>1, <3>1, <4>1, <4>2, <4>3
    <3> QED
      BY <3>2, <3>3
  <2>2. CASE s # q
    <3>1. s \in Queue \ {"ready", "blocked", q}
      BY <2>2, SemaphoreAssumption
    <3>2. M.head[s] = L.head[s] /\ M.tail[s] = L.tail[s]
      BY <1>7, <3>1
    <3>3. Waiters(ts, a, s) = Waiters(st, a, s)
      BY <2>2 DEF Waiters
    <3>4. L.head[s] # NULL => L.head[s] = L.tail[s]
      BY <1>1, SemFacts
    <3> QED
      BY <1>1, <3>2, <3>3, <3>4 DEF SemQueues
  <2> QED
    BY <2>1, <2>2
<1>11. SemQueues(M, ts, a)
  BY <1>10 DEF SemQueues
<1> QED
  BY <1>2, <1>5, <1>7, <1>8, <1>11 DEF Shared

\* A thread is woken: it is the first waiter of semaphore q.
LEMMA SharedWake ==
  ASSUME NEW L, NEW st \in [Thread -> ThreadState], NEW a \in [Thread -> Semaphores],
         Shared(L, st, a), NEW q \in Semaphores, L.head[q] # NULL
  PROVE  LET u == L.head[q]
             R == queue_remove(queue_take(L, q), "blocked", u)
         IN  /\ u \in Thread /\ st[u] = "Blocked" /\ a[u] = q
             /\ ~take_faults(L, q) /\ ~append_faults(R, "ready")
             /\ Shared(queue_append(R, "ready", u), [st EXCEPT ![u] = "Ready"], a)
<1> DEFINE u == L.head[q]
           R == queue_remove(queue_take(L, q), "blocked", u)
           P == queue_remove(L, "blocked", u)
           M == queue_append(R, "ready", u)
           N == queue_append(P, "ready", u)
           ts == [st EXCEPT ![u] = "Ready"]
<1>1. /\ Hold(L, st) /\ SemQueues(L, st, a) /\ "Ready" \in ThreadState
      /\ NULL \notin Thread /\ "ready" \in Queue /\ "blocked" \in Queue
  BY QueueAssumption DEF Shared, ThreadState
<1>2. /\ q \in Queue \ {"ready", "blocked"}
      /\ u \in Thread /\ st[u] = "Blocked" /\ a[u] = q
      /\ L.tail[q] \in Thread /\ st[L.tail[q]] = "Blocked"
      /\ u # L.tail[q] => L.next[u] = L.tail[q]
  BY <1>1, SemFacts
<1>3. /\ L \in Links
      /\ L.head["ready"] # NULL => L.tail["ready"] \in Thread /\ st[L.tail["ready"]] = "Ready"
      /\ L.prev[u] # NULL => L.prev[u] \in Thread /\ L.next[L.prev[u]] = u
  BY <1>1, <1>2, HoldFacts
<1>4. /\ ~append_faults(P, "ready") /\ P \in Links /\ Hold(N, ts)
  BY <1>1, <1>2, HoldRequeue
<1>5. /\ ~take_faults(L, q) /\ R \in Links /\ SameQueues(R, P)
      /\ R.head[q] = IF u = L.tail[q] THEN NULL ELSE L.tail[q]
      /\ u # L.tail[q] => R.tail[q] = L.tail[q]
      /\ \A r \in Queue \ {"ready", "blocked", q} : R.head[r] = L.head[r] /\ R.tail[r] = L.tail[r]
  BY <1>2, <1>3, TakeThenRemove
<1>6. /\ P.next = [v \in Thread |-> IF v = L.prev[u] THEN L.next[u] ELSE L.next[v]]
      /\ P.head["ready"] = L.head["ready"] /\ P.tail["ready"] = L.tail["ready"]
  BY <1>1, <1>3 DEF queue_remove, Links
<1> HIDE DEF R, P
<1>7. SameQueues(M, N) /\ (append_faults(R, "ready") <=> append_faults(P, "ready")) /\ M \in Links
  BY <1>1, <1>2, <1>4, <1>5, SameAppend, AppendType
<1>8. Hold(M, ts)
  BY <1>4, <1>7, SameHold
<1>9. \A v \in Thread : st[v] = "Blocked" /\ v # u /\ v # L.prev[u] => M.next[v] = L.next[v]
  <2>1. M.next = N.next
    BY <1>7 DEF SameQueues
  <2>2. ASSUME NEW v \in Thread, st[v] = "Blocked", v # u, v # L.prev[u]
        PROVE  N.next[v] = L.next[v]
    <3>1. P.next[v] = L.next[v]
      BY <1>6, <2>2
    <3>2. ~(v = P.tail["ready"] /\ ~queue_empty(P, "ready"))
      BY <1>3, <1>6, <2>2 DEF queue_empty
    <3> QED
      BY <2>2, <3>1, <3>2 DEF queue_append
  <2> QED
    BY <2>1, <2>2
<1>10. \A s \in Semaphores : M.head[s] = R.head[s] /\ M.tail[s] = R.tail[s]
  BY <1>5, SemaphoreAssumption DEF queue_append, Links
<1> HIDE DEF M, N
<1>11. ASSUME NEW s \in Semaphores
       PROVE  IF M.head[s] = NULL
              THEN Waiters(ts, a, s) = {}
              ELSE /\ Waiters(ts, a, s) = {M.head[s], M.tail[s]}
                   /\ M.head[s] # M.tail[s] => M.next[M.head[s]] = M.tail[s]
  <2>1. CASE s = q
    <3>1. Waiters(ts, a, q) = Waiters(st, a, q) \ {u}
      BY <1>2 DEF Waiters
    <3>2. Waiters(st, a, q) = {u, L.tail[q]}
      BY <1>1 DEF SemQueues
    <3>3. CASE u = L.tail[q]
      BY <1>5, <1>10, <2>1, <3>1, <3>2, <3>3
    <3>4. CASE u # L.tail[q]
      <4>1. Waiters(ts, a, q) = {L.tail[q]}
        BY <3>1, <3>2, <3>4
      <4>2. M.head[q] = L.tail[q] /\ M.tail[q] = L.tail[q] /\ L.tail[q] # NULL
        BY <1>1, <1>2, <1>5, <1>10, <3>4
      <4> QED
        BY <2>1, <4>1, <4>2
    <3> QED
      BY <3>3, <3>4
  <2>2. CASE s # q
    <3>1. s \in Queue \ {"ready", "blocked", q}
      BY <2>2, SemaphoreAssumption
    <3>2. M.head[s] = L.head[s] /\ M.tail[s] = L.tail[s]
      BY <1>5, <1>10, <3>1
    <3>3. Waiters(ts, a, s) = Waiters(st, a, s)
      BY <1>2, <2>2 DEF Waiters
    <3>4. CASE L.head[s] = NULL
      BY <1>1, <3>2, <3>3, <3>4 DEF SemQueues
    <3>5. CASE L.head[s] # NULL
      <4>1. /\ L.head[s] \in Thread /\ st[L.head[s]] = "Blocked" /\ a[L.head[s]] = s
            /\ a[L.tail[s]] = s
            /\ L.head[s] # L.tail[s] => L.next[L.head[s]] = L.tail[s]
        BY <1>1, <3>5, SemFacts
      <4>2. L.head[s] # u /\ L.tail[s] # u
        BY <1>2, <2>2, <4>1
      <4>3. L.head[s] # L.tail[s] => L.head[s] # L.prev[u]
        BY <1>1, <1>3, <4>1, <4>2
      <4>4. L.head[s] # L.tail[s] => M.next[L.head[s]] = L.tail[s]
        BY <1>9, <4>1, <4>2, <4>3
      <4>5. Waiters(st, a, s) = {L.head[s], L.tail[s]}
        BY <1>1, <3>5 DEF SemQueues
      <4> QED
        BY <3>2, <3>3, <3>5, <4>4, <4>5
    <3> QED
      BY <3>4, <3>5
  <2> QED
    BY <2>1, <2>2
<1>12. SemQueues(M, ts, a)
  BY <1>11 DEF SemQueues
<1> QED
  BY <1>2, <1>4, <1>5, <1>7, <1>8, <1>12 DEF Shared, R, M

-----------------------------------------------------------------------------
(* Nothing is lost and nobody waits for ever.  With a producer and a       *)
(* consumer the semaphores' units leave somebody to run; with no more than *)
(* three threads at most one thread is then waiting when another begins    *)
(* to, and the one pair of links is enough for both of its queues.         *)

\* The size of fibtest.c's own program, and what its main() does: it creates every
\* thread, and there is somebody to produce and somebody to consume.
ThreeThreads ==
  /\ Cardinality(Thread) <= 3
  /\ Producer # {} /\ Consumer # {}
  /\ \A t \in Thread : \E k \in DOMAIN Created : Created[k] = t

\* The running thread is on a threadQueue and not yet on the blocked queue.
Enqueued == status = "run" /\ pc[current] = "wait_block"

\* All the queues are right, or were before the running thread was enqueued.
LinksRight ==
  status \in Booting \cup {"run"} =>
    \E L \in Links :
      /\ Shared(L, state, arg)
      /\ links = IF Enqueued THEN queue_append(L, arg[current], current) ELSE L

\* Every thread is created before the first one runs, and none finishes.
StatesKnown ==
  /\ status = "create" => \A t \in Thread : state[t] \in {"Unborn", "Ready"}
  /\ status \in {"timer", "lock", "start"} => \A t \in Thread : state[t] = "Ready"
  /\ status = "run" => \A t \in Thread : state[t] \in {"Ready", "Running", "Blocked"}

\* A blocked thread is inside semaphore_wait, and semaphore_signal has a waiter to wake.
BlockedWaits ==
  \A t \in Thread :
    /\ state[t] = "Blocked" => pc[t] = "wait_relock"
    /\ status = "run" /\ pc[t] = "signal_wake" =>
         \E u \in Thread : state[u] = "Blocked" /\ arg[u] = arg[t]

\* A thread that is about to block has found no unit, and leaves another to run.
LeavesOther ==
  Enqueued => /\ i[arg[current]] = 0
              /\ \E u \in Thread : state[u] = "Ready"

\* A unit of protect that is not in the semaphore is in somebody's hands.
ProtectHeld == i["protect"] = 0 => \E t \in Thread : Critical(t)

\* One unit may be spoken for by the running thread: it has counted the unit and not
\* woken its waiter, or it has been woken and has not taken the unit yet.
Pending(s) ==
  IF pc[current] \in {"wait_test", "wait_dec", "signal_wake"} /\ arg[current] = s THEN 1 ELSE 0

WakeUps ==
  status = "run" =>
    \A s \in Semaphores :
      (\E t \in Thread : state[t] = "Blocked" /\ arg[t] = s)
        => i[s] <= Cardinality(Woken(s)) + Pending(s)

\* The one way out of the program is a tick before sthread_start has the lock.
Alive == status \in Exited => EarlyTick

QInv ==
  /\ LinksRight /\ StatesKnown /\ BlockedWaits /\ LeavesOther
  /\ ProtectHeld /\ WakeUps /\ Alive

LEMMA LinksAtRest ==
  ASSUME LinksRight, status \in Booting \cup {"run"}, ~Enqueued
  PROVE  Shared(links, state, arg)
BY DEF LinksRight

LEMMA LinksAtRestNext ==
  ASSUME Shared(links', state', arg'), ~Enqueued'
  PROVE  LinksRight'
<1>1. links' \in Links
  BY HoldFacts DEF Shared
<1> QED
  BY <1>1 DEF LinksRight

LEMMA WokenFinite ==
  ASSUME NEW s
  PROVE  IsFiniteSet(Woken(s)) /\ Cardinality(Woken(s)) \in Nat
<1>1. Woken(s) \subseteq Thread /\ IsFiniteSet(Thread)
  BY QueueAssumption DEF Woken
<1> QED
  BY <1>1, FS_Subset, FS_CardinalityType

\* No three of the threads are left when one runs and one is ready.
LEMMA OneBlocked ==
  ASSUME ThreeThreads, NEW st, NEW t \in Thread, NEW u \in Thread,
         st[t] = "Running", st[u] = "Ready"
  PROVE  \A v, w \in Thread : st[v] = "Blocked" /\ st[w] = "Blocked" => v = w
<1> SUFFICES ASSUME NEW v \in Thread, NEW w \in Thread, st[v] = "Blocked", st[w] = "Blocked", v # w
             PROVE  FALSE
  OBVIOUS
<1>1. t # u /\ t # v /\ t # w /\ u # v /\ u # w
  OBVIOUS
<1>2. IsFiniteSet({t, u, v}) /\ Cardinality({t, u, v}) = 3
  <2>1. IsFiniteSet({t}) /\ Cardinality({t}) = 1
    BY FS_Singleton
  <2>2. {t, u} = {t} \cup {u} /\ {t, u, v} = {t, u} \cup {v} /\ u \notin {t} /\ v \notin {t, u}
    BY <1>1
  <2> HIDE DEF ThreeThreads
  <2>3. IsFiniteSet({t, u}) /\ Cardinality({t, u}) = 2
    BY <2>1, <2>2, GrowByOne
  <2> QED
    BY <2>2, <2>3, GrowByOne
<1> DEFINE S == {t, u, v}
<1>3. S \cup {w} \subseteq Thread /\ w \notin S
  BY <1>1
<1>4. Cardinality(S) = 3 /\ IsFiniteSet(S)
  BY <1>2
<1> HIDE DEF S
<1>5. IsFiniteSet(S \cup {w}) /\ Cardinality(S \cup {w}) = Cardinality(S) + 1
  BY <1>3, <1>4, GrowByOne
<1>6. Cardinality(S \cup {w}) <= Cardinality(Thread) /\ Cardinality(Thread) \in Nat
  BY <1>3, QueueAssumption, FS_Subset, FS_CardinalityType
<1> QED
  BY <1>4, <1>5, <1>6 DEF ThreeThreads

\* The scheduler's choice when there is a ready thread.
LEMMA DispatchShared ==
  ASSUME NEW L, NEW st \in [Thread -> ThreadState], NEW a, Shared(L, st, a),
         \E u \in Thread : st[u] = "Ready", Dispatch(L, st, FALSE)
  PROVE  /\ status' = "run" /\ current' \in Thread /\ st[current'] = "Ready"
         /\ state' = [st EXCEPT ![current'] = "Running"]
         /\ Shared(links', state', a)
<1> DEFINE h == L.head["ready"]
<1>1. /\ ~take_faults(L, "ready") /\ h # NULL /\ h \in Thread /\ st[h] = "Ready"
      /\ Shared(queue_take(L, "ready"), [st EXCEPT ![h] = "Running"], a)
  BY SharedTake
<1>2. /\ links' = queue_take(L, "ready") /\ current' = h /\ status' = "run"
      /\ state' = [t \in Thread |-> IF t = h THEN "Running" ELSE st[t]]
  BY <1>1 DEF Dispatch
<1>3. state' = [st EXCEPT ![h] = "Running"]
  BY <1>2
<1> QED
  BY <1>1, <1>2, <1>3

\* The units leave somebody to run: of all the threads that may wait, one does not.
LEMMA SomebodyReady ==
  ASSUME ThreeThreads, IInv, FifoInv, QInv, NEW t \in Thread, At(t, "wait_test"), i[arg[t]] = 0
  PROVE  \E u \in Thread : state[u] = "Ready"
<1> SUFFICES ASSUME \A u \in Thread : state[u] # "Ready" PROVE FALSE
  OBVIOUS
<1>1. status = "run" /\ current = t /\ pc[t] = "wait_test"
  BY DEF At, Executing
<1>2. /\ pc \in [Thread -> Label] /\ arg \in [Thread -> Semaphores] /\ i \in [Semaphores -> Nat]
      /\ {"producers", "consumers", "protect"} = Semaphores
      /\ Thread = Producer \cup Consumer /\ Producer \cap Consumer = {} /\ CallSites
      /\ \A u \in Thread : at[u] \in AddSite <=> u \in Producer
  BY FibTestAssumption DEF IInv, TypeOK, SemaphoreTypeOK
<1>3. \A u \in Thread \ {t} : state[u] = "Blocked"
  <2>1. \A u \in Thread : state[u] = "Running" => u = t
    BY <1>1 DEF IInv, SchedInv, OneRunning
  <2> QED
    BY <1>1, <2>1 DEF QInv, StatesKnown
<1>4. \A u \in Thread : pc[u] \in {"wait_test", "wait_relock"}
  BY <1>1, <1>3 DEF QInv, BlockedWaits
<1>5. \A u \in Thread \ {t} : i[arg[u]] = 0
  <2> SUFFICES ASSUME NEW u \in Thread \ {t}, arg[u] # arg[t] PROVE i[arg[u]] = 0
    BY <1>1
  <2>1. i[arg[u]] <= Cardinality(Woken(arg[u])) + Pending(arg[u])
    BY <1>1, <1>2, <1>3 DEF QInv, WakeUps
  <2>2. Woken(arg[u]) = {} /\ Pending(arg[u]) = 0
    BY <1>1, <1>3 DEF Woken, Pending
  <2>3. Cardinality({}) = 0 /\ i[arg[u]] \in Nat
    BY <1>2, FS_EmptySet
  <2> QED
    BY <2>1, <2>2, <2>3
<1>6. \A u \in Thread : i[arg[u]] = 0
  BY <1>5
<1>7. \A u \in Thread : arg[u] # "protect"
  <2>1. \A u \in Thread : ~Critical(u)
    BY <1>4 DEF Critical, CallSites, WaitLabel, IInv
  <2> QED
    BY <1>6, <2>1 DEF QInv, ProtectHeld
<1>8. \A u \in Thread : <<at[u], arg[u]>> \in {<<"add_enter", "producers">>, <<"take_enter", "consumers">>}
  BY <1>2, <1>4, <1>7 DEF CallSites, WaitLabel
<1>9. SpaceHeld = {} /\ ItemHeld = {}
  BY <1>4, <1>8 DEF SpaceHeld, ItemHeld
<1>10. i["producers"] = 0
  <2>1. PICK p \in Producer : TRUE
    BY DEF ThreeThreads
  <2>2. at[p] \in AddSite /\ p \in Thread
    BY <1>2
  <2>3. arg[p] = "producers"
    BY <1>8, <2>2 DEF AddSite
  <2> QED
    BY <1>6, <2>2, <2>3
<1>11. i["consumers"] = 0
  <2>1. PICK c \in Consumer : TRUE
    BY DEF ThreeThreads
  <2>2. at[c] \notin AddSite /\ c \in Thread
    BY <1>2
  <2>3. arg[c] = "consumers"
    BY <1>8, <2>2 DEF AddSite
  <2> QED
    BY <1>6, <2>2, <2>3
<1>12. Cardinality({}) = 0
  BY FS_EmptySet
<1> QED
  BY <1>9, <1>10, <1>11, <1>12, FibTestAssumption DEF FifoInv, UnitsAccounted

\* What is so while thread t has the CPU.
LEMMA RunnerFacts ==
  ASSUME IInv, QInv, status = "run", NEW t \in Thread, current = t
  PROVE  /\ state[t] = "Running" /\ state \in [Thread -> ThreadState]
         /\ pc \in [Thread -> Label] /\ arg \in [Thread -> Semaphores] /\ i \in [Semaphores -> Nat]
         /\ \A u \in Thread \ {t} : pc[u] \in Unlocked /\ state[u] \in {"Ready", "Blocked"}
         /\ "protect" \in Semaphores
<1>1. /\ state \in [Thread -> ThreadState]
      /\ pc \in [Thread -> Label] /\ arg \in [Thread -> Semaphores] /\ i \in [Semaphores -> Nat]
  BY DEF IInv, TypeOK, SThreadTypeOK, SemaphoreTypeOK
<1>2. \A u \in Thread : state[u] = "Running" <=> u = t
  BY DEF IInv, SchedInv, OneRunning
<1>3. \A u \in Thread : state[u] \in {"Ready", "Running", "Blocked"}
  BY DEF QInv, StatesKnown
<1>4. \A u \in Thread \ {t} : pc[u] \in Unlocked
  BY DEF IInv, SuspendedUnlocked
<1>5. "protect" \in Semaphores
  BY FibTestAssumption
<1> QED
  BY <1>1, <1>2, <1>3, <1>4, <1>5

\* A step that leaves the queues and the thread states alone, and the thread t where
\* it is not between its two queues.
LEMMA QuietStep ==
  ASSUME QInv, status = "run", NEW t \in Thread, current = t, state[t] = "Running",
         UNCHANGED <<status, current, state, links>>,
         pc[t] # "wait_block", pc'[t] # "wait_block",
         \A u \in Thread \ {t} : arg'[u] = arg[u]
  PROVE  LinksRight' /\ StatesKnown' /\ LeavesOther' /\ Alive'
<1>1. ~Enqueued /\ ~Enqueued'
  BY DEF Enqueued
<1>2. Shared(links, state, arg)
  BY <1>1, LinksAtRest DEF QInv
<1>3. Shared(links, state, arg')
  BY <1>2, SharedAlike
<1>4. Shared(links', state', arg')
  BY <1>3
<1>5. LinksRight'
  BY <1>1, <1>4, LinksAtRestNext
<1> QED
  BY <1>1, <1>5 DEF QInv, StatesKnown, LeavesOther, Alive

LEMMA SemaphoreStepQ ==
  ASSUME ThreeThreads, IInv, FifoInv, QInv, NEW t \in Thread, SemaphoreStep(t),
         UNCHANGED <<at, elem, bufVars>>
  PROVE  QInv'
<1>1. status = "run" /\ current = t /\ at' = at
  BY DEF SemaphoreStep, WaitEnqueue, WaitBlock, WaitRelock, WaitPass, WaitDec, SignalInc,
         SignalWake, SignalRelock, SignalUnlock, At, Executing
<1>2. /\ state[t] = "Running" /\ state \in [Thread -> ThreadState]
      /\ pc \in [Thread -> Label] /\ arg \in [Thread -> Semaphores] /\ i \in [Semaphores -> Nat]
      /\ \A u \in Thread \ {t} : pc[u] \in Unlocked /\ state[u] \in {"Ready", "Blocked"}
      /\ "protect" \in Semaphores
  BY <1>1, RunnerFacts
<1>3. \A s \in Semaphores : Cardinality(Woken(s)) \in Nat /\ IsFiniteSet(Woken(s))
  BY WokenFinite
\* What holds of Critical for every step but the one that takes protect or gives it back.
<1>4. ASSUME pc' = [pc EXCEPT ![t] = pc'[t]], pc[t] \in Label \ {"user"},
             i'["protect"] = 0 => i["protect"] = 0,
             pc[t] = "signal_inc" => arg[t] # "protect"
      PROVE  ProtectHeld'
  <2> SUFFICES ASSUME i'["protect"] = 0 PROVE \E u \in Thread : Critical(u)'
    BY DEF ProtectHeld
  <2>1. PICK u \in Thread : Critical(u)
    BY <1>4 DEF QInv, ProtectHeld
  <2>2. u = t => at[u] \notin {"next", "check"} \/ pc[u] # "signal_inc"
    BY <1>4 DEF IInv, CallSites, WaitLabel
  <2>3. Critical(u)'
    BY <1>1, <1>2, <1>4, <2>1, <2>2 DEF Critical
  <2> QED
    BY <2>3
<1>5. CASE WaitEnqueue(t)
  <2>1. /\ pc[t] = "wait_test" /\ pc' = [pc EXCEPT ![t] = "wait_block"] /\ i[arg[t]] = 0
        /\ links' = queue_append(links, arg[t], t)
        /\ status' = (IF append_faults(links, arg[t]) THEN "segv" ELSE status)
        /\ UNCHANGED <<current, state, i, arg>>
    BY <1>5 DEF WaitEnqueue, Goto, At
  <2>2. PICK u \in Thread : state[u] = "Ready"
    BY <1>5, <2>1, SomebodyReady DEF WaitEnqueue
  <2>3. Shared(links, state, arg)
    BY <1>1, <2>1, LinksAtRest DEF QInv, Enqueued
  <2>4. ~append_faults(links, arg[t])
    BY <1>2, <2>2, <2>3, OneBlocked, SharedWait
  <2>5. status' = "run" /\ Enqueued' /\ current' = t
    BY <1>1, <1>2, <2>1, <2>4 DEF Enqueued
  <2>6. LinksRight'
    <3>1. links \in Links
      BY <2>3, HoldFacts DEF Shared
    <3>2. Shared(links, state', arg')
      BY <2>1, <2>3
    <3>3. links' = IF Enqueued' THEN queue_append(links, arg'[current'], current') ELSE links
      BY <2>1, <2>5
    <3> QED
      BY <3>1, <3>2, <3>3 DEF LinksRight
  <2>7. StatesKnown' /\ LeavesOther' /\ Alive'
    BY <1>1, <2>1, <2>2, <2>5 DEF QInv, StatesKnown, LeavesOther, Alive, Exited
  <2>8. BlockedWaits'
    BY <1>1, <1>2, <2>1 DEF QInv, BlockedWaits
  <2>9. ProtectHeld'
    BY <1>2, <1>4, <2>1
  <2>10. WakeUps'
    <3>1. \A s \in Semaphores : Woken(s)' = Woken(s)
      BY <1>2, <2>1 DEF Woken
    <3>2. \A s \in Semaphores \ {arg[t]} : Pending(s)' = 0 /\ Pending(s) = 0
      BY <1>1, <1>2, <2>1 DEF Pending
    <3>3. Pending(arg[t])' = 0
      BY <1>1, <1>2, <2>1 DEF Pending
    <3> SUFFICES ASSUME NEW s \in Semaphores, \E v \in Thread : state[v] = "Blocked" /\ arg[v] = s
                 PROVE  i'[s] <= Cardinality(Woken(s))' + Pending(s)'
      BY <2>1 DEF WakeUps
    <3>4. i[s] <= Cardinality(Woken(s)) + Pending(s)
      BY <1>1 DEF QInv, WakeUps
    <3> QED
      BY <1>2, <1>3, <2>1, <3>1, <3>2, <3>3, <3>4
  <2> QED
    BY <2>6, <2>7, <2>8, <2>9, <2>10 DEF QInv
<1>6. CASE WaitBlock(t)
  <2> DEFINE st == [state EXCEPT ![t] = "Blocked"]
  <2>1. /\ pc[t] = "wait_block" /\ pc' = [pc EXCEPT ![t] = "wait_relock"]
        /\ Schedule(st) /\ UNCHANGED <<i, arg>>
    BY <1>6 DEF WaitBlock, Goto, At
  <2>2. i[arg[t]] = 0 /\ \E u \in Thread : state[u] = "Ready"
    BY <1>1, <2>1 DEF QInv, LeavesOther, Enqueued
  <2>3. PICK u \in Thread : state[u] = "Ready"
    BY <2>2
  <2>4. PICK L \in Links : Shared(L, state, arg) /\ links = queue_append(L, arg[t], t)
    BY <1>1, <2>1 DEF QInv, LinksRight, Enqueued
  <2> DEFINE M == queue_append(links, "blocked", t)
  <2>5. ~append_faults(links, "blocked") /\ Shared(M, st, arg)
    BY <1>2, <2>3, <2>4, OneBlocked, SharedWait
  <2>6. st \in [Thread -> ThreadState] /\ st[u] = "Ready" /\ st[t] = "Blocked"
    BY <1>2, <2>3 DEF ThreadState
  <2>7. Dispatch(M, st, FALSE)
    <3>1. Dispatch(M, [st EXCEPT ![t] = "Blocked"], append_faults(links, "blocked"))
      BY <1>1, <2>1, <2>6 DEF Schedule, QueueFor
    <3>2. [st EXCEPT ![t] = "Blocked"] = st
      BY <2>6
    <3>3. append_faults(links, "blocked") = FALSE
      BY <2>5
    <3> QED
      BY <3>1, <3>2, <3>3
  <2> HIDE DEF M
  <2>8. /\ status' = "run" /\ current' \in Thread /\ st[current'] = "Ready"
        /\ state' = [st EXCEPT ![current'] = "Running"] /\ Shared(links', state', arg)
    BY <2>5, <2>6, <2>7, DispatchShared
  <2>9. current' # t /\ pc'[current'] \in Unlocked
    BY <1>2, <2>1, <2>6, <2>8
  <2>10. ~Enqueued'
    BY <2>9 DEF Enqueued, Unlocked
  <2>11. LinksRight'
    <3>1. Shared(links', state', arg')
      BY <2>1, <2>8
    <3> QED
      BY <2>10, <3>1, LinksAtRestNext
  <2>12. \A v \in Thread : /\ state'[v] = "Blocked" <=> v = t \/ state[v] = "Blocked"
                           /\ state'[v] \in {"Ready", "Running", "Blocked"}
    BY <1>2, <2>8, <2>9
  <2>13. StatesKnown' /\ LeavesOther' /\ Alive'
    BY <2>8, <2>10, <2>12 DEF StatesKnown, LeavesOther, Alive, Exited
  <2>14. BlockedWaits'
    <3>1. \A v \in Thread : state'[v] = "Blocked" => pc'[v] = "wait_relock"
      BY <1>2, <2>1, <2>12 DEF QInv, BlockedWaits
    <3>2. \A v \in Thread : pc'[v] # "signal_wake"
      BY <1>2, <2>1 DEF Unlocked
    <3> QED
      BY <3>1, <3>2 DEF BlockedWaits
  <2>15. ProtectHeld'
    BY <1>2, <1>4, <2>1
  <2>16. WakeUps'
    <3>1. \A s \in Semaphores : Woken(s)' = Woken(s)
      BY <1>2, <2>1, <2>12 DEF Woken
    <3>2. \A s \in Semaphores : Pending(s)' = 0 /\ Pending(s) = 0
      BY <1>1, <1>2, <2>1, <2>9 DEF Pending, Unlocked
    <3> SUFFICES ASSUME NEW s \in Semaphores, \E v \in Thread : state'[v] = "Blocked" /\ arg'[v] = s
                 PROVE  i'[s] <= Cardinality(Woken(s))' + Pending(s)'
      BY DEF WakeUps
    <3>3. s # arg[t] => i[s] <= Cardinality(Woken(s)) + Pending(s)
      BY <1>1, <2>1, <2>12 DEF QInv, WakeUps
    <3> QED
      BY <1>2, <1>3, <2>1, <2>2, <3>1, <3>2, <3>3
  <2> QED
    BY <2>11, <2>13, <2>14, <2>15, <2>16 DEF QInv
<1>7. CASE WaitRelock(t)
  <2>1. /\ pc[t] = "wait_relock" /\ pc' = [pc EXCEPT ![t] = "wait_test"]
        /\ UNCHANGED <<status, current, state, links, i, arg>>
    BY <1>7 DEF WaitRelock, TakeLock, Goto, At
  <2>2. LinksRight' /\ StatesKnown' /\ LeavesOther' /\ Alive'
    BY <1>1, <1>2, <2>1, QuietStep
  <2>3. BlockedWaits'
    BY <1>1, <1>2, <2>1 DEF QInv, BlockedWaits
  <2>4. ProtectHeld'
    BY <1>2, <1>4, <2>1
  <2>5. WakeUps'
    <3>1. \A s \in Semaphores \ {arg[t]} : Woken(s)' = Woken(s) /\ Pending(s)' = Pending(s)
      BY <1>1, <1>2, <2>1 DEF Woken, Pending
    <3>2. Woken(arg[t])' = Woken(arg[t]) \ {t} /\ t \in Woken(arg[t])
      BY <1>2, <2>1 DEF Woken
    <3>3. Cardinality(Woken(arg[t]))' = Cardinality(Woken(arg[t])) - 1
      BY <1>2, <1>3, <3>2, ShrinkByOne
    <3>4. Pending(arg[t])' = 1 /\ Pending(arg[t]) = 0
      BY <1>1, <1>2, <2>1 DEF Pending
    <3> SUFFICES ASSUME NEW s \in Semaphores, \E v \in Thread : state[v] = "Blocked" /\ arg[v] = s
                 PROVE  i'[s] <= Cardinality(Woken(s))' + Pending(s)'
      BY <2>1 DEF WakeUps
    <3>5. i[s] <= Cardinality(Woken(s)) + Pending(s)
      BY <1>1 DEF QInv, WakeUps
    <3>6. CASE s = arg[t]
      BY <1>2, <1>3, <2>1, <3>3, <3>4, <3>5, <3>6
    <3>7. CASE s # arg[t]
      BY <2>1, <3>1, <3>5, <3>7
    <3> QED
      BY <3>6, <3>7
  <2> QED
    BY <2>2, <2>3, <2>4, <2>5 DEF QInv
<1>8. CASE WaitPass(t)
  <2>1. /\ pc[t] = "wait_test" /\ pc' = [pc EXCEPT ![t] = "wait_dec"]
        /\ UNCHANGED <<status, current, state, links, i, arg>>
    BY <1>8 DEF WaitPass, Goto, At, schedVars
  <2>2. LinksRight' /\ StatesKnown' /\ LeavesOther' /\ Alive'
    BY <1>1, <1>2, <2>1, QuietStep
  <2>3. BlockedWaits'
    BY <1>1, <1>2, <2>1 DEF QInv, BlockedWaits
  <2>4. ProtectHeld'
    BY <1>2, <1>4, <2>1
  <2>5. WakeUps'
    <3>1. \A s \in Semaphores : Woken(s)' = Woken(s) /\ Pending(s)' = Pending(s)
      BY <1>1, <1>2, <2>1 DEF Woken, Pending
    <3> QED
      BY <2>1, <3>1 DEF QInv, WakeUps
  <2> QED
    BY <2>2, <2>3, <2>4, <2>5 DEF QInv
<1>9. CASE WaitDec(t)
  <2>1. /\ pc[t] = "wait_dec" /\ pc' = [pc EXCEPT ![t] = "user"]
        /\ i' = [i EXCEPT ![arg[t]] = @ - 1] /\ i[arg[t]] > 0
        /\ UNCHANGED <<status, current, state, links, arg>>
    BY <1>9 DEF WaitDec, DropLock, Goto, At, IInv, TestHolds
  <2>2. LinksRight' /\ StatesKnown' /\ LeavesOther' /\ Alive'
    BY <1>1, <1>2, <2>1, QuietStep
  <2>3. BlockedWaits'
    BY <1>1, <1>2, <2>1 DEF QInv, BlockedWaits
  <2>4. ProtectHeld'
    <3>1. CASE arg[t] = "protect"
      <4>1. at[t] \in {"add_store", "take_copy"} /\ pc'[t] = "user"
        BY <1>2, <2>1, <3>1 DEF IInv, CallSites, WaitLabel
      <4> QED
        BY <1>1, <4>1 DEF ProtectHeld, Critical
    <3>2. CASE arg[t] # "protect"
      BY <1>2, <1>4, <2>1, <3>2
    <3> QED
      BY <3>1, <3>2
  <2>5. WakeUps'
    <3>1. \A s \in Semaphores : Woken(s)' = Woken(s)
      BY <1>1, <1>2, <2>1 DEF Woken
    <3>2. \A s \in Semaphores : Pending(s)' = 0 /\ Pending(s) = IF s = arg[t] THEN 1 ELSE 0
      BY <1>1, <1>2, <2>1 DEF Pending
    <3> SUFFICES ASSUME NEW s \in Semaphores, \E v \in Thread : state[v] = "Blocked" /\ arg[v] = s
                 PROVE  i'[s] <= Cardinality(Woken(s))' + Pending(s)'
      BY <2>1 DEF WakeUps
    <3>3. i[s] <= Cardinality(Woken(s)) + Pending(s)
      BY <1>1 DEF QInv, WakeUps
    <3> QED
      BY <1>2, <1>3, <2>1, <3>1, <3>2, <3>3
  <2> QED
    BY <2>2, <2>3, <2>4, <2>5 DEF QInv
<1>10. CASE SignalInc(t)
  <2>1. /\ pc[t] = "signal_inc" /\ i' = [i EXCEPT ![arg[t]] = @ + 1]
        /\ pc' = [pc EXCEPT ![t] = IF queue_empty(links, arg[t]) THEN "signal_unlock" ELSE "signal_wake"]
        /\ UNCHANGED <<status, current, state, links, arg>>
    BY <1>10 DEF SignalInc, Goto, At, schedVars
  <2>2. LinksRight' /\ StatesKnown' /\ LeavesOther' /\ Alive'
    BY <1>1, <1>2, <2>1, QuietStep
  <2>3. queue_empty(links, arg[t]) <=> \A u \in Thread : ~(state[u] = "Blocked" /\ arg[u] = arg[t])
    <3>1. Shared(links, state, arg)
      BY <1>1, <2>1, LinksAtRest DEF QInv, Enqueued
    <3> QED
      BY <1>2, <3>1, SemFacts DEF Shared, queue_empty
  <2>4. BlockedWaits'
    <3>1. \A v \in Thread : state'[v] = "Blocked" => pc'[v] = "wait_relock"
      BY <1>2, <2>1 DEF QInv, BlockedWaits
    <3>2. \A v \in Thread : pc'[v] = "signal_wake" => v = t /\ ~queue_empty(links, arg[t])
      BY <1>2, <2>1 DEF Unlocked
    <3> QED
      BY <2>1, <2>3, <3>1, <3>2 DEF BlockedWaits
  <2>5. ProtectHeld'
    <3>1. CASE arg[t] = "protect"
      BY <1>2, <2>1, <3>1 DEF ProtectHeld
    <3>2. CASE arg[t] # "protect"
      BY <1>2, <1>4, <2>1, <3>2
    <3> QED
      BY <3>1, <3>2
  <2>6. WakeUps'
    <3>1. \A s \in Semaphores : Woken(s)' = Woken(s)
      BY <1>1, <1>2, <2>1 DEF Woken
    <3>2. \A s \in Semaphores : Pending(s) = 0
      BY <1>1, <1>2, <2>1 DEF Pending
    <3> SUFFICES ASSUME NEW s \in Semaphores, \E v \in Thread : state[v] = "Blocked" /\ arg[v] = s
                 PROVE  i'[s] <= Cardinality(Woken(s))' + Pending(s)'
      BY <2>1 DEF WakeUps
    <3>3. i[s] <= Cardinality(Woken(s)) + Pending(s)
      BY <1>1 DEF QInv, WakeUps
    <3>4. Pending(s)' = IF s = arg[t] THEN 1 ELSE 0
      BY <1>1, <1>2, <2>1, <2>3 DEF Pending
    <3> QED
      BY <1>2, <1>3, <2>1, <3>1, <3>2, <3>3, <3>4
  <2> QED
    BY <2>2, <2>4, <2>5, <2>6 DEF QInv
<1>11. CASE SignalWake(t)
  <2>0. PICK q \in Semaphores : q = arg[t]
    BY <1>2
  <2> DEFINE u == links.head[q]
             R == queue_remove(queue_take(links, q), "blocked", u)
             st == [state EXCEPT ![u] = "Ready"]
  <2>1. /\ pc[t] = "signal_wake" /\ pc' = [pc EXCEPT ![t] = "signal_relock"]
        /\ UNCHANGED <<i, arg>>
    BY <1>11 DEF SignalWake, Goto, At
  <2>2. Shared(links, state, arg)
    BY <1>1, <2>1, LinksAtRest DEF QInv, Enqueued
  <2>3. u # NULL
    <3>1. \E v \in Thread : state[v] = "Blocked" /\ arg[v] = q
      BY <1>1, <2>0, <2>1 DEF QInv, BlockedWaits
    <3> QED
      BY <2>2, <3>1, SemFacts DEF Shared
  <2>4. /\ u \in Thread /\ state[u] = "Blocked" /\ arg[u] = q
        /\ ~take_faults(links, q) /\ ~append_faults(R, "ready")
        /\ Shared(queue_append(R, "ready", u), st, arg)
    BY <1>2, <2>1, <2>2, <2>3, SharedWake
  <2>5. Requeue(queue_take(links, q), u)
    BY <1>11, <2>0, <2>3, <2>4 DEF SignalWake
  <2>6. /\ links' = queue_append(R, "ready", u) /\ state' = st
        /\ status' = "run" /\ current' = t
    BY <1>1, <2>4, <2>5 DEF Requeue
  <2> HIDE DEF R, st, u
  <2>7. ~Enqueued'
    BY <1>2, <2>1, <2>6 DEF Enqueued
  <2>8. LinksRight'
    <3>1. Shared(links', state', arg')
      BY <2>1, <2>4, <2>6
    <3> QED
      BY <2>7, <3>1, LinksAtRestNext
  <2>9. /\ \A v \in Thread : state'[v] = "Blocked" <=> v # u /\ state[v] = "Blocked"
        /\ \A v \in Thread : state'[v] \in {"Ready", "Running", "Blocked"}
    BY <1>2, <2>4, <2>6 DEF st
  <2>10. StatesKnown' /\ LeavesOther' /\ Alive'
    BY <2>6, <2>7, <2>9 DEF StatesKnown, LeavesOther, Alive, Exited
  <2>11. BlockedWaits'
    <3>1. \A v \in Thread : state'[v] = "Blocked" => pc'[v] = "wait_relock"
      BY <1>2, <2>1, <2>9 DEF QInv, BlockedWaits
    <3>2. \A v \in Thread : pc'[v] # "signal_wake"
      BY <1>2, <2>1 DEF Unlocked
    <3> QED
      BY <3>1, <3>2 DEF BlockedWaits
  <2>12. ProtectHeld'
    BY <1>2, <1>4, <2>1
  <2>13. WakeUps'
    <3>1. pc[u] = "wait_relock" /\ u # t
      BY <1>2, <2>4 DEF QInv, BlockedWaits
    <3>2. \A s \in Semaphores \ {q} : Woken(s)' = Woken(s) /\ Pending(s)' = 0 /\ Pending(s) = 0
      BY <1>1, <1>2, <2>0, <2>1, <2>4, <2>6, <2>9 DEF Woken, Pending
    <3>3. Woken(q)' = Woken(q) \cup {u} /\ u \notin Woken(q)
      BY <1>2, <2>1, <2>4, <2>9, <3>1 DEF Woken
    <3>4. Cardinality(Woken(q))' = Cardinality(Woken(q)) + 1
      BY <1>3, <2>1, <3>3, GrowByOne
    <3>5. Pending(q)' = 0 /\ Pending(q) = 1
      BY <1>1, <1>2, <2>0, <2>1, <2>6 DEF Pending
    <3> SUFFICES ASSUME NEW s \in Semaphores, \E v \in Thread : state'[v] = "Blocked" /\ arg'[v] = s
                 PROVE  i'[s] <= Cardinality(Woken(s))' + Pending(s)'
      BY DEF WakeUps
    <3>6. i[s] <= Cardinality(Woken(s)) + Pending(s)
      BY <1>1, <2>1, <2>9 DEF QInv, WakeUps
    <3>7. CASE s = q
      BY <1>2, <1>3, <2>1, <3>4, <3>5, <3>6, <3>7
    <3>8. CASE s # q
      BY <2>1, <3>2, <3>6, <3>8
    <3> QED
      BY <3>7, <3>8
  <2> QED
    BY <2>8, <2>10, <2>11, <2>12, <2>13 DEF QInv
<1>12. CASE SignalRelock(t) \/ SignalUnlock(t)
  <2>1. PICK l \in {"signal_unlock", "user"} :
           /\ pc[t] \in {"signal_relock", "signal_unlock"} /\ pc' = [pc EXCEPT ![t] = l]
           /\ UNCHANGED <<status, current, state, links, i, arg>>
    BY <1>12 DEF SignalRelock, SignalUnlock, TakeLock, DropLock, Goto, At
  <2>2. LinksRight' /\ StatesKnown' /\ LeavesOther' /\ Alive'
    BY <1>1, <1>2, <2>1, QuietStep
  <2>3. BlockedWaits'
    BY <1>1, <1>2, <2>1 DEF QInv, BlockedWaits
  <2>4. ProtectHeld'
    BY <1>2, <1>4, <2>1
  <2>5. WakeUps'
    <3>1. \A s \in Semaphores : Woken(s)' = Woken(s) /\ Pending(s)' = Pending(s)
      BY <1>1, <1>2, <2>1 DEF Woken, Pending
    <3> QED
      BY <2>1, <3>1 DEF QInv, WakeUps
  <2> QED
    BY <2>2, <2>3, <2>4, <2>5 DEF QInv
<1> QED
  BY <1>5, <1>6, <1>7, <1>8, <1>9, <1>10, <1>11, <1>12 DEF SemaphoreStep

LEMMA BufferStepQ ==
  ASSUME ThreeThreads, IInv, FifoInv, QInv, NEW t \in Thread, BufferStep(t)
  PROVE  QInv'
<1>1. status = "run" /\ current = t /\ pc[t] = "user"
  BY DEF BufferStep, AddWaitSpace, AddWaitProtect, AddStore, AddCount, AddSignalItem,
         AddSignalProtect, ProducerNext, TakeWaitItem, TakeWaitProtect, TakeCopy, TakeAdvance,
         TakeSignalSpace, TakeSignalProtect, ConsumerCheck, Move, At, Executing
<1>2. /\ state[t] = "Running" /\ state \in [Thread -> ThreadState]
      /\ pc \in [Thread -> Label] /\ arg \in [Thread -> Semaphores] /\ i \in [Semaphores -> Nat]
      /\ \A u \in Thread \ {t} : pc[u] \in Unlocked /\ state[u] \in {"Ready", "Blocked"}
      /\ "protect" \in Semaphores
  BY <1>1, RunnerFacts
<1>3. \A s \in Semaphores : Cardinality(Woken(s)) \in Nat
  BY WokenFinite
<1>4. /\ UNCHANGED <<current, state, links, i>>
      /\ pc' = [pc EXCEPT ![t] = pc'[t]] /\ pc'[t] \in {"user", "wait_test", "signal_inc"}
      /\ arg' = [arg EXCEPT ![t] = arg'[t]]
  <2>1. CASE \/ AddWaitSpace(t) \/ AddWaitProtect(t) \/ TakeWaitItem(t) \/ TakeWaitProtect(t)
    BY <1>2, <2>1 DEF AddWaitSpace, AddWaitProtect, TakeWaitItem, TakeWaitProtect,
                      WaitLock, Call, TakeLock
  <2>2. CASE \/ AddSignalItem(t) \/ AddSignalProtect(t) \/ TakeSignalSpace(t) \/ TakeSignalProtect(t)
    BY <1>2, <2>2 DEF AddSignalItem, AddSignalProtect, TakeSignalSpace, TakeSignalProtect,
                      SignalLock, Call, TakeLock
  <2>3. CASE \/ AddStore(t) \/ AddCount(t) \/ ProducerNext(t) \/ TakeCopy(t) \/ TakeAdvance(t)
             \/ ConsumerCheck(t)
    <3>1. UNCHANGED <<current, state, links, i, pc, arg>>
      BY <2>3 DEF AddStore, AddCount, ProducerNext, TakeCopy, TakeAdvance, ConsumerCheck,
                  schedVars, semVars
    <3> QED
      BY <1>1, <1>2, <3>1
  <2> QED
    BY <2>1, <2>2, <2>3 DEF BufferStep
<1>5. status' = "run"
  <2>1. CASE ConsumerCheck(t)
    <3>1. status' # "nomatch"
      BY <2>1, ConsumerCheckFifo DEF FifoInv, Filled
    <3> QED
      BY <1>1, <2>1, <3>1 DEF ConsumerCheck
  <2>2. CASE ~ConsumerCheck(t)
    BY <1>1, <2>2 DEF BufferStep, AddWaitSpace, AddWaitProtect, AddStore, AddCount, AddSignalItem,
         AddSignalProtect, ProducerNext, TakeWaitItem, TakeWaitProtect, TakeCopy, TakeAdvance,
         TakeSignalSpace, TakeSignalProtect, WaitLock, SignalLock, Call, TakeLock, schedVars
  <2> QED
    BY <2>1, <2>2
<1>6. LinksRight' /\ StatesKnown' /\ LeavesOther' /\ Alive'
  BY <1>1, <1>2, <1>4, <1>5, QuietStep
<1>7. BlockedWaits'
  <2>1. \A v \in Thread : state'[v] = "Blocked" => pc'[v] = "wait_relock"
    BY <1>2, <1>4 DEF QInv, BlockedWaits
  <2>2. \A v \in Thread : pc'[v] # "signal_wake"
    BY <1>2, <1>4 DEF Unlocked
  <2> QED
    BY <2>1, <2>2 DEF BlockedWaits
<1>8. ProtectHeld'
  <2> SUFFICES ASSUME i["protect"] = 0 PROVE \E u \in Thread : Critical(u)'
    BY <1>4 DEF ProtectHeld
  <2>1. PICK u \in Thread : Critical(u)
    BY DEF QInv, ProtectHeld
  <2>2. at \in [Thread -> AddSite \cup TakeSite]
    BY DEF IInv, TypeOK
  <2>3. CASE u # t
    <3>1. at'[u] = at[u]
      BY <2>2, <2>3 DEF BufferStep, AddWaitSpace, AddWaitProtect, AddStore, AddCount,
         AddSignalItem, AddSignalProtect, ProducerNext, TakeWaitItem, TakeWaitProtect, TakeCopy,
         TakeAdvance, TakeSignalSpace, TakeSignalProtect, ConsumerCheck, Move
    <3>2. pc'[u] = pc[u]
      BY <1>2, <1>4, <2>3
    <3> QED
      BY <2>1, <3>1, <3>2 DEF Critical
  <2>4. CASE u = t
    <3>1. at[t] \in {"add_store", "take_copy", "add_count", "add_notify", "add_leave",
                     "take_advance", "take_notify", "take_leave"}
      BY <1>1, <2>1, <2>4 DEF Critical
    <3>2. \/ at'[t] \in {"add_count", "add_notify", "add_leave",
                         "take_advance", "take_notify", "take_leave"}
          \/ at'[t] \in {"next", "check"} /\ pc'[t] = "signal_inc"
      BY <1>2, <2>2, <3>1 DEF BufferStep, AddWaitSpace, AddWaitProtect, AddStore, AddCount,
         AddSignalItem, AddSignalProtect, ProducerNext, TakeWaitItem, TakeWaitProtect, TakeCopy,
         TakeAdvance, TakeSignalSpace, TakeSignalProtect, ConsumerCheck, Move, SignalLock, Call
    <3> QED
      BY <2>4, <3>2 DEF Critical
  <2> QED
    BY <2>3, <2>4
<1>9. WakeUps'
  <2>1. \A s \in Semaphores : Woken(s)' = Woken(s)
    BY <1>1, <1>2, <1>4 DEF Woken
  <2>2. \A s \in Semaphores : Pending(s) = 0 /\ Pending(s)' \in {0, 1}
    BY <1>1 DEF Pending
  <2> SUFFICES ASSUME NEW s \in Semaphores, \E v \in Thread : state'[v] = "Blocked" /\ arg'[v] = s
               PROVE  i'[s] <= Cardinality(Woken(s))' + Pending(s)'
    BY DEF WakeUps
  <2>3. \E v \in Thread : state[v] = "Blocked" /\ arg[v] = s
    BY <1>2, <1>4
  <2>4. i[s] <= Cardinality(Woken(s)) + Pending(s)
    BY <1>1, <2>3 DEF QInv, WakeUps
  <2> QED
    BY <1>2, <1>3, <1>4, <2>1, <2>2, <2>4
<1> QED
  BY <1>6, <1>7, <1>8, <1>9 DEF QInv

\* main(), and a tick.
LEMMA SystemQ ==
  ASSUME ThreeThreads, IInv, QInv, System
  PROVE  QInv'
<1>1. UNCHANGED <<i, pc, arg, at>>
  BY DEF System, programVars, semVars
<1>2. /\ state \in [Thread -> ThreadState] /\ pc \in [Thread -> Label]
      /\ arg \in [Thread -> Semaphores] /\ i \in [Semaphores -> Nat]
  BY DEF IInv, TypeOK, SThreadTypeOK, SemaphoreTypeOK
<1>3. ProtectHeld'
  BY <1>1 DEF QInv, ProtectHeld, Critical
<1>4. CASE Boot
  <2>1. status \in Booting /\ \A t \in Thread : pc[t] = "user"
    BY <1>4, BootFacts DEF IInv, NotStarted
  <2>2. Shared(links, state, arg)
    BY <2>1, LinksAtRest DEF QInv, Enqueued, Booting
  <2>3. /\ \A t \in Thread : state[t] \in {"Unborn", "Ready"}
        /\ status # "create" => \A t \in Thread : state[t] = "Ready"
    BY <2>1 DEF QInv, StatesKnown, Booting
  <2>4. status' = "run" => current' \in Thread
    BY <1>4, BootFacts DEF IInv, SchedInv
  <2>5. ~Enqueued'
    BY <1>1, <2>1, <2>4 DEF Enqueued
  <2>6. /\ Shared(links', state', arg)
        /\ \A t \in Thread : state'[t] \in {"Unborn", "Ready", "Running"}
        /\ StatesKnown' /\ Alive'
    <3>1. CASE MainCreate
      <4>1. PICK k \in DOMAIN Created :
              /\ \A j \in DOMAIN Created : state[Created[j]] = "Unborn" <=> j >= k
              /\ state' = [state EXCEPT ![Created[k]] = "Ready"]
              /\ links' = queue_append(links, "ready", Created[k])
              /\ status' = IF k = Len(Created) THEN "timer" ELSE "create"
        BY <3>1 DEF MainCreate
      <4>2. /\ Created[k] \in Thread /\ Created \in Seq(Thread)
            /\ DOMAIN Created = 1 .. Len(Created) /\ Len(Created) \in Nat /\ k \in 1 .. Len(Created)
        BY SThreadAssumption
      <4>3. state[Created[k]] = "Unborn"
        BY <4>1, <4>2
      <4>4. Shared(links', state', arg)
        BY <1>2, <2>2, <4>1, <4>2, <4>3, SharedReady
      <4>5. \A t \in Thread : state'[t] = IF t = Created[k] THEN "Ready" ELSE state[t]
        BY <1>2, <4>1
      <4>6. status' = "timer" => \A t \in Thread : state'[t] = "Ready"
        <5> SUFFICES ASSUME k = Len(Created), NEW t \in Thread PROVE state'[t] = "Ready"
          BY <4>1
        <5>1. PICK j \in 1 .. Len(Created) : Created[j] = t
          BY <4>2 DEF ThreeThreads
        <5>2. j # k => state[t] # "Unborn"
          BY <4>1, <4>2, <5>1
        <5> QED
          BY <2>3, <4>5, <5>1, <5>2
      <4>7. \A t \in Thread : state'[t] \in {"Unborn", "Ready"}
        BY <2>3, <4>5
      <4> QED
        BY <4>1, <4>4, <4>6, <4>7 DEF StatesKnown, Alive, Exited
    <3>2. CASE StartTimer \/ StartLock \/ TickBeforeStart
      <4>1. /\ UNCHANGED <<state, links>>
            /\ \/ status = "timer" /\ status' = "lock"
               \/ status = "lock" /\ status' = "start"
               \/ EarlyTick /\ status' = "segv"
        BY <3>2 DEF StartTimer, StartLock, TickBeforeStart
      <4>2. Shared(links', state', arg)
        BY <2>2, <4>1
      <4>3. Alive'
        BY <4>1 DEF Alive, Exited
      <4>4. StatesKnown'
        BY <2>3, <4>1 DEF StatesKnown
      <4> QED
        BY <2>3, <4>1, <4>2, <4>3, <4>4
    <3>3. CASE StartThreads
      <4>1. Dispatch(links, state, FALSE) /\ status # "create"
        BY <3>3 DEF StartThreads
      <4>2. \E u \in Thread : state[u] = "Ready"
        BY <2>3, <4>1, FibTestAssumption DEF ThreeThreads
      <4>3. /\ status' = "run" /\ state' = [state EXCEPT ![current'] = "Running"]
            /\ Shared(links', state', arg)
        BY <1>2, <2>2, <4>1, <4>2, DispatchShared
      <4>4. \A t \in Thread : state'[t] \in {"Ready", "Running"}
        BY <1>2, <2>3, <4>1, <4>3
      <4> QED
        BY <4>3, <4>4 DEF StatesKnown, Alive, Exited
    <3> QED
      BY <1>4, <3>1, <3>2, <3>3 DEF Boot
  <2>7. Shared(links', state', arg')
    BY <1>1, <2>6
  <2>8. LinksRight'
    BY <2>5, <2>7, LinksAtRestNext
  <2>9. BlockedWaits' /\ WakeUps' /\ LeavesOther'
    <3>1. \A t \in Thread : state'[t] # "Blocked" /\ pc'[t] # "signal_wake"
      BY <1>1, <2>1, <2>6
    <3> QED
      BY <2>5, <3>1 DEF BlockedWaits, WakeUps, LeavesOther
  <2> QED
    BY <1>3, <2>6, <2>8, <2>9 DEF QInv
<1>5. CASE Preempt
  <2>1. status = "run" /\ lock = 0 /\ Schedule(state) /\ current \in Thread
    BY <1>5 DEF Preempt, IInv, SchedInv
  <2>2. /\ state[current] = "Running"
        /\ \A u \in Thread \ {current} : pc[u] \in Unlocked /\ state[u] \in {"Ready", "Blocked"}
    BY <2>1, RunnerFacts
  <2>3. pc[current] \in Unlocked
    BY <2>1 DEF IInv, LockDiscipline, Executing, Unlocked
  <2>4. Shared(links, state, arg)
    BY <2>1, <2>3, LinksAtRest DEF QInv, Enqueued, Unlocked
  <2> DEFINE st == [state EXCEPT ![current] = "Ready"]
             M == queue_append(links, "ready", current)
  <2>5. Shared(M, st, arg) /\ ~append_faults(links, "ready")
    BY <1>2, <2>1, <2>2, <2>4, SharedReady
  <2>6. st \in [Thread -> ThreadState] /\ st[current] = "Ready"
    BY <1>2, <2>1 DEF ThreadState
  <2>7. Dispatch(M, st, FALSE)
    <3>1. Dispatch(M, st, append_faults(links, "ready"))
      BY <2>1, <2>2 DEF Schedule, QueueFor
    <3>2. append_faults(links, "ready") = FALSE
      BY <2>5
    <3> QED
      BY <3>1, <3>2
  <2> HIDE DEF M
  <2>8. /\ status' = "run" /\ current' \in Thread /\ st[current'] = "Ready"
        /\ state' = [st EXCEPT ![current'] = "Running"] /\ Shared(links', state', arg)
    BY <2>1, <2>5, <2>6, <2>7, DispatchShared
  <2>9. \A v \in Thread : /\ state'[v] = "Blocked" <=> state[v] = "Blocked"
                          /\ state'[v] \in {"Ready", "Running", "Blocked"}
    BY <1>2, <2>2, <2>8
  <2>10. pc'[current'] \in Unlocked
    BY <1>1, <2>2, <2>3, <2>8
  <2>11. ~Enqueued'
    BY <2>10 DEF Enqueued, Unlocked
  <2>12. LinksRight'
    <3>1. Shared(links', state', arg')
      BY <1>1, <2>8
    <3> QED
      BY <2>11, <3>1, LinksAtRestNext
  <2>13. StatesKnown' /\ LeavesOther' /\ Alive'
    BY <2>8, <2>9, <2>11 DEF StatesKnown, LeavesOther, Alive, Exited
  <2>14. BlockedWaits'
    <3>1. \A v \in Thread : pc[v] # "signal_wake"
      BY <2>1, <2>2, <2>3 DEF Unlocked
    <3> QED
      BY <1>1, <2>9, <3>1 DEF QInv, BlockedWaits
  <2>15. WakeUps'
    <3>1. \A s \in Semaphores : Woken(s)' = Woken(s)
      BY <1>1, <2>9 DEF Woken
    <3>2. \A s \in Semaphores : Pending(s)' = 0 /\ Pending(s) = 0
      BY <2>3, <2>10 DEF Pending, Unlocked
    <3> QED
      BY <1>1, <2>1, <2>9, <3>1, <3>2 DEF QInv, WakeUps
  <2> QED
    BY <1>3, <2>12, <2>13, <2>14, <2>15 DEF QInv
<1> QED
  BY <1>4, <1>5 DEF System

LEMMA InitQ == Init => QInv
<1> SUFFICES ASSUME Init PROVE QInv
  OBVIOUS
<1> USE DEF Init, SThreadInit, SemaphoreInit
<1>1. NoLinks \in Links
  BY DEF NoLinks, Links, Pointer
<1>2. Hold(NoLinks, state)
  <2>1. Nulled(NoLinks, {t \in Thread : state[t] = "Unborn"})
    BY DEF Nulled, NoLinks
  <2>2. /\ In(<<>>) = {t \in Thread : state[t] = "Ready"}
        /\ In(<<>>) = {t \in Thread : state[t] = "Blocked"}
    BY NoLists
  <2>3. <<>> \in Seq(Thread)
    OBVIOUS
  <2> QED
    BY <2>1, <2>2, <2>3, NoLists DEF Hold
<1>3. SemQueues(NoLinks, state, arg)
  BY SemaphoreAssumption DEF SemQueues, NoLinks, Waiters
<1>4. LinksRight
  BY <1>1, <1>2, <1>3 DEF LinksRight, Shared, Enqueued
<1>5. ProtectHeld
  BY FibTestAssumption DEF ProtectHeld
<1> QED
  BY <1>4, <1>5 DEF QInv, StatesKnown, BlockedWaits, LeavesOther, Enqueued, WakeUps, Alive, Exited

LEMMA QueueInvariance ==
  ASSUME ThreeThreads
  PROVE  Spec => []QInv
<1>1. IInv /\ FifoInv /\ QInv /\ [Next]_vars => QInv'
  <2> SUFFICES ASSUME IInv, FifoInv, QInv, [Next]_vars PROVE QInv'
    OBVIOUS
  <2>1. CASE System
    BY <2>1, SystemQ
  <2>2. ASSUME NEW t \in Thread, Step(t) PROVE QInv'
    BY <2>2, SemaphoreStepQ, BufferStepQ DEF Step
  <2>3. CASE UNCHANGED vars
    <3>1. /\ UNCHANGED <<status, lock, current, state, links, i, pc, arg, at>>
      BY <2>3 DEF vars, schedVars, semVars
    <3> QED
      BY <3>1 DEF QInv, LinksRight, Enqueued, StatesKnown, BlockedWaits, LeavesOther, ProtectHeld,
                  Critical, WakeUps, Woken, Pending, Alive
  <2> QED
    BY <2>1, <2>2, <2>3 DEF Next
<1> QED
  BY <1>1, InitQ, Invariance, FifoInvariance, PTL DEF Spec

\* sthread.c:104 and 106, in a program of the size of fibtest.c's: every Ready thread is
\* on the ready queue and every Blocked one on the blocked queue, once, though a waiter
\* has but one pair of links for the blocked queue and its semaphore's.
THEOREM QueuesStayExact ==
  ASSUME ThreeThreads
  PROVE  Spec => []QueuesExact
<1>1. IInv /\ QInv => QueuesExact
  <2> SUFFICES ASSUME IInv, QInv, status = "run", lock = 0
               PROVE  /\ WellFormed(links, "ready")
                      /\ Members(links, "ready") = {t \in Thread : state[t] = "Ready"}
                      /\ WellFormed(links, "blocked") /\ LinkedBack(links, "blocked")
                      /\ Members(links, "blocked") = {t \in Thread : state[t] = "Blocked"}
    BY DEF QueuesExact
  <2>1. ~Enqueued
    BY DEF Enqueued, IInv, SchedInv, LockDiscipline, Executing
  <2>2. Hold(links, state)
    BY <2>1, LinksAtRest DEF QInv, Shared
  <2> QED
    BY <2>2, ListsExact DEF Hold
<1> QED
  BY <1>1, Invariance, QueueInvariance, PTL

\* semaphore.c:66 and 107, in such a program: while a thread is blocked on a semaphore,
\* each of its units is covered by a thread that has been woken for it.
THEOREM NoWakeupIsLost ==
  ASSUME ThreeThreads
  PROVE  Spec => []NoLostWakeup
<1>1. IInv /\ QInv => NoLostWakeup
  <2> SUFFICES ASSUME IInv, QInv, status = "run", lock = 0,
                      NEW s \in Semaphores, ~queue_empty(links, s)
               PROVE  i[s] <= Cardinality(Woken(s))
    BY DEF NoLostWakeup
  <2>1. pc[current] \in Unlocked
    BY DEF Unlocked, IInv, SchedInv, LockDiscipline, Executing
  <2>2. SemQueues(links, state, arg)
    BY <2>1, LinksAtRest DEF QInv, Shared, Enqueued, Unlocked
  <2>3. \E t \in Thread : state[t] = "Blocked" /\ arg[t] = s
    BY <2>2, SemFacts DEF queue_empty
  <2>4. i[s] <= Cardinality(Woken(s)) + Pending(s) /\ Pending(s) = 0
    BY <2>1, <2>3 DEF QInv, WakeUps, Pending, Unlocked
  <2>5. i[s] \in Nat /\ Cardinality(Woken(s)) \in Nat
    BY WokenFinite DEF IInv, TypeOK, SemaphoreTypeOK
  <2> QED
    BY <2>4, <2>5
<1> QED
  BY <1>1, Invariance, QueueInvariance, PTL

\* fibtest.c's two endless loops, in such a program, for any length of the buffer and
\* any ticks once sthread_start has the lock: the process never leaves by "All threads
\* completed", "The system is deadlocked", a null link, an assertion or NO MATCH.
THEOREM FibTestRunsForever ==
  ASSUME ThreeThreads, ~EarlyTick
  PROVE  Spec => []RunsForever
<1>1. QInv => RunsForever
  BY DEF QInv, Alive, RunsForever
<1> QED
  BY <1>1, QueueInvariance, PTL
=============================================================================
