------------------------ MODULE SThreadClientProofs ------------------------
(***************************************************************************)
(* The thread API of sthread.c under arbitrary use, for any number of      *)
(* threads: with sthread_create called only while the timer is off, and    *)
(* sthread_unblock called by one thread at most while it is on, the queues *)
(* are lists of exactly the Ready and the Blocked threads, the process     *)
(* says truthfully how it ended, and the threads take turns in order.      *)
(***************************************************************************)
EXTENDS SThreadClient, ThreadQueuesProofs

\* How the threads may be used: the runs that break it are findings.
Disciplined ==
  /\ Creators = {}
  /\ \A t, u \in Unblockers : t = u

Creating == {"create", "create_tail_next", "create_prev", "create_tail"}

Locking == {"yield", "block", "finish", "unblock"}

Labels == {"user", "unblock_lock"} \cup Creating \cup Locking

ClientTypeOK ==
  /\ SThreadTypeOK
  /\ timer \in BOOLEAN
  /\ pc \in [Thread -> Labels]
  /\ target \in [Thread -> Pointer]

\* The links when the sthread_create that the current thread is in has returned.
Settled ==
  LET u == target[current] IN
  IF status # "run" THEN links
  ELSE CASE pc[current] \in {"create", "create_tail_next"} -> queue_append(links, "ready", u)
         [] pc[current] = "create_prev" ->
              [links EXCEPT !.prev[u] = links.tail["ready"], !.next[u] = NULL, !.tail["ready"] = u]
         [] pc[current] = "create_tail" -> [links EXCEPT !.tail["ready"] = u]
         [] OTHER -> links

\* Before the first thread runs.
BootInv ==
  status \in Booting =>
    /\ current = NULL
    /\ lock = IF status = "start" THEN 1 ELSE 0
    /\ \A t \in Thread : pc[t] = "user" /\ state[t] \in {"Unborn", "Ready"}
    /\ Hold(links, state)

\* While the threads run: where they are in the functions they called.
RunInv ==
  status = "run" =>
    /\ current \in Thread
    /\ \A t \in Thread : state[t] = "Running" <=> t = current
    /\ \A t \in Thread \ {current} :
         pc[t] = "user" \/ (timer /\ t \in Unblockers /\ pc[t] = "unblock_lock")
    /\ pc[current] \in Creating => ~timer /\ target[current] \in Thread
    /\ pc[current] = "create" => queue_empty(links, "ready") /\ Nulled(links, {target[current]})
    /\ pc[current] = "create_tail_next" => ~queue_empty(links, "ready") /\ links.tail["ready"] # NULL
    /\ lock = IF pc[current] \in Locking THEN 1 ELSE 0
    /\ \A t \in Thread : pc[t] \in {"unblock_lock", "unblock"} =>
         /\ target[t] \in Thread /\ state[target[t]] = "Blocked"
         /\ timer => t \in Unblockers
    /\ Hold(Settled, state)

\* When the process has ended; only a tick before sthread_start can break it.
ExitInv == ExitsTruthfully

ClientInv == ClientTypeOK /\ BootInv /\ RunInv /\ ExitInv

-----------------------------------------------------------------------------
(* The scheduler.                                                          *)

\* __sthread_scheduler with no thread running: it takes the first of the ready ones,
\* or says how the process ended.
LEMMA DispatchHolds ==
  ASSUME NEW L, NEW st \in [Thread -> ThreadState], Hold(L, st),
         \A t \in Thread : st[t] # "Running", lock \in {0, 1}, Dispatch(L, st, FALSE)
  PROVE  /\ SThreadTypeOK'
         /\ status' \in {"run", "completed", "deadlocked"}
         /\ status' = "run" =>
              /\ current' \in Thread /\ lock' = 0
              /\ \A t \in Thread : state'[t] = "Running" <=> t = current'
              /\ Hold(links', state')
              /\ Chain(L, "ready") = <<current'>> \o Chain(links', "ready")
         /\ \A t \in Thread : st[t] # "Ready" => state'[t] = st[t]
         /\ ExitsTruthfully'
<1> DEFINE h == L.head["ready"]
           M == queue_take(L, "ready")
<1>1. /\ links' = M /\ current' = h
      /\ state' = [t \in Thread |-> IF t = h THEN "Running" ELSE st[t]]
      /\ lock' = IF h = NULL THEN lock ELSE 0
  BY DEF Dispatch
<1>2. /\ ~take_faults(L, "ready") /\ L \in Links
      /\ h = NULL => M = L /\ \A t \in Thread : st[t] # "Ready"
      /\ h # NULL => /\ h \in Thread /\ st[h] = "Ready"
                     /\ Hold(M, [st EXCEPT ![h] = "Running"])
                     /\ Chain(L, "ready") = <<h>> \o Chain(M, "ready")
      /\ queue_empty(L, "blocked") <=> \A t \in Thread : st[t] # "Blocked"
  BY HoldTake DEF ThreadState
<1>3. status' = IF h # NULL THEN "run"
                ELSE IF queue_empty(L, "blocked") THEN "completed" ELSE "deadlocked"
  BY <1>2 DEF Dispatch
<1>4. M \in Links
  BY <1>2, TakeType, QueueAssumption
<1> HIDE DEF M, h
<1>5. CASE h = NULL
  <2>1. state' = st
    BY <1>1, <1>5, QueueAssumption
  <2>2. SThreadTypeOK'
    BY <1>1, <1>3, <1>4, <1>5, <2>1 DEF SThreadTypeOK, Pointer, Status, Exited
  <2>3. ExitsTruthfully'
    BY <1>2, <1>3, <1>5, <2>1 DEF ExitsTruthfully, ThreadState
  <2> QED
    BY <1>3, <1>5, <2>1, <2>2, <2>3
<1>6. CASE h # NULL
  <2>1. state' = [st EXCEPT ![h] = "Running"] /\ status' = "run" /\ current' \in Thread /\ lock' = 0
    BY <1>1, <1>2, <1>3, <1>6
  <2>2. SThreadTypeOK'
    BY <1>1, <1>2, <1>4, <1>6, <2>1 DEF SThreadTypeOK, Pointer, Status, ThreadState
  <2>3. ExitsTruthfully'
    BY <2>1 DEF ExitsTruthfully
  <2>4. /\ Hold(links', state')
        /\ Chain(L, "ready") = <<current'>> \o Chain(links', "ready")
    BY <1>1, <1>2, <1>6, <2>1
  <2>5. /\ \A t \in Thread : state'[t] = "Running" <=> t = current'
        /\ \A t \in Thread : st[t] # "Ready" => state'[t] = st[t]
    BY <1>1, <1>2, <1>6, <2>1
  <2> QED
    BY <2>1, <2>2, <2>3, <2>4, <2>5
<1> QED
  BY <1>5, <1>6

\* A call of the scheduler by the running thread, whose state is now s.
LEMMA ScheduleHolds ==
  ASSUME SThreadTypeOK, status = "run", current \in Thread, Hold(links, state),
         \A t \in Thread : state[t] = "Running" <=> t = current,
         NEW s \in {"Running", "Blocked", "Finished"},
         Schedule([state EXCEPT ![current] = s])
  PROVE  /\ SThreadTypeOK'
         /\ status' \in {"run", "completed", "deadlocked"}
         /\ status' = "run" =>
              /\ current' \in Thread /\ lock' = 0
              /\ \A t \in Thread : state'[t] = "Running" <=> t = current'
              /\ Hold(links', state')
              /\ Chain(links, "ready") \o (IF s = "Running" THEN <<current>> ELSE <<>>)
                   = <<current'>> \o Chain(links', "ready")
         /\ \A t \in Thread : state[t] = "Blocked" => state'[t] = "Blocked"
         /\ ExitsTruthfully'
<1> DEFINE st == [state EXCEPT ![current] = s]
           saved == IF s = "Running" THEN "Ready" ELSE s
           ts == [state EXCEPT ![current] = saved]
           q == QueueFor(saved)
           L == IF s = "Finished" THEN links ELSE queue_append(links, q, current)
<1>1. /\ state \in [Thread -> ThreadState] /\ lock \in {0, 1} /\ state[current] = "Running"
      /\ "Ready" \in ThreadState /\ "Blocked" \in ThreadState /\ "Finished" \in ThreadState
  BY DEF SThreadTypeOK, ThreadState
<1>2. /\ Hold(queue_append(links, "ready", current), [state EXCEPT ![current] = "Ready"])
      /\ Hold(queue_append(links, "blocked", current), [state EXCEPT ![current] = "Blocked"])
      /\ ~append_faults(links, "ready") /\ ~append_faults(links, "blocked")
      /\ Chain(links, "ready") \in Seq(Thread)
      /\ Chain(queue_append(links, "ready", current), "ready") = Append(Chain(links, "ready"), current)
      /\ Chain(queue_append(links, "blocked", current), "ready") = Chain(links, "ready")
  BY <1>1, HoldAppend
<1>3. /\ ts \in [Thread -> ThreadState] /\ \A t \in Thread : ts[t] # "Running"
      /\ \A t \in Thread : state[t] = "Blocked" => ts[t] = "Blocked"
  BY <1>1
<1>4. Hold(L, ts)
  <2>1. CASE s = "Finished"
    <3>1. Hold(links, ts)
      <4>1. \A t \in Thread : /\ ts[t] = "Ready" <=> state[t] = "Ready"
                              /\ ts[t] = "Blocked" <=> state[t] = "Blocked"
                              /\ ts[t] = "Unborn" => state[t] = "Unborn"
        BY <1>1, <2>1
      <4> HIDE DEF ts
      <4> QED
        BY <4>1, HoldAlike
    <3> QED
      BY <2>1, <3>1
  <2>2. CASE s # "Finished"
    BY <1>2, <2>2 DEF QueueFor
  <2> QED
    BY <2>1, <2>2
<1>5. Dispatch(L, ts, FALSE)
  <2>1. st[current] = s
    BY <1>1
  <2>2. CASE s = "Finished"
    <3>1. Dispatch(links, st, FALSE)
      BY <2>1, <2>2 DEF Schedule
    <3> QED
      BY <2>2, <3>1
  <2>3. CASE s # "Finished"
    <3>1. Dispatch(queue_append(links, q, current), [st EXCEPT ![current] = saved],
                   append_faults(links, q))
      BY <2>1, <2>3 DEF Schedule
    <3>2. [st EXCEPT ![current] = saved] = ts
      BY <1>1
    <3>3. append_faults(links, q) = FALSE
      BY <1>2, <2>3 DEF QueueFor, append_faults
    <3> QED
      BY <2>3, <3>1, <3>2, <3>3
  <2> QED
    BY <2>2, <2>3
<1>6. Chain(L, "ready") = Chain(links, "ready") \o (IF s = "Running" THEN <<current>> ELSE <<>>)
  <2> DEFINE c == Chain(links, "ready")
  <2> HIDE DEF c
  <2>1. c \o <<current>> = Append(c, current) /\ c \o <<>> = c
    BY <1>2 DEF c
  <2> QED
    BY <1>2, <2>1 DEF c, QueueFor
<1> HIDE DEF L, ts
<1> QED
  BY <1>1, <1>3, <1>4, <1>5, <1>6, DispatchHolds

-----------------------------------------------------------------------------
(* Every step keeps the invariant, and every switch takes the next thread. *)

\* Where a thread is whose turn it is not, or whose turn begins.
Waiting(t) == pc[t] = "user" \/ (timer /\ t \in Unblockers /\ pc[t] = "unblock_lock")

\* What a switch does to the ready queue.
NextTurn ==
  status = "run" /\ status' = "run" /\ Switching =>
    Chain(links, "ready") \o
      (IF state[current] = "Running" /\ ~(pc[current] \in {"block", "finish"})
       THEN <<current>> ELSE <<>>)
      = <<current'>> \o Chain(links', "ready")

LEMMA InitHolds == Init => ClientInv
<1> SUFFICES ASSUME Init PROVE ClientInv
  OBVIOUS
<1>1. ClientTypeOK /\ ExitInv
  BY NoLists, SThreadAssumption
  DEF Init, SThreadInit, ClientTypeOK, SThreadTypeOK, Status, Booting, ThreadState, Pointer, Labels,
      ExitInv, ExitsTruthfully, Lists
<1>2. Hold(links, state)
  <2>1. In(<<>>) = {t \in Thread : state[t] = "Ready"} /\ In(<<>>) = {t \in Thread : state[t] = "Blocked"}
    BY NoLists DEF Init, SThreadInit
  <2>2. Nulled(links, {t \in Thread : state[t] = "Unborn"})
    BY DEF Nulled, Init, SThreadInit, NoLinks
  <2>3. <<>> \in Seq(Thread) /\ Lists(links, <<>>, <<>>)
    BY NoLists DEF Init, SThreadInit
  <2> QED
    BY <2>1, <2>2, <2>3 DEF Hold
<1>3. BootInv /\ RunInv
  BY <1>2 DEF Init, SThreadInit, BootInv, RunInv, Booting
<1> QED
  BY <1>1, <1>3 DEF ClientInv

\* main(), before and when the first thread runs.
LEMMA BootHolds ==
  ASSUME ClientInv, Boot, UNCHANGED <<timer, pc, target>>
  PROVE  ClientInv' /\ status # "run"
<1>1. /\ state \in [Thread -> ThreadState] /\ links \in Links /\ lock \in {0, 1}
      /\ current \in Pointer /\ SThreadTypeOK /\ timer \in BOOLEAN
      /\ "Ready" \in ThreadState /\ "Blocked" \in ThreadState
  BY DEF ClientInv, ClientTypeOK, SThreadTypeOK, ThreadState
<1>2. status \in Booting
  BY DEF Boot, MainCreate, StartTimer, StartLock, StartThreads, TickBeforeStart, Booting
<1>3. /\ current = NULL
      /\ lock = IF status = "start" THEN 1 ELSE 0
      /\ \A t \in Thread : pc[t] = "user" /\ state[t] \in {"Unborn", "Ready"}
      /\ Hold(links, state)
  BY <1>2 DEF ClientInv, BootInv
<1>4. /\ pc' = pc /\ target' = target /\ timer' = timer
      /\ pc \in [Thread -> Labels] /\ target \in [Thread -> Pointer]
  BY DEF ClientInv, ClientTypeOK
<1>5. CASE MainCreate
  <2>1. PICK k \in DOMAIN Created :
          /\ \A j \in DOMAIN Created : state[Created[j]] = "Unborn" <=> j >= k
          /\ state' = [state EXCEPT ![Created[k]] = "Ready"]
          /\ links' = queue_append(links, "ready", Created[k])
          /\ status' = IF k = Len(Created) THEN "timer" ELSE "create"
    BY <1>5 DEF MainCreate
  <2> DEFINE u == Created[k]
  <2>2. u \in Thread /\ state[u] = "Unborn" /\ k \in Nat
    BY <2>1, SThreadAssumption
  <2>3. Hold(links', state')
    BY <1>1, <1>3, <2>1, <2>2, HoldAppend
  <2>4. /\ status = "create" /\ status' \in {"timer", "create"} /\ lock' = lock /\ current' = current
    BY <1>5, <2>1 DEF MainCreate
  <2>5. ClientTypeOK'
    <3>1. links' \in Links
      BY <1>1, <2>1, <2>2, AppendType, QueueAssumption
    <3> QED
      BY <1>1, <1>4, <2>1, <2>2, <2>4, <3>1 DEF ClientTypeOK, SThreadTypeOK, Status, Booting
  <2>6. BootInv'
    BY <1>1, <1>3, <1>4, <2>1, <2>2, <2>3, <2>4 DEF BootInv, Booting
  <2>7. RunInv' /\ ExitInv'
    BY <2>4 DEF RunInv, ExitInv, ExitsTruthfully
  <2> QED
    BY <1>2, <2>5, <2>6, <2>7 DEF ClientInv, Booting
<1>6. CASE StartTimer \/ StartLock \/ TickBeforeStart
  <2>1. /\ UNCHANGED <<current, state, links>>
        /\ \/ status' = "lock" /\ lock' = lock /\ status = "timer"
           \/ status' = "start" /\ lock' = 1
           \/ status' = "segv" /\ lock' = 1
    BY <1>6 DEF StartTimer, StartLock, TickBeforeStart
  <2>2. ClientTypeOK'
    BY <1>1, <1>4, <2>1 DEF ClientTypeOK, SThreadTypeOK, Status, Booting, Exited
  <2>3. BootInv'
    BY <1>3, <1>4, <2>1 DEF BootInv, Booting
  <2>4. RunInv' /\ ExitInv'
    BY <2>1 DEF RunInv, ExitInv, ExitsTruthfully
  <2> QED
    BY <1>2, <2>2, <2>3, <2>4 DEF ClientInv, Booting
<1>7. CASE StartThreads
  <2>1. \A t \in Thread : state[t] # "Running"
    BY <1>3
  <2>2. Dispatch(links, state, FALSE)
    BY <1>7 DEF StartThreads
  <2>3. /\ SThreadTypeOK' /\ ExitsTruthfully'
        /\ status' \in {"run", "completed", "deadlocked"}
        /\ status' = "run" =>
              /\ current' \in Thread /\ lock' = 0
              /\ \A t \in Thread : state'[t] = "Running" <=> t = current'
              /\ Hold(links', state')
    BY <1>1, <1>3, <2>1, <2>2, DispatchHolds
  <2>4. ClientTypeOK' /\ BootInv' /\ ExitInv'
    BY <1>1, <1>4, <2>3 DEF ClientTypeOK, BootInv, Booting, ExitInv
  <2>5. RunInv'
    <3> SUFFICES ASSUME status' = "run" PROVE RunInv'
      BY DEF RunInv
    <3>1. \A t \in Thread : pc'[t] = "user"
      BY <1>3, <1>4
    <3>2. Settled' = links'
      BY <2>3, <3>1 DEF Settled
    <3> QED
      BY <2>3, <3>1, <3>2 DEF RunInv, Creating, Locking
  <2> QED
    BY <1>2, <2>4, <2>5 DEF ClientInv, Booting
<1> QED
  BY <1>5, <1>6, <1>7 DEF Boot

\* A switch, on the timer's tick or at the end of sthread_yield, sthread_block or
\* __sthread_finish, when the state of the running thread has become s.
LEMMA SwitchHolds ==
  ASSUME ClientInv, status = "run", NEW s \in {"Running", "Blocked", "Finished"},
         Schedule([state EXCEPT ![current] = s]), timer' = timer, target' = target,
         pc' \in [Thread -> Labels],
         \A t \in Thread \ {current} : pc'[t] = pc[t],
         \/ pc[current] \in {"yield", "block", "finish"} /\ pc'[current] = "user"
         \/ pc[current] \in {"user", "unblock_lock"} /\ pc'[current] = pc[current] /\ timer
  PROVE  /\ ClientInv'
         /\ status' = "run" =>
              Chain(links, "ready") \o (IF s = "Running" THEN <<current>> ELSE <<>>)
                = <<current'>> \o Chain(links', "ready")
<1>1. /\ SThreadTypeOK /\ timer \in BOOLEAN /\ target \in [Thread -> Pointer]
  BY DEF ClientInv, ClientTypeOK
<1>2. /\ current \in Thread
      /\ \A t \in Thread : state[t] = "Running" <=> t = current
      /\ \A t \in Thread \ {current} : Waiting(t)
      /\ \A t \in Thread : pc[t] \in {"unblock_lock", "unblock"} =>
            /\ target[t] \in Thread /\ state[target[t]] = "Blocked"
            /\ timer => t \in Unblockers
      /\ Hold(Settled, state)
  BY DEF ClientInv, RunInv, Waiting
<1>3. Settled = links
  BY DEF Settled
<1>4. /\ SThreadTypeOK'
      /\ status' \in {"run", "completed", "deadlocked"}
      /\ status' = "run" =>
           /\ current' \in Thread /\ lock' = 0
           /\ \A t \in Thread : state'[t] = "Running" <=> t = current'
           /\ Hold(links', state')
           /\ Chain(links, "ready") \o (IF s = "Running" THEN <<current>> ELSE <<>>)
                = <<current'>> \o Chain(links', "ready")
      /\ \A t \in Thread : state[t] = "Blocked" => state'[t] = "Blocked"
      /\ ExitsTruthfully'
  BY <1>1, <1>2, <1>3, ScheduleHolds
<1>5. \A t \in Thread : pc'[t] = "user" \/ (timer /\ t \in Unblockers /\ pc'[t] = "unblock_lock"
                                              /\ pc[t] = "unblock_lock")
  BY <1>2 DEF Waiting
<1>6. ClientTypeOK' /\ BootInv' /\ ExitInv'
  BY <1>1, <1>4 DEF ClientTypeOK, BootInv, Booting, ExitInv
<1>7. RunInv'
  <2> SUFFICES ASSUME status' = "run" PROVE RunInv'
    BY DEF RunInv
  <2>1. Settled' = links'
    BY <1>4, <1>5 DEF Settled
  <2>2. \A t \in Thread : pc'[t] \in {"unblock_lock", "unblock"} =>
          /\ target'[t] \in Thread /\ state'[target'[t]] = "Blocked"
          /\ timer' => t \in Unblockers
    BY <1>2, <1>4, <1>5
  <2> QED
    BY <1>4, <1>5, <2>1, <2>2 DEF RunInv, Creating, Locking
<1> QED
  BY <1>4, <1>6, <1>7 DEF ClientInv

\* The timer's tick.
LEMMA PreemptHolds ==
  ASSUME ClientInv, Preempt, UNCHANGED <<timer, pc, target>>
  PROVE  ClientInv' /\ NextTurn
<1>1. /\ status = "run" /\ timer /\ lock = 0 /\ Schedule(state)
      /\ state \in [Thread -> ThreadState] /\ pc \in [Thread -> Labels]
  BY DEF Preempt, ClientInv, ClientTypeOK, SThreadTypeOK
<1>2. /\ current \in Thread /\ state[current] = "Running"
      /\ pc[current] \notin Creating /\ pc[current] \notin Locking
  BY <1>1 DEF ClientInv, RunInv
<1>3. pc[current] \in {"user", "unblock_lock"} /\ pc'[current] = pc[current]
  BY <1>1, <1>2 DEF Labels, Locking, Creating
<1>4. state = [state EXCEPT ![current] = "Running"]
  BY <1>1, <1>2
<1>5. Schedule([state EXCEPT ![current] = "Running"])
  BY <1>1, <1>4
<1>6. /\ ClientInv'
      /\ status' = "run" =>
           Chain(links, "ready") \o (IF "Running" = "Running" THEN <<current>> ELSE <<>>)
             = <<current'>> \o Chain(links', "ready")
  BY <1>1, <1>3, <1>5, SwitchHolds
<1> QED
  BY <1>2, <1>3, <1>6 DEF NextTurn

\* The end of the three functions that enter the scheduler.
LEMMA CallHolds ==
  ASSUME ClientInv, NEW t \in Thread, Yield(t) \/ Block(t) \/ Finish(t), UNCHANGED timer
  PROVE  ClientInv' /\ NextTurn
<1>1. /\ status = "run" /\ current = t /\ pc[t] \in {"yield", "block", "finish"}
      /\ state \in [Thread -> ThreadState] /\ pc \in [Thread -> Labels]
      /\ pc' = [pc EXCEPT ![t] = "user"] /\ target' = target /\ timer' = timer
  BY DEF Yield, Block, Finish, At, Goto, Executing, ClientInv, ClientTypeOK, SThreadTypeOK
<1>2. state[t] = "Running"
  BY <1>1 DEF ClientInv, RunInv
<1> DEFINE s == IF pc[t] = "yield" THEN "Running" ELSE IF pc[t] = "block" THEN "Blocked" ELSE "Finished"
<1>3. Schedule([state EXCEPT ![current] = s])
  <2>1. CASE Yield(t)
    <3>1. s = "Running" /\ Schedule(state)
      BY <2>1 DEF Yield, At
    <3>2. state = [state EXCEPT ![current] = s]
      BY <1>1, <1>2, <3>1
    <3> QED
      BY <3>1, <3>2
  <2>2. CASE Block(t)
    BY <1>1, <2>2 DEF Block, At
  <2>3. CASE Finish(t)
    BY <1>1, <2>3 DEF Finish, At
  <2> QED
    BY <2>1, <2>2, <2>3
<1>4. /\ pc' \in [Thread -> Labels] /\ pc'[current] = "user"
      /\ \A u \in Thread \ {current} : pc'[u] = pc[u]
  BY <1>1 DEF Labels
<1>5. s \in {"Running", "Blocked", "Finished"}
  OBVIOUS
<1>6. s = "Running" <=> state[current] = "Running" /\ ~(pc[current] \in {"block", "finish"})
  BY <1>1, <1>2
<1> HIDE DEF s
<1>7. /\ ClientInv'
      /\ status' = "run" =>
           Chain(links, "ready") \o (IF s = "Running" THEN <<current>> ELSE <<>>)
             = <<current'>> \o Chain(links', "ready")
  BY <1>1, <1>3, <1>4, <1>5, SwitchHolds
<1> QED
  BY <1>6, <1>7 DEF NextTurn

\* A step of the running thread that changes no link and no state, and does not
\* end a call: it takes the lock or picks the thread to unblock.
LEMMA MoveHolds ==
  ASSUME ClientInv, NEW t \in Thread, status = "run", current = t, UNCHANGED timer,
         UNCHANGED <<status, current, state, links>>,
         NEW u \in Pointer, NEW to \in {"unblock_lock"} \cup Locking,
         pc' = [pc EXCEPT ![t] = to], target' = [target EXCEPT ![t] = u],
         lock' = IF to \in Locking THEN 1 ELSE 0,
         pc[t] \in {"user", "unblock_lock"},
         to \in {"unblock_lock", "unblock"} =>
           u \in Thread /\ state[u] = "Blocked" /\ (timer => t \in Unblockers)
  PROVE  ClientInv' /\ NextTurn
<1>1. ClientTypeOK'
  BY DEF ClientInv, ClientTypeOK, SThreadTypeOK, Labels
<1>2. BootInv' /\ ExitInv'
  BY DEF ClientInv, BootInv, ExitInv, ExitsTruthfully, Booting
<1>3. pc'[t] = to /\ target'[t] = u
      /\ \A v \in Thread \ {t} : pc'[v] = pc[v] /\ target'[v] = target[v]
  BY DEF ClientInv, ClientTypeOK
<1>4. Settled = links /\ Settled' = links'
  BY <1>3 DEF Settled, Locking
<1>5. RunInv'
  <2>1. Hold(links', state')
    BY <1>4 DEF ClientInv, RunInv
  <2> QED
    BY <1>3, <1>4, <2>1 DEF ClientInv, RunInv, Creating, Locking
<1>6. NextTurn
  <2>1. ~Switching
    <3>1. \A v \in Thread : pc[v] \in {"yield", "block", "finish"} => v # t /\ pc'[v] = pc[v]
      BY <1>3
    <3> QED
      BY <3>1 DEF Switching
  <2> QED
    BY <2>1 DEF NextTurn
<1> QED
  BY <1>1, <1>2, <1>5, <1>6 DEF ClientInv

LEMMA LockHolds ==
  ASSUME ClientInv, NEW t \in Thread, UNCHANGED timer,
         YieldLock(t) \/ BlockLock(t) \/ FinishLock(t) \/ UnblockLock(t)
         \/ \E u \in Thread : UnblockAssert(t, u)
  PROVE  ClientInv' /\ NextTurn
<1>1. /\ status = "run" /\ current = t /\ pc[t] \in {"user", "unblock_lock"}
      /\ UNCHANGED <<status, current, state, links>>
      /\ target \in [Thread -> Pointer] /\ target[t] \in Pointer
  BY DEF YieldLock, BlockLock, FinishLock, UnblockLock, UnblockAssert, At, Executing, TakeLock,
         schedVars, ClientInv, ClientTypeOK
<1>2. CASE YieldLock(t) \/ BlockLock(t) \/ FinishLock(t)
  <2>1. PICK to \in {"yield", "block", "finish"} : pc' = [pc EXCEPT ![t] = to]
    BY <1>2 DEF YieldLock, BlockLock, FinishLock, Goto
  <2>2. lock' = 1 /\ target' = [target EXCEPT ![t] = target[t]]
    BY <1>1, <1>2 DEF YieldLock, BlockLock, FinishLock, TakeLock, Goto
  <2> QED
    BY <1>1, <2>1, <2>2, MoveHolds DEF Locking
<1>3. CASE UnblockLock(t)
  <2>1. /\ pc[t] = "unblock_lock" /\ lock' = 1 /\ pc' = [pc EXCEPT ![t] = "unblock"]
        /\ target' = [target EXCEPT ![t] = target[t]]
    BY <1>1, <1>3 DEF UnblockLock, TakeLock, Goto, At
  <2>2. target[t] \in Thread /\ state[target[t]] = "Blocked" /\ (timer => t \in Unblockers)
    BY <1>1, <2>1 DEF ClientInv, RunInv
  <2> QED
    BY <1>1, <2>1, <2>2, MoveHolds DEF Locking
<1>4. CASE \E u \in Thread : UnblockAssert(t, u)
  <2>1. PICK u \in Thread : UnblockAssert(t, u)
    BY <1>4
  <2>2. /\ pc[t] = "user" /\ lock' = lock /\ pc' = [pc EXCEPT ![t] = "unblock_lock"]
        /\ target' = [target EXCEPT ![t] = u] /\ state[u] = "Blocked" /\ (timer => t \in Unblockers)
    BY <2>1 DEF UnblockAssert, At, schedVars
  <2>3. lock = 0
    BY <1>1, <2>2 DEF ClientInv, RunInv, Locking
  <2> QED
    BY <1>1, <2>2, <2>3, MoveHolds DEF Locking, Pointer
<1> QED
  BY <1>2, <1>3, <1>4

\* The tail of sthread_unblock.  No other thread is about to unblock the same one:
\* with the timer on there is one Unblocker at most, without it nobody else is in a
\* call.
LEMMA UnblockHolds ==
  ASSUME Disciplined, ClientInv, NEW t \in Thread, Unblock(t), UNCHANGED timer
  PROVE  ClientInv' /\ NextTurn
<1>1. /\ status = "run" /\ current = t /\ pc[t] = "unblock" /\ Requeue(links, target[t])
      /\ pc' = [pc EXCEPT ![t] = "user"] /\ target' = [target EXCEPT ![t] = NULL]
      /\ state \in [Thread -> ThreadState] /\ pc \in [Thread -> Labels]
      /\ target \in [Thread -> Pointer] /\ SThreadTypeOK /\ timer \in BOOLEAN
      /\ "Ready" \in ThreadState
  BY DEF Unblock, At, Executing, Return, ClientInv, ClientTypeOK, SThreadTypeOK, ThreadState
<1> DEFINE u == target[t]
           M == queue_remove(links, "blocked", u)
<1>2. u \in Thread /\ state[u] = "Blocked" /\ (timer => t \in Unblockers)
  BY <1>1 DEF ClientInv, RunInv
<1>3. /\ \A v \in Thread : state[v] = "Running" <=> v = t
      /\ \A v \in Thread \ {t} : Waiting(v)
  BY <1>1 DEF ClientInv, RunInv, Waiting
<1>4. Hold(links, state)
  BY <1>1 DEF ClientInv, RunInv, Settled
<1>5. /\ ~append_faults(M, "ready") /\ M \in Links
      /\ Hold(queue_append(M, "ready", u), [state EXCEPT ![u] = "Ready"])
  BY <1>1, <1>2, <1>4, HoldRequeue
<1>6. /\ links' = queue_append(M, "ready", u) /\ state' = [state EXCEPT ![u] = "Ready"]
      /\ lock' = 0 /\ status' = status /\ current' = current
  BY <1>1, <1>5 DEF Requeue
<1>7. \A v \in Thread : pc'[v] = "user"
  <2>1. \A v \in Thread \ {t} : pc[v] = "user"
    BY <1>2, <1>3 DEF Disciplined, Waiting
  <2> QED
    BY <1>1, <2>1
<1>8. ClientTypeOK'
  <2>1. links' \in Links
    BY <1>2, <1>5, <1>6, AppendType, QueueAssumption
  <2> QED
    BY <1>1, <1>2, <1>6, <2>1 DEF ClientTypeOK, SThreadTypeOK, Labels, Pointer
<1>9. BootInv' /\ ExitInv'
  BY <1>1, <1>6 DEF BootInv, ExitInv, ExitsTruthfully, Booting
<1>10. RunInv'
  <2>1. Settled' = links'
    BY <1>1, <1>6, <1>7 DEF Settled
  <2>2. \A v \in Thread : state'[v] = "Running" <=> v = current'
    BY <1>1, <1>2, <1>3, <1>6
  <2> QED
    BY <1>1, <1>5, <1>6, <1>7, <2>1, <2>2 DEF RunInv, Creating, Locking
<1>11. NextTurn
  <2>1. \A v \in Thread : pc[v] \notin {"yield", "block", "finish"}
    BY <1>1, <1>3 DEF Waiting
  <2> QED
    BY <1>6, <2>1 DEF NextTurn, Switching
<1> QED
  BY <1>8, <1>9, <1>10, <1>11 DEF ClientInv

\* sthread_create begins: only without the timer, so that no other thread runs
\* before it returns.
LEMMA CreateHolds ==
  ASSUME Disciplined, ClientInv, NEW t \in Thread, NEW u \in Thread, Create(t, u), UNCHANGED timer
  PROVE  ClientInv' /\ NextTurn
<1>1. /\ status = "run" /\ current = t /\ pc[t] = "user" /\ ~timer
      /\ state[u] = "Unborn" /\ state' = [state EXCEPT ![u] = "Ready"]
      /\ target' = [target EXCEPT ![t] = u]
      /\ pc' = [pc EXCEPT ![t] = IF queue_empty(links, "ready") THEN "create" ELSE "create_tail_next"]
      /\ UNCHANGED <<status, lock, current, links>>
      /\ state \in [Thread -> ThreadState] /\ pc \in [Thread -> Labels]
      /\ target \in [Thread -> Pointer] /\ "Ready" \in ThreadState /\ "Blocked" \in ThreadState
  BY DEF Create, At, Executing, Disciplined, ClientInv, ClientTypeOK, SThreadTypeOK, ThreadState
<1>2. /\ \A v \in Thread : state[v] = "Running" <=> v = t
      /\ \A v \in Thread \ {t} : pc[v] = "user"
      /\ lock = 0 /\ Hold(links, state)
  BY <1>1 DEF ClientInv, RunInv, Settled, Locking
<1>3. /\ pc'[t] = IF queue_empty(links, "ready") THEN "create" ELSE "create_tail_next"
      /\ target'[t] = u /\ \A v \in Thread \ {t} : pc'[v] = "user"
  BY <1>1, <1>2
<1>4. Hold(Settled', state')
  <2>1. Settled' = queue_append(links, "ready", u)
    BY <1>1, <1>3 DEF Settled
  <2> QED
    BY <1>1, <1>2, <2>1, HoldAppend
<1>5. /\ queue_empty(links, "ready") => Nulled(links, {u})
      /\ ~queue_empty(links, "ready") => links.tail["ready"] # NULL
  <2>1. PICK r, b \in Seq(Thread) :
          Lists(links, r, b) /\ Nulled(links, {v \in Thread : state[v] = "Unborn"})
    BY <1>2 DEF Hold
  <2>2. Nulled(links, {u})
    BY <1>1, <2>1 DEF Nulled
  <2>3. ~queue_empty(links, "ready") => links.tail["ready"] \in Thread
    BY <2>1, ListsFacts
  <2> QED
    BY <2>2, <2>3, QueueAssumption
<1>6. ClientTypeOK' /\ BootInv' /\ ExitInv'
  BY <1>1 DEF ClientInv, ClientTypeOK, SThreadTypeOK, Labels, Creating, Pointer, BootInv, ExitInv,
              ExitsTruthfully, Booting
<1>7. RunInv'
  <2>1. \A v \in Thread : state'[v] = "Running" <=> v = t
    BY <1>1, <1>2
  <2>2. queue_empty(links, "ready")' = queue_empty(links, "ready") /\ timer' = timer
    BY <1>1 DEF queue_empty
  <2>3. pc'[t] = "create" => Nulled(links', {target'[t]})
    BY <1>1, <1>3, <1>5
  <2> QED
    BY <1>1, <1>2, <1>3, <1>4, <1>5, <2>1, <2>2, <2>3 DEF RunInv, Creating, Locking
<1>8. NextTurn
  <2>1. \A v \in Thread : pc[v] \notin {"yield", "block", "finish"}
    BY <1>1, <1>2
  <2> QED
    BY <1>1, <2>1 DEF NextTurn, Switching
<1> QED
  BY <1>6, <1>7, <1>8 DEF ClientInv

\* A statement of its queue_append that leads to the same links in the end.
LEMMA WriteHolds ==
  ASSUME ClientInv, NEW t \in Thread, status = "run", current = t, pc[t] \in Creating,
         UNCHANGED <<timer, status, lock, current, state>>,
         NEW to \in {"create_prev", "create_tail", "user"}, NEW u \in Pointer,
         pc' = [pc EXCEPT ![t] = to], target' = [target EXCEPT ![t] = u],
         to # "user" => u = target[t],
         links' \in Links, Settled' = Settled
  PROVE  ClientInv' /\ NextTurn
<1>1. /\ pc \in [Thread -> Labels] /\ target \in [Thread -> Pointer]
      /\ ~timer /\ target[t] \in Thread
      /\ \A v \in Thread : state[v] = "Running" <=> v = t
      /\ \A v \in Thread \ {t} : pc[v] = "user"
      /\ lock = 0 /\ Hold(Settled, state)
  BY DEF ClientInv, ClientTypeOK, RunInv, Creating, Locking
<1>2. pc'[t] = to /\ target'[t] = u /\ \A v \in Thread \ {t} : pc'[v] = "user"
  BY <1>1
<1>3. ClientTypeOK' /\ BootInv' /\ ExitInv'
  BY <1>1 DEF ClientInv, ClientTypeOK, SThreadTypeOK, Labels, Creating, Pointer, BootInv, ExitInv,
              ExitsTruthfully, Booting
<1>4. RunInv'
  BY <1>1, <1>2 DEF RunInv, Creating, Locking
<1>5. NextTurn
  BY <1>1 DEF NextTurn, Switching, Creating
<1> QED
  BY <1>3, <1>4, <1>5 DEF ClientInv

LEMMA SameLinks ==
  ASSUME NEW M \in Links, NEW N \in Links, M.prev = N.prev, M.next = N.next,
         M.head = N.head, M.tail = N.tail
  PROVE  M = N
BY DEF Links

LEMMA AppendStepHolds ==
  ASSUME ClientInv, NEW t \in Thread, UNCHANGED timer,
         CreateHead(t) \/ CreateTailNext(t) \/ CreatePrev(t) \/ CreateTail(t)
  PROVE  ClientInv' /\ NextTurn
<1> DEFINE u == target[t]
<1>1. /\ status = "run" /\ current = t /\ pc[t] \in Creating
      /\ links \in Links /\ target \in [Thread -> Pointer] /\ pc \in [Thread -> Labels]
      /\ "ready" \in Queue
  BY QueueAssumption
  DEF CreateHead, CreateTailNext, CreatePrev, CreateTail, At, Executing, Creating,
      ClientInv, ClientTypeOK, SThreadTypeOK
<1>2. u \in Thread /\ u # NULL /\ target = [target EXCEPT ![t] = u]
  BY <1>1, QueueAssumption DEF ClientInv, RunInv
<1>3. CASE CreateHead(t)
  <2>1. /\ pc[t] = "create" /\ links' = [links EXCEPT !.head["ready"] = u]
        /\ pc' = [pc EXCEPT ![t] = "create_tail"] /\ target' = target
        /\ UNCHANGED <<status, lock, current, state>>
    BY <1>3 DEF CreateHead, At, Goto
  <2>2. links.head["ready"] = NULL /\ links.next[u] = NULL /\ links.prev[u] = NULL
    BY <1>1, <2>1 DEF ClientInv, RunInv, queue_empty, Nulled
  <2>3. Settled = queue_append(links, "ready", u)
    BY <1>1, <2>1 DEF Settled
  <2>4. Settled' = [links' EXCEPT !.tail["ready"] = u]
    BY <1>1, <2>1 DEF Settled
  <2> DEFINE M == queue_append(links, "ready", u)
             N == [links' EXCEPT !.tail["ready"] = u]
  <2>5. M = N
    <3>1. links.prev \in [Thread -> Pointer] /\ links.next \in [Thread -> Pointer]
      BY <1>1 DEF Links
    <3>2. M.prev = N.prev
      <4>1. M.prev = [links.prev EXCEPT ![u] = NULL] /\ N.prev = links.prev
        BY <1>1, <2>1, <2>2 DEF queue_append, queue_empty, Links
      <4> QED
        BY <1>2, <2>2, <3>1, <4>1
    <3>3. M.next = N.next
      <4>1. M.next = [v \in Thread |-> IF v = u THEN NULL ELSE links.next[v]] /\ N.next = links.next
        BY <1>1, <2>1, <2>2 DEF queue_append, queue_empty, Links
      <4> QED
        BY <1>2, <2>2, <3>1, <4>1
    <3>4. M.head = N.head /\ M.tail = N.tail
      BY <1>1, <2>1, <2>2 DEF queue_append, queue_empty, Links
    <3>5. M \in Links
      BY <1>1, <1>2, AppendType
    <3>6. N \in Links
      <4>1. links' \in Links
        BY <1>1, <1>2, <2>1 DEF Links, Pointer
      <4> QED
        BY <1>1, <1>2, <4>1 DEF Links, Pointer
    <3> HIDE DEF M, N
    <3> QED
      BY <3>2, <3>3, <3>4, <3>5, <3>6, SameLinks
  <2>6. links' \in Links
    BY <1>1, <1>2, <2>1 DEF Links, Pointer
  <2> QED
    BY <1>1, <1>2, <2>1, <2>3, <2>4, <2>5, <2>6, WriteHolds
<1>4. CASE CreateTailNext(t)
  <2>1. /\ pc[t] = "create_tail_next"
        /\ status' = IF links.tail["ready"] = NULL THEN "segv" ELSE status
        /\ links' = [links EXCEPT !.next = [v \in Thread |->
                       IF v = links.tail["ready"] THEN u ELSE links.next[v]]]
        /\ pc' = [pc EXCEPT ![t] = "create_prev"] /\ target' = target
        /\ UNCHANGED <<lock, current, state>>
    BY <1>1, <1>4 DEF CreateTailNext, At, Goto, Links
  <2>2. links.head["ready"] # NULL /\ links.tail["ready"] # NULL /\ status' = status
    BY <1>1, <2>1 DEF ClientInv, RunInv, queue_empty
  <2>3. Settled = queue_append(links, "ready", u)
    BY <1>1, <2>1 DEF Settled
  <2>4. Settled' = [links' EXCEPT !.prev[u] = links.tail["ready"], !.next[u] = NULL,
                                  !.tail["ready"] = u]
    BY <1>1, <2>1, <2>2 DEF Settled, Links
  <2> DEFINE M == queue_append(links, "ready", u)
             N == [links' EXCEPT !.prev[u] = links.tail["ready"], !.next[u] = NULL,
                                 !.tail["ready"] = u]
  <2>5. M = N
    <3>1. M.next = N.next
      <4>1. M.next = [v \in Thread |-> IF v = u THEN NULL
                                       ELSE IF v = links.tail["ready"] THEN u ELSE links.next[v]]
        BY <2>2 DEF queue_append, queue_empty
      <4>2. N.next = [[v \in Thread |-> IF v = links.tail["ready"] THEN u ELSE links.next[v]]
                       EXCEPT ![u] = NULL]
        BY <1>1, <2>1 DEF Links
      <4> QED
        BY <1>2, <4>1, <4>2
    <3>2. M.prev = N.prev /\ M.head = N.head /\ M.tail = N.tail
      BY <1>1, <2>1, <2>2 DEF queue_append, queue_empty, Links
    <3>3. M \in Links
      BY <1>1, <1>2, AppendType
    <3>4. N \in Links
      <4>1. links' \in Links
        BY <1>1, <1>2, <2>1 DEF Links, Pointer
      <4> QED
        BY <1>1, <1>2, <4>1 DEF Links, Pointer
    <3> HIDE DEF M, N
    <3> QED
      BY <3>1, <3>2, <3>3, <3>4, SameLinks
  <2>6. links' \in Links
    BY <1>1, <1>2, <2>1 DEF Links, Pointer
  <2> QED
    BY <1>1, <1>2, <2>1, <2>2, <2>3, <2>4, <2>5, <2>6, WriteHolds
<1>5. CASE CreatePrev(t)
  <2>1. /\ pc[t] = "create_prev"
        /\ links' = [links EXCEPT !.prev[u] = links.tail["ready"], !.next[u] = NULL]
        /\ pc' = [pc EXCEPT ![t] = "create_tail"] /\ target' = target
        /\ UNCHANGED <<status, lock, current, state>>
    BY <1>5 DEF CreatePrev, At, Goto
  <2>2. Settled = [links EXCEPT !.prev[u] = links.tail["ready"], !.next[u] = NULL,
                                !.tail["ready"] = u]
    BY <1>1, <2>1 DEF Settled
  <2>3. Settled' = [links' EXCEPT !.tail["ready"] = u]
    BY <1>1, <2>1 DEF Settled
  <2>4. Settled' = Settled
    BY <1>1, <1>2, <2>1, <2>2, <2>3 DEF Links
  <2>5. links' \in Links
    BY <1>1, <1>2, <2>1 DEF Links, Pointer
  <2> QED
    BY <1>1, <1>2, <2>1, <2>4, <2>5, WriteHolds
<1>6. CASE CreateTail(t)
  <2>1. /\ pc[t] = "create_tail"
        /\ links' = [links EXCEPT !.tail["ready"] = u]
        /\ pc' = [pc EXCEPT ![t] = "user"] /\ target' = [target EXCEPT ![t] = NULL]
        /\ UNCHANGED <<status, lock, current, state>>
    BY <1>6 DEF CreateTail, At, Return
  <2>2. Settled = [links EXCEPT !.tail["ready"] = u] /\ Settled' = links'
    BY <1>1, <2>1 DEF Settled
  <2>3. links' \in Links
    BY <1>1, <1>2, <2>1 DEF Links, Pointer
  <2>4. NULL \in Pointer
    BY DEF Pointer
  <2> QED
    BY <1>1, <1>2, <2>1, <2>2, <2>3, <2>4, WriteHolds
<1> QED
  BY <1>3, <1>4, <1>5, <1>6

-----------------------------------------------------------------------------
LEMMA StepHolds ==
  ASSUME Disciplined, ClientInv, [Next]_vars
  PROVE  ClientInv' /\ [NextTurn]_vars
<1>1. CASE Boot /\ UNCHANGED <<timer, pc, target>>
  BY <1>1, BootHolds DEF NextTurn
<1>2. CASE Preempt /\ UNCHANGED <<timer, pc, target>>
  BY <1>2, PreemptHolds
<1>3. ASSUME NEW t \in Thread, UNCHANGED timer, Step(t)
      PROVE  ClientInv' /\ NextTurn
  <2>1. CASE Yield(t) \/ Block(t) \/ Finish(t)
    BY <1>3, <2>1, CallHolds
  <2>2. CASE \/ YieldLock(t) \/ BlockLock(t) \/ FinishLock(t) \/ UnblockLock(t)
             \/ \E u \in Thread : UnblockAssert(t, u)
    BY <1>3, <2>2, LockHolds
  <2>3. CASE Unblock(t)
    BY <1>3, <2>3, UnblockHolds
  <2>4. CASE \E u \in Thread : Create(t, u)
    BY <1>3, <2>4, CreateHolds
  <2>5. CASE CreateHead(t) \/ CreateTailNext(t) \/ CreatePrev(t) \/ CreateTail(t)
    BY <1>3, <2>5, AppendStepHolds
  <2> QED
    BY <1>3, <2>1, <2>2, <2>3, <2>4, <2>5 DEF Step
<1>4. CASE UNCHANGED vars
  <2>1. ClientInv'
    BY <1>4 DEF vars, schedVars, ClientInv, ClientTypeOK, SThreadTypeOK, BootInv, RunInv, Settled,
                ExitInv, ExitsTruthfully
  <2> QED
    BY <1>4, <2>1
<1> QED
  BY <1>1, <1>2, <1>3, <1>4 DEF Next

LEMMA InvGives == ClientInv => QueuesKept /\ ExitsTruthfully
<1> SUFFICES ASSUME ClientInv, NotCreating, status = "run", lock = 0
             PROVE  QueuesExact
  BY DEF ClientInv, ExitInv, QueuesKept, QueuesExact
<1>1. Settled = links /\ Hold(links, state)
  BY DEF Settled, NotCreating, ClientInv, RunInv
<1>2. PICK r, b \in Seq(Thread) :
        /\ Lists(links, r, b)
        /\ In(r) = {t \in Thread : state[t] = "Ready"}
        /\ In(b) = {t \in Thread : state[t] = "Blocked"}
  BY <1>1 DEF Hold
<1> QED
  BY <1>2, ListsExact DEF QueuesExact

\* The inductive invariant: between the statements of sthread_create the links are
\* those of two lists once it returns, and only the thread that is about to unblock
\* a thread may change that thread's state.
THEOREM ClientInvariant == ASSUME Disciplined PROVE Spec => []ClientInv
<1>1. Init => ClientInv
  BY InitHolds
<1>2. ClientInv /\ [Next]_vars => ClientInv'
  BY StepHolds
<1> QED
  BY <1>1, <1>2, PTL DEF Spec

\* However the threads use the functions, as long as no two of them may unblock while
\* the timer is on, the queues stay exact lists (sthread.c:104 and 46), ...
THEOREM QueuesStayExact == ASSUME Disciplined PROVE Spec => []QueuesKept
<1>1. ClientInv => QueuesKept
  BY InvGives
<1> QED
  BY <1>1, ClientInvariant, PTL

\* ... the process ends with the right message (sthread.c:251), ...
THEOREM ExitsAreTruthful == ASSUME Disciplined PROVE Spec => []ExitsTruthfully
<1>1. ClientInv => ExitsTruthfully
  BY InvGives
<1> QED
  BY <1>1, ClientInvariant, PTL

\* ... and the ready threads take turns, first come, first served.
THEOREM TurnsInOrder == ASSUME Disciplined PROVE Spec => RoundRobin
<1>1. ClientInv /\ [Next]_vars => [NextTurn]_vars
  BY StepHolds
<1>2. [NextTurn]_vars =>
        [status = "run" /\ status' = "run" /\ Switching =>
           Chain(links, "ready") \o
             (IF state[current] = "Running" /\ ~(pc[current] \in {"block", "finish"})
              THEN <<current>> ELSE <<>>)
             = <<current'>> \o Chain(links', "ready")]_vars
  BY DEF NextTurn
<1> QED
  BY <1>1, <1>2, ClientInvariant, PTL DEF Spec, RoundRobin
=============================================================================
