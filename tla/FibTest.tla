------------------------------ MODULE FibTest ------------------------------
(***************************************************************************)
(* The program of week 7: producers and consumers (fibtest.c) sharing a    *)
(* bounded buffer (bounded_buffer.c) guarded by three semaphores, on the   *)
(* preemptive scheduler.                                                   *)
(*                                                                         *)
(* `at' is the statement of its loop a thread is at, or goes on with when  *)
(* the semaphore operation it is in returns.  An element is abstracted to  *)
(* the producer's id and the argument of fib, which determine its val.     *)
(***************************************************************************)
EXTENDS Semaphore, Integers

CONSTANTS
  Producer, Consumer,   \* the threads that run producer() and consumer()
  Modulus,              \* FIB_MODULUS
  Length,               \* the buffer's length
  Empty                 \* the value of a slot with no element in it

ASSUME FibTestAssumption ==
  /\ Thread = Producer \cup Consumer
  /\ Producer \cap Consumer = {}
  /\ Semaphores = {"producers", "consumers", "protect"}
  /\ Modulus \in Nat \ {0}
  /\ Length \in Nat \ {0}
  /\ Empty \notin [id : Producer, arg : 0 .. Modulus - 1]

VARIABLES
  at,                   \* where a thread is in its loop
  elem,                 \* the local variable elem of each thread
  buffer, first, count  \* the fields of the BoundedBuffer

bufVars == <<buffer, first, count>>
vars == <<timer, schedVars, semVars, at, elem, bufVars>>

Element == [id : Producer, arg : 0 .. Modulus - 1]

AddSite  == {"add", "add_enter", "add_store", "add_count", "add_notify",
             "add_leave", "next"}
TakeSite == {"take", "take_enter", "take_copy", "take_advance", "take_notify",
             "take_leave", "check"}

TypeOK ==
  /\ timer \in Timers
  /\ SThreadTypeOK
  /\ SemaphoreTypeOK
  /\ at \in [Thread -> AddSite \cup TakeSite]
  /\ \A t \in Thread : at[t] \in AddSite <=> t \in Producer
  /\ elem \in [Thread -> Element \cup {Empty}]
  /\ \A t \in Producer : elem[t] \in Element
  /\ buffer \in [0 .. Length - 1 -> Element \cup {Empty}]
  /\ first \in 0 .. Length - 1
  /\ count \in Int

Init ==
  /\ SThreadInit
  /\ SemaphoreInit([s \in Semaphores |-> CASE s = "producers" -> Length
                                           [] s = "consumers" -> 0
                                           [] s = "protect"   -> 1], "protect")
  /\ at = [t \in Thread |-> IF t \in Producer THEN "add" ELSE "take"]
  /\ elem = [t \in Thread |-> IF t \in Producer THEN [id |-> t, arg |-> 0] ELSE Empty]
  /\ buffer = [k \in 0 .. Length - 1 |-> Empty]
  /\ first = 0
  /\ count = 0

\* Thread t is at statement `here' of its loop and goes on to `there'.
Move(t, here, there) ==
  /\ At(t, "user") /\ at[t] = here
  /\ at' = [at EXCEPT ![t] = there]

-----------------------------------------------------------------------------
(* producer: bounded_buffer_add, then the next argument                    *)

AddWaitSpace(t) ==
  Move(t, "add", "add_enter") /\ WaitLock(t, "producers") /\ UNCHANGED <<elem, bufVars>>

AddWaitProtect(t) ==
  Move(t, "add_enter", "add_store") /\ WaitLock(t, "protect") /\ UNCHANGED <<elem, bufVars>>

AddStore(t) ==
  /\ Move(t, "add_store", "add_count")
  /\ buffer' = [buffer EXCEPT ![(first + count) % Length] = elem[t]]
  /\ UNCHANGED <<schedVars, semVars, elem, first, count>>

AddCount(t) ==
  /\ Move(t, "add_count", "add_notify")
  /\ count' = count + 1
  /\ UNCHANGED <<schedVars, semVars, elem, buffer, first>>

\* Mutant: the new element is not announced.
AddSilent(t) ==
  Move(t, "add_notify", "add_leave") /\ UNCHANGED <<schedVars, semVars, elem, bufVars>>

AddSignalItem(t) ==
  Move(t, "add_notify", "add_leave") /\ SignalLock(t, "consumers") /\ UNCHANGED <<elem, bufVars>>

AddSignalProtect(t) ==
  Move(t, "add_leave", "next") /\ SignalLock(t, "protect") /\ UNCHANGED <<elem, bufVars>>

ProducerNext(t) ==
  /\ Move(t, "next", "add")
  /\ elem' = [elem EXCEPT ![t].arg = (@ + 1) % Modulus]
  /\ UNCHANGED <<schedVars, semVars, bufVars>>

-----------------------------------------------------------------------------
(* consumer: bounded_buffer_take, then the check of the value              *)

TakeWaitItem(t) ==
  Move(t, "take", "take_enter") /\ WaitLock(t, "consumers") /\ UNCHANGED <<elem, bufVars>>

TakeWaitProtect(t) ==
  Move(t, "take_enter", "take_copy") /\ WaitLock(t, "protect") /\ UNCHANGED <<elem, bufVars>>

\* Mutant: the newest element is taken.
TakeNewest(t) ==
  LET k == (first + count - 1) % Length IN
  /\ Move(t, "take_copy", "take_advance")
  /\ elem' = [elem EXCEPT ![t] = buffer[k]]
  /\ buffer' = [buffer EXCEPT ![k] = Empty]
  /\ UNCHANGED <<schedVars, semVars, first, count>>

TakeCopy(t) ==
  /\ Move(t, "take_copy", "take_advance")
  /\ elem' = [elem EXCEPT ![t] = buffer[first]]
  /\ buffer' = [buffer EXCEPT ![first] = Empty]
  /\ UNCHANGED <<schedVars, semVars, first, count>>

\* first moves on round the buffer, and count goes down.
TakeAdvance(t) ==
  /\ Move(t, "take_advance", "take_notify")
  /\ count' = count - 1
  /\ first' = (first + 1) % Length
  /\ UNCHANGED <<schedVars, semVars, elem, buffer>>

\* Mutant: the freed slot is not given back to the producers.
TakeSilent(t) ==
  Move(t, "take_notify", "take_leave") /\ UNCHANGED <<schedVars, semVars, elem, bufVars>>

TakeSignalSpace(t) ==
  Move(t, "take_notify", "take_leave") /\ SignalLock(t, "producers") /\ UNCHANGED <<elem, bufVars>>

TakeSignalProtect(t) ==
  Move(t, "take_leave", "check") /\ SignalLock(t, "protect") /\ UNCHANGED <<elem, bufVars>>

\* The value matches its argument unless the slot was empty, whose val is -1.
ConsumerCheck(t) ==
  /\ Move(t, "check", "take")
  /\ status' = IF elem[t] = Empty THEN "nomatch" ELSE status
  /\ UNCHANGED <<lock, current, state, links, semVars, elem, bufVars>>

-----------------------------------------------------------------------------
BufferStep(t) ==
  \/ AddWaitSpace(t) \/ AddWaitProtect(t) \/ AddStore(t) \/ AddCount(t)
  \/ AddSignalItem(t) \/ AddSignalProtect(t) \/ ProducerNext(t)
  \/ TakeWaitItem(t) \/ TakeWaitProtect(t) \/ TakeCopy(t) \/ TakeAdvance(t)
  \/ TakeSignalSpace(t) \/ TakeSignalProtect(t) \/ ConsumerCheck(t)

Step(t) ==
  /\ UNCHANGED timer
  /\ \/ SemaphoreStep(t) /\ UNCHANGED <<at, elem, bufVars>>
     \/ BufferStep(t)

programVars == <<timer, semVars, at, elem, bufVars>>

System == (Boot \/ Preempt) /\ UNCHANGED programVars

Next == System \/ \E t \in Thread : Step(t)

Spec == Init /\ [][Next]_vars

\* main() runs on, and a quantum of 10 ms (timer.c:41) is long against one step:
\* a thread that is given the CPU again and again executes again and again.
Fairness ==
  /\ WF_vars(Boot /\ UNCHANGED programVars)
  /\ \A t \in Thread : SF_vars(Step(t))

FairSpec == Spec /\ Fairness

-----------------------------------------------------------------------------
\* Between wait(protect) and the increment of signal(protect).
Critical(t) ==
  \/ at[t] \in {"add_store", "take_copy"} /\ pc[t] = "user"
  \/ at[t] \in {"add_count", "add_notify", "add_leave",
                "take_advance", "take_notify", "take_leave"}
  \/ at[t] \in {"next", "check"} /\ pc[t] = "signal_inc"

\* "This semaphore is used to prevent data from being overridden"
\* (bounded_buffer.c:39): at most one thread is between wait(protect) and
\* signal(protect), whatever the timer does.
MutualExclusion ==
  \A t, u \in Thread : Critical(t) /\ Critical(u) => t = u

\* fibtest is two endless loops: it never ends by "All threads completed", by
\* "deadlocked", on a null link, on a failed assertion or by NO MATCH.
RunsForever == status \notin Exited

-----------------------------------------------------------------------------
(* The buffer implements a bounded FIFO queue.                             *)

\* An element leaves the abstract queue when it is copied out, before first moves.
fifo ==
  LET gone == IF \E t \in Thread : at[t] = "take_advance" THEN 1 ELSE 0
  IN  [k \in 1 .. count - gone |-> buffer[(first + gone + k - 1) % Length]]

turn == [p \in Producer |-> IF at[p] \in {"add_notify", "add_leave", "next"}
                            THEN (elem[p].arg + 1) % Modulus ELSE elem[p].arg]

FIFO == INSTANCE BoundedFIFO WITH Capacity <- Length

\* bounded_buffer_add and _take put and get elements first in first out, losing and
\* duplicating none, and never hold more than length of them (bounded_buffer.c:92-140).
ImplementsFIFO == FIFO!Spec

\* The consumers are fed for ever: however ticks fall, a consumer gets another
\* element again and again (semaphore.c:66, a woken waiter may lose the race).
ConsumersFed == []<>(\E t \in Consumer : at[t] = "check")

=============================================================================
