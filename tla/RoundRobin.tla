----------------------------- MODULE RoundRobin -----------------------------
(***************************************************************************)
(* What a user of the cooperative threads of week6/sthreads is promised:   *)
(* the threads take turns in the order in which they became ready, a       *)
(* blocked thread waits until another one unblocks it, and the program     *)
(* ends when no thread is ready, well if none is blocked either.           *)
(***************************************************************************)
EXTENDS Sequences, SequencesExt

CONSTANTS Thread, NULL

VARIABLES ready,    \* the threads that wait for their turn, in order
          blocked,  \* the set of blocked threads
          current,  \* the thread whose turn it is, NULL before the first
          status    \* "main", "run", "completed" or "deadlocked"

vars == <<ready, blocked, current, status>>

Init == ready = <<>> /\ blocked = {} /\ current = NULL /\ status = "main"

Alive == ToSet(ready) \cup blocked \cup {current}

Running == status = "run"

Create(t) == /\ status \in {"main", "run"} /\ t \in Thread \ Alive
             /\ ready' = Append(ready, t)
             /\ UNCHANGED <<blocked, current, status>>

\* The first of these threads has its turn, while those are blocked.
Turn(waiting, asleep) ==
    /\ blocked' = asleep
    /\ IF waiting = <<>>
       THEN /\ status' = IF asleep = {} THEN "completed" ELSE "deadlocked"
            /\ ready' = <<>> /\ current' = NULL
       ELSE status' = "run" /\ current' = Head(waiting) /\ ready' = Tail(waiting)

Start  == status = "main" /\ Turn(ready, blocked)
Yield  == Running /\ Turn(Append(ready, current), blocked)
Block  == Running /\ Turn(ready, blocked \cup {current})
Finish == Running /\ Turn(ready, blocked)

Unblock(t) == /\ Running /\ t \in blocked
              /\ blocked' = blocked \ {t} /\ ready' = Append(ready, t)
              /\ UNCHANGED <<current, status>>

Next == \/ \E t \in Thread : Create(t) \/ Unblock(t)
        \/ Start \/ Yield \/ Block \/ Finish

Spec == Init /\ [][Next]_vars
=============================================================================
