------------------------------ MODULE Arbiter ------------------------------
(***************************************************************************)
(* The bus arbiter of midWeek/arbiter (arbiter.c) with the two processors  *)
(* that testarb.c makes up: before a clock, one of them may begin or end   *)
(* its request.  A pin is a word from malloc(): until it is set it may     *)
(* hold anything, and nobody sets the request pins before the first clock. *)
(* (The test waits ten clocks before it touches them; the model need not.) *)
(***************************************************************************)
EXTENDS Integers

CONSTANT Junk  \* what memory fresh from malloc() may hold

Processor == {0, 1}  \* A and B

VARIABLES turn, req, grant,
          alone,   \* history: for how many clocks a processor has asked while
                   \* the other did not, counted up to Enough
          status   \* "running" or "aborted"

vars == <<turn, req, grant, alone, status>>

Enough == 3

Init == /\ turn = 0
        /\ req \in [Processor -> Junk] /\ grant \in [Processor -> Junk]
        /\ alone = [p \in Processor |-> 0]
        /\ status = "running"

\* Mutant: a request of either processor keeps the turn.
EitherAsks(ReqA, ReqB) == ReqA = 1 \/ ReqB = 1

\* The processor whose turn it is asks for the bus.
HoldsTurn(ReqA, ReqB) == IF turn = 0 THEN ReqA = 1 ELSE ReqB = 1

\* Mutant: a grant stays until the other processor is granted the bus.
StickyGrant(held) == [p \in Processor |-> IF p # turn THEN grant[p] ELSE IF held THEN 1 ELSE 0]

NextGrant(held) == [p \in Processor |-> IF p = turn /\ held THEN 1 ELSE 0]

clock_arbiter ==
    IF ~(req'[0] \in {0, 1} /\ req'[1] \in {0, 1})
    THEN status' = "aborted" /\ UNCHANGED <<turn, grant>>
    ELSE LET held == HoldsTurn(req'[0], req'[1])
         IN  /\ turn' = IF held THEN turn ELSE 1 - turn
             /\ grant' = NextGrant(held)
             /\ UNCHANGED status

(* A round of main()                                                       *)
Round ==
    /\ status = "running"
    /\ \/ UNCHANGED req
       \/ \E p \in Processor : req' = [req EXCEPT ![p] = IF @ = 0 THEN 1 ELSE 0]
    /\ clock_arbiter
    /\ alone' = [p \in Processor |-> IF req'[p] # 1 \/ req'[1 - p] # 0 THEN 0
                                     ELSE IF alone[p] = Enough THEN Enough ELSE alone[p] + 1]

Over == status = "aborted" /\ UNCHANGED vars

Next == Round \/ Over

Spec == Init /\ [][Next]_vars

-----------------------------------------------------------------------------

(* A processor that asks for the bus while the other one does not has it   *)
(* from the second clock on, and loses it by no toggle of the turn         *)
(* (part_b.txt counts on one clock for the turn and one for the answer).   *)
GrantedInTwo == \A p \in Processor : alone[p] >= 2 => grant[p] = 1

(* A processor has the bus only while it asks for it, and after a clock    *)
(* that neither began nor ended its turn.                                  *)
InTurn == \A p \in Processor : status' = "running" /\ grant'[p] = 1 =>
            turn = p /\ turn' = p /\ req'[p] = 1 /\ grant'[1 - p] = 0

(* The bus is granted to one processor at most, to one that asks for it    *)
(* now and whose turn it has been since an earlier clock: it is never      *)
(* handed over within a clock.                                             *)
GrantedInTurn == [][InTurn]_vars
=============================================================================
