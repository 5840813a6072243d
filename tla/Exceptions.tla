----------------------------- MODULE Exceptions -----------------------------
(***************************************************************************)
(* The exceptions of week4/exceptions: the macros TRY, CATCH and END_TRY   *)
(* over setjmp() and longjmp() (c_except.h, my_setjmp.s), and the stack of *)
(* jump buffers (c_except.c), a pointer-vector whose memory grows and      *)
(* shrinks (ptr_vector.c).  A client calls and returns from functions,     *)
(* nests TRY blocks and throws anywhere; it does not leave a block by a    *)
(* return statement, which would leave a dead buffer on the stack.         *)
(*                                                                         *)
(* my_longjmp() restores %ebp and not %esp: locals are found by %ebp, and  *)
(* a function returns from %ebp, so that nothing depends on the %esp of    *)
(* the thrower.  The model has no stack pointer.                           *)
(***************************************************************************)
EXTENDS Integers, Sequences, SequencesExt

CONSTANTS Types,         \* the exceptions that are thrown; 0 is NO_EXCEPTION
          CatchSets,     \* for which sets of them a block has a CATCH
          MIN_CAPACITY,  \* the capacity a vector starts with: 16
          MaxDepth,      \* bound: how deep calls and blocks nest
          MayFail        \* realloc() may fail

NO_EXCEPTION          == 0
UNSPECIFIED_EXCEPTION == 1

VARIABLES context,    \* the calls and the blocks that control is in, outermost
                      \* first; the place of a block stands for its jmp_buf
          env_stack,  \* a PtrStack: elems, of which the first size are in use
          lost,       \* a start_try() has returned 0
          status      \* "running", "exited" or "aborted"

vars == <<context, env_stack, lost, status>>

Unset    == 0  \* NULL
capacity == Len(env_stack.elems)

CallContext == [kind |-> "call"]

\* A block: its code runs, or exception has arrived, or is being handled.
Block(state, exception, catches) ==
    [kind |-> "try", state |-> state, exception |-> exception, catches |-> catches]

Init == /\ context = <<CallContext>>
        /\ env_stack = [elems |-> <<>>, size |-> 0]
        /\ lost = FALSE /\ status = "running"

Innermost == Last(context)
InBlock(state) == /\ status = "running"
                  /\ Innermost.kind = "try" /\ Innermost.state = state

\* The program's own code runs: it is not between setjmp() and a CATCH.
ClientRuns == status = "running" /\ ~InBlock("arrived")

-----------------------------------------------------------------------------
(* ptr_vector.c                                                            *)

(* ps_push_elem(), if realloc() succeeds                                   *)
Pushed(elem) ==
    LET room  == IF capacity = 0 THEN MIN_CAPACITY ELSE capacity
        elems == IF env_stack.size = capacity
                 THEN env_stack.elems \o [i \in 1..room |-> Unset] ELSE env_stack.elems
    IN  [elems |-> [elems EXCEPT ![env_stack.size + 1] = elem], size |-> env_stack.size + 1]

(* pvh_reduce_capacity(): the capacity is halved as long as that is enough *)
FinalCapacity(limit, size) ==
    LET half[c \in 0..limit] ==
          IF c \div 2 > MIN_CAPACITY /\ c \div 2 > size THEN half[c \div 2] ELSE c
    IN  half[limit]

(* What ps_pop_elem() may leave                                            *)
Popped ==
    LET size  == env_stack.size - 1
        elems == [env_stack.elems EXCEPT ![env_stack.size] = Unset]
        kept  == {FinalCapacity(capacity, size)} \cup IF MayFail THEN {capacity} ELSE {}
    IN  {[elems |-> SubSeq(elems, 1, c), size |-> size] : c \in kept}

-----------------------------------------------------------------------------
(* The macros                                                              *)

(* TRY: setjmp() returns 0 and start_try() is called, its result ignored.  *)
Try(catches) ==
    /\ ClientRuns /\ Len(context) < MaxDepth
    /\ context' = Append(context, Block("code", NO_EXCEPTION, catches))
    /\ \/ env_stack' = Pushed(Len(context) + 1) /\ UNCHANGED lost
       \/ /\ MayFail /\ env_stack.size = capacity
          /\ lost' = TRUE /\ UNCHANGED env_stack
    /\ UNCHANGED status

(* The end of the code: finish_try()                                       *)
FinishTry ==
    /\ InBlock("code")
    /\ IF env_stack.size = 0  \* assert(ps->size > 0)
       THEN status' = "aborted" /\ UNCHANGED <<context, env_stack>>
       ELSE /\ env_stack' \in Popped
            /\ context' = Front(context) /\ UNCHANGED status
    /\ UNCHANGED lost

\* Where longjmp() ends: setjmp() returns in the block of the buffer.
Landed(place, value) ==
    LET exception == IF value = 0 THEN UNSPECIFIED_EXCEPTION ELSE value
        block     == context[place]
    IN  Append(SubSeq(context, 1, place - 1), Block("arrived", exception, block.catches))

\* Mutant: the handler's buffer stays on the stack.
ThrowWithoutPop(exc_type) ==
    /\ env_stack.size > 0
    /\ context' = Landed(env_stack.elems[env_stack.size], exc_type)
    /\ UNCHANGED <<env_stack, lost, status>>

(* throw_exception()                                                       *)
throw_exception(exc_type) ==
    /\ IF env_stack.size = 0
       THEN status' = "aborted" /\ UNCHANGED <<context, env_stack>>
       ELSE /\ env_stack' \in Popped
            /\ context' = Landed(env_stack.elems[env_stack.size], exc_type)
            /\ UNCHANGED status
    /\ UNCHANGED lost

Throw == \E exc_type \in Types : ClientRuns /\ throw_exception(exc_type)

(* RETHROW is written in a CATCH, or in the code of a block in a CATCH of  *)
(* the same function, where the inner block's variable hides the outer's.  *)
Rethrow == /\ ClientRuns /\ Innermost.kind = "try"
           /\ throw_exception(Innermost.exception)

(* The CATCHes of the block are compared in turn; END_TRY goes outwards.   *)
Catch == /\ InBlock("arrived") /\ Innermost.exception \in Innermost.catches
         /\ context' = [context EXCEPT ![Len(context)].state = "catch"]
         /\ UNCHANGED <<env_stack, lost, status>>

END_TRY == /\ InBlock("arrived") /\ Innermost.exception \notin Innermost.catches
           /\ throw_exception(Innermost.exception)

(* The end of a CATCH                                                      *)
FinishCatch == /\ InBlock("catch") /\ context' = Front(context)
               /\ UNCHANGED <<env_stack, lost, status>>

(* The client's functions                                                  *)
Call == /\ ClientRuns /\ Len(context) < MaxDepth
        /\ context' = Append(context, CallContext)
        /\ UNCHANGED <<env_stack, lost, status>>

Return == /\ ClientRuns /\ Innermost.kind = "call"
          /\ IF Len(context) = 1 THEN status' = "exited" /\ UNCHANGED context
             ELSE context' = Front(context) /\ UNCHANGED status
          /\ UNCHANGED <<env_stack, lost>>

Over == status # "running" /\ UNCHANGED vars

Next == \/ \E catches \in CatchSets : Try(catches)
        \/ FinishTry \/ Throw \/ Rethrow \/ Catch \/ END_TRY \/ FinishCatch
        \/ Call \/ Return \/ Over

Spec == Init /\ [][Next]_vars

-----------------------------------------------------------------------------

Buffers == SubSeq(env_stack.elems, 1, env_stack.size)

Guarded == {place \in 1..Len(context) :
               context[place].kind = "try" /\ context[place].state = "code"}

(* The stack holds the buffers of blocks whose code runs, the innermost on *)
(* top, even after a start_try() that failed unnoticed: a jump never lands *)
(* in a block that has ended or handles already.  Unless a start_try() has *)
(* failed it holds the buffers of all of them, however the vector has      *)
(* grown and shrunk, and no assertion fails while there is one.            *)
BuffersMatchBlocks ==
    /\ ToSet(Buffers) \subseteq Guarded
    /\ \A i, j \in 1..Len(Buffers) : i < j => Buffers[i] < Buffers[j]
    /\ ~lost => /\ Guarded \subseteq ToSet(Buffers)
                /\ status = "aborted" => Guarded = {}
=============================================================================
