---------------------------- MODULE SchemeProofs ----------------------------
(***************************************************************************)
(* What the collector of scheme24 promises to every program: a collection  *)
(* frees exactly what cannot be reached.                                   *)
(***************************************************************************)
EXTENDS Scheme, TLAPS

\* The state of a collection.  What has been marked or is about to be holds the
\* roots, holds what the marked objects point to, and nothing that some closed
\* set with the roots leaves out.
Grey ==
    collecting =>
      /\ Roots(evaluation_stack, stack) \subseteq marked \cup pending
      /\ \A i \in marked : Children(heap[i]) \subseteq marked \cup pending

Least ==
    collecting =>
      \A S : /\ Roots(evaluation_stack, stack) \subseteq S
             /\ Closed(S)
             => marked \cup pending \subseteq S

\* Between collections no object has a mark: the last sweep took them off.
NoMarks == ~collecting => marked = {}

\* A step that does not start a collection while none runs leaves all of the
\* collector's state alone.
Idle == ~collecting /\ UNCHANGED gc

\* A piece of evaluate or of a special form does not touch the collector.
LEMMA ContinueIdle ==
    ASSUME ~collecting, NEW f, NEW h, Continue(f, h)
    PROVE  Idle
BY DEF Idle, Continue, gc

LEMMA CallEvalIdle ==
    ASSUME ~collecting, NEW f, NEW env, NEW expr, NEW h, CallEval(f, env, expr, h)
    PROVE  Idle
BY DEF Idle, CallEval, gc

LEMMA CallReplIdle ==
    ASSUME ~collecting, NEW f, NEW file, NEW interactive,
           CallRepl(f, file, interactive)
    PROVE  Idle
BY DEF Idle, CallRepl, gc

LEMMA CrashIdle ==
    ASSUME ~collecting, Crash
    PROVE  Idle
BY DEF Idle, Crash, gc

LEMMA AnswerIdle ==
    ASSUME ~collecting, NEW f, NEW v, NEW h, Answer(f, v, h)
    PROVE  Idle
BY ContinueIdle DEF Answer

LEMMA FailIdle ==
    ASSUME ~collecting, NEW f, NEW h, Fail(f, h)
    PROVE  Idle
BY AnswerIdle DEF Fail

LEMMA EvaluatorIdle ==
    ASSUME Evaluator, ~Done
    PROVE  Idle
<1>1. CASE Enter
  BY <1>1 DEF Enter, At, Idle, gc
<1>2. CASE SpecialForm
  BY <1>2, ContinueIdle, Zenon DEF SpecialForm, At
<1>3. CASE Name
  BY <1>3, AnswerIdle, FailIdle, Zenon DEF Name, At
<1>4. CASE SelfEvaluating
  BY <1>4, AnswerIdle DEF SelfEvaluating, At
<1>5. CASE Application
  BY <1>5, CallEvalIdle, Zenon DEF Application, At
<1>6. CASE Operator
  BY <1>6, AnswerIdle, FailIdle, ContinueIdle, CallEvalIdle, Zenon DEF Operator, At, NextOperand
<1>7. CASE Operand
  BY <1>7, AnswerIdle, FailIdle, ContinueIdle, CallEvalIdle, Zenon DEF Operand, At, NextOperand
<1>8. CASE BuiltIn
  BY <1>8, AnswerIdle, FailIdle, CrashIdle, Zenon DEF BuiltIn, ApplyNative, At
<1>9. CASE EvalFile
  BY <1>9, FailIdle, CallReplIdle, Zenon DEF EvalFile, At
<1>10. CASE FileDone
  BY <1>10, AnswerIdle, FailIdle, Zenon DEF FileDone, At
<1>11. CASE Interpret
  BY <1>11, FailIdle, CrashIdle, CallEvalIdle, Zenon DEF Interpret, At
<1>12. CASE Body
  BY <1>12, AnswerIdle, CallEvalIdle, Zenon DEF Body, At
<1>13. CASE Return
  BY <1>13 DEF Return, At, Idle, gc
<1> QED
  BY <1>1, <1>2, <1>3, <1>4, <1>5, <1>6, <1>7, <1>8, <1>9, <1>10, <1>11, <1>12,
     <1>13 DEF Evaluator
\* The special forms' own pieces.
LEMMA CallNextIdle ==
    ASSUME ~collecting, NEW f, NEW pc, CallNext(f, pc)
    PROVE  Idle
BY CallEvalIdle, FailIdle, Zenon DEF CallNext

LEMMA ChosenIdle ==
    ASSUME ~collecting, NEW f, NEW clause, NEW v, NEW h, Chosen(f, clause, v, h)
    PROVE  Idle
BY CallEvalIdle, AnswerIdle, Zenon DEF Chosen

LEMMA LetNextBodyIdle ==
    ASSUME ~collecting, NEW f, LetNextBody(f)
    PROVE  Idle
BY CallEvalIdle, ContinueIdle, Zenon DEF LetNextBody

LEMMA FormsIdle ==
    ASSUME Forms
    PROVE  Idle
<1>1. CASE Begin
  BY <1>1, CallNextIdle, Zenon DEF Begin, At
<1>2. CASE Begun
  BY <1>2, AnswerIdle, CallNextIdle, Zenon DEF Begun, At
<1>3. CASE If
  BY <1>3, FailIdle, CallNextIdle, Zenon DEF If, At
<1>4. CASE IfTest
  BY <1>4, AnswerIdle, CallEvalIdle, Zenon DEF IfTest, At
<1>5. CASE IfDone
  BY <1>5, AnswerIdle, Zenon DEF IfDone, At
<1>6. CASE And
  BY <1>6, AnswerIdle, CallNextIdle, Zenon DEF And, Junction, At
<1>7. CASE Or
  BY <1>7, AnswerIdle, CallNextIdle, Zenon DEF Or, Junction, At
<1>8. CASE Cond
  BY <1>8, FailIdle, ChosenIdle, CallEvalIdle, Zenon DEF Cond, At
<1>9. CASE CondTest
  BY <1>9, AnswerIdle, ChosenIdle, ContinueIdle, FailIdle, Zenon DEF CondTest, At
<1>10. CASE Lambda
  BY <1>10, AnswerIdle, FailIdle, Zenon DEF Lambda, At
<1>11. CASE SugaredDefine
  BY <1>11, AnswerIdle, FailIdle, Zenon DEF SugaredDefine, At
<1>12. CASE Define
  BY <1>12, FailIdle, CallEvalIdle, Zenon DEF Define, At
<1>13. CASE DefineValue
  BY <1>13, AnswerIdle, CrashIdle, Zenon DEF DefineValue, At
<1>14. CASE Quote
  BY <1>14, AnswerIdle, FailIdle, Zenon DEF Quote, At
<1>15. CASE Set
  BY <1>15, FailIdle, CallEvalIdle, Zenon DEF Set, At
<1>16. CASE SetValue
  BY <1>16, AnswerIdle, CrashIdle, FailIdle, Zenon DEF SetValue, At
<1>17. CASE Let
  BY <1>17 DEF Let, At, Idle, gc
<1>18. CASE LetNext
  BY <1>18, FailIdle, CrashIdle, CallEvalIdle, Zenon DEF LetNext, At
<1>19. CASE LetValue
  BY <1>19, AnswerIdle, CrashIdle, ContinueIdle, Zenon DEF LetValue, At
<1>20. CASE LetChild
  BY <1>20 DEF LetChild, At, Idle, gc
<1>21. CASE LetEnter
  BY <1>21, LetNextBodyIdle, Zenon DEF LetEnter, At
<1>22. CASE LetBody
  BY <1>22, ContinueIdle, LetNextBodyIdle, Zenon DEF LetBody, At
<1>23. CASE LetDone
  <2>1. CASE Len(evaluation_stack) < 2
    BY <1>23, <2>1, CrashIdle DEF LetDone, At
  <2>2. CASE ~(Len(evaluation_stack) < 2)
    BY <1>23, <2>2 DEF LetDone, At, Idle, gc
  <2> QED  BY <2>1, <2>2
<1> QED
  BY <1>1, <1>2, <1>3, <1>4, <1>5, <1>6, <1>7, <1>8, <1>9, <1>10, <1>11, <1>12, <1>13, <1>14, <1>15, <1>16, <1>17, <1>18, <1>19, <1>20, <1>21, <1>22, <1>23 DEF Forms

LEMMA LoopIdle ==
    ASSUME Loop, ~LineDone
    PROVE  Idle
<1>1. CASE LoadLibrary
  BY <1>1, CallReplIdle DEF LoadLibrary, At
<1>2. CASE Serve
  BY <1>2, CallReplIdle DEF Serve, At
<1>3. CASE Exit
  BY <1>3 DEF Exit, At, Idle, gc
<1>4. CASE ReadLine
  BY <1>4 DEF ReadLine, ReadText, At, Idle, gc
<1>5. CASE ReadFile
  BY <1>5 DEF ReadFile, ReadText, At, Idle, gc
<1>6. CASE EndOfInput
  BY <1>6 DEF EndOfInput, ReturnFromRepl, At, Idle, gc
<1>7. CASE FileFails
  BY <1>7 DEF FileFails, ReturnFromRepl, At, Idle, gc
<1> QED
  BY <1>1, <1>2, <1>3, <1>4, <1>5, <1>6, <1>7 DEF Loop
-----------------------------------------------------------------------------
(* A collection. *)

IInv == Grey /\ Least /\ NoMarks

LEMMA IdleKeeps ==
    ASSUME IInv, Idle
    PROVE  IInv'
BY DEF Idle, IInv, Grey, Least, NoMarks, gc

\* Nothing is marked yet, and the roots are waiting.
LEMMA StartKeeps ==
    ASSUME IInv, ~collecting, StartCollection
    PROVE  IInv'
<1>1. /\ marked' = {}
      /\ pending' = Roots(evaluation_stack', stack')
      /\ collecting'
  BY DEF StartCollection, IInv, NoMarks, PassedOver
<1>2. Grey'
  BY <1>1 DEF Grey
<1>3. Least'
  BY <1>1 DEF Least
<1>4. NoMarks'
  BY <1>1 DEF NoMarks
<1> QED  BY <1>2, <1>3, <1>4 DEF IInv

LEMMA MarkKeeps ==
    ASSUME IInv, Mark
    PROVE  IInv'
<1>1. CASE Null \in pending
  BY <1>1 DEF Mark, Crash, IInv, Grey, Least, NoMarks, Closed, gc
<1>2. CASE Null \notin pending
  <2>1. /\ marked' = marked \cup pending
        /\ pending' = (UNION {Children(heap[i]) : i \in pending})
                         \ PassedOver(marked')
        /\ heap' = heap
        /\ evaluation_stack' = evaluation_stack
        /\ stack' = stack
        /\ collecting' = collecting
        /\ collecting
    BY <1>2 DEF Mark
  <2>2. marked \cup pending \subseteq marked' \cup pending'
    BY <2>1
  <2>3. ASSUME NEW i \in pending, NEW c \in Children(heap[i])
        PROVE  c \in marked' \cup pending'
    <3>1. c \in UNION {Children(heap[j]) : j \in pending}
      OBVIOUS
    <3> QED  BY <2>1, <3>1 DEF PassedOver
  <2>4. Grey'
    BY <2>1, <2>2, <2>3 DEF IInv, Grey
  <2>5. ASSUME NEW S, Roots(evaluation_stack, stack) \subseteq S, Closed(S)
        PROVE  marked' \cup pending' \subseteq S
    <3>1. marked \cup pending \subseteq S
      BY <2>1, <2>5 DEF IInv, Least
    <3> QED  BY <2>1, <2>5, <3>1 DEF Closed
  <2>6. Least'
    BY <2>1, <2>5 DEF Least, Closed
  <2>7. NoMarks'
    BY <2>1 DEF NoMarks
  <2> QED  BY <2>4, <2>6, <2>7 DEF IInv
<1> QED  BY <1>1, <1>2

LEMMA StutterKeeps ==
    ASSUME IInv, UNCHANGED vars
    PROVE  IInv'
BY DEF IInv, Grey, Least, NoMarks, Closed, vars, gc

\* A step is no business of the collector's, or starts a collection, or marks,
\* or ends it.
LEMMA StepKinds ==
    ASSUME [Next]_vars
    PROVE  Idle \/ (~collecting /\ StartCollection) \/ Mark \/ Sweep \/ UNCHANGED vars
<1>1. CASE Evaluator
  <2>1. CASE Done
    <3>1. CASE Len(evaluation_stack) < 2
      BY <2>1, <3>1, CrashIdle DEF Done, At
    <3>2. CASE ~(Len(evaluation_stack) < 2)
      BY <2>1, <3>2 DEF Done, At
    <3> QED  BY <3>1, <3>2
  <2> QED  BY <1>1, <2>1, EvaluatorIdle
<1>2. CASE Forms
  BY <1>2, FormsIdle
<1>3. CASE Loop
  BY <1>3, LoopIdle DEF LineDone, At
<1> QED  BY <1>1, <1>2, <1>3 DEF Next, Stopped

LEMMA Initially == ASSUME Init PROVE IInv
BY DEF Init, IInv, Grey, Least, NoMarks

LEMMA SweepIdle == ASSUME Sweep PROVE IInv'
BY DEF Sweep, IInv, Grey, Least, NoMarks

LEMMA Preserved == ASSUME IInv, [Next]_vars PROVE IInv'
BY StepKinds, IdleKeeps, StartKeeps, MarkKeeps, SweepIdle, StutterKeeps

\* The marks are what the collection needs, in every state.
THEOREM CollectorInvariant == Spec => []IInv
<1>1. Init => IInv
  BY Initially
<1>2. IInv /\ [Next]_vars => IInv'
  BY Preserved
<1> QED  BY <1>1, <1>2, PTL DEF Spec

-----------------------------------------------------------------------------

\* A step that ends a collection is the sweep.
LEMMA EndsBySweep ==
    ASSUME [Next]_vars, collecting, ~collecting'
    PROVE  Sweep
<1>1. ~Idle
  BY DEF Idle, gc
<1>2. ~StartCollection
  BY DEF StartCollection
<1>3. ~Mark
  BY DEF Mark, Crash, gc
<1>4. ~(UNCHANGED vars)
  BY DEF vars, gc
<1> QED  BY <1>1, <1>2, <1>3, <1>4, StepKinds

LEMMA SweepSafe ==
    ASSUME IInv, Sweep, NEW i \in Live(heap) \ Live(heap')
    PROVE  /\ i \notin Roots(evaluation_stack, stack)
           /\ \A j \in Live(heap') : i \notin Children(heap[j])
<1>1. /\ Roots(evaluation_stack, stack) \subseteq marked
      /\ \A j \in marked : Children(heap[j]) \subseteq marked
  BY DEF IInv, Grey, Sweep
<1>2. heap' = [j \in Id |-> IF j \in marked THEN heap[j] ELSE Free]
  BY DEF Sweep
<1>3. \A j \in Id : j \in Live(heap') <=> heap'[j] # Free
  BY DEF Live, Unused
<1>4. \A j \in Live(heap') : j \in marked
  BY <1>2, <1>3 DEF Live
<1>5. i \in Id /\ heap[i] # Free /\ heap'[i] = Free
  BY <1>3 DEF Live, Unused
<1>6. i \notin marked
  BY <1>2, <1>5
<1> QED  BY <1>1, <1>4, <1>6

\* For every program, what a collection frees is neither a root nor anything
\* that a survivor points to (alloc.c, collect_garbage).
THEOREM NothingNeededIsFreed == Spec => SweepsOnlyGarbage
<1>1. ASSUME IInv, [Next]_vars
      PROVE  [collecting /\ ~collecting' =>
                \A i \in Live(heap) \ Live(heap') :
                  /\ i \notin Roots(evaluation_stack, stack)
                  /\ \A j \in Live(heap') : i \notin Children(heap[j])]_vars
  BY <1>1, EndsBySweep, SweepSafe
<1> QED  BY <1>1, CollectorInvariant, PTL DEF Spec, SweepsOnlyGarbage

\* For every program, only what the roots reach gets a mark.
THEOREM NothingElseIsKept == Spec => []MarksOnlyReachable
<1>1. IInv => MarksOnlyReachable
  BY DEF IInv, Least, MarksOnlyReachable
<1> QED  BY <1>1, CollectorInvariant, PTL
=============================================================================
