------------------------------- MODULE Scheme -------------------------------
(***************************************************************************)
(* The Scheme interpreter of week4/scheme24: evaluate (evaluator.c), the   *)
(* special forms (special_forms.c), the built-in functions that build,     *)
(* take apart or change data (native_lambdas.c), the loop that reads lines *)
(* (repl.c) and the collector (alloc.c), compiled with ALWAYS_GC as it     *)
(* stands.                                                                 *)
(*                                                                         *)
(* `stack' is the C stack.  The collector cannot see it: it sees           *)
(* `evaluation_stack', whose contexts hold an environment, an expression,  *)
(* the result of the last inner evaluation, and the addresses of local     *)
(* variables, which are pairs <<frame, name>> here.  An action is the C    *)
(* code between two calls of evaluate; a special form runs in the frame of *)
(* the evaluate that called it, at a `pc' that says where it is.           *)
(***************************************************************************)
EXTENDS SchemeHeap

CONSTANTS Lines,      \* texts that may be typed
          MaxLines,   \* bound: how many are typed
          Files       \* what each file holds, a sequence of texts

ASSUME LinesAssumption == /\ MaxLines \in Nat
                          /\ "stdlib.scm" \in DOMAIN Files

VARIABLES heap,
          stack,              \* the C frames
          evaluation_stack,   \* the contexts
          ret,                \* what the last call returned
          marked, pending,    \* marked objects; pointers still to follow
          collecting,         \* in collect_garbage
          lines,              \* how many more lines are typed
          status              \* "run", "exit" or "crash"

gc   == <<marked, pending, collecting>>
vars == <<heap, stack, evaluation_stack, ret, gc, lines, status>>

-----------------------------------------------------------------------------
(* Frames and contexts. *)

EvalLocals == {"temp", "result", "operator", "operand_val", "operands",
               "operands_end", "nil_value"}
LetLocals  == {"names", "values"}
Locals     == EvalLocals \cup LetLocals \cup {"let_result"}

Evaluate(env, expr) ==
    [fn |-> "evaluate", pc |-> "enter", env |-> env, expr |-> expr,
     iter |-> Null, child_env |-> Null,
     temp |-> Null, result |-> Null, operator |-> Null, operand_val |-> Null,
     operands |-> Null, operands_end |-> Null, nil_value |-> Null,
     names |-> Null, values |-> Null, let_result |-> Null]

Repl(file, interactive) ==
    [fn |-> "repl", pc |-> "read", file |-> file, interactive |-> interactive]

Main(pc) == [fn |-> "main", pc |-> pc]

Context(env, expr, registered) ==
    [env |-> env, expr |-> expr, child |-> Null, registered |-> registered]

native_lambdas == << "cons", "car", "cdr", "list", "eq?", "set-car!",
                     "set-cdr!", "+", "display", "error", "eval-file" >>

GlobalEnv == 1

Init ==
    /\ heap = [i \in Id |->
         IF i = GlobalEnv
         THEN [Environment(Null) EXCEPT !.binds =
                 [n \in DOMAIN native_lambdas |->
                    [name |-> native_lambdas[n], value |-> n + 1]]]
         ELSE IF i - 1 \in DOMAIN native_lambdas
              THEN Native(GlobalEnv, native_lambdas[i - 1]) ELSE Free]
    /\ stack = << Main("start") >>
    /\ evaluation_stack = << Context(Null, Null, {}) >>
    /\ ret = Null
    /\ marked = {} /\ pending = {} /\ collecting = FALSE
    /\ lines = MaxLines
    /\ status = "run"

Top == stack[Len(stack)]

At(pc) == status = "run" /\ ~collecting /\ Top.pc = pc

SetTop(s, x) == [s EXCEPT ![Len(s)] = x]
Pop(s)       == SubSeq(s, 1, Len(s) - 1)

-----------------------------------------------------------------------------
(* What a piece of evaluate or of a special form ends with. *)

\* It goes on at another place of the same function.
Continue(f, h) ==
    /\ stack' = SetTop(stack, f)
    /\ heap' = h
    /\ UNCHANGED <<evaluation_stack, ret, gc, lines, status>>

\* It calls evaluate, and goes on in frame f when that returns.
CallEval(f, env, expr, h) ==
    /\ stack' = Append(SetTop(stack, f), Evaluate(env, expr))
    /\ heap' = h
    /\ UNCHANGED <<evaluation_stack, ret, gc, lines, status>>

\* It calls exec_file, or main the loop on standard input.
CallRepl(f, file, interactive) ==
    /\ stack' = Append(SetTop(stack, f), Repl(file, interactive))
    /\ UNCHANGED <<heap, evaluation_stack, ret, gc, lines, status>>

\* The result is known: to the label Done of evaluate.
Answer(f, v, h) ==
    Continue([f EXCEPT !.pc = "done", !.result = v], h)

Fail(f, h) == Answer(f, Fresh(h), New(h, Error))

\* An assertion fails, or a null pointer is followed.
Crash ==
    /\ status' = "crash"
    /\ UNCHANGED <<heap, stack, evaluation_stack, ret, gc, lines>>

\* What the collector starts from.  An address whose frame is gone would read
\* whatever lies there.
ValueAt(s, r) == IF r[1] \in DOMAIN s THEN s[r[1]][r[2]] ELSE Null

ContextRoots(ctx, s) ==
    {ctx.env, ctx.expr, ctx.child} \cup {ValueAt(s, r) : r \in ctx.registered}

\* mark_environment of the global one, and mark_eval_stack.
Roots(contexts, s) ==
    {GlobalEnv} \cup
    ((UNION {ContextRoots(contexts[i], s) : i \in DOMAIN contexts}) \ {Null})

\* Of the marked objects mark_value passes over the values; mark_environment
\* goes through an environment each time it is called.
PassedOver(S) == {i \in S : ~Is(heap, i, "Env")}

\* collect_garbage, called with the contexts as they are now.
StartCollection ==
    /\ collecting' = TRUE
    /\ pending' = Roots(evaluation_stack', stack') \ PassedOver(marked)
    /\ UNCHANGED marked

\* Mutant: pop_evalctx only pops.
PopContextOnly(contexts, v) == Pop(contexts)

\* pop_evalctx: the result goes to the context below, which must be there.
PopContext(contexts, v) ==
    LET below == Pop(contexts)
    IN  SetTop(below, [below[Len(below)] EXCEPT !.child = v])

\* reset_current_evalctx
ResetContext(expr) ==
    evaluation_stack' = SetTop(evaluation_stack, Context(GlobalEnv, expr, {}))

-----------------------------------------------------------------------------
(* evaluate *)

special_forms == {"begin", "let", "if", "and", "or", "cond", "define",
                  "lambda", "quote", "set!"}

Enter ==
    /\ At("enter")
    /\ evaluation_stack' = Append(evaluation_stack,
          Context(Top.env, Top.expr, {Len(stack)} \X EvalLocals))
    /\ stack' = SetTop(stack, [Top EXCEPT !.pc = "dispatch"])
    /\ UNCHANGED <<heap, ret, gc, lines, status>>

IsSpecial(h, e) ==
    /\ Is(h, e, "Cons")
    /\ Is(h, Car(h, e), "Atom")
    /\ h[Car(h, e)].name \in special_forms

SpecialForm ==
    /\ At("dispatch")
    /\ IsSpecial(heap, Top.expr)
    /\ Continue([Top EXCEPT !.pc = heap[Car(heap, Top.expr)].name,
                            !.iter = Cdr(heap, Top.expr)], heap)

Name ==
    /\ At("dispatch")
    /\ Is(heap, Top.expr, "Atom")
    /\ LET v == resolve_binding(heap, Top.env, heap[Top.expr].name)
       IN  IF v = Null THEN Fail(Top, heap) ELSE Answer(Top, v, heap)

SelfEvaluating ==
    /\ At("dispatch")
    /\ ~Is(heap, Top.expr, "Atom")
    /\ ~Is(heap, Top.expr, "Cons")
    /\ Answer(Top, Top.expr, heap)

Application ==
    /\ At("dispatch")
    /\ Is(heap, Top.expr, "Cons")
    /\ ~IsSpecial(heap, Top.expr)
    /\ CallEval([Top EXCEPT !.pc = "operator", !.temp = Car(heap, Top.expr)],
                Top.env, Car(heap, Top.expr), heap)

\* The next operand, when temp has come to a pair, or else the application.
NextOperand(f, h) ==
    IF Is(h, f.temp, "Cons")
    THEN CallEval([f EXCEPT !.pc = "operand"], f.env, Car(h, f.temp), h)
    ELSE Continue([f EXCEPT !.pc = "apply"], h)

Operator ==
    /\ At("operator")
    /\ IF Is(heap, ret, "Error") THEN Answer(Top, ret, heap)
       ELSE IF ~Is(heap, ret, "Lambda") /\ ~Is(heap, ret, "Native")
       THEN Fail(Top, heap)
       ELSE LET nil == Fresh(heap)
            IN  NextOperand([Top EXCEPT !.operator = ret,
                                        !.nil_value = nil,
                                        !.operands = nil,
                                        !.temp = Cdr(heap, Top.expr)],
                            New(heap, Nil))

Operand ==
    /\ At("operand")
    /\ IF Is(heap, ret, "Error") THEN Answer(Top, ret, heap)
       ELSE LET cons == Fresh(heap)
                end  == Top.operands_end
                made == New(heap, Cons(ret, Top.nil_value))
            IN  NextOperand(
                  [Top EXCEPT !.operand_val = ret,
                              !.operands = IF end = Null THEN cons ELSE @,
                              !.operands_end = cons,
                              !.temp = Cdr(heap, @)],
                  IF end = Null THEN made ELSE [made EXCEPT ![end].cdr = cons])

-----------------------------------------------------------------------------
(* Applying a function. *)

\* eq?
Same(h, v, w) ==
    /\ h[v].type = h[w].type
    /\ h[v].type # "Error"
    /\ \/ v = w
       \/ h[v].type \notin {"Cons", "Lambda", "Native"} /\ h[v] = h[w]

\* What each built-in function does: the cell it returns new, or the old
\* value, or the change it makes; "error" where it makes an error.
ApplyNative ==
    LET f    == Top
        func == heap[f.operator].func
        list == f.operands
        args == Elements(heap, list)
        n    == Len(args)
        pair == n > 0 /\ Is(heap, args[1], "Cons")
        NewValue(c) == Answer(f, Fresh(heap), New(heap, c))
        \* set-car!, set-cdr!, whose value must not be NULL
        Set(changed) == IF n # 2 \/ ~pair THEN Fail(f, heap)
                        ELSE IF args[2] = Null THEN Crash
                        ELSE Answer(f, args[2], changed)
    IN
    CASE func = "cons" -> IF n = 2 THEN NewValue(Cons(args[1], args[2]))
                                   ELSE Fail(f, heap)
      [] func = "car"  -> IF n = 1 /\ pair THEN Answer(f, Car(heap, args[1]), heap)
                                           ELSE Fail(f, heap)
      [] func = "cdr"  -> IF n = 1 /\ pair THEN Answer(f, Cdr(heap, args[1]), heap)
                                           ELSE Fail(f, heap)
      [] func = "list" -> Answer(f, list, heap)
      [] func = "eq?"  -> IF n # 2 THEN Fail(f, heap)
                          ELSE IF Null \in {args[1], args[2]} THEN Crash
                          ELSE NewValue(Bool(Same(heap, args[1], args[2])))
      [] func = "set-car!" -> Set([heap EXCEPT ![args[1]].car = args[2]])
      [] func = "set-cdr!" -> Set([heap EXCEPT ![args[1]].cdr = args[2]])
      [] func = "+"       -> IF \A i \in 1 .. n : Is(heap, args[i], "Data")
                             THEN NewValue(Data("sum")) ELSE Fail(f, heap)
      [] func = "display" -> Answer(f, Null, heap)
      [] OTHER            -> Fail(f, heap)      \* error

BuiltIn ==
    /\ At("apply")
    /\ Is(heap, Top.operator, "Native")
    /\ heap[Top.operator].func # "eval-file"
    /\ ApplyNative

\* eval-file: another loop, on top of the contexts of this one.
EvalFile ==
    /\ At("apply")
    /\ Is(heap, Top.operator, "Native")
    /\ heap[Top.operator].func = "eval-file"
    /\ LET args == Elements(heap, Top.operands)
       IN  IF /\ Len(args) = 1
              /\ Is(heap, args[1], "Data")
              /\ heap[args[1]].val \in DOMAIN Files
           THEN CallRepl([Top EXCEPT !.pc = "file"],
                         Files[heap[args[1]].val], FALSE)
           ELSE Fail(Top, heap)

FileDone ==
    /\ At("file")
    /\ IF ret = 1 THEN Answer(Top, Fresh(heap), New(heap, Bool(TRUE)))
                  ELSE Fail(Top, heap)

\* get_car and get_cdr where the argument need not be a pair.
CarOrError(h, v) == IF Is(h, v, "Cons") THEN Car(h, v) ELSE Fresh(h)
CdrOrError(h, v) == IF Is(h, v, "Cons") THEN Cdr(h, v) ELSE Fresh(h)
WithError(h, v)  == IF Is(h, v, "Cons") THEN h ELSE New(h, Error)

Interpret ==
    /\ At("apply")
    /\ Is(heap, Top.operator, "Lambda")
    /\ LET lambda == heap[Top.operator]
           values == Top.operands
           env    == Fresh(heap)
           h      == New(heap, Environment(lambda.env))
           bound  == BindAll(h, env, lambda.args, values)
       IN  IF NullBound(h, lambda.args, values) THEN Crash
           ELSE IF Mismatch(h, lambda.args, values) THEN Fail(Top, h)
           ELSE CallEval([Top EXCEPT !.pc = "body", !.child_env = env,
                                     !.iter = lambda.body,
                                     !.temp = Null],
                         env, CarOrError(bound, lambda.body),
                         WithError(bound, lambda.body))

\* An error in one expression of the body does not stop the next.
Body ==
    /\ At("body")
    /\ LET rest == CdrOrError(heap, Top.iter)
           h    == WithError(heap, Top.iter)
       IN  IF Is(h, rest, "Nil") THEN Answer(Top, ret, heap)
           ELSE CallEval([Top EXCEPT !.iter = rest, !.result = ret],
                         Top.child_env, CarOrError(h, rest), WithError(h, rest))

Done ==
    /\ At("done")
    /\ IF Len(evaluation_stack) < 2 THEN Crash
       ELSE /\ evaluation_stack' =
                 PopContext(evaluation_stack, Top.result)
            /\ stack' = SetTop(stack, [Top EXCEPT !.pc = "return"])
            /\ StartCollection
            /\ UNCHANGED <<heap, ret, lines, status>>

Return ==
    /\ At("return")
    /\ ret' = Top.result
    /\ stack' = Pop(stack)
    /\ UNCHANGED <<heap, evaluation_stack, gc, lines, status>>

-----------------------------------------------------------------------------
(* Special forms.  `iter' is the list that the form is walking along.       *)

IsList(h, v, n) == Pairs(h, v) = n /\ Is(h, Rest(h, v), "Nil")

\* Evaluate the next of a list of expressions, which must be there.
CallNext(f, pc) ==
    IF Is(heap, f.iter, "Cons")
    THEN CallEval([f EXCEPT !.pc = pc], f.env, Car(heap, f.iter), heap)
    ELSE Fail(f, heap)

\* After an expression of a sequence whose last value is the form's.
Begin == At("begin") /\ CallNext(Top, "begun")

Begun ==
    /\ At("begun")
    /\ LET rest == Cdr(heap, Top.iter)
       IN  IF Is(heap, ret, "Error") \/ Is(heap, rest, "Nil")
           THEN Answer(Top, ret, heap)
           ELSE CallNext([Top EXCEPT !.iter = rest], "begun")

If ==
    /\ At("if")
    /\ IF Pairs(heap, Top.iter) < 3 THEN Fail(Top, heap)
       ELSE CallNext(Top, "if_test")

IfTest ==
    /\ At("if_test")
    /\ IF Is(heap, ret, "Error") THEN Answer(Top, ret, heap)
       ELSE LET branch == IF IsFalse(heap, ret) THEN 3 ELSE 2
            IN  CallEval([Top EXCEPT !.pc = "tail"], Top.env,
                         Elements(heap, Top.iter)[branch], heap)

IfDone == At("tail") /\ Answer(Top, ret, heap)

\* `and' stops at a false value, `or' at a true one.  A last value of NULL
\* counts as no value at all, and the form is what it would not stop at.
Junction(form, next, stop) ==
    LET Value == IF ret = Null
                 THEN Answer(Top, Fresh(heap), New(heap, Bool(form = "and")))
                 ELSE Answer(Top, ret, heap)
    IN
    \/ /\ At(form)
       /\ IF Is(heap, Top.iter, "Nil")
          THEN Answer(Top, Fresh(heap), New(heap, Bool(form = "and")))
          ELSE CallNext(Top, next)
    \/ /\ At(next)
       /\ LET rest == Cdr(heap, Top.iter)
          IN  IF Is(heap, ret, "Error") \/ stop \/ Is(heap, rest, "Nil")
              THEN Value
              ELSE CallNext([Top EXCEPT !.iter = rest], next)

And == Junction("and", "and_next", IsFalse(heap, ret))
Or  == Junction("or", "or_next", ~IsFalse(heap, ret))

\* The expressions after a test that holds; the test's value if there is none.
Chosen(f, clause, v, h) ==
    LET body == Cdr(h, clause)
    IN  IF Is(h, body, "Nil") THEN Answer(f, v, h)
        ELSE CallEval([f EXCEPT !.pc = "begun", !.iter = body],
                      f.env, CarOrError(h, body), WithError(h, body))

Cond ==
    /\ At("cond")
    /\ LET clause == Car(heap, Top.iter)
           test   == Car(heap, clause)
       IN  IF ~Is(heap, Top.iter, "Cons") \/ ~Is(heap, clause, "Cons")
           THEN Fail(Top, heap)
           ELSE IF Is(heap, test, "Atom") /\ heap[test].name = "else"
           THEN IF Is(heap, Cdr(heap, Top.iter), "Nil")
                THEN Chosen(Top, clause, Fresh(heap), New(heap, Bool(TRUE)))
                ELSE Fail(Top, heap)
           ELSE CallEval([Top EXCEPT !.pc = "cond_test"], Top.env, test, heap)

\* Mutant: cond does not step to its next clause.
CondTestStays ==
    /\ At("cond_test")
    /\ IF Is(heap, ret, "Error") THEN Answer(Top, ret, heap)
       ELSE IF ~IsFalse(heap, ret)
       THEN Chosen(Top, Car(heap, Top.iter), ret, heap)
       ELSE IF Is(heap, Top.iter, "Cons")
       THEN Continue([Top EXCEPT !.pc = "cond"], heap)
       ELSE Fail(Top, heap)

CondTest ==
    /\ At("cond_test")
    /\ LET rest == Cdr(heap, Top.iter)
       IN  IF Is(heap, ret, "Error") THEN Answer(Top, ret, heap)
           ELSE IF ~IsFalse(heap, ret)
           THEN Chosen(Top, Car(heap, Top.iter), ret, heap)
           ELSE IF Is(heap, rest, "Cons")
           THEN Continue([Top EXCEPT !.pc = "cond", !.iter = rest], heap)
           ELSE Fail(Top, heap)

\* make_lambda in the current environment, and eval_sugared_define on it.
Lambda ==
    /\ At("lambda")
    /\ IF Pairs(heap, Top.iter) < 2 \/ ~ValidSpec(heap, Car(heap, Top.iter))
       THEN Fail(Top, heap)
       ELSE Answer(Top, Fresh(heap),
                   New(heap, Interpreted(Top.env, Car(heap, Top.iter),
                                                  Cdr(heap, Top.iter))))

SugaredDefine ==
    /\ At("define")
    /\ Is(heap, Top.iter, "Cons")
    /\ Is(heap, Car(heap, Top.iter), "Cons")
    /\ LET spec == Car(heap, Top.iter)
           name == Car(heap, spec)
           made == Interpreted(Top.env, Cdr(heap, spec), Cdr(heap, Top.iter))
       IN  IF ~Is(heap, name, "Atom") \/ ~ValidSpec(heap, Cdr(heap, spec))
           THEN Fail(Top, heap)
           ELSE Answer(Top, Fresh(heap),
                       create_binding(New(heap, made), Top.env,
                                      heap[name].name, Fresh(heap)))

Define ==
    /\ At("define")
    /\ ~(Is(heap, Top.iter, "Cons") /\ Is(heap, Car(heap, Top.iter), "Cons"))
    /\ IF Pairs(heap, Top.iter) < 2 \/ ~Is(heap, Car(heap, Top.iter), "Atom")
       THEN Fail(Top, heap)
       ELSE CallEval([Top EXCEPT !.pc = "define_value"], Top.env,
                     Elements(heap, Top.iter)[2], heap)

DefineValue ==
    /\ At("define_value")
    /\ IF Is(heap, ret, "Error") THEN Answer(Top, ret, heap)
       ELSE IF ret = Null THEN Crash
       ELSE Answer(Top, ret, create_binding(heap, Top.env,
                                 heap[Car(heap, Top.iter)].name, ret))

Quote ==
    /\ At("quote")
    /\ IF ~IsList(heap, Top.iter, 1) THEN Fail(Top, heap)
       ELSE Answer(Top, Car(heap, Top.iter), heap)

Set ==
    /\ At("set!")
    /\ IF ~IsList(heap, Top.iter, 2) \/ ~Is(heap, Car(heap, Top.iter), "Atom")
       THEN Fail(Top, heap)
       ELSE CallEval([Top EXCEPT !.pc = "set_value"], Top.env,
                     Elements(heap, Top.iter)[2], heap)

SetValue ==
    /\ At("set_value")
    /\ LET name == heap[Car(heap, Top.iter)].name
           env  == Binder(heap, Top.env, name)
       IN  IF Is(heap, ret, "Error") THEN Answer(Top, ret, heap)
           ELSE IF ret = Null THEN Crash
           ELSE IF env = Null THEN Fail(Top, heap)
           ELSE Answer(Top, ret, create_binding(heap, env, name, ret))

-----------------------------------------------------------------------------
(* let *)

\* append_value_to_list, which leaves the tail of the list at its first pair
\* and asserts that nothing comes after that.
CanAppend(h, head, v) ==
    v # Null /\ (Is(h, head, "Nil") \/ Is(h, Cdr(h, head), "Nil"))

AppendHead(h, head) == IF Is(h, head, "Nil") THEN Fresh(h) ELSE head

AppendValue(h, head, v) ==
    IF Is(h, head, "Nil") THEN New(h, Cons(v, head))
    ELSE [New(h, Cons(v, Cdr(h, head))) EXCEPT ![head].cdr = Fresh(h)]

\* The two lists become locals that the collector sees.
Let ==
    /\ At("let")
    /\ LET n   == Len(evaluation_stack)
           h   == New(heap, Nil)
           bad == ~Is(heap, Top.iter, "Cons")
       IN  /\ evaluation_stack' = [evaluation_stack EXCEPT
                ![n].registered = @ \cup ({Len(stack)} \X LetLocals)]
           /\ heap' = IF bad THEN New(heap, Error) ELSE New(h, Nil)
           /\ stack' = SetTop(stack,
                IF bad
                THEN [Top EXCEPT !.pc = "let_done",
                                 !.let_result = Fresh(heap)]
                ELSE [Top EXCEPT !.pc = "let_next",
                                 !.iter = Car(heap, Top.iter),
                                 !.names = Fresh(heap),
                                 !.values = Fresh(h)])
    /\ UNCHANGED <<ret, gc, lines, status>>

LetNext ==
    /\ At("let_next")
    /\ ~Is(heap, Top.iter, "Nil")
    /\ LET binding == Car(heap, Top.iter)
           name    == Car(heap, binding)
           names   == Top.names
           h       == AppendValue(heap, names, name)
           after   == Cdr(heap, binding)
       IN  IF \/ ~Is(heap, Top.iter, "Cons")
              \/ ~Is(heap, binding, "Cons")
              \/ ~Is(heap, name, "Atom")
           THEN Fail(Top, heap)
           ELSE IF ~CanAppend(heap, names, name) THEN Crash
           ELSE CallEval([Top EXCEPT !.pc = "let_value",
                                     !.names = AppendHead(heap, names)],
                         Top.env, CarOrError(h, after), WithError(h, after))

LetValue ==
    /\ At("let_value")
    /\ LET values == Top.values
       IN  IF Is(heap, ret, "Error") THEN Answer(Top, ret, heap)
           ELSE IF ~CanAppend(heap, values, ret) THEN Crash
           ELSE Continue([Top EXCEPT !.pc = "let_next",
                                     !.iter = Cdr(heap, Top.iter),
                                     !.values = AppendHead(heap, values)],
                         AppendValue(heap, values, ret))

\* The child environment and its context, and then its bindings.
LetChild ==
    /\ At("let_next")
    /\ Is(heap, Top.iter, "Nil")
    /\ LET env  == Fresh(heap)
           body == Nthcdr(heap, Top.expr, 2)
       IN  /\ evaluation_stack' = Append(evaluation_stack,
                Context(env, body, {<<Len(stack), "let_result">>}))
           /\ heap' = BindAll(New(heap, Environment(Top.env)), env,
                              Top.names, Top.values)
           /\ stack' = SetTop(stack, [Top EXCEPT !.pc = "let_enter", !.iter = body,
                                                 !.child_env = env])
    /\ UNCHANGED <<ret, gc, lines, status>>

\* The next expression of the body; goto Done when there is none.
LetNextBody(f) ==
    IF Is(heap, f.iter, "Cons")
    THEN CallEval([f EXCEPT !.pc = "let_body"], f.child_env,
                  Car(heap, f.iter), heap)
    ELSE Continue([f EXCEPT !.pc = "let_done",
                            !.let_result = Fresh(heap)],
                  New(heap, Error))

LetEnter == At("let_enter") /\ LetNextBody(Top)

\* Mutant: return_if_error where goto_done_if_error belongs.
LetBodyReturns ==
    /\ At("let_body")
    /\ LET rest == Cdr(heap, Top.iter)
           f    == [Top EXCEPT !.let_result = ret]
       IN  IF Is(heap, ret, "Error") THEN Answer(Top, ret, heap)
           ELSE IF Is(heap, rest, "Nil")
           THEN Continue([f EXCEPT !.pc = "let_done"], heap)
           ELSE LetNextBody([f EXCEPT !.iter = rest])

LetBody ==
    /\ At("let_body")
    /\ LET rest == Cdr(heap, Top.iter)
           f    == [Top EXCEPT !.let_result = ret]
       IN  IF Is(heap, ret, "Error") \/ Is(heap, rest, "Nil")
           THEN Continue([f EXCEPT !.pc = "let_done"], heap)
           ELSE LetNextBody([f EXCEPT !.iter = rest])

\* The label Done of eval_let, which pops a context in any case.
LetDone ==
    /\ At("let_done")
    /\ IF Len(evaluation_stack) < 2 THEN Crash
       ELSE LET v == Top.let_result
            IN  /\ evaluation_stack' = PopContext(evaluation_stack, v)
                /\ stack' = SetTop(stack, [Top EXCEPT !.pc = "done",
                                                      !.result = v])
                /\ UNCHANGED <<heap, ret, gc, lines, status>>

-----------------------------------------------------------------------------
(* main and read_eval_print_loop *)

LoadLibrary == At("start") /\ CallRepl(Main("loading"), Files["stdlib.scm"], FALSE)

Serve ==
    /\ At("loading")
    /\ ret = 1
    /\ CallRepl(Main("serving"), << >>, TRUE)

Exit ==
    /\ \E pc \in {"loading", "serving"} : At(pc) /\ (pc = "loading" => ret = 0)
    /\ status' = "exit"
    /\ UNCHANGED <<heap, stack, evaluation_stack, ret, gc, lines>>

ReadText(f, text) ==
    \E at \in {Places(heap)} :
      /\ heap' = Read(heap, text, at)
      /\ ResetContext(at[1])
      /\ stack' = Append(SetTop(stack, [f EXCEPT !.pc = "print"]),
                         Evaluate(GlobalEnv, at[1]))
      /\ UNCHANGED <<ret, gc, status>>

ReadLine ==
    /\ At("read")
    /\ Top.interactive
    /\ lines > 0
    /\ lines' = lines - 1
    /\ \E text \in Lines : ReadText(Top, text)

ReadFile ==
    /\ At("read")
    /\ Top.file # << >>
    /\ ReadText([Top EXCEPT !.file = Tail(@)], Top.file[1])
    /\ UNCHANGED lines

ReturnFromRepl(result) ==
    /\ stack' = Pop(stack)
    /\ ret' = result
    /\ UNCHANGED <<heap, evaluation_stack, gc, lines, status>>

EndOfInput ==
    /\ At("read")
    /\ Top.file = << >>
    /\ Top.interactive => lines = 0
    /\ ReturnFromRepl(1)

\* An error ends a file; when typing it is only printed.
FileFails ==
    /\ At("print")
    /\ ~Top.interactive
    /\ Is(heap, ret, "Error")
    /\ ReturnFromRepl(0)

\* Mutant: the root context keeps the last line and its result.
LineDoneKeeps ==
    /\ At("print")
    /\ Top.interactive \/ ~Is(heap, ret, "Error")
    /\ stack' = SetTop(stack, [Top EXCEPT !.pc = "read"])
    /\ evaluation_stack' = evaluation_stack
    /\ StartCollection
    /\ UNCHANGED <<heap, ret, lines, status>>

LineDone ==
    /\ At("print")
    /\ Top.interactive \/ ~Is(heap, ret, "Error")
    /\ ResetContext(Null)
    /\ stack' = SetTop(stack, [Top EXCEPT !.pc = "read"])
    /\ StartCollection
    /\ UNCHANGED <<heap, ret, lines, status>>

-----------------------------------------------------------------------------
(* collect_garbage.  The order in which mark_value recurses does not matter *)
(* and is left out: one step marks all objects that the last step reached.  *)
(* mark_value asserts that it is given an object.                           *)

Mark ==
    /\ status = "run"
    /\ collecting
    /\ pending # {}
    /\ IF Null \in pending THEN Crash
       ELSE /\ marked' = marked \cup pending
            /\ pending' = (UNION {Children(heap[i]) : i \in pending})
                             \ PassedOver(marked')
            /\ UNCHANGED <<heap, stack, evaluation_stack, ret, collecting,
                           lines, status>>

\* Mutant: the sweeps free what has no mark and leave the marks of the others.
SweepKeepsMarks ==
    /\ status = "run"
    /\ collecting
    /\ pending = {}
    /\ heap' = [i \in Id |-> IF i \in marked THEN heap[i] ELSE Free]
    /\ collecting' = FALSE
    /\ UNCHANGED <<stack, evaluation_stack, ret, marked, pending, lines, status>>

\* The sweeps take the marks off what they keep.
Sweep ==
    /\ status = "run"
    /\ collecting
    /\ pending = {}
    /\ heap' = [i \in Id |-> IF i \in marked THEN heap[i] ELSE Free]
    /\ marked' = {}
    /\ collecting' = FALSE
    /\ UNCHANGED <<stack, evaluation_stack, ret, pending, lines, status>>

-----------------------------------------------------------------------------

Evaluator ==
    \/ Enter \/ SpecialForm \/ Name \/ SelfEvaluating \/ Application
    \/ Operator \/ Operand \/ BuiltIn \/ EvalFile \/ FileDone
    \/ Interpret \/ Body \/ Done \/ Return

Forms ==
    \/ Begin \/ Begun \/ If \/ IfTest \/ IfDone \/ And \/ Or \/ Cond \/ CondTest
    \/ Lambda \/ SugaredDefine \/ Define \/ DefineValue \/ Quote \/ Set \/ SetValue
    \/ Let \/ LetNext \/ LetValue \/ LetChild \/ LetEnter \/ LetBody \/ LetDone

Loop ==
    \/ LoadLibrary \/ Serve \/ Exit \/ ReadLine \/ ReadFile
    \/ EndOfInput \/ FileFails \/ LineDone

\* The process is gone.
Stopped == status # "run" /\ UNCHANGED vars

Next == Evaluator \/ Forms \/ Loop \/ Mark \/ Sweep \/ Stopped

Spec == Init /\ [][Next]_vars

\* One thread runs all of it and only waits for input, which comes: weak
\* fairness of the steps other than Stopped, one of which is enabled exactly as
\* long as the program runs.
Fairness == []<>(status # "run") \/ []<><<Next>>_vars

FairSpec == Spec /\ Fairness

-----------------------------------------------------------------------------
(* Properties. *)

\* The pointers that the code in a frame will still follow.
More(f) == ~Is(heap, Cdr(heap, f.iter), "Nil")

Held(f) ==
    IF f.fn # "evaluate" THEN {}
    ELSE CASE f.pc \in {"file", "tail"}     -> {}
           [] f.pc \in {"done", "return"}   -> {f.result}
           [] f.pc = "let_done"             -> {f.let_result}
           [] f.pc \in {"body", "let_body"} ->
                {f.iter} \cup (IF More(f) THEN {f.child_env} ELSE {})
           [] OTHER -> {f.env, f.expr, f.iter, f.child_env} \cup
                       {f[n] : n \in Locals}

\* Where the value that a call returned is still to be looked at.
Returning == {"operator", "operand", "body", "begun", "if_test", "tail",
              "and_next", "or_next", "cond_test", "define_value", "set_value",
              "let_value", "let_body", "print"}

\* Memory safety: whatever the evaluator will still look at, and whatever an
\* object points to, has not been freed (alloc.c, evaluator.c:391-566).
NoDangling ==
    status = "run" =>
      /\ \A i \in DOMAIN stack : Held(stack[i]) \ {Null} \subseteq Live(heap)
      /\ Top.pc \in Returning /\ ~collecting => {ret} \ {Null} \subseteq Live(heap)
      /\ \A i \in Live(heap) : Children(heap[i]) \ {Null} \subseteq Live(heap)

\* The contexts and the calls of evaluate and of let's body match one to one,
\* above the root context "which is always present on the stack" (repl.c:87); and
\* the collector never reads a local variable of a function that has returned, nor
\* of one that has yet to say that it is there (evaluator.c:353).
InEvaluate(f) == f.fn = "evaluate" /\ f.pc \notin {"enter", "return"}
InLetBody(f)  == f.fn = "evaluate" /\ f.pc \in {"let_enter", "let_body", "let_done"}

ContextsMatch ==
    LET calls(P(_)) == Cardinality({i \in DOMAIN stack : P(stack[i])})
    IN  /\ Len(evaluation_stack) = 1 + calls(InEvaluate) + calls(InLetBody)
        /\ \A i \in DOMAIN evaluation_stack :
             \A r \in evaluation_stack[i].registered :
               r[1] \in DOMAIN stack /\ InEvaluate(stack[r[1]])

\* No assertion of the interpreter fails and no NULL is followed.
NoCrash == status # "crash"

\* Everything that can be reached from some objects.
Reachable(roots) ==
    LET closure[S \in SUBSET Id] ==
          LET more == S \cup UNION {Children(heap[i]) : i \in S}
          IN  IF more = S THEN S ELSE closure[more]
    IN  closure[roots]

\* "Make sure every last bit of garbage is gone!" (repl.c:55): when the loop
\* waits for a line, all that is left can be reached from the global names.
NoGarbageAtPrompt ==
    At("read") /\ Top.interactive => Live(heap) = Reachable({GlobalEnv})

\* A collection frees nothing that a root or a surviving object points to
\* (alloc.c, collect_garbage).
SweepsOnlyGarbage ==
    [][collecting /\ ~collecting' =>
         \A i \in Live(heap) \ Live(heap') :
           /\ i \notin Roots(evaluation_stack, stack)
           /\ \A j \in Live(heap') : i \notin Children(heap[j])]_vars

\* Nor does it keep anything else: nothing gets a mark that the roots do not
\* reach.  (The first two conjuncts say that Reachable is what its name says.)
Closed(S) == \A i \in S : Children(heap[i]) \subseteq S

MarksOnlyReachable ==
    collecting =>
      LET roots == Roots(evaluation_stack, stack)
      IN  /\ roots \subseteq Reachable(roots)
          /\ Closed(Reachable(roots))
          => marked \cup pending \subseteq Reachable(roots)

\* Every line is answered and the program comes to its end, provided that the
\* lines themselves terminate: no step of evaluator or collector is repeated
\* for ever.
Finishes == <>(status # "run")
=============================================================================
