------------------------------ MODULE MCScheme ------------------------------
(***************************************************************************)
(* Texts for the interpreter: expressions as trees, and the sequence of    *)
(* cells that the reader makes of a tree.                                  *)
(***************************************************************************)
EXTENDS Scheme

A(n) == [t |-> "leaf", cell |-> Atom(n)]
S(d) == [t |-> "leaf", cell |-> Data(d)]
T    == [t |-> "leaf", cell |-> Bool(TRUE)]
F    == [t |-> "leaf", cell |-> Bool(FALSE)]
N    == [t |-> "leaf", cell |-> Nil]
L(s) == [t |-> "list", elems |-> s, tail |-> N]
D(s, x) == [t |-> "list", elems |-> s, tail |-> x]    \* improper

RECURSIVE Cells(_, _)
Cells(x, base) ==
    IF x.t = "leaf" THEN << x.cell >>
    ELSE IF x.elems = << >> THEN Cells(x.tail, base)
    ELSE LET head == Cells(x.elems[1], base + 1)
             rest == Cells([x EXCEPT !.elems = Tail(@)], base + 1 + Len(head))
         IN  << Cons(base + 2, base + 2 + Len(head)) >> \o head \o rest
Text(x) == Cells(x, 0)

\* (define (f x) body), (f x)
Def(f, args, body)  == L(<< A("define"), L(<< A(f) >> \o args) >> \o body)
Call(f, args)       == L(<< A(f) >> \o args)
Q(x)                == L(<< A("quote"), x >>)
Lam(args, body)     == L(<< A("lambda"), L(args) >> \o body)

-----------------------------------------------------------------------------
(* stdlib.scm, in part, and files for eval-file. *)
NullTest == Text(Def("null?", << A("x") >>, << Call("eq?", << A("x"), N >>) >>))

TheFiles == [f \in {"stdlib.scm", "more.scm", "wrong.scm"} |->
    CASE f = "stdlib.scm" -> << NullTest >>
      [] f = "more.scm"   -> << Text(Call("define", << A("z"), Q(A("b")) >>)),
                                Text(Call("list", << A("z"), A("z") >>)) >>
      [] f = "wrong.scm"  -> << Text(Call("car", << T >>)), Text(A("z")) >>]

\* reverse as in stdlib.scm: a body of two expressions whose first is a define.
Reverse == Def("reverse", << A("x") >>,
    << Def("helper", << A("lst"), A("result") >>,
           << Call("cond",
                << L(<< Call("null?", << A("lst") >>), A("result") >>),
                   L(<< A("else"),
                        Call("helper", << Call("cdr", << A("lst") >>),
                                          Call("cons", << Call("car", << A("lst") >>),
                                                          A("result") >>) >>) >>) >>) >>),
       Call("helper", << A("x"), N >>) >>)

\* An object that keeps x in the environment of a call that is over.
Counter == Call("define",
    << A("p"), L(<< Lam(<< A("x") >>,
                        << Lam(<< A("v") >>,
                               << Call("set!", << A("x"), Call("cons", << A("v"), A("x") >>) >>) >>) >>),
                    N >>) >>)

TheLines == {Text(x) : x \in {
    Reverse,
    Call("reverse", << Q(L(<< A("a"), A("b") >>)) >>),
    Counter,
    Call("begin", << Call("p", << S("1") >>), Call("p", << S("2") >>) >>),
    L(<< L(<< A("lambda"), D(<< A("x") >>, A("r")), Call("cons", << A("r"), A("x") >>) >>),
         Q(A("a")), T, F >>),
    L(<< L(<< A("lambda"), A("r"), Call("car", << A("r") >>) >>) >>),
    Call("let", << L(<< L(<< A("a"), Call("list", << T >>) >>),
                        L(<< A("b"), Call("list", << F >>) >>) >>),
                   Call("set-cdr!", << A("a"), A("b") >>),
                   Call("set-car!", << A("a"), A("p") >>),
                   A("a") >>),
    Call("let", << L(<< L(<< A("a"), Call("error", << S("e") >>) >>) >>), A("a") >>),
    Call("if", << Call("and", << Call("or", << F, Call("null?", << N >>) >>), F >>),
                  T, Call("+", << S("1"), S("2") >>) >>),
    Call("cond", << L(<< Call("and", << >>), Call("begin", << Call("display", << T >>), S("s") >>) >>) >>),
    Call("set!", << A("unknown"), T >>),
    Call("if", << T, F >>),
    Call("eval-file", << S("more.scm") >>),
    Call("eval-file", << S("wrong.scm") >>),
    Q(N) }}

\* A function of two expressions, neither of which makes a closure, and its call.
DropsEnvironment ==
    {Text(Def("f", << A("x") >>, << Call("list", << T >>), A("x") >>)),
     Text(Call("f", << F >>))}
=============================================================================
