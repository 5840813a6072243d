----------------------------- MODULE SchemeHeap -----------------------------
(***************************************************************************)
(* The objects of the Scheme interpreter of week4/scheme24 and what its    *)
(* helpers do with them (types.h, values.c, alloc.c, parse.c and the       *)
(* environments of evaluator.c).                                           *)
(*                                                                         *)
(* A heap maps every identity to a cell; `Free' is memory that no object   *)
(* occupies.  A Value of type T_Lambda and its one Lambda struct are one   *)
(* cell.  Operators that allocate map a heap to a heap.  Numbers and       *)
(* strings are opaque: only their identity is ever looked at.              *)
(***************************************************************************)
EXTENDS Integers, Sequences, FiniteSets

CONSTANT MaxId        \* bound: how many objects are allocated at one time

ASSUME MaxIdAssumption == MaxId \in Nat

Id == 1 .. MaxId
Null == 0

Free        == [type |-> "Free"]
Nil         == [type |-> "Nil"]
Error       == [type |-> "Error"]
Bool(b)     == [type |-> "Bool", val |-> b]
Atom(n)     == [type |-> "Atom", name |-> n]
Data(d)     == [type |-> "Data", val |-> d]
Cons(a, d)  == [type |-> "Cons", car |-> a, cdr |-> d]
Environment(parent)   == [type |-> "Env", parent |-> parent, binds |-> << >>]
Interpreted(e, a, b)  == [type |-> "Lambda", env |-> e, args |-> a, body |-> b]
Native(e, f)          == [type |-> "Native", env |-> e, func |-> f]

-----------------------------------------------------------------------------
(* Reading. *)

Is(h, v, type) == v # Null /\ h[v].type = type

\* What get_car, get_cdr answer, where the caller has a cons pair.
Car(h, v)  == h[v].car
Cdr(h, v)  == h[v].cdr

\* is_false; everything else is true, nil and NULL included.
IsFalse(h, v) == Is(h, v, "Bool") /\ ~h[v].val

\* The pair reached after n steps down the cdrs of v, and how many there are.
Nthcdr(h, v, n) ==
    LET down[i \in 0 .. n] == IF i = 0 THEN v ELSE Cdr(h, down[i - 1])
    IN  down[n]

Pairs(h, v) ==
    LET count[w \in Id \cup {Null}] ==
          IF Is(h, w, "Cons") THEN 1 + count[Cdr(h, w)] ELSE 0
    IN  count[v]

Elements(h, v) == [i \in 1 .. Pairs(h, v) |-> Car(h, Nthcdr(h, v, i - 1))]
Rest(h, v)     == Nthcdr(h, v, Pairs(h, v))

\* Mutant: mark_environment without its test for the missing parent.
ChildrenAndParents(c) ==
    CASE c.type = "Cons"   -> {c.car, c.cdr}
      [] c.type = "Lambda" -> {c.args, c.body, c.env}
      [] c.type = "Native" -> {c.env}
      [] c.type = "Env"    -> {c.binds[i].value : i \in DOMAIN c.binds} \cup {c.parent}
      [] OTHER             -> {}

\* What an object points to (the fields that mark_value, mark_lambda and
\* mark_environment follow, each with its NULLs).
Children(c) ==
    CASE c.type = "Cons"   -> {c.car, c.cdr}
      [] c.type = "Lambda" -> {c.args, c.body, c.env}
      [] c.type = "Native" -> {c.env}
      [] c.type = "Env"    -> {c.binds[i].value : i \in DOMAIN c.binds} \cup
                              ({c.parent} \ {Null})
      [] OTHER             -> {}

-----------------------------------------------------------------------------
(* Allocation: malloc gives some free memory, here the lowest. *)

Unused(h) == {i \in Id : h[i] = Free}
Live(h)   == Id \ Unused(h)

Fresh(h)  == CHOOSE i \in Unused(h) : \A j \in Unused(h) : i <= j
New(h, c) == [h EXCEPT ![Fresh(h)] = c]

\* The reader makes one object per atom, number, pair and nil of the text.
\* A text is the sequence of its cells, whose pointers are positions in it; the
\* expression itself is the first.  `at' says where the cells come to lie.
Places(h) ==
    LET ascending[S \in SUBSET Id] ==
          IF S = {} THEN << >>
          ELSE LET i == CHOOSE i \in S : \A j \in S : i <= j
               IN  << i >> \o ascending[S \ {i}]
    IN  ascending[Unused(h)]

Read(h, text, at) ==
    LET cell(c) == IF c.type = "Cons" THEN Cons(at[c.car], at[c.cdr]) ELSE c
    IN  [i \in Id |-> IF \E n \in DOMAIN text : at[n] = i
                      THEN cell(text[CHOOSE n \in DOMAIN text : at[n] = i]) ELSE h[i]]

-----------------------------------------------------------------------------
(* Environments. *)

BoundAt(c, name) == {i \in DOMAIN c.binds : c.binds[i].name = name}

\* create_binding: replaces the binding of this very environment, or adds one.
create_binding(h, e, name, v) ==
    LET binding == [name |-> name, value |-> v]
    IN  IF BoundAt(h[e], name) = {}
        THEN [h EXCEPT ![e].binds = Append(@, binding)]
        ELSE [h EXCEPT ![e].binds =
                [i \in DOMAIN @ |-> IF @[i].name = name THEN binding ELSE @[i]]]

\* The closest environment that binds the name, Null where none does.
Binder(h, e, name) ==
    LET up[f \in Id \cup {Null}] ==
          IF f = Null \/ BoundAt(h[f], name) # {} THEN f ELSE up[h[f].parent]
    IN  up[e]

resolve_binding(h, e, name) ==
    LET b == Binder(h, e, name)
    IN  IF b = Null THEN Null
        ELSE h[b].binds[CHOOSE i \in BoundAt(h[b], name) : TRUE].value

\* bind_names_values, bind_arguments: the names of a list in turn, and the
\* tail of an improper list of names, or a single name, takes what is left.
BindAll(h, e, names, values) ==
    LET ns == Elements(h, names)
        vs == Elements(h, values)
        bound[n \in 0 .. Len(ns)] ==
          IF n = 0 THEN h
          ELSE create_binding(bound[n - 1], e, h[ns[n]].name, vs[n])
        rest == Rest(h, names)
    IN  IF Is(h, rest, "Atom")
        THEN create_binding(bound[Len(ns)], e, h[rest].name,
                            Nthcdr(h, values, Len(ns)))
        ELSE bound[Len(ns)]

\* Too many or too few values.  The bindings made before that do not matter:
\* the environment is dropped.
Mismatch(h, names, values) ==
    \/ Pairs(h, names) > Pairs(h, values)
    \/ /\ ~Is(h, Rest(h, names), "Atom")
       /\ Pairs(h, names) < Pairs(h, values)

\* create_binding asserts that it is given a value, and the values are bound
\* before their number is known to be wrong.
NullBound(h, names, values) ==
    \E i \in 1 .. Pairs(h, names) :
      i <= Pairs(h, values) /\ Elements(h, values)[i] = Null

\* make_lambda's test of its argument specification.
ValidSpec(h, spec) ==
    \/ Is(h, spec, "Atom")
    \/ /\ Is(h, spec, "Cons")
       /\ \A i \in 1 .. Pairs(h, spec) : Is(h, Elements(h, spec)[i], "Atom")
       /\ Is(h, Rest(h, spec), "Atom") \/ Is(h, Rest(h, spec), "Nil")
=============================================================================
