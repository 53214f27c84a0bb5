------------------------------- MODULE MCReverse -------------------------------
(* Instances of Reverse for TLC.                                           *)
EXTENDS ReverseMeaning

reverse(n, name) == [to |-> Fn(name), prefix |-> n]
call(name) == reverse(0, name)

Body(first, rest) == [first |-> first, rest |-> rest]
Module(order, a, b, main) ==
    [functions |-> [i \in 1 .. 3 |-> Fn(order[i])],
     body |-> [f \in {Fn("a"), Fn("b"), Fn("main")} |->
                  CASE f.base = "a" -> a [] f.base = "b" -> b [] OTHER -> main]]

Orders == {o \in [1 .. 3 -> {"a", "b", "main"}] : {o[i] : i \in 1 .. 3} = {"a", "b", "main"}}

\* main and b call a, main calls b, with and without prefixes and in any order
\* of the functions; blocks after the first in a, b and main.
MCPrograms ==
    {Module(o, Body(<<call("T"), call("H")>>, r), Body(<<c, d>>, s), Body(<<e, f>>, t)) :
        o \in Orders,
        r \in {<<>>, <<call("S")>>},
        c \in {call("S"), call("a"), reverse(1, "a")},
        d \in {call("T"), call("a"), reverse(1, "T"), call("extern")},
        s \in {<<>>, <<reverse(1, "a")>>},
        e \in {reverse(1, "b"), reverse(2, "b"), reverse(1, "a")},
        f \in {call("b"), reverse(1, "b"), reverse(3, "b"), reverse(1, "Rz"), reverse(1, "gone"),
               reverse(1, "extern"), reverse(2, "extern")},
        t \in {<<>>, <<reverse(1, "a")>>}}
================================================================================
