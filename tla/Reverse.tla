-------------------------------- MODULE Reverse --------------------------------
(***************************************************************************)
(* The pass FunctionReverse: calls of functions named _reverse_f become    *)
(* calls of f's inverse, which is made from a copy of f: the calls in it   *)
(* are inverted, from the last to the first, and moved to the end one by   *)
(* one.  A call that the copy makes may need an inverse of its own.        *)
(*                                                                         *)
(* A function is the calls of its first basic block and those of the other *)
(* blocks; arguments, which the pass does not touch, and instructions that *)
(* are no calls are left out.  A name is the name f of the source and the  *)
(* number of times that "_Reverse" is attached to it; a call has beside it *)
(* the number of times "_reverse_" comes first.                            *)
(***************************************************************************)
EXTENDS Integers, Sequences, FiniteSets

CONSTANT Programs   \* modules: their functions in order, and the body of each

VARIABLES
    source,     \* the module before the pass
    functions,  \* the functions of the module, in order
    body,       \* their calls
    fn, pos,    \* the function and the call that the visitor is at
    building,   \* inverses being made, outermost first, with the calls left to do
    pc

vars == <<source, functions, body, fn, pos, building, pc>>

-----------------------------------------------------------------------------
(* Names.                                                                  *)

Turns == {"Rx", "Ry", "Rz"}
OtherParameter == {"PrepX", "PrepZ"}
Intrinsics ==
    {"H", "MeasX", "MeasZ", "S", "Sdag", "T", "Tdag", "X", "Y", "Z",
     "CNOT", "Toffoli", "Fredkin"} \cup Turns \cup OtherParameter

Fn(name) == [base |-> name, rev |-> 0]
Rev(f) == [base |-> f.base, rev |-> f.rev + 1]
IsIntrinsic(f) == f.rev = 0 /\ f.base \in Intrinsics

Call(f) == [to |-> f, prefix |-> 0]
Calls(b) == b.first \o b.rest

\* In a program the name of a function is not that of a gate, and no chain
\* of calls comes back to where it started.
Acyclic(p) ==
    \E level \in [DOMAIN p.body -> 0 .. Len(p.functions)] :
        \A f \in DOMAIN p.body : \A i \in DOMAIN Calls(p.body[f]) :
            LET g == Calls(p.body[f])[i].to IN
                g \in DOMAIN p.body => level[g] < level[f]

ASSUME ProgramsAssumption ==
    \A p \in Programs :
        LET names == {p.functions[i] : i \in DOMAIN p.functions}
            SomeCall == [to : [base : STRING, rev : {0}], prefix : Nat] IN
        /\ p.functions \in Seq([base : STRING, rev : {0}]) /\ p.functions # <<>>
        /\ \A i, j \in DOMAIN p.functions :
               p.functions[i] = p.functions[j] => i = j
        /\ \A f \in names : ~IsIntrinsic(f)
        /\ p.body \in [names -> [first : Seq(SomeCall), rest : Seq(SomeCall)]]
        /\ Acyclic(p)

-----------------------------------------------------------------------------
(* The table of inverses.                                                  *)

\* A rotation keeps its angle.
IntrinsicInverse(gate) ==
    CASE gate = "S" -> "Sdag" [] gate = "Sdag" -> "S"
      [] gate = "T" -> "Tdag" [] gate = "Tdag" -> "T"
      [] OTHER -> gate

InverseOf(f) == IF IsIntrinsic(f) THEN Fn(IntrinsicInverse(f.base)) ELSE Rev(f)
HasInverse(f) == IsIntrinsic(f) \/ Rev(f) \in DOMAIN body

-----------------------------------------------------------------------------
(* GetOrCreateInverseFunction.                                             *)

\* The copy goes to the end of the module.
Clone(f) ==
    /\ body' = [g \in DOMAIN body \cup {Rev(f)} |->
                   IF g = Rev(f) THEN body[f] ELSE body[g]]
    /\ functions' = Append(functions, Rev(f))
    /\ building' = Append(building, [fn |-> Rev(f), left |-> Len(body[f].first)])
    /\ UNCHANGED <<source, fn, pos, pc>>

Building == pc = "visiting" /\ building # <<>>
Top == building[Len(building)]
TopCall == body[Top.fn].first[Top.left]

\* Faulty variant: call i stays where it is.
MovedLast_stays(calls, i, c) == [calls EXCEPT ![i] = c]

\* c, which was call i, comes last.
MovedLast(calls, i, c) ==
    Append(SubSeq(calls, 1, i - 1) \o SubSeq(calls, i + 1, Len(calls)), c)

InvertCall ==
    /\ Building /\ Top.left > 0
    /\ TopCall.prefix = 0 /\ HasInverse(TopCall.to)
    /\ body' = [body EXCEPT ![Top.fn].first =
                   MovedLast(@, Top.left, Call(InverseOf(TopCall.to)))]
    /\ building' = [building EXCEPT ![Len(building)].left = @ - 1]
    /\ UNCHANGED <<source, functions, fn, pos, pc>>

CloneCallee ==
    /\ Building /\ Top.left > 0
    /\ TopCall.prefix = 0 /\ ~HasInverse(TopCall.to)
    /\ TopCall.to \in DOMAIN body
    /\ Clone(TopCall.to)

\* The callee is a function without a body, such as _reverse_g itself: its
\* copy has no first block.
CloneFails ==
    /\ Building /\ Top.left > 0
    /\ \/ TopCall.prefix > 0
       \/ ~HasInverse(TopCall.to) /\ TopCall.to \notin DOMAIN body
    /\ pc' = "crashed"
    /\ UNCHANGED <<source, functions, body, fn, pos, building>>

EndInverse ==
    /\ Building /\ Top.left = 0
    /\ building' = SubSeq(building, 1, Len(building) - 1)
    /\ UNCHANGED <<source, functions, body, fn, pos, pc>>

-----------------------------------------------------------------------------
(* visitCallInst, for each call of each function, new ones included.       *)

Visiting == pc = "visiting" /\ building = <<>>
CallsHere == Calls(body[functions[fn]])
Here == CallsHere[pos]

\* Faulty variant: the iterator is not moved on.
VisitPlain_stays ==
    /\ Visiting /\ pos <= Len(CallsHere)
    /\ Here.prefix = 0
    /\ UNCHANGED vars

VisitPlain ==
    /\ Visiting /\ pos <= Len(CallsHere)
    /\ Here.prefix = 0
    /\ pos' = pos + 1
    /\ UNCHANGED <<source, functions, body, fn, building, pc>>

\* Faulty variant: gates are not looked for.
Found_module(f) == f \in DOMAIN body

\* Without a body, but called somewhere without a prefix.
Declared(f) ==
    \E g \in DOMAIN source.body : \E i \in DOMAIN Calls(source.body[g]) :
        Calls(source.body[g])[i] = Call(f)

\* The function without the prefixes.  An intrinsic is looked for under the
\* name that it has when all its arguments are qubits; Toffoli too, as there
\* is no ToffoliImpl.
Found(f) ==
    \/ f \in DOMAIN body
    \/ ~IsIntrinsic(f) /\ Declared(f)
    \/ IsIntrinsic(f) /\ f.base \notin Turns \cup OtherParameter

WithCall(b, i, c) ==
    IF i <= Len(b.first) THEN [b EXCEPT !.first[i] = c]
    ELSE [b EXCEPT !.rest[i - Len(b.first)] = c]

ReplaceBy(f) ==
    /\ body' = [body EXCEPT ![functions[fn]] = WithCall(@, pos, Call(f))]
    /\ pos' = pos + 1
    /\ UNCHANGED <<source, functions, fn, building, pc>>

\* Faulty variant: every prefix asks for the inverse.
Odd_always(n) == TRUE

Odd(n) == n % 2 = 1

VisitReverse ==
    /\ Visiting /\ pos <= Len(CallsHere)
    /\ Here.prefix > 0 /\ Found(Here.to)
    /\ \/ ~Odd(Here.prefix) /\ ReplaceBy(Here.to)
       \/ Odd(Here.prefix) /\ HasInverse(Here.to) /\ ReplaceBy(InverseOf(Here.to))
       \/ /\ Odd(Here.prefix) /\ ~HasInverse(Here.to)
          /\ Here.to \in DOMAIN body
          /\ Clone(Here.to)

\* After the message the null pointer is used; or there is no body to copy.
VisitUnknown ==
    /\ Visiting /\ pos <= Len(CallsHere)
    /\ Here.prefix > 0
    /\ \/ ~Found(Here.to)
       \/ Odd(Here.prefix) /\ ~HasInverse(Here.to) /\ Here.to \notin DOMAIN body
    /\ pc' = "crashed"
    /\ UNCHANGED <<source, functions, body, fn, pos, building>>

\* Faulty variant: the number of functions before the walk.
Walked_before == Len(source.functions)

\* The walk takes in what is appended on the way.
Walked == Len(functions)

NextFunction ==
    /\ Visiting /\ pos > Len(CallsHere)
    /\ IF fn < Walked THEN fn' = fn + 1 /\ pos' = 1 /\ pc' = pc
       ELSE pc' = "done" /\ UNCHANGED <<fn, pos>>
    /\ UNCHANGED <<source, functions, body, building>>

-----------------------------------------------------------------------------
Init ==
    /\ source \in Programs
    /\ functions = source.functions
    /\ body = source.body
    /\ fn = 1 /\ pos = 1
    /\ building = <<>>
    /\ pc = "visiting"

Ended == pc \in {"done", "crashed"} /\ UNCHANGED vars

Next ==
    \/ VisitPlain \/ VisitReverse \/ VisitUnknown \/ NextFunction
    \/ InvertCall \/ CloneCallee \/ CloneFails \/ EndInverse
    \/ Ended

Spec == Init /\ [][Next]_vars
FairSpec == Spec /\ WF_vars(Next)

-----------------------------------------------------------------------------
(* Safety.                                                                 *)

\* What becomes of a call in an inverse.
Inverted(c) == Call(InverseOf(c.to))

\* An inverse that is not being made any more has the inverted calls of its
\* function in reverse order, also where the function was visited, or had
\* its inverse made, after that.
MirrorsCalls ==
    \A f \in DOMAIN body :
        LET b == body[f].first
            r == body[Rev(f)].first IN
        (Rev(f) \in DOMAIN body /\ \A k \in DOMAIN building : building[k].fn # Rev(f)) =>
            /\ Len(r) = Len(b)
            /\ \A i \in DOMAIN b : r[i] = Inverted(b[Len(b) + 1 - i])

\* In the end nothing is left to replace, also in the copies made on the
\* way, and every function that is called has a body.
AllReplaced ==
    pc = "done" =>
        \A f \in DOMAIN body : \A i \in DOMAIN Calls(body[f]) :
            LET c == Calls(body[f])[i] IN
                c.prefix = 0 /\ (c.to.rev > 0 => c.to \in DOMAIN body)

\* Functions are defined before they are used, and known.
InOrder ==
    \A i \in DOMAIN source.functions :
        LET calls == Calls(source.body[source.functions[i]]) IN
        \A k \in DOMAIN calls :
            \/ IsIntrinsic(calls[k].to)
               /\ (calls[k].prefix = 0 \/ calls[k].to.base \notin Turns \cup OtherParameter)
            \/ \E j \in DOMAIN source.functions :
                   j < i /\ calls[k].to = source.functions[j]

\* Then the pass gets through.
NoCrash == InOrder => pc # "crashed"

-----------------------------------------------------------------------------
(* Liveness.                                                               *)

\* The inverses of inverses come to an end.
PassStops == <>(pc \in {"done", "crashed"})
=============================================================================
