------------------------------- MODULE Frequency -------------------------------
(***************************************************************************)
(* How often each quantum module runs.  The pass                           *)
(* llvm/lib/Transforms/Scaffold/RuntimeFrequencyEstimationHybrid.cpp puts  *)
(* calls of memoize and exit_scope, defined in                             *)
(* scripts/frequency-estimation-hybrid.c, around the calls of quantum      *)
(* modules.  A loop of quantum calls was rolled up by DynRollupLoops: its  *)
(* body runs once, between qasmRepLoopStart, which tells the number of     *)
(* rounds, and qasmRepLoopEnd.                                             *)
(*                                                                         *)
(* A program is a list of modules, main() first, each with the calls and   *)
(* markers of its body.  A double is a pair: its six upper bytes and its   *)
(* two lower ones.                                                         *)
(***************************************************************************)
EXTENDS Integers, Sequences, FiniteSets, FiniteSetsExt

CONSTANTS
    Programs,           \* programs to count
    MAX_CALL_DEPTH,     \* entries of the stack (16)
    Word                \* number of values of a 64-bit count

\* Bodies are sequences.  A call of an earlier module would be a recursion,
\* which has no count.  Markers come in pairs.
WellFormed(p) ==
    /\ Len(p) \in Nat \ {0} /\ DOMAIN p = 1 .. Len(p)
    /\ \A m \in DOMAIN p :
        /\ p[m].quantum \in BOOLEAN
        /\ Len(p[m].body) \in Nat /\ DOMAIN p[m].body = 1 .. Len(p[m].body)
        /\ \A i \in DOMAIN p[m].body :
            LET item == p[m].body[i] IN
                \/ /\ item.kind = "call"
                   /\ item.callee \in {c \in DOMAIN p : m < c}
                   /\ item.ints \in Seq(Int) /\ Len(item.ints) <= 4
                   /\ item.doubles \in Seq(Int \X Int) /\ Len(item.doubles) <= 4
                \/ /\ item.kind = "start" /\ item.n \in Nat
                   /\ \E j \in i + 1 .. Len(p[m].body) :
                        /\ p[m].body[j].kind = "end"
                        /\ \A k \in i + 1 .. j - 1 : p[m].body[k].kind = "call"
                \/ item.kind = "end"

ASSUME ProgramsAssumption == \A p \in Programs : WellFormed(p)
ASSUME BoundsAssumption == MAX_CALL_DEPTH \in Nat \ {0} /\ Word \in Nat \ {0, 1}

VARIABLES
    program,    \* the program being run
    frames,     \* its activations, main's first
    contents,   \* resourcesStack
    memos,      \* count of each entry of the hash table
    status      \* running, over, or stopped with the stack full

vars == <<program, frames, contents, memos, status>>

-----------------------------------------------------------------------------
(* The pass.                                                               *)

\* Modules whose body it visits: those with a qubit among their parameters,
\* and main.
Visited(m) == m = 1 \/ program[m].quantum

\* Faulty variant: no reset at the end of a loop.
rep_val_sticky(m, i) ==
    LET body == program[m].body
        set == {j \in 1 .. i - 1 : body[j].kind = "start"} IN
    IF set # {} THEN body[Max(set)].n ELSE 1

\* rep_val at item i of module m: what the last marker before it set.
rep_val(m, i) ==
    LET body == program[m].body
        set == {j \in 1 .. i - 1 : body[j].kind \in {"start", "end"}} IN
    IF set # {} /\ body[Max(set)].kind = "start" THEN body[Max(set)].n ELSE 1

Item(f) == program[f.mod].body[f.at]
Left(f) == f.at <= Len(program[f.mod].body)

\* Calls that memoize and exit_scope enclose.
Instrumented(f) == Visited(f.mod) /\ program[Item(f).callee].quantum

-----------------------------------------------------------------------------
(* The hash table.                                                         *)

\* keylen is the sum of the sizes of the fields, while the fields are
\* aligned: of the fourth double, the last six bytes lie behind it.
Key(call) ==
    [name |-> call.callee, ints |-> call.ints,
     doubles |-> [i \in DOMAIN call.doubles |->
                    IF i < 4 THEN call.doubles[i] ELSE <<0, call.doubles[i][2]>>]]

mainKey == [name |-> 1, ints |-> <<>>, doubles |-> <<>>]

\* The product of all entries but the first.
product(s) ==
    LET above[k \in 1 .. Len(s)] == IF k = 1 THEN 1 ELSE (above[k - 1] * s[k]) % Word
    IN  above[Len(s)]

\* Faulty variant: a hit does not count the rounds of the calls around it.
memoized_once(key, repeat) ==
    LET count == (repeat * product(contents)) % Word IN
    [k \in DOMAIN memos \cup {key} |->
        IF k # key THEN memos[k]
        ELSE IF key \in DOMAIN memos THEN (memos[key] + repeat) % Word
        ELSE count]

\* The table after memoize(key, repeat): a new entry or more for an old one.
memoized(key, repeat) ==
    LET count == (repeat * product(contents)) % Word IN
    [k \in DOMAIN memos \cup {key} |->
        IF k # key THEN memos[k]
        ELSE IF key \in DOMAIN memos THEN (memos[key] + count) % Word
        ELSE count]

-----------------------------------------------------------------------------
(* The instrumented program.                                               *)

Current == frames[Len(frames)]
Advanced == [frames EXCEPT ![Len(frames)].at = @ + 1]
Entered(tracked) ==
    Append(Advanced, [mod |-> Item(Current).callee, at |-> 1, tracked |-> tracked])

\* qasm_initialize.
Init ==
    /\ program \in Programs
    /\ frames = <<[mod |-> 1, at |-> 1, tracked |-> FALSE]>>
    /\ contents = <<1>>
    /\ memos = [k \in {mainKey} |-> 1]
    /\ status = "running"

\* The markers were calls that the pass removed.
Marker ==
    /\ status = "running" /\ Left(Current)
    /\ Item(Current).kind \in {"start", "end"}
    /\ frames' = Advanced
    /\ UNCHANGED <<program, contents, memos, status>>

\* The test of stackPush.
Room == Len(contents) < MAX_CALL_DEPTH

Calling == status = "running" /\ Left(Current) /\ Item(Current).kind = "call"

repeat == rep_val(Current.mod, Current.at)

\* memoize and the call: the module itself runs each time, memoized or not.
Call ==
    /\ Calling /\ Instrumented(Current)
    /\ Room
    /\ memos' = memoized(Key(Item(Current)), repeat)
    /\ contents' = Append(contents, repeat)
    /\ frames' = Entered(TRUE)
    /\ UNCHANGED <<program, status>>

\* stackPush: "Stack is full", and the program exits.
StackFull ==
    /\ Calling /\ Instrumented(Current)
    /\ ~Room
    /\ memos' = memoized(Key(Item(Current)), repeat)
    /\ status' = "full"
    /\ UNCHANGED <<program, frames, contents>>

CallUntracked ==
    /\ Calling /\ ~Instrumented(Current)
    /\ frames' = Entered(FALSE)
    /\ UNCHANGED <<program, contents, memos, status>>

\* Faulty variant: only main's calls leave their scope.
exit_scope_main ==
    IF Current.tracked /\ Len(frames) = 2 THEN SubSeq(contents, 1, Len(contents) - 1)
    ELSE contents

exit_scope ==
    IF Current.tracked THEN SubSeq(contents, 1, Len(contents) - 1) ELSE contents

\* The end of a module.
Return ==
    /\ status = "running" /\ ~Left(Current) /\ Len(frames) > 1
    /\ contents' = exit_scope
    /\ frames' = SubSeq(frames, 1, Len(frames) - 1)
    /\ UNCHANGED <<program, memos, status>>

\* The end of main, and qasm_resource_summary.
Summary ==
    /\ status = "running" /\ ~Left(Current) /\ Len(frames) = 1
    /\ status' = "over"
    /\ UNCHANGED <<program, frames, contents, memos>>

Ended == status # "running" /\ UNCHANGED vars

Next ==
    \/ Marker \/ Call \/ StackFull \/ CallUntracked \/ Return \/ Summary
    \/ Ended

Spec == Init /\ [][Next]_vars
FairSpec == Spec /\ WF_vars(Next)

-----------------------------------------------------------------------------
(* What the counts should be: the original program runs the calls of a     *)
(* loop once in every round.                                               *)

At(site) == program[site[1]].body[site[2]]

CallSites ==
    UNION {{<<m, i>> : i \in {j \in DOMAIN program[m].body : program[m].body[j].kind = "call"}} :
           m \in DOMAIN program}

\* Rounds of the loop around a call: one if it is in no loop.
Rounds(site) ==
    LET body == program[site[1]].body
        Around(j) == /\ j < site[2] /\ body[j].kind = "start"
                     /\ \A k \in j .. site[2] : body[k].kind # "end" IN
    IF \E j \in DOMAIN body : Around(j)
    THEN body[CHOOSE j \in DOMAIN body : Around(j)].n
    ELSE 1

\* How often calls are made, if their modules run so often.
CallsMade(runs, sites) == MapThenSumSet(LAMBDA s : runs[s[1]] * Rounds(s), sites)

\* How often each module runs in all; it is called by earlier ones only.
Runs ==
    LET runs[m \in DOMAIN program] ==
            IF m = 1 THEN 1
            ELSE CallsMade(runs, {s \in CallSites : At(s).callee = m})
    IN  runs

\* How often a module runs with the arguments of this call.
Invocations(site) ==
    CallsMade(Runs, {s \in CallSites : /\ At(s).callee = At(site).callee
                                       /\ At(s).ints = At(site).ints
                                       /\ At(s).doubles = At(site).doubles})

Count(k) == IF k \in DOMAIN memos THEN memos[k] ELSE 0

\* All modules take qubits, so that every call is instrumented.
AllQuantum == \A m \in 2 .. Len(program) : program[m].quantum

\* Of a fourth double the key has the first two bytes only.
FewDoubles == \A s \in CallSites : Len(At(s).doubles) < 4

-----------------------------------------------------------------------------
(* Properties.                                                             *)

\* The summary tells of every module and its arguments how often it runs
\* (modulo 2^64), however calls, loops and repeated entries mix.
CountsAreInvocations ==
    (status = "over" /\ AllQuantum /\ FewDoubles) =>
        \A s \in CallSites : Count(Key(At(s))) = Invocations(s) % Word

\* At any time the stack holds, above main's entry, the rounds of each
\* instrumented call that is active, outermost first.  Each memoize has its
\* exit_scope, through calls that are not instrumented too.
StackMatchesCalls ==
    LET tracked == {k \in DOMAIN frames : frames[k].tracked} IN
        /\ Len(contents) = Cardinality(tracked) + 1
        /\ contents[1] = 1
        /\ \A k \in tracked :
              contents[1 + Cardinality({j \in tracked : j <= k})]
                 = Rounds(<<frames[k - 1].mod, frames[k - 1].at - 1>>)

\* Programs with fewer nested calls than the stack has entries get their
\* summary: nothing is left behind on the stack that would fill it.
Depth ==
    LET below[m \in DOMAIN program] ==
            Max({0} \cup {1 + below[At(s).callee] : s \in {t \in CallSites : t[1] = m}})
    IN  below[1]

ShallowProgramsCounted == (Depth < MAX_CALL_DEPTH) ~> (status = "over")
=============================================================================
