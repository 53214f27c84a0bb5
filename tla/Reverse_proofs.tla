-------------------------- MODULE Reverse_proofs --------------------------
(***************************************************************************)
(* Proofs about Reverse and ReverseMeaning, for any module: an inverse     *)
(* mirrors its function, nothing is left to replace, in a module whose     *)
(* functions are defined before they are used the pass gets through, and   *)
(* functions whose inverses have one basic block do what the source says.  *)
(***************************************************************************)
EXTENDS ReverseMeaning, WellFoundedInduction, TLAPS

-----------------------------------------------------------------------------
(* The inductive invariant.                                                *)

Names == [base : STRING \cup Intrinsics, rev : Nat]
SomeCall == [to : Names, prefix : Nat]
Bodies == [first : Seq(SomeCall), rest : Seq(SomeCall)]
Listed == {functions[i] : i \in DOMAIN functions}

Types ==
    /\ source \in Programs
    /\ functions \in Seq(Names)
    /\ body \in [Listed -> Bodies]
    /\ fn \in 1 .. Len(functions) /\ pos \in Nat \ {0}
    /\ building \in Seq([fn : Names, left : Nat])
    /\ pc \in {"visiting", "done", "crashed"}

\* How far a function is from the bottom of the chains of calls.
Leveled(l) ==
    /\ l \in [DOMAIN source.body -> 0 .. Len(source.functions)]
    /\ \A f \in DOMAIN source.body : \A i \in DOMAIN Calls(source.body[f]) :
           LET g == Calls(source.body[f])[i].to IN
               g \in DOMAIN source.body => l[g] < l[f]
level == CHOOSE l \in [DOMAIN source.body -> 0 .. Len(source.functions)] : Leveled(l)
Depth(f) == level[Fn(f.base)]

\* The inverses come from functions of the module.
Origins ==
    /\ \A f \in DOMAIN body : Fn(f.base) \in DOMAIN source.body
    /\ \A f \in Names : Rev(f) \in DOMAIN body => f \in DOMAIN body

CallsDown ==
    \A f \in DOMAIN body : \A i \in DOMAIN body[f].first :
        LET g == body[f].first[i].to IN
            Fn(g.base) \in DOMAIN source.body => Depth(g) < Depth(f)

\* r is b with all calls but the first n inverted and moved to the end.
Turned(b, r, n) ==
    /\ Len(r) = Len(b) /\ n <= Len(b)
    /\ \A i \in 1 .. Len(b) :
           IF i <= n THEN r[i] = b[i]
           ELSE b[i].prefix = 0 /\ r[n + Len(b) + 1 - i] = Inverted(b[i])

\* Inverses that are being made: each further down than the one before, so
\* that none is copied half-made.
Frames ==
    /\ \A k \in DOMAIN building :
          LET e == building[k] IN
          /\ e.fn \in DOMAIN body /\ Rev(e.fn) \notin DOMAIN body
          /\ \E f \in DOMAIN body :
                 e.fn = Rev(f) /\ Turned(body[f].first, body[e.fn].first, e.left)
    /\ \A j, k \in DOMAIN building :
          j < k => Depth(building[k].fn) < Depth(building[j].fn)

\* The others.
Made ==
    \A f \in DOMAIN body :
        Rev(f) \in DOMAIN body /\ (\A k \in DOMAIN building : building[k].fn # Rev(f)) =>
            Turned(body[f].first, body[Rev(f)].first, 0)

RInv == Types /\ Origins /\ CallsDown /\ Frames /\ Made

-----------------------------------------------------------------------------
(* The invariant of the walk.                                              *)

PrefixFree(f) == \A k \in DOMAIN Calls(body[f]) : Calls(body[f])[k].prefix = 0

\* What the visitor has passed stays without prefixes: what changes in other
\* ways comes after it.
Replaced ==
    /\ \A f \in DOMAIN body : \A k \in DOMAIN Calls(body[f]) :
           Calls(body[f])[k].to.rev > 0 => Calls(body[f])[k].to \in DOMAIN body
    /\ \A i \in 1 .. fn - 1 : PrefixFree(functions[i])
    /\ \A k \in DOMAIN Calls(body[functions[fn]]) :
           k < pos => Calls(body[functions[fn]])[k].prefix = 0
    /\ \A k \in DOMAIN building, i \in 1 .. fn : building[k].fn # functions[i]
    /\ pc = "done" => /\ building = <<>> /\ fn = Len(functions)
                      /\ pos > Len(Calls(body[functions[fn]]))

\* Where the module defines the function that f comes from.
Place(f) == CHOOSE i \in DOMAIN source.functions : source.functions[i] = Fn(f.base)

\* A call in f that the pass can deal with.
Fits(f, c) ==
    \/ IsIntrinsic(c.to) /\ (c.prefix = 0 \/ c.to.base \notin Turns \cup OtherParameter)
    \/ c.to \in DOMAIN body /\ Place(c.to) < Place(f)

\* Only functions that the visitor has passed are copied.
Ordered ==
    /\ Len(source.functions) <= Len(functions)
    /\ \A i \in DOMAIN functions :
           IF i <= Len(source.functions) THEN functions[i] = source.functions[i]
           ELSE functions[i].rev > 0
    /\ \A f \in DOMAIN body : \A k \in DOMAIN Calls(body[f]) : Fits(f, Calls(body[f])[k])
    /\ \A f \in DOMAIN body : f.rev > 0 => PrefixFree(f) /\ Place(f) < fn
    /\ pc # "crashed"


-----------------------------------------------------------------------------
(* Names, levels and lists of calls.                                       *)

LEMMA RevFacts ==
    ASSUME NEW f \in Names
    PROVE  /\ Rev(f) \in Names /\ Rev(f).base = f.base /\ Rev(f).rev = f.rev + 1
           /\ Rev(f) # f /\ ~IsIntrinsic(Rev(f))
           /\ \A g \in Names : Rev(f) = Rev(g) => f = g
BY DEF Names, Rev, IsIntrinsic

\* What the assumption says of the module at hand.
LEMMA SourceFacts ==
    ASSUME source \in Programs
    PROVE  LET names == {source.functions[i] : i \in DOMAIN source.functions} IN
           /\ source.functions \in Seq([base : STRING, rev : {0}])
           /\ source.functions # <<>>
           /\ \A i, j \in DOMAIN source.functions :
                  source.functions[i] = source.functions[j] => i = j
           /\ DOMAIN source.body = names
           /\ \A f \in names : f \in [base : STRING, rev : {0}] /\ ~IsIntrinsic(f)
           /\ source.body \in [names -> [first : Seq([to : [base : STRING, rev : {0}], prefix : Nat]),
                                        rest : Seq([to : [base : STRING, rev : {0}], prefix : Nat])]]
           /\ Acyclic(source)
<1> DEFINE names == {source.functions[i] : i \in DOMAIN source.functions}
<1>1. /\ source.functions \in Seq([base : STRING, rev : {0}])
      /\ source.functions # <<>>
      /\ \A i, j \in DOMAIN source.functions :
             source.functions[i] = source.functions[j] => i = j
      /\ \A f \in names : ~IsIntrinsic(f)
      /\ source.body \in [names -> [first : Seq([to : [base : STRING, rev : {0}], prefix : Nat]),
                                   rest : Seq([to : [base : STRING, rev : {0}], prefix : Nat])]]
      /\ Acyclic(source)
    BY ProgramsAssumption
<1>2. \A f \in names : f \in [base : STRING, rev : {0}]
  <2> DEFINE s == source.functions
             T == [base : STRING, rev : {0}]
  <2>1. s \in Seq(T)
      BY <1>1
  <2> HIDE DEF s, T
  <2>2. \A i \in DOMAIN s : s[i] \in T
      BY <2>1
  <2> QED
      BY <2>2 DEF s, T
<1> QED
    BY <1>1, <1>2

LEMMA LevelFacts ==
    ASSUME source \in Programs
    PROVE  Leveled(level)
<1>1. Acyclic(source)
    BY SourceFacts
<1>2. \E l \in [DOMAIN source.body -> 0 .. Len(source.functions)] : Leveled(l)
    BY <1>1, Zenon DEF Acyclic, Leveled
<1> QED
    BY <1>2, Zenon DEF level

LEMMA DepthIsNat ==
    ASSUME source \in Programs, NEW f, Fn(f.base) \in DOMAIN source.body
    PROVE  Depth(f) \in Int
<1>1. level \in [DOMAIN source.body -> 0 .. Len(source.functions)]
    BY LevelFacts DEF Leveled
<1>2. Len(source.functions) \in Nat
    BY SourceFacts
<1> QED
    BY <1>1, <1>2 DEF Depth

\* The inverse of a gate is a gate, and no function of the module.
LEMMA InverseFacts ==
    ASSUME NEW f \in Names
    PROVE  /\ InverseOf(f) \in Names
           /\ IsIntrinsic(f) => IsIntrinsic(InverseOf(f))
           /\ ~IsIntrinsic(f) => InverseOf(f) = Rev(f)
<1>1. CASE IsIntrinsic(f)
  <2>0. f.base \in Intrinsics
      BY <1>1 DEF IsIntrinsic
  <2>a. IntrinsicInverse(f.base) \in {"S", "Sdag", "T", "Tdag", f.base}
      BY DEF IntrinsicInverse
  <2>b. {"S", "Sdag", "T", "Tdag"} \subseteq Intrinsics
      BY DEF Intrinsics
  <2>1. IntrinsicInverse(f.base) \in Intrinsics
      BY <2>0, <2>a, <2>b
  <2> QED
      BY <1>1, <2>1 DEF InverseOf, IsIntrinsic, Fn, Names
<1>2. CASE ~IsIntrinsic(f)
    BY <1>2, RevFacts DEF InverseOf
<1> QED
    BY <1>1, <1>2

LEMMA DomainIs ==
    ASSUME NEW S, NEW s \in Seq(S)
    PROVE  DOMAIN s = 1 .. Len(s) /\ Len(s) \in Nat
OBVIOUS

LEMMA CallsFacts ==
    ASSUME NEW b \in Bodies
    PROVE  /\ Calls(b) \in Seq(SomeCall) /\ Len(Calls(b)) = Len(b.first) + Len(b.rest)
           /\ b.first \in Seq(SomeCall) /\ b.rest \in Seq(SomeCall)
           /\ Len(b.first) \in Nat /\ Len(b.rest) \in Nat
           /\ \A i \in 1 .. Len(b.first) + Len(b.rest) :
                  Calls(b)[i] = IF i <= Len(b.first) THEN b.first[i]
                                ELSE b.rest[i - Len(b.first)]
BY DEF Bodies, Calls

LEMMA FirstCalls ==
    ASSUME NEW b \in Bodies, NEW i \in DOMAIN b.first
    PROVE  i \in DOMAIN Calls(b) /\ Calls(b)[i] = b.first[i]
<1> DEFINE x == b.first
           y == Calls(b)
<1>1. x \in Seq(SomeCall) /\ y \in Seq(SomeCall) /\ Len(y) = Len(x) + Len(b.rest)
    BY CallsFacts
<1>2. Len(b.rest) \in Nat
    BY CallsFacts
<1>3. \A k \in 1 .. Len(x) + Len(b.rest) : y[k] = IF k <= Len(x) THEN x[k] ELSE b.rest[k - Len(x)]
    BY CallsFacts
<1>4. i \in DOMAIN x
    OBVIOUS
<1> HIDE DEF x, y
<1>5. /\ DOMAIN x = 1 .. Len(x) /\ DOMAIN y = 1 .. Len(y) /\ Len(x) \in Nat
    BY <1>1
<1>6. i \in 1 .. Len(x) + Len(b.rest) /\ i <= Len(x)
    BY <1>2, <1>4, <1>5
<1>7. i \in DOMAIN y /\ y[i] = x[i]
    BY <1>1, <1>3, <1>5, <1>6
<1> QED
    BY <1>7 DEF x, y

LEMMA MovedFacts ==
    ASSUME NEW s \in Seq(SomeCall), NEW i \in 1 .. Len(s), NEW c \in SomeCall
    PROVE  /\ MovedLast(s, i, c) \in Seq(SomeCall)
           /\ Len(MovedLast(s, i, c)) = Len(s)
           /\ \A k \in 1 .. Len(s) :
                  MovedLast(s, i, c)[k] = IF k < i THEN s[k]
                                          ELSE IF k < Len(s) THEN s[k + 1] ELSE c
<1> DEFINE a == SubSeq(s, 1, i - 1)
           b == SubSeq(s, i + 1, Len(s))
<1>1. a \in Seq(SomeCall) /\ Len(a) = i - 1 /\ \A k \in 1 .. i - 1 : a[k] = s[k]
    OBVIOUS
<1>2. b \in Seq(SomeCall) /\ Len(b) = Len(s) - i
      /\ \A k \in 1 .. Len(s) - i : b[k] = s[i + k]
    OBVIOUS
<1> HIDE DEF a, b
<1> DEFINE ab == a \o b
<1>3. ab \in Seq(SomeCall) /\ Len(ab) = Len(s) - 1
      /\ \A k \in 1 .. Len(s) - 1 : ab[k] = IF k < i THEN s[k] ELSE s[k + 1]
  <2>0. a \in Seq(SomeCall) /\ b \in Seq(SomeCall) /\ Len(a) + Len(b) = Len(s) - 1
      BY <1>1, <1>2
  <2>1. ab \in Seq(SomeCall) /\ Len(ab) = Len(s) - 1
      BY <2>0
  <2>2. ASSUME NEW k \in 1 .. i - 1 PROVE ab[k] = s[k]
      BY <1>1, <1>2
  <2>3. ASSUME NEW k \in i .. Len(s) - 1 PROVE ab[k] = s[k + 1]
    <3>1. k - (i - 1) \in 1 .. Len(s) - i /\ i + (k - (i - 1)) = k + 1
        OBVIOUS
    <3>2. ab[k] = b[k - (i - 1)]
        BY <1>1, <1>2, <3>1
    <3> QED
        BY <1>2, <3>1, <3>2
  <2> QED
      BY <2>1, <2>2, <2>3
<1>4. MovedLast(s, i, c) = Append(ab, c)
    BY DEF MovedLast, a, b
<1> HIDE DEF ab
<1> QED
    BY <1>3, <1>4

LEMMA WithCallFacts ==
    ASSUME NEW b \in Bodies, NEW i \in 1 .. Len(Calls(b)), NEW c \in SomeCall
    PROVE  /\ WithCall(b, i, c) \in Bodies
           /\ Len(WithCall(b, i, c).first) = Len(b.first)
           /\ Len(Calls(WithCall(b, i, c))) = Len(Calls(b))
           /\ \A k \in 1 .. Len(Calls(b)) :
                  Calls(WithCall(b, i, c))[k] = IF k = i THEN c ELSE Calls(b)[k]
           /\ \A k \in 1 .. Len(b.first) :
                  WithCall(b, i, c).first[k] = IF k = i THEN c ELSE b.first[k]
           /\ i > Len(b.first) => WithCall(b, i, c).first = b.first
<1> DEFINE x == b.first
           y == b.rest
           w == WithCall(b, i, c)
<1>1. /\ x \in Seq(SomeCall) /\ y \in Seq(SomeCall)
      /\ Len(x) \in Nat /\ Len(y) \in Nat /\ Len(Calls(b)) = Len(x) + Len(y)
      /\ \A k \in 1 .. Len(x) + Len(y) : Calls(b)[k] = IF k <= Len(x) THEN x[k] ELSE y[k - Len(x)]
    BY CallsFacts
<1>2. PICK u \in Seq(SomeCall), v \in Seq(SomeCall) :
            /\ w = [first |-> u, rest |-> v]
            /\ Len(u) = Len(x) /\ Len(v) = Len(y)
            /\ \A k \in 1 .. Len(x) : u[k] = IF k = i THEN c ELSE x[k]
            /\ \A k \in 1 .. Len(y) : v[k] = IF Len(x) + k = i THEN c ELSE y[k]
            /\ i > Len(x) => u = x
  <2>0. b = [first |-> x, rest |-> y]
      BY DEF Bodies
  <2> HIDE DEF x, y
  <2>1. CASE i <= Len(x)
    <3> DEFINE u == [x EXCEPT ![i] = c]
    <3>1. w = [first |-> u, rest |-> y]
        BY <2>0, <2>1 DEF WithCall
    <3>2. u \in Seq(SomeCall) /\ Len(u) = Len(x)
          /\ \A k \in 1 .. Len(x) : u[k] = IF k = i THEN c ELSE x[k]
        BY <1>1, <2>1
    <3>3. \A k \in 1 .. Len(y) : Len(x) + k # i
        BY <1>1, <2>1
    <3>4. ~(i > Len(x))
        BY <1>1, <2>1
    <3> HIDE DEF u
    <3> u \in Seq(SomeCall) /\ y \in Seq(SomeCall)
        BY <1>1, <3>2
    <3> WITNESS u \in Seq(SomeCall), y \in Seq(SomeCall)
    <3> QED
        BY <3>1, <3>2, <3>3, <3>4
  <2>2. CASE i > Len(x)
    <3> DEFINE m == i - Len(x)
               v == [y EXCEPT ![m] = c]
    <3>0. /\ m \in 1 .. Len(y) /\ ~(i <= Len(x))
          /\ \A k \in 1 .. Len(y) : (Len(x) + k = i) <=> (k = m)
      <4>1. i \in Int /\ i <= Len(x) + Len(y) /\ Len(x) \in Nat /\ Len(y) \in Nat
          BY <1>1
      <4> QED
          BY <2>2, <4>1
    <3>1. w = [first |-> x, rest |-> v]
        BY <2>0, <3>0 DEF WithCall
    <3> HIDE DEF m
    <3>2. v \in Seq(SomeCall) /\ Len(v) = Len(y)
          /\ \A k \in 1 .. Len(y) : v[k] = IF k = m THEN c ELSE y[k]
        BY <1>1, <3>0
    <3>3. \A k \in 1 .. Len(x) : k # i
        BY <1>1, <2>2
    <3> QED
        BY <1>1, <3>0, <3>1, <3>2, <3>3
  <2> QED
      BY <1>1, <2>1, <2>2
<1> HIDE DEF x, y, w
<1>3. w \in Bodies /\ w.first = u /\ w.rest = v
    BY <1>2 DEF Bodies
<1>4. Len(Calls(w)) = Len(Calls(b))
    BY <1>1, <1>2, <1>3, CallsFacts
<1>5. ASSUME NEW k \in 1 .. Len(Calls(b))
      PROVE  Calls(w)[k] = IF k = i THEN c ELSE Calls(b)[k]
  <2>0. k \in 1 .. Len(w.first) + Len(w.rest) /\ Len(w.first) = Len(x)
      BY <1>1, <1>2, <1>3
  <2>1. Calls(w)[k] = IF k <= Len(x) THEN u[k] ELSE v[k - Len(x)]
      BY <1>3, <2>0, CallsFacts
  <2>2. CASE k <= Len(x)
      BY <1>1, <1>2, <2>1, <2>2
  <2>3. CASE k > Len(x)
    <3> DEFINE j == k - Len(x)
    <3>1. /\ j \in 1 .. Len(y) /\ Len(x) + j = k /\ ~(k <= Len(x))
          /\ k \in 1 .. Len(x) + Len(y)
        BY <1>1, <2>3
    <3>2. Calls(w)[k] = v[j] /\ Calls(b)[k] = y[j]
        BY <1>1, <2>1, <3>1
    <3> HIDE DEF j
    <3>3. v[j] = IF Len(x) + j = i THEN c ELSE y[j]
        BY <1>2, <3>1
    <3> QED
        BY <3>1, <3>2, <3>3
  <2> QED
      BY <1>1, <2>2, <2>3
<1> QED
    BY <1>1, <1>2, <1>3, <1>4, <1>5 DEF w, x

-----------------------------------------------------------------------------
(* Turning.                                                                *)

LEMMA TurnedAtStart ==
    ASSUME NEW b \in Seq(SomeCall)
    PROVE  Turned(b, b, Len(b))
BY DEF Turned

LEMMA TurnedStep ==
    ASSUME NEW b \in Seq(SomeCall), NEW r \in Seq(SomeCall), NEW n \in Nat, n > 0,
           Turned(b, r, n), r[n].prefix = 0, Inverted(r[n]) \in SomeCall
    PROVE  Turned(b, MovedLast(r, n, Inverted(r[n])), n - 1)
<1> DEFINE c == Inverted(r[n])
           s == MovedLast(r, n, c)
<1>1. Len(r) = Len(b) /\ n \in 1 .. Len(r) /\ Len(b) \in Nat
    BY DEF Turned
<1>2. Len(s) = Len(r)
      /\ \A k \in 1 .. Len(r) : s[k] = IF k < n THEN r[k] ELSE IF k < Len(r) THEN r[k + 1] ELSE c
    BY <1>1, MovedFacts
<1>3. r[n] = b[n]
    BY <1>1 DEF Turned
<1> HIDE DEF s
<1>4. ASSUME NEW i \in 1 .. Len(b), i <= n - 1 PROVE s[i] = b[i]
    BY <1>1, <1>2, <1>4 DEF Turned
<1>5. ASSUME NEW i \in 1 .. Len(b), i > n
      PROVE  b[i].prefix = 0 /\ s[n - 1 + Len(b) + 1 - i] = Inverted(b[i])
  <2>1. b[i].prefix = 0 /\ r[n + Len(b) + 1 - i] = Inverted(b[i])
      BY <1>5 DEF Turned
  <2> DEFINE k == n - 1 + Len(b) + 1 - i
  <2>2. k \in 1 .. Len(r) /\ k >= n /\ k < Len(r) /\ k + 1 = n + Len(b) + 1 - i
      BY <1>1, <1>5
  <2>3. s[k] = r[k + 1]
      BY <1>2, <2>2
  <2> QED
      BY <2>1, <2>2, <2>3
<1>6. b[n].prefix = 0 /\ s[n - 1 + Len(b) + 1 - n] = Inverted(b[n])
  <2>1. n - 1 + Len(b) + 1 - n = Len(r)
      BY <1>1
  <2>2. s[Len(r)] = c
      BY <1>1, <1>2
  <2> QED
      BY <1>3, <2>1, <2>2
<1>7. Turned(b, s, n - 1)
  <2>1. Len(s) = Len(b) /\ n - 1 <= Len(b)
      BY <1>1, <1>2
  <2>2. ASSUME NEW i \in 1 .. Len(b), ~(i <= n - 1)
        PROVE  b[i].prefix = 0 /\ s[n - 1 + Len(b) + 1 - i] = Inverted(b[i])
    <3>1. CASE i = n
        BY <1>6, <3>1
    <3>2. CASE i > n
        BY <1>5, <3>2
    <3> QED
        BY <2>2, <3>1, <3>2
  <2> QED
      BY <1>4, <2>1, <2>2, Zenon DEF Turned
<1> QED
    BY <1>7 DEF s

-----------------------------------------------------------------------------
(* Preservation.                                                           *)

LEMMA BodyFacts ==
    ASSUME Types
    PROVE  /\ Listed \subseteq Names /\ DOMAIN body = Listed
           /\ \A f \in DOMAIN body : f \in Names /\ body[f] \in Bodies
           /\ functions[fn] \in DOMAIN body
           /\ Len(functions) \in Nat /\ Len(building) \in Nat
           /\ building \in Seq([fn : Names, left : Nat])
           /\ source \in Programs
<1>1. functions \in Seq(Names) /\ building \in Seq([fn : Names, left : Nat])
    BY DEF Types
<1>2. \A i \in DOMAIN functions : functions[i] \in Names
    BY <1>1
<1>3. fn \in DOMAIN functions
    BY <1>1 DEF Types
<1> QED
    BY <1>1, <1>2, <1>3 DEF Types, Listed

LEMMA SeqIn ==
    ASSUME NEW S, NEW T, S \subseteq T
    PROVE  Seq(S) \subseteq Seq(T)
OBVIOUS

LEMMA InitRInv == Init => RInv
<1> SUFFICES ASSUME Init PROVE RInv
    OBVIOUS
<1> USE DEF Init
<1> DEFINE Given == [base : STRING, rev : {0}]
           GivenCall == [to : Given, prefix : Nat]
<1>1. /\ source \in Programs
      /\ source.functions \in Seq(Given) /\ source.functions # <<>>
      /\ DOMAIN source.body = Listed
      /\ source.body \in [Listed -> [first : Seq(GivenCall), rest : Seq(GivenCall)]]
      /\ \A f \in Listed : f \in Given
    BY SourceFacts DEF Listed
<1>2. Given \subseteq Names /\ GivenCall \subseteq SomeCall
    BY DEF Names, SomeCall
<1>3. Seq(Given) \subseteq Seq(Names) /\ Seq(GivenCall) \subseteq Seq(SomeCall)
    BY <1>2, SeqIn
<1> HIDE DEF Given, GivenCall
<1>4. [first : Seq(GivenCall), rest : Seq(GivenCall)] \subseteq Bodies
    BY <1>3 DEF Bodies
<1>5. Types
  <2>1. functions \in Seq(Names) /\ 1 \in 1 .. Len(functions)
      BY <1>1, <1>3
  <2>2. body \in [Listed -> Bodies]
      BY <1>1, <1>4
  <2> QED
      BY <1>1, <2>1, <2>2 DEF Types
<1>6. \A f \in Names : Rev(f) \notin DOMAIN body
  <2>1. \A f \in Names : Rev(f).rev # 0
      BY DEF Names, Rev
  <2> QED
      BY <1>1, <2>1 DEF Given
<1>7. Origins
    BY <1>1, <1>6 DEF Origins, Fn, Given
<1>8. CallsDown
  <2> SUFFICES ASSUME NEW f \in DOMAIN body, NEW i \in DOMAIN body[f].first,
                      Fn(body[f].first[i].to.base) \in DOMAIN source.body
               PROVE  Depth(body[f].first[i].to) < Depth(f)
      BY DEF CallsDown
  <2>1. body[f] \in Bodies /\ body[f].first \in Seq(GivenCall)
      BY <1>1, <1>4
  <2>2. i \in DOMAIN Calls(body[f]) /\ Calls(body[f])[i] = body[f].first[i]
      BY <2>1, FirstCalls
  <2> DEFINE g == body[f].first[i].to
  <2>3. g \in Given
    <3>1. body[f].first[i] \in GivenCall
        BY <2>1
    <3> QED
        BY <3>1 DEF GivenCall
  <2>4. Fn(g.base) = g
      BY <2>3 DEF Fn, Given
  <2>5. Fn(f.base) = f
      BY <1>1 DEF Fn, Given
  <2>6. level[g] < level[f]
      BY <1>1, <2>2, <2>4, LevelFacts DEF Leveled
  <2> QED
      BY <2>4, <2>5, <2>6 DEF Depth
<1>9. Frames
    BY DEF Frames
<1>10. Made
    BY <1>5, <1>6, BodyFacts DEF Made
<1> QED
    BY <1>5, <1>7, <1>8, <1>9, <1>10 DEF RInv

\* What the parts that speak of levels and names need.
LEMMA Unchanged ==
    ASSUME UNCHANGED <<source, functions, body, building>>
    PROVE  /\ Origins' = Origins /\ CallsDown' = CallsDown
           /\ Frames' = Frames /\ Made' = Made
<1>1. level' = level
    BY DEF level, Leveled
<1>2. \A f : Depth(f)' = Depth(f)
    BY <1>1 DEF Depth
<1> QED
    BY <1>2 DEF Origins, CallsDown, Frames, Made

LEMMA DepthKept ==
    ASSUME source' = source
    PROVE  level' = level /\ \A f : Depth(f)' = Depth(f)
<1>1. level' = level
    BY DEF level, Leveled
<1> QED
    BY <1>1 DEF Depth

\* The copy of g: no inverse in the making is of it.
LEMMA CloneKeeps ==
    ASSUME RInv, NEW g \in DOMAIN body, Rev(g) \notin DOMAIN body, Clone(g),
           \A k \in DOMAIN building : Depth(g) < Depth(building[k].fn)
    PROVE  RInv'
<1>1. Types /\ Origins /\ CallsDown /\ Frames /\ Made
    BY DEF RInv
<1>2. /\ Listed \subseteq Names /\ DOMAIN body = Listed
      /\ \A f \in DOMAIN body : f \in Names /\ body[f] \in Bodies
      /\ g \in Names /\ body[g] \in Bodies
      /\ Len(functions) \in Nat /\ Len(building) \in Nat
    BY <1>1, BodyFacts
<1>3. /\ Rev(g) \in Names /\ Rev(g).base = g.base /\ Rev(g) # g
      /\ Rev(Rev(g)) # Rev(g) /\ Rev(Rev(g)) \in Names
      /\ \A f \in Names : Rev(f) = Rev(g) => f = g
    BY <1>2, RevFacts
<1>4. /\ DOMAIN body' = DOMAIN body \cup {Rev(g)}
      /\ body'[Rev(g)] = body[g]
      /\ \A f \in DOMAIN body : body'[f] = body[f]
      /\ source' = source /\ fn' = fn /\ pos' = pos /\ pc' = pc
    BY DEF Clone
<1> DEFINE n == Len(body[g].first)
           e == [fn |-> Rev(g), left |-> n]
<1>5. body[g].first \in Seq(SomeCall) /\ n \in Nat
    BY <1>2, CallsFacts
<1>6. /\ functions' = Append(functions, Rev(g))
      /\ building' = Append(building, e)
      /\ functions \in Seq(Names) /\ building \in Seq([fn : Names, left : Nat])
    BY <1>1 DEF Clone, Types
<1>7. e \in [fn : Names, left : Nat] /\ e.fn = Rev(g) /\ e.left = n
    BY <1>3, <1>5
<1> HIDE DEF n, e
<1>8. /\ functions' \in Seq(Names) /\ Len(functions') = Len(functions) + 1
      /\ \A i \in 1 .. Len(functions) : functions'[i] = functions[i]
      /\ functions'[Len(functions) + 1] = Rev(g)
    BY <1>3, <1>6
<1>9. /\ building' \in Seq([fn : Names, left : Nat]) /\ Len(building') = Len(building) + 1
      /\ DOMAIN building = 1 .. Len(building)
      /\ DOMAIN building' = 1 .. Len(building) + 1
      /\ \A k \in 1 .. Len(building) : building'[k] = building[k]
      /\ building'[Len(building) + 1] = e
    BY <1>6, <1>7
<1>10. Types'
  <2>1. Listed' = Listed \cup {Rev(g)}
    <3>1. DOMAIN functions = 1 .. Len(functions) /\ DOMAIN functions' = 1 .. Len(functions) + 1
        BY <1>6, <1>8
    <3> QED
        BY <1>2, <1>8, <3>1 DEF Listed
  <2>2. body' \in [Listed' -> Bodies]
      BY <1>2, <1>4, <2>1 DEF Clone
  <2>3. fn' \in 1 .. Len(functions')
      BY <1>1, <1>2, <1>4, <1>8 DEF Types
  <2> QED
      BY <1>1, <1>4, <1>8, <1>9, <2>2, <2>3 DEF Types
<1>11. Origins'
  <2>1. \A f \in DOMAIN body' : Fn(f.base) \in DOMAIN source.body
      BY <1>1, <1>3, <1>4 DEF Origins
  <2>2. \A f \in Names : Rev(f) \in DOMAIN body' => f \in DOMAIN body'
      BY <1>1, <1>3, <1>4 DEF Origins
  <2> QED
      BY <1>4, <2>1, <2>2 DEF Origins
<1>12. \A f : Depth(f)' = Depth(f)
    BY <1>4, DepthKept
<1>13. Depth(Rev(g)) = Depth(g)
    BY <1>3 DEF Depth
<1>14. CallsDown'
  <2>1. \A f \in DOMAIN body' : \A i \in DOMAIN body'[f].first :
            LET h == body'[f].first[i].to IN
                Fn(h.base) \in DOMAIN source.body => Depth(h) < Depth(f)
      BY <1>1, <1>4, <1>13 DEF CallsDown
  <2> QED
      BY <1>4, <1>12, <2>1 DEF CallsDown
<1>15. Rev(Rev(g)) \notin DOMAIN body'
    BY <1>1, <1>3, <1>4 DEF Origins
<1>16. Frames'
  <2>1. ASSUME NEW k \in 1 .. Len(building)
        PROVE  LET x == building[k] IN
               /\ x.fn \in DOMAIN body' /\ Rev(x.fn) \notin DOMAIN body'
               /\ \E f \in DOMAIN body' :
                      x.fn = Rev(f) /\ Turned(body'[f].first, body'[x.fn].first, x.left)
    <3>1. building[k].fn \in DOMAIN body /\ Rev(building[k].fn) \notin DOMAIN body
        BY <1>1, <1>9, <2>1 DEF Frames
    <3>2. PICK f \in DOMAIN body :
              /\ building[k].fn = Rev(f)
              /\ Turned(body[f].first, body[building[k].fn].first, building[k].left)
        BY <1>1, <1>9, <2>1 DEF Frames
    <3>3. building[k].fn # g
      <4>1. Depth(g) < Depth(building[k].fn)
          BY <1>9
      <4>2. Depth(g) \in Int
          BY <1>1, <1>2, BodyFacts, DepthIsNat DEF Origins
      <4> QED
          BY <4>1, <4>2
    <3>4. Rev(building[k].fn) # Rev(g)
        BY <1>2, <1>3, <3>1, <3>3
    <3> QED
        BY <1>4, <3>1, <3>2, <3>4
  <2>2. Turned(body'[g].first, body'[Rev(g)].first, n)
      BY <1>4, <1>5, TurnedAtStart DEF n
  <2>3. ASSUME NEW k \in 1 .. Len(building) + 1
        PROVE  LET x == building'[k] IN
               /\ x.fn \in DOMAIN body' /\ Rev(x.fn) \notin DOMAIN body'
               /\ \E f \in DOMAIN body' :
                      x.fn = Rev(f) /\ Turned(body'[f].first, body'[x.fn].first, x.left)
    <3>1. CASE k \in 1 .. Len(building)
        BY <1>9, <2>1, <3>1
    <3>2. CASE k = Len(building) + 1
        BY <1>4, <1>7, <1>9, <1>15, <2>2, <3>2
    <3> QED
        BY <1>2, <3>1, <3>2
  <2>4. ASSUME NEW j \in 1 .. Len(building) + 1, NEW k \in 1 .. Len(building) + 1, j < k
        PROVE  Depth(building'[k].fn) < Depth(building'[j].fn)
    <3>1. j \in 1 .. Len(building)
        BY <1>2, <2>4
    <3>2. CASE k \in 1 .. Len(building)
        BY <1>1, <1>9, <2>4, <3>1, <3>2 DEF Frames
    <3>3. CASE k = Len(building) + 1
        BY <1>7, <1>9, <1>13, <3>1, <3>3
    <3> QED
        BY <1>2, <3>2, <3>3
  <2> QED
      BY <1>9, <1>12, <2>3, <2>4 DEF Frames
<1>17. Made'
  <2> SUFFICES ASSUME NEW f \in DOMAIN body', Rev(f) \in DOMAIN body',
                      \A k \in DOMAIN building' : building'[k].fn # Rev(f)
               PROVE  Turned(body'[f].first, body'[Rev(f)].first, 0)
      BY DEF Made
  <2>1. Rev(f) # Rev(g)
      BY <1>2, <1>7, <1>9
  <2>2. f # Rev(g)
      BY <1>15
  <2>3. f \in DOMAIN body /\ Rev(f) \in DOMAIN body
      BY <1>4, <2>1, <2>2
  <2>4. \A k \in DOMAIN building : building[k].fn # Rev(f)
      BY <1>9
  <2> QED
      BY <1>1, <1>4, <2>3, <2>4 DEF Made
<1> QED
    BY <1>10, <1>11, <1>14, <1>16, <1>17 DEF RInv

LEMMA LastIn ==
    ASSUME NEW S, NEW s \in Seq(S), s # <<>>
    PROVE  Len(s) \in DOMAIN s /\ s[Len(s)] \in S
OBVIOUS

\* The inverse being made, and the call that it is at.
LEMMA TopFacts ==
    ASSUME RInv, Building
    PROVE  /\ Len(building) \in DOMAIN building /\ Top \in [fn : Names, left : Nat]
           /\ Top.fn \in DOMAIN body /\ Rev(Top.fn) \notin DOMAIN body
           /\ body[Top.fn] \in Bodies
           /\ \E f \in DOMAIN body :
                  Top.fn = Rev(f) /\ Turned(body[f].first, body[Top.fn].first, Top.left)
           /\ Top.left <= Len(body[Top.fn].first)
           /\ Top.left > 0 => /\ Top.left \in DOMAIN body[Top.fn].first
                              /\ TopCall \in SomeCall
<1>1. /\ building \in Seq([fn : Names, left : Nat]) /\ building # <<>>
      /\ \A f \in DOMAIN body : f \in Names /\ body[f] \in Bodies
      /\ Frames
    BY BodyFacts DEF RInv, Building
<1>2. Len(building) \in DOMAIN building /\ Top \in [fn : Names, left : Nat]
    BY <1>1, LastIn DEF Top
<1>3. /\ Top.fn \in DOMAIN body /\ Rev(Top.fn) \notin DOMAIN body
      /\ \E f \in DOMAIN body :
             Top.fn = Rev(f) /\ Turned(body[f].first, body[Top.fn].first, Top.left)
    BY <1>1, <1>2 DEF Frames, Top
<1>4. Top.left <= Len(body[Top.fn].first)
    BY <1>3 DEF Turned
<1>5. ASSUME Top.left > 0
      PROVE  Top.left \in DOMAIN body[Top.fn].first /\ TopCall \in SomeCall
  <2> DEFINE s == body[Top.fn].first
  <2>1. s \in Seq(SomeCall)
      BY <1>1, <1>3, CallsFacts
  <2>2. Top.left \in Nat /\ Top.left <= Len(s)
      BY <1>2, <1>4
  <2> HIDE DEF s
  <2>3. Top.left \in DOMAIN s /\ s[Top.left] \in SomeCall
      BY <1>5, <2>1, <2>2
  <2> QED
      BY <2>3 DEF s, TopCall
<1> QED
    BY <1>1, <1>2, <1>3, <1>4, <1>5

\* The base of what a call becomes.
LEMMA InverseBase ==
    ASSUME source \in Programs, NEW f \in Names, Fn(InverseOf(f).base) \in DOMAIN source.body
    PROVE  InverseOf(f) = Rev(f) /\ InverseOf(f).base = f.base
<1>1. \A g \in DOMAIN source.body : ~IsIntrinsic(g)
    BY SourceFacts
<1>2. CASE IsIntrinsic(f)
  <2>1. InverseOf(f).base \in Intrinsics
      BY <1>2, InverseFacts DEF IsIntrinsic
  <2> QED
      BY <1>1, <2>1 DEF Fn, IsIntrinsic
<1>3. CASE ~IsIntrinsic(f)
    BY <1>3, InverseFacts, RevFacts
<1> QED
    BY <1>2, <1>3

LEMMA CloneCalleeKeeps == RInv /\ CloneCallee => RInv'
<1> SUFFICES ASSUME RInv, CloneCallee PROVE RInv'
    OBVIOUS
<1> DEFINE g == TopCall.to
<1>1. /\ Building /\ Top.left > 0 /\ g \in DOMAIN body /\ Rev(g) \notin DOMAIN body /\ Clone(g)
    BY DEF CloneCallee, HasInverse
<1>2. /\ Types /\ Origins /\ CallsDown /\ Frames
      /\ source \in Programs
    BY DEF RInv, Types
<1>3. /\ Len(building) \in DOMAIN building
      /\ Top.fn \in DOMAIN body /\ Top.left \in DOMAIN body[Top.fn].first
    BY <1>1, TopFacts
<1>4. Fn(g.base) \in DOMAIN source.body
    BY <1>1, <1>2 DEF Origins
<1>5. Depth(g) < Depth(Top.fn)
    BY <1>2, <1>3, <1>4 DEF CallsDown, TopCall
<1>6. ASSUME NEW k \in DOMAIN building PROVE Depth(g) < Depth(building[k].fn)
  <2>1. /\ Depth(g) \in Int /\ Depth(Top.fn) \in Int
      BY <1>2, <1>3, <1>4, DepthIsNat DEF Origins
  <2>2. CASE k = Len(building)
      BY <1>5, <2>2 DEF Top
  <2>3. CASE k # Len(building)
    <3>1. k < Len(building)
        BY <1>2, <2>3 DEF Types
    <3>2. Depth(Top.fn) < Depth(building[k].fn)
        BY <1>2, <1>3, <3>1 DEF Frames, Top
    <3>3. Depth(building[k].fn) \in Int
        BY <1>2, <1>6, DepthIsNat DEF Origins, Frames
    <3> QED
        BY <1>5, <2>1, <3>2, <3>3
  <2> QED
      BY <2>2, <2>3
<1> HIDE DEF g
<1> QED
    BY <1>1, <1>6, CloneKeeps

LEMMA InvertCallKeeps == RInv /\ InvertCall => RInv'
<1> SUFFICES ASSUME RInv, InvertCall PROVE RInv'
    OBVIOUS
<1> DEFINE g == Top.fn
           n == Top.left
           r == body[g].first
           c == Inverted(r[n])
           m == MovedLast(r, n, c)
<1>1. /\ Building /\ n > 0 /\ r[n].prefix = 0
      /\ body' = [body EXCEPT ![g].first = m]
      /\ building' = [building EXCEPT ![Len(building)].left = n - 1]
      /\ UNCHANGED <<source, functions, fn, pos, pc>>
    BY DEF InvertCall, TopCall, Inverted, Top
<1>2. /\ Types /\ Origins /\ CallsDown /\ Frames /\ Made
      /\ building \in Seq([fn : Names, left : Nat]) /\ source \in Programs
    BY DEF RInv, Types
<1>3. /\ Len(building) \in DOMAIN building
      /\ g \in Names /\ n \in Nat
      /\ g \in DOMAIN body /\ Rev(g) \notin DOMAIN body /\ body[g] \in Bodies
      /\ n \in DOMAIN r /\ r[n] \in SomeCall
    BY <1>1, TopFacts DEF TopCall
<1>4. PICK f \in DOMAIN body : g = Rev(f) /\ Turned(body[f].first, r, n)
    BY <1>1, TopFacts
<1>5. /\ r \in Seq(SomeCall) /\ body[g].rest \in Seq(SomeCall)
      /\ f \in Names /\ body[f].first \in Seq(SomeCall)
    BY <1>2, <1>3, <1>4, BodyFacts, CallsFacts
<1>6. r[n].to \in Names /\ c \in SomeCall /\ c.to = InverseOf(r[n].to)
    BY <1>3, InverseFacts DEF SomeCall, Inverted, Call
<1>7. n \in 1 .. Len(r)
  <2> HIDE DEF r
  <2> QED
      BY <1>3, <1>5
<1>8. f # g
    BY <1>4, <1>5, RevFacts
<1> DEFINE b == [first |-> m, rest |-> body[g].rest]
<1>9. /\ DOMAIN body' = DOMAIN body
      /\ body'[g] = b
      /\ \A h \in DOMAIN body : h # g => body'[h] = body[h]
  <2>1. body[g] = [first |-> r, rest |-> body[g].rest]
      BY <1>3 DEF Bodies
  <2> QED
      BY <1>1, <1>3, <2>1
<1>10. /\ m \in Seq(SomeCall) /\ Len(m) = Len(r)
       /\ \A k \in 1 .. Len(r) : m[k] = IF k < n THEN r[k] ELSE IF k < Len(r) THEN r[k + 1] ELSE c
  <2> HIDE DEF r, n, c
  <2> QED
      BY <1>5, <1>6, <1>7, MovedFacts DEF m
<1>11. Turned(body[f].first, m, n - 1)
    BY <1>1, <1>3, <1>4, <1>5, <1>6, TurnedStep
<1>12. /\ building' \in Seq([fn : Names, left : Nat]) /\ DOMAIN building' = DOMAIN building
       /\ \A k \in DOMAIN building : building'[k].fn = building[k].fn
       /\ \A k \in DOMAIN building : k # Len(building) => building'[k] = building[k]
       /\ building'[Len(building)].left = n - 1
  <2>1. building[Len(building)] = [fn |-> g, left |-> n]
    <3>1. Top \in [fn : Names, left : Nat]
        BY <1>1, TopFacts
    <3> QED
        BY <3>1 DEF Top
  <2> DEFINE e == [fn |-> g, left |-> n - 1]
  <2>2. building' = [building EXCEPT ![Len(building)] = e]
    <3>1. building' = [building EXCEPT ![Len(building)] =
                          [building[Len(building)] EXCEPT !.left = n - 1]]
        BY <1>1
    <3>2. [building[Len(building)] EXCEPT !.left = n - 1] = e
        BY <2>1
    <3> QED
        BY <3>1, <3>2
  <2>3. e \in [fn : Names, left : Nat] /\ e.fn = g /\ e.left = n - 1
      BY <1>1, <1>3
  <2> HIDE DEF e, g, n
  <2>4. building' \in Seq([fn : Names, left : Nat]) /\ DOMAIN building' = DOMAIN building
      BY <1>2, <1>3, <2>2, <2>3
  <2>5. /\ building'[Len(building)] = e
        /\ \A k \in DOMAIN building : k # Len(building) => building'[k] = building[k]
      BY <1>3, <2>2
  <2>6. building[Len(building)].fn = g
      BY <2>1
  <2> QED
      BY <2>3, <2>4, <2>5, <2>6
<1>13. Types'
  <2>1. b \in Bodies
      BY <1>5, <1>10 DEF Bodies
  <2>2. Listed' = Listed
      BY <1>1 DEF Listed
  <2>3. body' \in [Listed -> Bodies]
    <3> HIDE DEF b, m, r, c, n, g
    <3>1. body' = [body EXCEPT ![g] = b]
        BY <1>1, <1>9, <1>2, <1>3 DEF Types
    <3> QED
        BY <1>2, <2>1, <3>1 DEF Types
  <2> QED
      BY <1>1, <1>2, <1>12, <2>2, <2>3 DEF Types
<1>14. Origins'
    BY <1>1, <1>2, <1>9 DEF Origins
<1>15. level' = level /\ \A h : Depth(h)' = Depth(h)
    BY <1>1, DepthKept
<1>16. CallsDown'
  <2>1. ASSUME NEW h \in DOMAIN body, NEW i \in DOMAIN body'[h].first,
               Fn(body'[h].first[i].to.base) \in DOMAIN source.body
        PROVE  Depth(body'[h].first[i].to) < Depth(h)
    <3>1. CASE h # g
        BY <1>2, <1>9, <2>1, <3>1 DEF CallsDown
    <3>2. CASE h = g
      <4>0. body'[h].first = m
          BY <1>9, <3>2
      <4>1. i \in 1 .. Len(r)
        <5> HIDE DEF m, r
        <5> QED
            BY <1>5, <1>10, <2>1, <4>0
      <4>2. ASSUME NEW k \in 1 .. Len(r), Fn(r[k].to.base) \in DOMAIN source.body
            PROVE  Depth(r[k].to) < Depth(g)
        <5>1. k \in DOMAIN r
          <6> HIDE DEF r
          <6> QED
              BY <1>5
        <5> QED
            BY <1>2, <1>3, <4>2, <5>1 DEF CallsDown
      <4>3. CASE m[i] = c
        <5>1. c.to.base = r[n].to.base
            BY <1>2, <1>6, <2>1, <4>0, <4>3, InverseBase
        <5>2. Depth(c.to) = Depth(r[n].to)
            BY <5>1 DEF Depth
        <5> QED
            BY <1>7, <2>1, <3>2, <4>0, <4>2, <4>3, <5>1, <5>2
      <4>4. CASE \E k \in 1 .. Len(r) : m[i] = r[k]
          BY <2>1, <3>2, <4>0, <4>2, <4>4
      <4>5. m[i] = c \/ \E k \in 1 .. Len(r) : m[i] = r[k]
        <5>1. Len(r) \in Nat
            BY <1>5
        <5>2. i < Len(r) => i + 1 \in 1 .. Len(r)
            BY <4>1, <5>1
        <5> QED
            BY <1>10, <4>1, <5>2
      <4> QED
          BY <4>3, <4>4, <4>5
    <3> QED
        BY <3>1, <3>2
  <2>2. \A h \in DOMAIN body' : \A i \in DOMAIN body'[h].first :
            LET x == body'[h].first[i].to IN
                Fn(x.base) \in DOMAIN source.body => Depth(x) < Depth(h)
    <3> HIDE DEF g, n, r, c, m, b
    <3> QED
        BY <1>9, <2>1
  <2> QED
      BY <1>1, <1>15, <2>2 DEF CallsDown
<1>17. Frames'
  <2>1. ASSUME NEW k \in DOMAIN building
        PROVE  LET x == building'[k] IN
               /\ x.fn \in DOMAIN body' /\ Rev(x.fn) \notin DOMAIN body'
               /\ \E h \in DOMAIN body' :
                      x.fn = Rev(h) /\ Turned(body'[h].first, body'[x.fn].first, x.left)
    <3>1. building[k].fn \in DOMAIN body /\ Rev(building[k].fn) \notin DOMAIN body
        BY <1>2, <2>1 DEF Frames
    <3>2. CASE k = Len(building)
      <4>1. building'[k].fn = g /\ building'[k].left = n - 1
          BY <1>12, <3>2 DEF Top
      <4>2. body'[g].first = m /\ body'[f] = body[f] /\ f \in DOMAIN body'
          BY <1>8, <1>9
      <4> QED
          BY <1>3, <1>4, <1>9, <1>11, <4>1, <4>2
    <3>3. CASE k # Len(building)
      <4>1. PICK h \in DOMAIN body :
                /\ building[k].fn = Rev(h)
                /\ Turned(body[h].first, body[building[k].fn].first, building[k].left)
          BY <1>2, <2>1 DEF Frames
      <4>2. building[k].fn # g
        <5>1. k < Len(building)
            BY <1>2, <3>3
        <5>2. Depth(g) < Depth(building[k].fn)
            BY <1>2, <1>3, <5>1 DEF Frames, Top
        <5>3. Depth(g) \in Int
            BY <1>2, <1>3, DepthIsNat DEF Origins
        <5> QED
            BY <5>2, <5>3
      <4>3. h # g
          BY <1>3, <3>1, <4>1
      <4> QED
          BY <1>9, <1>12, <3>1, <3>3, <4>1, <4>2, <4>3
    <3> QED
        BY <3>2, <3>3
  <2> QED
      BY <1>2, <1>12, <1>15, <2>1 DEF Frames
<1>18. Made'
  <2> SUFFICES ASSUME NEW h \in DOMAIN body', Rev(h) \in DOMAIN body',
                      \A k \in DOMAIN building' : building'[k].fn # Rev(h)
               PROVE  Turned(body'[h].first, body'[Rev(h)].first, 0)
      BY DEF Made
  <2>1. \A k \in DOMAIN building : building[k].fn # Rev(h)
      BY <1>12
  <2>2. Rev(h) # g
      BY <1>3, <2>1 DEF Top
  <2>3. h # g
      BY <1>3, <1>9
  <2> QED
      BY <1>2, <1>9, <2>1, <2>2, <2>3 DEF Made
<1> QED
    BY <1>13, <1>14, <1>16, <1>17, <1>18 DEF RInv

LEMMA EndInverseKeeps == RInv /\ EndInverse => RInv'
<1> SUFFICES ASSUME RInv, EndInverse PROVE RInv'
    OBVIOUS
<1>1. /\ Building /\ Top.left = 0
      /\ building' = SubSeq(building, 1, Len(building) - 1)
      /\ UNCHANGED <<source, functions, body, fn, pos, pc>>
    BY DEF EndInverse
<1>2. /\ Types /\ Origins /\ CallsDown /\ Frames /\ Made
      /\ building \in Seq([fn : Names, left : Nat])
    BY DEF RInv, Types
<1>3. /\ building' \in Seq([fn : Names, left : Nat])
      /\ DOMAIN building = DOMAIN building' \cup {Len(building)}
      /\ \A k \in DOMAIN building' : building'[k] = building[k]
  <2> DEFINE F == [fn : Names, left : Nat]
  <2>1. building \in Seq(F) /\ building # <<>>
      BY <1>1, <1>2 DEF Building
  <2> HIDE DEF F
  <2>2. Len(building) \in Nat \ {0} /\ DOMAIN building = 1 .. Len(building)
      BY <2>1
  <2>3. /\ building' \in Seq(F) /\ Len(building') = Len(building) - 1
        /\ \A k \in 1 .. Len(building) - 1 : building'[k] = building[k]
      BY <1>1, <2>1, <2>2
  <2>4. DOMAIN building' = 1 .. Len(building) - 1
      BY <2>2, <2>3
  <2> QED
      BY <2>2, <2>3, <2>4 DEF F
<1>4. Types'
    BY <1>1, <1>2, <1>3 DEF Types, Listed
<1>5. \A h : Depth(h)' = Depth(h)
    BY <1>1, DepthKept
<1>6. Origins' /\ CallsDown'
    BY <1>1, <1>2, <1>5 DEF Origins, CallsDown
<1>7. Frames'
  <2>1. /\ \A k \in DOMAIN building' : k \in DOMAIN building /\ building'[k] = building[k]
        /\ body' = body
      BY <1>1, <1>3
  <2>2. \A j, k \in DOMAIN building' :
            j < k => Depth(building[k].fn)' < Depth(building[j].fn)'
      BY <1>2, <1>5, <2>1 DEF Frames
  <2> QED
      BY <1>2, <2>1, <2>2 DEF Frames
<1>8. Made'
  <2> SUFFICES ASSUME NEW h \in DOMAIN body, Rev(h) \in DOMAIN body,
                      \A k \in DOMAIN building' : building'[k].fn # Rev(h)
               PROVE  Turned(body[h].first, body[Rev(h)].first, 0)
      BY <1>1 DEF Made
  <2>1. CASE Top.fn = Rev(h)
    <3>1. PICK f \in DOMAIN body :
              Top.fn = Rev(f) /\ Turned(body[f].first, body[Top.fn].first, 0)
        BY <1>1, TopFacts
    <3>2. f = h
        BY <1>2, <2>1, <3>1, BodyFacts, RevFacts
    <3> QED
        BY <2>1, <3>1, <3>2
  <2>2. CASE Top.fn # Rev(h)
      BY <1>2, <1>3, <2>2 DEF Made, Top
  <2> QED
      BY <2>1, <2>2
<1> QED
    BY <1>4, <1>6, <1>7, <1>8 DEF RInv

LEMMA HereFacts ==
    ASSUME Types, Visiting, pos <= Len(CallsHere)
    PROVE  /\ functions[fn] \in DOMAIN body /\ body[functions[fn]] \in Bodies
           /\ pos \in 1 .. Len(CallsHere) /\ Here \in SomeCall
           /\ Here.to \in Names /\ Here.prefix \in Nat
<1>1. functions[fn] \in DOMAIN body /\ body[functions[fn]] \in Bodies
    BY BodyFacts
<1>2. CallsHere \in Seq(SomeCall)
    BY <1>1, CallsFacts DEF CallsHere
<1>3. pos \in 1 .. Len(CallsHere)
    BY <1>2 DEF Types
<1>4. Here \in SomeCall
    BY <1>2, <1>3 DEF Here
<1> QED
    BY <1>1, <1>3, <1>4 DEF SomeCall

\* A call with prefixes is not in the first block of an inverse or of a
\* function that has one.
LEMMA ReplaceKeeps ==
    ASSUME RInv, Visiting, pos <= Len(CallsHere), Here.prefix > 0,
           NEW f \in Names, ReplaceBy(f),
           Fn(f.base) \in DOMAIN source.body => f.base = Here.to.base
    PROVE  RInv'
<1> DEFINE h == functions[fn]
           b == body[h]
           c == Call(f)
           w == WithCall(b, pos, c)
<1>1. /\ body' = [body EXCEPT ![h] = w]
      /\ pos' = pos + 1 /\ UNCHANGED <<source, functions, fn, building, pc>>
    BY DEF ReplaceBy
<1>2. Types /\ Origins /\ CallsDown /\ Made /\ building = <<>>
    BY DEF RInv, Visiting
<1>3. /\ h \in DOMAIN body /\ h \in Names /\ b \in Bodies
      /\ pos \in 1 .. Len(Calls(b)) /\ Calls(b)[pos] = Here
    BY <1>2, HereFacts, BodyFacts DEF CallsHere, Here
<1>4. c \in SomeCall /\ c.to = f
    BY DEF Call, SomeCall
<1>5. /\ w \in Bodies /\ Len(w.first) = Len(b.first)
      /\ \A k \in 1 .. Len(b.first) : w.first[k] = IF k = pos THEN c ELSE b.first[k]
      /\ pos > Len(b.first) => w.first = b.first
  <2> HIDE DEF b, c
  <2> QED
      BY <1>3, <1>4, WithCallFacts
<1>6. /\ Len(b.first) \in Nat
      /\ pos <= Len(b.first) => b.first[pos] = Here
    BY <1>3, CallsFacts
<1>7. /\ DOMAIN body' = DOMAIN body /\ body'[h] = w
      /\ \A g \in DOMAIN body : g # h => body'[g] = body[g]
    BY <1>1, <1>3
<1> HIDE DEF w
<1>8. \A g : Depth(g)' = Depth(g)
    BY <1>1, DepthKept
<1>9. Types'
  <2>1. body' \in [Listed -> Bodies]
      BY <1>1, <1>2, <1>5 DEF Types
  <2> QED
      BY <1>1, <1>2, <2>1 DEF Types, Listed
<1>10. Origins'
    BY <1>1, <1>2, <1>7 DEF Origins
<1>11. CallsDown'
  <2>1. ASSUME NEW i \in DOMAIN w.first, Fn(w.first[i].to.base) \in DOMAIN source.body
        PROVE  Depth(w.first[i].to) < Depth(h)
    <3>1. i \in 1 .. Len(b.first) /\ i \in DOMAIN b.first
      <4> DEFINE x == w.first
                 y == b.first
      <4>1. x \in Seq(SomeCall) /\ y \in Seq(SomeCall) /\ Len(x) = Len(y) /\ i \in DOMAIN x
          BY <1>3, <1>5, CallsFacts
      <4> HIDE DEF x, y
      <4>2. i \in 1 .. Len(y) /\ i \in DOMAIN y
          BY <4>1
      <4> QED
          BY <4>2 DEF y
    <3>2. CASE i = pos
      <4>1. w.first[i].to = f /\ b.first[i] = Here
          BY <1>4, <1>5, <1>6, <3>1, <3>2
      <4>2. Depth(f) = Depth(Here.to) /\ Fn(Here.to.base) \in DOMAIN source.body
          BY <2>1, <4>1 DEF Depth
      <4> QED
          BY <1>2, <1>3, <3>1, <4>1, <4>2 DEF CallsDown
    <3>3. CASE i # pos
      <4>1. w.first[i] = b.first[i]
          BY <1>5, <3>1, <3>3
      <4> QED
          BY <1>2, <1>3, <2>1, <3>1, <4>1 DEF CallsDown
    <3> QED
        BY <3>2, <3>3
  <2>2. \A g \in DOMAIN body' : \A i \in DOMAIN body'[g].first :
            LET x == body'[g].first[i].to IN
                Fn(x.base) \in DOMAIN source.body => Depth(x) < Depth(g)
    <3> HIDE DEF h, b
    <3> QED
        BY <1>2, <1>7, <2>1 DEF CallsDown
  <2> QED
      BY <1>1, <1>8, <2>2 DEF CallsDown
<1>12. Frames'
    BY <1>1, <1>2 DEF Frames
<1>13. Made'
  <2> SUFFICES ASSUME NEW g \in DOMAIN body, Rev(g) \in DOMAIN body
               PROVE  Turned(body'[g].first, body'[Rev(g)].first, 0)
      BY <1>1, <1>7 DEF Made
  <2>1. Turned(body[g].first, body[Rev(g)].first, 0)
      BY <1>2 DEF Made
  <2>2. Len(body[g].first) \in Nat
      BY <1>2, BodyFacts, CallsFacts
  <2>3. CASE g = h
    <3>1. ~(pos <= Len(b.first))
        BY <1>3, <1>6, <2>1, <2>3 DEF Turned
    <3>2. body'[h].first = body[h].first
        BY <1>3, <1>5, <1>6, <1>7, <3>1
    <3>3. Rev(g) # h
        BY <1>3, <2>3, RevFacts
    <3> QED
        BY <1>7, <2>1, <2>3, <3>2, <3>3
  <2>4. CASE Rev(g) = h
    <3>1. ASSUME pos <= Len(b.first) PROVE FALSE
      <4> DEFINE l == Len(body[g].first)
      <4>1. /\ Len(b.first) = l
            /\ \A i \in 1 .. l : b.first[0 + l + 1 - i] = Inverted(body[g].first[i])
        <5>1. \A i \in 1 .. l : ~(i <= 0)
            BY <2>2
        <5> QED
            BY <2>1, <2>4, <5>1 DEF Turned
      <4> HIDE DEF l
      <4>2. l + 1 - pos \in 1 .. l /\ 0 + l + 1 - (l + 1 - pos) = pos
          BY <1>3, <1>6, <3>1, <4>1
      <4>3. b.first[pos] = Inverted(body[g].first[l + 1 - pos])
          BY <4>1, <4>2
      <4>4. b.first[pos].prefix = 0
          BY <4>3 DEF Inverted, Call
      <4> QED
          BY <1>6, <3>1, <4>4
    <3>2. body'[h].first = body[h].first
        BY <1>3, <1>5, <1>6, <1>7, <3>1
    <3>3. g # h
        BY <1>2, <2>4, BodyFacts, RevFacts
    <3> QED
        BY <1>7, <2>1, <2>4, <3>2, <3>3
  <2>5. CASE g # h /\ Rev(g) # h
      BY <1>7, <2>1, <2>5
  <2> QED
      BY <2>3, <2>4, <2>5
<1> QED
    BY <1>9, <1>10, <1>11, <1>12, <1>13 DEF RInv

LEMMA VisitReverseKeeps == RInv /\ VisitReverse => RInv'
<1> SUFFICES ASSUME RInv, VisitReverse PROVE RInv'
    OBVIOUS
<1>1. /\ Visiting /\ pos <= Len(CallsHere) /\ Here.prefix > 0 /\ Found(Here.to)
    BY DEF VisitReverse
<1>2. Here.to \in Names /\ building = <<>> /\ source \in Programs
    BY <1>1, HereFacts DEF RInv, Types, Visiting
<1>3. CASE ReplaceBy(Here.to)
    BY <1>1, <1>2, <1>3, ReplaceKeeps
<1>4. CASE ReplaceBy(InverseOf(Here.to))
  <2>1. InverseOf(Here.to) \in Names
      BY <1>2, InverseFacts
  <2>2. Fn(InverseOf(Here.to).base) \in DOMAIN source.body =>
            InverseOf(Here.to).base = Here.to.base
      BY <1>2, InverseBase
  <2> QED
      BY <1>1, <1>4, <2>1, <2>2, ReplaceKeeps
<1>5. CASE ~HasInverse(Here.to) /\ Here.to \in DOMAIN body /\ Clone(Here.to)
  <2>1. Here.to \in DOMAIN body /\ Rev(Here.to) \notin DOMAIN body
      BY <1>5 DEF HasInverse
  <2>2. \A k \in DOMAIN building : Depth(Here.to) < Depth(building[k].fn)
      BY <1>2
  <2> HIDE DEF Here
  <2> QED
      BY <1>5, <2>1, <2>2, CloneKeeps
<1> QED
    BY <1>3, <1>4, <1>5 DEF VisitReverse

LEMMA NextRInv == RInv /\ [Next]_vars => RInv'
<1> SUFFICES ASSUME RInv, [Next]_vars PROVE RInv'
    OBVIOUS
<1>1. CASE VisitReverse
    BY <1>1, VisitReverseKeeps
<1>2. CASE InvertCall
    BY <1>2, InvertCallKeeps
<1>3. CASE CloneCallee
    BY <1>3, CloneCalleeKeeps
<1>4. CASE EndInverse
    BY <1>4, EndInverseKeeps
<1>5. CASE VisitPlain \/ NextFunction \/ VisitUnknown \/ CloneFails \/ Ended \/ UNCHANGED vars
  <2>1. UNCHANGED <<source, functions, body, building>>
      BY <1>5 DEF VisitPlain, NextFunction, VisitUnknown, CloneFails, Ended, vars
  <2>2. /\ fn' \in 1 .. Len(functions) /\ pos' \in Nat \ {0}
        /\ pc' \in {"visiting", "done", "crashed"}
    <3>1. Len(functions) \in Nat /\ fn \in 1 .. Len(functions) /\ pos \in Nat \ {0}
          /\ pc \in {"visiting", "done", "crashed"}
        BY BodyFacts DEF RInv, Types
    <3> QED
        BY <1>5, <3>1 DEF VisitPlain, NextFunction, Walked, VisitUnknown, CloneFails, Ended, vars
  <2>3. Types'
      BY <2>1, <2>2 DEF RInv, Types, Listed
  <2> QED
      BY <2>1, <2>3, Unchanged DEF RInv
<1> QED
    BY <1>1, <1>2, <1>3, <1>4, <1>5 DEF Next

-----------------------------------------------------------------------------
(* Theorems.                                                               *)

\* The invariant: no inverse is copied half-made, and one that is done
\* mirrors its function.
THEOREM RInvHolds == Spec => []RInv
BY InitRInv, NextRInv, PTL DEF Spec

LEMMA MirrorsCallsFollows == RInv => MirrorsCalls
<1> SUFFICES ASSUME RInv, NEW f \in DOMAIN body, Rev(f) \in DOMAIN body,
                    \A k \in DOMAIN building : building[k].fn # Rev(f)
             PROVE  /\ Len(body[Rev(f)].first) = Len(body[f].first)
                    /\ \A i \in DOMAIN body[f].first :
                           body[Rev(f)].first[i] =
                               Inverted(body[f].first[Len(body[f].first) + 1 - i])
    BY DEF MirrorsCalls
<1> DEFINE b == body[f].first
           r == body[Rev(f)].first
<1>1. Turned(b, r, 0)
    BY DEF RInv, Made
<1>2. b \in Seq(SomeCall)
    BY BodyFacts, CallsFacts DEF RInv
<1> HIDE DEF b, r
<1>3. /\ Len(r) = Len(b) /\ Len(b) \in Nat /\ DOMAIN b = 1 .. Len(b)
      /\ \A i \in 1 .. Len(b) : r[0 + Len(b) + 1 - i] = Inverted(b[i])
  <2>1. Len(b) \in Nat /\ DOMAIN b = 1 .. Len(b) /\ \A i \in 1 .. Len(b) : ~(i <= 0)
      BY <1>2
  <2> QED
      BY <1>1, <2>1 DEF Turned
<1>4. ASSUME NEW i \in DOMAIN b PROVE r[i] = Inverted(b[Len(b) + 1 - i])
  <2>1. Len(b) + 1 - i \in 1 .. Len(b) /\ 0 + Len(b) + 1 - (Len(b) + 1 - i) = i
      BY <1>3
  <2> QED
      BY <1>3, <2>1
<1> QED
    BY <1>3, <1>4 DEF b, r

\* An inverse that is not being made has the inverted calls of its function
\* in reverse order, whatever was visited or made in between.
THEOREM MirrorsCallsHolds == Spec => []MirrorsCalls
BY RInvHolds, MirrorsCallsFollows, PTL

-----------------------------------------------------------------------------
(* The walk.                                                               *)

LEMMA NewCall ==
    ASSUME NEW f \in Names, HasInverse(f)
    PROVE  /\ InverseOf(f) \in Names
           /\ InverseOf(f).rev > 0 => InverseOf(f) \in DOMAIN body
           /\ IsIntrinsic(f) => IsIntrinsic(InverseOf(f))
           /\ ~IsIntrinsic(f) => /\ InverseOf(f) \in DOMAIN body
                                 /\ InverseOf(f).base = f.base
<1>1. /\ InverseOf(f) \in Names
      /\ IsIntrinsic(f) => IsIntrinsic(InverseOf(f))
      /\ ~IsIntrinsic(f) => InverseOf(f) = Rev(f)
    BY InverseFacts
<1>2. ~IsIntrinsic(f) => Rev(f) \in DOMAIN body
    BY DEF HasInverse
<1>3. IsIntrinsic(InverseOf(f)) => ~(InverseOf(f).rev > 0)
    BY DEF IsIntrinsic
<1>4. Rev(f).base = f.base
    BY RevFacts
<1> QED
    BY <1>1, <1>2, <1>3, <1>4

\* What an inversion leaves in the bodies.
LEMMA InvertCallFacts ==
    ASSUME RInv, InvertCall
    PROVE  LET g == Top.fn
               c == Call(InverseOf(TopCall.to)) IN
           /\ DOMAIN body' = DOMAIN body
           /\ \A h \in DOMAIN body : h # g => body'[h] = body[h]
           /\ \A k \in DOMAIN Calls(body'[g]) :
                  \/ Calls(body'[g])[k] = c
                  \/ \E j \in DOMAIN Calls(body[g]) : Calls(body'[g])[k] = Calls(body[g])[j]
           /\ \E j \in DOMAIN Calls(body[g]) : TopCall = Calls(body[g])[j]
<1> DEFINE g == Top.fn
           n == Top.left
           r == body[g].first
           o == body[g].rest
           c == Call(InverseOf(TopCall.to))
           m == MovedLast(r, n, c)
<1>1. /\ Building /\ n > 0
      /\ body' = [body EXCEPT ![g].first = m]
    BY DEF InvertCall
<1>2. g \in DOMAIN body /\ body[g] \in Bodies /\ n \in DOMAIN r /\ TopCall \in SomeCall
    BY <1>1, TopFacts
<1>3. r \in Seq(SomeCall) /\ o \in Seq(SomeCall) /\ Len(r) \in Nat /\ Len(o) \in Nat
    BY <1>2, CallsFacts
<1>4. c \in SomeCall
    BY <1>2, InverseFacts DEF SomeCall, Call
<1> DEFINE b == [first |-> m, rest |-> o]
<1>5. /\ DOMAIN body' = DOMAIN body /\ body'[g] = b
      /\ \A h \in DOMAIN body : h # g => body'[h] = body[h]
  <2>1. body[g] = [first |-> r, rest |-> o]
      BY <1>2 DEF Bodies
  <2> QED
      BY <1>1, <1>2, <2>1
<1>6. /\ m \in Seq(SomeCall) /\ Len(m) = Len(r)
      /\ \A k \in 1 .. Len(r) : m[k] = IF k < n THEN r[k] ELSE IF k < Len(r) THEN r[k + 1] ELSE c
  <2> HIDE DEF r, c, n
  <2>1. n \in 1 .. Len(r)
      BY <1>2, <1>3
  <2> QED
      BY <1>3, <1>4, <2>1, MovedFacts DEF m
<1>7. b \in Bodies /\ b.first = m /\ b.rest = o
    BY <1>3, <1>6 DEF Bodies
<1>8. /\ Len(Calls(body[g])) = Len(r) + Len(o) /\ DOMAIN Calls(body[g]) = 1 .. Len(r) + Len(o)
      /\ \A k \in 1 .. Len(r) + Len(o) :
             Calls(body[g])[k] = IF k <= Len(r) THEN r[k] ELSE o[k - Len(r)]
  <2> DEFINE y == Calls(body[g])
  <2>1. /\ y \in Seq(SomeCall) /\ Len(y) = Len(r) + Len(o)
        /\ \A k \in 1 .. Len(r) + Len(o) : y[k] = IF k <= Len(r) THEN r[k] ELSE o[k - Len(r)]
      BY <1>2, CallsFacts
  <2> HIDE DEF y
  <2>2. DOMAIN y = 1 .. Len(y)
      BY <2>1, DomainIs
  <2> QED
      BY <2>1, <2>2 DEF y
<1> HIDE DEF b, m
<1>9. /\ DOMAIN Calls(b) = 1 .. Len(r) + Len(o)
      /\ \A k \in 1 .. Len(r) + Len(o) :
             Calls(b)[k] = IF k <= Len(r) THEN m[k] ELSE o[k - Len(r)]
  <2> DEFINE y == Calls(b)
  <2>1. /\ y \in Seq(SomeCall) /\ Len(y) = Len(r) + Len(o)
        /\ \A k \in 1 .. Len(r) + Len(o) : y[k] = IF k <= Len(r) THEN m[k] ELSE o[k - Len(r)]
      BY <1>6, <1>7, CallsFacts
  <2> HIDE DEF y
  <2>2. DOMAIN y = 1 .. Len(y)
      BY <2>1, DomainIs
  <2> QED
      BY <2>1, <2>2 DEF y
<1>10. n \in DOMAIN Calls(body[g]) /\ TopCall = Calls(body[g])[n]
    BY <1>2, FirstCalls DEF TopCall
<1>11. ASSUME NEW k \in DOMAIN Calls(b)
       PROVE  Calls(b)[k] = c \/ \E j \in DOMAIN Calls(body[g]) : Calls(b)[k] = Calls(body[g])[j]
  <2> HIDE DEF r, o, c, n
  <2>1. k \in 1 .. Len(r) + Len(o)
      BY <1>9
  <2>2. CASE k > Len(r)
      BY <1>3, <1>8, <1>9, <2>1, <2>2
  <2>3. CASE k <= Len(r)
    <3>1. k \in 1 .. Len(r) /\ Calls(b)[k] = m[k]
        BY <1>3, <1>9, <2>1, <2>3
    <3>2. CASE m[k] = c
        BY <3>1, <3>2
    <3>3. CASE m[k] = r[k]
        BY <1>3, <1>8, <2>1, <2>3, <3>1, <3>3
    <3>4. CASE k < Len(r) /\ m[k] = r[k + 1]
      <4>1. k + 1 \in 1 .. Len(r) + Len(o) /\ k + 1 <= Len(r)
          BY <1>3, <3>1, <3>4
      <4> QED
          BY <1>8, <3>1, <3>4, <4>1
    <3> QED
        BY <1>6, <3>1, <3>2, <3>3, <3>4
  <2> QED
      BY <1>3, <2>1, <2>2, <2>3
<1> HIDE DEF g, c, n
<1> QED
    BY <1>5, <1>10, <1>11 DEF g, c, n

\* What a replacement leaves in them.
LEMMA ReplaceFacts ==
    ASSUME Types, Visiting, pos <= Len(CallsHere), NEW f \in Names, ReplaceBy(f)
    PROVE  LET h == functions[fn] IN
           /\ h \in DOMAIN body /\ DOMAIN body' = DOMAIN body
           /\ \A g \in DOMAIN body : g # h => body'[g] = body[g]
           /\ DOMAIN Calls(body'[h]) = DOMAIN Calls(body[h]) /\ pos \in DOMAIN Calls(body[h])
           /\ \A k \in DOMAIN Calls(body[h]) :
                  Calls(body'[h])[k] = IF k = pos THEN Call(f) ELSE Calls(body[h])[k]
<1> DEFINE h == functions[fn]
           b == body[h]
           c == Call(f)
           w == WithCall(b, pos, c)
<1>1. h \in DOMAIN body /\ b \in Bodies /\ pos \in 1 .. Len(Calls(b))
    BY HereFacts DEF CallsHere
<1>2. body' = [body EXCEPT ![h] = w]
    BY DEF ReplaceBy
<1>3. c \in SomeCall
    BY DEF Call, SomeCall
<1>4. /\ w \in Bodies /\ Len(Calls(w)) = Len(Calls(b))
      /\ \A k \in 1 .. Len(Calls(b)) : Calls(w)[k] = IF k = pos THEN c ELSE Calls(b)[k]
  <2> HIDE DEF b, c
  <2> QED
      BY <1>1, <1>3, WithCallFacts
<1>5. DOMAIN Calls(w) = 1 .. Len(Calls(b)) /\ DOMAIN Calls(b) = 1 .. Len(Calls(b))
  <2> DEFINE x == Calls(w)
             y == Calls(b)
  <2>1. x \in Seq(SomeCall) /\ y \in Seq(SomeCall) /\ Len(x) = Len(y)
      BY <1>1, <1>4, CallsFacts
  <2> HIDE DEF x, y
  <2>2. DOMAIN x = 1 .. Len(y) /\ DOMAIN y = 1 .. Len(y)
      BY <2>1
  <2> QED
      BY <2>2 DEF x, y
<1>6. /\ DOMAIN body' = DOMAIN body /\ body'[h] = w
      /\ \A g \in DOMAIN body : g # h => body'[g] = body[g]
    BY <1>1, <1>2
<1> HIDE DEF w, c
<1> QED
    BY <1>1, <1>4, <1>5, <1>6 DEF c

LEMMA ReplaceWalk ==
    ASSUME RInv, Replaced, Visiting, pos <= Len(CallsHere),
           NEW f \in Names, f.rev > 0 => f \in DOMAIN body, ReplaceBy(f)
    PROVE  Replaced'
<1> DEFINE h == functions[fn]
<1>1. /\ h \in DOMAIN body /\ DOMAIN body' = DOMAIN body
      /\ \A g \in DOMAIN body : g # h => body'[g] = body[g]
      /\ DOMAIN Calls(body'[h]) = DOMAIN Calls(body[h]) /\ pos \in DOMAIN Calls(body[h])
      /\ \A k \in DOMAIN Calls(body[h]) :
             Calls(body'[h])[k] = IF k = pos THEN Call(f) ELSE Calls(body[h])[k]
    BY ReplaceFacts DEF RInv
<1>2. /\ pos' = pos + 1 /\ UNCHANGED <<functions, fn, building, pc>>
      /\ building = <<>> /\ pc = "visiting"
    BY DEF ReplaceBy, Visiting
<1>3. Call(f).to = f /\ Call(f).prefix = 0
    BY DEF Call
<1>4. /\ functions \in Seq(Names) /\ fn \in 1 .. Len(functions) /\ pos \in Nat \ {0}
      /\ Len(functions) \in Nat
      /\ \A i \in 1 .. Len(functions) : functions[i] \in DOMAIN body
  <2>1. functions \in Seq(Names) /\ DOMAIN body = Listed
      BY DEF RInv, Types
  <2> QED
      BY <2>1 DEF RInv, Types, Listed
<1>5. ASSUME NEW g \in DOMAIN body, NEW k \in DOMAIN Calls(body'[g]),
             Calls(body'[g])[k].to.rev > 0
      PROVE  Calls(body'[g])[k].to \in DOMAIN body
    BY <1>1, <1>3, <1>5 DEF Replaced
<1>6. ASSUME NEW g \in DOMAIN body, PrefixFree(g), NEW k \in DOMAIN Calls(body'[g])
      PROVE  Calls(body'[g])[k].prefix = 0
    BY <1>1, <1>3, <1>6 DEF PrefixFree
<1>7. ASSUME NEW i \in 1 .. fn - 1, NEW k \in DOMAIN Calls(body'[functions[i]])
      PROVE  Calls(body'[functions[i]])[k].prefix = 0
  <2>1. i \in 1 .. Len(functions)
      BY <1>4
  <2> QED
      BY <1>4, <1>6, <2>1 DEF Replaced
<1>8. ASSUME NEW k \in DOMAIN Calls(body'[h]), k < pos + 1
      PROVE  Calls(body'[h])[k].prefix = 0
  <2>1. CASE k = pos
      BY <1>1, <1>3, <2>1
  <2>2. CASE k # pos
    <3>1. body[h] \in Bodies
        BY <1>1, BodyFacts DEF RInv
    <3>2. Calls(body[h]) \in Seq(SomeCall)
        BY <3>1, CallsFacts
    <3>3. k \in DOMAIN Calls(body[h])
        BY <1>1
    <3>4. k \in Int
        BY <3>2, <3>3
    <3>5. k < pos
        BY <1>4, <1>8, <2>2, <3>4
    <3> QED
        BY <1>1, <2>2, <3>3, <3>5 DEF Replaced
  <2> QED
      BY <2>1, <2>2
<1> QED
    BY <1>1, <1>2, <1>5, <1>7, <1>8 DEF Replaced, PrefixFree

LEMMA ListFacts ==
    ASSUME Types
    PROVE  /\ \A f \in DOMAIN body : /\ Calls(body[f]) \in Seq(SomeCall)
                                     /\ DOMAIN Calls(body[f]) = 1 .. Len(Calls(body[f]))
                                     /\ Len(Calls(body[f])) \in Nat
           /\ functions \in Seq(Names) /\ Len(functions) \in Nat
           /\ DOMAIN functions = 1 .. Len(functions)
           /\ \A i \in 1 .. Len(functions) : functions[i] \in DOMAIN body
           /\ fn \in 1 .. Len(functions) /\ pos \in Nat \ {0}
<1>1. \A f \in DOMAIN body : body[f] \in Bodies
    BY BodyFacts
<1>2. \A f \in DOMAIN body : Calls(body[f]) \in Seq(SomeCall)
    BY <1>1, CallsFacts
<1>3. functions \in Seq(Names) /\ DOMAIN body = Listed /\ fn \in 1 .. Len(functions)
      /\ pos \in Nat \ {0}
    BY DEF Types
<1>4. DOMAIN functions = 1 .. Len(functions) /\ Len(functions) \in Nat
    BY <1>3, DomainIs
<1> QED
    BY <1>2, <1>3, <1>4, DomainIs DEF Listed

LEMMA CloneFacts ==
    ASSUME Types, NEW g \in DOMAIN body, Rev(g) \notin DOMAIN body, Clone(g)
    PROVE  /\ DOMAIN body' = DOMAIN body \cup {Rev(g)}
           /\ body'[Rev(g)] = body[g]
           /\ \A h \in DOMAIN body : body'[h] = body[h]
           /\ Len(functions') = Len(functions) + 1
           /\ DOMAIN functions' = 1 .. Len(functions) + 1
           /\ \A i \in 1 .. Len(functions) : functions'[i] = functions[i]
           /\ functions'[Len(functions) + 1] = Rev(g)
           /\ DOMAIN building' = DOMAIN building \cup {Len(building) + 1}
           /\ \A k \in DOMAIN building : building'[k] = building[k]
           /\ building'[Len(building) + 1].fn = Rev(g)
           /\ UNCHANGED <<source, fn, pos, pc>>
<1> DEFINE n == Len(body[g].first)
           e == [fn |-> Rev(g), left |-> n]
           E == [fn : Names, left : Nat]
<1>1. /\ DOMAIN body' = DOMAIN body \cup {Rev(g)}
      /\ body'[Rev(g)] = body[g]
      /\ \A h \in DOMAIN body : body'[h] = body[h]
      /\ functions' = Append(functions, Rev(g)) /\ building' = Append(building, e)
      /\ UNCHANGED <<source, fn, pos, pc>>
    BY DEF Clone
<1>2. Rev(g) \in Names /\ n \in Nat
    BY BodyFacts, RevFacts, CallsFacts
<1>3. e \in E /\ e.fn = Rev(g) /\ functions \in Seq(Names) /\ building \in Seq(E)
    BY <1>2 DEF Types
<1> HIDE DEF e, E
<1>4. /\ functions' \in Seq(Names) /\ Len(functions') = Len(functions) + 1
      /\ \A i \in 1 .. Len(functions) : functions'[i] = functions[i]
      /\ functions'[Len(functions) + 1] = Rev(g)
    BY <1>1, <1>2, <1>3
<1>5. /\ building' \in Seq(E) /\ Len(building') = Len(building) + 1 /\ Len(building) \in Nat
      /\ \A k \in 1 .. Len(building) : building'[k] = building[k]
      /\ building'[Len(building) + 1] = e
    BY <1>1, <1>3
<1>6. DOMAIN building = 1 .. Len(building) /\ DOMAIN building' = 1 .. Len(building) + 1
      /\ DOMAIN functions' = 1 .. Len(functions) + 1
    BY <1>3, <1>4, <1>5, DomainIs
<1>7. 1 .. Len(building) + 1 = (1 .. Len(building)) \cup {Len(building) + 1}
    BY <1>5
<1> QED
    BY <1>1, <1>3, <1>4, <1>5, <1>6, <1>7

LEMMA CloneWalk ==
    ASSUME RInv, Replaced, pc = "visiting",
           NEW g \in DOMAIN body, Rev(g) \notin DOMAIN body, Clone(g)
    PROVE  Replaced'
<1>1. /\ DOMAIN body' = DOMAIN body \cup {Rev(g)}
      /\ body'[Rev(g)] = body[g]
      /\ \A h \in DOMAIN body : body'[h] = body[h]
      /\ \A i \in 1 .. Len(functions) : functions'[i] = functions[i]
      /\ DOMAIN building' = DOMAIN building \cup {Len(building) + 1}
      /\ \A k \in DOMAIN building : building'[k] = building[k]
      /\ building'[Len(building) + 1].fn = Rev(g)
      /\ UNCHANGED <<source, fn, pos, pc>>
    BY CloneFacts DEF RInv
<1>2. /\ \A i \in 1 .. Len(functions) : functions[i] \in DOMAIN body
      /\ fn \in 1 .. Len(functions) /\ Len(functions) \in Nat
    BY ListFacts DEF RInv
<1>3. \A i \in 1 .. fn : i \in 1 .. Len(functions) /\ functions'[i] = functions[i]
    BY <1>1, <1>2
<1>4. ASSUME NEW f \in DOMAIN body', NEW k \in DOMAIN Calls(body'[f]),
             Calls(body'[f])[k].to.rev > 0
      PROVE  Calls(body'[f])[k].to \in DOMAIN body'
    BY <1>1, <1>4 DEF Replaced
<1>5. ASSUME NEW i \in 1 .. fn - 1, NEW k \in DOMAIN Calls(body'[functions'[i]])
      PROVE  Calls(body'[functions'[i]])[k].prefix = 0
  <2>1. i \in 1 .. fn
      BY <1>2
  <2>2. functions'[i] = functions[i] /\ body'[functions[i]] = body[functions[i]]
      BY <1>1, <1>2, <1>3, <2>1
  <2> QED
      BY <2>2, <1>5 DEF Replaced, PrefixFree
<1>6. functions'[fn] = functions[fn] /\ body'[functions[fn]] = body[functions[fn]]
    BY <1>1, <1>2
<1>7. ASSUME NEW k \in DOMAIN building', NEW i \in 1 .. fn
      PROVE  building'[k].fn # functions'[i]
  <2>1. functions'[i] \in DOMAIN body /\ functions'[i] = functions[i]
      BY <1>2, <1>3
  <2>2. CASE k \in DOMAIN building
      BY <1>1, <2>1, <2>2 DEF Replaced
  <2>3. CASE k = Len(building) + 1
      BY <1>1, <2>1, <2>3
  <2> QED
      BY <1>1, <2>2, <2>3
<1> QED
    BY <1>1, <1>4, <1>5, <1>6, <1>7 DEF Replaced, PrefixFree

LEMMA InvertWalk == RInv /\ Replaced /\ InvertCall => Replaced'
<1> SUFFICES ASSUME RInv, Replaced, InvertCall PROVE Replaced'
    OBVIOUS
<1> DEFINE g == Top.fn
           c == Call(InverseOf(TopCall.to))
<1>1. /\ DOMAIN body' = DOMAIN body
      /\ \A h \in DOMAIN body : h # g => body'[h] = body[h]
      /\ \A k \in DOMAIN Calls(body'[g]) :
             \/ Calls(body'[g])[k] = c
             \/ \E j \in DOMAIN Calls(body[g]) : Calls(body'[g])[k] = Calls(body[g])[j]
    BY InvertCallFacts
<1>2. /\ Building /\ Top.left > 0 /\ HasInverse(TopCall.to) /\ pc = "visiting"
      /\ UNCHANGED <<source, functions, fn, pos, pc>>
      /\ building' = [building EXCEPT ![Len(building)].left = @ - 1]
    BY DEF InvertCall, Building
<1>3. /\ g \in DOMAIN body /\ TopCall.to \in Names
      /\ \A i \in 1 .. fn : g # functions[i] /\ functions[i] \in DOMAIN body
  <2>1. g \in DOMAIN body /\ TopCall \in SomeCall /\ Len(building) \in DOMAIN building
      BY <1>2, TopFacts
  <2>2. \A i \in 1 .. fn : g # functions[i]
      BY <2>1 DEF Replaced, Top
  <2>3. \A i \in 1 .. fn : functions[i] \in DOMAIN body
    <3>1. /\ \A i \in 1 .. Len(functions) : functions[i] \in DOMAIN body
          /\ fn \in 1 .. Len(functions) /\ Len(functions) \in Nat
        BY ListFacts DEF RInv
    <3> QED
        BY <3>1
  <2> QED
      BY <2>1, <2>2, <2>3 DEF SomeCall
<1>4. c.to = InverseOf(TopCall.to) /\ (c.to.rev > 0 => c.to \in DOMAIN body)
    BY <1>2, <1>3, NewCall DEF Call
<1>5. /\ DOMAIN building' = DOMAIN building
      /\ \A k \in DOMAIN building : building'[k].fn = building[k].fn
  <2>1. DOMAIN building' = DOMAIN building
        /\ \A k \in DOMAIN building : k # Len(building) => building'[k] = building[k]
      BY <1>2
  <2>2. building[Len(building)] = [fn |-> Top.fn, left |-> Top.left] /\ Len(building) \in DOMAIN building
    <3>1. Top \in [fn : Names, left : Nat] /\ Len(building) \in DOMAIN building
        BY <1>2, TopFacts
    <3> QED
        BY <3>1 DEF Top
  <2>3. building'[Len(building)] = [building[Len(building)] EXCEPT !.left = @ - 1]
      BY <1>2, <2>2
  <2>4. building'[Len(building)].fn = building[Len(building)].fn
      BY <2>2, <2>3
  <2> QED
      BY <2>1, <2>4
<1> HIDE DEF g, c
<1>6. ASSUME NEW f \in DOMAIN body, NEW k \in DOMAIN Calls(body'[f]),
             Calls(body'[f])[k].to.rev > 0
      PROVE  Calls(body'[f])[k].to \in DOMAIN body
    BY <1>1, <1>4, <1>6 DEF Replaced
<1>7. ASSUME NEW i \in 1 .. fn PROVE body'[functions[i]] = body[functions[i]]
    BY <1>1, <1>3
<1>8. \A i \in 1 .. fn - 1 : i \in 1 .. fn
  <2>1. fn \in Int
      BY ListFacts DEF RInv
  <2> QED
      BY <2>1
<1>9. fn \in 1 .. fn
    BY ListFacts DEF RInv
<1>10. \A i \in 1 .. fn - 1 : PrefixFree(functions[i])'
    BY <1>2, <1>7, <1>8 DEF Replaced, PrefixFree
<1> QED
    BY <1>1, <1>2, <1>5, <1>6, <1>7, <1>9, <1>10 DEF Replaced

LEMMA NextReplaced == RInv /\ Replaced /\ [Next]_vars => Replaced'
<1> SUFFICES ASSUME RInv, Replaced, [Next]_vars PROVE Replaced'
    OBVIOUS
<1>0. /\ \A f \in DOMAIN body : /\ DOMAIN Calls(body[f]) = 1 .. Len(Calls(body[f]))
                                /\ Len(Calls(body[f])) \in Nat
      /\ functions[fn] \in DOMAIN body
      /\ fn \in 1 .. Len(functions) /\ pos \in Nat \ {0}
      /\ Len(functions) \in Nat
    BY ListFacts DEF RInv
<1>1. CASE VisitPlain
  <2>1. /\ pc = "visiting" /\ pos' = pos + 1 /\ pos <= Len(CallsHere)
        /\ CallsHere[pos].prefix = 0
        /\ UNCHANGED <<source, functions, body, fn, building, pc>>
      BY <1>1 DEF VisitPlain, Visiting, Here
  <2>2. \A k \in DOMAIN CallsHere : k < pos + 1 => CallsHere[k].prefix = 0
    <3>1. \A k \in DOMAIN CallsHere : k < pos => CallsHere[k].prefix = 0
        BY DEF Replaced, CallsHere
    <3>2. \A k \in DOMAIN CallsHere : k < pos + 1 => k < pos \/ k = pos
        BY <1>0 DEF CallsHere
    <3> QED
        BY <2>1, <3>1, <3>2
  <2> QED
      BY <2>1, <2>2 DEF Replaced, PrefixFree, CallsHere
<1>2. CASE VisitReverse
  <2>1. /\ Visiting /\ pc = "visiting" /\ pos <= Len(CallsHere) /\ Here.prefix > 0 /\ Found(Here.to)
        /\ Here.to \in Names /\ functions[fn] \in DOMAIN body /\ pos \in 1 .. Len(CallsHere)
      BY <1>2, HereFacts DEF VisitReverse, RInv, Visiting
  <2>2. CASE ReplaceBy(Here.to)
    <3>1. Here.to.rev > 0 => Here.to \in DOMAIN body
        BY <1>0, <2>1 DEF Replaced, Here, CallsHere
    <3> QED
        BY <2>1, <2>2, <3>1, ReplaceWalk
  <2>3. CASE HasInverse(Here.to) /\ ReplaceBy(InverseOf(Here.to))
      BY <2>1, <2>3, NewCall, ReplaceWalk
  <2>4. CASE ~HasInverse(Here.to) /\ Here.to \in DOMAIN body /\ Clone(Here.to)
    <3>1. Here.to \in DOMAIN body /\ Rev(Here.to) \notin DOMAIN body
        BY <2>4 DEF HasInverse
    <3> HIDE DEF Here
    <3> QED
        BY <2>1, <2>4, <3>1, CloneWalk
  <2> QED
      BY <1>2, <2>2, <2>3, <2>4 DEF VisitReverse
<1>3. CASE NextFunction
  <2>1. /\ pc = "visiting" /\ building = <<>> /\ pos > Len(CallsHere)
        /\ UNCHANGED <<source, functions, body, building>>
      BY <1>3 DEF NextFunction, Visiting
  <2>2. PrefixFree(functions[fn])
    <3>1. \A k \in DOMAIN CallsHere : k < pos
        BY <1>0, <2>1 DEF CallsHere
    <3> QED
        BY <3>1 DEF Replaced, PrefixFree, CallsHere
  <2>3. CASE fn < Walked /\ fn' = fn + 1 /\ pos' = 1 /\ pc' = pc
    <3>1. \A i \in 1 .. fn' - 1 : PrefixFree(functions[i])
      <4>1. \A i \in 1 .. fn' - 1 : i \in 1 .. fn - 1 \/ i = fn
          BY <1>0, <2>3
      <4> QED
          BY <2>2, <4>1 DEF Replaced
    <3>2. \A f \in DOMAIN body : \A k \in DOMAIN Calls(body[f]) : ~(k < 1)
        BY <1>0
    <3>3. functions[fn'] \in DOMAIN body
      <4>1. fn + 1 \in 1 .. Len(functions)
          BY <1>0, <2>3 DEF Walked
      <4> QED
          BY <2>3, <4>1, ListFacts DEF RInv
    <3> QED
        BY <2>1, <2>3, <3>1, <3>2, <3>3 DEF Replaced, PrefixFree
  <2>4. CASE ~(fn < Walked) /\ pc' = "done" /\ UNCHANGED <<fn, pos>>
    <3>1. fn = Len(functions)
        BY <1>0, <2>4 DEF Walked
    <3> QED
        BY <2>1, <2>4, <3>1 DEF Replaced, PrefixFree, CallsHere
  <2> QED
      BY <1>3, <2>3, <2>4 DEF NextFunction
<1>4. CASE InvertCall
    BY <1>4, InvertWalk
<1>5. CASE CloneCallee
  <2>1. /\ pc = "visiting" /\ Clone(TopCall.to)
        /\ TopCall.to \in DOMAIN body /\ Rev(TopCall.to) \notin DOMAIN body
      BY <1>5 DEF CloneCallee, HasInverse, Building
  <2> HIDE DEF TopCall
  <2> QED
      BY <2>1, CloneWalk
<1>6. CASE EndInverse
  <2>1. /\ pc = "visiting" /\ UNCHANGED <<source, functions, body, fn, pos, pc>>
        /\ building' = SubSeq(building, 1, Len(building) - 1)
        /\ building # <<>> /\ building \in Seq([fn : Names, left : Nat])
      BY <1>6 DEF EndInverse, Building, RInv, Types
  <2>2. \A k \in DOMAIN building' : k \in DOMAIN building /\ building'[k] = building[k]
    <3> DEFINE E == [fn : Names, left : Nat]
    <3>1. building \in Seq(E)
        BY <2>1
    <3> HIDE DEF E
    <3>2. Len(building) \in Nat \ {0} /\ DOMAIN building = 1 .. Len(building)
        BY <2>1, <3>1
    <3>3. /\ building' \in Seq(E) /\ Len(building') = Len(building) - 1
          /\ \A k \in 1 .. Len(building) - 1 : building'[k] = building[k]
        BY <2>1, <3>1, <3>2
    <3> QED
        BY <3>2, <3>3, DomainIs
  <2> QED
      BY <2>1, <2>2 DEF Replaced, PrefixFree
<1>7. CASE VisitUnknown \/ CloneFails
    BY <1>7 DEF VisitUnknown, CloneFails, Replaced, PrefixFree
<1>8. CASE Ended \/ UNCHANGED vars
    BY <1>8 DEF Ended, vars, Replaced, PrefixFree
<1> QED
    BY <1>1, <1>2, <1>3, <1>4, <1>5, <1>6, <1>7, <1>8 DEF Next

LEMMA InitReplaced == Init => Replaced
<1> SUFFICES ASSUME Init PROVE Replaced
    OBVIOUS
<1>1. RInv
    BY InitRInv
<1>2. ASSUME NEW f \in DOMAIN body, NEW k \in DOMAIN Calls(body[f])
      PROVE  ~(Calls(body[f])[k].to.rev > 0)
  <2> DEFINE Given == [base : STRING, rev : {0}]
             GivenCall == [to : Given, prefix : Nat]
  <2>1. source.body[f] \in [first : Seq(GivenCall), rest : Seq(GivenCall)]
      BY SourceFacts DEF Init
  <2>2. Calls(body[f]) \in Seq(GivenCall)
    <3> DEFINE x == body[f].first
               y == body[f].rest
    <3>1. x \in Seq(GivenCall) /\ y \in Seq(GivenCall)
        BY <2>1 DEF Init
    <3> HIDE DEF x, y, GivenCall
    <3>2. x \o y \in Seq(GivenCall)
        BY <3>1
    <3> QED
        BY <3>2 DEF Calls, x, y
  <2> HIDE DEF GivenCall
  <2>3. Calls(body[f])[k] \in GivenCall
      BY <1>2, <2>2
  <2>4. Calls(body[f])[k].to.rev = 0
      BY <2>3 DEF GivenCall
  <2> QED
      BY <2>4
<1>3. \A k \in DOMAIN Calls(body[functions[fn]]) : ~(k < pos)
  <2>1. functions[fn] \in DOMAIN body
      BY <1>1, BodyFacts DEF RInv
  <2>2. /\ DOMAIN Calls(body[functions[fn]]) = 1 .. Len(Calls(body[functions[fn]]))
        /\ Len(Calls(body[functions[fn]])) \in Nat
      BY <1>1, <2>1, ListFacts DEF RInv
  <2> QED
      BY <2>2 DEF Init
<1>4. /\ \A i \in 1 .. fn - 1 : PrefixFree(functions[i])
      /\ \A k \in DOMAIN building, i \in 1 .. fn : building[k].fn # functions[i]
      /\ pc # "done"
  <2>1. building = <<>> /\ fn = 1 /\ pc = "visiting"
      BY DEF Init
  <2>2. DOMAIN building = {} /\ 1 .. fn - 1 = {}
      BY <2>1
  <2> QED
      BY <2>1, <2>2
<1> QED
    BY <1>2, <1>3, <1>4 DEF Replaced

\* What the visitor has passed stays without prefixes, in the copies too.
THEOREM ReplacedHolds == Spec => []Replaced
<1>1. RInv /\ Replaced /\ [Next]_vars => Replaced'
    BY NextReplaced
<1> QED
    BY <1>1, InitReplaced, RInvHolds, PTL DEF Spec

LEMMA AllReplacedFollows == RInv /\ Replaced => AllReplaced
<1> SUFFICES ASSUME RInv, Replaced, pc = "done",
                    NEW f \in DOMAIN body, NEW k \in DOMAIN Calls(body[f])
             PROVE  /\ Calls(body[f])[k].prefix = 0
                    /\ Calls(body[f])[k].to.rev > 0 => Calls(body[f])[k].to \in DOMAIN body
    BY DEF AllReplaced
<1>1. /\ DOMAIN body = Listed /\ DOMAIN functions = 1 .. Len(functions)
      /\ Len(functions) \in Nat
      /\ DOMAIN Calls(body[f]) = 1 .. Len(Calls(body[f])) /\ Len(Calls(body[f])) \in Nat
    BY ListFacts DEF RInv, Types
<1>2. PICK i \in 1 .. Len(functions) : f = functions[i]
    BY <1>1 DEF Listed
<1>3. fn = Len(functions) /\ pos > Len(Calls(body[functions[fn]])) /\ pos \in Nat
    BY ListFacts DEF Replaced, RInv
<1>4. CASE i = fn
  <2>1. k < pos
      BY <1>1, <1>2, <1>3, <1>4
  <2> QED
      BY <1>2, <1>4, <2>1 DEF Replaced
<1>5. CASE i # fn
  <2>1. i \in 1 .. fn - 1
    <3>1. Len(functions) \in Nat /\ i # Len(functions)
        BY <1>1, <1>3, <1>5
    <3>2. i \in 1 .. Len(functions) - 1
        BY <3>1
    <3> QED
        BY <1>3, <3>2
  <2> QED
      BY <1>2, <2>1 DEF Replaced, PrefixFree
<1> QED
    BY <1>4, <1>5

\* In the end no call of the module has a prefix, and every inverse that is
\* called has a body.
THEOREM AllReplacedHolds == Spec => []AllReplaced
BY RInvHolds, ReplacedHolds, AllReplacedFollows, PTL

-----------------------------------------------------------------------------
(* Modules whose functions are defined before they are used.               *)

LEMMA PlaceFacts ==
    ASSUME source \in Programs, NEW f, Fn(f.base) \in DOMAIN source.body
    PROVE  /\ Place(f) \in 1 .. Len(source.functions)
           /\ source.functions[Place(f)] = Fn(f.base)
           /\ Len(source.functions) \in Nat
<1>1. source.functions \in Seq([base : STRING, rev : {0}])
    BY SourceFacts
<1>2. DOMAIN source.functions = 1 .. Len(source.functions) /\ Len(source.functions) \in Nat
    BY <1>1, DomainIs
<1>3. DOMAIN source.body = {source.functions[i] : i \in DOMAIN source.functions}
    BY SourceFacts
<1>4. \E i \in DOMAIN source.functions : source.functions[i] = Fn(f.base)
    BY <1>3
<1>5. Place(f) \in DOMAIN source.functions /\ source.functions[Place(f)] = Fn(f.base)
    BY <1>4, Zenon DEF Place
<1> QED
    BY <1>2, <1>5

LEMMA PlaceOf ==
    ASSUME source \in Programs, NEW i \in DOMAIN source.functions
    PROVE  /\ Place(source.functions[i]) = i
           /\ source.functions[i] \in DOMAIN source.body
<1> DEFINE f == source.functions[i]
<1>1. /\ \A j, k \in DOMAIN source.functions :
             source.functions[j] = source.functions[k] => j = k
      /\ f \in DOMAIN source.body /\ f \in [base : STRING, rev : {0}]
    BY SourceFacts
<1>2. Fn(f.base) = f
    BY <1>1 DEF Fn
<1>3. source.functions[Place(f)] = f /\ Place(f) \in DOMAIN source.functions
  <2>1. \E j \in DOMAIN source.functions : source.functions[j] = Fn(f.base)
      BY <1>2
  <2> HIDE DEF f
  <2> QED
      BY <1>2, <2>1, Zenon DEF Place
<1> QED
    BY <1>1, <1>3

LEMMA SamePlace ==
    ASSUME NEW f, NEW g, f.base = g.base
    PROVE  Place(f) = Place(g)
BY DEF Place

LEMMA PlaceKept ==
    ASSUME source' = source
    PROVE  \A f : Place(f)' = Place(f)
BY DEF Place

LEMMA InitOrdered == Init /\ InOrder => Ordered
<1> SUFFICES ASSUME Init, InOrder PROVE Ordered
    OBVIOUS
<1>1. /\ source \in Programs /\ functions = source.functions /\ body = source.body
      /\ pc = "visiting"
    BY DEF Init
<1>2. /\ source.functions \in Seq([base : STRING, rev : {0}])
      /\ DOMAIN source.body = {source.functions[i] : i \in DOMAIN source.functions}
      /\ \A f \in DOMAIN source.body : f \in [base : STRING, rev : {0}]
    BY <1>1, SourceFacts
<1>3. /\ DOMAIN source.functions = 1 .. Len(source.functions) /\ Len(source.functions) \in Nat
    BY <1>2, DomainIs
<1>4. ASSUME NEW f \in DOMAIN source.body, NEW k \in DOMAIN Calls(source.body[f])
      PROVE  Fits(f, Calls(source.body[f])[k])
  <2>1. PICK i \in DOMAIN source.functions : f = source.functions[i]
      BY <1>2
  <2> DEFINE c == Calls(source.body[f])[k]
  <2>2. \/ IsIntrinsic(c.to) /\ (c.prefix = 0 \/ c.to.base \notin Turns \cup OtherParameter)
        \/ \E j \in DOMAIN source.functions : j < i /\ c.to = source.functions[j]
      BY <1>4, <2>1 DEF InOrder
  <2>3. Place(f) = i
      BY <1>1, <2>1, PlaceOf
  <2>4. ASSUME NEW j \in DOMAIN source.functions, j < i, c.to = source.functions[j]
        PROVE  c.to \in DOMAIN body /\ Place(c.to) < Place(f)
      BY <1>1, <2>3, <2>4, PlaceOf
  <2> QED
      BY <2>2, <2>4 DEF Fits
<1>5. \A f \in DOMAIN body : ~(f.rev > 0)
    BY <1>1, <1>2
<1> QED
    BY <1>1, <1>3, <1>4, <1>5 DEF Ordered

\* The functions that the visitor has passed, and what they come to be in
\* the copies.
LEMMA PassedFree ==
    ASSUME RInv, Replaced, Ordered, NEW f \in DOMAIN body, Place(f) < fn
    PROVE  PrefixFree(f)
<1>1. CASE f.rev > 0
    BY <1>1 DEF Ordered
<1>2. CASE ~(f.rev > 0)
  <2>1. f \in Names /\ Fn(f.base) \in DOMAIN source.body /\ source \in Programs
      BY BodyFacts DEF RInv, Origins
  <2>2. Fn(f.base) = f
      BY <1>2, <2>1 DEF Names, Fn
  <2>3. Place(f) \in 1 .. Len(source.functions) /\ source.functions[Place(f)] = f
        /\ Len(source.functions) \in Nat
      BY <2>1, <2>2, PlaceFacts
  <2>4. Len(source.functions) <= Len(functions) /\ Len(functions) \in Nat
        /\ DOMAIN functions = 1 .. Len(functions)
      BY ListFacts DEF RInv, Ordered
  <2>5. Place(f) \in DOMAIN functions /\ Place(f) <= Len(source.functions)
      BY <2>3, <2>4
  <2>6. functions[Place(f)] = f
      BY <2>3, <2>5 DEF Ordered
  <2>7. Place(f) \in 1 .. fn - 1
    <3>1. fn \in Int
        BY ListFacts DEF RInv
    <3> QED
        BY <2>3, <3>1
  <2> QED
      BY <2>6, <2>7 DEF Replaced
<1> QED
    BY <1>1, <1>2

LEMMA CloneOrdered ==
    ASSUME RInv, Replaced, Ordered, NEW g \in DOMAIN body, Rev(g) \notin DOMAIN body,
           Clone(g), Place(g) < fn
    PROVE  Ordered'
<1>1. /\ DOMAIN body' = DOMAIN body \cup {Rev(g)}
      /\ body'[Rev(g)] = body[g]
      /\ \A h \in DOMAIN body : body'[h] = body[h]
      /\ Len(functions') = Len(functions) + 1
      /\ DOMAIN functions' = 1 .. Len(functions) + 1
      /\ \A i \in 1 .. Len(functions) : functions'[i] = functions[i]
      /\ functions'[Len(functions) + 1] = Rev(g)
      /\ UNCHANGED <<source, fn, pos, pc>>
    BY CloneFacts DEF RInv
<1>2. /\ Len(functions) \in Nat /\ DOMAIN functions = 1 .. Len(functions)
    BY ListFacts DEF RInv
<1>3. g \in Names /\ Rev(g).rev > 0 /\ Rev(g).base = g.base
  <2>1. g \in Names /\ g.rev \in Nat
      BY BodyFacts DEF RInv, Names
  <2> QED
      BY <2>1, RevFacts
<1>4. \A f : Place(f)' = Place(f)
    BY <1>1, PlaceKept
<1>5. Place(Rev(g)) = Place(g)
    BY <1>3, SamePlace
<1>6. Len(source.functions) \in Nat
  <2>1. source \in Programs /\ Fn(g.base) \in DOMAIN source.body
      BY DEF RInv, Types, Origins
  <2> QED
      BY <2>1, PlaceFacts
<1>7. ASSUME NEW i \in 1 .. Len(functions) + 1
      PROVE  IF i <= Len(source.functions) THEN functions'[i] = source.functions[i]
             ELSE functions'[i].rev > 0
  <2>1. CASE i \in 1 .. Len(functions)
      BY <1>1, <1>2, <2>1 DEF Ordered
  <2>2. CASE i = Len(functions) + 1
    <3>1. ~(i <= Len(source.functions))
        BY <1>2, <1>6, <2>2 DEF Ordered
    <3> QED
        BY <1>1, <1>3, <2>2, <3>1
  <2> QED
      BY <1>2, <2>1, <2>2
<1>8. ASSUME NEW f \in DOMAIN body', NEW k \in DOMAIN Calls(body'[f])
      PROVE  Fits(f, Calls(body[f])[k])'
  <2>1. ASSUME NEW h \in DOMAIN body, NEW j \in DOMAIN Calls(body[h])
        PROVE  Fits(h, Calls(body[h])[j])
      BY <2>1 DEF Ordered
  <2>2. CASE f \in DOMAIN body
      BY <1>1, <1>4, <1>8, <2>1, <2>2 DEF Fits
  <2>3. CASE f = Rev(g)
      BY <1>1, <1>4, <1>5, <1>8, <2>1, <2>3 DEF Fits
  <2> QED
      BY <1>1, <2>2, <2>3
<1>9. ASSUME NEW f \in DOMAIN body', f.rev > 0
      PROVE  PrefixFree(f)' /\ Place(f) < fn
  <2>1. CASE f \in DOMAIN body
      BY <1>1, <1>9, <2>1 DEF Ordered, PrefixFree
  <2>2. CASE f = Rev(g)
      BY <1>1, <1>5, <2>2, PassedFree DEF PrefixFree
  <2> QED
      BY <1>1, <2>1, <2>2
<1>10. Len(source.functions) <= Len(functions')
    BY <1>1, <1>2, <1>6 DEF Ordered
<1> QED
    BY <1>1, <1>4, <1>7, <1>8, <1>9, <1>10 DEF Ordered

\* Where the calls of one body are old ones or a fitting new one.
LEMMA BodyOrdered ==
    ASSUME Ordered, UNCHANGED <<source, functions, fn, pc>>,
           NEW g \in DOMAIN body, NEW c, c.prefix = 0, Fits(g, c),
           DOMAIN body' = DOMAIN body,
           \A h \in DOMAIN body : h # g => body'[h] = body[h],
           \A k \in DOMAIN Calls(body'[g]) :
               \/ Calls(body'[g])[k] = c
               \/ \E j \in DOMAIN Calls(body[g]) : Calls(body'[g])[k] = Calls(body[g])[j]
    PROVE  Ordered'
<1>1. \A f : Place(f)' = Place(f)
    BY PlaceKept
<1>2. ASSUME NEW f \in DOMAIN body, NEW k \in DOMAIN Calls(body'[f])
      PROVE  Fits(f, Calls(body[f])[k])'
  <2>1. Fits(f, Calls(body'[f])[k])
    <3>1. CASE f # g
        BY <1>2, <3>1 DEF Ordered
    <3>2. CASE f = g
        BY <1>2, <3>2 DEF Ordered
    <3> QED
        BY <3>1, <3>2
  <2> QED
      BY <1>1, <2>1 DEF Fits
<1>3. ASSUME NEW f \in DOMAIN body, f.rev > 0 PROVE PrefixFree(f)' /\ Place(f) < fn
  <2>1. PrefixFree(f) /\ Place(f) < fn
      BY <1>3 DEF Ordered
  <2>2. CASE f # g
      BY <2>1, <2>2 DEF PrefixFree
  <2>3. CASE f = g
      BY <2>1, <2>3 DEF PrefixFree
  <2> QED
      BY <2>1, <2>2, <2>3
<1> QED
    BY <1>1, <1>2, <1>3 DEF Ordered

LEMMA FitsInverse ==
    ASSUME NEW g, NEW c, c.to \in Names, HasInverse(c.to), Fits(g, c)
    PROVE  Fits(g, Call(InverseOf(c.to)))
<1>1. Call(InverseOf(c.to)).to = InverseOf(c.to) /\ Call(InverseOf(c.to)).prefix = 0
    BY DEF Call
<1>2. CASE IsIntrinsic(c.to)
    BY <1>1, <1>2, NewCall DEF Fits
<1>3. CASE ~IsIntrinsic(c.to)
  <2>1. InverseOf(c.to) \in DOMAIN body /\ InverseOf(c.to).base = c.to.base
      BY <1>3, NewCall
  <2>2. Place(c.to) < Place(g)
      BY <1>3 DEF Fits
  <2>3. Place(InverseOf(c.to)) = Place(c.to)
      BY <2>1, SamePlace
  <2> QED
      BY <1>1, <2>1, <2>2, <2>3 DEF Fits
<1> QED
    BY <1>2, <1>3

\* The call that an inverse in the making is at.
LEMMA TopOrdered ==
    ASSUME RInv, Ordered, Building, Top.left > 0
    PROVE  /\ Top.fn \in DOMAIN body /\ TopCall.to \in Names /\ TopCall.prefix = 0
           /\ Fits(Top.fn, TopCall) /\ Place(Top.fn) < fn
<1>1. /\ Top.fn \in DOMAIN body /\ body[Top.fn] \in Bodies
      /\ Top.left \in DOMAIN body[Top.fn].first /\ TopCall \in SomeCall
    BY TopFacts
<1>2. PICK f \in DOMAIN body : Top.fn = Rev(f)
    BY TopFacts
<1>3. Top.fn.rev > 0
  <2>1. f \in Names /\ f.rev \in Nat
      BY BodyFacts DEF RInv, Names
  <2> QED
      BY <1>2, <2>1, RevFacts
<1>4. PrefixFree(Top.fn) /\ Place(Top.fn) < fn
    BY <1>1, <1>3 DEF Ordered
<1>5. Top.left \in DOMAIN Calls(body[Top.fn]) /\ Calls(body[Top.fn])[Top.left] = TopCall
    BY <1>1, FirstCalls DEF TopCall
<1>6. TopCall.prefix = 0
    BY <1>4, <1>5 DEF PrefixFree
<1>7. Fits(Top.fn, TopCall)
    BY <1>1, <1>5 DEF Ordered
<1> QED
    BY <1>1, <1>4, <1>6, <1>7 DEF SomeCall

\* The function of a call with prefixes is one that the visitor has passed.
LEMMA HereOrdered ==
    ASSUME RInv, Ordered, Visiting, pos <= Len(CallsHere), Here.prefix > 0
    PROVE  /\ Fits(functions[fn], Here)
           /\ ~IsIntrinsic(Here.to) => Place(Here.to) < fn
<1>1. /\ functions[fn] \in DOMAIN body /\ pos \in 1 .. Len(CallsHere)
      /\ source \in Programs /\ functions[fn] \in Names
    BY HereFacts, BodyFacts DEF RInv
<1>2. /\ DOMAIN CallsHere = 1 .. Len(CallsHere)
      /\ fn \in 1 .. Len(functions) /\ DOMAIN functions = 1 .. Len(functions)
      /\ Len(functions) \in Nat
    BY <1>1, ListFacts DEF RInv, CallsHere
<1>3. Fits(functions[fn], Here)
    BY <1>1, <1>2 DEF Ordered, Here, CallsHere
<1>4. ~(functions[fn].rev > 0)
  <2>1. SUFFICES ASSUME functions[fn].rev > 0 PROVE FALSE
      OBVIOUS
  <2>2. PrefixFree(functions[fn])
      BY <1>1, <2>1 DEF Ordered
  <2>3. Here.prefix = 0
      BY <1>1, <1>2, <2>2 DEF PrefixFree, Here, CallsHere
  <2> QED
      BY <2>3
<1>5. functions[fn] = source.functions[fn] /\ fn <= Len(source.functions)
    BY <1>2, <1>4 DEF Ordered
<1>6. fn \in DOMAIN source.functions
  <2>1. source.functions \in Seq([base : STRING, rev : {0}])
      BY <1>1, SourceFacts
  <2>2. DOMAIN source.functions = 1 .. Len(source.functions)
      BY <2>1, DomainIs
  <2> QED
      BY <1>2, <1>5, <2>2
<1>7. Place(functions[fn]) = fn
    BY <1>1, <1>5, <1>6, PlaceOf
<1> QED
    BY <1>3, <1>7 DEF Fits

LEMMA VisitReverseOrdered == RInv /\ Replaced /\ Ordered /\ VisitReverse => Ordered'
<1> SUFFICES ASSUME RInv, Replaced, Ordered, VisitReverse PROVE Ordered'
    OBVIOUS
<1>1. /\ Visiting /\ pos <= Len(CallsHere) /\ Here.prefix > 0 /\ Found(Here.to)
      /\ Here.to \in Names
    BY HereFacts DEF VisitReverse, RInv
<1>2. /\ Fits(functions[fn], Here)
      /\ ~IsIntrinsic(Here.to) => Place(Here.to) < fn
    BY <1>1, HereOrdered
<1>3. ASSUME NEW f \in Names, ReplaceBy(f), Fits(functions[fn], Call(f))
      PROVE  Ordered'
  <2> DEFINE h == functions[fn]
             c == Call(f)
  <2>1. /\ h \in DOMAIN body /\ DOMAIN body' = DOMAIN body
        /\ \A g \in DOMAIN body : g # h => body'[g] = body[g]
        /\ DOMAIN Calls(body'[h]) = DOMAIN Calls(body[h])
        /\ \A k \in DOMAIN Calls(body[h]) :
               Calls(body'[h])[k] = IF k = pos THEN c ELSE Calls(body[h])[k]
      BY <1>1, <1>3, ReplaceFacts DEF RInv
  <2>2. UNCHANGED <<source, functions, fn, pc>>
      BY <1>3 DEF ReplaceBy
  <2>3. c.prefix = 0 /\ Fits(h, c)
      BY <1>3 DEF Call
  <2> HIDE DEF h, c
  <2>4. \A k \in DOMAIN Calls(body'[h]) :
            \/ Calls(body'[h])[k] = c
            \/ \E j \in DOMAIN Calls(body[h]) : Calls(body'[h])[k] = Calls(body[h])[j]
      BY <2>1
  <2> QED
      BY <2>1, <2>2, <2>3, <2>4, BodyOrdered
<1>4. CASE ReplaceBy(Here.to)
  <2>1. Fits(functions[fn], Call(Here.to))
      BY <1>2 DEF Fits, Call
  <2> QED
      BY <1>1, <1>3, <1>4, <2>1
<1>5. CASE HasInverse(Here.to) /\ ReplaceBy(InverseOf(Here.to))
  <2>1. Fits(functions[fn], Call(InverseOf(Here.to)))
      BY <1>1, <1>2, <1>5, FitsInverse
  <2>2. InverseOf(Here.to) \in Names
      BY <1>1, InverseFacts
  <2> QED
      BY <1>3, <1>5, <2>1, <2>2
<1>6. CASE ~HasInverse(Here.to) /\ Here.to \in DOMAIN body /\ Clone(Here.to)
  <2>1. /\ Here.to \in DOMAIN body /\ Rev(Here.to) \notin DOMAIN body
        /\ Place(Here.to) < fn
      BY <1>2, <1>6 DEF HasInverse
  <2> HIDE DEF Here
  <2> QED
      BY <1>6, <2>1, CloneOrdered
<1> QED
    BY <1>4, <1>5, <1>6 DEF VisitReverse

LEMMA NextOrdered == RInv /\ Replaced /\ Ordered /\ [Next]_vars => Ordered'
<1> SUFFICES ASSUME RInv, Replaced, Ordered, [Next]_vars PROVE Ordered'
    OBVIOUS
<1>1. CASE VisitReverse
    BY <1>1, VisitReverseOrdered
<1>2. CASE VisitUnknown
  <2>1. /\ Visiting /\ pos <= Len(CallsHere) /\ Here.prefix > 0
        /\ \/ ~Found(Here.to)
           \/ ~HasInverse(Here.to) /\ Here.to \notin DOMAIN body
      BY <1>2 DEF VisitUnknown
  <2>2. Fits(functions[fn], Here)
      BY <2>1, HereOrdered
  <2> QED
      BY <2>1, <2>2 DEF Fits, Found, HasInverse
<1>3. CASE CloneFails
  <2>1. /\ Building /\ Top.left > 0
        /\ \/ TopCall.prefix > 0
           \/ ~HasInverse(TopCall.to) /\ TopCall.to \notin DOMAIN body
      BY <1>3 DEF CloneFails
  <2>2. TopCall.prefix = 0 /\ Fits(Top.fn, TopCall)
      BY <2>1, TopOrdered
  <2> QED
      BY <2>1, <2>2 DEF Fits, HasInverse
<1>4. CASE InvertCall
  <2> DEFINE g == Top.fn
             c == Call(InverseOf(TopCall.to))
  <2>1. /\ Building /\ Top.left > 0 /\ HasInverse(TopCall.to)
        /\ UNCHANGED <<source, functions, fn, pc>>
      BY <1>4 DEF InvertCall
  <2>2. g \in DOMAIN body /\ TopCall.to \in Names /\ Fits(g, TopCall)
      BY <2>1, TopOrdered
  <2>3. Fits(g, c) /\ c.prefix = 0
      BY <2>1, <2>2, FitsInverse DEF Call
  <2>4. /\ DOMAIN body' = DOMAIN body
        /\ \A h \in DOMAIN body : h # g => body'[h] = body[h]
        /\ \A k \in DOMAIN Calls(body'[g]) :
               \/ Calls(body'[g])[k] = c
               \/ \E j \in DOMAIN Calls(body[g]) : Calls(body'[g])[k] = Calls(body[g])[j]
      BY <1>4, InvertCallFacts
  <2> HIDE DEF g, c
  <2> QED
      BY <2>1, <2>2, <2>3, <2>4, BodyOrdered
<1>5. CASE CloneCallee
  <2>1. /\ Building /\ Top.left > 0 /\ ~HasInverse(TopCall.to) /\ Clone(TopCall.to)
        /\ TopCall.to \in DOMAIN body /\ Rev(TopCall.to) \notin DOMAIN body
        /\ ~IsIntrinsic(TopCall.to)
      BY <1>5 DEF CloneCallee, HasInverse
  <2>2. Top.fn \in DOMAIN body /\ Fits(Top.fn, TopCall) /\ Place(Top.fn) < fn
      BY <2>1, TopOrdered
  <2>3. Place(TopCall.to) < Place(Top.fn)
      BY <2>1, <2>2 DEF Fits
  <2>4. Place(TopCall.to) \in Int /\ Place(Top.fn) \in Int /\ fn \in Int
    <3>1. /\ source \in Programs /\ Fn(Top.fn.base) \in DOMAIN source.body
          /\ Fn(TopCall.to.base) \in DOMAIN source.body
        BY <2>1, <2>2 DEF RInv, Types, Origins
    <3>2. Place(TopCall.to) \in 1 .. Len(source.functions)
        BY <3>1, PlaceFacts
    <3>3. Place(Top.fn) \in 1 .. Len(source.functions)
        BY <3>1, PlaceFacts
    <3> QED
        BY <3>2, <3>3, ListFacts DEF RInv
  <2>5. Place(TopCall.to) < fn
      BY <2>2, <2>3, <2>4
  <2> HIDE DEF TopCall
  <2> QED
      BY <2>1, <2>5, CloneOrdered
<1>6. CASE VisitPlain \/ EndInverse \/ NextFunction \/ Ended \/ UNCHANGED vars
  <2>1. UNCHANGED <<source, functions, body>> /\ (fn' = fn \/ fn' = fn + 1) /\ pc' # "crashed"
      BY <1>6 DEF VisitPlain, EndInverse, NextFunction, Ended, vars, Ordered
  <2>2. \A f : Place(f)' = Place(f)
      BY <2>1, PlaceKept
  <2>3. ASSUME NEW f \in DOMAIN body, f.rev > 0 PROVE PrefixFree(f) /\ Place(f) < fn'
    <3>1. PrefixFree(f) /\ Place(f) < fn
        BY <2>3 DEF Ordered
    <3>2. source \in Programs /\ Fn(f.base) \in DOMAIN source.body
        BY DEF RInv, Types, Origins
    <3>3. Place(f) \in Int /\ fn \in Int
        BY <3>2, PlaceFacts, ListFacts DEF RInv
    <3> QED
        BY <2>1, <3>1, <3>3
  <2> QED
      BY <2>1, <2>2, <2>3 DEF Ordered, Fits, PrefixFree
<1> QED
    BY <1>1, <1>2, <1>3, <1>4, <1>5, <1>6 DEF Next

\* In a module whose functions are known and defined before they are used the
\* pass gets through: what it copies has no prefixes left.
THEOREM NoCrashHolds == Spec => []NoCrash
<1>1. Init => (InOrder => Ordered)
    BY InitOrdered
<1>2. RInv /\ Replaced /\ (InOrder => Ordered) /\ [Next]_vars => (InOrder => Ordered)'
  <2> SUFFICES ASSUME RInv, Replaced, InOrder => Ordered, [Next]_vars, InOrder'
               PROVE  Ordered'
      OBVIOUS
  <2>1. source' = source
      BY DEF Next, vars, VisitPlain, VisitReverse, ReplaceBy, Clone, VisitUnknown,
             NextFunction, InvertCall, CloneCallee, CloneFails, EndInverse, Ended
  <2>2. InOrder
      BY <2>1 DEF InOrder
  <2> QED
      BY <2>2, NextOrdered
<1>3. (InOrder => Ordered) => NoCrash
    BY DEF NoCrash, Ordered
<1> QED
    BY <1>1, <1>2, <1>3, RInvHolds, ReplacedHolds, PTL DEF Spec

-----------------------------------------------------------------------------
(* What becomes of the calls of the source.                                *)

\* c is a call of the source as it was, s, or what the visitor made of it.
Replaces(c, s) ==
    \/ c = s
    \/ s.prefix > 0 /\ c = Call(IF Odd(s.prefix) THEN InverseOf(s.to) ELSE s.to)

\* Functions of the source keep their calls, each as it was or replaced, and
\* inverses have as many in the other blocks as what they were copied from.
FromSource ==
    /\ \A f \in DOMAIN source.body :
           /\ f \in DOMAIN body
           /\ DOMAIN Calls(body[f]) = DOMAIN Calls(source.body[f])
           /\ \A k \in DOMAIN Calls(body[f]) :
                  Replaces(Calls(body[f])[k], Calls(source.body[f])[k])
    /\ \A f \in DOMAIN body :
           Rev(f) \in DOMAIN body => Len(body[Rev(f)].rest) = Len(body[f].rest)

LEMMA InitFromSource == Init => FromSource
<1> SUFFICES ASSUME Init PROVE FromSource
    OBVIOUS
<1>1. body = source.body /\ source \in Programs
    BY DEF Init
<1>2. \A f \in DOMAIN body : f.rev = 0
    BY <1>1, SourceFacts
<1>3. \A f \in DOMAIN body : Rev(f) \notin DOMAIN body
  <2> SUFFICES ASSUME NEW f \in DOMAIN body, Rev(f) \in DOMAIN body PROVE FALSE
      OBVIOUS
  <2>1. f.rev = 0 /\ Rev(f).rev = 0
      BY <1>2
  <2>2. Rev(f).rev = f.rev + 1
      BY DEF Rev
  <2> QED
      BY <2>1, <2>2
<1> QED
    BY <1>1, <1>3 DEF FromSource, Replaces

\* No inverse is a function of the source.
LEMMA SourceNames ==
    ASSUME source \in Programs, NEW f \in Names
    PROVE  Rev(f) \notin DOMAIN source.body
<1>1. \A g \in DOMAIN source.body : g.rev = 0
    BY SourceFacts
<1>2. Rev(f).rev # 0
    BY DEF Rev, Names
<1> QED
    BY <1>1, <1>2

\* A copy has the other blocks of its function.
LEMMA CloneFromSource ==
    ASSUME RInv, FromSource, NEW g \in DOMAIN body, Rev(g) \notin DOMAIN body, Clone(g)
    PROVE  FromSource'
<1>1. /\ DOMAIN body' = DOMAIN body \cup {Rev(g)}
      /\ body'[Rev(g)] = body[g] /\ source' = source
      /\ \A h \in DOMAIN body : body'[h] = body[h]
    BY CloneFacts DEF RInv
<1>2. \A f \in DOMAIN body : f \in Names
    BY BodyFacts DEF RInv
<1>3. \A f \in DOMAIN source.body : f \in DOMAIN body /\ body'[f] = body[f]
    BY <1>1 DEF FromSource
<1>4. ASSUME NEW f \in DOMAIN body', Rev(f) \in DOMAIN body'
      PROVE  Len(body'[Rev(f)].rest) = Len(body'[f].rest)
  <2>1. f \in Names
      BY <1>1, <1>2, RevFacts
  <2>2. CASE Rev(f) = Rev(g)
    <3>1. f = g
        BY <1>2, <2>1, <2>2, RevFacts
    <3> QED
        BY <1>1, <3>1
  <2>3. CASE Rev(f) # Rev(g)
    <3>1. Rev(f) \in DOMAIN body
        BY <1>1, <1>4, <2>3
    <3>2. f \in DOMAIN body
        BY <2>1, <3>1 DEF RInv, Origins
    <3> QED
        BY <1>1, <3>1, <3>2 DEF FromSource
  <2> QED
      BY <2>2, <2>3
<1> QED
    BY <1>1, <1>3, <1>4 DEF FromSource, Replaces

\* The visitor replaces a call that was not replaced before.
LEMMA ReplaceFromSource ==
    ASSUME RInv, FromSource, Visiting, pos <= Len(CallsHere), Here.prefix > 0,
           NEW f \in Names, ReplaceBy(f),
           f = IF Odd(Here.prefix) THEN InverseOf(Here.to) ELSE Here.to
    PROVE  FromSource'
<1> DEFINE h == functions[fn]
           b == body[h]
           w == WithCall(b, pos, Call(f))
<1>1. /\ h \in DOMAIN body /\ DOMAIN body' = DOMAIN body /\ source' = source
      /\ \A g \in DOMAIN body : g # h => body'[g] = body[g]
      /\ DOMAIN Calls(body'[h]) = DOMAIN Calls(body[h]) /\ pos \in DOMAIN Calls(body[h])
      /\ \A k \in DOMAIN Calls(body[h]) :
             Calls(body'[h])[k] = IF k = pos THEN Call(f) ELSE Calls(body[h])[k]
    BY ReplaceFacts DEF RInv, ReplaceBy
<1>2. Here = Calls(body[h])[pos]
    BY DEF Here, CallsHere
<1>3. Len(body'[h].rest) = Len(body[h].rest)
  <2>1. b \in Bodies /\ pos \in 1 .. Len(Calls(b)) /\ Call(f) \in SomeCall
      BY HereFacts DEF RInv, CallsHere, Call, SomeCall
  <2>2. body'[h] = w
      BY <1>1 DEF ReplaceBy
  <2> HIDE DEF b
  <2>3. /\ w \in Bodies /\ Len(w.first) = Len(b.first) /\ Len(Calls(w)) = Len(Calls(b))
      BY <2>1, WithCallFacts
  <2> HIDE DEF w
  <2>4. /\ Len(Calls(b)) = Len(b.first) + Len(b.rest) /\ Len(b.first) \in Nat /\ Len(b.rest) \in Nat
        /\ Len(Calls(w)) = Len(w.first) + Len(w.rest) /\ Len(w.rest) \in Nat
      BY <2>1, <2>3, CallsFacts
  <2>5. Len(w.rest) = Len(b.rest)
    <3> DEFINE x == Len(w.rest)
               y == Len(b.rest)
               z == Len(b.first)
    <3>1. z + x = z + y /\ x \in Nat /\ y \in Nat /\ z \in Nat
        BY <2>3, <2>4
    <3> HIDE DEF x, y, z
    <3>2. x = y
        BY <3>1
    <3> QED
        BY <3>2 DEF x, y
  <2> QED
      BY <2>2, <2>5 DEF b
<1>4. \A g \in DOMAIN body : Len(body'[g].rest) = Len(body[g].rest)
    BY <1>1, <1>3
<1>5. ASSUME NEW g \in DOMAIN source.body
      PROVE  /\ g \in DOMAIN body'
             /\ DOMAIN Calls(body'[g]) = DOMAIN Calls(source.body[g])
             /\ \A k \in DOMAIN Calls(body'[g]) :
                    Replaces(Calls(body'[g])[k], Calls(source.body[g])[k])
  <2>1. /\ g \in DOMAIN body /\ DOMAIN Calls(body[g]) = DOMAIN Calls(source.body[g])
        /\ \A k \in DOMAIN Calls(body[g]) :
               Replaces(Calls(body[g])[k], Calls(source.body[g])[k])
      BY DEF FromSource
  <2>2. CASE g # h
      BY <1>1, <2>1, <2>2
  <2>3. CASE g = h
    <3>1. ASSUME NEW k \in DOMAIN Calls(body[h])
          PROVE  Replaces(Calls(body'[h])[k], Calls(source.body[h])[k])
      <4>1. CASE k # pos
          BY <1>1, <2>1, <2>3, <4>1
      <4>2. CASE k = pos
        <5> DEFINE s == Calls(source.body[h])[pos]
        <5>1. Replaces(Here, s)
            BY <1>1, <1>2, <2>1, <2>3
        <5>2. Calls(body'[h])[k] = Call(f)
            BY <1>1, <4>2
        <5>3. Here = s
          <6> HIDE DEF s
          <6>1. \A x : Call(x).prefix = 0
              BY DEF Call
          <6>2. Here.prefix # 0
            <7>1. Here.prefix \in Nat
                BY HereFacts DEF RInv
            <7> QED
                BY <7>1
          <6> HIDE DEF Here
          <6> QED
              BY <5>1, <6>1, <6>2 DEF Replaces
        <5> QED
            BY <4>2, <5>2, <5>3 DEF Replaces
      <4> QED
          BY <4>1, <4>2
    <3> QED
        BY <1>1, <2>1, <2>3, <3>1
  <2> QED
      BY <2>2, <2>3
<1> QED
    BY <1>1, <1>4, <1>5 DEF FromSource, Replaces

LEMMA NextFromSource == RInv /\ FromSource /\ [Next]_vars => FromSource'
<1> SUFFICES ASSUME RInv, FromSource, [Next]_vars PROVE FromSource'
    OBVIOUS
<1>1. CASE UNCHANGED <<source, body>>
    BY <1>1 DEF FromSource, Replaces
<1>2. CASE VisitReverse
  <2>1. /\ Visiting /\ pos <= Len(CallsHere) /\ Here.prefix > 0 /\ Here.to \in Names
      BY <1>2, HereFacts DEF VisitReverse, RInv
  <2>2. InverseOf(Here.to) \in Names
      BY <2>1, InverseFacts
  <2>3. CASE ~Odd(Here.prefix) /\ ReplaceBy(Here.to)
      BY <2>1, <2>3, ReplaceFromSource
  <2>4. CASE Odd(Here.prefix) /\ ReplaceBy(InverseOf(Here.to))
      BY <2>1, <2>2, <2>4, ReplaceFromSource
  <2>5. CASE ~HasInverse(Here.to) /\ Here.to \in DOMAIN body /\ Clone(Here.to)
    <3>1. Rev(Here.to) \notin DOMAIN body
        BY <2>5 DEF HasInverse
    <3> HIDE DEF Here
    <3> QED
        BY <2>5, <3>1, CloneFromSource
  <2> QED
      BY <1>2, <2>3, <2>4, <2>5 DEF VisitReverse
<1>3. CASE CloneCallee
  <2>1. Clone(TopCall.to) /\ TopCall.to \in DOMAIN body /\ Rev(TopCall.to) \notin DOMAIN body
      BY <1>3 DEF CloneCallee, HasInverse
  <2> HIDE DEF TopCall
  <2> QED
      BY <2>1, CloneFromSource
<1>4. CASE InvertCall
  <2>1. /\ Building /\ source' = source
        /\ body' = [body EXCEPT ![Top.fn].first =
                       MovedLast(@, Top.left, Call(InverseOf(TopCall.to)))]
      BY <1>4 DEF InvertCall
  <2>2. PICK f \in DOMAIN body : Top.fn = Rev(f) /\ Top.fn \in DOMAIN body
      BY <2>1, TopFacts
  <2>3. f \in Names /\ source \in Programs
      BY BodyFacts DEF RInv
  <2>4. Top.fn \notin DOMAIN source.body
      BY <2>2, <2>3, SourceNames
  <2>5. /\ DOMAIN body' = DOMAIN body
        /\ \A g \in DOMAIN body : g # Top.fn => body'[g] = body[g]
        /\ \A g \in DOMAIN body : body'[g].rest = body[g].rest
    <3> HIDE DEF Top, TopCall
    <3>1. body[Top.fn] \in Bodies
        BY <2>2, BodyFacts DEF RInv
    <3>2. body'[Top.fn].rest = body[Top.fn].rest
        BY <2>1, <2>2, <3>1 DEF Bodies
    <3> QED
        BY <2>1, <3>2
  <2>6. \A g \in DOMAIN source.body : g \in DOMAIN body /\ body'[g] = body[g]
      BY <2>4, <2>5 DEF FromSource
  <2>7. source' = source
      BY <2>1
  <2>8. \A g \in DOMAIN source.body :
            /\ g \in DOMAIN body
            /\ DOMAIN Calls(body'[g]) = DOMAIN Calls(source.body[g])
            /\ \A k \in DOMAIN Calls(body'[g]) :
                   Replaces(Calls(body'[g])[k], Calls(source.body[g])[k])
      BY <2>6 DEF FromSource
  <2>9. \A g \in DOMAIN body :
            Rev(g) \in DOMAIN body => Len(body'[Rev(g)].rest) = Len(body'[g].rest)
      BY <2>5 DEF FromSource
  <2> QED
      BY <2>5, <2>7, <2>8, <2>9 DEF FromSource, Replaces
<1>5. CASE VisitPlain \/ VisitUnknown \/ NextFunction \/ CloneFails \/ EndInverse \/ Ended
  <2>1. UNCHANGED <<source, body>>
      BY <1>5 DEF VisitPlain, VisitUnknown, NextFunction, CloneFails, EndInverse, Ended, vars
  <2> QED
      BY <1>1, <2>1
<1>6. CASE UNCHANGED vars
    BY <1>1, <1>6 DEF vars
<1> QED
    BY <1>2, <1>3, <1>4, <1>5, <1>6 DEF Next

\* The calls of a function of the source stay where they are, each as it was
\* or replaced.
THEOREM FromSourceHolds == Spec => []FromSource
BY InitFromSource, NextFromSource, RInvHolds, PTL DEF Spec

-----------------------------------------------------------------------------
(* Steps, one after the other.                                             *)

\* Induction over the natural numbers that are in a set.
LEMMA SetInduction ==
    ASSUME NEW T, 0 \in T, \A n \in Nat : n \in T => n + 1 \in T
    PROVE  Nat \subseteq T
<1> SUFFICES ASSUME Nat \ T # {} PROVE FALSE
    OBVIOUS
<1>1. \A x, y \in Nat : x < y => <<x, y>> \in OpToRel(<, Nat)
    BY Zenon DEF OpToRel
<1>2. PICK m \in Nat \ T : \A k \in Nat \ T : ~(<<k, m>> \in OpToRel(<, Nat))
    BY NatLessThanWellFounded, WFMin
<1>3. m # 0 /\ m - 1 \in Nat /\ m - 1 < m /\ (m - 1) + 1 = m
  <2>1. m \in Nat /\ m # 0
      BY <1>2
  <2> QED
      BY <2>1
<1>4. m - 1 \in T
    BY <1>1, <1>2, <1>3, Zenon
<1> QED
    BY <1>2, <1>3, <1>4

\* A function of the steps up to n that starts with x.
Iterates(g, x, step, n) == g = [k \in 0 .. n |-> IF k = 0 THEN x ELSE step[g[k - 1]]]

\* The recursive definition of the steps has a solution, whose values stay
\* where the steps stay.
LEMMA IteratesExist ==
    ASSUME NEW S, NEW x \in S, NEW step \in [S -> S], NEW n \in Nat
    PROVE  \E g : Iterates(g, x, step, n) /\ g \in [0 .. n -> S]
<1> DEFINE Good(g, m) == /\ g \in [0 .. m -> S] /\ g[0] = x
                         /\ \A k \in 1 .. m : g[k] = step[g[k - 1]]
           T == {m \in Nat : \E g : Good(g, m)}
<1>1. 0 \in T
  <2>1. Good([k \in 0 .. 0 |-> x], 0)
      OBVIOUS
  <2> QED
      BY <2>1
<1>2. ASSUME NEW j \in Nat, j \in T PROVE j + 1 \in T
  <2>1. PICK g : Good(g, j)
      BY <1>2
  <2> DEFINE h == [k \in 0 .. j + 1 |-> IF k = j + 1 THEN step[g[j]] ELSE g[k]]
  <2>2. \A k \in 0 .. j : k \in 0 .. j + 1 /\ k # j + 1 /\ g[k] \in S /\ h[k] = g[k]
      BY <2>1
  <2>3. step[g[j]] \in S /\ h[j + 1] = step[g[j]] /\ g[j] \in S
    <3>1. j \in 0 .. j
        OBVIOUS
    <3>2. g[j] \in S
        BY <2>1, <3>1
    <3> QED
        BY <3>2
  <2>4. h \in [0 .. j + 1 -> S]
    <3>1. \A k \in 0 .. j + 1 : k = j + 1 \/ k \in 0 .. j
        OBVIOUS
    <3> QED
        BY <2>2, <2>3, <3>1
  <2> HIDE DEF h
  <2>5. h[0] = x
      BY <2>1, <2>2
  <2>6. ASSUME NEW k \in 1 .. j + 1 PROVE h[k] = step[h[k - 1]]
    <3>1. k - 1 \in 0 .. j /\ h[k - 1] = g[k - 1]
        BY <2>2
    <3>2. CASE k = j + 1
        BY <2>3, <3>1, <3>2
    <3>3. CASE k # j + 1
      <4>1. k \in 1 .. j /\ k \in 0 .. j
          BY <3>3
      <4> QED
          BY <2>1, <2>2, <3>1, <4>1
    <3> QED
        BY <3>2, <3>3
  <2> QED
      BY <2>4, <2>5, <2>6
<1>3. n \in T
  <2> HIDE DEF T
  <2> QED
      BY <1>1, <1>2, SetInduction
<1>4. PICK g : Good(g, n)
    BY <1>3
<1>5. \A k \in 0 .. n : g[k] = IF k = 0 THEN x ELSE step[g[k - 1]]
  <2>1. \A k \in 0 .. n : k = 0 \/ k \in 1 .. n
      OBVIOUS
  <2> QED
      BY <1>4, <2>1
<1>6. g = [k \in 0 .. n |-> g[k]]
    BY <1>4
<1>7. g = [k \in 0 .. n |-> IF k = 0 THEN x ELSE step[g[k - 1]]]
    BY <1>5, <1>6, Zenon
<1> QED
    BY <1>4, <1>7 DEF Iterates

-----------------------------------------------------------------------------
(* Lists of gates.                                                         *)

Gates == STRING \cup Intrinsics

LEMMA UndoingGate ==
    ASSUME NEW gate \in Gates
    PROVE  Undoing(gate) \in Gates
<1>1. {"S", "Sdag", "T", "Tdag"} \subseteq Gates
    BY DEF Gates, Intrinsics
<1>2. Undoing(gate) \in {"S", "Sdag", "T", "Tdag"} \/ Undoing(gate) = gate
    BY DEF Undoing
<1> QED
    BY <1>1, <1>2

LEMMA UndoneFacts ==
    ASSUME NEW s \in Seq(Gates)
    PROVE  /\ Undone(s) \in Seq(Gates) /\ Len(Undone(s)) = Len(s)
           /\ \A i \in 1 .. Len(s) : Undone(s)[i] = Undoing(s[Len(s) + 1 - i])
<1> DEFINE n == Len(s)
           u == [i \in 1 .. n |-> Undoing(s[n + 1 - i])]
<1>1. DOMAIN s = 1 .. n /\ n \in Nat
    OBVIOUS
<1>2. Undone(s) = u
    BY <1>1 DEF Undone
<1>3. \A i \in 1 .. n : s[n + 1 - i] \in Gates
  <2> HIDE DEF n
  <2>1. \A i \in 1 .. n : n + 1 - i \in 1 .. n
      BY <1>1
  <2> QED
      BY <1>1, <2>1
<1>4. \A i \in 1 .. n : u[i] \in Gates
    BY <1>3, UndoingGate
<1>5. u \in Seq(Gates) /\ Len(u) = n
  <2>1. u \in [1 .. n -> Gates]
      BY <1>4
  <2> HIDE DEF u, n
  <2> QED
      BY <1>1, <2>1
<1> HIDE DEF u, n
<1>6. \A i \in 1 .. n : u[i] = Undoing(s[n + 1 - i])
    BY DEF u
<1> QED
    BY <1>2, <1>5, <1>6 DEF n

\* Two lists of the same length and gates are the same.
LEMMA SameList ==
    ASSUME NEW S, NEW s \in Seq(S), NEW t \in Seq(S), Len(s) = Len(t),
           \A i \in 1 .. Len(s) : s[i] = t[i]
    PROVE  s = t
OBVIOUS

LEMMA UndoneOne ==
    ASSUME NEW gate \in Gates
    PROVE  Undone(<<gate>>) = <<Undoing(gate)>>
BY DEF Undone

LEMMA UndoneNone == Undone(<<>>) = <<>>
BY DEF Undone

LEMMA ConcatFacts ==
    ASSUME NEW S, NEW s \in Seq(S), NEW t \in Seq(S)
    PROVE  /\ s \o t \in Seq(S) /\ Len(s \o t) = Len(s) + Len(t)
           /\ \A i \in 1 .. Len(s) : (s \o t)[i] = s[i]
           /\ \A i \in 1 .. Len(t) : (s \o t)[Len(s) + i] = t[i]
OBVIOUS

LEMMA ConcatTwice ==
    ASSUME NEW S, NEW a \in Seq(S), NEW b \in Seq(S), NEW c \in Seq(S)
    PROVE  a \o (b \o c) = (a \o b) \o c
OBVIOUS

\* The second half is undone first.
LEMMA UndoneConcat ==
    ASSUME NEW s \in Seq(Gates), NEW t \in Seq(Gates)
    PROVE  Undone(s \o t) = Undone(t) \o Undone(s)
<1> DEFINE st == s \o t
           m == Len(s)
           n == Len(t)
           x == Undone(st)
           a == Undone(t)
           b == Undone(s)
           y == a \o b
<1>1. /\ st \in Seq(Gates) /\ Len(st) = m + n /\ m \in Nat /\ n \in Nat
      /\ \A i \in 1 .. m : st[i] = s[i]
      /\ \A i \in 1 .. n : st[m + i] = t[i]
    OBVIOUS
<1>2. /\ a \in Seq(Gates) /\ Len(a) = n /\ \A i \in 1 .. n : a[i] = Undoing(t[n + 1 - i])
      /\ b \in Seq(Gates) /\ Len(b) = m /\ \A i \in 1 .. m : b[i] = Undoing(s[m + 1 - i])
    BY UndoneFacts
<1> HIDE DEF st, a, b, m, n
<1>3. /\ x \in Seq(Gates) /\ Len(x) = m + n
      /\ \A i \in 1 .. m + n : x[i] = Undoing(st[m + n + 1 - i])
  <2>1. /\ x \in Seq(Gates) /\ Len(x) = Len(st)
        /\ \A i \in 1 .. Len(st) : x[i] = Undoing(st[Len(st) + 1 - i])
      BY <1>1, UndoneFacts
  <2> HIDE DEF x
  <2> QED
      BY <1>1, <2>1
<1>4. /\ y \in Seq(Gates) /\ Len(y) = n + m
      /\ \A i \in 1 .. n : y[i] = a[i]
      /\ \A i \in 1 .. m : y[n + i] = b[i]
  <2>1. a \in Seq(Gates) /\ b \in Seq(Gates)
      BY <1>2
  <2>2. /\ y \in Seq(Gates) /\ Len(y) = Len(a) + Len(b)
        /\ \A i \in 1 .. Len(a) : y[i] = a[i]
        /\ \A i \in 1 .. Len(b) : y[Len(a) + i] = b[i]
      BY <2>1, ConcatFacts
  <2> HIDE DEF y
  <2> QED
      BY <1>2, <2>2
<1> HIDE DEF x, y
<1>5. ASSUME NEW i \in 1 .. m + n PROVE x[i] = y[i]
  <2>1. CASE i <= n
    <3>1. i \in 1 .. n /\ n + 1 - i \in 1 .. n /\ m + n + 1 - i = m + (n + 1 - i)
        BY <1>1, <2>1
    <3>2. x[i] = Undoing(t[n + 1 - i])
        BY <1>1, <1>3, <3>1
    <3> QED
        BY <1>2, <1>4, <3>1, <3>2
  <2>2. CASE i > n
    <3> DEFINE j == i - n
    <3>1. j \in 1 .. m /\ i = n + j /\ m + 1 - j \in 1 .. m /\ m + n + 1 - i = m + 1 - j
        BY <1>1, <2>2
    <3> HIDE DEF j
    <3>2. x[i] = Undoing(s[m + 1 - j])
        BY <1>1, <1>3, <3>1
    <3> QED
        BY <1>2, <1>4, <3>1, <3>2
  <2> QED
      BY <1>1, <2>1, <2>2
<1>6. x = y
  <2>1. Len(x) = Len(y) /\ Len(x) = m + n
      BY <1>1, <1>3, <1>4
  <2> QED
      BY <1>3, <1>4, <1>5, <2>1, SameList
<1> QED
    BY <1>6 DEF x, y, a, b, st

-----------------------------------------------------------------------------
(* One list after the other.                                               *)

\* The lists up to each, put together.
Flattens(F, s, S) ==
    /\ F \in [0 .. Len(s) -> Seq(S)] /\ F[0] = <<>>
    /\ \A i \in 1 .. Len(s) : F[i] = F[i - 1] \o s[i]

\* FlattenSeq is what its recursive definition says.
LEMMA FlattenExists ==
    ASSUME NEW S, NEW s \in Seq(Seq(S))
    PROVE  \E F : Flattens(F, s, S) /\ FlattenSeq(s) = F[Len(s)]
<1> DEFINE n == Len(s)
           Good(F, m) == /\ F \in [0 .. m -> Seq(S)] /\ F[0] = <<>>
                         /\ \A i \in 1 .. m : F[i] = F[i - 1] \o s[i]
           T == {m \in Nat : m <= n => \E F : Good(F, m)}
<1>1. n \in Nat /\ DOMAIN s = 1 .. n /\ \A i \in 1 .. n : s[i] \in Seq(S)
    OBVIOUS
<1> HIDE DEF n
<1>2. 0 \in T
  <2>1. Good([k \in 0 .. 0 |-> <<>>], 0)
      OBVIOUS
  <2> QED
      BY <2>1
<1>3. ASSUME NEW j \in Nat, j \in T PROVE j + 1 \in T
  <2> HIDE DEF Good
  <2> SUFFICES ASSUME j + 1 <= n PROVE \E F : Good(F, j + 1)
      OBVIOUS
  <2>1. j <= n /\ j + 1 \in 1 .. n /\ j \in 0 .. j
      BY <1>1
  <2>2. PICK F : Good(F, j)
      BY <1>3, <2>1
  <2> USE DEF Good
  <2> DEFINE new == F[j] \o s[j + 1]
             h == [k \in 0 .. j + 1 |-> IF k = j + 1 THEN new ELSE F[k]]
  <2>3. new \in Seq(S)
    <3>1. F[j] \in Seq(S) /\ s[j + 1] \in Seq(S)
        BY <1>1, <2>1, <2>2
    <3> QED
        BY <3>1
  <2> HIDE DEF new
  <2>4. \A k \in 0 .. j : k \in 0 .. j + 1 /\ k # j + 1 /\ F[k] \in Seq(S) /\ h[k] = F[k]
      BY <2>2
  <2>5. h[j + 1] = new
      OBVIOUS
  <2>6. h \in [0 .. j + 1 -> Seq(S)]
    <3>1. \A k \in 0 .. j + 1 : k = j + 1 \/ k \in 0 .. j
        OBVIOUS
    <3> QED
        BY <2>3, <2>4, <3>1
  <2> HIDE DEF h
  <2>7. h[0] = <<>>
      BY <2>2, <2>4
  <2>8. ASSUME NEW k \in 1 .. j + 1 PROVE h[k] = h[k - 1] \o s[k]
    <3>1. k - 1 \in 0 .. j /\ h[k - 1] = F[k - 1]
        BY <2>4
    <3>2. CASE k = j + 1
      <4>1. k - 1 = j
          BY <3>2
      <4>2. h[k] = F[j] \o s[k]
          BY <2>5, <3>2 DEF new
      <4> HIDE DEF Good
      <4> QED
          BY <3>1, <4>1, <4>2
    <3>3. CASE k # j + 1
      <4>1. k \in 1 .. j /\ k \in 0 .. j
          BY <3>3
      <4> QED
          BY <2>2, <2>4, <3>1, <4>1
    <3> QED
        BY <3>2, <3>3
  <2> QED
      BY <2>6, <2>7, <2>8
<1>4. n \in T
  <2> HIDE DEF T
  <2> QED
      BY <1>1, <1>2, <1>3, SetInduction
<1>5. PICK F : Good(F, n)
  <2> HIDE DEF Good
  <2>1. n <= n
      BY <1>1
  <2> QED
      BY <1>4, <2>1
<1>6. Flattens(F, s, S)
    BY <1>5 DEF Flattens, n
<1>7. FlattenSeq(s) = F[n]
  <2>1. CASE n = 0
    <3>1. s = <<>> /\ FlattenSeq(s) = s
        BY <2>1 DEF FlattenSeq, n
    <3> QED
        BY <1>5, <2>1, <3>1
  <2>2. CASE n # 0
    <3> DEFINE Is(f) == f = [i \in 1 .. n |-> IF i = 1 THEN s[i] ELSE f[i - 1] \o s[i]]
               R == CHOOSE f : Is(f)
               G == [i \in 1 .. n |-> F[i]]
    <3>1. FlattenSeq(s) = R[n]
        BY <2>2 DEF FlattenSeq, n
    <3>2. \A i \in 1 .. n : G[i] = IF i = 1 THEN s[i] ELSE G[i - 1] \o s[i]
      <4> SUFFICES ASSUME NEW i \in 1 .. n
                   PROVE  G[i] = IF i = 1 THEN s[i] ELSE G[i - 1] \o s[i]
          OBVIOUS
      <4>1. G[i] = F[i] /\ F[i] = F[i - 1] \o s[i]
          BY <1>5
      <4>2. CASE i = 1
        <5>1. F[i - 1] = <<>> /\ s[i] \in Seq(S)
            BY <1>1, <1>5, <4>2
        <5>2. <<>> \o s[i] = s[i]
            BY <5>1
        <5> QED
            BY <4>1, <4>2, <5>1, <5>2
      <4>3. CASE i # 1
        <5>1. i - 1 \in 1 .. n
            BY <1>1, <4>3
        <5>2. G[i - 1] = F[i - 1]
            BY <5>1
        <5> QED
            BY <4>1, <4>3, <5>2
      <4> QED
          BY <4>2, <4>3
    <3>3. G = [i \in 1 .. n |-> G[i]]
        OBVIOUS
    <3>4. G[n] = F[n] /\ n \in 1 .. n
        BY <1>1, <2>2
    <3> HIDE DEF G
    <3>5. Is(G)
        BY <3>2, <3>3, Zenon
    <3>6. Is(R)
      <4> HIDE DEF Is
      <4> QED
          BY <3>5
    <3> HIDE DEF R
    <3>7. R = G
      <4> DEFINE E == {i \in Nat : i \in 1 .. n => R[i] = G[i]}
      <4>0. \A i \in 1 .. n : R[i] = IF i = 1 THEN s[i] ELSE R[i - 1] \o s[i]
        <5>1. R = [i \in 1 .. n |-> IF i = 1 THEN s[i] ELSE R[i - 1] \o s[i]]
            BY <3>6
        <5> QED
            BY <5>1
      <4>1. 0 \in E
          OBVIOUS
      <4>2. ASSUME NEW i \in Nat, i \in E PROVE i + 1 \in E
        <5> SUFFICES ASSUME i + 1 \in 1 .. n PROVE R[i + 1] = G[i + 1]
            OBVIOUS
        <5>1. (i + 1) - 1 = i
            OBVIOUS
        <5>2. CASE i = 0
          <6>1. i + 1 = 1
              BY <5>2
          <6> QED
              BY <3>2, <4>0, <6>1
        <5>3. CASE i # 0
          <6>1. i \in 1 .. n /\ i + 1 # 1
              BY <1>1, <5>3
          <6>2. R[i] = G[i]
              BY <4>2, <6>1
          <6> QED
              BY <3>2, <4>0, <5>1, <6>1, <6>2
        <5> QED
            BY <5>2, <5>3
      <4>3. Nat \subseteq E
        <5> HIDE DEF E
        <5> QED
            BY <4>1, <4>2, SetInduction
      <4>4. \A i \in 1 .. n : R[i] = G[i]
        <5>1. \A i \in 1 .. n : i \in Nat
            BY <1>1
        <5> QED
            BY <4>3, <5>1
      <4>5. R = [i \in 1 .. n |-> R[i]]
        <5>1. R = [i \in 1 .. n |-> IF i = 1 THEN s[i] ELSE R[i - 1] \o s[i]]
            BY <3>6
        <5>2. [i \in 1 .. n |-> IF i = 1 THEN s[i] ELSE R[i - 1] \o s[i]] = [i \in 1 .. n |-> R[i]]
            BY <4>0
        <5> QED
            BY <5>1, <5>2
      <4> QED
          BY <3>3, <4>4, <4>5
    <3> QED
        BY <3>1, <3>4, <3>7
  <2> QED
      BY <2>1, <2>2
<1> QED
    BY <1>6, <1>7 DEF n

\* Lists undone one by one, from the last to the first.
LEMMA UndoneFlatten ==
    ASSUME NEW s \in Seq(Seq(Gates)), NEW t \in Seq(Seq(Gates)), Len(t) = Len(s),
           \A i \in 1 .. Len(s) : t[Len(s) + 1 - i] = Undone(s[i])
    PROVE  FlattenSeq(t) = Undone(FlattenSeq(s))
<1> DEFINE n == Len(s)
<1>1. n \in Nat /\ \A i \in 1 .. n : s[i] \in Seq(Gates) /\ t[i] \in Seq(Gates)
    OBVIOUS
<1>2. PICK F : Flattens(F, s, Gates) /\ FlattenSeq(s) = F[n]
    BY FlattenExists
<1>3. PICK E : Flattens(E, t, Gates) /\ FlattenSeq(t) = E[n]
    BY FlattenExists
<1>4. /\ \A i \in 0 .. n : F[i] \in Seq(Gates) /\ E[i] \in Seq(Gates)
      /\ F[0] = <<>> /\ E[0] = <<>>
      /\ \A i \in 1 .. n : F[i] = F[i - 1] \o s[i] /\ E[i] = E[i - 1] \o t[i]
    BY <1>2, <1>3 DEF Flattens
<1>5. \A i \in 1 .. n : t[n + 1 - i] = Undone(s[i])
    OBVIOUS
<1> HIDE DEF n
<1> DEFINE Same(j) == Undone(F[n]) = E[j] \o Undone(F[n - j])
           T == {j \in Nat : j <= n => Same(j)}
<1>6. 0 \in T
  <2>1. n - 0 = n /\ n \in 0 .. n
      BY <1>1
  <2>2. Undone(F[n]) \in Seq(Gates)
      BY <1>4, <2>1, UndoneFacts
  <2>3. <<>> \o Undone(F[n]) = Undone(F[n])
      BY <2>2
  <2> QED
      BY <1>4, <2>1, <2>3
<1>7. ASSUME NEW j \in Nat, j \in T PROVE j + 1 \in T
  <2> HIDE DEF Same
  <2> SUFFICES ASSUME j + 1 <= n PROVE Same(j + 1)
      OBVIOUS
  <2> USE DEF Same
  <2> DEFINE m == n - j
  <2>1. /\ j <= n /\ m \in 1 .. n /\ m - 1 = n - (j + 1) /\ m - 1 \in 0 .. n
        /\ j \in 0 .. n /\ j + 1 \in 1 .. n /\ (j + 1) - 1 = j /\ n + 1 - m = j + 1
      BY <1>1
  <2>2. Undone(F[n]) = E[j] \o Undone(F[m])
      BY <1>7, <2>1
  <2> HIDE DEF m, T
  <2>3. F[m] = F[m - 1] \o s[m] /\ F[m - 1] \in Seq(Gates) /\ s[m] \in Seq(Gates)
      BY <1>1, <1>4, <2>1
  <2>4. Undone(F[m]) = Undone(s[m]) \o Undone(F[m - 1])
      BY <2>3, UndoneConcat
  <2>5. Undone(s[m]) = t[j + 1]
      BY <1>5, <2>1
  <2>6. E[j] \in Seq(Gates) /\ t[j + 1] \in Seq(Gates) /\ Undone(F[m - 1]) \in Seq(Gates)
      BY <1>1, <1>4, <2>1, <2>3, UndoneFacts
  <2>7. E[j] \o (t[j + 1] \o Undone(F[m - 1])) = (E[j] \o t[j + 1]) \o Undone(F[m - 1])
    <3> DEFINE a == E[j]
               b == t[j + 1]
               c == Undone(F[m - 1])
    <3>1. a \in Seq(Gates) /\ b \in Seq(Gates) /\ c \in Seq(Gates)
        BY <2>6
    <3> HIDE DEF a, b, c
    <3>2. a \o (b \o c) = (a \o b) \o c
        BY <3>1, ConcatTwice
    <3> QED
        BY <3>2 DEF a, b, c
  <2>8. E[j + 1] = E[j] \o t[j + 1]
      BY <1>4, <2>1
  <2> QED
      BY <2>1, <2>2, <2>4, <2>5, <2>7, <2>8
<1>8. n \in T
  <2> HIDE DEF T
  <2> QED
      BY <1>1, <1>6, <1>7, SetInduction
<1>9. Undone(F[n]) = E[n] \o <<>>
  <2>1. n - n = 0 /\ n <= n
      BY <1>1
  <2>2. Undone(F[0]) = <<>>
      BY <1>4, UndoneNone
  <2> QED
      BY <1>8, <2>1, <2>2
<1>10. E[n] \o <<>> = E[n]
  <2>1. E[n] \in Seq(Gates)
      BY <1>1, <1>4
  <2> QED
      BY <2>1
<1> QED
    BY <1>2, <1>3, <1>9, <1>10

-----------------------------------------------------------------------------
(* The gates of the functions.                                             *)

\* The gates of each call of a function.
PerCall(b, g, f) == [i \in DOMAIN Calls(b[f]) |-> GatesOfCall(g, Calls(b[f])[i])]

LEMMA CallGates ==
    ASSUME NEW D, NEW g \in [D -> Seq(Gates)], NEW c \in SomeCall
    PROVE  GatesOfCall(g, c) \in Seq(Gates)
<1> DEFINE gates == IF c.to \in DOMAIN g THEN g[c.to] ELSE <<c.to.base>>
<1>1. gates \in Seq(Gates)
  <2>1. c.to.base \in Gates
      BY DEF SomeCall, Names, Gates
  <2> QED
      BY <2>1
<1>2. GatesOfCall(g, c) = IF Odd(c.prefix) THEN Undone(gates) ELSE gates
    BY DEF GatesOfCall
<1> HIDE DEF gates
<1> QED
    BY <1>1, <1>2, UndoneFacts

LEMMA UnfoldedFacts ==
    ASSUME NEW D, NEW g \in [D -> Seq(Gates)], NEW b, NEW f, b[f] \in Bodies
    PROVE  /\ PerCall(b, g, f) \in Seq(Seq(Gates))
           /\ Len(PerCall(b, g, f)) = Len(Calls(b[f]))
           /\ \A i \in 1 .. Len(Calls(b[f])) :
                  PerCall(b, g, f)[i] = GatesOfCall(g, Calls(b[f])[i])
           /\ Unfolded(b, g, f) = FlattenSeq(PerCall(b, g, f))
           /\ Unfolded(b, g, f) \in Seq(Gates)
<1> DEFINE cs == Calls(b[f])
           n == Len(cs)
           s == [i \in 1 .. n |-> GatesOfCall(g, cs[i])]
<1>1. cs \in Seq(SomeCall)
    BY CallsFacts
<1>2. DOMAIN cs = 1 .. n /\ n \in Nat /\ \A i \in 1 .. n : cs[i] \in SomeCall
  <2> HIDE DEF cs
  <2> QED
      BY <1>1
<1>3. PerCall(b, g, f) = s /\ Unfolded(b, g, f) = FlattenSeq(s)
    BY <1>2 DEF PerCall, Unfolded
<1>4. \A i \in 1 .. n : GatesOfCall(g, cs[i]) \in Seq(Gates)
    BY <1>2, CallGates
<1>5. s \in Seq(Seq(Gates)) /\ Len(s) = n /\ \A i \in 1 .. n : s[i] = GatesOfCall(g, cs[i])
  <2>1. s \in [1 .. n -> Seq(Gates)]
      BY <1>4
  <2>2. \A i \in 1 .. n : s[i] = GatesOfCall(g, cs[i])
      OBVIOUS
  <2> HIDE DEF s, n
  <2> QED
      BY <1>2, <2>1, <2>2
<1> HIDE DEF s
<1>6. PICK F : Flattens(F, s, Gates) /\ FlattenSeq(s) = F[Len(s)]
    BY <1>5, FlattenExists
<1>7. FlattenSeq(s) \in Seq(Gates)
  <2>1. Len(s) \in 0 .. Len(s)
      BY <1>5
  <2> QED
      BY <1>6, <2>1 DEF Flattens
<1> QED
    BY <1>3, <1>5, <1>7

\* What the recursive definition of GatesOf says.
Deepens(g, b, n) ==
    /\ g \in [0 .. n -> [DOMAIN b -> Seq(Gates)]]
    /\ g[0] = [f \in DOMAIN b |-> <<>>]
    /\ \A k \in 1 .. n : g[k] = [f \in DOMAIN b |-> Unfolded(b, g[k - 1], f)]

LEMMA GatesExist ==
    ASSUME NEW b, \A f \in DOMAIN b : b[f] \in Bodies, NEW n \in Nat
    PROVE  \E g : Deepens(g, b, n) /\ GatesOf(b, n) = g[n]
<1> DEFINE S == [DOMAIN b -> Seq(Gates)]
           step == [h \in S |-> [f \in DOMAIN b |-> Unfolded(b, h, f)]]
           none == [f \in DOMAIN b |-> <<>>]
           Is(g) == g = [k \in 0 .. n |->
                            [f \in DOMAIN b |-> IF k = 0 THEN <<>> ELSE Unfolded(b, g[k - 1], f)]]
           R == CHOOSE g : Is(g)
<1>1. GatesOf(b, n) = R[n]
    BY Zenon DEF GatesOf
<1>2. none \in S
    OBVIOUS
<1>3. step \in [S -> S]
  <2>1. \A h \in S : \A f \in DOMAIN b : Unfolded(b, h, f) \in Seq(Gates)
      BY UnfoldedFacts
  <2> QED
      BY <2>1
<1>4. PICK g : Iterates(g, none, step, n) /\ g \in [0 .. n -> S]
  <2> HIDE DEF S, step, none
  <2> QED
      BY <1>2, <1>3, IteratesExist
<1>5. \A k \in 0 .. n : g[k] = IF k = 0 THEN none ELSE step[g[k - 1]]
  <2> HIDE DEF S, step, none
  <2>1. g = [k \in 0 .. n |-> IF k = 0 THEN none ELSE step[g[k - 1]]]
      BY <1>4 DEF Iterates
  <2> QED
      BY <2>1
<1>6. \A k \in 0 .. n : k # 0 => g[k - 1] \in S /\ step[g[k - 1]] = [f \in DOMAIN b |-> Unfolded(b, g[k - 1], f)]
  <2>1. \A k \in 0 .. n : k # 0 => k - 1 \in 0 .. n
      OBVIOUS
  <2> QED
      BY <1>4, <2>1
<1>7. \A k \in 0 .. n : g[k] = [f \in DOMAIN b |-> IF k = 0 THEN <<>> ELSE Unfolded(b, g[k - 1], f)]
  <2> SUFFICES ASSUME NEW k \in 0 .. n
               PROVE  g[k] = [f \in DOMAIN b |-> IF k = 0 THEN <<>> ELSE Unfolded(b, g[k - 1], f)]
      OBVIOUS
  <2>1. CASE k = 0
      BY <1>5, <2>1
  <2>2. CASE k # 0
    <3> HIDE DEF S, step, none
    <3> QED
        BY <1>5, <1>6, <2>2
  <2> QED
      BY <2>1, <2>2
<1>8. Is(g)
  <2>1. g = [k \in 0 .. n |-> g[k]]
      BY <1>4
  <2> QED
      BY <1>7, <2>1, Zenon
<1>9. Is(R)
  <2> HIDE DEF Is
  <2> QED
      BY <1>8
<1> HIDE DEF R
<1>10. \A k \in 0 .. n : R[k] = [f \in DOMAIN b |-> IF k = 0 THEN <<>> ELSE Unfolded(b, R[k - 1], f)]
  <2> HIDE DEF S, step, none
  <2> QED
      BY <1>9
<1>11. DOMAIN R = 0 .. n /\ R = [k \in 0 .. n |-> R[k]]
  <2> HIDE DEF S, step, none
  <2>1. R = [k \in 0 .. n |-> [f \in DOMAIN b |-> IF k = 0 THEN <<>> ELSE Unfolded(b, R[k - 1], f)]]
      BY <1>9
  <2> QED
      BY <2>1
<1>12. R[0] = none /\ \A k \in 1 .. n : R[k] = [f \in DOMAIN b |-> Unfolded(b, R[k - 1], f)]
  <2>1. 0 \in 0 .. n /\ \A k \in 1 .. n : k \in 0 .. n /\ k # 0
      OBVIOUS
  <2> QED
      BY <1>10, <2>1
<1> DEFINE T == {k \in Nat : k <= n => R[k] \in S}
<1>13. Nat \subseteq T
  <2>1. 0 \in T
      BY <1>2, <1>12
  <2>2. ASSUME NEW k \in Nat, k \in T PROVE k + 1 \in T
    <3> HIDE DEF none
    <3> SUFFICES ASSUME k + 1 <= n PROVE R[k + 1] \in S
        OBVIOUS
    <3>1. k <= n /\ k + 1 \in 1 .. n /\ (k + 1) - 1 = k
        OBVIOUS
    <3>2. R[k] \in S
        BY <2>2, <3>1
    <3>3. R[k + 1] = [f \in DOMAIN b |-> Unfolded(b, R[k], f)]
        BY <1>12, <3>1
    <3>4. \A f \in DOMAIN b : Unfolded(b, R[k], f) \in Seq(Gates)
        BY <3>2, UnfoldedFacts
    <3> QED
        BY <3>3, <3>4
  <2> HIDE DEF T
  <2> QED
      BY <2>1, <2>2, SetInduction
<1>14. R \in [0 .. n -> S]
  <2>1. \A k \in 0 .. n : R[k] \in S
    <3>1. \A k \in 0 .. n : k \in Nat /\ k <= n
        OBVIOUS
    <3> HIDE DEF S
    <3> QED
        BY <1>13, <3>1
  <2> HIDE DEF S
  <2> QED
      BY <1>11, <2>1
<1>15. Deepens(R, b, n)
    BY <1>12, <1>14 DEF Deepens
<1> QED
    BY <1>1, <1>15

-----------------------------------------------------------------------------
(* The meaning of inverses and of what the visitor made of the calls.      *)

\* The bodies of the source have no calls of inverses.
LEMMA SourceBodies ==
    ASSUME source \in Programs
    PROVE  \A f \in DOMAIN source.body :
               /\ source.body[f] \in Bodies
               /\ \A k \in DOMAIN Calls(source.body[f]) :
                      Calls(source.body[f])[k].to.rev = 0
<1> SUFFICES ASSUME NEW f \in DOMAIN source.body
             PROVE  /\ source.body[f] \in Bodies
                    /\ \A k \in DOMAIN Calls(source.body[f]) :
                           Calls(source.body[f])[k].to.rev = 0
    OBVIOUS
<1> DEFINE C == [to : [base : STRING, rev : {0}], prefix : Nat]
           b == source.body[f]
<1>1. b \in [first : Seq(C), rest : Seq(C)]
    BY SourceFacts
<1>2. C \subseteq SomeCall
    BY DEF SomeCall, Names
<1>3. \A c \in C : c.to.rev = 0
    OBVIOUS
<1> HIDE DEF C, b
<1>4. Seq(C) \subseteq Seq(SomeCall)
    BY <1>2, SeqIn
<1>5. b \in Bodies
    BY <1>1, <1>4 DEF Bodies
<1>6. Calls(b) \in Seq(C)
    BY <1>1 DEF Calls
<1>7. \A k \in DOMAIN Calls(b) : Calls(b)[k] \in C
    BY <1>6
<1> QED
    BY <1>3, <1>5, <1>7 DEF b

\* No gate has the name of a function of the module.
LEMMA GateNames ==
    ASSUME RInv, NEW f \in Names, IsIntrinsic(f)
    PROVE  f \notin DOMAIN body
<1> SUFFICES ASSUME f \in DOMAIN body PROVE FALSE
    OBVIOUS
<1>1. Fn(f.base) \in DOMAIN source.body
    BY DEF RInv, Origins
<1>2. ~IsIntrinsic(Fn(f.base))
    BY <1>1, SourceFacts, BodyFacts DEF RInv
<1> QED
    BY <1>2 DEF IsIntrinsic, Fn

\* A function without "_Reverse" in its name is one of the source.
LEMMA PlainNames ==
    ASSUME RInv, FromSource, NEW f \in Names, f.rev = 0
    PROVE  f \in DOMAIN body <=> f \in DOMAIN source.body
<1>1. f = Fn(f.base)
    BY DEF Names, Fn
<1>2. f \in DOMAIN body => Fn(f.base) \in DOMAIN source.body
    BY DEF RInv, Origins
<1>3. f \in DOMAIN source.body => f \in DOMAIN body
    BY DEF FromSource
<1> QED
    BY <1>1, <1>2, <1>3

\* The list of an inverse is that of its function, undone.
Mirrored(g) ==
    \A f \in DOMAIN body : Rev(f) \in DOMAIN body => g[Rev(f)] = Undone(g[f])

\* The call of an inverse undoes what the call of the function does.
LEMMA InverseUndoes ==
    ASSUME RInv, NEW g \in [DOMAIN body -> Seq(Gates)], Mirrored(g),
           NEW f \in Names, InverseOf(f).rev > 0 => InverseOf(f) \in DOMAIN body
    PROVE  GatesOfCall(g, Call(InverseOf(f))) = Undone(GatesOfCall(g, Call(f)))
<1> DEFINE i == InverseOf(f)
<1>1. ~Odd(0)
    BY DEF Odd
<1>2. \A x : GatesOfCall(g, Call(x)) = IF x \in DOMAIN body THEN g[x] ELSE <<x.base>>
    BY <1>1 DEF GatesOfCall, Call
<1>3. CASE IsIntrinsic(f)
  <2>1. i \in Names /\ IsIntrinsic(i)
      BY <1>3, InverseFacts
  <2>2. f \notin DOMAIN body /\ i \notin DOMAIN body
      BY <1>3, <2>1, GateNames
  <2>3. i.base = Undoing(f.base)
      BY <1>3 DEF InverseOf, Fn, IntrinsicInverse, Undoing
  <2>4. f.base \in Gates
      BY DEF Names, Gates
  <2>5. Undone(<<f.base>>) = <<Undoing(f.base)>>
      BY <2>4, UndoneOne
  <2> HIDE DEF i
  <2>6. GatesOfCall(g, Call(i)) = <<i.base>> /\ GatesOfCall(g, Call(f)) = <<f.base>>
      BY <1>2, <2>2
  <2> QED
      BY <2>3, <2>5, <2>6 DEF i
<1>4. CASE ~IsIntrinsic(f)
  <2>1. i = Rev(f)
      BY <1>4, InverseFacts
  <2>2. Rev(f).rev > 0
      BY DEF Rev, Names
  <2>3. Rev(f) \in DOMAIN body
      BY <2>1, <2>2
  <2>4. f \in DOMAIN body
      BY <2>3 DEF RInv, Origins
  <2>5. g[Rev(f)] = Undone(g[f])
      BY <2>3, <2>4 DEF Mirrored
  <2> HIDE DEF i
  <2>6. GatesOfCall(g, Call(i)) = g[Rev(f)] /\ GatesOfCall(g, Call(f)) = g[f]
      BY <1>2, <2>1, <2>3, <2>4
  <2> QED
      BY <2>5, <2>6 DEF i
<1> QED
    BY <1>3, <1>4

\* What the end of the pass gives.
Finished == RInv /\ FromSource /\ AllReplaced /\ pc = "done" /\ building = <<>> /\ OneBlockEach

LEMMA BodyUnfolded ==
    ASSUME NEW g \in [DOMAIN body -> Seq(Gates)], NEW f, body[f] \in Bodies
    PROVE  /\ PerCall(body, g, f) \in Seq(Seq(Gates))
           /\ Len(PerCall(body, g, f)) = Len(Calls(body[f]))
           /\ \A i \in 1 .. Len(Calls(body[f])) :
                  PerCall(body, g, f)[i] = GatesOfCall(g, Calls(body[f])[i])
           /\ Unfolded(body, g, f) = FlattenSeq(PerCall(body, g, f))
           /\ Unfolded(body, g, f) \in Seq(Gates)
BY UnfoldedFacts, Zenon

\* One more level of calls: lists that mirror one another still do.
LEMMA StepMirrors ==
    ASSUME Finished, NEW g \in [DOMAIN body -> Seq(Gates)], Mirrored(g)
    PROVE  Mirrored([f \in DOMAIN body |-> Unfolded(body, g, f)])
<1> SUFFICES ASSUME NEW f \in DOMAIN body, Rev(f) \in DOMAIN body
             PROVE  Unfolded(body, g, Rev(f)) = Undone(Unfolded(body, g, f))
    BY DEF Mirrored
<1>a. f \in Names /\ body[f] \in Bodies /\ body[Rev(f)] \in Bodies
    BY BodyFacts DEF Finished, RInv
<1>b. /\ PerCall(body, g, f) \in Seq(Seq(Gates))
      /\ Len(PerCall(body, g, f)) = Len(Calls(body[f]))
      /\ \A i \in 1 .. Len(Calls(body[f])) :
             PerCall(body, g, f)[i] = GatesOfCall(g, Calls(body[f])[i])
      /\ Unfolded(body, g, f) = FlattenSeq(PerCall(body, g, f))
      /\ Unfolded(body, g, f) \in Seq(Gates)
    BY <1>a, BodyUnfolded, Zenon
<1>c. /\ PerCall(body, g, Rev(f)) \in Seq(Seq(Gates))
      /\ Len(PerCall(body, g, Rev(f))) = Len(Calls(body[Rev(f)]))
      /\ \A i \in 1 .. Len(Calls(body[Rev(f)])) :
             PerCall(body, g, Rev(f))[i] = GatesOfCall(g, Calls(body[Rev(f)])[i])
      /\ Unfolded(body, g, Rev(f)) = FlattenSeq(PerCall(body, g, Rev(f)))
      /\ Unfolded(body, g, Rev(f)) \in Seq(Gates)
    BY <1>a, BodyUnfolded, Zenon
<1> DEFINE b == body[f]
           r == body[Rev(f)]
           n == Len(Calls(b))
           s == PerCall(body, g, f)
           t == PerCall(body, g, Rev(f))
<1>1. f \in Names /\ b \in Bodies /\ r \in Bodies
    BY <1>a
<1>2. b.rest = <<>> /\ r.rest = <<>>
  <2>1. b.rest = <<>>
      BY DEF Finished, OneBlockEach, Reversed
  <2>2. Len(r.rest) = Len(b.rest)
      BY DEF Finished, FromSource
  <2>3. r.rest \in Seq(SomeCall)
      BY <1>1, CallsFacts
  <2> HIDE DEF b, r
  <2> QED
      BY <2>1, <2>2, <2>3
<1>3. Calls(b) = b.first /\ Calls(r) = r.first
  <2>1. b.first \in Seq(SomeCall) /\ r.first \in Seq(SomeCall)
      BY <1>1, CallsFacts
  <2> HIDE DEF b, r
  <2> QED
      BY <1>2, <2>1 DEF Calls
<1>4. Turned(b.first, r.first, 0)
    BY DEF Finished, RInv, Made
<1>5. /\ n \in Nat /\ DOMAIN Calls(b) = 1 .. n /\ \A i \in 1 .. n : Calls(b)[i] \in SomeCall
      /\ DOMAIN Calls(r) = 1 .. Len(Calls(r))
  <2>1. Calls(b) \in Seq(SomeCall) /\ Calls(r) \in Seq(SomeCall)
      BY <1>1, CallsFacts
  <2> DEFINE x == Calls(b)
             y == Calls(r)
  <2>2. x \in Seq(SomeCall) /\ y \in Seq(SomeCall)
      BY <2>1
  <2> HIDE DEF x, y
  <2>3. /\ Len(x) \in Nat /\ DOMAIN x = 1 .. Len(x) /\ \A i \in 1 .. Len(x) : x[i] \in SomeCall
        /\ DOMAIN y = 1 .. Len(y)
      BY <2>2
  <2> QED
      BY <2>3 DEF x, y
<1>6. /\ Len(Calls(r)) = n
      /\ \A i \in 1 .. n : /\ Calls(b)[i].prefix = 0
                           /\ Calls(r)[n + 1 - i] = Inverted(Calls(b)[i])
  <2> HIDE DEF b, r
  <2>1. \A i \in 1 .. n : ~(i <= 0) /\ 0 + n + 1 - i = n + 1 - i
      BY <1>5
  <2> QED
      BY <1>3, <1>4, <2>1 DEF Turned
<1>7. /\ s \in Seq(Seq(Gates)) /\ Len(s) = n
      /\ \A i \in 1 .. n : s[i] = GatesOfCall(g, Calls(b)[i])
      /\ Unfolded(body, g, f) = FlattenSeq(s)
    BY <1>b
<1>8. /\ t \in Seq(Seq(Gates)) /\ Len(t) = n
      /\ \A i \in 1 .. n : t[i] = GatesOfCall(g, Calls(r)[i])
      /\ Unfolded(body, g, Rev(f)) = FlattenSeq(t)
  <2>1. /\ t \in Seq(Seq(Gates)) /\ Len(t) = Len(Calls(r))
        /\ \A i \in 1 .. Len(Calls(r)) : t[i] = GatesOfCall(g, Calls(r)[i])
        /\ Unfolded(body, g, Rev(f)) = FlattenSeq(t)
      BY <1>c
  <2> HIDE DEF s, t, b, r, n
  <2> QED
      BY <1>6, <2>1
<1>9. ASSUME NEW i \in 1 .. n PROVE t[n + 1 - i] = Undone(s[i])
  <2> DEFINE c == Calls(b)[i]
             d == Calls(r)[n + 1 - i]
  <2>1. n + 1 - i \in 1 .. n
      BY <1>5
  <2>2. c \in SomeCall /\ c.prefix = 0 /\ d = Call(InverseOf(c.to))
      BY <1>5, <1>6 DEF Inverted
  <2>3. c.to \in Names /\ c = Call(c.to)
      BY <2>2 DEF SomeCall, Call
  <2>4. d.to.rev > 0 => d.to \in DOMAIN body
      BY <1>5, <1>6, <2>1 DEF Finished, AllReplaced
  <2>5. d.to = InverseOf(c.to)
      BY <2>2 DEF Call
  <2> HIDE DEF c, d
  <2>6. InverseOf(c.to).rev > 0 => InverseOf(c.to) \in DOMAIN body
      BY <2>4, <2>5
  <2>7. GatesOfCall(g, Call(InverseOf(c.to))) = Undone(GatesOfCall(g, Call(c.to)))
    <3>1. RInv
        BY DEF Finished
    <3> QED
        BY <2>3, <2>6, <3>1, InverseUndoes
  <2>8. GatesOfCall(g, d) = Undone(GatesOfCall(g, c))
      BY <2>2, <2>3, <2>7
  <2>9. t[n + 1 - i] = GatesOfCall(g, d) /\ s[i] = GatesOfCall(g, c)
      BY <1>7, <1>8, <2>1 DEF c, d
  <2> QED
      BY <2>8, <2>9
<1> HIDE DEF s, t, b, r, n
<1>10. FlattenSeq(t) = Undone(FlattenSeq(s))
    BY <1>7, <1>8, <1>9, UndoneFlatten
<1> QED
    BY <1>7, <1>8, <1>10

\* The functions of the source do what is said of them.
Agree(g, gs) == \A f \in DOMAIN source.body : g[f] = gs[f]

\* A call, as it was or replaced, does what the source says.
LEMMA CallAgrees ==
    ASSUME RInv, FromSource,
           NEW g \in [DOMAIN body -> Seq(Gates)], NEW gs \in [DOMAIN source.body -> Seq(Gates)],
           Mirrored(g), Agree(g, gs),
           NEW s \in SomeCall, s.to.rev = 0, NEW c, Replaces(c, s), c.prefix = 0,
           c.to.rev > 0 => c.to \in DOMAIN body
    PROVE  GatesOfCall(g, c) = GatesOfCall(gs, s)
<1>1. ~Odd(0)
    BY DEF Odd
<1>2. \A x : GatesOfCall(g, Call(x)) = IF x \in DOMAIN body THEN g[x] ELSE <<x.base>>
    BY <1>1 DEF GatesOfCall, Call
<1>3. s.to \in Names /\ s.prefix \in Nat /\ s = [to |-> s.to, prefix |-> s.prefix]
    BY DEF SomeCall
<1>4. s.to \in DOMAIN body <=> s.to \in DOMAIN source.body
    BY <1>3, PlainNames
<1>5. GatesOfCall(g, Call(s.to)) = IF s.to \in DOMAIN gs THEN gs[s.to] ELSE <<s.to.base>>
    BY <1>2, <1>4 DEF Agree
<1>6. CASE ~Odd(s.prefix)
  <2>1. c = Call(s.to)
    <3>1. s.prefix = 0 => s = Call(s.to)
        BY <1>3 DEF Call
    <3> QED
        BY <1>6, <3>1 DEF Replaces
  <2>2. GatesOfCall(gs, s) = IF s.to \in DOMAIN gs THEN gs[s.to] ELSE <<s.to.base>>
      BY <1>6 DEF GatesOfCall
  <2> QED
      BY <1>5, <2>1, <2>2
<1>7. CASE Odd(s.prefix)
  <2>1. s.prefix # 0
      BY <1>1, <1>7
  <2>2. c = Call(InverseOf(s.to))
      BY <1>7, <2>1 DEF Replaces
  <2>3. c.to = InverseOf(s.to)
      BY <2>2 DEF Call
  <2>4. InverseOf(s.to).rev > 0 => InverseOf(s.to) \in DOMAIN body
      BY <2>3
  <2>5. GatesOfCall(g, c) = Undone(GatesOfCall(g, Call(s.to)))
      BY <1>3, <2>2, <2>4, InverseUndoes
  <2>6. GatesOfCall(gs, s) = Undone(IF s.to \in DOMAIN gs THEN gs[s.to] ELSE <<s.to.base>>)
      BY <1>7 DEF GatesOfCall
  <2> QED
      BY <1>5, <2>5, <2>6
<1> QED
    BY <1>6, <1>7

\* One more level of calls: the functions of the source still agree.
LEMMA StepAgrees ==
    ASSUME Finished, NEW g \in [DOMAIN body -> Seq(Gates)],
           NEW gs \in [DOMAIN source.body -> Seq(Gates)], Mirrored(g), Agree(g, gs)
    PROVE  Agree([f \in DOMAIN body |-> Unfolded(body, g, f)],
                 [f \in DOMAIN source.body |-> Unfolded(source.body, gs, f)])
<1>1. \A f \in DOMAIN source.body : f \in DOMAIN body
    BY DEF Finished, FromSource
<1> SUFFICES ASSUME NEW f \in DOMAIN source.body
             PROVE  Unfolded(body, g, f) = Unfolded(source.body, gs, f)
    BY <1>1 DEF Agree
<1> DEFINE x == Calls(body[f])
           y == Calls(source.body[f])
           n == Len(x)
           s == PerCall(body, g, f)
           t == PerCall(source.body, gs, f)
<1>2. /\ body[f] \in Bodies /\ source.body[f] \in Bodies
      /\ \A k \in DOMAIN y : y[k].to.rev = 0
  <2>1. source \in Programs /\ Types
      BY BodyFacts DEF Finished, RInv
  <2> QED
      BY <1>1, <2>1, BodyFacts, SourceBodies
<1>3. x \in Seq(SomeCall) /\ y \in Seq(SomeCall)
    BY <1>2, CallsFacts
<1>4. /\ DOMAIN x = DOMAIN y
      /\ \A k \in DOMAIN x : Replaces(x[k], y[k])
    BY DEF Finished, FromSource
<1>5. \A k \in DOMAIN x : x[k].prefix = 0 /\ (x[k].to.rev > 0 => x[k].to \in DOMAIN body)
    BY <1>1 DEF Finished, AllReplaced
<1>6. /\ s \in Seq(Seq(Gates)) /\ Len(s) = n
      /\ \A i \in 1 .. n : s[i] = GatesOfCall(g, x[i])
      /\ Unfolded(body, g, f) = FlattenSeq(s)
    BY <1>2, BodyUnfolded
<1>7. /\ t \in Seq(Seq(Gates)) /\ Len(t) = Len(y)
      /\ \A i \in 1 .. Len(y) : t[i] = GatesOfCall(gs, y[i])
      /\ Unfolded(source.body, gs, f) = FlattenSeq(t)
    BY <1>2, UnfoldedFacts
<1> HIDE DEF x, y, s, t
<1>8. /\ Len(x) = Len(y) /\ DOMAIN x = 1 .. n /\ n \in Nat
      /\ \A k \in 1 .. n : y[k] \in SomeCall
    BY <1>3, <1>4
<1> HIDE DEF n
<1>9. ASSUME NEW k \in 1 .. n PROVE s[k] = t[k]
  <2>1. /\ Replaces(x[k], y[k]) /\ y[k] \in SomeCall /\ y[k].to.rev = 0
        /\ x[k].prefix = 0 /\ (x[k].to.rev > 0 => x[k].to \in DOMAIN body)
      BY <1>2, <1>4, <1>5, <1>8
  <2>2. RInv /\ FromSource
      BY DEF Finished
  <2>3. GatesOfCall(g, x[k]) = GatesOfCall(gs, y[k])
      BY <2>1, <2>2, CallAgrees
  <2>4. s[k] = GatesOfCall(g, x[k])
      BY <1>6
  <2>5. t[k] = GatesOfCall(gs, y[k])
      BY <1>7, <1>8 DEF n
  <2> QED
      BY <2>3, <2>4, <2>5
<1>10. s = t
  <2>1. Len(s) = Len(t) /\ Len(s) = n
      BY <1>6, <1>7, <1>8 DEF n
  <2> QED
      BY <1>6, <1>7, <1>9, <2>1, SameList
<1> QED
    BY <1>6, <1>7, <1>10

LEMMA MeaningKeptFollows == RInv /\ Replaced /\ FromSource => MeaningKept
<1> SUFFICES ASSUME RInv, Replaced, FromSource, pc = "done", OneBlockEach
             PROVE  SameGates
    BY DEF MeaningKept
<1>1. Finished
    BY AllReplacedFollows DEF Finished, Replaced
<1>2. source \in Programs /\ \A f \in DOMAIN body : body[f] \in Bodies
    BY BodyFacts DEF RInv
<1>3. \A f \in DOMAIN source.body : source.body[f] \in Bodies /\ f \in DOMAIN body
    BY <1>2, SourceBodies DEF FromSource
<1> DEFINE n == Deepest
<1>4. n \in Nat
    BY <1>2, SourceFacts DEF Deepest
<1> HIDE DEF n
<1>5. PICK g : Deepens(g, body, n) /\ GatesOf(body, n) = g[n]
    BY <1>2, <1>4, GatesExist
<1>6. PICK gs : Deepens(gs, source.body, n) /\ GatesOf(source.body, n) = gs[n]
  <2> DEFINE b == source.body
  <2>1. \A f \in DOMAIN b : b[f] \in Bodies
      BY <1>3
  <2> HIDE DEF b
  <2>2. \E gs : Deepens(gs, b, n) /\ GatesOf(b, n) = gs[n]
      BY <1>4, <2>1, GatesExist
  <2> QED
      BY <2>2 DEF b
<1> DEFINE Good(k) == Mirrored(g[k]) /\ Agree(g[k], gs[k])
           T == {k \in Nat : k <= n => Good(k)}
<1>7. 0 \in T
  <2>1. /\ \A f \in DOMAIN body : g[0][f] = <<>>
        /\ \A f \in DOMAIN source.body : gs[0][f] = <<>>
      BY <1>5, <1>6 DEF Deepens
  <2>2. Mirrored(g[0])
      BY <2>1, UndoneNone DEF Mirrored
  <2>3. Agree(g[0], gs[0])
      BY <1>3, <2>1 DEF Agree
  <2> QED
      BY <2>2, <2>3
<1>8. ASSUME NEW k \in Nat, k \in T PROVE k + 1 \in T
  <2> HIDE DEF Good
  <2> SUFFICES ASSUME k + 1 <= n PROVE Good(k + 1)
      OBVIOUS
  <2>1. k <= n /\ k + 1 \in 1 .. n /\ (k + 1) - 1 = k /\ k \in 0 .. n
      BY <1>4
  <2>2. Mirrored(g[k]) /\ Agree(g[k], gs[k])
      BY <1>8, <2>1 DEF Good
  <2>3. /\ g[k] \in [DOMAIN body -> Seq(Gates)] /\ gs[k] \in [DOMAIN source.body -> Seq(Gates)]
        /\ g[k + 1] = [f \in DOMAIN body |-> Unfolded(body, g[k], f)]
        /\ gs[k + 1] = [f \in DOMAIN source.body |-> Unfolded(source.body, gs[k], f)]
    <3>1. g[k] \in [DOMAIN body -> Seq(Gates)]
        BY <1>5, <2>1 DEF Deepens
    <3>2. gs[k] \in [DOMAIN source.body -> Seq(Gates)]
        BY <1>6, <2>1 DEF Deepens
    <3>3. g[k + 1] = [f \in DOMAIN body |-> Unfolded(body, g[k], f)]
      <4>1. g[k + 1] = [f \in DOMAIN body |-> Unfolded(body, g[(k + 1) - 1], f)]
          BY <1>5, <2>1 DEF Deepens
      <4> QED
          BY <2>1, <4>1
    <3>4. gs[k + 1] = [f \in DOMAIN source.body |-> Unfolded(source.body, gs[k], f)]
      <4>1. gs[k + 1] = [f \in DOMAIN source.body |-> Unfolded(source.body, gs[(k + 1) - 1], f)]
          BY <1>6, <2>1 DEF Deepens
      <4> QED
          BY <2>1, <4>1
    <3> QED
        BY <3>1, <3>2, <3>3, <3>4
  <2> DEFINE h == g[k]
             hs == gs[k]
  <2>4. /\ h \in [DOMAIN body -> Seq(Gates)] /\ hs \in [DOMAIN source.body -> Seq(Gates)]
        /\ Mirrored(h) /\ Agree(h, hs)
      BY <2>2, <2>3
  <2> HIDE DEF h, hs
  <2>5. Mirrored([f \in DOMAIN body |-> Unfolded(body, h, f)])
      BY <1>1, <2>4, StepMirrors
  <2>6. Agree([f \in DOMAIN body |-> Unfolded(body, h, f)],
              [f \in DOMAIN source.body |-> Unfolded(source.body, hs, f)])
      BY <1>1, <2>4, StepAgrees
  <2> QED
      BY <2>3, <2>5, <2>6 DEF Good, h, hs
<1>9. Agree(g[n], gs[n])
  <2>1. n \in T
    <3> HIDE DEF T
    <3> QED
        BY <1>4, <1>7, <1>8, SetInduction
  <2> QED
      BY <1>4, <2>1
<1> QED
    BY <1>5, <1>6, <1>9 DEF SameGates, Agree, n

\* At the end of the pass every function of the source does what the source
\* says, the inverse where _reverse_ was called.
THEOREM MeaningKeptHolds == Spec => []MeaningKept
BY RInvHolds, ReplacedHolds, FromSourceHolds, MeaningKeptFollows, PTL

-----------------------------------------------------------------------------
(* No call is too deep.                                                    *)

\* The gates of a function are those of its calls, none of which is cut off.
Unfolds(b) ==
    \A f \in DOMAIN b : GatesOf(b, Deepest)[f] = Unfolded(b, GatesOf(b, Deepest), f)

\* A body that calls functions further down only.
GoesDown(b, l) ==
    \A f \in DOMAIN b : \A i \in DOMAIN Calls(b[f]) :
        Calls(b[f])[i].to \in DOMAIN b => l[Calls(b[f])[i].to] < l[f]

\* Gates of a function do not depend on others than those that it calls.
LEMMA SameUnfolded ==
    ASSUME NEW b, NEW f, NEW g, NEW h, DOMAIN g = DOMAIN h,
           \A i \in DOMAIN Calls(b[f]) :
               Calls(b[f])[i].to \in DOMAIN g => g[Calls(b[f])[i].to] = h[Calls(b[f])[i].to]
    PROVE  Unfolded(b, g, f) = Unfolded(b, h, f)
<1> DEFINE cs == Calls(b[f])
<1>1. \A i \in DOMAIN cs : GatesOfCall(g, cs[i]) = GatesOfCall(h, cs[i])
    BY DEF GatesOfCall
<1>2. [i \in DOMAIN cs |-> GatesOfCall(g, cs[i])] = [i \in DOMAIN cs |-> GatesOfCall(h, cs[i])]
  <2> HIDE DEF cs
  <2> QED
      BY <1>1
<1> QED
    BY <1>2 DEF Unfolded

LEMMA DownUnfolds ==
    ASSUME source \in Programs, NEW b, \A f \in DOMAIN b : b[f] \in Bodies,
           NEW l \in [DOMAIN b -> 0 .. Len(source.functions)], GoesDown(b, l)
    PROVE  Unfolds(b)
<1> DEFINE n == Deepest
           m == Len(source.functions)
<1>1. m \in Nat /\ n = m + 1
    BY SourceFacts DEF Deepest
<1>2. \A f \in DOMAIN b : l[f] \in 0 .. m
    OBVIOUS
<1> HIDE DEF n, m
<1>3. n \in Nat
    BY <1>1
<1>4. PICK g : Deepens(g, b, n) /\ GatesOf(b, n) = g[n]
    BY <1>3, GatesExist
<1>5. /\ \A k \in 0 .. n : DOMAIN g[k] = DOMAIN b
      /\ \A k \in 1 .. n : \A f \in DOMAIN b : g[k][f] = Unfolded(b, g[k - 1], f)
  <2>1. \A k \in 0 .. n : g[k] \in [DOMAIN b -> Seq(Gates)]
      BY <1>4 DEF Deepens
  <2>2. \A k \in 1 .. n : g[k] = [f \in DOMAIN b |-> Unfolded(b, g[k - 1], f)]
      BY <1>4 DEF Deepens
  <2> QED
      BY <2>1, <2>2
<1> DEFINE Good(k) == \A f \in DOMAIN b : l[f] < k => g[k][f] = Unfolded(b, g[k], f)
           T == {k \in Nat : k <= n => Good(k)}
<1>6. 0 \in T
  <2>1. \A f \in DOMAIN b : ~(l[f] < 0)
      BY <1>1, <1>2
  <2> QED
      BY <2>1
<1>7. ASSUME NEW k \in Nat, k \in T PROVE k + 1 \in T
  <2> HIDE DEF Good
  <2> SUFFICES ASSUME k + 1 <= n PROVE Good(k + 1)
      OBVIOUS
  <2> USE DEF Good
  <2> SUFFICES ASSUME NEW f \in DOMAIN b, l[f] < k + 1
               PROVE  g[k + 1][f] = Unfolded(b, g[k + 1], f)
      OBVIOUS
  <2>1. k <= n /\ k + 1 \in 1 .. n /\ (k + 1) - 1 = k /\ k \in 0 .. n /\ k + 1 \in 0 .. n
      BY <1>3
  <2>2. Good(k)
      BY <1>7, <2>1
  <2> DEFINE new == g[k + 1]
             old == g[k]
  <2>3. /\ DOMAIN new = DOMAIN b /\ DOMAIN old = DOMAIN b
        /\ \A x \in DOMAIN b : new[x] = Unfolded(b, old, x)
        /\ \A x \in DOMAIN b : l[x] < k => old[x] = Unfolded(b, old, x)
      BY <1>5, <2>1, <2>2
  <2> HIDE DEF new, old, T, Good
  <2>4. \A i \in DOMAIN Calls(b[f]) :
            Calls(b[f])[i].to \in DOMAIN old =>
                old[Calls(b[f])[i].to] = new[Calls(b[f])[i].to]
    <3> SUFFICES ASSUME NEW i \in DOMAIN Calls(b[f]), NEW x, x = Calls(b[f])[i].to, x \in DOMAIN b
                 PROVE  old[x] = new[x]
        BY <2>3
    <3>1. l[x] < l[f]
        BY DEF GoesDown
    <3>2. l[x] \in Int /\ l[f] \in Int
        BY <1>1, <1>2
    <3>3. l[x] < k
        BY <3>1, <3>2
    <3> QED
        BY <2>3, <3>3
  <2>5. Unfolded(b, old, f) = Unfolded(b, new, f)
      BY <2>3, <2>4, SameUnfolded
  <2>6. new[f] = Unfolded(b, new, f)
      BY <2>3, <2>5
  <2> QED
      BY <2>6 DEF new
<1>8. Good(n)
  <2>1. n \in T
    <3> HIDE DEF T
    <3> QED
        BY <1>3, <1>6, <1>7, SetInduction
  <2> HIDE DEF Good
  <2> QED
      BY <1>3, <2>1
<1>9. \A f \in DOMAIN b : l[f] < n
    BY <1>1, <1>2
<1> QED
    BY <1>4, <1>8, <1>9 DEF Unfolds, n

\* In the end, too, functions call others further down only.
LEMMA EndsDown ==
    ASSUME Finished
    PROVE  \A f \in DOMAIN body : \A i \in DOMAIN Calls(body[f]) :
               Calls(body[f])[i].to \in DOMAIN body => Depth(Calls(body[f])[i].to) < Depth(f)
<1> SUFFICES ASSUME NEW f \in DOMAIN body, NEW i \in DOMAIN Calls(body[f]),
                    NEW c, c = Calls(body[f])[i], c.to \in DOMAIN body
             PROVE  Depth(c.to) < Depth(f)
    OBVIOUS
<1>1. /\ RInv /\ FromSource /\ source \in Programs
      /\ f \in Names /\ body[f] \in Bodies /\ c.to \in Names
    BY BodyFacts DEF Finished, RInv
<1>2. Fn(c.to.base) \in DOMAIN source.body
    BY <1>1 DEF RInv, Origins
<1>3. CASE f \in DOMAIN source.body
  <2> DEFINE s == Calls(source.body[f])[i]
  <2>1. Replaces(c, s) /\ i \in DOMAIN Calls(source.body[f])
      BY <1>1, <1>3 DEF FromSource
  <2>2. s \in SomeCall /\ s.to.rev = 0
    <3> DEFINE y == Calls(source.body[f])
    <3>1. y \in Seq(SomeCall) /\ s.to.rev = 0
        BY <1>1, <1>3, <2>1, SourceBodies, CallsFacts
    <3>2. i \in DOMAIN y /\ s = y[i]
        BY <2>1
    <3> HIDE DEF y, s
    <3> QED
        BY <3>1, <3>2
  <2>3. s.to \in DOMAIN source.body => level[s.to] < level[f]
      BY <1>1, <1>3, <2>1, LevelFacts DEF Leveled
  <2> HIDE DEF s
  <2>4. Fn(f.base) = f /\ Fn(s.to.base) = s.to /\ s.to \in Names
    <3>1. f.rev = 0
        BY <1>1, <1>3, SourceFacts
    <3> QED
        BY <1>1, <2>2, <3>1 DEF SomeCall, Names, Fn
  <2>5. c.to.base = s.to.base
    <3>1. c.to \in {s.to, InverseOf(s.to)}
        BY <2>1 DEF Replaces, Call
    <3>2. CASE c.to = InverseOf(s.to)
      <4>1. Fn(InverseOf(s.to).base) \in DOMAIN source.body
          BY <1>2, <3>2
      <4> QED
          BY <1>1, <2>4, <3>2, <4>1, InverseBase
    <3> QED
        BY <3>1, <3>2
  <2> QED
      BY <1>2, <2>3, <2>4, <2>5 DEF Depth
<1>4. CASE f \notin DOMAIN source.body
  <2>1. f.rev # 0
      BY <1>1, <1>4, PlainNames
  <2> DEFINE e == [base |-> f.base, rev |-> f.rev - 1]
  <2>2. e \in Names /\ Rev(e) = f
      BY <1>1, <2>1 DEF Names, Rev
  <2> HIDE DEF e
  <2>3. e \in DOMAIN body
      BY <1>1, <2>2 DEF RInv, Origins
  <2>4. body[e].rest = <<>> /\ Len(body[f].rest) = Len(body[e].rest)
      BY <1>1, <2>2, <2>3 DEF Finished, OneBlockEach, Reversed, FromSource
  <2>5. Calls(body[f]) = body[f].first
    <3> DEFINE b == body[f]
    <3>1. b.first \in Seq(SomeCall) /\ b.rest \in Seq(SomeCall)
        BY <1>1, CallsFacts
    <3> HIDE DEF b
    <3>2. Len(b.rest) = 0
        BY <2>4 DEF b
    <3>3. b.rest = <<>>
        BY <3>1, <3>2
    <3>4. b.first \o <<>> = b.first
        BY <3>1
    <3>5. Calls(b) = b.first
        BY <3>3, <3>4 DEF Calls
    <3> QED
        BY <3>5 DEF b
  <2> QED
      BY <1>1, <1>2, <2>5 DEF RInv, CallsDown
<1> QED
    BY <1>3, <1>4

\* The depth to which MeaningKept looks leaves nothing out.
DeepEnough ==
    /\ Unfolds(source.body)
    /\ pc = "done" /\ OneBlockEach => Unfolds(body)

LEMMA DeepEnoughFollows == RInv /\ Replaced /\ FromSource => DeepEnough
<1> SUFFICES ASSUME RInv, Replaced, FromSource PROVE DeepEnough
    OBVIOUS
<1>1. source \in Programs /\ \A f \in DOMAIN body : body[f] \in Bodies
    BY BodyFacts DEF RInv
<1>2. Leveled(level)
    BY <1>1, LevelFacts
<1>3. Unfolds(source.body)
  <2> DEFINE b == source.body
  <2>1. \A f \in DOMAIN b : b[f] \in Bodies
      BY <1>1, SourceBodies
  <2>2. GoesDown(b, level)
      BY <1>2 DEF Leveled, GoesDown
  <2>3. level \in [DOMAIN b -> 0 .. Len(source.functions)]
      BY <1>2 DEF Leveled
  <2> HIDE DEF b
  <2>4. Unfolds(b)
      BY <1>1, <2>1, <2>2, <2>3, DownUnfolds
  <2> QED
      BY <2>4 DEF b
<1>4. ASSUME pc = "done", OneBlockEach PROVE Unfolds(body)
  <2>1. Finished
      BY <1>4, AllReplacedFollows DEF Finished, Replaced
  <2> DEFINE l == [f \in DOMAIN body |-> Depth(f)]
  <2>2. l \in [DOMAIN body -> 0 .. Len(source.functions)]
    <3>1. level \in [DOMAIN source.body -> 0 .. Len(source.functions)]
        BY <1>2 DEF Leveled
    <3>2. \A f \in DOMAIN body : Fn(f.base) \in DOMAIN source.body
        BY DEF RInv, Origins
    <3> QED
        BY <3>1, <3>2 DEF Depth
  <2>3. GoesDown(body, l)
      BY <2>1, EndsDown DEF GoesDown
  <2> HIDE DEF l
  <2> QED
      BY <1>1, <2>2, <2>3, DownUnfolds
<1> QED
    BY <1>3, <1>4 DEF DeepEnough

\* What a function is said to do in MeaningKept is all that it does: the
\* gates of every function are those of its calls, however deep they go.
THEOREM DeepEnoughHolds == Spec => []DeepEnough
BY RInvHolds, ReplacedHolds, FromSourceHolds, DeepEnoughFollows, PTL
=============================================================================
