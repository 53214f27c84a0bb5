--------------------------- MODULE Frequency_proofs ---------------------------
(***************************************************************************)
(* Proofs about Frequency, for every program, every size of the stack and  *)
(* every width of the counts.                                              *)
(*                                                                         *)
(* The stack always holds the rounds of the calls that are active, and     *)
(* never more entries than it has room for.                                *)
(*                                                                         *)
(* The counts in the summary are those of the program that was rolled up.  *)
(* The invariant is a ledger kept for each key: what its entry holds and   *)
(* what the activations have still to count, each as often as the product  *)
(* of its entries, is, modulo Word, what one run of main needs in all.     *)
(* What a module needs is defined by the calls it makes, downwards, and    *)
(* how often it runs by the calls of it, upwards; that the two lead to the *)
(* same number is a double count, by callers and by modules called.        *)
(***************************************************************************)
EXTENDS Frequency, FiniteSetTheorems, TLAPS

-----------------------------------------------------------------------------
(* The inductive invariant.                                                *)

Activation == [mod : DOMAIN program, at : Nat \ {0}, tracked : BOOLEAN]

\* The types of all but the counts; main() is never tracked.
StackType ==
    /\ program \in Programs
    /\ frames \in Seq(Activation) /\ Len(frames) >= 1
    /\ ~frames[1].tracked
    /\ contents \in Seq(Nat) /\ Len(contents) \in 1 .. MAX_CALL_DEPTH
    /\ status \in {"running", "over", "full"}

IInv == StackType /\ StackMatchesCalls

\* Activations with an entry of their own, and those up to the k-th.
Tracked(fr) == {k \in DOMAIN fr : fr[k].tracked}
UpTo(fr, k) == {j \in Tracked(fr) : j <= k}

-----------------------------------------------------------------------------
(* Loops.                                                                  *)

\* What the assumption says of the program at hand.
LEMMA ProgramFacts ==
    ASSUME program \in Programs
    PROVE  /\ 1 \in DOMAIN program /\ DOMAIN program \subseteq Nat
           /\ \A m \in DOMAIN program :
                LET body == program[m].body IN
                /\ DOMAIN body = 1 .. Len(body)
                /\ \A i \in DOMAIN body :
                     /\ body[i].kind \in {"call", "start", "end"}
                     /\ body[i].kind = "call" => body[i].callee \in DOMAIN program
                     /\ body[i].kind = "start" =>
                          /\ body[i].n \in Nat
                          /\ \E j \in i + 1 .. Len(body) :
                               /\ body[j].kind = "end"
                               /\ \A k \in i + 1 .. j - 1 : body[k].kind = "call"
BY ProgramsAssumption DEF WellFormed

\* A set of positions before i has a last one.
LEMMA LastExists ==
    ASSUME NEW i \in Nat, NEW S \in SUBSET (1 .. i), S # {}
    PROVE  Max(S) \in S /\ \A p \in S : p <= Max(S)
<1>1. IsFiniteSet(1 .. i)
    BY FS_Interval
<1> DEFINE below == {i - p : p \in S}
<1>2. below \in SUBSET Nat /\ below # {}
  <2>1. \A p \in S : p \in Nat /\ p <= i
      OBVIOUS
  <2>2. \A p \in S : i - p \in Nat
      BY <2>1
  <2>3. PICK s \in S : TRUE
      OBVIOUS
  <2>4. i - s \in below
      OBVIOUS
  <2> QED
      BY <2>2, <2>4
<1>3. PICK b \in below : \A p \in below : ~(<<p, b>> \in OpToRel(<, Nat))
    BY <1>2, NatLessThanWellFounded, WFMin
<1>4. \A p, q \in Nat : p < q => <<p, q>> \in OpToRel(<, Nat)
    BY Zenon DEF OpToRel
<1>5. ASSUME NEW p \in below PROVE b <= p
  <2>1. ~(p < b)
      BY <1>2, <1>3, <1>4, Zenon
  <2> QED
      BY <1>2, <2>1
<1>6. PICK m \in S : b = i - m
    BY <1>3
<1>7. ASSUME NEW p \in S PROVE m >= p
  <2>1. i - p \in below
      OBVIOUS
  <2>2. b <= i - p
      BY <1>5, <2>1
  <2> QED
      BY <1>6, <2>2
<1> QED
    BY <1>6, <1>7 DEF Max

\* The pass multiplies by the rounds of the loop around the call: markers
\* set rep_val and reset it, and loops do not nest.
LEMMA RepeatIsRounds ==
    ASSUME program \in Programs, NEW m \in DOMAIN program,
           NEW i \in DOMAIN program[m].body, program[m].body[i].kind = "call"
    PROVE  rep_val(m, i) = Rounds(<<m, i>>) /\ rep_val(m, i) \in Nat
<1> DEFINE body == program[m].body
<1> DEFINE marks == {j \in 1 .. i - 1 : body[j].kind \in {"start", "end"}}
<1> DEFINE Around(j) == /\ j < i /\ body[j].kind = "start"
                        /\ \A k \in j .. i : body[k].kind # "end"
<1>1. /\ DOMAIN body = 1 .. Len(body)
      /\ \A j \in DOMAIN body :
           body[j].kind = "start" =>
              /\ body[j].n \in Nat
              /\ \E e \in j + 1 .. Len(body) :
                   /\ body[e].kind = "end"
                   /\ \A k \in j + 1 .. e - 1 : body[k].kind = "call"
    BY ProgramFacts
<1>2. i \in Nat /\ Len(body) \in Nat /\ i \in 1 .. Len(body)
    BY <1>1
<1>3. marks # {} => Max(marks) \in marks /\ \A p \in marks : p <= Max(marks)
  <2>1. marks \in SUBSET (1 .. i)
      BY <1>2
  <2> HIDE DEF marks
  <2> QED
      BY <1>2, <2>1, LastExists
<1>4. ASSUME NEW j \in DOMAIN body, Around(j)
      PROVE  marks # {} /\ Max(marks) = j
  <2>1. j \in marks
      BY <1>1, <1>2, <1>4
  <2>2. Max(marks) \in marks /\ j <= Max(marks)
      BY <1>3, <2>1
  <2>3. CASE Max(marks) # j
    <3>1. Max(marks) \in j + 1 .. i - 1 /\ body[Max(marks)].kind \in {"start", "end"}
        BY <1>1, <1>2, <2>2, <2>3
    <3>2. PICK e \in j + 1 .. Len(body) :
              /\ body[e].kind = "end"
              /\ \A k \in j + 1 .. e - 1 : body[k].kind = "call"
        BY <1>1, <1>4
    <3>3. e > i
        BY <1>1, <1>2, <1>4, <3>2
    <3> HIDE DEF marks
    <3>4. Max(marks) \in j + 1 .. e - 1
        BY <1>1, <1>2, <3>1, <3>2, <3>3
    <3>5. body[Max(marks)].kind = "call"
        BY <3>2, <3>4
    <3> QED
        BY <3>1, <3>5
  <2> QED
      BY <2>1, <2>3
<1>5. ASSUME marks # {}, body[Max(marks)].kind = "start"
      PROVE  Max(marks) \in DOMAIN body /\ Around(Max(marks))
  <2>1. Max(marks) \in 1 .. i - 1 /\ \A p \in marks : p <= Max(marks)
      BY <1>3, <1>5
  <2>2. ASSUME NEW k \in Max(marks) .. i, body[k].kind = "end" PROVE FALSE
    <3>1. k # i /\ k # Max(marks)
        BY <1>5, <2>2
    <3>2. k \in marks
        BY <1>2, <2>1, <2>2, <3>1
    <3> QED
        BY <1>2, <2>1, <2>2, <3>1, <3>2
  <2> QED
      BY <1>1, <1>2, <1>5, <2>1, <2>2
<1> HIDE DEF marks
<1>6. rep_val(m, i) = IF marks # {} /\ body[Max(marks)].kind = "start"
                      THEN body[Max(marks)].n ELSE 1
    BY DEF rep_val, marks
<1>7. Rounds(<<m, i>>) = IF \E j \in DOMAIN body : Around(j)
                         THEN body[CHOOSE j \in DOMAIN body : Around(j)].n
                         ELSE 1
    BY DEF Rounds
<1>8. CASE \E j \in DOMAIN body : Around(j)
  <2>1. PICK j \in DOMAIN body : Around(j)
      BY <1>8
  <2>2. (CHOOSE q \in DOMAIN body : Around(q)) = Max(marks)
      BY <1>4, <1>8
  <2>3. Max(marks) = j /\ marks # {} /\ body[j].kind = "start"
      BY <1>4, <2>1
  <2>4. body[j].n \in Nat
      BY <1>1, <2>3
  <2> QED
      BY <1>6, <1>7, <1>8, <2>2, <2>3, <2>4
<1>9. CASE ~\E j \in DOMAIN body : Around(j)
    BY <1>5, <1>6, <1>7, <1>9
<1> QED
    BY <1>8, <1>9

-----------------------------------------------------------------------------
(* Counting the tracked activations.                                       *)

\* They are finitely many, and each has its number among them.
LEMMA TrackedFinite ==
    ASSUME NEW fr, NEW n \in Nat, DOMAIN fr = 1 .. n
    PROVE  /\ IsFiniteSet(Tracked(fr)) /\ Cardinality(Tracked(fr)) \in Nat
           /\ \A k \in Tracked(fr) :
                Cardinality(UpTo(fr, k)) \in 1 .. Cardinality(Tracked(fr))
<1>1. IsFiniteSet(1 .. n)
    BY FS_Interval
<1>2. Tracked(fr) \in SUBSET (1 .. n)
    BY DEF Tracked
<1>3. IsFiniteSet(Tracked(fr))
    BY <1>1, <1>2, FS_Subset, Zenon
<1>4. Cardinality(Tracked(fr)) \in Nat
    BY <1>3, FS_CardinalityType
<1>5. ASSUME NEW k \in Tracked(fr)
      PROVE  Cardinality(UpTo(fr, k)) \in 1 .. Cardinality(Tracked(fr))
  <2>1. UpTo(fr, k) \in SUBSET Tracked(fr) /\ k \in UpTo(fr, k)
      BY <1>2 DEF UpTo
  <2>2. IsFiniteSet(UpTo(fr, k)) /\ Cardinality(UpTo(fr, k)) <= Cardinality(Tracked(fr))
      BY <1>3, <2>1, FS_Subset, Zenon
  <2>3. Cardinality(UpTo(fr, k)) # 0
      BY <2>1, <2>2, FS_EmptySet, Zenon
  <2>4. Cardinality(UpTo(fr, k)) \in Nat
      BY <2>2, FS_CardinalityType
  <2> QED
      BY <1>4, <2>2, <2>3, <2>4
<1> QED
    BY <1>3, <1>4, <1>5

\* StackMatchesCalls in these terms; the rounds depend on the program alone.
StackIn(fr, c) ==
    /\ Len(c) = Cardinality(Tracked(fr)) + 1
    /\ c[1] = 1
    /\ \A k \in Tracked(fr) :
          c[1 + Cardinality(UpTo(fr, k))] = Rounds(<<fr[k - 1].mod, fr[k - 1].at - 1>>)

LEMMA StackInTracked ==
    /\ StackMatchesCalls <=> StackIn(frames, contents)
    /\ program' = program => (StackMatchesCalls' <=> StackIn(frames', contents'))
<1>1. StackMatchesCalls <=> StackIn(frames, contents)
    BY DEF StackMatchesCalls, StackIn, Tracked, UpTo
<1>2. ASSUME program' = program
      PROVE  StackMatchesCalls' <=> StackIn(frames', contents')
  <2>1. \A site : Rounds(site)' = Rounds(site)
      BY <1>2 DEF Rounds, At
  <2> QED
      BY <2>1 DEF StackMatchesCalls, StackIn, Tracked, UpTo
<1> QED
    BY <1>1, <1>2

\* Only the last activation moves on.
LEMMA AdvanceKeepsStack ==
    ASSUME IInv, program' = program, contents' = contents,
           \/ frames' = frames \/ frames' = Advanced
    PROVE  StackMatchesCalls'
<1>1. /\ frames \in Seq(Activation) /\ Len(frames) \in Nat
      /\ ~frames[1].tracked
    BY DEF IInv, StackType
<1>2. DOMAIN frames' = DOMAIN frames /\ DOMAIN frames = 1 .. Len(frames)
    BY <1>1 DEF Advanced
<1>3. ASSUME NEW k \in DOMAIN frames
      PROVE  /\ frames'[k].tracked = frames[k].tracked
             /\ k # Len(frames) => frames'[k] = frames[k]
  <2>1. CASE frames' = frames
      BY <2>1
  <2>2. CASE frames' = Advanced
    <3>1. CASE k # Len(frames)
        BY <1>2, <2>2, <3>1 DEF Advanced
    <3>2. CASE k = Len(frames)
      <4>1. frames'[k] = [frames[k] EXCEPT !.at = @ + 1]
          BY <1>2, <2>2, <3>2 DEF Advanced
      <4>2. frames[k] \in Activation
          BY <1>1
      <4> QED
          BY <3>2, <4>1, <4>2 DEF Activation
    <3> QED
        BY <3>1, <3>2
  <2> QED
      BY <2>1, <2>2
<1>4. Tracked(frames') = Tracked(frames)
    BY <1>2, <1>3 DEF Tracked
<1>5. \A k : UpTo(frames', k) = UpTo(frames, k)
    BY <1>4 DEF UpTo
<1>6. \A k \in Tracked(frames) : frames'[k - 1] = frames[k - 1]
    BY <1>1, <1>2, <1>3 DEF Tracked
<1>7. StackIn(frames, contents)
    BY StackInTracked DEF IInv
<1>8. StackIn(frames', contents')
    BY <1>4, <1>5, <1>6, <1>7 DEF StackIn
<1> QED
    BY <1>8, StackInTracked

\* What is known of the last activation, and of the call it is about to make.
LEMMA CurrentFacts ==
    ASSUME StackType
    PROVE  /\ Len(frames) \in Nat \ {0} /\ DOMAIN frames = 1 .. Len(frames)
           /\ Current \in Activation
           /\ Left(Current) =>
                /\ Current.at \in DOMAIN program[Current.mod].body
                /\ Item(Current).kind \in {"call", "start", "end"}
           /\ Calling =>
                /\ Item(Current).callee \in DOMAIN program
                /\ repeat = Rounds(<<Current.mod, Current.at>>) /\ repeat \in Nat
<1>1. Len(frames) \in Nat \ {0} /\ DOMAIN frames = 1 .. Len(frames)
    BY DEF StackType
<1>2. Current \in Activation
    BY <1>1 DEF StackType, Current
<1>3. Current.mod \in DOMAIN program /\ Current.at \in Nat \ {0}
    BY <1>2 DEF Activation
<1>4. ASSUME Left(Current)
      PROVE  /\ Current.at \in DOMAIN program[Current.mod].body
             /\ Item(Current).kind \in {"call", "start", "end"}
  <2>1. DOMAIN program[Current.mod].body = 1 .. Len(program[Current.mod].body)
      BY <1>3, ProgramFacts DEF StackType
  <2>2. Current.at \in DOMAIN program[Current.mod].body
      BY <1>3, <1>4, <2>1 DEF Left
  <2> QED
      BY <1>3, <2>2, ProgramFacts DEF Item, StackType
<1>5. ASSUME Calling
      PROVE  /\ Item(Current).callee \in DOMAIN program
             /\ repeat = Rounds(<<Current.mod, Current.at>>) /\ repeat \in Nat
  <2>1. Current.at \in DOMAIN program[Current.mod].body
      BY <1>4, <1>5 DEF Calling
  <2>2. program[Current.mod].body[Current.at].kind = "call"
      BY <1>5 DEF Calling, Item
  <2>3. Item(Current).callee \in DOMAIN program
      BY <1>3, <2>1, <2>2, ProgramFacts DEF Item, StackType
  <2> QED
      BY <1>3, <2>1, <2>2, <2>3, RepeatIsRounds DEF repeat, StackType
<1> QED
    BY <1>1, <1>2, <1>4, <1>5

-----------------------------------------------------------------------------
(* Calls and returns.                                                      *)

LEMMA MovedOn ==
    ASSUME NEW f \in Activation
    PROVE  LET g == [f EXCEPT !.at = @ + 1] IN
           /\ g \in Activation
           /\ g.mod = f.mod /\ g.at - 1 = f.at /\ g.tracked = f.tracked
BY DEF Activation

\* Replacing the top activation keeps the height and the first mark.
LEMMA LastReplaced ==
    ASSUME NEW s \in Seq(Activation), Len(s) >= 1, NEW f \in Activation,
           f.tracked = s[Len(s)].tracked
    PROVE  LET r == [s EXCEPT ![Len(s)] = f] IN
           r \in Seq(Activation) /\ Len(r) = Len(s) /\ r[1].tracked = s[1].tracked
<1> DEFINE r == [s EXCEPT ![Len(s)] = f]
<1>1. Len(s) \in Nat \ {0} /\ DOMAIN s = 1 .. Len(s) /\ 1 \in DOMAIN s
    OBVIOUS
<1>2. r \in Seq(Activation) /\ Len(r) = Len(s)
    BY <1>1
<1>3. r[1].tracked = s[1].tracked
  <2>1. CASE Len(s) = 1
      BY <1>1, <2>1
  <2>2. CASE Len(s) # 1
      BY <1>1, <2>2
  <2> QED
      BY <2>1, <2>2
<1> QED
    BY <1>2, <1>3

\* A call adds an activation and, if it is instrumented, its rounds.
LEMMA CallKeepsStack ==
    ASSUME IInv, Calling, program' = program, NEW t \in BOOLEAN,
           frames' = Entered(t),
           contents' = IF t THEN Append(contents, repeat) ELSE contents
    PROVE  StackMatchesCalls' /\ frames' \in Seq(Activation)
<1> DEFINE n == Len(frames)
           new == [mod |-> Item(Current).callee, at |-> 1, tracked |-> t]
<1>1. /\ n \in Nat \ {0} /\ DOMAIN frames = 1 .. n /\ Current \in Activation
      /\ frames \in Seq(Activation) /\ contents \in Seq(Nat) /\ Len(contents) >= 1
      /\ new \in Activation
      /\ repeat = Rounds(<<Current.mod, Current.at>>) /\ repeat \in Nat
    BY CurrentFacts DEF IInv, StackType, Activation
<1>2. Advanced \in Seq(Activation) /\ Len(Advanced) = n
  <2>1. [Current EXCEPT !.at = @ + 1] \in Activation
      BY <1>1, MovedOn
  <2>2. Advanced = [frames EXCEPT ![n] = [Current EXCEPT !.at = @ + 1]]
      BY <1>1 DEF Advanced, Current
  <2> QED
      BY <1>1, <2>1, <2>2
<1>3. /\ frames' \in Seq(Activation) /\ DOMAIN frames' = 1 .. n + 1
      /\ frames'[n + 1] = new
      /\ \A k \in 1 .. n : frames'[k] = Advanced[k]
    BY <1>1, <1>2 DEF Entered
<1>4. /\ \A k \in 1 .. n - 1 : frames'[k] = frames[k]
      /\ frames'[n] = [Current EXCEPT !.at = @ + 1]
  <2>1. Advanced = [frames EXCEPT ![n] = [Current EXCEPT !.at = @ + 1]]
      BY <1>1 DEF Advanced, Current
  <2>2. /\ \A k \in 1 .. n - 1 : Advanced[k] = frames[k]
        /\ Advanced[n] = [Current EXCEPT !.at = @ + 1]
      BY <1>1, <2>1
  <2>3. 1 .. n - 1 \subseteq 1 .. n /\ n \in 1 .. n
      BY <1>1
  <2> HIDE DEF new, n
  <2> QED
      BY <1>3, <2>2, <2>3
<1>5. /\ frames'[n].mod = Current.mod /\ frames'[n].at - 1 = Current.at
      /\ frames'[n].tracked = Current.tracked
    BY <1>1, <1>4, MovedOn
<1>6. Tracked(frames') = Tracked(frames) \cup (IF t THEN {n + 1} ELSE {})
  <2>1. new.tracked = t /\ frames[n] = Current
      BY DEF Current
  <2>2. ASSUME NEW k \in 1 .. n PROVE frames'[k].tracked = frames[k].tracked
    <3>0. n \in Nat \ {0}
        BY <1>1
    <3> HIDE DEF n
    <3>1. k = n \/ k \in 1 .. n - 1
        BY <3>0
    <3> QED
        BY <1>4, <1>5, <2>1, <3>1
  <2>3. n + 1 \notin 1 .. n /\ 1 .. n + 1 = (1 .. n) \cup {n + 1}
      BY <1>1
  <2> HIDE DEF new, n
  <2> QED
      BY <1>1, <1>3, <2>1, <2>2, <2>3 DEF Tracked
<1>7. \A k \in Tracked(frames) : UpTo(frames', k) = UpTo(frames, k)
    BY <1>1, <1>6 DEF UpTo, Tracked
<1>8. StackIn(frames, contents)
    BY StackInTracked DEF IInv
<1>9. \A k \in Tracked(frames) : frames'[k - 1] = frames[k - 1] /\ k \in 2 .. n
  <2>1. \A k \in Tracked(frames) : k \in 1 .. n /\ k # 1
      BY <1>1 DEF Tracked, IInv, StackType
  <2>2. \A k \in 1 .. n : k # 1 => k - 1 \in 1 .. n - 1 /\ k \in 2 .. n
      BY <1>1
  <2> HIDE DEF n
  <2> QED
      BY <1>4, <2>1, <2>2
<1>10. /\ IsFiniteSet(Tracked(frames)) /\ Cardinality(Tracked(frames)) \in Nat
       /\ \A k \in Tracked(frames) :
            Cardinality(UpTo(frames, k)) \in 1 .. Cardinality(Tracked(frames))
    BY <1>1, TrackedFinite
<1>11. CASE t
  <2>1. Cardinality(Tracked(frames')) = Cardinality(Tracked(frames)) + 1
    <3>1. n + 1 \notin Tracked(frames)
        BY <1>1 DEF Tracked
    <3> QED
        BY <1>6, <1>10, <1>11, <3>1, FS_AddElement
  <2>2. UpTo(frames', n + 1) = Tracked(frames')
      BY <1>1, <1>3 DEF UpTo, Tracked
  <2>3. contents' = Append(contents, repeat)
      BY <1>11
  <2>4. /\ Len(contents') = Len(contents) + 1
        /\ contents'[Len(contents) + 1] = repeat
        /\ \A i \in 1 .. Len(contents) : contents'[i] = contents[i]
      BY <1>1, <2>3
  <2>5. Len(contents) = Cardinality(Tracked(frames)) + 1
      BY <1>8 DEF StackIn
  <2>6. contents'[1] = 1
      BY <1>1, <1>8, <2>4 DEF StackIn
  <2>7. ASSUME NEW k \in Tracked(frames)
        PROVE  contents'[1 + Cardinality(UpTo(frames', k))]
                 = Rounds(<<frames'[k - 1].mod, frames'[k - 1].at - 1>>)
    <3>1. 1 + Cardinality(UpTo(frames, k)) \in 1 .. Len(contents)
        BY <1>10, <2>5
    <3> QED
        BY <1>7, <1>8, <1>9, <2>4, <3>1 DEF StackIn
  <2>8. contents'[1 + Cardinality(UpTo(frames', n + 1))]
          = Rounds(<<frames'[n].mod, frames'[n].at - 1>>)
    <3>1. 1 + Cardinality(UpTo(frames', n + 1)) = Len(contents) + 1
        BY <1>10, <2>1, <2>2, <2>5
    <3> QED
        BY <1>1, <1>5, <2>4, <3>1
  <2>9. StackIn(frames', contents')
    <3>1. (n + 1) - 1 = n
        BY <1>1
    <3> HIDE DEF n
    <3> QED
        BY <1>6, <1>11, <2>1, <2>4, <2>5, <2>6, <2>7, <2>8, <3>1 DEF StackIn
  <2> QED
      BY <1>3, <2>9, StackInTracked
<1>12. CASE ~t
  <2>1. Tracked(frames') = Tracked(frames) /\ contents' = contents
      BY <1>6, <1>12
  <2>2. StackIn(frames', contents')
      BY <1>7, <1>8, <1>9, <2>1 DEF StackIn
  <2> QED
      BY <1>3, <2>2, StackInTracked
<1> QED
    BY <1>11, <1>12

\* A return takes off the last activation and, if it was tracked, its rounds.
LEMMA ReturnKeepsStack ==
    ASSUME IInv, Return
    PROVE  /\ StackMatchesCalls' /\ Len(contents') >= 1
           /\ contents' \in Seq(Nat) /\ Len(contents') <= Len(contents)
<1> DEFINE n == Len(frames)
<1>1. /\ n \in Nat /\ n > 1 /\ DOMAIN frames = 1 .. n
      /\ frames \in Seq(Activation) /\ contents \in Seq(Nat)
      /\ Current = frames[n] /\ Current.tracked \in BOOLEAN
      /\ program' = program /\ contents' = exit_scope
    BY CurrentFacts DEF IInv, StackType, Return, Current, Activation
<1>2. /\ DOMAIN frames' = 1 .. n - 1
      /\ \A k \in 1 .. n - 1 : frames'[k] = frames[k]
    BY <1>1 DEF Return
<1>3. /\ Tracked(frames') \subseteq 1 .. n - 1
      /\ Tracked(frames) = Tracked(frames') \cup (IF Current.tracked THEN {n} ELSE {})
  <2>1. (1 .. n) = (1 .. n - 1) \cup {n}
      BY <1>1
  <2> HIDE DEF n
  <2> QED
      BY <1>1, <1>2, <2>1 DEF Tracked
<1>4. \A k \in Tracked(frames') : UpTo(frames', k) = UpTo(frames, k)
  <2>1. \A k \in 1 .. n - 1 : ~(n <= k)
      BY <1>1
  <2> HIDE DEF n
  <2> QED
      BY <1>3, <2>1 DEF UpTo
<1>5. /\ IsFiniteSet(Tracked(frames')) /\ Cardinality(Tracked(frames')) \in Nat
      /\ \A k \in Tracked(frames') :
            Cardinality(UpTo(frames', k)) \in 1 .. Cardinality(Tracked(frames'))
  <2>1. n - 1 \in Nat
      BY <1>1
  <2> HIDE DEF n
  <2> QED
      BY <1>2, <2>1, TrackedFinite
<1>6. StackIn(frames, contents)
    BY StackInTracked DEF IInv
<1>7. Cardinality(Tracked(frames))
        = Cardinality(Tracked(frames')) + (IF Current.tracked THEN 1 ELSE 0)
  <2>1. n \notin 1 .. n - 1
      BY <1>1
  <2> HIDE DEF n
  <2>2. CASE Current.tracked
    <3>1. Tracked(frames) = Tracked(frames') \cup {n} /\ n \notin Tracked(frames')
        BY <1>3, <2>1, <2>2
    <3> QED
        BY <1>5, <2>2, <3>1, FS_AddElement
  <2>3. CASE ~Current.tracked
    <3>1. Tracked(frames) = Tracked(frames')
        BY <1>3, <2>3
    <3> QED
        BY <1>5, <2>3, <3>1
  <2> QED
      BY <2>2, <2>3
<1>8. /\ contents' \in Seq(Nat)
      /\ Len(contents') = Cardinality(Tracked(frames')) + 1
      /\ \A i \in 1 .. Len(contents') : contents'[i] = contents[i]
  <2>1. Len(contents) = Cardinality(Tracked(frames)) + 1
      BY <1>6 DEF StackIn
  <2>2. CASE Current.tracked
    <3>1. contents' = SubSeq(contents, 1, Len(contents) - 1)
        BY <1>1, <2>2 DEF exit_scope
    <3>2. Len(contents) - 1 = Cardinality(Tracked(frames')) + 1
        BY <1>5, <1>7, <2>1, <2>2
    <3> QED
        BY <1>1, <1>5, <3>1, <3>2
  <2>3. CASE ~Current.tracked
    <3>1. contents' = contents
        BY <1>1, <2>3 DEF exit_scope
    <3> QED
        BY <1>1, <1>5, <1>7, <2>1, <2>3, <3>1
  <2> QED
      BY <2>2, <2>3
<1>9. \A k \in Tracked(frames') : k - 1 \in 1 .. n - 1
  <2>1. \A k \in Tracked(frames') : k # 1
      BY <1>1, <1>3 DEF Tracked, IInv, StackType
  <2>2. \A k \in 1 .. n - 1 : k # 1 => k - 1 \in 1 .. n - 1
      BY <1>1
  <2> HIDE DEF n
  <2> QED
      BY <1>3, <2>1, <2>2
<1>10. StackIn(frames', contents')
  <2>1. contents'[1] = 1
      BY <1>5, <1>6, <1>8 DEF StackIn
  <2>2. ASSUME NEW k \in Tracked(frames')
        PROVE  contents'[1 + Cardinality(UpTo(frames', k))]
                 = Rounds(<<frames'[k - 1].mod, frames'[k - 1].at - 1>>)
    <3>1. k \in Tracked(frames) /\ frames'[k - 1] = frames[k - 1]
        BY <1>2, <1>3, <1>9
    <3>2. 1 + Cardinality(UpTo(frames', k)) \in 1 .. Len(contents')
        BY <1>5, <1>8
    <3> QED
        BY <1>4, <1>6, <1>8, <3>1, <3>2 DEF StackIn
  <2> QED
      BY <1>8, <2>1, <2>2 DEF StackIn
<1> QED
    BY <1>1, <1>5, <1>7, <1>8, <1>10, <1>6, StackInTracked DEF StackIn

-----------------------------------------------------------------------------
(* The invariant.                                                          *)

LEMMA InitIInv == Init => IInv
<1> SUFFICES ASSUME Init PROVE IInv
    OBVIOUS
<1>1. 1 \in DOMAIN program
    BY ProgramFacts DEF Init
<1>2. StackType
    BY <1>1, BoundsAssumption DEF Init, StackType, Activation
<1>3. Tracked(frames) = {}
    BY DEF Init, Tracked
<1>4. StackIn(frames, contents)
  <2>1. Cardinality(Tracked(frames)) = 0
      BY <1>3, FS_EmptySet, Zenon
  <2> QED
      BY <1>3, <2>1 DEF Init, StackIn
<1> QED
    BY <1>2, <1>4, StackInTracked DEF IInv

LEMMA NextIInv == IInv /\ [Next]_vars => IInv'
<1> SUFFICES ASSUME IInv, [Next]_vars PROVE IInv'
    OBVIOUS
<1>1. /\ StackType /\ program \in Programs
      /\ frames \in Seq(Activation) /\ Len(frames) >= 1 /\ ~frames[1].tracked
      /\ contents \in Seq(Nat) /\ Len(contents) \in 1 .. MAX_CALL_DEPTH
      /\ status \in {"running", "over", "full"}
    BY DEF IInv, StackType
<1>2. Current \in Activation /\ Len(frames) \in Nat \ {0} /\ DOMAIN frames = 1 .. Len(frames)
    BY <1>1, CurrentFacts
<1>3. program' = program => Activation' = Activation
    BY DEF Activation
<1>4. CASE Marker
  <2>1. /\ frames' = Advanced /\ program' = program /\ contents' = contents
        /\ status' = status
      BY <1>4 DEF Marker
  <2>2. StackMatchesCalls'
      BY <2>1, AdvanceKeepsStack
  <2>3. Advanced = [frames EXCEPT ![Len(frames)] = [Current EXCEPT !.at = @ + 1]]
      BY <1>1 DEF Advanced, Current
  <2>4. /\ [Current EXCEPT !.at = @ + 1] \in Activation
        /\ [Current EXCEPT !.at = @ + 1].tracked = Current.tracked
      BY <1>2, MovedOn
  <2>5. /\ frames' \in Seq(Activation) /\ Len(frames') = Len(frames)
        /\ frames'[1].tracked = frames[1].tracked
      BY <1>1, <1>2, <2>1, <2>3, <2>4, LastReplaced DEF Current
  <2> QED
      BY <1>1, <1>3, <2>1, <2>2, <2>5 DEF IInv, StackType
<1>5. ASSUME NEW t \in BOOLEAN, Calling, frames' = Entered(t), program' = program,
             contents' = IF t THEN Append(contents, repeat) ELSE contents,
             t => Room, status' = status
      PROVE  IInv'
  <2>1. StackMatchesCalls' /\ frames' \in Seq(Activation)
      BY <1>5, CallKeepsStack
  <2>2. contents' \in Seq(Nat) /\ Len(contents') \in 1 .. MAX_CALL_DEPTH
    <3>1. repeat \in Nat
        BY <1>1, <1>5, CurrentFacts
    <3> QED
        BY <1>1, <1>5, <3>1, BoundsAssumption DEF Room
  <2>3. Len(frames') >= 1 /\ frames'[1].tracked = frames[1].tracked
    <3>1. Advanced = [frames EXCEPT ![Len(frames)] = [Current EXCEPT !.at = @ + 1]]
        BY <1>1 DEF Advanced, Current
    <3>2. /\ [Current EXCEPT !.at = @ + 1] \in Activation
          /\ [Current EXCEPT !.at = @ + 1].tracked = Current.tracked
        BY <1>2, MovedOn
    <3>3. /\ Advanced \in Seq(Activation) /\ Len(Advanced) = Len(frames)
          /\ Advanced[1].tracked = frames[1].tracked
        BY <1>1, <1>2, <3>1, <3>2, LastReplaced DEF Current
    <3> QED
        BY <1>2, <1>5, <3>3 DEF Entered
  <2> QED
      BY <1>1, <1>3, <1>5, <2>1, <2>2, <2>3 DEF IInv, StackType
<1>6. CASE Call
    BY <1>5, <1>6 DEF Call
<1>7. CASE CallUntracked
    BY <1>5, <1>7 DEF CallUntracked, Calling
<1>8. CASE Return
  <2>1. /\ StackMatchesCalls' /\ Len(contents') >= 1
        /\ contents' \in Seq(Nat) /\ Len(contents') <= Len(contents)
      BY <1>8, ReturnKeepsStack
  <2>2. /\ frames' = SubSeq(frames, 1, Len(frames) - 1) /\ Len(frames) > 1
        /\ program' = program /\ status' = status
      BY <1>8 DEF Return
  <2>3. frames' \in Seq(Activation) /\ Len(frames') >= 1 /\ frames'[1] = frames[1]
      BY <1>1, <2>2
  <2>4. Len(contents') \in 1 .. MAX_CALL_DEPTH
      BY <1>1, <2>1, BoundsAssumption
  <2> QED
      BY <1>1, <1>3, <2>1, <2>2, <2>3, <2>4 DEF IInv, StackType
<1>9. ASSUME frames' = frames, program' = program, contents' = contents,
             status' \in {"running", "over", "full"}
      PROVE  IInv'
  <2>1. StackMatchesCalls'
      BY <1>9, AdvanceKeepsStack
  <2> QED
      BY <1>1, <1>3, <1>9, <2>1 DEF IInv, StackType
<1>10. CASE StackFull
    BY <1>9, <1>10 DEF StackFull
<1>11. CASE Summary
    BY <1>9, <1>11 DEF Summary
<1>12. CASE Ended \/ UNCHANGED vars
    BY <1>1, <1>9, <1>12 DEF Ended, vars
<1> QED
    BY <1>4, <1>6, <1>7, <1>8, <1>10, <1>11, <1>12 DEF Next

\* The invariant holds in every state.
THEOREM FrequencyIInv == Spec => []IInv
<1>1. Init => IInv
    BY InitIInv
<1>2. IInv /\ [Next]_vars => IInv'
    BY NextIInv
<1> QED
    BY <1>1, <1>2, PTL DEF Spec

\* The stack holds the rounds of the active instrumented calls, outermost
\* first, and its size never exceeds MAX_CALL_DEPTH: each memoize has its
\* exit_scope, however calls that are instrumented and others nest.
THEOREM StackMatchesCallsHolds ==
    Spec => [](StackMatchesCalls /\ Len(contents) <= MAX_CALL_DEPTH)
<1>1. IInv => StackMatchesCalls /\ Len(contents) <= MAX_CALL_DEPTH
    BY BoundsAssumption DEF IInv, StackType
<1> QED
    BY <1>1, FrequencyIInv, PTL

\* A set of natural numbers has a least one, which is Min.
LEMMA LeastExists ==
    ASSUME NEW S \in SUBSET Nat, S # {}
    PROVE  Min(S) \in S /\ \A k \in S : Min(S) <= k
<1>1. PICK m \in S : \A k \in S : ~(<<k, m>> \in OpToRel(<, Nat))
    BY NatLessThanWellFounded, WFMin
<1>2. \A p, q \in Nat : p < q => <<p, q>> \in OpToRel(<, Nat)
    BY Zenon DEF OpToRel
<1>3. ASSUME NEW k \in S PROVE m <= k
  <2>1. ~(k < m)
      BY <1>1, <1>2, Zenon
  <2> QED
      BY <2>1
<1> QED
    BY <1>3 DEF Min
-----------------------------------------------------------------------------
(* Sums over finite sets.                                                  *)

\* Induction, for a set instead of a property: this form has no operator as a
\* parameter.
LEMMA SetInduction ==
    ASSUME NEW T, 0 \in T, \A k \in Nat : k \in T => k + 1 \in T
    PROVE  Nat \subseteq T
<1> SUFFICES ASSUME Nat \ T # {} PROVE FALSE
    OBVIOUS
<1>1. Min(Nat \ T) \in Nat \ T /\ \A k \in Nat \ T : Min(Nat \ T) <= k
    BY LeastExists
<1>2. PICK m \in Nat \ T : \A k \in Nat \ T : m <= k
    BY <1>1
<1>3. m # 0 /\ m - 1 \in Nat
    BY <1>2
<1>4. m - 1 \in T
    BY <1>2, <1>3
<1> QED
    BY <1>2, <1>3, <1>4

AnyOf(s) == CHOOSE x \in s : TRUE

\* What MapThenSumSet computes for each subset of S, with the values f.
Adds(g, f, S) ==
    g = [s \in SUBSET S |-> IF s = {} THEN 0 ELSE f[AnyOf(s)] + g[s \ {AnyOf(s)}]]

Sum(f, S) == (CHOOSE g : Adds(g, f, S))[S]

\* The sums of the subsets with at most k elements.
Summed(g, f, S, k) ==
    /\ g \in [{s \in SUBSET S : Cardinality(s) <= k} -> Nat]
    /\ \A s \in SUBSET S : Cardinality(s) <= k =>
         g[s] = IF s = {} THEN 0 ELSE f[AnyOf(s)] + g[s \ {AnyOf(s)}]

HasSums(f, S, k) == \E g : Summed(g, f, S, k)

\* An element less.
LEMMA OneLess ==
    ASSUME NEW S, IsFiniteSet(S), NEW s \in SUBSET S, NEW x \in s
    PROVE  /\ IsFiniteSet(s) /\ Cardinality(s) \in Nat
           /\ s \ {x} \in SUBSET S
           /\ Cardinality(s \ {x}) = Cardinality(s) - 1
           /\ Cardinality(s \ {x}) \in Nat
<1>1. IsFiniteSet(s)
    BY FS_Subset
<1>2. Cardinality(s) \in Nat
    BY <1>1, FS_CardinalityType
<1>3. IsFiniteSet(s \ {x}) /\ Cardinality(s \ {x}) = Cardinality(s) - 1
    BY <1>1, FS_RemoveElement
<1>4. Cardinality(s \ {x}) \in Nat
    BY <1>3, FS_CardinalityType
<1> QED
    BY <1>1, <1>2, <1>3, <1>4

\* A finite set has sums over its subsets.
LEMMA SumsOfSmall ==
    ASSUME NEW S, IsFiniteSet(S), NEW f, \A x \in S : f[x] \in Nat, NEW k \in Nat
    PROVE  HasSums(f, S, k)
<1> DEFINE T == {j \in Nat : HasSums(f, S, j)}
<1>1. \A s \in SUBSET S : IsFiniteSet(s) /\ Cardinality(s) \in Nat
    BY FS_Subset, FS_CardinalityType
<1>2. 0 \in T
  <2> DEFINE g == [s \in {r \in SUBSET S : Cardinality(r) <= 0} |-> 0]
  <2>1. \A s \in SUBSET S : Cardinality(s) <= 0 => s = {}
      BY <1>1, FS_EmptySet
  <2>2. Summed(g, f, S, 0)
      BY <2>1 DEF Summed
  <2> QED
      BY <2>2 DEF HasSums
<1>3. ASSUME NEW j \in Nat, j \in T
      PROVE  j + 1 \in T
  <2>1. PICK g : Summed(g, f, S, j)
      BY <1>3 DEF HasSums
  <2> DEFINE small == {s \in SUBSET S : Cardinality(s) <= j}
             larger == {s \in SUBSET S : Cardinality(s) <= j + 1}
             h == [s \in larger |-> IF s \in small THEN g[s]
                                    ELSE f[AnyOf(s)] + g[s \ {AnyOf(s)}]]
  <2>2. /\ g \in [small -> Nat]
        /\ \A s \in small : g[s] = IF s = {} THEN 0 ELSE f[AnyOf(s)] + g[s \ {AnyOf(s)}]
      BY <2>1 DEF Summed
  <2>3. ASSUME NEW s \in larger, s # {}
        PROVE  AnyOf(s) \in S /\ s \ {AnyOf(s)} \in small
    <3>1. AnyOf(s) \in s
        BY <2>3 DEF AnyOf
    <3>2. /\ s \ {AnyOf(s)} \in SUBSET S
          /\ Cardinality(s) \in Nat /\ Cardinality(s) <= j + 1
          /\ Cardinality(s \ {AnyOf(s)}) = Cardinality(s) - 1
        BY <3>1, OneLess
    <3> QED
        BY <3>1, <3>2
  <2>4. \A s \in small : s \in larger
      BY <1>1
  <2>5. \A s \in larger : s \notin small => s # {}
    <3>1. Cardinality({}) = 0
        BY FS_EmptySet
    <3> QED
        BY <3>1
  <2>6. \A s \in larger : h[s] \in Nat
      BY <2>2, <2>3, <2>5
  <2>7. ASSUME NEW s \in larger
        PROVE  h[s] = IF s = {} THEN 0 ELSE f[AnyOf(s)] + h[s \ {AnyOf(s)}]
    <3>1. CASE s = {}
      <4>1. s \in small
          BY <2>5, <3>1
      <4> QED
          BY <2>2, <3>1, <4>1
    <3>2. CASE s # {}
      <4> DEFINE r == s \ {AnyOf(s)}
      <4>1. r \in small /\ r \in larger
          BY <2>3, <2>4, <3>2
      <4>2. h[r] = g[r]
          BY <4>1
      <4>3. h[s] = f[AnyOf(s)] + g[r]
          BY <2>2, <3>2
      <4> QED
          BY <3>2, <4>2, <4>3
    <3> QED
        BY <3>1, <3>2
  <2>8. h \in [larger -> Nat]
      BY <2>6
  <2> HIDE DEF h
  <2>9. Summed(h, f, S, j + 1)
      BY <2>7, <2>8 DEF Summed
  <2> QED
      BY <2>9 DEF HasSums
<1>4. Nat \subseteq T
  <2> HIDE DEF T
  <2> QED
      BY <1>2, <1>3, SetInduction
<1> QED
    BY <1>4

\* Two such functions agree where both are defined.
LEMMA SumsAgree ==
    ASSUME NEW S, IsFiniteSet(S), NEW R, NEW f, NEW g, NEW h,
           Adds(g, f, S), Adds(h, f, R),
           NEW t \in SUBSET S, t \in SUBSET R
    PROVE  g[t] = h[t]
<1> DEFINE T == {k \in Nat : \A s \in SUBSET S :
                    (s \in SUBSET R /\ Cardinality(s) <= k) => g[s] = h[s]}
<1>1. /\ \A s \in SUBSET S : g[s] = IF s = {} THEN 0 ELSE f[AnyOf(s)] + g[s \ {AnyOf(s)}]
      /\ \A s \in SUBSET R : h[s] = IF s = {} THEN 0 ELSE f[AnyOf(s)] + h[s \ {AnyOf(s)}]
  <2>1. g = [s \in SUBSET S |-> IF s = {} THEN 0 ELSE f[AnyOf(s)] + g[s \ {AnyOf(s)}]]
      BY DEF Adds
  <2>2. h = [s \in SUBSET R |-> IF s = {} THEN 0 ELSE f[AnyOf(s)] + h[s \ {AnyOf(s)}]]
      BY DEF Adds
  <2>3. \A s \in SUBSET S : g[s] = IF s = {} THEN 0 ELSE f[AnyOf(s)] + g[s \ {AnyOf(s)}]
      BY <2>1, Zenon
  <2>4. \A s \in SUBSET R : h[s] = IF s = {} THEN 0 ELSE f[AnyOf(s)] + h[s \ {AnyOf(s)}]
      BY <2>2, Zenon
  <2> QED
      BY <2>3, <2>4
<1>2. 0 \in T
  <2>1. \A s \in SUBSET S : Cardinality(s) <= 0 => s = {}
      BY FS_Subset, FS_CardinalityType, FS_EmptySet
  <2> QED
      BY <1>1, <2>1
<1>3. ASSUME NEW k \in Nat, k \in T
      PROVE  k + 1 \in T
  <2>1. ASSUME NEW s \in SUBSET S, s \in SUBSET R, Cardinality(s) <= k + 1
        PROVE  g[s] = h[s]
    <3>1. CASE s = {}
        BY <1>1, <2>1, <3>1
    <3>2. CASE s # {}
      <4> DEFINE r == s \ {AnyOf(s)}
      <4>1. AnyOf(s) \in s
          BY <3>2 DEF AnyOf
      <4>2. /\ r \in SUBSET S /\ r \in SUBSET R /\ Cardinality(r) <= k
          BY <2>1, <4>1, OneLess
      <4>3. g[r] = h[r]
          BY <1>3, <4>2
      <4> QED
          BY <1>1, <2>1, <3>2, <4>3
    <3> QED
        BY <3>1, <3>2
  <2> QED
      BY <2>1
<1>4. Nat \subseteq T
  <2> HIDE DEF T
  <2> QED
      BY <1>2, <1>3, SetInduction
<1>5. IsFiniteSet(t) /\ Cardinality(t) \in Nat /\ Cardinality(t) <= Cardinality(t)
    BY FS_Subset, FS_CardinalityType
<1> QED
    BY <1>4, <1>5

\* What MapThenSumSet chooses has the values of a function that adds.
LEMMA SumsExist ==
    ASSUME NEW S, IsFiniteSet(S), NEW f, \A x \in S : f[x] \in Nat
    PROVE  \E g : Adds(g, f, S) /\ g \in [SUBSET S -> Nat]
<1>1. Cardinality(S) \in Nat
    BY FS_CardinalityType
<1>2. PICK g : Summed(g, f, S, Cardinality(S))
    BY <1>1, SumsOfSmall DEF HasSums
<1>3. \A s \in SUBSET S : Cardinality(s) <= Cardinality(S)
    BY FS_Subset
<1>4. {s \in SUBSET S : Cardinality(s) <= Cardinality(S)} = SUBSET S
    BY <1>3
<1>5. g \in [SUBSET S -> Nat]
    BY <1>2, <1>4 DEF Summed
<1>6. \A s \in SUBSET S : g[s] = IF s = {} THEN 0 ELSE f[AnyOf(s)] + g[s \ {AnyOf(s)}]
    BY <1>2, <1>3 DEF Summed
<1>7. g = [s \in SUBSET S |-> IF s = {} THEN 0 ELSE f[AnyOf(s)] + g[s \ {AnyOf(s)}]]
  <2> DEFINE h == [s \in SUBSET S |-> IF s = {} THEN 0 ELSE f[AnyOf(s)] + g[s \ {AnyOf(s)}]]
  <2>1. g = [s \in SUBSET S |-> g[s]]
      BY <1>5
  <2>2. \A s \in SUBSET S : g[s] = h[s]
      BY <1>6
  <2> QED
      BY <1>6, <2>1, Zenon
<1> QED
    BY <1>5, <1>7 DEF Adds

LEMMA SumAdds ==
    ASSUME NEW S, IsFiniteSet(S), NEW f, \A x \in S : f[x] \in Nat
    PROVE  /\ Sum(f, S) \in Nat
           /\ \A g, R : S \in SUBSET R /\ IsFiniteSet(R) /\ Adds(g, f, R) => g[S] = Sum(f, S)
<1> DEFINE c == CHOOSE g : Adds(g, f, S)
<1>1. PICK g : Adds(g, f, S) /\ g \in [SUBSET S -> Nat]
    BY SumsExist
<1>2. Adds(c, f, S)
    BY <1>1
<1>3. Sum(f, S) = c[S]
    BY DEF Sum
<1> HIDE DEF c
<1>4. c[S] = g[S]
    BY <1>1, <1>2, SumsAgree
<1>5. ASSUME NEW h, NEW R, S \in SUBSET R, IsFiniteSet(R), Adds(h, f, R)
      PROVE  h[S] = c[S]
    BY <1>2, <1>5, SumsAgree
<1> QED
    BY <1>1, <1>3, <1>4, <1>5

\* The sum of no elements, and of one more than another set.
LEMMA SumStep ==
    ASSUME NEW S, IsFiniteSet(S), NEW f, \A x \in S : f[x] \in Nat
    PROVE  Sum(f, S) = IF S = {} THEN 0 ELSE f[AnyOf(S)] + Sum(f, S \ {AnyOf(S)})
<1>1. PICK g : Adds(g, f, S)
    BY SumsExist
<1>2. g[S] = Sum(f, S)
    BY <1>1, SumAdds
<1>3. g[S] = IF S = {} THEN 0 ELSE f[AnyOf(S)] + g[S \ {AnyOf(S)}]
  <2>1. g = [s \in SUBSET S |-> IF s = {} THEN 0 ELSE f[AnyOf(s)] + g[s \ {AnyOf(s)}]]
      BY <1>1 DEF Adds
  <2> QED
      BY <2>1, Zenon
<1>4. g[S \ {AnyOf(S)}] = Sum(f, S \ {AnyOf(S)})
  <2> DEFINE r == S \ {AnyOf(S)}
  <2>1. r \in SUBSET S /\ IsFiniteSet(r) /\ \A x \in r : f[x] \in Nat
      BY FS_Subset
  <2> HIDE DEF r
  <2>2. g[r] = Sum(f, r)
      BY <1>1, <2>1, SumAdds
  <2> QED
      BY <2>2 DEF r
<1> QED
    BY <1>2, <1>3, <1>4

\* The order in which the elements are added makes no difference.
LEMMA SumRemove ==
    ASSUME NEW D, IsFiniteSet(D), NEW f, \A x \in D : f[x] \in Nat,
           NEW S \in SUBSET D, NEW x \in S
    PROVE  Sum(f, S) = f[x] + Sum(f, S \ {x})
<1> DEFINE T == {k \in Nat : \A s \in SUBSET D : Cardinality(s) <= k =>
                    \A e \in s : Sum(f, s) = f[e] + Sum(f, s \ {e})}
<1>1. \A s \in SUBSET D : /\ IsFiniteSet(s) /\ Cardinality(s) \in Nat /\ Sum(f, s) \in Nat
                          /\ \A e \in s : f[e] \in Nat
  <2>1. \A s \in SUBSET D : IsFiniteSet(s) /\ Cardinality(s) \in Nat
      BY FS_Subset, FS_CardinalityType
  <2>2. \A s \in SUBSET D : Sum(f, s) \in Nat
      BY <2>1, SumAdds
  <2> QED
      BY <2>1, <2>2
<1>2. 0 \in T
  <2>1. \A s \in SUBSET D : Cardinality(s) <= 0 => s = {}
      BY <1>1, FS_EmptySet
  <2> QED
      BY <2>1
<1>3. ASSUME NEW k \in Nat, k \in T
      PROVE  k + 1 \in T
  <2>1. ASSUME NEW s \in SUBSET D, Cardinality(s) <= k + 1, NEW e \in s
        PROVE  Sum(f, s) = f[e] + Sum(f, s \ {e})
    <3> DEFINE a == AnyOf(s)
    <3>1. a \in s
        BY DEF AnyOf
    <3>2. Sum(f, s) = f[a] + Sum(f, s \ {a})
        BY <1>1, SumStep
    <3> HIDE DEF a
    <3>3. CASE e = a
        BY <3>2, <3>3
    <3>4. CASE e # a
      <4>1. /\ s \ {a} \in SUBSET D /\ Cardinality(s \ {a}) <= k
            /\ s \ {e} \in SUBSET D /\ Cardinality(s \ {e}) <= k
          BY <2>1, <3>1, OneLess
      <4>2. Sum(f, s \ {a}) = f[e] + Sum(f, (s \ {a}) \ {e})
          BY <1>3, <2>1, <3>4, <4>1
      <4>3. Sum(f, s \ {e}) = f[a] + Sum(f, (s \ {e}) \ {a})
          BY <1>3, <3>1, <3>4, <4>1
      <4>4. (s \ {a}) \ {e} = (s \ {e}) \ {a}
          OBVIOUS
      <4>5. /\ f[a] \in Nat /\ f[e] \in Nat /\ Sum(f, (s \ {a}) \ {e}) \in Nat
            /\ Sum(f, s \ {e}) \in Nat
          BY <1>1, <2>1, <3>1
      <4> QED
          BY <3>2, <4>2, <4>3, <4>4, <4>5
    <3> QED
        BY <3>3, <3>4
  <2> QED
      BY <2>1
<1>4. Nat \subseteq T
  <2> HIDE DEF T
  <2> QED
      BY <1>2, <1>3, SetInduction
<1>5. Cardinality(S) \in Nat /\ Cardinality(S) <= Cardinality(S)
    BY <1>1
<1> QED
    BY <1>4, <1>5
\* Values that agree have the same sum.
LEMMA SumSame ==
    ASSUME NEW S, IsFiniteSet(S), NEW f, NEW h, \A x \in S : f[x] \in Nat /\ h[x] = f[x]
    PROVE  Sum(h, S) = Sum(f, S)
<1>1. PICK g : Adds(g, f, S)
    BY SumsExist
<1>2. Adds(g, h, S)
  <2>1. \A s \in SUBSET S : s # {} => h[AnyOf(s)] = f[AnyOf(s)]
    <3>1. \A s \in SUBSET S : s # {} => AnyOf(s) \in S
        BY DEF AnyOf
    <3> QED
        BY <3>1
  <2>2. [s \in SUBSET S |-> IF s = {} THEN 0 ELSE f[AnyOf(s)] + g[s \ {AnyOf(s)}]]
        = [s \in SUBSET S |-> IF s = {} THEN 0 ELSE h[AnyOf(s)] + g[s \ {AnyOf(s)}]]
      BY <2>1
  <2> QED
      BY <1>1, <2>2 DEF Adds
<1>3. g[S] = Sum(f, S) /\ g[S] = Sum(h, S)
    BY <1>1, <1>2, SumAdds
<1> QED
    BY <1>3

\* Induction over the subsets of a finite set.
LEMMA SubsetInduction ==
    ASSUME NEW D, IsFiniteSet(D), NEW T, {} \in T,
           \A s \in SUBSET D : \A x \in s : s \ {x} \in T => s \in T
    PROVE  D \in T
<1> DEFINE U == {k \in Nat : \A s \in SUBSET D : Cardinality(s) <= k => s \in T}
<1>1. 0 \in U
  <2>1. \A s \in SUBSET D : Cardinality(s) <= 0 => s = {}
      BY FS_Subset, FS_CardinalityType, FS_EmptySet
  <2> QED
      BY <2>1
<1>2. ASSUME NEW k \in Nat, k \in U
      PROVE  k + 1 \in U
  <2>1. ASSUME NEW s \in SUBSET D, Cardinality(s) <= k + 1
        PROVE  s \in T
    <3>1. CASE s = {}
        BY <3>1
    <3>2. CASE s # {}
      <4>1. PICK x \in s : TRUE
          BY <3>2
      <4>2. s \ {x} \in SUBSET D /\ Cardinality(s \ {x}) <= k
          BY <2>1, OneLess
      <4>3. s \ {x} \in T
          BY <1>2, <4>2
      <4> QED
          BY <4>3
    <3> QED
        BY <3>1, <3>2
  <2> QED
      BY <2>1
<1>3. Nat \subseteq U
  <2> HIDE DEF U
  <2> QED
      BY <1>1, <1>2, SetInduction
<1>4. Cardinality(D) \in Nat /\ Cardinality(D) <= Cardinality(D)
    BY FS_CardinalityType
<1> QED
    BY <1>3, <1>4

\* Sums of parts of a finite set: natural numbers, none for no elements.
LEMMA SumFacts ==
    ASSUME NEW D, IsFiniteSet(D), NEW f, \A x \in D : f[x] \in Nat, NEW S \in SUBSET D
    PROVE  /\ IsFiniteSet(S) /\ Sum(f, S) \in Nat /\ Sum(f, {}) = 0
           /\ \A x \in S : Sum(f, S) = f[x] + Sum(f, S \ {x})
<1>1. IsFiniteSet(S) /\ IsFiniteSet({})
    BY FS_Subset, FS_EmptySet
<1>2. Sum(f, S) \in Nat
    BY <1>1, SumAdds
<1>3. Sum(f, {}) = 0
    BY <1>1, SumStep
<1> QED
    BY <1>1, <1>2, <1>3, SumRemove

\* The sum of two values.
LEMMA SumPlus ==
    ASSUME NEW D, IsFiniteSet(D), NEW f, NEW g, NEW h,
           \A x \in D : f[x] \in Nat /\ g[x] \in Nat /\ h[x] = f[x] + g[x]
    PROVE  Sum(h, D) = Sum(f, D) + Sum(g, D)
<1> DEFINE T == {s \in SUBSET D : Sum(h, s) = Sum(f, s) + Sum(g, s)}
<1>1. \A x \in D : f[x] \in Nat /\ g[x] \in Nat /\ h[x] \in Nat
    OBVIOUS
<1>2. {} \in T
  <2>1. Sum(h, {}) = 0 /\ Sum(f, {}) = 0 /\ Sum(g, {}) = 0
      BY <1>1, SumFacts
  <2> QED
      BY <2>1
<1>3. ASSUME NEW s \in SUBSET D, NEW x \in s, s \ {x} \in T
      PROVE  s \in T
  <2>1. Sum(h, s \ {x}) = Sum(f, s \ {x}) + Sum(g, s \ {x})
      BY <1>3
  <2>2. /\ Sum(f, s) = f[x] + Sum(f, s \ {x})
        /\ Sum(g, s) = g[x] + Sum(g, s \ {x})
        /\ Sum(h, s) = h[x] + Sum(h, s \ {x})
      BY <1>1, SumRemove
  <2>3. s \ {x} \in SUBSET D
      OBVIOUS
  <2>4. Sum(f, s \ {x}) \in Nat /\ Sum(g, s \ {x}) \in Nat
      BY <1>1, <2>3, SumFacts
  <2>5. f[x] \in Nat /\ g[x] \in Nat /\ h[x] = f[x] + g[x]
      OBVIOUS
  <2>6. Sum(h, s) = Sum(f, s) + Sum(g, s)
      BY <2>1, <2>2, <2>4, <2>5
  <2> QED
      BY <2>6
<1>4. D \in T
  <2> HIDE DEF T
  <2> QED
      BY <1>2, <1>3, SubsetInduction
<1> QED
    BY <1>4

LEMMA Distribute ==
    ASSUME NEW c \in Nat, NEW x \in Nat, NEW y \in Nat
    PROVE  c * (x + y) = c * x + c * y /\ c * x \in Nat /\ c * 0 = 0
OBVIOUS

\* A common factor.
LEMMA SumTimes ==
    ASSUME NEW D, IsFiniteSet(D), NEW f, NEW h, NEW c \in Nat,
           \A x \in D : f[x] \in Nat /\ h[x] = c * f[x]
    PROVE  Sum(h, D) = c * Sum(f, D)
<1> DEFINE T == {s \in SUBSET D : Sum(h, s) = c * Sum(f, s)}
<1>1. \A x \in D : f[x] \in Nat /\ h[x] \in Nat
    BY Distribute
<1>2. {} \in T
  <2>1. Sum(h, {}) = 0 /\ Sum(f, {}) = 0
      BY <1>1, SumFacts
  <2> QED
      BY <2>1, Distribute
<1>3. ASSUME NEW s \in SUBSET D, NEW x \in s, s \ {x} \in T
      PROVE  s \in T
  <2> DEFINE r == Sum(f, s \ {x})
  <2>1. Sum(h, s \ {x}) = c * r
      BY <1>3
  <2>2. /\ Sum(f, s) = f[x] + r
        /\ Sum(h, s) = h[x] + Sum(h, s \ {x})
      BY <1>1, SumRemove
  <2>3. s \ {x} \in SUBSET D
      OBVIOUS
  <2>4. r \in Nat
      BY <1>1, <2>3, SumFacts
  <2>5. f[x] \in Nat /\ h[x] = c * f[x]
      OBVIOUS
  <2> HIDE DEF r
  <2>6. c * (f[x] + r) = c * f[x] + c * r
      BY <2>4, <2>5, Distribute
  <2>7. Sum(h, s) = c * Sum(f, s)
      BY <2>1, <2>2, <2>5, <2>6
  <2> QED
      BY <2>7
<1>4. D \in T
  <2> HIDE DEF T
  <2> QED
      BY <1>2, <1>3, SubsetInduction
<1> QED
    BY <1>4

\* Sums in groups.
Groups(f, S, g, M) == [m \in M |-> Sum(f, {x \in S : g[x] = m})]

LEMMA SumGroups ==
    ASSUME NEW D, IsFiniteSet(D), NEW M, IsFiniteSet(M), NEW f, NEW g,
           \A x \in D : f[x] \in Nat /\ g[x] \in M
    PROVE  Sum(f, D) = Sum(Groups(f, D, g, M), M)
<1> DEFINE T == {s \in SUBSET D : Sum(f, s) = Sum(Groups(f, s, g, M), M)}
<1>1. \A s \in SUBSET D : \A m \in M : Groups(f, s, g, M)[m] \in Nat
  <2>1. ASSUME NEW s \in SUBSET D, NEW m \in M PROVE Groups(f, s, g, M)[m] \in Nat
    <3>1. {x \in s : g[x] = m} \in SUBSET D
        OBVIOUS
    <3>2. Sum(f, {x \in s : g[x] = m}) \in Nat
        BY <3>1, SumFacts
    <3> QED
        BY <3>2 DEF Groups
  <2> QED
      BY <2>1
<1>2. {} \in T
  <2> DEFINE zero == [m \in M |-> 0]
             U == {s \in SUBSET M : Sum(zero, s) = 0}
  <2>1. \A m \in M : zero[m] = 0 /\ zero[m] \in Nat
      OBVIOUS
  <2>2. \A m \in M : Groups(f, {}, g, M)[m] = zero[m]
    <3>1. Sum(f, {}) = 0
        BY SumFacts
    <3>2. \A m : {x \in {} : g[x] = m} = {}
        OBVIOUS
    <3> QED
        BY <3>1, <3>2 DEF Groups
  <2> HIDE DEF zero
  <2>3. {} \in U
      BY <2>1, SumFacts
  <2>4. ASSUME NEW s \in SUBSET M, NEW x \in s, s \ {x} \in U
        PROVE  s \in U
    <3>1. Sum(zero, s) = zero[x] + Sum(zero, s \ {x})
        BY <2>1, SumRemove
    <3>2. zero[x] = 0 /\ Sum(zero, s \ {x}) = 0
        BY <2>1, <2>4
    <3> QED
        BY <3>1, <3>2
  <2>5. M \in U
    <3> HIDE DEF U
    <3> QED
        BY <2>3, <2>4, SubsetInduction
  <2>6. Sum(Groups(f, {}, g, M), M) = Sum(zero, M)
      BY <2>1, <2>2, SumSame
  <2>7. Sum(f, {}) = 0
      BY SumFacts
  <2>8. Sum(zero, M) = 0
      BY <2>5
  <2> QED
      BY <2>6, <2>7, <2>8
<1>3. ASSUME NEW s \in SUBSET D, NEW x \in s, s \ {x} \in T
      PROVE  s \in T
  <2> DEFINE r == s \ {x}
             G == Groups(f, s, g, M)
             H == Groups(f, r, g, M)
             m == g[x]
             one == {y \in s : g[y] = m}
  <2>1. r \in SUBSET D /\ m \in M /\ one \in SUBSET D /\ x \in one /\ f[x] \in Nat
      OBVIOUS
  <2>2. Sum(f, r) = Sum(H, M)
      BY <1>3
  <2>3. \A k \in M : G[k] \in Nat /\ H[k] \in Nat
      BY <1>1, <2>1
  <2>4. G[m] = f[x] + H[m]
    <3>1. Sum(f, one) = f[x] + Sum(f, one \ {x})
        BY <2>1, SumFacts
    <3>2. one \ {x} = {y \in r : g[y] = m}
        OBVIOUS
    <3> QED
        BY <2>1, <3>1, <3>2 DEF Groups
  <2>5. \A k \in M \ {m} : G[k] = H[k]
    <3>1. \A k \in M \ {m} : {y \in s : g[y] = k} = {y \in r : g[y] = k}
        OBVIOUS
    <3> QED
        BY <3>1 DEF Groups
  <2>6. Sum(f, s) = f[x] + Sum(f, r)
      BY SumRemove
  <2> HIDE DEF r, G, H, m, one
  <2>7. Sum(G, M) = G[m] + Sum(G, M \ {m})
      BY <2>1, <2>3, SumFacts
  <2>8. Sum(H, M) = H[m] + Sum(H, M \ {m})
      BY <2>1, <2>3, SumFacts
  <2>9. Sum(G, M \ {m}) = Sum(H, M \ {m})
    <3>1. IsFiniteSet(M \ {m})
        BY FS_Subset
    <3>2. \A k \in M \ {m} : H[k] \in Nat /\ G[k] = H[k]
        BY <2>3, <2>5
    <3> DEFINE R == M \ {m}
    <3> HIDE DEF R
    <3> QED
        BY <3>1, <3>2, SumSame DEF R
  <2>10. Sum(H, M \ {m}) \in Nat /\ H[m] \in Nat /\ f[x] \in Nat
    <3>1. M \ {m} \in SUBSET M
        OBVIOUS
    <3> QED
        BY <2>1, <2>3, <3>1, SumFacts
  <2>11. Sum(f, s) = Sum(G, M)
      BY <2>2, <2>4, <2>6, <2>7, <2>8, <2>9, <2>10
  <2> QED
      BY <2>11 DEF G
<1>4. D \in T
  <2> HIDE DEF T
  <2> QED
      BY <1>2, <1>3, SubsetInduction
<1> QED
    BY <1>4

-----------------------------------------------------------------------------
(* Equations over the modules of a program.                                *)

\* Equations x[m] = base[m] + the sum over the sites for m of
\* weight * x[needs], where needs ranks below m.
System(y) ==
    /\ IsFiniteSet(y.sites)
    /\ y.weight \in [y.sites -> Nat]
    /\ y.needs \in [y.sites -> y.mods] /\ y.for \in [y.sites -> y.mods]
    /\ y.base \in [y.mods -> Nat]
    /\ y.bound \in Nat /\ y.rank \in [y.mods -> 0 .. y.bound]
    /\ \A s \in y.sites : y.rank[y.needs[s]] < y.rank[y.for[s]]

Terms(y, x) == [s \in y.sites |-> y.weight[s] * x[y.needs[s]]]
SitesFor(y, m) == {s \in y.sites : y.for[s] = m}
Value(y, x, m) == y.base[m] + Sum(Terms(y, x), SitesFor(y, m))

Solves(y, x) == x \in [y.mods -> Nat] /\ \A m \in y.mods : x[m] = Value(y, x, m)
Solution(y) == CHOOSE x : Solves(y, x)

\* Right for the modules that rank below n.
SolvesBelow(y, x, n) ==
    x \in [y.mods -> Nat] /\ \A m \in y.mods : y.rank[m] < n => x[m] = Value(y, x, m)
Solvable(y, n) == \E x : SolvesBelow(y, x, n)

\* Values are natural numbers.
LEMMA TermsType ==
    ASSUME NEW y, System(y), NEW x \in [y.mods -> Nat]
    PROVE  /\ \A s \in y.sites : Terms(y, x)[s] \in Nat
           /\ \A m \in y.mods : Value(y, x, m) \in Nat /\ IsFiniteSet(SitesFor(y, m))
<1>1. ASSUME NEW s \in y.sites PROVE Terms(y, x)[s] \in Nat
  <2>1. y.weight[s] \in Nat /\ x[y.needs[s]] \in Nat
      BY DEF System
  <2>2. y.weight[s] * x[y.needs[s]] \in Nat
      BY <2>1
  <2> QED
      BY <2>2 DEF Terms
<1>2. ASSUME NEW m \in y.mods
      PROVE  Value(y, x, m) \in Nat /\ IsFiniteSet(SitesFor(y, m))
  <2>1. SitesFor(y, m) \in SUBSET y.sites /\ y.base[m] \in Nat /\ IsFiniteSet(y.sites)
      BY DEF SitesFor, System
  <2>2. Sum(Terms(y, x), SitesFor(y, m)) \in Nat /\ IsFiniteSet(SitesFor(y, m))
      BY <1>1, <2>1, SumFacts
  <2> QED
      BY <2>1, <2>2 DEF Value
<1> QED
    BY <1>1, <1>2

\* One more round of substitution makes one more rank right.
LEMMA Solvables ==
    ASSUME NEW y, System(y), NEW n \in Nat
    PROVE  Solvable(y, n)
<1> DEFINE T == {k \in Nat : Solvable(y, k)}
<1>1. 0 \in T
  <2> DEFINE x == [m \in y.mods |-> 0]
  <2>1. x \in [y.mods -> Nat]
      OBVIOUS
  <2>2. \A m \in y.mods : ~(y.rank[m] < 0)
      BY DEF System
  <2>3. SolvesBelow(y, x, 0)
      BY <2>1, <2>2 DEF SolvesBelow
  <2> QED
      BY <2>3 DEF Solvable
<1>2. ASSUME NEW k \in Nat, k \in T
      PROVE  k + 1 \in T
  <2>1. PICK x : SolvesBelow(y, x, k)
      BY <1>2 DEF Solvable
  <2>2. x \in [y.mods -> Nat]
      BY <2>1 DEF SolvesBelow
  <2> DEFINE z == [m \in y.mods |-> Value(y, x, m)]
  <2>3. z \in [y.mods -> Nat]
      BY <2>2, TermsType
  <2>4. \A m \in y.mods : z[m] = Value(y, x, m)
      OBVIOUS
  <2> HIDE DEF z
  <2>5. ASSUME NEW m \in y.mods, y.rank[m] < k + 1
        PROVE  z[m] = Value(y, z, m)
    <3>1. ASSUME NEW s \in SitesFor(y, m)
          PROVE  Terms(y, z)[s] = Terms(y, x)[s] /\ Terms(y, x)[s] \in Nat
      <4>1. /\ s \in y.sites /\ y.needs[s] \in y.mods /\ y.for[s] = m
            /\ y.rank[y.needs[s]] < y.rank[m]
          BY DEF SitesFor, System
      <4>2. y.rank[y.needs[s]] \in Int /\ y.rank[m] \in Int
          BY <4>1 DEF System
      <4>3. y.rank[y.needs[s]] < k
          BY <2>5, <4>1, <4>2
      <4>4. z[y.needs[s]] = x[y.needs[s]]
          BY <2>1, <2>4, <4>1, <4>3 DEF SolvesBelow
      <4>5. Terms(y, x)[s] \in Nat
          BY <2>2, <4>1, TermsType
      <4> QED
          BY <4>1, <4>4, <4>5 DEF Terms
    <3>2. Sum(Terms(y, z), SitesFor(y, m)) = Sum(Terms(y, x), SitesFor(y, m))
      <4>1. IsFiniteSet(SitesFor(y, m))
          BY <2>2, TermsType
      <4> QED
          BY <3>1, <4>1, SumSame
    <3> QED
        BY <2>4, <3>2 DEF Value
  <2>6. SolvesBelow(y, z, k + 1)
      BY <2>3, <2>5 DEF SolvesBelow
  <2> QED
      BY <2>6 DEF Solvable
<1>3. Nat \subseteq T
  <2> HIDE DEF T
  <2> QED
      BY <1>1, <1>2, SetInduction
<1> QED
    BY <1>3

\* Each such system has a solution, the one that is chosen.
LEMMA SolutionSolves ==
    ASSUME NEW y, System(y)
    PROVE  Solves(y, Solution(y))
<1>1. y.bound + 1 \in Nat
    BY DEF System
<1>2. PICK x : SolvesBelow(y, x, y.bound + 1)
    BY <1>1, Solvables DEF Solvable
<1>3. \A m \in y.mods : y.rank[m] < y.bound + 1
    BY DEF System
<1>4. Solves(y, x)
    BY <1>2, <1>3 DEF SolvesBelow, Solves
<1> QED
    BY <1>4 DEF Solution

-----------------------------------------------------------------------------
(* Runs of modules, and what they need.                                    *)

\* What counting needs of a program: its calls, with the rounds, the module
\* that makes the call, the one that is called, and the key of each.
CallGraph(c) ==
    /\ c.size \in Nat \ {0} /\ c.mods = 1 .. c.size
    /\ IsFiniteSet(c.sites)
    /\ c.weight \in [c.sites -> Nat]
    /\ c.caller \in [c.sites -> c.mods] /\ c.callee \in [c.sites -> c.mods]
    /\ \A s \in c.sites : c.caller[s] < c.callee[s]

CallsOf(c, m) == {s \in c.sites : c.caller[s] = m}

\* How often each module runs.
RunSystem(c) ==
    [sites |-> c.sites, weight |-> c.weight, mods |-> c.mods,
     needs |-> c.caller, for |-> c.callee,
     base |-> [m \in c.mods |-> IF m = 1 THEN 1 ELSE 0],
     bound |-> c.size, rank |-> [m \in c.mods |-> m]]

\* The rounds of the calls with the key K.
Own(c, K) == [s \in c.sites |-> IF c.key[s] = K THEN c.weight[s] ELSE 0]

\* How often the calls with the key K are made in one run of each module, by
\* it and by those that it calls.
NeedSystem(c, K) ==
    [sites |-> c.sites, weight |-> c.weight, mods |-> c.mods,
     needs |-> c.callee, for |-> c.caller,
     base |-> [m \in c.mods |-> Sum(Own(c, K), CallsOf(c, m))],
     bound |-> c.size, rank |-> [m \in c.mods |-> c.size - m]]

Needed(c, K) == Solution(NeedSystem(c, K))

\* What a call adds to that.
Cost(c, K) == [s \in c.sites |-> Own(c, K)[s] + c.weight[s] * Needed(c, K)[c.callee[s]]]

\* The rounds of the calls, and their sums.
LEMMA OwnType ==
    ASSUME NEW c, CallGraph(c), NEW K
    PROVE  /\ \A s \in c.sites : Own(c, K)[s] \in Nat
           /\ \A m \in c.mods : /\ IsFiniteSet(CallsOf(c, m)) /\ CallsOf(c, m) \in SUBSET c.sites
                                /\ Sum(Own(c, K), CallsOf(c, m)) \in Nat
<1>1. \A s \in c.sites : Own(c, K)[s] \in Nat
    BY DEF Own, CallGraph
<1>2. \A m \in c.mods : CallsOf(c, m) \in SUBSET c.sites
    BY DEF CallsOf
<1>3. IsFiniteSet(c.sites)
    BY DEF CallGraph
<1> QED
    BY <1>1, <1>2, <1>3, SumFacts

\* Callers rank below the modules they call,
LEMMA RunsAreSystem ==
    ASSUME NEW c, CallGraph(c)
    PROVE  System(RunSystem(c))
<1> DEFINE y == RunSystem(c)
<1>1. /\ y.sites = c.sites /\ y.weight = c.weight /\ y.mods = c.mods
      /\ y.needs = c.caller /\ y.for = c.callee /\ y.bound = c.size
      /\ y.base = [m \in c.mods |-> IF m = 1 THEN 1 ELSE 0]
      /\ y.rank = [m \in c.mods |-> m]
    BY DEF RunSystem
<1>2. y.base \in [c.mods -> Nat]
    BY <1>1
<1>3. y.rank \in [c.mods -> 0 .. c.size]
    BY <1>1 DEF CallGraph
<1> HIDE DEF y
<1>4. \A s \in c.sites : y.rank[c.caller[s]] < y.rank[c.callee[s]]
    BY <1>1 DEF CallGraph
<1>5. System(y)
    BY <1>1, <1>2, <1>3, <1>4 DEF CallGraph, System
<1> QED
    BY <1>5 DEF y

\* and for the needs the other way round.
LEMMA NeedsAreSystem ==
    ASSUME NEW c, CallGraph(c), NEW K
    PROVE  System(NeedSystem(c, K))
<1> DEFINE y == NeedSystem(c, K)
<1>1. /\ y.sites = c.sites /\ y.weight = c.weight /\ y.mods = c.mods
      /\ y.needs = c.callee /\ y.for = c.caller /\ y.bound = c.size
      /\ y.base = [m \in c.mods |-> Sum(Own(c, K), CallsOf(c, m))]
      /\ y.rank = [m \in c.mods |-> c.size - m]
    BY DEF NeedSystem
<1>2. y.base \in [c.mods -> Nat]
    BY <1>1, OwnType
<1>3. y.rank \in [c.mods -> 0 .. c.size]
    BY <1>1 DEF CallGraph
<1> HIDE DEF y
<1>4. \A s \in c.sites : y.rank[c.callee[s]] < y.rank[c.caller[s]]
  <2>1. ASSUME NEW s \in c.sites
        PROVE  y.rank[c.callee[s]] < y.rank[c.caller[s]]
    <3>1. /\ c.callee[s] \in 1 .. c.size /\ c.caller[s] \in 1 .. c.size /\ c.size \in Nat
          /\ c.caller[s] < c.callee[s] /\ c.mods = 1 .. c.size
        BY DEF CallGraph
    <3>2. /\ y.rank[c.callee[s]] = c.size - c.callee[s]
          /\ y.rank[c.caller[s]] = c.size - c.caller[s]
        BY <1>1, <3>1
    <3> QED
        BY <3>1, <3>2
  <2> QED
      BY <2>1
<1>5. System(y)
    BY <1>1, <1>2, <1>3, <1>4 DEF CallGraph, System
<1> QED
    BY <1>5 DEF y

\* What a run of a module needs is what its calls cost.
LEMMA NeededIsCost ==
    ASSUME NEW c, CallGraph(c), NEW K
    PROVE  /\ Needed(c, K) \in [c.mods -> Nat]
           /\ \A s \in c.sites : Cost(c, K)[s] \in Nat
           /\ \A m \in c.mods : Needed(c, K)[m] = Sum(Cost(c, K), CallsOf(c, m))
           /\ Solves(NeedSystem(c, K), Needed(c, K))
<1> DEFINE y == NeedSystem(c, K)
           w == Needed(c, K)
<1>1. Solves(y, w)
    BY NeedsAreSystem, SolutionSolves DEF Needed
<1>2. /\ y.sites = c.sites /\ y.weight = c.weight /\ y.mods = c.mods
      /\ y.needs = c.callee /\ y.for = c.caller
      /\ y.base = [m \in c.mods |-> Sum(Own(c, K), CallsOf(c, m))]
    BY DEF NeedSystem
<1>3. System(y)
    BY NeedsAreSystem
<1>4. \A s \in c.sites : Cost(c, K)[s] = Own(c, K)[s] + c.weight[s] * w[c.callee[s]]
    BY DEF Cost
<1> HIDE DEF y, w
<1>5. w \in [c.mods -> Nat]
    BY <1>1, <1>2 DEF Solves
<1>6. \A s \in c.sites : Terms(y, w)[s] = c.weight[s] * w[c.callee[s]]
    BY <1>2 DEF Terms
<1>7. \A s \in c.sites : Terms(y, w)[s] \in Nat
    BY <1>2, <1>3, <1>5, TermsType
<1>8. \A s \in c.sites : Cost(c, K)[s] \in Nat
    BY <1>4, <1>6, <1>7, OwnType
<1>9. ASSUME NEW m \in c.mods
      PROVE  w[m] = Sum(Cost(c, K), CallsOf(c, m))
  <2>1. SitesFor(y, m) = CallsOf(c, m)
      BY <1>2 DEF SitesFor, CallsOf
  <2>2. w[m] = Sum(Own(c, K), CallsOf(c, m)) + Sum(Terms(y, w), CallsOf(c, m))
      BY <1>1, <1>2, <2>1 DEF Solves, Value
  <2>3. IsFiniteSet(CallsOf(c, m)) /\ CallsOf(c, m) \in SUBSET c.sites
      BY OwnType
  <2>4. \A s \in CallsOf(c, m) : /\ Own(c, K)[s] \in Nat /\ Terms(y, w)[s] \in Nat
                                 /\ Cost(c, K)[s] = Own(c, K)[s] + Terms(y, w)[s]
      BY <1>4, <1>6, <1>7, <2>3, OwnType
  <2>5. Sum(Cost(c, K), CallsOf(c, m))
          = Sum(Own(c, K), CallsOf(c, m)) + Sum(Terms(y, w), CallsOf(c, m))
      BY <2>3, <2>4, SumPlus
  <2> QED
      BY <2>2, <2>5
<1> QED
    BY <1>1, <1>5, <1>8, <1>9 DEF y, w

\* Products of natural numbers.
LEMMA MulNat == ASSUME NEW a \in Nat, NEW b \in Nat PROVE a * b \in Nat /\ a * b = b * a
OBVIOUS

\* Three factors in another order.
LEMMA Reorder ==
    ASSUME NEW a \in Nat, NEW b \in Nat, NEW d \in Nat
    PROVE  a * (b * d) = (b * a) * d /\ (b * a) * d = d * (b * a)
OBVIOUS

\* Two ways to count the calls with the key K: as main needs them, and by the
\* runs of the modules that make them.
LEMMA Duality ==
    ASSUME NEW c, CallGraph(c), NEW K, NEW r, Solves(RunSystem(c), r), NEW own,
           \A s \in c.sites : own[s] = r[c.caller[s]] * Own(c, K)[s]
    PROVE  Needed(c, K)[1] = Sum(own, c.sites)
<1> DEFINE y == RunSystem(c)
           w == Needed(c, K)
           f == Terms(y, r)
           through == [s \in c.sites |-> w[c.callee[s]] * f[s]]
           total == [s \in c.sites |-> r[c.caller[s]] * Cost(c, K)[s]]
           both == [m \in c.mods |-> r[m] * w[m]]
<1>1. /\ y.sites = c.sites /\ y.weight = c.weight /\ y.mods = c.mods
      /\ y.needs = c.caller /\ y.for = c.callee
      /\ y.base = [m \in c.mods |-> IF m = 1 THEN 1 ELSE 0]
    BY DEF RunSystem
<1>2. /\ w \in [c.mods -> Nat] /\ \A s \in c.sites : Cost(c, K)[s] \in Nat
      /\ \A m \in c.mods : w[m] = Sum(Cost(c, K), CallsOf(c, m))
    BY NeededIsCost
<1>3. \A s \in c.sites : Cost(c, K)[s] = Own(c, K)[s] + c.weight[s] * w[c.callee[s]]
    BY DEF Cost
<1>4. \A s \in c.sites : /\ through[s] = w[c.callee[s]] * f[s]
                         /\ total[s] = r[c.caller[s]] * Cost(c, K)[s]
    OBVIOUS
<1>5. \A m \in c.mods : both[m] = r[m] * w[m]
    OBVIOUS
<1>6. System(y) /\ Solves(y, r)
    BY RunsAreSystem
<1>7. IsFiniteSet(c.sites) /\ IsFiniteSet(c.mods) /\ 1 \in c.mods /\ c.mods \in SUBSET Nat
  <2>1. c.size \in Nat \ {0} /\ c.mods = 1 .. c.size /\ IsFiniteSet(c.sites)
      BY DEF CallGraph
  <2>2. IsFiniteSet(1 .. c.size)
      BY <2>1, FS_Interval
  <2> QED
      BY <2>1, <2>2
<1> HIDE DEF y, w, through, total, both
<1>8. r \in [c.mods -> Nat]
    BY <1>1, <1>6 DEF Solves
<1>9. \A s \in c.sites : /\ c.caller[s] \in c.mods /\ c.callee[s] \in c.mods
                         /\ c.weight[s] \in Nat
                         /\ r[c.caller[s]] \in Nat /\ w[c.callee[s]] \in Nat
                         /\ Own(c, K)[s] \in Nat
                         /\ f[s] = c.weight[s] * r[c.caller[s]]
    BY <1>1, <1>2, <1>8, OwnType DEF CallGraph, Terms
<1> HIDE DEF f
<1>10. ASSUME NEW s \in c.sites
       PROVE  /\ own[s] \in Nat /\ through[s] \in Nat /\ total[s] \in Nat /\ f[s] \in Nat
              /\ total[s] = own[s] + through[s]
  <2> DEFINE a == r[c.caller[s]]
             o == Own(c, K)[s]
             b == c.weight[s]
             d == w[c.callee[s]]
  <2>1. a \in Nat /\ o \in Nat /\ b \in Nat /\ d \in Nat
      BY <1>9
  <2>2. /\ own[s] = a * o /\ through[s] = d * f[s] /\ f[s] = b * a
        /\ total[s] = a * (o + b * d)
      BY <1>3, <1>4, <1>9
  <2> HIDE DEF a, o, b, d
  <2>3. b * d \in Nat /\ a * o \in Nat /\ b * a \in Nat /\ a * (b * d) \in Nat
    <3>1. b * d \in Nat /\ a * o \in Nat /\ b * a \in Nat
        BY <2>1, MulNat
    <3> QED
        BY <2>1, <3>1, MulNat
  <2>4. a * (o + b * d) = a * o + a * (b * d)
      BY <2>1, <2>3, Distribute
  <2>5. a * (b * d) = d * (b * a)
      BY <2>1, Reorder
  <2> QED
      BY <2>2, <2>3, <2>4, <2>5
<1>11. Sum(total, c.sites) = Sum(own, c.sites) + Sum(through, c.sites)
    BY <1>7, <1>10, SumPlus
<1>12. \A m \in c.mods : both[m] \in Nat
    BY <1>2, <1>5, <1>8, MulNat
\* By the module that calls.
<1>13. Sum(total, c.sites) = Sum(both, c.mods)
  <2> DEFINE G == Groups(total, c.sites, c.caller, c.mods)
  <2>1. Sum(total, c.sites) = Sum(G, c.mods)
      BY <1>7, <1>9, <1>10, SumGroups
  <2>2. ASSUME NEW m \in c.mods PROVE G[m] = both[m]
    <3>1. G[m] = Sum(total, CallsOf(c, m))
        BY DEF Groups, CallsOf
    <3>2. IsFiniteSet(CallsOf(c, m)) /\ CallsOf(c, m) \in SUBSET c.sites
        BY OwnType
    <3>3. r[m] \in Nat
        BY <1>8
    <3>4. \A s \in CallsOf(c, m) : Cost(c, K)[s] \in Nat /\ total[s] = r[m] * Cost(c, K)[s]
        BY <1>2, <1>4, <3>2 DEF CallsOf
    <3>5. Sum(total, CallsOf(c, m)) = r[m] * Sum(Cost(c, K), CallsOf(c, m))
        BY <3>2, <3>3, <3>4, SumTimes
    <3> QED
        BY <1>2, <1>5, <3>1, <3>5
  <2> HIDE DEF G
  <2>3. Sum(G, c.mods) = Sum(both, c.mods)
      BY <1>7, <1>12, <2>2, SumSame
  <2> QED
      BY <2>1, <2>3
\* By the module that is called; none is called that is main.
<1>14. Sum(both, c.mods) = w[1] + Sum(through, c.sites)
  <2> DEFINE G == Groups(through, c.sites, c.callee, c.mods)
  <2>1. Sum(through, c.sites) = Sum(G, c.mods)
      BY <1>7, <1>9, <1>10, SumGroups
  <2>2. ASSUME NEW m \in c.mods
        PROVE  /\ G[m] = w[m] * Sum(f, SitesFor(y, m)) /\ Sum(f, SitesFor(y, m)) \in Nat
               /\ r[m] = (IF m = 1 THEN 1 ELSE 0) + Sum(f, SitesFor(y, m))
               /\ G[m] \in Nat
    <3>1. G[m] = Sum(through, SitesFor(y, m))
        BY <1>1 DEF Groups, SitesFor
    <3>2. SitesFor(y, m) \in SUBSET c.sites
        BY <1>1 DEF SitesFor
    <3>3. IsFiniteSet(SitesFor(y, m))
        BY <1>7, <3>2, FS_Subset
    <3>4. w[m] \in Nat
        BY <1>2
    <3>5. \A s \in SitesFor(y, m) : f[s] \in Nat /\ through[s] = w[m] * f[s]
        BY <1>1, <1>4, <1>10, <3>2 DEF SitesFor
    <3>6. Sum(through, SitesFor(y, m)) = w[m] * Sum(f, SitesFor(y, m))
        BY <3>3, <3>4, <3>5, SumTimes
    <3>7. Sum(f, SitesFor(y, m)) \in Nat
        BY <1>7, <1>10, <3>2, SumFacts
    <3>8. r[m] = (IF m = 1 THEN 1 ELSE 0) + Sum(f, SitesFor(y, m))
        BY <1>1, <1>6 DEF Solves, Value, f
    <3>9. G[m] \in Nat
        BY <3>1, <3>4, <3>6, <3>7, MulNat
    <3> QED
        BY <3>1, <3>6, <3>7, <3>8, <3>9
  <2>3. SitesFor(y, 1) = {}
    <3>1. \A s \in c.sites : c.callee[s] # 1
        BY <1>9 DEF CallGraph
    <3> QED
        BY <1>1, <3>1 DEF SitesFor
  <2>4. Sum(f, {}) = 0
      BY <1>7, <1>10, SumFacts
  <2> HIDE DEF G
  <2>5. G[1] = 0 /\ both[1] = w[1] /\ w[1] \in Nat
    <3>1. w[1] \in Nat
        BY <1>2, <1>7
    <3>2. G[1] = w[1] * 0 /\ r[1] = (IF 1 = 1 THEN 1 ELSE 0) + 0
      <4>1. Sum(f, SitesFor(y, 1)) = 0
          BY <2>3, <2>4, Zenon
      <4> QED
          BY <1>7, <2>2, <4>1
    <3>3. both[1] = 1 * w[1]
        BY <1>5, <1>7, <3>2
    <3> QED
        BY <3>1, <3>2, <3>3
  <2>6. \A m \in c.mods \ {1} : both[m] = G[m]
    <3>1. ASSUME NEW m \in c.mods \ {1} PROVE both[m] = G[m]
      <4>1. /\ r[m] = 0 + Sum(f, SitesFor(y, m)) /\ G[m] = w[m] * Sum(f, SitesFor(y, m))
            /\ Sum(f, SitesFor(y, m)) \in Nat /\ w[m] \in Nat /\ both[m] = r[m] * w[m]
          BY <1>2, <1>5, <2>2
      <4>2. r[m] = Sum(f, SitesFor(y, m))
          BY <4>1
      <4> QED
          BY <4>1, <4>2, MulNat
    <3> QED
        BY <3>1
  <2>7. \A m \in c.mods : G[m] \in Nat
      BY <2>2
  <2>8. Sum(both, c.mods) = both[1] + Sum(both, c.mods \ {1})
      BY <1>7, <1>12, SumFacts
  <2>9. Sum(G, c.mods) = G[1] + Sum(G, c.mods \ {1})
      BY <1>7, <2>7, SumFacts
  <2>10. Sum(both, c.mods \ {1}) = Sum(G, c.mods \ {1})
    <3> DEFINE R == c.mods \ {1}
    <3>1. IsFiniteSet(R) /\ \A m \in R : G[m] \in Nat /\ both[m] = G[m]
        BY <1>7, <2>6, <2>7, FS_Subset
    <3> HIDE DEF R
    <3>2. Sum(both, R) = Sum(G, R)
        BY <3>1, SumSame
    <3> QED
        BY <3>2 DEF R
  <2>11. Sum(G, c.mods \ {1}) \in Nat
    <3>1. c.mods \ {1} \in SUBSET c.mods
        OBVIOUS
    <3> QED
        BY <1>7, <2>7, <3>1, SumFacts
  <2> QED
      BY <2>1, <2>5, <2>8, <2>9, <2>10, <2>11
<1>15. /\ Sum(own, c.sites) \in Nat /\ Sum(through, c.sites) \in Nat /\ w[1] \in Nat
  <2>1. c.sites \in SUBSET c.sites
      OBVIOUS
  <2>2. Sum(own, c.sites) \in Nat
      BY <1>7, <1>10, <2>1, SumFacts
  <2>3. Sum(through, c.sites) \in Nat
      BY <1>7, <1>10, <2>1, SumFacts
  <2> QED
      BY <1>2, <1>7, <2>2, <2>3
<1>16. w[1] = Sum(own, c.sites)
    BY <1>11, <1>13, <1>14, <1>15
<1> QED
    BY <1>16 DEF w

-----------------------------------------------------------------------------
(* Counts are kept modulo Word.                                            *)

Congruent(x, y) == \E k \in Int : x = y + k * Word

\* What is assumed of Word.
LEMMA WordFacts == Word \in Nat /\ Word > 1
BY BoundsAssumption

\* Congruence is reflexive and transitive,
LEMMA CongruentSame == ASSUME NEW x \in Int PROVE Congruent(x, x)
<1>1. x = x + 0 * Word
    BY WordFacts
<1> QED
    BY <1>1 DEF Congruent

LEMMA CongruentChain ==
    ASSUME NEW x \in Int, NEW y \in Int, NEW z \in Int, Congruent(x, y), Congruent(y, z)
    PROVE  Congruent(x, z)
<1>1. PICK k \in Int : x = y + k * Word
    BY DEF Congruent
<1>2. PICK j \in Int : y = z + j * Word
    BY DEF Congruent
<1>3. k + j \in Int /\ x = z + (k + j) * Word
  <2>1. k * Word \in Int /\ j * Word \in Int /\ (k + j) * Word = k * Word + j * Word
      BY WordFacts
  <2> QED
      BY <1>1, <1>2, <2>1
<1> QED
    BY <1>3 DEF Congruent

\* and sums and products respect it.
LEMMA CongruentPlus ==
    ASSUME NEW x \in Int, NEW y \in Int, NEW u \in Int, NEW v \in Int,
           Congruent(x, y), Congruent(u, v)
    PROVE  Congruent(x + u, y + v)
<1>1. PICK k \in Int : x = y + k * Word
    BY DEF Congruent
<1>2. PICK j \in Int : u = v + j * Word
    BY DEF Congruent
<1>3. k + j \in Int /\ x + u = (y + v) + (k + j) * Word
  <2>1. k * Word \in Int /\ j * Word \in Int /\ (k + j) * Word = k * Word + j * Word
      BY WordFacts
  <2> QED
      BY <1>1, <1>2, <2>1
<1> QED
    BY <1>3 DEF Congruent

LEMMA CongruentTimes ==
    ASSUME NEW x \in Int, NEW y \in Int, NEW u \in Int, Congruent(x, y)
    PROVE  Congruent(x * u, y * u)
<1>1. PICK k \in Int : x = y + k * Word
    BY DEF Congruent
<1>2. k * u \in Int /\ x * u = y * u + (k * u) * Word
  <2>1. Word \in Int
      BY WordFacts
  <2>2. k * Word \in Int /\ (y + k * Word) * u = y * u + (k * Word) * u
      BY <2>1
  <2>3. (k * Word) * u = (k * u) * Word
      BY <2>1
  <2> QED
      BY <1>1, <2>2, <2>3
<1> QED
    BY <1>2 DEF Congruent

\* Quotient and remainder.
LEMMA DivMod ==
    ASSUME NEW n \in Int, NEW w \in Nat \ {0}
    PROVE  /\ n \div w \in Int /\ n % w \in 0 .. w - 1
           /\ n = w * (n \div w) + (n % w)
OBVIOUS

LEMMA Division ==
    ASSUME NEW x \in Int
    PROVE  \E q \in Int : \E r \in 0 .. Word - 1 : r = x % Word /\ x = q * Word + r
<1> DEFINE q == x \div Word
           r == x % Word
<1>1. Word \in Nat \ {0}
    BY WordFacts
<1>2. q \in Int /\ r \in 0 .. Word - 1 /\ x = Word * q + r
    BY <1>1, DivMod
<1> HIDE DEF q
<1>3. Word * q = q * Word
    BY <1>1, <1>2
<1>4. r \in 0 .. Word - 1 /\ r = x % Word /\ x = q * Word + r
    BY <1>2, <1>3
<1> HIDE DEF r
<1> QED
    BY <1>2, <1>4

\* A remainder is congruent to the number.
LEMMA CongruentRest ==
    ASSUME NEW x \in Int
    PROVE  x % Word \in Nat /\ Congruent(x % Word, x)
<1>1. PICK q \in Int : \E r \in 0 .. Word - 1 : r = x % Word /\ x = q * Word + r
    BY Division
<1>2. PICK r \in 0 .. Word - 1 : r = x % Word /\ x = q * Word + r
    BY <1>1
<1>3. -q \in Int /\ r = x + (-q) * Word
  <2>1. q * Word \in Int /\ (-q) * Word = -(q * Word)
      BY WordFacts
  <2>2. r \in Int /\ x = q * Word + r
      BY <1>2, WordFacts
  <2> QED
      BY <2>1, <2>2
<1>4. Congruent(r, x)
    BY <1>3 DEF Congruent
<1> QED
    BY <1>2, <1>4, WordFacts

\* A count below Word is the remainder of each number it is congruent to.
LEMMA CongruentUnique ==
    ASSUME NEW x \in 0 .. Word - 1, NEW y \in Int, Congruent(x, y)
    PROVE  x = y % Word
<1>0. PICK q \in Int : \E r \in 0 .. Word - 1 : r = y % Word /\ y = q * Word + r
    BY Division
<1>1. PICK r \in 0 .. Word - 1 : r = y % Word /\ y = q * Word + r
    BY <1>0
<1>2. PICK k \in Int : x = y + k * Word
    BY DEF Congruent
<1>3. q + k \in Int /\ x = r + (q + k) * Word
  <2>1. q * Word \in Int /\ k * Word \in Int /\ (q + k) * Word = q * Word + k * Word
      BY <1>1, WordFacts
  <2> QED
      BY <1>1, <1>2, <2>1
<1>4. q + k = 0
  <2> DEFINE t == q + k
  <2>0. t \in Int
      BY <1>3
  <2> HIDE DEF t
  <2>1. t >= 1 => t * Word >= Word
      BY <2>0, WordFacts
  <2>2. t <= -1 => t * Word <= -Word
      BY <2>0, WordFacts
  <2>3. t * Word \in Int /\ x = r + t * Word
      BY <1>3, <2>0, WordFacts DEF t
  <2>4. ~(t >= 1) /\ ~(t <= -1)
      BY <1>1, <2>1, <2>2, <2>3, WordFacts
  <2>5. t = 0
      BY <2>0, <2>4
  <2> QED
      BY <2>5 DEF t
<1>5. x = r
    BY <1>1, <1>3, <1>4, WordFacts
<1> QED
    BY <1>1, <1>5

-----------------------------------------------------------------------------
(* The product of the stack.                                               *)

\* The products of the first entries.
Products(s, a) == a = [k \in 1 .. Len(s) |-> IF k = 1 THEN 1 ELSE (a[k - 1] * s[k]) % Word]

ProductsTo(s, a, n) ==
    /\ a \in [1 .. Len(s) -> Nat]
    /\ \A k \in 1 .. Len(s) :
         k <= n => a[k] = IF k = 1 THEN 1 ELSE (a[k - 1] * s[k]) % Word
HasProducts(s, n) == \E a : ProductsTo(s, a, n)

\* Each sequence has its products.
LEMMA ProductsExist ==
    ASSUME NEW s \in Seq(Nat)
    PROVE  \E a : Products(s, a) /\ a \in [1 .. Len(s) -> Nat]
<1> DEFINE T == {n \in Nat : HasProducts(s, n)}
<1>0. Len(s) \in Nat /\ \A k \in 1 .. Len(s) : s[k] \in Nat
    OBVIOUS
<1>1. 0 \in T
  <2> DEFINE a == [k \in 1 .. Len(s) |-> 0]
  <2>1. ProductsTo(s, a, 0)
      BY <1>0 DEF ProductsTo
  <2> QED
      BY <2>1 DEF HasProducts
<1>2. ASSUME NEW n \in Nat, n \in T
      PROVE  n + 1 \in T
  <2>1. PICK a : ProductsTo(s, a, n)
      BY <1>2 DEF HasProducts
  <2> DEFINE v == IF n = 0 THEN 1 ELSE (a[n] * s[n + 1]) % Word
             b == [k \in 1 .. Len(s) |-> IF k = n + 1 THEN v ELSE a[k]]
  <2>2. /\ a \in [1 .. Len(s) -> Nat]
        /\ \A k \in 1 .. Len(s) :
             k <= n => a[k] = IF k = 1 THEN 1 ELSE (a[k - 1] * s[k]) % Word
      BY <2>1 DEF ProductsTo
  <2>3. n + 1 \in 1 .. Len(s) => v \in Nat
    <3>1. ASSUME n + 1 \in 1 .. Len(s), n # 0 PROVE (a[n] * s[n + 1]) % Word \in Nat
      <4>1. n \in 1 .. Len(s)
          BY <1>0, <3>1
      <4>2. a[n] \in Nat /\ s[n + 1] \in Nat
          BY <1>0, <2>2, <3>1, <4>1
      <4>3. a[n] * s[n + 1] \in Int
          BY <4>2
      <4> QED
          BY <4>3, CongruentRest
    <3> QED
        BY <3>1
  <2> HIDE DEF v
  <2>4. b \in [1 .. Len(s) -> Nat]
      BY <2>2, <2>3
  <2>5. ASSUME NEW k \in 1 .. Len(s), k <= n + 1
        PROVE  b[k] = IF k = 1 THEN 1 ELSE (b[k - 1] * s[k]) % Word
    <3>1. CASE k = n + 1
      <4>1. b[k] = v
          BY <3>1
      <4>2. CASE n = 0
          BY <3>1, <4>1, <4>2 DEF v
      <4>3. CASE n # 0
        <5>1. k # 1 /\ k - 1 = n /\ n \in 1 .. Len(s) /\ n # n + 1
            BY <1>0, <3>1, <4>3
        <5>2. b[n] = a[n]
            BY <5>1
        <5> HIDE DEF b
        <5>3. v = (a[n] * s[k]) % Word
            BY <3>1, <4>3 DEF v
        <5> QED
            BY <4>1, <5>1, <5>2, <5>3
      <4> QED
          BY <4>2, <4>3
    <3>2. CASE k # n + 1
      <4>1. k \in Nat /\ k <= n
          BY <2>5, <3>2
      <4>2. b[k] = a[k]
          BY <3>2
      <4>3. k # 1 => k - 1 \in 1 .. Len(s) /\ k - 1 # n + 1
          BY <1>0, <4>1
      <4>4. k # 1 => b[k - 1] = a[k - 1]
          BY <4>3
      <4> HIDE DEF b
      <4>5. a[k] = IF k = 1 THEN 1 ELSE (a[k - 1] * s[k]) % Word
          BY <2>2, <4>1
      <4> QED
          BY <4>2, <4>4, <4>5
    <3> QED
        BY <3>1, <3>2
  <2> HIDE DEF b
  <2>6. ProductsTo(s, b, n + 1)
      BY <2>4, <2>5 DEF ProductsTo
  <2> QED
      BY <2>6 DEF HasProducts
<1>3. Nat \subseteq T
  <2> HIDE DEF T
  <2> QED
      BY <1>1, <1>2, SetInduction
<1>4. PICK a : ProductsTo(s, a, Len(s))
    BY <1>0, <1>3 DEF HasProducts
<1>5. /\ a \in [1 .. Len(s) -> Nat]
      /\ \A k \in 1 .. Len(s) : a[k] = IF k = 1 THEN 1 ELSE (a[k - 1] * s[k]) % Word
    BY <1>0, <1>4 DEF ProductsTo
<1>6. Products(s, a)
  <2> DEFINE b == [k \in 1 .. Len(s) |-> IF k = 1 THEN 1 ELSE (a[k - 1] * s[k]) % Word]
  <2>1. a = [k \in 1 .. Len(s) |-> a[k]]
      BY <1>5
  <2>2. \A k \in 1 .. Len(s) : a[k] = b[k]
      BY <1>5
  <2>3. a = b
      BY <2>1, <2>2, Zenon
  <2> QED
      BY <2>3 DEF Products
<1> QED
    BY <1>5, <1>6

\* Of a sequence and a longer one that starts with it, the products agree.
LEMMA ProductsAgree ==
    ASSUME NEW s \in Seq(Nat), NEW t \in Seq(Nat), Len(s) <= Len(t),
           \A k \in 1 .. Len(s) : s[k] = t[k],
           NEW a, Products(s, a), NEW b, Products(t, b)
    PROVE  \A k \in 1 .. Len(s) : a[k] = b[k]
<1> DEFINE T == {n \in Nat : n \in 1 .. Len(s) => a[n] = b[n]}
<1>0. Len(s) \in Nat /\ Len(t) \in Nat
    OBVIOUS
<1>1. /\ \A k \in 1 .. Len(s) : a[k] = IF k = 1 THEN 1 ELSE (a[k - 1] * s[k]) % Word
      /\ \A k \in 1 .. Len(t) : b[k] = IF k = 1 THEN 1 ELSE (b[k - 1] * t[k]) % Word
  <2>1. a = [k \in 1 .. Len(s) |-> IF k = 1 THEN 1 ELSE (a[k - 1] * s[k]) % Word]
      BY DEF Products
  <2>2. b = [k \in 1 .. Len(t) |-> IF k = 1 THEN 1 ELSE (b[k - 1] * t[k]) % Word]
      BY DEF Products
  <2>3. \A k \in 1 .. Len(s) : a[k] = IF k = 1 THEN 1 ELSE (a[k - 1] * s[k]) % Word
      BY <2>1, Zenon
  <2>4. \A k \in 1 .. Len(t) : b[k] = IF k = 1 THEN 1 ELSE (b[k - 1] * t[k]) % Word
      BY <2>2, Zenon
  <2> QED
      BY <2>3, <2>4
<1>2. 0 \in T
    OBVIOUS
<1>3. ASSUME NEW n \in Nat, n \in T
      PROVE  n + 1 \in T
  <2>1. ASSUME n + 1 \in 1 .. Len(s) PROVE a[n + 1] = b[n + 1]
    <3>1. n + 1 \in 1 .. Len(t) /\ s[n + 1] = t[n + 1] /\ (n + 1) - 1 = n
        BY <1>0, <2>1
    <3>2. CASE n = 0
        BY <1>1, <2>1, <3>1, <3>2
    <3>3. CASE n # 0
      <4>1. n \in 1 .. Len(s) /\ n + 1 # 1
          BY <1>0, <2>1, <3>3
      <4>2. a[n] = b[n]
          BY <1>3, <4>1
      <4>3. a[n + 1] = (a[n] * s[n + 1]) % Word /\ b[n + 1] = (b[n] * t[n + 1]) % Word
          BY <1>1, <2>1, <3>1, <4>1
      <4> QED
          BY <3>1, <4>2, <4>3
    <3> QED
        BY <3>2, <3>3
  <2> QED
      BY <2>1
<1>4. Nat \subseteq T
  <2> HIDE DEF T
  <2> QED
      BY <1>2, <1>3, SetInduction
<1> QED
    BY <1>0, <1>4

\* What product() returns.
LEMMA ProductFacts ==
    ASSUME NEW s \in Seq(Nat), Len(s) >= 1
    PROVE  /\ product(s) \in Nat
           /\ Len(s) = 1 => product(s) = 1
           /\ \A x \in Nat : product(Append(s, x)) = (product(s) * x) % Word
<1>1. \A t \in Seq(Nat) : /\ Products(t, CHOOSE a : Products(t, a))
                          /\ product(t) = (CHOOSE a : Products(t, a))[Len(t)]
    BY ProductsExist DEF product, Products
<1> DEFINE A(t) == CHOOSE a : Products(t, a)
<1>2. PICK b : Products(s, b) /\ b \in [1 .. Len(s) -> Nat]
    BY ProductsExist
<1>3. Len(s) \in Nat /\ Len(s) \in 1 .. Len(s)
    OBVIOUS
<1>4. Products(s, A(s)) /\ product(s) = A(s)[Len(s)]
    BY <1>1
<1>5. \A t \in Seq(Nat) : Products(t, A(t)) /\ product(t) = A(t)[Len(t)]
    BY <1>1
<1> HIDE DEF A
<1>6. \A k \in 1 .. Len(s) : A(s)[k] = b[k]
    BY <1>2, <1>3, <1>4, ProductsAgree
<1>7. product(s) \in Nat
    BY <1>2, <1>3, <1>4, <1>6
<1>8. ASSUME Len(s) = 1 PROVE product(s) = 1
  <2>1. A(s)[1] = 1
    <3>1. A(s) = [k \in 1 .. Len(s) |-> IF k = 1 THEN 1 ELSE (A(s)[k - 1] * s[k]) % Word]
        BY <1>4 DEF Products
    <3>2. \A k \in 1 .. Len(s) : A(s)[k] = IF k = 1 THEN 1 ELSE (A(s)[k - 1] * s[k]) % Word
        BY <3>1, Zenon
    <3> QED
        BY <1>8, <1>3, <3>2
  <2> QED
      BY <1>4, <1>8, <2>1
<1>9. ASSUME NEW x \in Nat PROVE product(Append(s, x)) = (product(s) * x) % Word
  <2> DEFINE t == Append(s, x)
             n == Len(s)
  <2>1. /\ t \in Seq(Nat) /\ Len(t) = n + 1 /\ t[n + 1] = x
        /\ \A k \in 1 .. n : s[k] = t[k]
      OBVIOUS
  <2>2. Products(t, A(t)) /\ product(t) = A(t)[n + 1]
      BY <1>5, <2>1
  <2> HIDE DEF t
  <2>3. n <= Len(t)
      BY <1>3, <2>1
  <2>4. \A k \in 1 .. n : A(s)[k] = A(t)[k]
      BY <1>4, <2>1, <2>2, <2>3, ProductsAgree
  <2>5. A(t) = [k \in 1 .. Len(t) |-> IF k = 1 THEN 1 ELSE (A(t)[k - 1] * t[k]) % Word]
      BY <2>2 DEF Products
  <2>6. \A k \in 1 .. Len(t) : A(t)[k] = IF k = 1 THEN 1 ELSE (A(t)[k - 1] * t[k]) % Word
      BY <2>5, Zenon
  <2>7. n + 1 \in 1 .. Len(t) /\ n + 1 # 1 /\ (n + 1) - 1 = n
      BY <1>3, <2>1
  <2>8. A(t)[n + 1] = (A(t)[n] * x) % Word
      BY <2>1, <2>6, <2>7
  <2>9. A(t)[n] = product(s)
      BY <1>3, <1>4, <2>4
  <2> QED
      BY <2>2, <2>8, <2>9 DEF t
<1> QED
    BY <1>7, <1>8, <1>9

-----------------------------------------------------------------------------
(* The calls of the program.                                               *)

Calls ==
    [size |-> Len(program), mods |-> DOMAIN program, sites |-> CallSites,
     weight |-> [s \in CallSites |-> Rounds(s)],
     caller |-> [s \in CallSites |-> s[1]],
     callee |-> [s \in CallSites |-> At(s).callee],
     key |-> [s \in CallSites |-> Key(At(s))]]

\* The fields one by one.
LEMMA CallFields ==
    /\ Calls.size = Len(program) /\ Calls.mods = DOMAIN program /\ Calls.sites = CallSites
    /\ Calls.weight = [s \in CallSites |-> Rounds(s)]
    /\ Calls.caller = [s \in CallSites |-> s[1]]
    /\ Calls.callee = [s \in CallSites |-> At(s).callee]
    /\ Calls.key = [s \in CallSites |-> Key(At(s))]
BY DEF Calls

\* A call site is a place of the program where a call is.
LEMMA SiteFacts ==
    ASSUME program \in Programs
    PROVE  /\ \A m \in DOMAIN program : \A i :
                <<m, i>> \in CallSites <=> /\ i \in DOMAIN program[m].body
                                           /\ program[m].body[i].kind = "call"
           /\ \A s \in CallSites :
                /\ s[1] \in DOMAIN program /\ s[2] \in DOMAIN program[s[1]].body
                /\ s = <<s[1], s[2]>> /\ At(s).kind = "call"
                /\ At(s) = program[s[1]].body[s[2]]
<1>1. ASSUME NEW m \in DOMAIN program, NEW i
      PROVE  <<m, i>> \in CallSites <=> /\ i \in DOMAIN program[m].body
                                        /\ program[m].body[i].kind = "call"
    BY DEF CallSites
<1>2. ASSUME NEW s \in CallSites
      PROVE  /\ s[1] \in DOMAIN program /\ s[2] \in DOMAIN program[s[1]].body
             /\ s = <<s[1], s[2]>> /\ At(s).kind = "call"
             /\ At(s) = program[s[1]].body[s[2]]
  <2>1. PICK m \in DOMAIN program :
          \E i \in DOMAIN program[m].body :
             program[m].body[i].kind = "call" /\ s = <<m, i>>
      BY DEF CallSites
  <2>2. PICK i \in DOMAIN program[m].body : program[m].body[i].kind = "call" /\ s = <<m, i>>
      BY <2>1
  <2>3. s[1] = m /\ s[2] = i
      BY <2>2
  <2> QED
      BY <2>2, <2>3 DEF At
<1> QED
    BY <1>1, <1>2

\* What the assumption says of a call.
LEMMA SiteItem ==
    ASSUME program \in Programs, NEW s \in CallSites
    PROVE  /\ At(s).callee \in DOMAIN program /\ s[1] < At(s).callee
           /\ At(s).ints \in Seq(Int) /\ At(s).doubles \in Seq(Int \X Int)
           /\ Rounds(s) \in Nat
<1> DEFINE m == s[1]
           i == s[2]
<1>1. /\ m \in DOMAIN program /\ i \in DOMAIN program[m].body
      /\ s = <<m, i>> /\ At(s).kind = "call"
      /\ At(s) = program[m].body[i]
    BY SiteFacts
<1> HIDE DEF m, i
<1>2. /\ program[m].body[i].callee \in {d \in DOMAIN program : m < d}
      /\ program[m].body[i].ints \in Seq(Int)
      /\ program[m].body[i].doubles \in Seq(Int \X Int)
    BY <1>1, ProgramsAssumption DEF WellFormed
<1>3. Rounds(<<m, i>>) \in Nat
    BY <1>1, RepeatIsRounds
<1> QED
    BY <1>1, <1>2, <1>3 DEF m

\* A program is a list of modules, and their bodies are lists.
LEMMA ProgramModules ==
    ASSUME program \in Programs
    PROVE  /\ Len(program) \in Nat \ {0} /\ DOMAIN program = 1 .. Len(program)
           /\ \A m \in DOMAIN program : /\ DOMAIN program[m].body = 1 .. Len(program[m].body)
                                        /\ Len(program[m].body) \in Nat
BY ProgramsAssumption DEF WellFormed

\* A program has finitely many calls.
LEMMA SitesFinite ==
    ASSUME program \in Programs
    PROVE  IsFiniteSet(CallSites)
<1> DEFINE T == {n \in Nat : IsFiniteSet({s \in CallSites : s[1] <= n})}
           Under(n) == {s \in CallSites : s[1] <= n}
           In(n) == {s \in CallSites : s[1] = n}
<1>1. /\ Len(program) \in Nat /\ DOMAIN program = 1 .. Len(program)
      /\ \A m \in DOMAIN program : /\ DOMAIN program[m].body = 1 .. Len(program[m].body)
                                   /\ Len(program[m].body) \in Nat
    BY ProgramModules
<1>2. \A s \in CallSites : s[1] \in 1 .. Len(program)
    BY <1>1, SiteFacts
<1>3. 0 \in T
  <2>1. Under(0) = {}
      BY <1>2
  <2> QED
      BY <2>1, FS_EmptySet
<1>4. ASSUME NEW n \in Nat, n \in T
      PROVE  n + 1 \in T
  <2>1. IsFiniteSet(Under(n))
      BY <1>4
  <2>2. IsFiniteSet(In(n + 1))
    <3>1. CASE n + 1 \in DOMAIN program
      <4> DEFINE B == program[n + 1].body
      <4>1. Len(B) \in Nat /\ DOMAIN B = 1 .. Len(B)
          BY <1>1, <3>1
      <4>2. IsFiniteSet({n + 1} \X (1 .. Len(B)))
        <5>1. IsFiniteSet(1 .. Len(B))
            BY <4>1, FS_Interval
        <5>2. IsFiniteSet({n + 1})
            BY FS_Singleton, Zenon
        <5> HIDE DEF B
        <5> QED
            BY <5>1, <5>2, FS_Product, Zenon
      <4>3. ASSUME NEW s \in In(n + 1) PROVE s \in {n + 1} \X (1 .. Len(B))
        <5>1. s \in CallSites /\ s[1] = n + 1
            OBVIOUS
        <5>2. s = <<s[1], s[2]>> /\ s[2] \in DOMAIN B
            BY <5>1, SiteFacts
        <5> QED
            BY <4>1, <5>1, <5>2
      <4>4. In(n + 1) \in SUBSET ({n + 1} \X (1 .. Len(B)))
          BY <4>3
      <4> QED
          BY <4>2, <4>4, FS_Subset
    <3>2. CASE n + 1 \notin DOMAIN program
      <4>1. In(n + 1) = {}
          BY <1>1, <1>2, <3>2
      <4> QED
          BY <4>1, FS_EmptySet
    <3> QED
        BY <3>1, <3>2
  <2>3. Under(n + 1) = Under(n) \cup In(n + 1)
    <3>1. \A s \in CallSites : s[1] <= n + 1 <=> (s[1] <= n \/ s[1] = n + 1)
        BY <1>2
    <3> QED
        BY <3>1
  <2>4. IsFiniteSet(Under(n + 1))
    <3> DEFINE U == Under(n)
               I == In(n + 1)
    <3>1. IsFiniteSet(U) /\ IsFiniteSet(I)
        BY <2>1, <2>2
    <3> HIDE DEF U, I
    <3>2. IsFiniteSet(U \cup I)
        BY <3>1, FS_Union
    <3> QED
        BY <2>3, <3>2 DEF U, I
  <2> QED
      BY <2>4
<1>5. Nat \subseteq T
  <2> HIDE DEF T
  <2> QED
      BY <1>3, <1>4, SetInduction
<1>6. Under(Len(program)) = CallSites
    BY <1>1, <1>2
<1>7. IsFiniteSet(Under(Len(program)))
    BY <1>1, <1>5
<1> QED
    BY <1>6, <1>7

\* Calls lead from earlier modules to later ones.
LEMMA CallsAreGraph ==
    ASSUME program \in Programs
    PROVE  CallGraph(Calls)
<1> DEFINE c == Calls
<1>1. /\ c.size = Len(program) /\ c.mods = DOMAIN program /\ c.sites = CallSites
      /\ c.weight = [s \in CallSites |-> Rounds(s)]
      /\ c.caller = [s \in CallSites |-> s[1]]
      /\ c.callee = [s \in CallSites |-> At(s).callee]
    BY CallFields
<1>2. /\ \A s \in CallSites : /\ s[1] \in DOMAIN program /\ Rounds(s) \in Nat
                              /\ At(s).callee \in DOMAIN program /\ s[1] < At(s).callee
    BY SiteFacts, SiteItem
<1>3. IsFiniteSet(CallSites)
    BY SitesFinite
<1>4. Len(program) \in Nat \ {0} /\ DOMAIN program = 1 .. Len(program)
    BY ProgramModules
<1> HIDE DEF c
<1>5. CallGraph(c)
    BY <1>1, <1>2, <1>3, <1>4 DEF CallGraph
<1> QED
    BY <1>5 DEF c

\* The calls depend on the program alone.
LEMMA SameCalls ==
    ASSUME program' = program
    PROVE  Calls' = Calls /\ AllQuantum' = AllQuantum /\ CallSites' = CallSites
<1>1. CallSites' = CallSites
    BY DEF CallSites
<1>2. \A s : At(s)' = At(s) /\ Rounds(s)' = Rounds(s)
    BY DEF At, Rounds
<1>3. /\ [s \in CallSites |-> Rounds(s)]' = [s \in CallSites |-> Rounds(s)]
      /\ [s \in CallSites |-> At(s).callee]' = [s \in CallSites |-> At(s).callee]
      /\ [s \in CallSites |-> Key(At(s))]' = [s \in CallSites |-> Key(At(s))]
      /\ [s \in CallSites |-> s[1]]' = [s \in CallSites |-> s[1]]
    BY <1>1, <1>2
<1>4. Calls' = Calls
    BY <1>1, <1>3 DEF Calls
<1>5. AllQuantum' = AllQuantum
    BY DEF AllQuantum
<1> QED
    BY <1>1, <1>4, <1>5

-----------------------------------------------------------------------------
(* What is still due in an activation.                                     *)

CallsFrom(c, m, i) == {s \in c.sites : c.caller[s] = m /\ s[2] >= i}
Due(c, K, m, i) == Sum(Cost(c, K), CallsFrom(c, m, i))

\* All is due at the start of a module, nothing at its end, and each call on
\* the way takes off what it costs.
LEMMA DueFacts ==
    ASSUME program \in Programs, NEW K, NEW m \in DOMAIN program, NEW i \in Nat \ {0}
    PROVE  /\ Due(Calls, K, m, i) \in Nat
           /\ Due(Calls, K, m, 1) = Needed(Calls, K)[m]
           /\ i > Len(program[m].body) => Due(Calls, K, m, i) = 0
           /\ <<m, i>> \in CallSites =>
                /\ Cost(Calls, K)[<<m, i>>] \in Nat
                /\ Due(Calls, K, m, i) = Cost(Calls, K)[<<m, i>>] + Due(Calls, K, m, i + 1)
           /\ <<m, i>> \notin CallSites => Due(Calls, K, m, i) = Due(Calls, K, m, i + 1)
<1> DEFINE c == Calls
<1>1. CallGraph(c) /\ c.sites = CallSites /\ c.mods = DOMAIN program
      /\ c.caller = [s \in CallSites |-> s[1]]
    BY CallsAreGraph, CallFields
<1>2. /\ \A s \in CallSites : /\ s = <<s[1], s[2]>> /\ c.caller[s] = s[1]
                              /\ s[2] \in 1 .. Len(program[s[1]].body)
                              /\ Len(program[s[1]].body) \in Nat
  <2>1. \A s \in CallSites : /\ s[1] \in DOMAIN program /\ s[2] \in DOMAIN program[s[1]].body
                             /\ s = <<s[1], s[2]>>
      BY SiteFacts
  <2> QED
      BY <1>1, <2>1, ProgramModules
<1> HIDE DEF c
<1>3. /\ IsFiniteSet(c.sites)
      /\ \A s \in c.sites : Cost(c, K)[s] \in Nat
      /\ Needed(c, K)[m] = Sum(Cost(c, K), CallsOf(c, m))
  <2>1. IsFiniteSet(c.sites) /\ m \in c.mods
      BY <1>1 DEF CallGraph
  <2>2. /\ \A s \in c.sites : Cost(c, K)[s] \in Nat
        /\ \A k \in c.mods : Needed(c, K)[k] = Sum(Cost(c, K), CallsOf(c, k))
      BY <1>1, NeededIsCost
  <2> QED
      BY <2>1, <2>2
<1>4. \A j : CallsFrom(c, m, j) \in SUBSET c.sites
    BY DEF CallsFrom
<1>5. Due(c, K, m, i) \in Nat
    BY <1>3, <1>4, SumFacts DEF Due
<1>6. CallsFrom(c, m, 1) = CallsOf(c, m)
    BY <1>1, <1>2 DEF CallsFrom, CallsOf
<1>7. ASSUME i > Len(program[m].body) PROVE Due(c, K, m, i) = 0
  <2>1. CallsFrom(c, m, i) = {}
    <3>1. ASSUME NEW s \in CallSites, s[1] = m PROVE ~(s[2] >= i)
        BY <1>2, <1>7, <3>1
    <3> QED
        BY <1>1, <1>2, <3>1 DEF CallsFrom
  <2> QED
      BY <1>3, <1>4, <2>1, SumFacts DEF Due
<1>8. ASSUME <<m, i>> \in CallSites
      PROVE  Due(c, K, m, i) = Cost(c, K)[<<m, i>>] + Due(c, K, m, i + 1)
  <2>1. <<m, i>> \in CallsFrom(c, m, i)
      BY <1>1, <1>8 DEF CallsFrom
  <2>2. CallsFrom(c, m, i) \ {<<m, i>>} = CallsFrom(c, m, i + 1)
    <3>1. ASSUME NEW s \in CallSites, s[1] = m
          PROVE  s[2] >= i + 1 <=> (s[2] >= i /\ s # <<m, i>>)
      <4>1. s = <<m, s[2]>> /\ s[2] \in Nat
          BY <1>2, <3>1
      <4>2. s # <<m, i>> <=> s[2] # i
          BY <4>1
      <4> QED
          BY <4>1, <4>2
    <3> QED
        BY <1>1, <1>2, <3>1 DEF CallsFrom
  <2>3. Sum(Cost(c, K), CallsFrom(c, m, i))
          = Cost(c, K)[<<m, i>>] + Sum(Cost(c, K), CallsFrom(c, m, i) \ {<<m, i>>})
      BY <1>3, <1>4, <2>1, SumFacts
  <2> QED
      BY <2>2, <2>3 DEF Due
<1>9. ASSUME <<m, i>> \notin CallSites
      PROVE  Due(c, K, m, i) = Due(c, K, m, i + 1)
  <2>1. CallsFrom(c, m, i) = CallsFrom(c, m, i + 1)
    <3>1. ASSUME NEW s \in CallSites, s[1] = m
          PROVE  s[2] >= i + 1 <=> s[2] >= i
      <4>1. s = <<m, s[2]>> /\ s[2] \in Nat
          BY <1>2, <3>1
      <4>2. s[2] # i
          BY <1>9, <4>1
      <4> QED
          BY <4>1, <4>2
    <3> QED
        BY <1>1, <1>2, <3>1 DEF CallsFrom
  <2> QED
      BY <2>1 DEF Due
<1>10. Due(c, K, m, 1) = Needed(c, K)[m]
    BY <1>3, <1>6 DEF Due
<1>11. <<m, i>> \in CallSites => Cost(c, K)[<<m, i>>] \in Nat
    BY <1>1, <1>3
<1> QED
    BY <1>5, <1>7, <1>8, <1>9, <1>10, <1>11 DEF c

-----------------------------------------------------------------------------
(* The ledger: what has been counted under a key and what the activations  *)
(* have still to count, each as often as its own entries say, is what main *)
(* needs in all.                                                           *)

\* How often the k-th activation runs: all its entries multiplied.
Factor(ct, k) == product(SubSeq(ct, 1, k))

Shares(c, K, fr, ct) ==
    [k \in 1 .. Len(fr) |-> Factor(ct, k) * Due(c, K, fr[k].mod, fr[k].at)]

CountIn(me, K) == IF K \in DOMAIN me THEN me[K] ELSE 0

Balanced(c, K, fr, ct, me) ==
    Congruent(CountIn(me, K) + Sum(Shares(c, K, fr, ct), 1 .. Len(fr)), Needed(c, K)[1])

\* With all modules quantum, each activation but main's has its entry.
AllTracked ==
    /\ \A k \in 2 .. Len(frames) : frames[k].tracked
    /\ Len(contents) = Len(frames)
    /\ \A K \in DOMAIN memos : memos[K] \in 0 .. Word - 1
    /\ status = "over" => Len(frames) = 1 /\ ~Left(Current)

Ledgers == \A K : K # mainKey => Balanced(Calls, K, frames, contents, memos)

CountInv == AllQuantum => AllTracked /\ (status # "full" => Ledgers)

\* The sum over the activations, and the last of them.
LEMMA LastShare ==
    ASSUME NEW n \in Nat \ {0}, NEW a, \A k \in 1 .. n : a[k] \in Nat
    PROVE  /\ Sum(a, 1 .. n) = a[n] + Sum(a, 1 .. n - 1)
           /\ Sum(a, 1 .. n) \in Nat /\ Sum(a, 1 .. n - 1) \in Nat /\ a[n] \in Nat
           /\ IsFiniteSet(1 .. n) /\ IsFiniteSet(1 .. n - 1)
<1>1. /\ \A Q, x : (IsFiniteSet(Q) /\ x \in Q /\ \A k \in Q : a[k] \in Nat) =>
                     /\ Sum(a, Q) = a[x] + Sum(a, Q \ {x})
                     /\ Sum(a, Q) \in Nat
      /\ \A Q : (IsFiniteSet(Q) /\ \A k \in Q : a[k] \in Nat) => Sum(a, Q) \in Nat
  <2>1. ASSUME NEW Q, IsFiniteSet(Q), \A k \in Q : a[k] \in Nat
        PROVE  Sum(a, Q) \in Nat /\ \A x \in Q : Sum(a, Q) = a[x] + Sum(a, Q \ {x})
    <3>1. Q \in SUBSET Q
        OBVIOUS
    <3> QED
        BY <2>1, <3>1, SumFacts
  <2> QED
      BY <2>1
<1>2. IsFiniteSet(1 .. n) /\ IsFiniteSet(1 .. n - 1)
    BY FS_Interval
<1>3. n \in 1 .. n /\ (1 .. n) \ {n} = 1 .. n - 1 /\ \A k \in 1 .. n - 1 : a[k] \in Nat
    OBVIOUS
<1>4. Sum(a, 1 .. n) = a[n] + Sum(a, (1 .. n) \ {n}) /\ Sum(a, 1 .. n) \in Nat
    BY <1>1, <1>2, <1>3
<1>5. Sum(a, 1 .. n - 1) \in Nat
    BY <1>1, <1>2, <1>3
<1> QED
    BY <1>2, <1>3, <1>4, <1>5

\* The product of the first entries.
LEMMA FactorFacts ==
    ASSUME NEW ct \in Seq(Nat), NEW k \in 1 .. Len(ct)
    PROVE  /\ SubSeq(ct, 1, k) \in Seq(Nat) /\ Len(SubSeq(ct, 1, k)) = k
           /\ Factor(ct, k) \in Nat
           /\ k = 1 => Factor(ct, k) = 1
           /\ k = Len(ct) => Factor(ct, k) = product(ct)
<1>1. k \in Nat /\ k >= 1 /\ Len(ct) \in Nat
    OBVIOUS
<1>2. SubSeq(ct, 1, k) \in Seq(Nat) /\ Len(SubSeq(ct, 1, k)) = k
    OBVIOUS
<1>3. Factor(ct, k) \in Nat /\ (k = 1 => Factor(ct, k) = 1)
    BY <1>1, <1>2, ProductFacts DEF Factor
<1>4. k = Len(ct) => SubSeq(ct, 1, k) = ct
    OBVIOUS
<1> QED
    BY <1>2, <1>3, <1>4 DEF Factor

\* The share of an activation, and its type.
LEMMA ShareIs ==
    ASSUME NEW c, NEW K, NEW fr, NEW ct, NEW k \in 1 .. Len(fr)
    PROVE  Shares(c, K, fr, ct)[k] = Factor(ct, k) * Due(c, K, fr[k].mod, fr[k].at)
BY DEF Shares

LEMMA ShareFacts ==
    ASSUME program \in Programs, NEW K, NEW fr \in Seq(Activation), NEW ct \in Seq(Nat),
           Len(ct) >= Len(fr), NEW k \in 1 .. Len(fr)
    PROVE  /\ fr[k].mod \in DOMAIN program /\ fr[k].at \in Nat \ {0}
           /\ Factor(ct, k) \in Nat /\ Due(Calls, K, fr[k].mod, fr[k].at) \in Nat
           /\ Shares(Calls, K, fr, ct)[k] = Factor(ct, k) * Due(Calls, K, fr[k].mod, fr[k].at)
           /\ Shares(Calls, K, fr, ct)[k] \in Nat
<1>1. fr[k].mod \in DOMAIN program /\ fr[k].at \in Nat \ {0}
  <2>1. fr[k] \in Activation
      OBVIOUS
  <2> QED
      BY <2>1 DEF Activation
<1>2. Due(Calls, K, fr[k].mod, fr[k].at) \in Nat
    BY <1>1, DueFacts
<1>3. k \in 1 .. Len(ct)
    OBVIOUS
<1>4. Factor(ct, k) \in Nat
    BY <1>3, FactorFacts
<1>5. Shares(Calls, K, fr, ct)[k] = Factor(ct, k) * Due(Calls, K, fr[k].mod, fr[k].at)
    BY ShareIs
<1> QED
    BY <1>1, <1>2, <1>4, <1>5, MulNat

\* The last activation after a step over its item.
LEMMA AdvancedFacts ==
    ASSUME StackType
    PROVE  /\ Advanced \in Seq(Activation) /\ Len(Advanced) = Len(frames)
           /\ \A k \in 1 .. Len(frames) - 1 : Advanced[k] = frames[k]
           /\ Advanced[Len(frames)] \in Activation
           /\ Advanced[Len(frames)].mod = Current.mod
           /\ Advanced[Len(frames)].at = Current.at + 1
           /\ Advanced[Len(frames)].tracked = Current.tracked
<1> DEFINE n == Len(frames)
           new == [Current EXCEPT !.at = @ + 1]
<1>1. n \in Nat \ {0} /\ frames \in Seq(Activation) /\ Current \in Activation
    BY CurrentFacts DEF StackType
<1>2. Advanced = [frames EXCEPT ![n] = new]
    BY <1>1 DEF Advanced, Current
<1>3. new \in Activation /\ new.mod = Current.mod /\ new.at = Current.at + 1
      /\ new.tracked = Current.tracked
    BY <1>1 DEF Activation
<1> HIDE DEF new
<1>4. /\ Advanced \in Seq(Activation) /\ Len(Advanced) = n
      /\ \A k \in 1 .. n - 1 : Advanced[k] = frames[k]
      /\ Advanced[n] = new
    BY <1>1, <1>2, <1>3
<1> QED
    BY <1>3, <1>4

\* A marker makes no call.
LEMMA MarkerBalances ==
    ASSUME StackType, AllTracked, Left(Current), Item(Current).kind # "call",
           NEW K, Balanced(Calls, K, frames, contents, memos)
    PROVE  Balanced(Calls, K, Advanced, contents, memos)
<1> DEFINE n == Len(frames)
           a == Shares(Calls, K, frames, contents)
           b == Shares(Calls, K, Advanced, contents)
<1>1. /\ program \in Programs /\ n \in Nat \ {0} /\ frames \in Seq(Activation)
      /\ contents \in Seq(Nat) /\ Len(contents) = n
      /\ Advanced \in Seq(Activation) /\ Len(Advanced) = n /\ Current = frames[n]
    BY CurrentFacts, AdvancedFacts DEF StackType, AllTracked, Current
<1>2. ASSUME NEW k \in 1 .. n PROVE a[k] \in Nat /\ b[k] = a[k]
  <2>1. /\ frames[k].mod \in DOMAIN program /\ frames[k].at \in Nat \ {0}
        /\ a[k] = Factor(contents, k) * Due(Calls, K, frames[k].mod, frames[k].at)
        /\ a[k] \in Nat
      BY <1>1, ShareFacts
  <2>2. b[k] = Factor(contents, k) * Due(Calls, K, Advanced[k].mod, Advanced[k].at)
    <3>1. k \in 1 .. Len(Advanced)
        BY <1>1
    <3> QED
        BY <3>1, ShareIs
  <2>3. Due(Calls, K, Advanced[k].mod, Advanced[k].at)
          = Due(Calls, K, frames[k].mod, frames[k].at)
    <3>1. CASE k = n
      <4>1. <<Current.mod, Current.at>> \notin CallSites
          BY <1>1, <2>1, <3>1, SiteFacts DEF Item
      <4>2. Advanced[k].mod = frames[k].mod /\ Advanced[k].at = frames[k].at + 1
          BY <1>1, <3>1, AdvancedFacts
      <4>3. Due(Calls, K, Current.mod, Current.at) = Due(Calls, K, Current.mod, Current.at + 1)
          BY <1>1, <2>1, <3>1, <4>1, DueFacts
      <4> QED
          BY <1>1, <3>1, <4>2, <4>3
    <3>2. CASE k # n
      <4>1. k \in 1 .. n - 1
          BY <1>1, <3>2
      <4>2. Advanced[k] = frames[k]
          BY <4>1, AdvancedFacts
      <4> QED
          BY <4>2
    <3> QED
        BY <3>1, <3>2
  <2> QED
      BY <2>1, <2>2, <2>3
<1> HIDE DEF a, b
<1>3. Sum(b, 1 .. n) = Sum(a, 1 .. n)
  <2>1. IsFiniteSet(1 .. n)
      BY <1>1, FS_Interval
  <2> QED
      BY <1>2, <2>1, SumSame
<1> QED
    BY <1>1, <1>3 DEF Balanced, a, b

\* Two stacks that agree on their first levels have the same counts there.
LEMMA SamePrefix ==
    ASSUME NEW s, NEW t, s \in Seq(Nat), t \in Seq(Nat), NEW k \in Nat,
           k <= Len(s), k <= Len(t), \A i \in 1 .. k : s[i] = t[i]
    PROVE  SubSeq(s, 1, k) = SubSeq(t, 1, k)
<1>1. /\ SubSeq(s, 1, k) \in Seq(Nat) /\ Len(SubSeq(s, 1, k)) = k
      /\ \A i \in 1 .. k : SubSeq(s, 1, k)[i] = s[i]
    OBVIOUS
<1>2. /\ SubSeq(t, 1, k) \in Seq(Nat) /\ Len(SubSeq(t, 1, k)) = k
      /\ \A i \in 1 .. k : SubSeq(t, 1, k)[i] = t[i]
    OBVIOUS
<1> QED
    BY <1>1, <1>2

\* A module that ends owes nothing more.
LEMMA ReturnBalances ==
    ASSUME StackType, AllTracked, ~Left(Current), Len(frames) > 1,
           NEW K, Balanced(Calls, K, frames, contents, memos)
    PROVE  Balanced(Calls, K, SubSeq(frames, 1, Len(frames) - 1),
                    SubSeq(contents, 1, Len(contents) - 1), memos)
<1> DEFINE n == Len(frames)
           fr == SubSeq(frames, 1, Len(frames) - 1)
           ct == SubSeq(contents, 1, Len(contents) - 1)
           a == Shares(Calls, K, frames, contents)
           b == Shares(Calls, K, fr, ct)
<1>1. /\ program \in Programs /\ n \in Nat \ {0} /\ frames \in Seq(Activation) /\ n > 1
      /\ contents \in Seq(Nat) /\ Len(contents) = n /\ Current = frames[n]
    BY CurrentFacts DEF StackType, AllTracked, Current
<1>2. /\ fr \in Seq(Activation) /\ Len(fr) = n - 1
      /\ \A k \in 1 .. n - 1 : fr[k] = frames[k]
    BY <1>1
<1>3. /\ ct \in Seq(Nat) /\ Len(ct) = n - 1
      /\ \A k \in 1 .. n - 1 : ct[k] = contents[k]
    BY <1>1
<1> HIDE DEF fr, ct
<1>4. \A k \in 1 .. n : a[k] \in Nat
    BY <1>1, ShareFacts
<1>5. a[n] = 0
  <2>0. n \in 1 .. Len(frames) /\ Len(contents) >= Len(frames)
      BY <1>1
  <2>1. /\ frames[n].mod \in DOMAIN program /\ frames[n].at \in Nat \ {0}
        /\ Factor(contents, n) \in Nat
        /\ a[n] = Factor(contents, n) * Due(Calls, K, frames[n].mod, frames[n].at)
      BY <1>1, <2>0, ShareFacts
  <2>2. frames[n].at > Len(program[frames[n].mod].body)
    <3>1. Len(program[frames[n].mod].body) \in Nat
        BY <1>1, <2>1, ProgramModules
    <3> QED
        BY <1>1, <2>1, <3>1 DEF Left
  <2>3. Due(Calls, K, frames[n].mod, frames[n].at) = 0
      BY <1>1, <2>1, <2>2, DueFacts
  <2> QED
      BY <2>1, <2>3, Distribute
<1>6. ASSUME NEW k \in 1 .. n - 1 PROVE a[k] \in Nat /\ b[k] = a[k]
  <2>0. k \in 1 .. n
      BY <1>1
  <2>1. a[k] = Factor(contents, k) * Due(Calls, K, frames[k].mod, frames[k].at)
      BY <2>0, ShareIs
  <2>2. b[k] = Factor(ct, k) * Due(Calls, K, fr[k].mod, fr[k].at)
    <3>1. k \in 1 .. Len(fr)
        BY <1>2
    <3> QED
        BY <3>1, ShareIs
  <2>3. SubSeq(ct, 1, k) = SubSeq(contents, 1, k)
    <3>1. /\ k \in Nat /\ k <= Len(ct) /\ k <= Len(contents)
          /\ \A i \in 1 .. k : ct[i] = contents[i]
        BY <1>1, <1>3
    <3> QED
        BY <1>1, <1>3, <3>1, SamePrefix
  <2>4. a[k] \in Nat
      BY <1>4, <2>0
  <2>5. Factor(ct, k) = Factor(contents, k)
      BY <2>3 DEF Factor
  <2>6. fr[k].mod = frames[k].mod /\ fr[k].at = frames[k].at
      BY <1>2
  <2>7. b[k] = Factor(contents, k) * Due(Calls, K, frames[k].mod, frames[k].at)
      BY <2>2, <2>5, <2>6
  <2>8. b[k] = a[k]
    <3> HIDE DEF a, b
    <3> QED
        BY <2>1, <2>7
  <2> QED
      BY <2>4, <2>8
<1> HIDE DEF a, b
<1>7. Sum(a, 1 .. n) = a[n] + Sum(a, 1 .. n - 1) /\ Sum(a, 1 .. n - 1) \in Nat
      /\ IsFiniteSet(1 .. n - 1)
    BY <1>1, <1>4, LastShare
<1>8. Sum(b, 1 .. n - 1) = Sum(a, 1 .. n - 1)
    BY <1>6, <1>7, SumSame
<1>9. Sum(b, 1 .. n - 1) = Sum(a, 1 .. n)
    BY <1>5, <1>7, <1>8
<1> QED
    BY <1>2, <1>9 DEF Balanced, a, b, fr, ct

\* An entry of the hash table grows by the rounds and the stack's product; the
\* others stay.
LEMMA MemoStep ==
    ASSUME NEW key, NEW r \in Nat, NEW m \in Nat, m = product(contents),
           \A K \in DOMAIN memos : memos[K] \in 0 .. Word - 1, NEW K
    PROVE  /\ \A L \in DOMAIN memoized(key, r) : memoized(key, r)[L] \in 0 .. Word - 1
           /\ K # key => CountIn(memoized(key, r), K) = CountIn(memos, K)
           /\ K = key => Congruent(CountIn(memoized(key, r), K), CountIn(memos, K) + r * m)
           /\ CountIn(memos, K) \in Nat /\ CountIn(memoized(key, r), K) \in Nat
<1> DEFINE d == (r * m) % Word
           me == memoized(key, r)
<1>1. r * m \in Int /\ d \in Nat /\ Congruent(d, r * m) /\ d \in 0 .. Word - 1
  <2>1. r * m \in Int
      OBVIOUS
  <2>2. d \in Nat /\ Congruent(d, r * m)
      BY <2>1, CongruentRest
  <2>3. \E q \in Int : \E t \in 0 .. Word - 1 : t = (r * m) % Word /\ r * m = q * Word + t
      BY <2>1, Division
  <2> QED
      BY <2>1, <2>2, <2>3
<1>2. /\ DOMAIN me = DOMAIN memos \cup {key}
      /\ \A k \in DOMAIN memos \cup {key} :
           me[k] = IF k # key THEN memos[k]
                   ELSE IF key \in DOMAIN memos THEN (memos[key] + d) % Word ELSE d
    BY DEF memoized
<1> HIDE DEF d, me
<1>3. ASSUME key \in DOMAIN memos
      PROVE  /\ (memos[key] + d) % Word \in 0 .. Word - 1
             /\ Congruent((memos[key] + d) % Word, memos[key] + r * m)
  <2>1. memos[key] \in Nat /\ memos[key] + d \in Int
      BY <1>1, <1>3, WordFacts
  <2>2. \E q \in Int : \E t \in 0 .. Word - 1 :
           t = (memos[key] + d) % Word /\ memos[key] + d = q * Word + t
      BY <2>1, Division
  <2>3. Congruent((memos[key] + d) % Word, memos[key] + d)
      BY <2>1, CongruentRest
  <2>4. Congruent(memos[key], memos[key])
      BY <2>1, CongruentSame
  <2>5. Congruent(memos[key] + d, memos[key] + r * m)
    <3> DEFINE u == memos[key]
               v == r * m
    <3>1. u \in Int /\ d \in Int /\ v \in Int /\ Congruent(u, u) /\ Congruent(d, v)
        BY <1>1, <2>1, <2>4
    <3> HIDE DEF u, v
    <3>2. Congruent(u + d, u + v)
        BY <3>1, CongruentPlus
    <3> QED
        BY <3>2 DEF u, v
  <2>6. (memos[key] + d) % Word \in 0 .. Word - 1
      BY <2>2
  <2> DEFINE t == (memos[key] + d) % Word
             x == memos[key] + d
             y == memos[key] + r * m
  <2>7. t \in Int /\ x \in Int /\ y \in Int
      BY <1>1, <2>1, <2>6, WordFacts
  <2> HIDE DEF t, x, y
  <2>8. Congruent(t, x) /\ Congruent(x, y)
      BY <2>3, <2>5 DEF t, x, y
  <2>9. Congruent(t, y)
      BY <2>7, <2>8, CongruentChain
  <2> QED
      BY <2>6, <2>9 DEF t, y
<1>4. ASSUME NEW L \in DOMAIN me PROVE me[L] \in 0 .. Word - 1
    BY <1>1, <1>2, <1>3
<1>5. K # key => CountIn(me, K) = CountIn(memos, K)
    BY <1>2 DEF CountIn
<1>6. ASSUME K = key PROVE Congruent(CountIn(me, K), CountIn(memos, K) + r * m)
  <2>1. CASE key \in DOMAIN memos
      BY <1>2, <1>3, <1>6, <2>1 DEF CountIn
  <2>2. CASE key \notin DOMAIN memos
    <3>1. CountIn(me, K) = d /\ CountIn(memos, K) = 0
        BY <1>2, <1>6, <2>2 DEF CountIn
    <3>2. 0 + r * m = r * m
        BY <1>1
    <3> QED
        BY <1>1, <3>1, <3>2
  <2> QED
      BY <2>1, <2>2
<1>7. CountIn(memos, K) \in Nat /\ CountIn(me, K) \in Nat
  <2>1. 0 .. Word - 1 \subseteq Nat
      BY WordFacts
  <2> QED
      BY <1>4, <2>1 DEF CountIn
<1> QED
    BY <1>4, <1>5, <1>6, <1>7 DEF me

\* What a call takes from the caller's account, it enters under its key and
\* as a new activation's.
LEMMA CallArithmetic ==
    ASSUME NEW count \in Nat, NEW counted \in Nat, NEW own \in Nat, NEW r \in Nat,
           NEW w \in Nat, NEW d \in Nat, NEW rest \in Nat, NEW m \in Nat, NEW total \in Nat,
           Congruent(counted, count + m * own),
           Congruent(count + (m * ((own + r * w) + d) + rest), total)
    PROVE  Congruent(counted + (((m * r) % Word) * w + (m * d + rest)), total)
<1> DEFINE q == (m * r) % Word
<1>1. /\ m * r \in Nat /\ r * w \in Nat /\ m * own \in Nat /\ m * d \in Nat
      /\ own + r * w \in Nat
    BY MulNat
<1>2. (m * r) * w \in Nat /\ m * (r * w) = (m * r) * w /\ m * (own + r * w) \in Nat
  <2>1. (m * r) * w \in Nat /\ m * (own + r * w) \in Nat
      BY <1>1, MulNat
  <2>2. m * (r * w) = (m * r) * w
      OBVIOUS
  <2> QED
      BY <2>1, <2>2
<1>3. m * ((own + r * w) + d) = m * own + (m * r) * w + m * d
  <2>1. m * ((own + r * w) + d) = m * (own + r * w) + m * d
      BY <1>1, Distribute
  <2>2. m * (own + r * w) = m * own + m * (r * w)
      BY <1>1, Distribute
  <2> QED
      BY <1>1, <1>2, <2>1, <2>2
<1>4. q \in Nat /\ Congruent(q, m * r)
    BY <1>1, CongruentRest
<1> HIDE DEF q
<1>5. q * w \in Nat
    BY <1>4, MulNat
<1> DEFINE a == q * w
           b == (m * r) * w
           e == m * d + rest
           o == count + m * own
<1>6. Congruent(a, b)
  <2> DEFINE p == m * r
  <2>1. p \in Int /\ q \in Int /\ w \in Int /\ Congruent(q, p)
      BY <1>1, <1>4
  <2> HIDE DEF p
  <2>2. Congruent(q * w, p * w)
      BY <2>1, CongruentTimes
  <2> QED
      BY <2>2 DEF p
<1>7. /\ a \in Int /\ b \in Int /\ e \in Int /\ o \in Int /\ counted \in Int /\ total \in Int
    BY <1>1, <1>2, <1>5
<1>8. Congruent(o + (b + e), total)
  <2>1. o + (b + e) = count + (m * ((own + r * w) + d) + rest)
      BY <1>1, <1>2, <1>3
  <2> QED
      BY <2>1
<1>9. Congruent(counted, o)
    OBVIOUS
<1> HIDE DEF a, b, e, o
<1>10. Congruent(e, e)
    BY <1>7, CongruentSame
<1>11. Congruent(a + e, b + e)
    BY <1>6, <1>7, <1>10, CongruentPlus
<1>12. a + e \in Int /\ b + e \in Int
    BY <1>7
<1>13. Congruent(counted + (a + e), o + (b + e))
    BY <1>7, <1>9, <1>11, <1>12, CongruentPlus
<1>14. counted + (a + e) \in Int /\ o + (b + e) \in Int
    BY <1>7, <1>12
<1>15. Congruent(counted + (a + e), total)
    BY <1>7, <1>8, <1>13, <1>14, CongruentChain
<1> QED
    BY <1>15 DEF a, e, q

\* The call at hand among the calls of the program.
LEMMA SiteAtHand ==
    ASSUME StackType, Calling
    PROVE  LET s == <<Current.mod, Current.at>> IN
           /\ s \in CallSites /\ At(s) = Item(Current)
           /\ Current.mod \in DOMAIN program /\ Current.at \in Nat \ {0}
           /\ Calls.weight[s] = repeat /\ repeat \in Nat
           /\ Calls.callee[s] = Item(Current).callee
           /\ Item(Current).callee \in DOMAIN program
           /\ Calls.key[s] = Key(Item(Current))
<1> DEFINE s == <<Current.mod, Current.at>>
<1>1. /\ Current \in Activation /\ Current.at \in DOMAIN program[Current.mod].body
      /\ Item(Current).callee \in DOMAIN program
      /\ repeat = Rounds(s) /\ repeat \in Nat /\ program \in Programs
      /\ Item(Current).kind = "call"
    BY CurrentFacts DEF StackType, Calling
<1>2. Current.mod \in DOMAIN program /\ Current.at \in Nat \ {0}
    BY <1>1 DEF Activation
<1>3. s \in CallSites
    BY <1>1, <1>2, SiteFacts DEF Item
<1>4. At(s) = Item(Current)
    BY DEF At, Item
<1> HIDE DEF s
<1>5. /\ Calls.weight[s] = Rounds(s) /\ Calls.callee[s] = At(s).callee
      /\ Calls.key[s] = Key(At(s))
    BY <1>3, CallFields
<1> QED
    BY <1>1, <1>2, <1>3, <1>4, <1>5 DEF s

\* The activations after a call.
LEMMA EnteredFacts ==
    ASSUME StackType, Calling, NEW t \in BOOLEAN
    PROVE  LET n == Len(frames) IN
           /\ Entered(t) \in Seq(Activation) /\ Len(Entered(t)) = n + 1
           /\ \A k \in 1 .. n - 1 : Entered(t)[k] = frames[k]
           /\ Entered(t)[n].mod = Current.mod /\ Entered(t)[n].at = Current.at + 1
           /\ Entered(t)[n].tracked = Current.tracked
           /\ Entered(t)[n + 1] = [mod |-> Item(Current).callee, at |-> 1, tracked |-> t]
<1> DEFINE n == Len(frames)
           new == [mod |-> Item(Current).callee, at |-> 1, tracked |-> t]
<1>1. n \in Nat \ {0} /\ new \in Activation
    BY CurrentFacts, SiteAtHand DEF Activation
<1>2. /\ Advanced \in Seq(Activation) /\ Len(Advanced) = n
      /\ \A k \in 1 .. n - 1 : Advanced[k] = frames[k]
      /\ Advanced[n].mod = Current.mod /\ Advanced[n].at = Current.at + 1
      /\ Advanced[n].tracked = Current.tracked
    BY AdvancedFacts
<1>3. Entered(t) = Append(Advanced, new)
    BY DEF Entered
<1> HIDE DEF new
<1>4. /\ Entered(t) \in Seq(Activation) /\ Len(Entered(t)) = n + 1
      /\ \A k \in 1 .. n : Entered(t)[k] = Advanced[k]
      /\ Entered(t)[n + 1] = new
    BY <1>1, <1>2, <1>3
<1>5. 1 .. n - 1 \subseteq 1 .. n /\ n \in 1 .. n
    BY <1>1
<1> HIDE DEF n
<1>6. Entered(t)[n] = Advanced[n] /\ \A k \in 1 .. n - 1 : Entered(t)[k] = frames[k]
    BY <1>2, <1>4, <1>5
<1> QED
    BY <1>2, <1>4, <1>6 DEF n, new

\* A call: its caller owes less by what it costs, the entry of its key has its
\* own part of that, and the new activation owes the rest.
LEMMA CallBalances ==
    ASSUME StackType, AllTracked, Calling,
           NEW K, Balanced(Calls, K, frames, contents, memos)
    PROVE  Balanced(Calls, K, Entered(TRUE), Append(contents, repeat),
                    memoized(Key(Item(Current)), repeat))
<1> DEFINE n == Len(frames)
           s == <<Current.mod, Current.at>>
           fr == Entered(TRUE)
           ct == Append(contents, repeat)
           me == memoized(Key(Item(Current)), repeat)
           a == Shares(Calls, K, frames, contents)
           b == Shares(Calls, K, fr, ct)
           m == product(contents)
           d == Due(Calls, K, Current.mod, Current.at + 1)
           own == Own(Calls, K)[s]
           w == Needed(Calls, K)[Item(Current).callee]
           rest == Sum(a, 1 .. n - 1)
           r == repeat
<1>1. /\ program \in Programs /\ n \in Nat \ {0} /\ frames \in Seq(Activation)
      /\ contents \in Seq(Nat) /\ Len(contents) = n /\ Current = frames[n]
      /\ \A L \in DOMAIN memos : memos[L] \in 0 .. Word - 1
    BY CurrentFacts DEF StackType, AllTracked, Current
<1>2. /\ s \in CallSites /\ Current.mod \in DOMAIN program /\ Current.at \in Nat \ {0}
      /\ Calls.weight[s] = r /\ r \in Nat
      /\ Calls.callee[s] = Item(Current).callee /\ Item(Current).callee \in DOMAIN program
      /\ Calls.key[s] = Key(Item(Current))
    BY SiteAtHand
<1>3. /\ fr \in Seq(Activation) /\ Len(fr) = n + 1
      /\ \A k \in 1 .. n - 1 : fr[k] = frames[k]
      /\ fr[n].mod = Current.mod /\ fr[n].at = Current.at + 1
      /\ fr[n + 1].mod = Item(Current).callee /\ fr[n + 1].at = 1
  <2>1. /\ fr \in Seq(Activation) /\ Len(fr) = n + 1
        /\ \A k \in 1 .. n - 1 : fr[k] = frames[k]
        /\ fr[n].mod = Current.mod /\ fr[n].at = Current.at + 1
        /\ fr[n + 1] = [mod |-> Item(Current).callee, at |-> 1, tracked |-> TRUE]
      BY EnteredFacts
  <2> HIDE DEF fr
  <2> QED
      BY <2>1
<1>4. /\ ct \in Seq(Nat) /\ Len(ct) = n + 1
      /\ \A k \in 1 .. n : SubSeq(ct, 1, k) = SubSeq(contents, 1, k)
      /\ SubSeq(contents, 1, n) = contents /\ SubSeq(ct, 1, n + 1) = ct
    BY <1>1, <1>2
<1>5. m \in Nat /\ product(ct) = (m * r) % Word
    BY <1>1, <1>2, ProductFacts
<1>6. /\ CallGraph(Calls) /\ Calls.sites = CallSites /\ Calls.mods = DOMAIN program
    BY <1>1, CallsAreGraph, CallFields
<1>7. own \in Nat /\ own = (IF Calls.key[s] = K THEN r ELSE 0)
    BY <1>2, <1>6 DEF Own
<1>8. w \in Nat
    BY <1>2, <1>6, NeededIsCost
<1>9. d \in Nat
  <2>1. Current.at + 1 \in Nat \ {0}
      BY <1>2
  <2> QED
      BY <1>1, <1>2, <2>1, DueFacts
<1>10. Cost(Calls, K)[s] = own + r * w
    BY <1>2, <1>6 DEF Cost
<1>11. Due(Calls, K, Current.mod, Current.at) = (own + r * w) + d
  <2>1. Due(Calls, K, Current.mod, Current.at) = Cost(Calls, K)[s] + d
      BY <1>1, <1>2, DueFacts
  <2> HIDE DEF d, own, w, r
  <2> QED
      BY <1>10, <2>1
<1> HIDE DEF fr, ct, me, m, d, own, w, r
<1>12. ASSUME NEW k \in 1 .. n PROVE a[k] \in Nat
    BY <1>1, ShareFacts
<1>13. a[n] = m * ((own + r * w) + d)
  <2>1. n \in 1 .. Len(frames)
      BY <1>1
  <2>2. a[n] = Factor(contents, n) * Due(Calls, K, frames[n].mod, frames[n].at)
      BY <2>1, ShareIs
  <2>3. Factor(contents, n) = m
      BY <1>4 DEF Factor, m
  <2> QED
      BY <1>1, <1>11, <2>2, <2>3
<1>14. ASSUME NEW k \in 1 .. n - 1 PROVE b[k] = a[k]
  <2>1. k \in 1 .. Len(fr) /\ k \in 1 .. n
      BY <1>1, <1>3
  <2>2. b[k] = Factor(ct, k) * Due(Calls, K, fr[k].mod, fr[k].at)
      BY <2>1, ShareIs
  <2>3. a[k] = Factor(contents, k) * Due(Calls, K, frames[k].mod, frames[k].at)
      BY <2>1, ShareIs
  <2>4. Factor(ct, k) = Factor(contents, k) /\ fr[k] = frames[k]
      BY <1>3, <1>4, <2>1 DEF Factor
  <2> QED
      BY <2>2, <2>3, <2>4
<1>15. b[n] = m * d /\ b[n] \in Nat
  <2>1. n \in 1 .. Len(fr) /\ n \in 1 .. n
      BY <1>1, <1>3
  <2>2. b[n] = Factor(ct, n) * Due(Calls, K, fr[n].mod, fr[n].at)
      BY <2>1, ShareIs
  <2>3. Factor(ct, n) = m
      BY <1>4, <2>1 DEF Factor, m
  <2>4. b[n] = m * d
      BY <1>3, <2>2, <2>3 DEF d
  <2> QED
      BY <1>5, <1>9, <2>4, MulNat
<1>16. b[n + 1] = ((m * r) % Word) * w /\ b[n + 1] \in Nat
  <2>1. n + 1 \in 1 .. Len(fr)
      BY <1>1, <1>3
  <2>2. b[n + 1] = Factor(ct, n + 1) * Due(Calls, K, fr[n + 1].mod, fr[n + 1].at)
      BY <2>1, ShareIs
  <2>3. Factor(ct, n + 1) = (m * r) % Word
      BY <1>4, <1>5 DEF Factor
  <2>4. Due(Calls, K, Item(Current).callee, 1) = w
    <3>1. 1 \in Nat \ {0}
        OBVIOUS
    <3> QED
        BY <1>1, <1>2, <3>1, DueFacts DEF w
  <2>5. b[n + 1] = ((m * r) % Word) * w
      BY <1>3, <2>2, <2>3, <2>4
  <2>6. (m * r) % Word \in Nat
    <3>1. m * r \in Int
        BY <1>2, <1>5
    <3> QED
        BY <3>1, CongruentRest
  <2> QED
      BY <1>8, <2>5, <2>6, MulNat
<1> HIDE DEF a, b
<1>17. Sum(a, 1 .. n) = a[n] + rest /\ rest \in Nat /\ IsFiniteSet(1 .. n - 1)
    BY <1>1, <1>12, LastShare
<1>18. Sum(b, 1 .. n - 1) = rest
  <2>1. \A k \in 1 .. n - 1 : a[k] \in Nat /\ b[k] = a[k]
    <3>1. \A k \in 1 .. n - 1 : k \in 1 .. n
        BY <1>1
    <3> QED
        BY <1>12, <1>14, <3>1
  <2> QED
      BY <1>17, <2>1, SumSame
<1>19. Sum(b, 1 .. n + 1) = b[n + 1] + (b[n] + rest)
  <2>1. \A k \in 1 .. n + 1 : b[k] \in Nat
    <3>1. \A k \in 1 .. n + 1 : k \in 1 .. n - 1 \/ k = n \/ k = n + 1
        BY <1>1
    <3>2. \A k \in 1 .. n - 1 : k \in 1 .. n
        BY <1>1
    <3> HIDE DEF n
    <3> QED
        BY <1>12, <1>14, <1>15, <1>16, <3>1, <3>2
  <2>2. Sum(b, 1 .. n) = b[n] + Sum(b, 1 .. n - 1)
    <3>1. \A k \in 1 .. n : b[k] \in Nat
        BY <1>1, <2>1
    <3> QED
        BY <1>1, <3>1, LastShare
  <2>3. n + 1 \in Nat \ {0} /\ (n + 1) - 1 = n
      BY <1>1
  <2>4. Sum(b, 1 .. n + 1) = b[n + 1] + Sum(b, 1 .. (n + 1) - 1)
    <3> DEFINE j == n + 1
    <3>1. j \in Nat \ {0} /\ \A k \in 1 .. j : b[k] \in Nat
        BY <2>1, <2>3
    <3> HIDE DEF j
    <3>2. Sum(b, 1 .. j) = b[j] + Sum(b, 1 .. j - 1)
        BY <3>1, LastShare
    <3> QED
        BY <3>2 DEF j
  <2>5. 1 .. (n + 1) - 1 = 1 .. n
      BY <2>3
  <2>6. Sum(b, 1 .. n + 1) = b[n + 1] + Sum(b, 1 .. n)
      BY <2>4, <2>5
  <2> QED
      BY <1>18, <2>2, <2>6
<1> DEFINE count == CountIn(memos, K)
           counted == CountIn(me, K)
           total == Needed(Calls, K)[1]
<1>20. count \in Nat /\ counted \in Nat /\ Congruent(counted, count + m * own)
  <2>1. /\ K # Key(Item(Current)) => counted = count
        /\ K = Key(Item(Current)) => Congruent(counted, count + r * m)
        /\ count \in Nat /\ counted \in Nat
    <3>1. m = product(contents) /\ me = memoized(Key(Item(Current)), r)
        BY DEF m, me, r
    <3> QED
        BY <1>1, <1>2, <1>5, <3>1, MemoStep
  <2>2. CASE K = Key(Item(Current))
    <3>1. own = r
        BY <1>2, <1>7, <2>2
    <3>2. r * m = m * own
        BY <1>2, <1>5, <3>1, MulNat
    <3> QED
        BY <2>1, <2>2, <3>2
  <2>3. CASE K # Key(Item(Current))
    <3>1. own = 0
        BY <1>2, <1>7, <2>3
    <3>2. count + m * own = count
        BY <1>5, <2>1, <3>1
    <3>3. Congruent(count, count)
        BY <2>1, CongruentSame
    <3> QED
        BY <2>1, <2>3, <3>2, <3>3
  <2> QED
      BY <2>2, <2>3
<1>21. Congruent(count + (m * ((own + r * w) + d) + rest), total)
  <2>1. Congruent(count + Sum(a, 1 .. n), total)
      BY DEF Balanced, a
  <2> QED
      BY <1>13, <1>17, <2>1
<1>22. total \in Nat
  <2>1. 1 \in DOMAIN program
      BY <1>1, ProgramModules
  <2> QED
      BY <1>6, <2>1, NeededIsCost
<1> HIDE DEF count, counted, total, rest
<1>23. Congruent(counted + (((m * r) % Word) * w + (m * d + rest)), total)
    BY <1>2, <1>5, <1>7, <1>8, <1>9, <1>17, <1>20, <1>21, <1>22, CallArithmetic
<1>24. Congruent(counted + Sum(b, 1 .. n + 1), total)
    BY <1>15, <1>16, <1>19, <1>23
<1>25. Balanced(Calls, K, fr, ct, me)
    BY <1>3, <1>24 DEF Balanced, b, counted, total
<1> QED
    BY <1>25 DEF fr, ct, me, r

-----------------------------------------------------------------------------
(* The ledger is always balanced.                                          *)

\* Main alone.
LEMMA OneShare ==
    ASSUME NEW a, a[1] \in Nat
    PROVE  Sum(a, 1 .. 1) = a[1]
<1>1. \A k \in 1 .. 1 : a[k] \in Nat
    OBVIOUS
<1>2. 1 \in Nat \ {0} /\ 1 .. 1 - 1 = {}
    OBVIOUS
<1>3. Sum(a, 1 .. 1) = a[1] + Sum(a, 1 .. 1 - 1) /\ IsFiniteSet(1 .. 1)
    BY <1>1, <1>2, LastShare
<1>4. Sum(a, {}) = 0
    BY <1>1, <1>3, SumFacts
<1> QED
    BY <1>2, <1>3, <1>4

\* At first nothing is counted, and main owes all.
LEMMA InitCountInv == Init => CountInv
<1> SUFFICES ASSUME Init PROVE AllTracked /\ Ledgers
    BY DEF CountInv
<1>1. /\ program \in Programs /\ frames = <<[mod |-> 1, at |-> 1, tracked |-> FALSE]>>
      /\ contents = <<1>> /\ memos = [k \in {mainKey} |-> 1] /\ status = "running"
    BY DEF Init
<1>2. AllTracked
  <2>1. Len(frames) = 1 /\ Len(contents) = 1
      BY <1>1
  <2>2. \A K \in DOMAIN memos : memos[K] = 1
      BY <1>1
  <2> QED
      BY <1>1, <2>1, <2>2, WordFacts DEF AllTracked
<1>3. ASSUME NEW K, K # mainKey
      PROVE  Balanced(Calls, K, frames, contents, memos)
  <2> DEFINE a == Shares(Calls, K, frames, contents)
             w == Needed(Calls, K)[1]
  <2>1. 1 \in DOMAIN program /\ 1 \in Nat \ {0}
      BY <1>1, ProgramModules
  <2>2. Due(Calls, K, 1, 1) = w /\ Due(Calls, K, 1, 1) \in Nat
      BY <1>1, <2>1, DueFacts
  <2>3. Factor(contents, 1) = 1
    <3>1. contents \in Seq(Nat) /\ 1 \in 1 .. Len(contents)
        BY <1>1
    <3> QED
        BY <3>1, FactorFacts
  <2>4. Len(frames) = 1 /\ frames[1].mod = 1 /\ frames[1].at = 1
      BY <1>1
  <2>5. a[1] = 1 * w
    <3>1. 1 \in 1 .. Len(frames)
        BY <2>4
    <3>2. a[1] = Factor(contents, 1) * Due(Calls, K, frames[1].mod, frames[1].at)
        BY <3>1, ShareIs
    <3> QED
        BY <2>2, <2>3, <2>4, <3>2
  <2> HIDE DEF a, w
  <2>6. w \in Nat /\ a[1] = w
      BY <2>2, <2>5
  <2>7. Sum(a, 1 .. 1) = a[1]
      BY <2>6, OneShare
  <2>8. CountIn(memos, K) = 0
      BY <1>1, <1>3 DEF CountIn
  <2>9. CountIn(memos, K) + Sum(a, 1 .. Len(frames)) = w
      BY <2>4, <2>6, <2>7, <2>8
  <2>10. Congruent(w, w)
      BY <2>6, CongruentSame
  <2> QED
      BY <2>9, <2>10 DEF Balanced, a, w
<1> QED
    BY <1>2, <1>3 DEF Ledgers

\* With all modules quantum, each call is instrumented.
LEMMA AllInstrumented ==
    ASSUME StackType, AllQuantum, Calling
    PROVE  Instrumented(Current)
<1> DEFINE s == <<Current.mod, Current.at>>
<1>1. /\ s \in CallSites /\ At(s) = Item(Current) /\ program \in Programs
      /\ Current.mod \in DOMAIN program
    BY SiteAtHand DEF StackType
<1>2. /\ Item(Current).callee \in DOMAIN program /\ Current.mod < Item(Current).callee
    BY <1>1, SiteItem
<1>3. Len(program) \in Nat /\ DOMAIN program = 1 .. Len(program)
    BY <1>1, ProgramModules
<1>4. Item(Current).callee \in 2 .. Len(program)
    BY <1>1, <1>2, <1>3
<1>5. Current.mod = 1 \/ Current.mod \in 2 .. Len(program)
    BY <1>1, <1>3
<1> QED
    BY <1>4, <1>5 DEF Instrumented, Visited, AllQuantum

\* Every step keeps the ledger.
LEMMA NextCountInv == IInv /\ CountInv /\ [Next]_vars => CountInv'
<1> SUFFICES ASSUME IInv, CountInv, [Next]_vars, AllQuantum'
             PROVE  AllTracked' /\ (status' # "full" => Ledgers')
    BY DEF CountInv
<1> DEFINE n == Len(frames)
<1>1. program' = program
    BY DEF Next, vars, Marker, Call, StackFull, CallUntracked, Return, Summary, Ended
<1>2. Calls' = Calls /\ AllQuantum
    BY <1>1, SameCalls
<1>3. AllTracked /\ (status # "full" => Ledgers)
    BY <1>2 DEF CountInv
<1>4. /\ StackType /\ program \in Programs /\ frames \in Seq(Activation)
      /\ contents \in Seq(Nat) /\ n \in Nat \ {0} /\ Current = frames[n]
      /\ Len(contents) = n
    BY <1>3, CurrentFacts DEF IInv, StackType, AllTracked, Current
<1>5. /\ \A k \in 2 .. n : frames[k].tracked
      /\ \A K \in DOMAIN memos : memos[K] \in 0 .. Word - 1
    BY <1>3 DEF AllTracked
<1>6. Ledgers' <=> \A K : K # mainKey => Balanced(Calls, K, frames', contents', memos')
    BY <1>2 DEF Ledgers
<1>7. CASE Marker
  <2>1. /\ frames' = Advanced /\ contents' = contents /\ memos' = memos
        /\ status' = "running" /\ status = "running"
        /\ Left(Current) /\ Item(Current).kind # "call"
      BY <1>7 DEF Marker
  <2>2. AllTracked'
    <3>1. ASSUME NEW k \in 2 .. Len(frames') PROVE frames'[k].tracked
      <4>1. k \in 1 .. n - 1 \/ k = n
          BY <1>4, <2>1, AdvancedFacts
      <4>2. k \in 2 .. n
          BY <1>4, <2>1, AdvancedFacts
      <4>3. CASE k = n
          BY <1>4, <1>5, <2>1, <4>2, <4>3, AdvancedFacts
      <4>4. CASE k \in 1 .. n - 1
        <5>1. frames'[k] = frames[k]
            BY <1>4, <2>1, <4>4, AdvancedFacts
        <5> QED
            BY <1>5, <4>2, <5>1
      <4> QED
          BY <4>1, <4>3, <4>4
    <3>2. Len(contents') = Len(frames')
        BY <1>4, <2>1, AdvancedFacts
    <3> QED
        BY <1>5, <2>1, <3>1, <3>2 DEF AllTracked
  <2>3. ASSUME NEW K, K # mainKey
        PROVE  Balanced(Calls, K, frames', contents', memos')
    <3>1. Balanced(Calls, K, frames, contents, memos)
        BY <1>3, <2>1, <2>3 DEF Ledgers
    <3> QED
        BY <1>3, <1>4, <2>1, <3>1, MarkerBalances
  <2> QED
      BY <1>6, <2>2, <2>3
<1>8. CASE Call
  <2>1. /\ Calling /\ frames' = Entered(TRUE) /\ contents' = Append(contents, repeat)
        /\ memos' = memoized(Key(Item(Current)), repeat)
        /\ status' = "running" /\ status = "running"
      BY <1>8 DEF Call, Calling
  <2>2. repeat \in Nat /\ product(contents) \in Nat
      BY <1>4, <2>1, SiteAtHand, ProductFacts
  <2>3. AllTracked'
    <3>1. /\ Len(frames') = n + 1
          /\ \A k \in 1 .. n - 1 : frames'[k] = frames[k]
          /\ frames'[n].tracked = Current.tracked
          /\ frames'[n + 1] = [mod |-> Item(Current).callee, at |-> 1, tracked |-> TRUE]
        BY <1>4, <2>1, EnteredFacts
    <3>2. frames'[n + 1].tracked
        BY <3>1
    <3>3. ASSUME NEW k \in 2 .. Len(frames') PROVE frames'[k].tracked
      <4>1. k = n + 1 \/ (k = n /\ k \in 2 .. n) \/ (k \in 1 .. n - 1 /\ k \in 2 .. n)
          BY <1>4, <3>1
      <4>2. CASE k = n + 1
          BY <3>2, <4>2
      <4>3. CASE k = n /\ k \in 2 .. n
          BY <1>4, <1>5, <3>1, <4>3
      <4>4. CASE k \in 1 .. n - 1 /\ k \in 2 .. n
          BY <1>5, <3>1, <4>4
      <4> QED
          BY <4>1, <4>2, <4>3, <4>4
    <3>4. Len(contents') = Len(frames')
      <4> DEFINE r == repeat
      <4>1. r \in Nat /\ contents' = Append(contents, r)
          BY <2>1, <2>2
      <4> HIDE DEF r
      <4>2. Len(contents') = n + 1
          BY <1>4, <4>1
      <4> QED
          BY <3>1, <4>2
    <3>5. \A K \in DOMAIN memos' : memos'[K] \in 0 .. Word - 1
        BY <1>5, <2>1, <2>2, MemoStep
    <3> QED
        BY <2>1, <3>3, <3>4, <3>5 DEF AllTracked
  <2>4. ASSUME NEW K, K # mainKey
        PROVE  Balanced(Calls, K, frames', contents', memos')
    <3>1. Balanced(Calls, K, frames, contents, memos)
        BY <1>3, <2>1, <2>4 DEF Ledgers
    <3> QED
        BY <1>3, <1>4, <2>1, <3>1, CallBalances
  <2> QED
      BY <1>6, <2>3, <2>4
<1>9. CASE StackFull
  <2>1. /\ Calling /\ frames' = frames /\ contents' = contents
        /\ memos' = memoized(Key(Item(Current)), repeat) /\ status' = "full"
      BY <1>9 DEF StackFull
  <2>2. repeat \in Nat /\ product(contents) \in Nat
      BY <1>4, <2>1, SiteAtHand, ProductFacts
  <2>3. \A K \in DOMAIN memos' : memos'[K] \in 0 .. Word - 1
      BY <1>5, <2>1, <2>2, MemoStep
  <2> QED
      BY <1>4, <1>5, <2>1, <2>3 DEF AllTracked
<1>10. CASE CallUntracked
    BY <1>2, <1>4, <1>10, AllInstrumented DEF CallUntracked
<1>11. CASE Return
  <2>1. /\ ~Left(Current) /\ n > 1 /\ contents' = exit_scope /\ memos' = memos
        /\ frames' = SubSeq(frames, 1, n - 1)
        /\ status' = "running" /\ status = "running"
      BY <1>11 DEF Return
  <2>2. contents' = SubSeq(contents, 1, Len(contents) - 1)
    <3>1. Current.tracked
        BY <1>4, <1>5, <2>1
    <3> QED
        BY <2>1, <3>1 DEF exit_scope
  <2>3. AllTracked'
    <3>1. Len(frames') = n - 1 /\ \A k \in 1 .. n - 1 : frames'[k] = frames[k]
        BY <1>4, <2>1
    <3>2. Len(contents') = n - 1
        BY <1>4, <2>1, <2>2
    <3>3. \A k \in 2 .. n - 1 : frames'[k].tracked
        BY <1>4, <1>5, <3>1
    <3> QED
        BY <1>5, <2>1, <3>1, <3>2, <3>3 DEF AllTracked
  <2>4. ASSUME NEW K, K # mainKey
        PROVE  Balanced(Calls, K, frames', contents', memos')
    <3>1. Balanced(Calls, K, frames, contents, memos)
        BY <1>3, <2>1, <2>4 DEF Ledgers
    <3> QED
        BY <1>3, <1>4, <2>1, <2>2, <3>1, ReturnBalances
  <2> QED
      BY <1>6, <2>3, <2>4
<1>12. CASE Summary
  <2>1. /\ frames' = frames /\ contents' = contents /\ memos' = memos
        /\ status' = "over" /\ status = "running" /\ n = 1 /\ ~Left(Current)
      BY <1>12 DEF Summary
  <2>2. Left(Current)' = Left(Current)
      BY <1>1, <2>1 DEF Left, Current
  <2>3. AllTracked'
      BY <1>4, <1>5, <2>1, <2>2 DEF AllTracked
  <2> QED
      BY <1>3, <1>6, <2>1, <2>3 DEF Ledgers
<1>13. CASE Ended \/ UNCHANGED vars
  <2>1. /\ frames' = frames /\ contents' = contents /\ memos' = memos /\ status' = status
      BY <1>13 DEF Ended, vars
  <2>2. Left(Current)' = Left(Current)
      BY <1>1, <2>1 DEF Left, Current
  <2>3. AllTracked'
      BY <1>3, <2>1, <2>2 DEF AllTracked
  <2> QED
      BY <1>3, <1>6, <2>1, <2>3 DEF Ledgers
<1> QED
    BY <1>7, <1>8, <1>9, <1>10, <1>11, <1>12, <1>13 DEF Next

-----------------------------------------------------------------------------
(* What main needs is how often the calls are made.                        *)

\* CallsMade is such a sum.
LEMMA CallsMadeIsSum ==
    ASSUME NEW S, IsFiniteSet(S), NEW r, NEW f,
           \A s \in S : f[s] \in Nat /\ f[s] = r[s[1]] * Rounds(s)
    PROVE  CallsMade(r, S) = Sum(f, S)
<1> DEFINE made(s) == r[s[1]] * Rounds(s)
           P(g) == g = [s \in SUBSET S |->
                          IF s = {} THEN 0 ELSE made(CHOOSE x \in s : TRUE)
                                                + g[s \ {CHOOSE x \in s : TRUE}]]
           c == CHOOSE g : P(g)
<1>1. CallsMade(r, S) = c[S]
    BY DEF CallsMade, MapThenSumSet, MapThenFoldSet
<1>2. ASSUME NEW g
      PROVE  P(g) <=> Adds(g, f, S)
  <2>1. \A s \in SUBSET S : s # {} => f[AnyOf(s)] = made(AnyOf(s))
    <3>1. \A s \in SUBSET S : s # {} => AnyOf(s) \in S
        BY DEF AnyOf
    <3> QED
        BY <3>1
  <2> HIDE DEF made
  <2>2. [s \in SUBSET S |-> IF s = {} THEN 0 ELSE f[AnyOf(s)] + g[s \ {AnyOf(s)}]]
        = [s \in SUBSET S |-> IF s = {} THEN 0 ELSE made(AnyOf(s)) + g[s \ {AnyOf(s)}]]
      BY <2>1
  <2> QED
      BY <2>2 DEF Adds, AnyOf
<1>3. PICK g : Adds(g, f, S)
    BY SumsExist
<1>4. P(g)
    BY <1>2, <1>3
<1>5. P(c)
  <2> HIDE DEF P
  <2> QED
      BY <1>4
<1> HIDE DEF c
<1>6. Adds(c, f, S)
    BY <1>2, <1>5
<1>7. c[S] = Sum(f, S)
    BY <1>6, SumAdds
<1> QED
    BY <1>1, <1>7

\* A sum in which only the elements of S count.
LEMMA SumWhere ==
    ASSUME NEW D, IsFiniteSet(D), NEW f, NEW g, NEW S \in SUBSET D,
           \A x \in D : f[x] \in Nat /\ g[x] = IF x \in S THEN f[x] ELSE 0
    PROVE  Sum(g, D) = Sum(f, S)
<1> DEFINE T == {s \in SUBSET D : Sum(g, s) = Sum(f, s \cap S)}
<1>1. \A x \in D : f[x] \in Nat /\ g[x] \in Nat
    OBVIOUS
<1>2. {} \in T
  <2>1. Sum(g, {}) = 0 /\ Sum(f, {}) = 0 /\ {} \cap S = {}
      BY <1>1, SumFacts
  <2> QED
      BY <2>1
<1>3. ASSUME NEW s \in SUBSET D, NEW x \in s, s \ {x} \in T
      PROVE  s \in T
  <2>1. Sum(g, s) = g[x] + Sum(g, s \ {x}) /\ Sum(g, s \ {x}) = Sum(f, (s \ {x}) \cap S)
      BY <1>1, <1>3, SumRemove
  <2>2. Sum(f, (s \ {x}) \cap S) \in Nat
    <3>1. (s \ {x}) \cap S \in SUBSET D
        OBVIOUS
    <3> QED
        BY <1>1, <3>1, SumFacts
  <2>3. CASE x \in S
    <3>1. s \cap S \in SUBSET D /\ x \in s \cap S /\ (s \cap S) \ {x} = (s \ {x}) \cap S
        BY <2>3
    <3>2. Sum(f, s \cap S) = f[x] + Sum(f, (s \cap S) \ {x})
        BY <1>1, <3>1, SumRemove
    <3>3. g[x] = f[x]
        BY <2>3
    <3>4. Sum(g, s) = Sum(f, s \cap S)
        BY <2>1, <3>1, <3>2, <3>3
    <3> QED
        BY <3>4
  <2>4. CASE x \notin S
    <3>1. s \cap S = (s \ {x}) \cap S /\ g[x] = 0
        BY <2>4
    <3>2. Sum(g, s) = g[x] + Sum(f, (s \ {x}) \cap S)
        BY <2>1
    <3>3. g[x] + Sum(f, (s \ {x}) \cap S) = Sum(f, (s \ {x}) \cap S)
        BY <2>2, <3>1
    <3>4. Sum(f, s \cap S) = Sum(f, (s \ {x}) \cap S)
        BY <3>1
    <3> QED
        BY <3>2, <3>3, <3>4
  <2> QED
      BY <2>3, <2>4
<1>4. D \in T
  <2> HIDE DEF T
  <2> QED
      BY <1>2, <1>3, SubsetInduction
<1>5. D \cap S = S
    OBVIOUS
<1> QED
    BY <1>4, <1>5

CallsTo(m) == {s \in CallSites : At(s).callee = m}
IsRuns(r) == r = [m \in DOMAIN program |-> IF m = 1 THEN 1 ELSE CallsMade(r, CallsTo(m))]

\* The equations of the runs in both forms.
LEMMA RunsForms ==
    ASSUME program \in Programs, NEW r \in [DOMAIN program -> Nat], NEW m \in DOMAIN program
    PROVE  /\ Value(RunSystem(Calls), r, m) = IF m = 1 THEN 1 ELSE CallsMade(r, CallsTo(m))
           /\ CallsMade(r, CallsTo(m)) \in Nat
<1> DEFINE y == RunSystem(Calls)
           f == Terms(y, r)
<1>1. /\ CallGraph(Calls) /\ Calls.sites = CallSites /\ Calls.mods = DOMAIN program
      /\ Calls.weight = [s \in CallSites |-> Rounds(s)]
      /\ Calls.caller = [s \in CallSites |-> s[1]]
      /\ Calls.callee = [s \in CallSites |-> At(s).callee]
    BY CallsAreGraph, CallFields
<1>2. /\ y.sites = CallSites /\ y.weight = Calls.weight /\ y.needs = Calls.caller
      /\ y.for = Calls.callee /\ y.mods = DOMAIN program
      /\ y.base = [k \in DOMAIN program |-> IF k = 1 THEN 1 ELSE 0]
    BY <1>1 DEF RunSystem
<1>3. System(y)
    BY <1>1, RunsAreSystem
<1> HIDE DEF y
<1>4. SitesFor(y, m) = CallsTo(m)
    BY <1>1, <1>2 DEF SitesFor, CallsTo
<1>5. \A s \in CallSites : f[s] \in Nat
    BY <1>2, <1>3, TermsType
<1>6. ASSUME NEW s \in CallSites PROVE f[s] = r[s[1]] * Rounds(s)
  <2>1. f[s] = Rounds(s) * r[s[1]]
      BY <1>1, <1>2 DEF Terms
  <2>2. Rounds(s) \in Nat /\ r[s[1]] \in Nat
      BY SiteFacts, SiteItem
  <2> QED
      BY <2>1, <2>2, MulNat
<1> HIDE DEF f
<1>7. IsFiniteSet(CallSites) /\ CallsTo(m) \in SUBSET CallSites
    BY SitesFinite DEF CallsTo
<1>8. IsFiniteSet(CallsTo(m)) /\ Sum(f, CallsTo(m)) \in Nat
    BY <1>5, <1>7, SumFacts
<1>9. CallsMade(r, CallsTo(m)) = Sum(f, CallsTo(m))
    BY <1>5, <1>6, <1>7, <1>8, CallsMadeIsSum
<1>10. CallsTo(1) = {} /\ Sum(f, {}) = 0
  <2>1. ASSUME NEW s \in CallSites PROVE At(s).callee # 1
    <3>1. s[1] \in DOMAIN program /\ At(s).callee \in DOMAIN program /\ s[1] < At(s).callee
        BY SiteFacts, SiteItem
    <3> QED
        BY <3>1, ProgramModules
  <2> QED
      BY <1>5, <1>7, <2>1, SumFacts DEF CallsTo
<1>11. Value(y, r, m) = y.base[m] + Sum(f, CallsTo(m))
    BY <1>4 DEF Value, f
<1>12. Value(y, r, m) = IF m = 1 THEN 1 ELSE CallsMade(r, CallsTo(m))
  <2>1. CASE m = 1
    <3>1. Sum(f, CallsTo(m)) = 0 /\ y.base[m] = 1
        BY <1>2, <1>10, <2>1
    <3> QED
        BY <1>11, <2>1, <3>1
  <2>2. CASE m # 1
    <3>1. y.base[m] = 0
        BY <1>2, <2>2
    <3> QED
        BY <1>8, <1>9, <1>11, <2>2, <3>1
  <2> QED
      BY <2>1, <2>2
<1> QED
    BY <1>8, <1>9, <1>12 DEF y

\* Runs is the solution of its equations.
LEMMA RunsSolve ==
    ASSUME program \in Programs
    PROVE  Solves(RunSystem(Calls), Runs) /\ Runs \in [DOMAIN program -> Nat]
<1> DEFINE y == RunSystem(Calls)
           x == Solution(y)
<1>1. CallGraph(Calls) /\ Calls.mods = DOMAIN program /\ y.mods = DOMAIN program
    BY CallsAreGraph, CallFields DEF RunSystem
<1>2. Solves(y, x)
    BY <1>1, RunsAreSystem, SolutionSolves
<1> HIDE DEF y, x
<1>3. x \in [DOMAIN program -> Nat] /\ \A m \in DOMAIN program : x[m] = Value(y, x, m)
    BY <1>1, <1>2 DEF Solves
<1>4. IsRuns(x)
  <2> DEFINE g == [m \in DOMAIN program |-> IF m = 1 THEN 1 ELSE CallsMade(x, CallsTo(m))]
  <2>1. \A m \in DOMAIN program : x[m] = IF m = 1 THEN 1 ELSE CallsMade(x, CallsTo(m))
      BY <1>3, RunsForms DEF y
  <2>2. \A m \in DOMAIN program : x[m] = g[m]
      BY <2>1
  <2>3. x = [m \in DOMAIN program |-> x[m]]
      BY <1>3
  <2>4. x = g
      BY <2>2, <2>3, Zenon
  <2> QED
      BY <2>4 DEF IsRuns
<1>5. Runs = CHOOSE r : IsRuns(r)
    BY DEF Runs, IsRuns, CallsTo
<1>6. IsRuns(Runs)
    BY <1>4, <1>5
<1> DEFINE r == Runs
<1> HIDE DEF r
<1>7. /\ DOMAIN r = DOMAIN program /\ r = [m \in DOMAIN program |-> r[m]]
      /\ \A m \in DOMAIN program : r[m] = IF m = 1 THEN 1 ELSE CallsMade(r, CallsTo(m))
  <2>1. r = [m \in DOMAIN program |-> IF m = 1 THEN 1 ELSE CallsMade(r, CallsTo(m))]
      BY <1>6 DEF IsRuns, r
  <2>2. \A m \in DOMAIN program : r[m] = IF m = 1 THEN 1 ELSE CallsMade(r, CallsTo(m))
      BY <2>1, Zenon
  <2>3. r = [m \in DOMAIN program |-> r[m]] /\ DOMAIN r = DOMAIN program
      BY <2>1
  <2> QED
      BY <2>2, <2>3
<1>8. Len(program) \in Nat /\ DOMAIN program = 1 .. Len(program)
    BY ProgramModules
\* Each module is called by earlier ones only.
<1> DEFINE T == {k \in Nat : \A m \in DOMAIN program : m <= k => r[m] \in Nat}
<1>9. 0 \in T
    BY <1>8
<1>10. ASSUME NEW k \in Nat, k \in T
       PROVE  k + 1 \in T
  <2>1. ASSUME NEW m \in DOMAIN program, m <= k + 1
        PROVE  r[m] \in Nat
    <3>1. CASE m = 1
        BY <1>7, <3>1
    <3>2. CASE m # 1
      <4> DEFINE f == [s \in CallSites |-> r[s[1]] * Rounds(s)]
      <4>1. ASSUME NEW s \in CallsTo(m)
            PROVE  s \in CallSites /\ r[s[1]] * Rounds(s) \in Nat
        <5>1. /\ s \in CallSites /\ s[1] \in DOMAIN program /\ s[1] < m /\ Rounds(s) \in Nat
            BY SiteFacts, SiteItem DEF CallsTo
        <5>2. s[1] <= k
            BY <1>8, <2>1, <5>1
        <5>3. r[s[1]] \in Nat
            BY <1>10, <5>1, <5>2
        <5> QED
            BY <5>1, <5>3, MulNat
      <4>2. \A s \in CallsTo(m) : f[s] \in Nat /\ f[s] = r[s[1]] * Rounds(s)
          BY <4>1
      <4> HIDE DEF f
      <4>3. IsFiniteSet(CallsTo(m))
        <5>1. CallsTo(m) \in SUBSET CallSites /\ IsFiniteSet(CallSites)
            BY SitesFinite DEF CallsTo
        <5> QED
            BY <5>1, FS_Subset
      <4>4. CallsMade(r, CallsTo(m)) = Sum(f, CallsTo(m))
          BY <4>2, <4>3, CallsMadeIsSum
      <4>5. Sum(f, CallsTo(m)) \in Nat
          BY <4>2, <4>3, SumAdds
      <4> QED
          BY <1>7, <3>2, <4>4, <4>5
    <3> QED
        BY <3>1, <3>2
  <2> QED
      BY <2>1
<1>11. Nat \subseteq T
  <2> HIDE DEF T
  <2> QED
      BY <1>9, <1>10, SetInduction
<1>12. \A m \in DOMAIN program : r[m] \in Nat
    BY <1>8, <1>11
<1>13. r \in [DOMAIN program -> Nat]
    BY <1>7, <1>12
<1>14. \A m \in DOMAIN program : r[m] = Value(y, r, m)
    BY <1>7, <1>13, RunsForms DEF y
<1>15. Solves(y, r)
    BY <1>1, <1>13, <1>14 DEF Solves
<1> QED
    BY <1>13, <1>15 DEF y, r

\* Two calls with fewer than four doubles have the same key only if they have
\* the same arguments.
LEMMA SameKey ==
    ASSUME program \in Programs, FewDoubles, NEW s \in CallSites, NEW t \in CallSites
    PROVE  Key(At(s)) = Key(At(t)) <=>
              /\ At(s).callee = At(t).callee
              /\ At(s).ints = At(t).ints
              /\ At(s).doubles = At(t).doubles
<1>1. ASSUME NEW u \in CallSites
      PROVE  Key(At(u)) = [name |-> At(u).callee, ints |-> At(u).ints,
                           doubles |-> At(u).doubles]
  <2> DEFINE d == At(u).doubles
             e == [i \in DOMAIN d |-> IF i < 4 THEN d[i] ELSE <<0, d[i][2]>>]
  <2>1. d \in Seq(Int \X Int) /\ Len(d) < 4
      BY SiteItem DEF FewDoubles
  <2>2. DOMAIN d = 1 .. Len(d) /\ Len(d) \in Nat /\ d = [i \in DOMAIN d |-> d[i]]
      BY <2>1
  <2>3. \A i \in DOMAIN d : i < 4
      BY <2>1, <2>2
  <2>4. e = [i \in DOMAIN d |-> d[i]]
      BY <2>3
  <2>5. Key(At(u)) = [name |-> At(u).callee, ints |-> At(u).ints, doubles |-> e]
      BY DEF Key
  <2> QED
      BY <2>2, <2>4, <2>5
<1> DEFINE P(u) == [name |-> At(u).callee, ints |-> At(u).ints, doubles |-> At(u).doubles]
<1>2. Key(At(s)) = P(s) /\ Key(At(t)) = P(t)
    BY <1>1
<1>3. P(s) = P(t) <=> /\ At(s).callee = At(t).callee
                      /\ At(s).ints = At(t).ints
                      /\ At(s).doubles = At(t).doubles
  <2>1. \A u : P(u).name = At(u).callee /\ P(u).ints = At(u).ints
               /\ P(u).doubles = At(u).doubles
      OBVIOUS
  <2> QED
      BY <2>1
<1> QED
    BY <1>2, <1>3

\* What main needs is the number that the property asks for.
LEMMA NeededIsInvocations ==
    ASSUME program \in Programs, FewDoubles, NEW s \in CallSites
    PROVE  Needed(Calls, Key(At(s)))[1] = Invocations(s)
<1> DEFINE K == Key(At(s))
           r == Runs
           S == {t \in CallSites : /\ At(t).callee = At(s).callee
                                   /\ At(t).ints = At(s).ints
                                   /\ At(t).doubles = At(s).doubles}
           f == [t \in CallSites |-> r[t[1]] * Rounds(t)]
           own == [t \in CallSites |-> r[t[1]] * Own(Calls, K)[t]]
<1>1. Solves(RunSystem(Calls), r) /\ r \in [DOMAIN program -> Nat]
    BY RunsSolve
<1>2. /\ CallGraph(Calls) /\ Calls.sites = CallSites
      /\ Calls.weight = [t \in CallSites |-> Rounds(t)]
      /\ Calls.caller = [t \in CallSites |-> t[1]]
      /\ Calls.key = [t \in CallSites |-> Key(At(t))]
    BY CallsAreGraph, CallFields
<1>3. Invocations(s) = CallsMade(r, S)
    BY DEF Invocations
<1>4. \A t \in CallSites : t \in S <=> Key(At(t)) = K
    BY SameKey
<1>5. S \in SUBSET CallSites /\ IsFiniteSet(CallSites)
    BY SitesFinite
<1> HIDE DEF r, S, K
<1>6. \A t \in CallSites : /\ f[t] = r[t[1]] * Rounds(t)
                           /\ own[t] = r[t[1]] * Own(Calls, K)[t]
    OBVIOUS
<1>7. \A t \in CallSites : Own(Calls, K)[t] = IF Key(At(t)) = K THEN Rounds(t) ELSE 0
    BY <1>2 DEF Own
<1> HIDE DEF f, own
<1>8. ASSUME NEW t \in CallSites
      PROVE  f[t] \in Nat /\ own[t] = IF t \in S THEN f[t] ELSE 0
  <2>1. r[t[1]] \in Nat /\ Rounds(t) \in Nat
      BY <1>1, SiteFacts, SiteItem
  <2>2. CASE t \in S
      BY <1>4, <1>6, <1>7, <2>1, <2>2, MulNat
  <2>3. CASE t \notin S
    <3>1. own[t] = r[t[1]] * 0
        BY <1>4, <1>6, <1>7, <2>3
    <3> QED
        BY <1>6, <2>1, <2>3, <3>1, MulNat
  <2> QED
      BY <2>2, <2>3
<1>9. Sum(own, CallSites) = Sum(f, S)
    BY <1>5, <1>8, SumWhere
<1>10. CallsMade(r, S) = Sum(f, S)
  <2>1. IsFiniteSet(S)
      BY <1>5, FS_Subset
  <2>2. \A t \in S : f[t] \in Nat /\ f[t] = r[t[1]] * Rounds(t)
      BY <1>5, <1>6, <1>8
  <2> QED
      BY <2>1, <2>2, CallsMadeIsSum
<1>11. Needed(Calls, K)[1] = Sum(own, Calls.sites)
  <2>1. \A t \in Calls.sites : own[t] = r[Calls.caller[t]] * Own(Calls, K)[t]
      BY <1>2, <1>6
  <2> QED
      BY <1>1, <1>2, <2>1, Duality
<1> QED
    BY <1>2, <1>3, <1>9, <1>10, <1>11 DEF K

\* When main is over, nothing is due.
LEMMA BalancedAtTheEnd ==
    ASSUME IInv, CountInv
    PROVE  CountsAreInvocations
<1> SUFFICES ASSUME status = "over", AllQuantum, FewDoubles, NEW s \in CallSites
             PROVE  Count(Key(At(s))) = Invocations(s) % Word
    BY DEF CountsAreInvocations
<1> DEFINE K == Key(At(s))
           a == Shares(Calls, K, frames, contents)
           w == Needed(Calls, K)[1]
<1>1. /\ StackType /\ AllTracked /\ Ledgers /\ program \in Programs
      /\ Len(frames) = 1 /\ ~Left(Current) /\ Len(contents) = 1
      /\ \A L \in DOMAIN memos : memos[L] \in 0 .. Word - 1
    BY DEF IInv, StackType, CountInv, AllTracked
<1>2. K # mainKey
  <2>1. K.name = At(s).callee /\ mainKey.name = 1
      BY DEF Key, mainKey
  <2>2. At(s).callee # 1
    <3>1. s[1] \in DOMAIN program /\ At(s).callee \in DOMAIN program /\ s[1] < At(s).callee
        BY <1>1, SiteFacts, SiteItem
    <3> QED
        BY <1>1, <3>1, ProgramModules
  <2> QED
      BY <2>1, <2>2
<1>3. w = Invocations(s)
    BY <1>1, NeededIsInvocations
<1> HIDE DEF K
<1>4. Balanced(Calls, K, frames, contents, memos)
    BY <1>1, <1>2 DEF Ledgers
<1>5. a[1] = 0
  <2>1. /\ 1 \in 1 .. Len(frames) /\ frames \in Seq(Activation) /\ contents \in Seq(Nat)
        /\ Len(contents) >= Len(frames) /\ Current = frames[1]
      BY <1>1 DEF StackType, Current
  <2>2. /\ frames[1].mod \in DOMAIN program /\ frames[1].at \in Nat \ {0}
        /\ Factor(contents, 1) \in Nat
        /\ a[1] = Factor(contents, 1) * Due(Calls, K, frames[1].mod, frames[1].at)
    <3>1. /\ frames[1].mod \in DOMAIN program /\ frames[1].at \in Nat \ {0}
          /\ Factor(contents, 1) \in Nat
        BY <1>1, <2>1, ShareFacts
    <3>2. a[1] = Factor(contents, 1) * Due(Calls, K, frames[1].mod, frames[1].at)
        BY <2>1, ShareIs
    <3> QED
        BY <3>1, <3>2
  <2>3. frames[1].at > Len(program[frames[1].mod].body)
    <3>1. Len(program[frames[1].mod].body) \in Nat
        BY <1>1, <2>2, ProgramModules
    <3> QED
        BY <1>1, <2>1, <2>2, <3>1 DEF Left
  <2>4. Due(Calls, K, frames[1].mod, frames[1].at) = 0
      BY <1>1, <2>2, <2>3, DueFacts
  <2> QED
      BY <2>2, <2>4, Distribute
<1> HIDE DEF a
<1>6. Sum(a, 1 .. 1) = 0
    BY <1>5, OneShare
<1>7. CountIn(memos, K) \in 0 .. Word - 1
    BY <1>1, WordFacts DEF CountIn
<1>8. Congruent(CountIn(memos, K), w)
  <2>1. Congruent(CountIn(memos, K) + Sum(a, 1 .. 1), w)
      BY <1>1, <1>4 DEF Balanced, a
  <2>2. CountIn(memos, K) + Sum(a, 1 .. 1) = CountIn(memos, K)
      BY <1>6, <1>7, WordFacts
  <2> QED
      BY <2>1, <2>2
<1>9. w \in Int
  <2>1. CallGraph(Calls) /\ Calls.mods = DOMAIN program /\ 1 \in DOMAIN program
      BY <1>1, CallsAreGraph, CallFields, ProgramModules
  <2>2. w \in Nat
      BY <2>1, NeededIsCost
  <2> QED
      BY <2>2
<1> HIDE DEF w
<1>10. CountIn(memos, K) = w % Word
    BY <1>7, <1>8, <1>9, CongruentUnique
<1>11. Count(K) = CountIn(memos, K)
    BY DEF Count, CountIn
<1> QED
    BY <1>3, <1>10, <1>11 DEF K

\* At the end every call has been counted as often as it was made.
THEOREM CountsAreInvocationsHolds == Spec => []CountsAreInvocations
<1>1. Init => CountInv
    BY InitCountInv
<1>2. IInv /\ CountInv /\ [Next]_vars => CountInv'
    BY NextCountInv
<1>3. IInv /\ CountInv => CountsAreInvocations
    BY BalancedAtTheEnd
<1> QED
    BY <1>1, <1>2, <1>3, FrequencyIInv, PTL DEF Spec
=============================================================================
