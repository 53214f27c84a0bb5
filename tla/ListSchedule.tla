----------------------------- MODULE ListSchedule -----------------------------
(***************************************************************************)
(* What a list scheduler promises.  Jobs are placed one step after the     *)
(* other, never before the jobs they depend on: in a later step if the     *)
(* schedule is strict, else in the same step at the earliest.  A step is   *)
(* left only when something was placed in it, and only while jobs remain   *)
(* or at the end, so that there are no more steps than jobs.               *)
(***************************************************************************)
EXTENDS Integers

VARIABLES
    problem,    \* the jobs, their dependencies, and whether it is strict
    step,       \* current step
    placed      \* step of each job, -1 for none

lvars == <<problem, step, placed>>

LInit ==
    /\ problem.deps \subseteq problem.jobs \X problem.jobs
    /\ step = 0
    /\ placed = [j \in problem.jobs |-> -1]

Before(j) == {i \in problem.jobs : <<i, j>> \in problem.deps}

MayStart(j) ==
    /\ placed[j] = -1
    /\ \A i \in Before(j) :
          /\ placed[i] # -1
          /\ problem.strict => placed[i] < step

Place(S) ==
    /\ \A j \in S : MayStart(j)
    /\ placed' = [j \in problem.jobs |-> IF j \in S THEN step ELSE placed[j]]
    /\ UNCHANGED <<problem, step>>

NextStep ==
    /\ \E j \in problem.jobs : placed[j] = step
    /\ step' = step + 1
    /\ UNCHANGED <<problem, placed>>

LNext == NextStep \/ \E S \in SUBSET problem.jobs : Place(S)

LSpec == LInit /\ [][LNext]_lvars
=============================================================================
