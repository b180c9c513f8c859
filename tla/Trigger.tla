------------------------------ MODULE Trigger ------------------------------
(***************************************************************************)
(* goroutine/test_goroutine_order.go: N goroutines print their numbers in  *)
(* order. Goroutine i spins until the atomic `count` is i, prints, and     *)
(* adds 1; main does the same for N, with nothing to print, and returns.   *)
(***************************************************************************)
EXTENDS Integers, Sequences

CONSTANT N         \* goroutines; 10 in the code

Goroutine == 0..(N - 1)
Proc == 0..N       \* N stands for main

VARIABLES count,
          pc,       \* "new", "load", "fn", "add", "done"
          printed   \* what has been printed

vars == <<count, pc, printed>>

TypeOK ==
  /\ count \in 0..(N + 1)
  /\ pc \in [Proc -> {"new", "load", "fn", "add", "done"}]
  /\ printed \in Seq(Nat)

Init ==
  /\ count = 0
  /\ pc = [p \in Proc |-> "new"]
  /\ printed = <<>>

At(p, label) == pc[N] # "done" /\ pc[p] = label

Goto(p, label) == pc' = [pc EXCEPT ![p] = label]

\* go func(i uint32) {...}(i), in the order of the loop; then main's own trigger.
Go(p) ==
  /\ At(p, "new")
  /\ \A q \in 0..(p - 1) : pc[q] # "new"
  /\ Goto(p, "load")
  /\ UNCHANGED <<count, printed>>

\* if n := atomic.LoadUint32(&count); n == i
LoadAtLeast(p) ==
  /\ At(p, "load")
  /\ Goto(p, IF count >= p - 1 THEN "fn" ELSE "load")
  /\ UNCHANGED <<count, printed>>

Load(p) ==
  /\ At(p, "load")
  /\ Goto(p, IF count = p THEN "fn" ELSE "load")
  /\ UNCHANGED <<count, printed>>

\* fn()
Fn(p) ==
  /\ At(p, "fn")
  /\ printed' = IF p = N THEN printed ELSE Append(printed, p)
  /\ Goto(p, "add")
  /\ UNCHANGED count

\* atomic.AddUint32(&count, 1)
Add(p) ==
  /\ At(p, "add")
  /\ count' = count + 1
  /\ Goto(p, "done")
  /\ UNCHANGED printed

Step(p) == Go(p) \/ Load(p) \/ Fn(p) \/ Add(p)

Exited == pc[N] = "done"

Terminated == Exited /\ UNCHANGED vars

Next == (\E p \in Proc : Step(p)) \/ Terminated

Spec == Init /\ [][Next]_vars /\ \A p \in Proc : WF_vars(Step(p))

-----------------------------------------------------------------------------
(* Properties *)

\* The numbers are printed in order, none twice, and none is left out when main
\* returns.
InOrder ==
  /\ \A k \in 1..Len(printed) : printed[k] = k - 1
  /\ Exited => Len(printed) = N

\* Everyone gets its turn, whatever the order in which the goroutines start.
MainExits == <>Exited
=============================================================================
