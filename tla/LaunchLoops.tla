---------------------------- MODULE LaunchLoops -----------------------------
(***************************************************************************)
(* Two programs whose goroutines share variables with main and with each   *)
(* other without a lock: goroutine/test_goroutine.go, where they print the *)
(* loop variable of main, and goroutine/demo2.go, where each writes one    *)
(* element of count1 and prints all of it.                                 *)
(*                                                                         *)
(* The races are on words, so a read returns some value that was written.  *)
(* Up to Go 1.21 the loop has one variable that every goroutine shares,    *)
(* from then on each iteration has its own; the repository names no        *)
(* version, and perIteration is either.                                    *)
(***************************************************************************)
EXTENDS Integers, Sequences, FiniteSets

CONSTANT num           \* the goroutines; 10 and 100 in the code

VARIABLES prog,        \* "test_goroutine" or "demo2"
          perIteration,
          i,           \* main's loop variable
          received,    \* the elements main has received from sign
          pc,          \* goroutine -> "none", "start", "print", "sign" or "done"
          printed,     \* goroutine -> the number it has printed
          count1,      \* element -> its value
          shown        \* goroutine -> the elements it has read for Println(count1)

vars == <<prog, perIteration, i, received, pc, printed, count1, shown>>

Goroutines == 0..(num - 1)

Init ==
  /\ prog \in {"test_goroutine", "demo2"} /\ perIteration \in BOOLEAN
  /\ i = 0 /\ received = 0
  /\ pc = [g \in Goroutines |-> "none"]
  /\ printed = [g \in Goroutines |-> -1]
  /\ count1 = [g \in Goroutines |-> 0] /\ shown = [g \in Goroutines |-> <<>>]

To(g, label) == pc' = [pc EXCEPT ![g] = label]

LaunchOneLess ==               \* mistake: the last goroutine is forgotten
  /\ i < num - 1 /\ pc[i] = "none"
  /\ To(i, "start")
  /\ UNCHANGED <<prog, perIteration, i, received, printed, count1, shown>>

\* The go statement; the arguments of testdemo are evaluated here.
Launch ==
  /\ i < num /\ pc[i] = "none"
  /\ To(i, "start")
  /\ UNCHANGED <<prog, perIteration, i, received, printed, count1, shown>>

\* i++, when the goroutine may already run
Increment ==
  /\ i < num /\ pc[i] # "none"
  /\ i' = i + 1
  /\ UNCHANGED <<prog, perIteration, received, pc, printed, count1, shown>>

\* The i of goroutine g of test_goroutine.go (mistake: of every version).
SeenAlways(g) == i
Seen(g) == IF perIteration THEN g ELSE i

PrintI(g) ==
  /\ prog = "test_goroutine" /\ pc[g] = "start"
  /\ printed' = [printed EXCEPT ![g] = Seen(g)]
  /\ To(g, "sign")
  /\ UNCHANGED <<prog, perIteration, i, received, count1, shown>>

\* sign has room for all of them, so that no send blocks.
Sign(g) ==
  /\ pc[g] = "sign" /\ To(g, "done")
  /\ UNCHANGED <<prog, perIteration, i, received, printed, count1, shown>>

ReceiveFewer ==                \* mistake: one receive too few
  /\ prog = "test_goroutine" /\ i = num /\ received < num
  /\ received < Cardinality({g \in Goroutines : pc[g] = "done"})
  /\ received' = IF received = num - 2 THEN num ELSE received + 1
  /\ UNCHANGED <<prog, perIteration, i, pc, printed, count1, shown>>

Receive ==
  /\ prog = "test_goroutine" /\ i = num /\ received < num
  /\ received < Cardinality({g \in Goroutines : pc[g] = "done"})
  /\ received' = received + 1
  /\ UNCHANGED <<prog, perIteration, i, pc, printed, count1, shown>>

\* count1[i] = i; the mistake writes where main's loop is.
ElementOfMain(g) == IF i < num THEN i ELSE g
Element(g) == g

WriteElement(g) ==
  /\ prog = "demo2" /\ pc[g] = "start"
  /\ count1' = [count1 EXCEPT ![Element(g)] = g]
  /\ To(g, "print")
  /\ UNCHANGED <<prog, perIteration, i, received, printed, shown>>

\* fmt.Println reads element after element, while others are written.
ReadElement(g) ==
  /\ pc[g] = "print" /\ Len(shown[g]) < num
  /\ shown' = [shown EXCEPT ![g] = Append(@, count1[Len(@)])]
  /\ IF Len(shown[g]) = num - 1 THEN To(g, "done") ELSE UNCHANGED pc
  /\ UNCHANGED <<prog, perIteration, i, received, printed, count1>>

\* main of test_goroutine.go has returned; that of demo2.go sleeps for ever.
Exited == received = num
Terminated == (Exited \/ (prog = "demo2" /\ \A g \in Goroutines : pc[g] = "done")) /\ UNCHANGED vars

Main == Launch \/ Increment \/ Receive
Step(g) == PrintI(g) \/ Sign(g) \/ WriteElement(g) \/ ReadElement(g)

Next == Main \/ Terminated \/ \E g \in Goroutines : Step(g)

Spec == Init /\ [][Next]_vars /\ WF_vars(Main) /\ \A g \in Goroutines : WF_vars(Step(g))

-----------------------------------------------------------------------------
(* Properties *)

\* A goroutine that shares the loop variable prints a number main has reached
\* since it was launched, never one of before; with a variable for each
\* iteration it prints its own (test_goroutine.go:12-16).
PrintsReached ==
  \A g \in Goroutines : printed[g] # -1 =>
    IF perIteration THEN printed[g] = g ELSE printed[g] \in g..i

\* When main of test_goroutine.go returns, every goroutine has printed (23-25).
AllPrinted == Exited => \A g \in Goroutines : printed[g] # -1

\* What a goroutine of demo2.go prints has its own element, and an element of
\* another one or 0 in each other place: nothing is written twice, although
\* nothing is locked (demo2.go:10-14).
PrintsOwnElement ==
  \A g \in Goroutines : \A k \in 1..Len(shown[g]) :
    /\ shown[g][k] \in {0, k - 1}
    /\ k = g + 1 => shown[g][k] = g

\* Every goroutine has come to its end, and main of test_goroutine.go to its own.
Ended ==
  /\ \A g \in Goroutines : pc[g] = "done"
  /\ prog = "test_goroutine" => Exited
=============================================================================
