----------------------------- MODULE AtomicInts -----------------------------
(***************************************************************************)
(* goroutine/demo_atomic0.go: each function makes a few calls of           *)
(* sync/atomic on one number and prints it. addDemo subtracts from a       *)
(* uint32, once by converting a negative delta and once by the complement  *)
(* of -delta - 1; delta is -3 in the code. Numbers are words of W values.  *)
(***************************************************************************)
EXTENDS Integers, Sequences

CONSTANTS W,           \* 2^32 in the code
          Subtracted   \* the values of -delta; an int32 goes down to -(W \div 2)

VARIABLES prog, delta, step,
          num,
          old,         \* what SwapInt32 has returned
          printed      \* num after each call

vars == <<prog, delta, step, num, old, printed>>

Word(n) == n % W
Incremented(n) == W - n              \* mistake: two's complement twice
Complement(n) == W - 1 - n

Call(op, x, y) == [op |-> op, x |-> x, y |-> y]
Programs ==
  [demo1 |-> <<Call("add", Word(3), 0), Call("add", Word(-3), 0)>>,
   demo2 |-> <<Call("store", 30, 0), Call("swap", 60, 0)>>,
   addDemo |-> <<Call("add", Word(delta), 0), Call("add", Complement(Word(-delta - 1)), 0)>>,
   CompareAndSwap |-> <<Call("cas", 20, 0), Call("cas", 18, 0)>>]

Init ==
  /\ prog \in {"demo1", "demo2", "addDemo", "CompareAndSwap"}
  /\ delta \in {-d : d \in Subtracted}
  /\ step = 1
  /\ num = IF prog \in {"demo1", "demo2"} THEN 20 ELSE 18
  /\ old = 0 /\ printed = <<>>

Swapped(c) == c.y                    \* mistake: without the comparison
SwappedIfEqual(c) == IF num = c.x THEN c.y ELSE num

After(c) ==
  CASE c.op = "add" -> Word(num + c.x)
    [] c.op \in {"store", "swap"} -> c.x
    [] c.op = "cas" -> SwappedIfEqual(c)

Step ==
  LET c == Programs[prog][step] IN
  /\ step <= Len(Programs[prog])
  /\ num' = After(c)
  /\ old' = IF c.op = "swap" THEN num ELSE old
  /\ printed' = Append(printed, num')
  /\ step' = step + 1
  /\ UNCHANGED <<prog, delta>>

Finished == step > Len(Programs[prog])
Terminated == Finished /\ UNCHANGED vars

Next == Step \/ Terminated

Spec == Init /\ [][Next]_vars

-----------------------------------------------------------------------------
(* Properties *)

\* Both ways to subtract take off the same, below 0 around the end of the
\* words (lines 29-40), a swap returns what was there (24-26), and a comparison
\* that fails leaves the number alone (46-49).
Prints ==
  Finished =>
    CASE prog = "demo1" -> printed = <<23, 20>>
      [] prog = "demo2" -> printed = <<30, 60>> /\ old = 30
      [] prog = "addDemo" -> printed = <<Word(18 + delta), Word(18 + 2 * delta)>>
      [] prog = "CompareAndSwap" -> printed = <<18, 0>>
=============================================================================
