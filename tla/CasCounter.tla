----------------------------- MODULE CasCounter -----------------------------
(***************************************************************************)
(* Goroutines that add to one number with compare-and-swap loops:          *)
(* goroutine/demo_waitgroup.go (add 2 until the number reaches max, joined *)
(* by signs and then by a WaitGroup) and goroutine/demo_waitgroup2.go (add *)
(* 1 once each, launched in batches of `stride` on one WaitGroup).         *)
(*                                                                         *)
(* main launches a batch in one step: a goroutine that is launched and has *)
(* not run is the same as one that is still to be launched, because the    *)
(* WaitGroup counts it from before its `go`.                               *)
(***************************************************************************)
EXTENDS Integers, Sequences, FiniteSets, FiniteSetsExt

CONSTANTS Programs,   \* the programs; one of them runs
          SignCap     \* capacity of the channel sign

  \* A program is a record:
  \*   batches    sequence of [gs, join, fresh]: goroutines, "wg" or "sign", and
  \*              whether the batch has a number of its own;
  \*   top        max: addNum leaves when the number is at least top;
  \*   increment  what a successful swap adds;
  \*   single     whether addNum leaves after its first success.

VARIABLES program,
          num,
          currNum,   \* currNum[g]: what g loaded
          wins,      \* wins[g]: successful swaps g has printed
          pc,        \* "new", "load", "swap", "defer", "done"
          wg, sign, received,
          batch, main   \* main: "launch", "join" or "exit"

vars == <<program, num, currNum, wins, pc, wg, sign, received, batch, main>>
joinVars == <<wg, sign, received>>
mainVars == <<batch, main>>

Batches == program.batches
B == Batches[batch]
Top == program.top
Increment == program.increment
Single == program.single

AllGoroutines == UNION {Batches[b].gs : b \in 1..Len(Batches)}
Goroutine == UNION {UNION {p.batches[b].gs : b \in 1..Len(p.batches)} : p \in Programs}

TypeOK ==
  /\ program \in Programs
  /\ num \in 0..(Top + Increment)
  /\ currNum \in [AllGoroutines -> Nat] /\ wins \in [AllGoroutines -> Nat]
  /\ pc \in [AllGoroutines -> {"new", "load", "swap", "defer", "done"}]
  /\ wg \in 0..Cardinality(B.gs) /\ sign \in 0..SignCap
  /\ received \in 0..Cardinality(B.gs)
  /\ batch \in 1..Len(Batches) /\ main \in {"launch", "join", "exit"}

Init ==
  /\ program \in Programs
  /\ num = 0
  /\ currNum = [g \in AllGoroutines |-> 0]
  /\ wins = [g \in AllGoroutines |-> 0]
  /\ pc = [g \in AllGoroutines |-> "new"]
  /\ wg = 0 /\ sign = 0 /\ received = 0
  /\ batch = 1 /\ main = "launch"

At(g, label) == main # "exit" /\ g \in AllGoroutines /\ pc[g] = label

Goto(g, label) == pc' = [pc EXCEPT ![g] = label]

-----------------------------------------------------------------------------
(* addNum *)

\* currNum := atomic.LoadInt32(numP), and the test against max.
Load(g) ==
  /\ At(g, "load")
  /\ currNum' = [currNum EXCEPT ![g] = num]
  /\ Goto(g, IF ~Single /\ num >= Top THEN "defer" ELSE "swap")
  /\ UNCHANGED <<program, num, wins, joinVars, mainVars>>

\* atomic.CompareAndSwapInt32(numP, currNum, currNum + Increment)
StoreUncompared(g) ==
  /\ At(g, "swap")
  /\ num' = currNum[g] + Increment
  /\ wins' = [wins EXCEPT ![g] = @ + 1]
  /\ Goto(g, IF Single THEN "defer" ELSE "load")
  /\ UNCHANGED <<program, currNum, joinVars, mainVars>>

SwapWithoutRetry(g) ==
  /\ At(g, "swap")
  /\ IF num = currNum[g]
       THEN num' = num + Increment /\ wins' = [wins EXCEPT ![g] = @ + 1]
       ELSE UNCHANGED <<num, wins>>
  /\ Goto(g, IF Single THEN "defer" ELSE "load")
  /\ UNCHANGED <<program, currNum, joinVars, mainVars>>

SwapStale(g) ==
  /\ At(g, "swap")
  /\ IF num = currNum[g]
       THEN /\ num' = num + Increment
            /\ wins' = [wins EXCEPT ![g] = @ + 1]
            /\ Goto(g, IF Single THEN "defer" ELSE "load")
       ELSE UNCHANGED <<num, wins, pc>>
  /\ UNCHANGED <<program, currNum, joinVars, mainVars>>

Swap(g) ==
  /\ At(g, "swap")
  /\ IF num = currNum[g]
       THEN /\ num' = num + Increment
            /\ wins' = [wins EXCEPT ![g] = @ + 1]
            /\ Goto(g, IF Single THEN "defer" ELSE "load")
       ELSE Goto(g, "load") /\ UNCHANGED <<num, wins>>
  /\ UNCHANGED <<program, currNum, joinVars, mainVars>>

\* defer deferFunc(): wg.Done, or a send on sign.
Defer(g) ==
  /\ At(g, "defer")
  /\ \/ B.join = "wg" /\ wg' = wg - 1 /\ UNCHANGED sign
     \/ B.join = "sign" /\ sign < SignCap /\ sign' = sign + 1 /\ UNCHANGED wg
  /\ Goto(g, "done")
  /\ UNCHANGED <<program, num, currNum, wins, received, mainVars>>

Step(g) == Load(g) \/ Swap(g) \/ Defer(g)

-----------------------------------------------------------------------------
(* main *)

\* num := 0 where the batch has a number of its own, wg.Add, the go statements.
LaunchWithoutAdd ==
  /\ main = "launch"
  /\ num' = IF B.fresh THEN 0 ELSE num
  /\ wg' = IF B.join = "wg" THEN Cardinality(B.gs) - 1 ELSE 0
  /\ pc' = [g \in AllGoroutines |-> IF g \in B.gs THEN "load" ELSE pc[g]]
  /\ received' = 0
  /\ main' = "join"
  /\ UNCHANGED <<program, currNum, wins, sign, batch>>

Launch ==
  /\ main = "launch"
  /\ num' = IF B.fresh THEN 0 ELSE num
  /\ wg' = IF B.join = "wg" THEN Cardinality(B.gs) ELSE 0
  /\ pc' = [g \in AllGoroutines |-> IF g \in B.gs THEN "load" ELSE pc[g]]
  /\ received' = 0
  /\ main' = "join"
  /\ UNCHANGED <<program, currNum, wins, sign, batch>>

Joined ==
  IF batch < Len(Batches) THEN batch' = batch + 1 /\ main' = "launch"
                          ELSE batch' = batch /\ main' = "exit"

\* wg.Wait()
Wait ==
  /\ main = "join" /\ B.join = "wg" /\ wg = 0
  /\ Joined
  /\ UNCHANGED <<program, num, currNum, wins, pc, joinVars>>

\* <-sign, once for each goroutine
Receive ==
  /\ main = "join" /\ B.join = "sign" /\ sign > 0
  /\ sign' = sign - 1
  /\ received' = received + 1
  /\ IF received' = Cardinality(B.gs) THEN Joined ELSE UNCHANGED mainVars
  /\ UNCHANGED <<program, num, currNum, wins, pc, wg>>

Main == Launch \/ Wait \/ Receive

Terminated == main = "exit" /\ UNCHANGED vars

Next == (\E g \in AllGoroutines : Step(g)) \/ Main \/ Terminated

Spec == Init /\ [][Next]_vars /\ WF_vars(Main) /\ \A g \in Goroutine : WF_vars(Step(g))

-----------------------------------------------------------------------------
(* Properties *)

Won(S) == MapThenSumSet(LAMBDA g : wins[g], S)

\* The batches that share the number of batch b, up to b.
Sharing(b) == {c \in 1..b : \A d \in (c + 1)..b : ~Batches[d].fresh}

\* The number is the increment times the successes printed: no success is
\* lost, and no failed swap counts.
EverySuccessCounts ==
  main # "launch" =>
    num = Increment * Won(UNION {Batches[c].gs : c \in Sharing(batch)})

\* When main has joined a batch its goroutines have finished their work: the
\* number has reached Top, or each of them has added to it exactly once.
JoinedBatchComplete ==
  \A b \in 1..Len(Batches) :
    (b < batch \/ main = "exit") =>
      /\ \A g \in Batches[b].gs : Single => wins[g] = 1
      /\ ~Single => Won(Batches[b].gs) * Increment = Top

\* Although a swap may fail again and again, everybody finishes: each failure
\* is some other goroutine's success.
MainExits == <>(main = "exit")
=============================================================================
