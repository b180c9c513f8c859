---------------------------- MODULE AtomicProofs ----------------------------
(***************************************************************************)
(* What the programs on sync/atomic keep true, for any number of           *)
(* goroutines, amounts, totals and batches:                                *)
(*   - test_goroutine_order.go (TurnInv): one goroutine at a time is       *)
(*     between its load and its add, the one whose number count holds;     *)
(*   - demo_context.go (DepositInv): the balance is what was deposited     *)
(*     less what was withdrawn, and it covers the withdrawal when main     *)
(*     comes to it; the error of the context is set once;                  *)
(*   - demo_TryLock.go (FillInv): every balance is a number of whole       *)
(*     deposits, so the test for equality is not jumped over;              *)
(*   - demo_waitgroup.go and demo_waitgroup2.go (AddInv): the number is    *)
(*     the sum of the successes of the batches that share it, and only the *)
(*     goroutines of the batch main joins can change it.                   *)
(* A step of one program is a step of no other, so each invariant is kept  *)
(* by its own module's Next.                                               *)
(***************************************************************************)
EXTENDS AtomicDemos, SumFacts

-----------------------------------------------------------------------------
(* The goroutines in order: `count` of them are done, the next one is the   *)
(* only one between its load and its add, and what has been printed has     *)
(* that many elements.                                                      *)

TurnInv ==
  /\ count \in 0..(N + 1)
  /\ pc \in [0..N -> {"new", "load", "fn", "add", "done"}]
  /\ printed \in Seq(Nat)
  /\ \A p \in 0..N : pc[p] = "done" <=> p < count
  /\ \A p \in 0..N : pc[p] \in {"fn", "add"} => p = count
  /\ Len(printed) = (IF count >= N THEN N ELSE IF pc[count] = "add" THEN count + 1 ELSE count)
  /\ \A k \in 1..Len(printed) : printed[k] = k - 1

TriggerInv == running = "Trigger" => TurnInv

\* Nothing has been counted or printed before the first step.
LEMMA TriggerStarts == Init => TriggerInv
<1> SUFFICES ASSUME Init, running = "Trigger" PROVE TurnInv
  BY DEF TriggerInv
<1>1. Turns!Init
  BY DEF Init
<1>2. N \in Nat
  BY AtomicDemosAssumption
<1> QED
  BY <1>1, <1>2 DEF Turns!Init, Turns!Proc, TurnInv

\* Whoever has loaded its own number holds the turn until it has added 1.
LEMMA TurnIsKept ==
  ASSUME TurnInv, Turns!Next
  PROVE  TurnInv'
<1> USE DEF TurnInv, Turns!At, Turns!Goto, Turns!Proc
<1>1. N \in Nat
  BY AtomicDemosAssumption
<1>2. ASSUME NEW p \in 0..N, Turns!Go(p) PROVE TurnInv'
  BY <1>1, <1>2 DEF Turns!Go
<1>3. ASSUME NEW p \in 0..N, Turns!Load(p) PROVE TurnInv'
  BY <1>1, <1>3 DEF Turns!Load
<1>4. ASSUME NEW p \in 0..N, Turns!Fn(p) PROVE TurnInv'
  BY <1>1, <1>4 DEF Turns!Fn
<1>5. ASSUME NEW p \in 0..N, Turns!Add(p) PROVE TurnInv'
  BY <1>1, <1>5 DEF Turns!Add
<1>6. CASE Turns!Terminated
  BY <1>6 DEF Turns!Terminated, Turns!vars
<1> QED
  BY <1>2, <1>3, <1>4, <1>5, <1>6 DEF Turns!Next, Turns!Step

LEMMA TriggerKept == TriggerInv /\ [Next]_vars => TriggerInv'
<1> SUFFICES ASSUME TriggerInv, [Next]_vars, running' = "Trigger" PROVE TurnInv'
  BY DEF TriggerInv
<1>1. CASE OfTrigger(Turns!Next)
  BY <1>1, TurnIsKept DEF OfTrigger, TriggerInv
<1>2. CASE UNCHANGED vars
  BY <1>2 DEF vars, triggerVars, TriggerInv, TurnInv
<1>3. CASE OfCas(Cas!Next) \/ OfSpin(Spin!Next) \/ OfContext(Ctx!Next)
  BY <1>3 DEF OfCas, OfSpin, OfContext
<1> QED
  BY <1>1, <1>2, <1>3 DEF Next

LEMMA TriggerInvariant == Spec => []TriggerInv
BY TriggerStarts, TriggerKept, PTL DEF Spec

\* test_goroutine_order.go prints the numbers 0 to N - 1 in order, whatever the
\* order in which its goroutines start and spin, and all of them before main
\* returns (lines 16-33).
THEOREM PrintsInOrder == Spec => []InOrder
<1>1. TriggerInv => InOrder
  <2> SUFFICES ASSUME TurnInv PROVE Turns!InOrder
    BY DEF TriggerInv, InOrder
  <2> QED
    BY AtomicDemosAssumption DEF TurnInv, Turns!InOrder, Turns!Exited
<1> QED
  BY <1>1, TriggerInvariant, PTL

-----------------------------------------------------------------------------
(* The deposits of demo_context.go: the balance is what the goroutines past *)
(* their swap have added to it; from the moment one of them finds the total *)
(* reached, it stays reached until main withdraws it; and while the context *)
(* has not ended, the swap that reached the total has its test before it.   *)

Taken == IF Ctx!Withdraws /\ main = "exit" THEN Needed ELSE 0

ContextTypes ==
  /\ Ctx!TypeOK
  /\ balance \in Nat
  /\ \A d \in Depositors : pc[d] = "cancel" => Ctx!Cancels

PaidInv == balance = Funds + Sum(num, Ctx!Deposited) - Taken

CoveredInv ==
  /\ main # "exit" =>
       /\ \A d \in Depositors : pc[d] = "cancel" => balance >= Needed
       /\ Ctx!Cancels /\ Ctx!Deposited # {} /\ balance >= Needed /\ err = "nil"
            => \E d \in Depositors : pc[d] \in {"defer", "cancel"}
  /\ err = "canceled" => balance + Taken >= Needed
  /\ main \in {"load", "swap", "exit"} => err # "nil"
  /\ main \in {"load", "swap"} => Ctx!Withdraws

DepositInv == ContextTypes /\ PaidInv /\ CoveredInv

ContextInv == running = "CancelContext" => DepositInv

LEMMA ContextStarts == Init => ContextInv
<1> SUFFICES ASSUME Init, running = "CancelContext" PROVE DepositInv
  BY DEF ContextInv
<1>1. Ctx!Init
  BY DEF Init
<1> USE <1>1, AtomicDemosAssumption DEF Ctx!Init, Ctx!Main
<1>2. ContextTypes
  BY DEF ContextTypes, Ctx!TypeOK
<1>3. PaidInv
  <2>1. Ctx!Deposited = {}
    BY DEF Ctx!Deposited
  <2>2. Taken = 0
    BY DEF Taken
  <2> QED
    BY <2>1, <2>2, SumEmpty DEF PaidInv
<1>4. CoveredInv
  BY DEF CoveredInv, Ctx!Deposited
<1> QED
  BY <1>2, <1>3, <1>4 DEF DepositInv

LEMMA AmountsAreNat == DepositInv => \A d \in Depositors : num[d] \in Nat
<1>1. Amounts \cup {0} \subseteq Nat
  BY AtomicDemosAssumption
<1> QED
  BY <1>1 DEF DepositInv, ContextTypes, Ctx!TypeOK

\* What the goroutines add is a number, and no step makes the balance smaller
\* but the withdrawal, which finds it covered.
LEMMA DepositTypes ==
  ASSUME DepositInv, Ctx!Next
  PROVE  ContextTypes'
<1> USE AtomicDemosAssumption DEF DepositInv, ContextTypes, Ctx!TypeOK, Ctx!At, Ctx!Goto,
      Ctx!Main, Ctx!Cancels, Ctx!Timer, Ctx!Withdraws
<1>0. \A e \in Depositors : num[e] \in Nat
  BY AmountsAreNat
<1>1. ASSUME NEW d \in Depositors, Ctx!DepositLoad(d) PROVE ContextTypes'
  BY <1>1 DEF Ctx!DepositLoad
<1>2. ASSUME NEW d \in Depositors, Ctx!DepositSwap(d) PROVE ContextTypes'
  BY <1>0, <1>2 DEF Ctx!DepositSwap
<1>3. ASSUME NEW d \in Depositors, Ctx!Defer(d) PROVE ContextTypes'
  BY <1>3 DEF Ctx!Defer
<1>4. ASSUME NEW d \in Depositors, Ctx!Cancel(d) PROVE ContextTypes'
  BY <1>4 DEF Ctx!Cancel
<1>5. CASE Ctx!Expire
  BY <1>5 DEF Ctx!Expire
<1>6. ASSUME NEW d \in Depositors, Ctx!Launch(d) PROVE ContextTypes'
  BY <1>6 DEF Ctx!Launch
<1>7. CASE Ctx!Launched
  BY <1>7 DEF Ctx!Launched
<1>8. CASE Ctx!Awake
  BY <1>8 DEF Ctx!Awake
<1>9. CASE Ctx!WithdrawLoad
  BY <1>9 DEF Ctx!WithdrawLoad
<1>10. CASE Ctx!WithdrawSwap
  BY <1>10 DEF Ctx!WithdrawSwap, CoveredInv, Taken
<1>11. CASE Ctx!Terminated
  BY <1>11 DEF Ctx!Terminated, Ctx!vars
<1> QED
  BY <1>1, <1>2, <1>3, <1>4, <1>5, <1>6, <1>7, <1>8, <1>9, <1>10, <1>11
     DEF Ctx!Next, Ctx!Deposit, Ctx!MainStep

\* A deposit enters the sum with the swap that adds it, and never again; the
\* amounts that main still draws are not in the sum yet.
LEMMA DepositsPaid ==
  ASSUME DepositInv, Ctx!Next
  PROVE  PaidInv'
<1> DEFINE D == Ctx!Deposited
<1> USE AtomicDemosAssumption DEF DepositInv, ContextTypes, Ctx!TypeOK, Ctx!At, Ctx!Goto,
      Ctx!Main, Ctx!Cancels, Ctx!Timer
<1>0. \A e \in Depositors : num[e] \in Nat
  BY AmountsAreNat
<1>1. IsFiniteSet(D) /\ D \subseteq Depositors
  BY FS_Subset DEF Ctx!Deposited
<1>2. Sum(num, D) \in Int /\ Taken \in Int
  <2>1. Sum(num, D) \in Int
    <3>1. \A e \in D : num[e] \in Int
      BY <1>0, <1>1
    <3> HIDE DEF D
    <3> QED
      BY <1>1, <3>1, SumType
  <2> QED
    BY <2>1 DEF Taken
<1>3. (D' = D /\ balance' = balance /\ num' = num /\ Taken' = Taken) => PaidInv'
  BY DEF PaidInv
<1>4. ASSUME NEW d \in Depositors, Ctx!DepositSwap(d) PROVE PaidInv'
  <2>1. CASE balance = curr[d]
    <3>1. d \notin D /\ D' = D \cup {d}
      BY <1>4, <2>1 DEF Ctx!DepositSwap, Ctx!Deposited
    <3>2. Sum(num, D \cup {d}) = Sum(num, D) + num[d]
      <4>1. \A e \in D \cup {d} : num[e] \in Int
        BY <1>0, <1>1
      <4> HIDE DEF D
      <4> QED
        BY <1>1, <3>1, <4>1, SumAdd
    <3>3. balance' = balance + num[d] /\ num' = num /\ Taken' = Taken /\ num[d] \in Int
      BY <1>0, <1>4, <2>1 DEF Ctx!DepositSwap, Taken, Ctx!Withdraws
    <3> QED
      BY <1>2, <3>1, <3>2, <3>3 DEF PaidInv
  <2>2. CASE balance # curr[d]
    <3>1. D' = D
      BY <1>4, <2>2 DEF Ctx!DepositSwap, Ctx!Deposited
    <3> QED
      BY <1>3, <1>4, <2>2, <3>1 DEF Ctx!DepositSwap, Taken, Ctx!Withdraws
  <2> QED
    BY <2>1, <2>2
<1>5. ASSUME NEW d \in Depositors, Ctx!Launch(d) PROVE PaidInv'
  <2>1. d \notin D /\ D' = D
    BY <1>5 DEF Ctx!Launch, Ctx!Deposited
  <2>2. \A e \in D : num'[e] = num[e]
    BY <1>1, <1>5, <2>1 DEF Ctx!Launch
  <2>3. Sum(num', D) = Sum(num, D)
    BY <1>1, <2>2, SumSame
  <2> QED
    BY <1>5, <2>1, <2>3 DEF PaidInv, Ctx!Launch, Taken, Ctx!Withdraws
<1>6. CASE Ctx!WithdrawSwap
  <2>1. D' = D /\ num' = num
    BY <1>6 DEF Ctx!WithdrawSwap, Ctx!Deposited
  <2>2. CASE balance = curr["main"]
    <3>1. Taken = 0 /\ Taken' = Needed /\ balance' = balance - Needed
      BY <1>6, <2>2 DEF Ctx!WithdrawSwap, CoveredInv, Taken, Ctx!Withdraws
    <3> QED
      BY <1>2, <2>1, <3>1 DEF PaidInv
  <2>3. CASE balance # curr["main"]
    BY <1>3, <1>6, <2>1, <2>3 DEF Ctx!WithdrawSwap, Taken, Ctx!Withdraws
  <2> QED
    BY <2>2, <2>3
<1>7. ASSUME NEW d \in Depositors, Ctx!DepositLoad(d) \/ Ctx!Defer(d) \/ Ctx!Cancel(d)
      PROVE  PaidInv'
  <2>1. D' = D
    BY <1>7 DEF Ctx!DepositLoad, Ctx!Defer, Ctx!Cancel, Ctx!Deposited
  <2> QED
    BY <1>3, <1>7, <2>1
       DEF Ctx!DepositLoad, Ctx!Defer, Ctx!Cancel, Taken, Ctx!Withdraws
<1>8. CASE Ctx!Expire \/ Ctx!Launched \/ Ctx!Awake \/ Ctx!WithdrawLoad \/ Ctx!Terminated
  <2>1. D' = D
    BY <1>8 DEF Ctx!Expire, Ctx!Launched, Ctx!Awake, Ctx!WithdrawLoad, Ctx!Terminated,
                Ctx!vars, Ctx!Deposited
  <2>2. balance' = balance /\ num' = num
    BY <1>8 DEF Ctx!Expire, Ctx!Launched, Ctx!Awake, Ctx!WithdrawLoad, Ctx!Terminated,
                Ctx!vars
  <2>3. Taken' = Taken
    BY <1>8 DEF Ctx!Expire, Ctx!Launched, Ctx!Awake, Ctx!WithdrawLoad, Ctx!Terminated,
                Ctx!vars, Taken, Ctx!Withdraws
  <2> QED
    BY <1>3, <2>1, <2>2, <2>3
<1> QED
  BY <1>4, <1>5, <1>6, <1>7, <1>8 DEF Ctx!Next, Ctx!Deposit, Ctx!MainStep

\* The test that cancels and the withdrawal may be far apart: the balance has
\* only grown in between.
LEMMA TotalCovered ==
  ASSUME DepositInv, Ctx!Next
  PROVE  CoveredInv'
<1> USE AtomicDemosAssumption DEF DepositInv, ContextTypes, Ctx!TypeOK, Ctx!At, Ctx!Goto,
      Ctx!Main, Ctx!Cancels, Ctx!Timer, Ctx!Withdraws, Ctx!Deposited, Taken,
      CoveredInv
<1>0. \A e \in Depositors : num[e] \in Nat
  BY AmountsAreNat
<1>1. ASSUME NEW d \in Depositors, Ctx!DepositLoad(d) PROVE CoveredInv'
  BY <1>1 DEF Ctx!DepositLoad
<1>2. ASSUME NEW d \in Depositors, Ctx!DepositSwap(d) PROVE CoveredInv'
  BY <1>0, <1>2 DEF Ctx!DepositSwap
<1>3. ASSUME NEW d \in Depositors, Ctx!Defer(d) PROVE CoveredInv'
  BY <1>3 DEF Ctx!Defer
<1>4. ASSUME NEW d \in Depositors, Ctx!Cancel(d) PROVE CoveredInv'
  BY <1>4 DEF Ctx!Cancel
<1>5. CASE Ctx!Expire
  BY <1>5 DEF Ctx!Expire
<1>6. ASSUME NEW d \in Depositors, Ctx!Launch(d) PROVE CoveredInv'
  BY <1>6 DEF Ctx!Launch
<1>7. CASE Ctx!Launched
  BY <1>7 DEF Ctx!Launched
<1>8. CASE Ctx!Awake
  BY <1>8 DEF Ctx!Awake
<1>9. CASE Ctx!WithdrawLoad
  BY <1>9 DEF Ctx!WithdrawLoad
<1>10. CASE Ctx!WithdrawSwap
  BY <1>10 DEF Ctx!WithdrawSwap
<1>11. CASE Ctx!Terminated
  BY <1>11 DEF Ctx!Terminated, Ctx!vars
<1> QED
  BY <1>1, <1>2, <1>3, <1>4, <1>5, <1>6, <1>7, <1>8, <1>9, <1>10, <1>11
     DEF Ctx!Next, Ctx!Deposit, Ctx!MainStep

LEMMA ContextKept == ContextInv /\ [Next]_vars => ContextInv'
<1> SUFFICES ASSUME ContextInv, [Next]_vars, running' = "CancelContext" PROVE DepositInv'
  BY DEF ContextInv
<1>1. CASE OfContext(Ctx!Next)
  BY <1>1, DepositTypes, DepositsPaid, TotalCovered DEF OfContext, ContextInv, DepositInv
<1>2. CASE UNCHANGED vars
  BY <1>2 DEF vars, contextVars, ContextInv, DepositInv, ContextTypes, PaidInv, CoveredInv,
              Taken, Ctx!TypeOK, Ctx!Deposited, Ctx!Cancels, Ctx!Timer, Ctx!Withdraws
<1>3. CASE OfCas(Cas!Next) \/ OfSpin(Spin!Next) \/ OfTrigger(Turns!Next)
  BY <1>3 DEF OfCas, OfSpin, OfTrigger
<1> QED
  BY <1>1, <1>2, <1>3 DEF Next

LEMMA ContextInvariant == Spec => []ContextInv
BY ContextStarts, ContextKept, PTL DEF Spec

LEMMA ContextConserved == ContextInv => (running = "CancelContext" => Ctx!Conserved)
<1> SUFFICES ASSUME DepositInv PROVE Ctx!Conserved
  BY DEF ContextInv
<1>1. Ctx!Drawn(Ctx!Deposited) = Sum(num, Ctx!Deposited)
  BY DEF Sum, MapThenSumSet, MapThenFoldSet, Ctx!Drawn, Ctx!MapThenSumSet, Ctx!MapThenFoldSet
<1>2. Ctx!Conserved <=> PaidInv /\ balance >= 0
  BY <1>1, Zenon DEF PaidInv, Taken, Ctx!Conserved
<1> QED
  BY <1>2 DEF DepositInv, ContextTypes

\* A cancelled context of demo_context.go has deposits of the total behind it, and
\* the deposit that reaches the total comes to cancel (lines 26, 51-52 and 76-77).
THEOREM CancelsAtTheTotal == Spec => []CancelsWhenFull
<1>1. ContextInv => CancelsWhenFull
  <2> SUFFICES ASSUME DepositInv PROVE Ctx!CancelsWhenFull
    BY DEF ContextInv, CancelsWhenFull
  <2> DEFINE D == Ctx!Drawn(Ctx!Deposited)
  <2>1. D = Sum(num, Ctx!Deposited)
    BY DEF Sum, MapThenSumSet, MapThenFoldSet, Ctx!Drawn, Ctx!MapThenSumSet, Ctx!MapThenFoldSet
  <2>2. D \in Int
    <3>1. \A e \in Ctx!Deposited : num[e] \in Int
      BY AmountsAreNat DEF Ctx!Deposited
    <3>2. IsFiniteSet(Ctx!Deposited)
      BY AtomicDemosAssumption, FS_Subset DEF Ctx!Deposited
    <3> QED
      BY <2>1, <3>1, <3>2, SumType
  <2>3. balance + Taken = Funds + D
    BY <2>1, <2>2, AtomicDemosAssumption DEF DepositInv, PaidInv, Taken
  <2>4. err = "canceled" => Funds + D >= Needed
    BY <2>3 DEF DepositInv, CoveredInv
  <2>5. ASSUME Ctx!Cancels, Ctx!Deposited # {}, Funds + D >= Needed, err = "nil"
        PROVE  \E d \in Depositors : pc[d] \in {"defer", "cancel"}
    <3>1. main # "exit" /\ Taken = 0
      BY <2>5 DEF DepositInv, CoveredInv, Taken
    <3> QED
      BY <2>3, <2>5, <3>1 DEF DepositInv, CoveredInv, ContextTypes
  <2> HIDE DEF D
  <2>6. Ctx!CancelsWhenFull <=>
          /\ err = "canceled" => Funds + D >= Needed
          /\ Ctx!Cancels /\ Ctx!Deposited # {} /\ Funds + D >= Needed /\ err = "nil"
               => \E d \in Depositors : pc[d] \in {"defer", "cancel"}
    BY Zenon DEF D, Ctx!CancelsWhenFull
  <2> QED
    BY <2>4, <2>5, <2>6
<1> QED
  BY <1>1, ContextInvariant, PTL

-----------------------------------------------------------------------------
(* The account of demo_TryLock.go: every balance is a number of whole       *)
(* deposits, and the depositor goes on to add only when it has read less    *)
(* than Full; the withdrawal in between only empties the account.           *)

Multiple(n) == \E k \in Nat : n = Amount * k

Unreturned == (IF depositor = "returned" THEN 0 ELSE 1) + (IF withdrawer = "returned" THEN 0 ELSE 1)

FillInv ==
  /\ Spin!TypeOK
  /\ Spin!Conserved
  /\ Multiple(balance)
  /\ depositor \in {"add", "sleep"} => balance # Full
  /\ wg = Unreturned
  /\ withdrawals = IF withdrawer \in {"swap", "sleep", "print"} THEN 0 ELSE 1

SpinInv == running = "SpinAccount" => FillInv

LEMMA WholeSteps ==
  ASSUME NEW a \in Nat \ {0}, NEW k \in Nat, NEW m \in Nat, a * k < a * m
  PROVE  a * k + a <= a * m
<1>1. \A b, c, d \in Nat : c <= d => b * c <= b * d
  OBVIOUS
<1>2. k < m
  BY <1>1
<1>3. a * (k + 1) <= a * m
  BY <1>1, <1>2
<1> QED
  BY <1>3

LEMMA WholeDeposits ==
  ASSUME NEW n \in Nat, Multiple(n), n < Full
  PROVE  n + Amount <= Full /\ Multiple(n + Amount)
<1>1. PICK k \in Nat : n = Amount * k
  BY DEF Multiple
<1>2. PICK m \in Nat : Full = Amount * m
  BY AtomicDemosAssumption
<1>3. Amount \in Nat \ {0}
  BY AtomicDemosAssumption
<1>4. n + Amount <= Full
  BY <1>1, <1>2, <1>3, WholeSteps
<1>5. Amount * (k + 1) = n + Amount
  BY <1>1, <1>3
<1> QED
  BY <1>4, <1>5 DEF Multiple

LEMMA SpinStarts == Init => SpinInv
<1> SUFFICES ASSUME Init, running = "SpinAccount" PROVE FillInv
  BY DEF SpinInv
<1>1. Spin!Init
  BY DEF Init
<1>2. Multiple(Opening)
  BY AtomicDemosAssumption DEF Multiple
<1>3. Opening \in Nat /\ Amount \in Nat /\ Full \in Nat /\ Opening < Full
  BY AtomicDemosAssumption
<1> QED
  BY <1>1, <1>2, <1>3
     DEF Spin!Init, FillInv, Spin!TypeOK, Spin!Conserved, Spin!Withdrawn, Unreturned

LEMMA FillKept ==
  ASSUME FillInv, Spin!Next
  PROVE  FillInv'
<1>1. Opening \in Nat /\ Amount \in Nat /\ Full \in Nat /\ Full > 0
  BY AtomicDemosAssumption
<1> USE <1>1 DEF FillInv, Spin!TypeOK, Spin!Conserved, Spin!Withdrawn, Unreturned,
      Spin!Deposit, Spin!Withdraw
<1>2. CASE Spin!Add
  <2>1. balance' = balance + Amount /\ balance' <= Full /\ Multiple(balance')
    BY <1>2, WholeDeposits DEF Spin!Add
  <2>2. Amount * (deposits + 1) = Amount * deposits + Amount
    OBVIOUS
  <2> QED
    BY <1>2, <2>1, <2>2 DEF Spin!Add
<1>3. CASE Spin!Test
  BY <1>3 DEF Spin!Test, Multiple
<1>4. CASE Spin!DepositSleep
  BY <1>4 DEF Spin!DepositSleep, Multiple
<1>5. CASE Spin!DepositDone
  <2>1. Multiple(balance)'
    BY <1>5 DEF Spin!DepositDone, Multiple
  <2> QED
    BY <1>5, <2>1 DEF Spin!DepositDone
<1>6. CASE Spin!Swap
  <2>1. Multiple(0)
    BY DEF Multiple
  <2> QED
    BY <1>6, <2>1 DEF Spin!Swap, Multiple
<1>7. CASE Spin!WithdrawSleep
  BY <1>7 DEF Spin!WithdrawSleep, Multiple
<1>8. CASE Spin!PrintWithdrawn
  BY <1>8 DEF Spin!PrintWithdrawn, Multiple
<1>9. CASE Spin!WithdrawDone
  BY <1>9 DEF Spin!WithdrawDone, Multiple
<1>10. CASE Spin!Wait
  BY <1>10 DEF Spin!Wait, Multiple
<1>11. CASE Spin!Terminated
  BY <1>11 DEF Spin!Terminated, Spin!vars, Multiple
<1> QED
  BY <1>2, <1>3, <1>4, <1>5, <1>6, <1>7, <1>8, <1>9, <1>10, <1>11
     DEF Spin!Next, Spin!Depositor, Spin!Withdrawer

LEMMA SpinKept == SpinInv /\ [Next]_vars => SpinInv'
<1> SUFFICES ASSUME SpinInv, [Next]_vars, running' = "SpinAccount" PROVE FillInv'
  BY DEF SpinInv
<1>1. CASE OfSpin(Spin!Next)
  BY <1>1, FillKept DEF OfSpin, SpinInv
<1>2. CASE UNCHANGED vars
  BY <1>2 DEF vars, spinVars, SpinInv, FillInv, Spin!TypeOK, Spin!Conserved, Spin!Withdrawn,
              Unreturned, Multiple
<1>3. CASE OfCas(Cas!Next) \/ OfTrigger(Turns!Next) \/ OfContext(Ctx!Next)
  BY <1>3 DEF OfCas, OfTrigger, OfContext
<1> QED
  BY <1>1, <1>2, <1>3 DEF Next

LEMMA SpinInvariant == Spec => []SpinInv
BY SpinStarts, SpinKept, PTL DEF Spec

-----------------------------------------------------------------------------
(* The counters of demo_waitgroup.go and demo_waitgroup2.go. Only the       *)
(* goroutines of the batch that main joins run; what has been added to the  *)
(* number are the wins of the batches that share it, and a goroutine leaves *)
(* after its one win, or when it has found the number at its top.           *)

Members(p) == UNION {p.batches[b].gs : b \in 1..Len(p.batches)}

\* What the proof takes from the text of a program.
Orderly(p) ==
  /\ p.batches \in Seq([gs : SUBSET Int, join : {"wg", "sign"}, fresh : BOOLEAN])
  /\ Len(p.batches) >= 1 /\ p.batches[1].fresh
  /\ \A b, c \in 1..Len(p.batches) : b # c => p.batches[b].gs \cap p.batches[c].gs = {}
  /\ \A b \in 1..Len(p.batches) : Cardinality(p.batches[b].gs) = Cardinality(p.batches[1].gs)
  /\ p.batches[1].gs # {}
  /\ IsFiniteSet(Members(p))
  /\ p.top \in Nat /\ p.increment \in Nat \ {0} /\ p.single \in BOOLEAN
  /\ p.single => p.increment = 1 /\ Cardinality(Members(p)) <= p.top
  /\ ~p.single => /\ \A b \in 1..Len(p.batches) : p.batches[b].fresh
                  /\ \E k \in 0..p.top : p.top = p.increment * k

Gs(b) == program.batches[b].gs
Shared == UNION {Gs(c) : c \in Cas!Sharing(batch)}

AddTypes ==
  /\ program \in {demo_waitgroup, demo_waitgroup2} /\ Orderly(program)
  /\ num \in Nat
  /\ currNum \in [Members(program) -> Nat] /\ wins \in [Members(program) -> Nat]
  /\ pc \in [Members(program) -> {"new", "load", "swap", "defer", "done"}]
  /\ wg \in Int /\ sign \in 0..2 /\ received \in Nat
  /\ batch \in 1..Len(program.batches) /\ main \in {"launch", "join", "exit"}

PhaseInv ==
  /\ \A b \in 1..Len(program.batches) : \A g \in Gs(b) :
       /\ b < batch \/ main = "exit" => pc[g] = "done"
       /\ b > batch \/ (b = batch /\ main = "launch") => pc[g] = "new"
       /\ b = batch /\ main = "join" => pc[g] # "new"
  /\ main = "exit" => batch = Len(program.batches)
  /\ \A g \in Members(program) :
       /\ pc[g] = "new" => wins[g] = 0
       /\ program.single => wins[g] = IF pc[g] \in {"defer", "done"} THEN 1 ELSE 0

Finished == {g \in Gs(batch) : pc[g] = "done"}

JoinInv ==
  /\ main = "join" /\ program.batches[batch].join = "wg" =>
       wg = Cardinality(Gs(batch)) - Cardinality(Finished) /\ sign = 0 /\ received = 0
  /\ main = "join" /\ program.batches[batch].join = "sign" =>
       sign + received = Cardinality(Finished) /\ wg = 0 /\ received < Cardinality(Gs(batch))
  /\ main # "join" => sign = 0 /\ wg = 0
  /\ received <= Cardinality(Gs(batch))

NumInv ==
  main # "launch" \/ ~program.batches[batch].fresh => num = program.increment * Sum(wins, Shared)

TopInv ==
  /\ num <= program.top
  /\ ~program.single =>
       /\ \A g \in Members(program) : pc[g] = "swap" => currNum[g] < program.top
       /\ main # "launch" => \A g \in Gs(batch) : pc[g] \in {"defer", "done"} => num = program.top
       /\ \A b \in 1..Len(program.batches) :
            b < batch \/ main = "exit" => program.increment * Sum(wins, Gs(b)) = program.top

AddInv == AddTypes /\ PhaseInv /\ JoinInv /\ NumInv /\ TopInv

CasInv == running = "CasCounter" => AddInv

LEMMA DemosOrderly == Orderly(demo_waitgroup) /\ Orderly(demo_waitgroup2)
<1>1. Orderly(demo_waitgroup)
  <2> DEFINE p == demo_waitgroup
  <2>1. /\ p.batches \in Seq([gs : SUBSET Int, join : {"wg", "sign"}, fresh : BOOLEAN])
        /\ Len(p.batches) = 2 /\ p.batches[1].gs = {1, 2} /\ p.batches[2].gs = {3, 4}
    BY DEF demo_waitgroup
  <2>2. p.batches[1].fresh /\ p.batches[2].fresh
    BY DEF demo_waitgroup
  <2>3. p.top = 10 /\ p.increment = 2
    BY DEF demo_waitgroup
  <2>4. p.single \in BOOLEAN /\ ~p.single
    BY DEF demo_waitgroup
  <2> HIDE DEF p
  <2>5. \A b \in 1..Len(p.batches) : b = 1 \/ b = 2
    BY <2>1
  <2>6. \A b \in 1..Len(p.batches) : Cardinality(p.batches[b].gs) = Cardinality(p.batches[1].gs)
    <3>1. \A a \in Int : Cardinality({a, a + 1}) = 2
      <4>1. \A a \in Int : {a, a + 1} = a..(a + 1)
        OBVIOUS
      <4>2. \A a \in Int : Cardinality(a..(a + 1)) = 2
        BY FS_Interval
      <4> QED
        BY <4>1, <4>2
    <3> QED
      BY <2>1, <2>5, <3>1
  <2>7. \A b, c \in 1..Len(p.batches) : b # c => p.batches[b].gs \cap p.batches[c].gs = {}
    BY <2>1, <2>5
  <2>8. IsFiniteSet(Members(p))
    <3>1. Members(p) \subseteq 1..4
      BY <2>1 DEF Members
    <3>2. 1 \in Int /\ 4 \in Int
      OBVIOUS
    <3>3. IsFiniteSet(1..4)
      BY <3>2, FS_Interval
    <3> QED
      BY <3>1, <3>3, FS_Subset
  <2>9. Len(p.batches) >= 1 /\ p.batches[1].gs # {}
    BY <2>1
  <2>10. \A b \in 1..Len(p.batches) : p.batches[b].fresh
    BY <2>2, <2>5, Zenon
  <2>11. /\ p.top \in Nat /\ p.increment \in Nat \ {0}
         /\ \E k \in 0..p.top : p.top = p.increment * k
    BY <2>3
  <2>12. Orderly(p)
    BY <2>1, <2>2, <2>4, <2>6, <2>7, <2>8, <2>9, <2>10, <2>11, Zenon DEF Orderly
  <2> QED
    BY <2>12 DEF p
<1>2. Orderly(demo_waitgroup2)
  <2> DEFINE p == demo_waitgroup2
             n == Total \div Stride
             gs(b) == ((b - 1) * Stride + 1)..(b * Stride)
  <2>1. n \in Nat /\ n >= 1 /\ n * Stride <= Total
    BY AtomicDemosAssumption
  <2>2. Stride \in Nat \ {0} /\ Total \in Nat
    BY AtomicDemosAssumption
  <2>3. p.batches = [b \in 1..n |-> [gs |-> gs(b), join |-> "wg", fresh |-> b = 1]]
    BY DEF demo_waitgroup2
  <2>4. p.top = Total /\ p.increment = 1
    BY DEF demo_waitgroup2
  <2>5. p.single \in BOOLEAN /\ p.single
    BY DEF demo_waitgroup2
  <2> HIDE DEF p, n
  <2>6. \A b \in 1..n : (b - 1) * Stride \in Nat /\ b * Stride \in Nat
                        /\ b * Stride = (b - 1) * Stride + Stride
    BY <2>1, <2>2
  <2>7. \A b, c \in 1..n : b < c => b * Stride <= (c - 1) * Stride
    <3>1. \A i, j, k \in Nat : i <= j => i * k <= j * k
      OBVIOUS
    <3> QED
      BY <2>1, <2>2, <3>1
  <2>8. \A b \in 1..n : b * Stride <= Total
    <3>1. \A i, j, k \in Nat : i <= j => i * k <= j * k
      OBVIOUS
    <3> QED
      BY <2>1, <2>2, <3>1
  <2>9. p.batches \in Seq([gs : SUBSET Int, join : {"wg", "sign"}, fresh : BOOLEAN])
        /\ Len(p.batches) = n
    BY <2>1, <2>3, <2>6
  <2>10. \A b \in 1..n : p.batches[b].gs = gs(b) /\ p.batches[b].fresh = (b = 1)
    BY <2>3
  <2>11. \A b \in 1..n : Cardinality(gs(b)) = Stride
    BY <2>2, <2>6, FS_Interval
  <2>12. \A b, c \in 1..n : b # c => gs(b) \cap gs(c) = {}
    BY <2>1, <2>2, <2>6, <2>7
  <2>13. Members(p) \subseteq 1..Total
    <3>1. \A b \in 1..n : gs(b) \subseteq 1..Total
      BY <2>2, <2>6, <2>8
    <3> HIDE DEF gs
    <3> QED
      BY <2>9, <2>10, <3>1 DEF Members
  <2>14. IsFiniteSet(1..Total) /\ Cardinality(1..Total) = Total
    BY <2>2, FS_Interval
  <2>15. IsFiniteSet(Members(p)) /\ Cardinality(Members(p)) <= Total
    BY <2>13, <2>14, FS_Subset
  <2>16. 1 \in gs(1)
    BY <2>2
  <2> HIDE DEF gs
  <2>17. Orderly(p)
    <3>1. \A b \in 1..Len(p.batches) : b \in 1..n
      BY <2>9
    <3>2. 1 \in 1..n
      BY <2>1
    <3>3. Len(p.batches) >= 1 /\ p.batches[1].fresh /\ p.batches[1].gs # {}
      BY <2>1, <2>9, <2>10, <2>16, <3>2
    <3>4. \A b, c \in 1..Len(p.batches) : b # c => p.batches[b].gs \cap p.batches[c].gs = {}
      BY <2>10, <2>12, <3>1
    <3>5. \A b \in 1..Len(p.batches) : Cardinality(p.batches[b].gs) = Cardinality(p.batches[1].gs)
      BY <2>10, <2>11, <3>1, <3>2
    <3>6. p.top \in Nat /\ p.increment \in Nat \ {0} /\ Cardinality(Members(p)) <= p.top
      BY <2>2, <2>4, <2>15
    <3> QED
      BY <2>4, <2>5, <2>9, <2>15, <3>3, <3>4, <3>5, <3>6, Zenon DEF Orderly
  <2> QED
    BY <2>17 DEF p
<1> QED
  BY <1>1, <1>2

\* What the text of a program says about the batch main is working on.
LEMMA BatchFacts ==
  ASSUME AddTypes
  PROVE  /\ Cas!AllGoroutines = Members(program)
         /\ \A b \in 1..Len(program.batches) : Gs(b) \subseteq Members(program)
         /\ \A b \in 1..Len(program.batches) :
              IsFiniteSet(Gs(b)) /\ Cardinality(Gs(b)) \in Nat
         /\ \A b \in 1..Len(program.batches) :
              Cardinality(Gs(b)) = Cardinality(Gs(batch)) /\ Cardinality(Gs(b)) > 0
         /\ program.batches[batch].join \in {"wg", "sign"}
         /\ IsFiniteSet(Finished) /\ Cardinality(Finished) \in Nat
         /\ Cardinality(Finished) <= Cardinality(Gs(batch))
         /\ Cardinality(Finished) = Cardinality(Gs(batch)) => Finished = Gs(batch)
<1>1. Cas!AllGoroutines = Members(program)
  BY DEF Cas!AllGoroutines, Cas!Batches, Members
<1>2. Orderly(program) /\ batch \in 1..Len(program.batches)
  BY DEF AddTypes
<1>3. \A b \in 1..Len(program.batches) : Gs(b) \subseteq Members(program)
  BY DEF Gs, Members
<1>4. IsFiniteSet(Members(program))
  BY <1>2 DEF Orderly
<1>5. \A b \in 1..Len(program.batches) : IsFiniteSet(Gs(b)) /\ Cardinality(Gs(b)) \in Nat
  BY <1>3, <1>4, FS_Subset, FS_CardinalityType
<1>6. 1 \in 1..Len(program.batches) /\ Gs(1) # {}
  BY <1>2 DEF Orderly, Gs
<1>7. Cardinality(Gs(1)) > 0
  BY <1>5, <1>6, FS_EmptySet
<1>8. \A b \in 1..Len(program.batches) : Cardinality(Gs(b)) = Cardinality(Gs(1))
  BY <1>2 DEF Orderly, Gs
<1>9. program.batches[batch].join \in {"wg", "sign"}
  <2>1. program.batches \in Seq([gs : SUBSET Int, join : {"wg", "sign"}, fresh : BOOLEAN])
    BY <1>2 DEF Orderly
  <2>2. program.batches[batch] \in [gs : SUBSET Int, join : {"wg", "sign"}, fresh : BOOLEAN]
    <3> DEFINE R == [gs : SUBSET Int, join : {"wg", "sign"}, fresh : BOOLEAN]
    <3>1. program.batches \in Seq(R) /\ batch \in 1..Len(program.batches)
      BY <1>2, <2>1
    <3> HIDE DEF R
    <3>2. program.batches[batch] \in R
      BY <3>1
    <3> QED
      BY <3>2 DEF R
  <2> QED
    BY <2>2
<1>10. Finished \subseteq Gs(batch)
  BY DEF Finished
<1>11. /\ IsFiniteSet(Finished) /\ Cardinality(Finished) \in Nat
       /\ Cardinality(Finished) <= Cardinality(Gs(batch))
       /\ Cardinality(Finished) = Cardinality(Gs(batch)) => Finished = Gs(batch)
  BY <1>2, <1>5, <1>10, FS_Subset, FS_CardinalityType
<1>12. \A b \in 1..Len(program.batches) :
         Cardinality(Gs(b)) = Cardinality(Gs(batch)) /\ Cardinality(Gs(b)) > 0
  BY <1>2, <1>7, <1>8
<1> QED
  BY <1>1, <1>3, <1>5, <1>9, <1>11, <1>12

\* Batches have no goroutine in common.
LEMMA BatchesApart ==
  ASSUME AddTypes, NEW b \in 1..Len(program.batches), NEW c \in 1..Len(program.batches), b # c,
         NEW g \in Gs(b)
  PROVE  g \notin Gs(c)
BY DEF AddTypes, Orderly, Gs

\* Who runs is of the batch that main joins.
LEMMA RunsInBatch ==
  ASSUME AddTypes, PhaseInv, NEW g \in Members(program), pc[g] \in {"load", "swap", "defer"}
  PROVE  main = "join" /\ g \in Gs(batch)
<1>1. PICK b \in 1..Len(program.batches) : g \in Gs(b)
  BY DEF Members, Gs
<1>2. batch \in 1..Len(program.batches) /\ main \in {"launch", "join", "exit"}
  BY DEF AddTypes
<1>3. ~(b < batch) /\ ~(b > batch) /\ main # "exit"
  BY <1>1 DEF PhaseInv
<1>4. b = batch
  BY <1>2, <1>3
<1> QED
  BY <1>1, <1>2, <1>3, <1>4 DEF PhaseInv

\* The goroutines that share the number with a batch.
LEMMA SharedFacts ==
  ASSUME AddTypes
  PROVE  /\ Shared \subseteq Members(program) /\ IsFiniteSet(Shared)
         /\ Gs(batch) \subseteq Shared
         /\ program.batches[batch].fresh => Shared = Gs(batch)
<1>1. Cas!Sharing(batch) \subseteq 1..batch /\ batch \in Cas!Sharing(batch)
  BY DEF AddTypes, Cas!Sharing
<1>2. batch \in 1..Len(program.batches) /\ Len(program.batches) \in Nat
  BY DEF AddTypes, Orderly
<1>3. Shared \subseteq Members(program)
  BY <1>1, <1>2, BatchFacts DEF Shared
<1>4. IsFiniteSet(Shared)
  BY <1>3, FS_Subset DEF AddTypes, Orderly
<1>5. ASSUME program.batches[batch].fresh PROVE Cas!Sharing(batch) = {batch}
  <2>1. ASSUME NEW c \in Cas!Sharing(batch), c # batch PROVE FALSE
    <3>1. batch \in (c + 1)..batch
      BY <1>1, <1>2, <2>1
    <3> QED
      BY <1>5, <2>1, <3>1 DEF Cas!Sharing, Cas!Batches
  <2> QED
    BY <1>1, <2>1
<1> QED
  BY <1>1, <1>3, <1>4, <1>5 DEF Shared

LEMMA CasStarts == Init => CasInv
<1> SUFFICES ASSUME Init, running = "CasCounter" PROVE AddInv
  BY DEF CasInv
<1>1. Cas!Init
  BY DEF Init
<1>2. program \in {demo_waitgroup, demo_waitgroup2} /\ Orderly(program)
  BY <1>1, DemosOrderly DEF Cas!Init
<1>3. Cas!AllGoroutines = Members(program)
  BY DEF Cas!AllGoroutines, Cas!Batches, Members
<1>4. AddTypes
  <2>1. 1 \in 1..Len(program.batches)
    BY <1>2 DEF Orderly
  <2> QED
    BY <1>1, <1>2, <1>3, <2>1 DEF AddTypes, Cas!Init
<1>5. batch = 1 /\ main = "launch" /\ num = 0 /\ program.batches[batch].fresh
  BY <1>1, <1>2 DEF Cas!Init, Orderly
<1>6. \A g \in Members(program) : pc[g] = "new" /\ wins[g] = 0
  BY <1>1, <1>3 DEF Cas!Init
<1>7. PhaseInv
  BY <1>4, <1>5, <1>6, BatchFacts DEF PhaseInv
<1>8. JoinInv
  <2>1. Cardinality(Gs(batch)) \in Nat
    BY <1>4, BatchFacts DEF AddTypes
  <2>2. main = "launch" /\ sign = 0 /\ wg = 0 /\ received = 0
    BY <1>1 DEF Cas!Init
  <2> QED
    BY <2>1, <2>2 DEF JoinInv
<1>9. NumInv
  BY <1>5 DEF NumInv
<1>10. TopInv
  BY <1>2, <1>5, <1>6 DEF TopInv, Orderly
<1> QED
  BY <1>4, <1>7, <1>8, <1>9, <1>10 DEF AddInv

\* One step of addNum: the goroutine loads, or swaps, or leaves.
LEMMA LoadKeeps ==
  ASSUME AddInv, NEW g \in Members(program), Cas!Load(g)
  PROVE  AddInv'
<1> USE DEF AddInv
<1>1. main = "join" /\ g \in Gs(batch) /\ pc[g] = "load"
  BY RunsInBatch DEF Cas!Load, Cas!At
<1>2. /\ UNCHANGED <<program, num, wins, wg, sign, received, batch, main>>
      /\ currNum' = [currNum EXCEPT ![g] = num]
      /\ pc' = [pc EXCEPT ![g] = IF ~program.single /\ num >= program.top THEN "defer" ELSE "swap"]
  BY DEF Cas!Load, Cas!Goto, Cas!Single, Cas!Top, Cas!joinVars, Cas!mainVars
<1>3. AddTypes'
  BY <1>1, <1>2 DEF AddTypes
<1>4. PhaseInv'
  <2>1. \A b \in 1..Len(program.batches) : b # batch => g \notin Gs(b)
    BY <1>1, BatchesApart DEF AddTypes
  <2> QED
    BY <1>1, <1>2, <2>1 DEF AddTypes, PhaseInv, Gs
<1>5. Finished' = Finished
  BY <1>1, <1>2 DEF AddTypes, Finished, Gs
<1>6. JoinInv'
  BY <1>2, <1>5 DEF JoinInv, Gs
<1>7. NumInv'
  BY <1>2 DEF NumInv, Shared, Gs, Cas!Sharing, Cas!Batches
<1>8. TopInv'
  BY <1>1, <1>2 DEF AddTypes, Orderly, TopInv, Gs
<1> QED
  BY <1>3, <1>4, <1>6, <1>7, <1>8

LEMMA SwapKeeps ==
  ASSUME AddInv, NEW g \in Members(program), Cas!Swap(g)
  PROVE  AddInv'
<1> USE DEF AddInv
<1>1. main = "join" /\ g \in Gs(batch) /\ pc[g] = "swap"
  BY RunsInBatch DEF Cas!Swap, Cas!At
<1>2. /\ UNCHANGED <<program, currNum, wg, sign, received, batch, main>>
      /\ \/ /\ num = currNum[g] /\ num' = num + program.increment
            /\ wins' = [wins EXCEPT ![g] = @ + 1]
            /\ pc' = [pc EXCEPT ![g] = IF program.single THEN "defer" ELSE "load"]
         \/ pc' = [pc EXCEPT ![g] = "load"] /\ UNCHANGED <<num, wins>>
  BY DEF Cas!Swap, Cas!Goto, Cas!Single, Cas!Increment, Cas!joinVars, Cas!mainVars
<1> DEFINE Won == num = currNum[g] /\ num' = num + program.increment
                  /\ wins' = [wins EXCEPT ![g] = wins[g] + 1]
<1>3. Won \/ UNCHANGED <<num, wins>>
  BY <1>2
<1>4. /\ wins[g] \in Nat /\ wins \in [Members(program) -> Nat]
      /\ pc \in [Members(program) -> {"new", "load", "swap", "defer", "done"}]
      /\ program.increment \in Nat \ {0} /\ program.top \in Nat
      /\ batch \in 1..Len(program.batches)
  BY DEF AddTypes, Orderly
<1>5. /\ \A h \in Members(program) : h # g => pc'[h] = pc[h] /\ wins'[h] = wins[h]
      /\ pc'[g] \in {"load", "defer"}
      /\ program.single => wins'[g] = wins[g] + (IF pc'[g] = "defer" THEN 1 ELSE 0)
      /\ ~program.single => pc'[g] = "load"
      /\ wins' \in [Members(program) -> Nat]
      /\ pc' \in [Members(program) -> {"new", "load", "swap", "defer", "done"}]
  <2>1. CASE Won
    <3>1. pc' = [pc EXCEPT ![g] = IF program.single THEN "defer" ELSE "load"]
          \/ (pc' = [pc EXCEPT ![g] = "load"] /\ wins' = wins)
      BY <1>2
    <3>2. wins' # wins
      BY <1>4, <2>1
    <3> QED
      BY <1>4, <2>1, <3>1, <3>2
  <2>2. CASE UNCHANGED <<num, wins>>
    <3>1. pc' = [pc EXCEPT ![g] = "load"]
      <4>1. [wins EXCEPT ![g] = @ + 1] # wins
        BY <1>4
      <4> QED
        BY <1>2, <2>2, <4>1
    <3> QED
      BY <1>4, <2>2, <3>1
  <2> QED
    BY <1>3, <2>1, <2>2
<1>6. \A b \in 1..Len(program.batches) : Gs(b) \subseteq Members(program)
  BY BatchFacts
<1>7. AddTypes'
  BY <1>2, <1>3, <1>4, <1>5 DEF AddTypes
<1>8. PhaseInv'
  <2>1. \A b \in 1..Len(program.batches) : b # batch => g \notin Gs(b)
    BY <1>1, BatchesApart DEF AddTypes
  <2>2. \A b \in 1..Len(program.batches) : Gs(b)' = Gs(b)
    BY <1>2 DEF Gs
  <2>3. \A h \in Members(program) :
          /\ pc'[h] = "new" => wins'[h] = 0
          /\ program.single => wins'[h] = IF pc'[h] \in {"defer", "done"} THEN 1 ELSE 0
    BY <1>1, <1>4, <1>5 DEF PhaseInv
  <2> QED
    BY <1>1, <1>2, <1>5, <1>6, <2>1, <2>2, <2>3 DEF PhaseInv
<1>9. Finished' = Finished
  BY <1>1, <1>2, <1>4, <1>5, <1>6 DEF Finished, Gs
<1>10. JoinInv'
  BY <1>2, <1>9 DEF JoinInv, Gs
<1>11. Shared' = Shared
  BY <1>2 DEF Shared, Gs, Cas!Sharing, Cas!Batches
<1>12. \/ num' = num + program.increment /\ Sum(wins', Shared) = Sum(wins, Shared) + 1
       \/ UNCHANGED <<num, wins>>
  <2>1. SUFFICES ASSUME wins' = [wins EXCEPT ![g] = @ + 1]
                 PROVE  Sum(wins', Shared) = Sum(wins, Shared) + 1
    BY <1>2
  <2>2. IsFiniteSet(Shared) /\ g \in Shared /\ Shared \subseteq Members(program)
    BY <1>1, SharedFacts
  <2>3. \A h \in Shared : wins[h] \in Int /\ wins'[h] \in Int
    BY <2>1, <2>2 DEF AddTypes
  <2>4. \A h \in Shared \ {g} : wins'[h] = wins[h]
    BY <2>1, <2>2 DEF AddTypes
  <2>5. wins'[g] - wins[g] = 1
    BY <2>1 DEF AddTypes
  <2> QED
    BY <2>2, <2>3, <2>4, <2>5, SumChange
<1>13. Sum(wins, Shared) \in Nat
  <2>1. IsFiniteSet(Shared) /\ \A h \in Shared : wins[h] \in Nat
    BY <1>4, SharedFacts
  <2> QED
    BY <2>1, SumNat
<1>14. NumInv'
  <2>1. Sum(wins, Shared) \in Nat /\ program.increment \in Nat
    BY <1>4, <1>13
  <2>2. num = program.increment * Sum(wins, Shared)
    BY <1>1 DEF NumInv
  <2>3. program.increment * (Sum(wins, Shared) + 1)
          = program.increment * Sum(wins, Shared) + program.increment
    BY <2>1
  <2> QED
    BY <1>2, <1>11, <1>12, <2>2, <2>3 DEF NumInv
<1>15. ASSUME program.single PROVE num' <= program.top
  <2>1. CASE UNCHANGED num
    BY <2>1 DEF TopInv
  <2>2. CASE num' # num
    <3>1. IsFiniteSet(Shared) /\ Shared \subseteq Members(program)
      BY SharedFacts
    <3>2. \A h \in Shared : wins'[h] \in {0, 1}
      BY <1>2, <1>8, <1>15, <3>1 DEF PhaseInv
    <3>3. Sum(wins', Shared) <= Cardinality(Shared)
      BY <3>1, <3>2, SumAtMost
    <3>4. Cardinality(Shared) <= Cardinality(Members(program))
      BY <3>1, FS_Subset DEF AddTypes, Orderly
    <3>5. Cardinality(Members(program)) <= program.top /\ program.increment = 1
      BY <1>15 DEF AddTypes, Orderly
    <3>6. num' = Sum(wins', Shared) /\ Sum(wins', Shared) \in Nat
      BY <1>1, <1>12, <1>4, <1>13, <2>2, <3>5 DEF NumInv
    <3>7. Cardinality(Shared) \in Nat /\ Cardinality(Members(program)) \in Nat
      BY <3>1, FS_CardinalityType DEF AddTypes, Orderly
    <3> QED
      BY <1>4, <3>3, <3>4, <3>5, <3>6, <3>7
  <2> QED
    BY <2>1, <2>2
<1>16. TopInv'
  <2> SUFFICES ASSUME ~program.single PROVE TopInv'
    BY <1>2, <1>15 DEF TopInv
  <2>1. \A b \in 1..Len(program.batches) :
          b < batch => Sum(wins', Gs(b)) = Sum(wins, Gs(b))
    <3>1. SUFFICES ASSUME NEW b \in 1..Len(program.batches), b < batch
                   PROVE  Sum(wins', Gs(b)) = Sum(wins, Gs(b))
      OBVIOUS
    <3>2. b # batch /\ batch \in 1..Len(program.batches)
      BY <3>1 DEF AddTypes
    <3>3. g \notin Gs(b)
      BY <1>1, <3>2, BatchesApart
    <3>4. \A h \in Gs(b) : wins'[h] = wins[h]
      BY <1>2, <3>3, BatchFacts DEF AddTypes
    <3> QED
      BY <3>4, BatchFacts, SumSame
  <2>2. num' <= program.top
    <3>1. SUFFICES ASSUME num = currNum[g], num' = num + program.increment
                   PROVE  num' <= program.top
      BY <1>2 DEF TopInv
    <3>2. num < program.top
      BY <1>1, <3>1 DEF TopInv
    <3>3. PICK k \in 0..program.top : program.top = program.increment * k
      BY DEF AddTypes, Orderly
    <3>4. num = program.increment * Sum(wins, Shared)
      BY <1>1 DEF NumInv
    <3>5. k \in Nat /\ program.increment * Sum(wins, Shared) < program.increment * k
      BY <1>4, <3>2, <3>3, <3>4
    <3>6. program.increment * Sum(wins, Shared) + program.increment <= program.increment * k
      BY <1>4, <1>13, <3>5, WholeSteps
    <3> QED
      BY <3>1, <3>3, <3>4, <3>6
  <2>3. \A h \in Gs(batch) : pc'[h] \in {"defer", "done"} => num' = program.top
    <3>1. SUFFICES ASSUME NEW h \in Gs(batch), pc'[h] \in {"defer", "done"}
                   PROVE  num' = program.top
      OBVIOUS
    <3>2. pc[h] \in {"defer", "done"}
      BY <1>4, <1>5, <1>6, <3>1
    <3>3. num = program.top /\ currNum[g] < program.top
      BY <1>1, <3>2 DEF TopInv
    <3> QED
      BY <1>3, <1>4, <3>3
  <2> QED
    BY <1>1, <1>2, <2>1, <2>2, <2>3 DEF AddTypes, TopInv, Gs
<1> QED
  BY <1>7, <1>8, <1>10, <1>14, <1>16

LEMMA DeferKeeps ==
  ASSUME AddInv, NEW g \in Members(program), Cas!Defer(g)
  PROVE  AddInv'
<1> USE DEF AddInv
<1>1. main = "join" /\ g \in Gs(batch) /\ pc[g] = "defer"
  BY RunsInBatch DEF Cas!Defer, Cas!At
<1>2. /\ UNCHANGED <<program, num, currNum, wins, received, batch, main>>
      /\ pc' = [pc EXCEPT ![g] = "done"]
      /\ \/ program.batches[batch].join = "wg" /\ wg' = wg - 1 /\ UNCHANGED sign
         \/ /\ program.batches[batch].join = "sign" /\ sign < 2
            /\ sign' = sign + 1 /\ UNCHANGED wg
  BY DEF Cas!Defer, Cas!Goto, Cas!B, Cas!Batches, Cas!mainVars
<1>3. AddTypes'
  BY <1>2 DEF AddTypes
<1>4. pc \in [Members(program) -> {"new", "load", "swap", "defer", "done"}]
  BY DEF AddTypes
<1>5. \A b \in 1..Len(program.batches) : Gs(b) \subseteq Members(program)
  BY BatchFacts
<1>6. batch \in 1..Len(program.batches)
  BY DEF AddTypes
<1>7. PhaseInv'
  <2>1. \A b \in 1..Len(program.batches) : b # batch => g \notin Gs(b)
    BY <1>1, <1>6, BatchesApart
  <2>2. \A b \in 1..Len(program.batches) : Gs(b)' = Gs(b)
    BY <1>2 DEF Gs
  <2> QED
    BY <1>1, <1>2, <1>4, <1>5, <1>6, <2>1, <2>2 DEF PhaseInv
<1>8. JoinInv'
  <2>1. Finished' = Finished \cup {g} /\ g \notin Finished
    BY <1>1, <1>2, <1>4, <1>5, <1>6 DEF Finished, Gs
  <2>2. Cardinality(Finished') = Cardinality(Finished) + 1
    BY <2>1, BatchFacts, FS_AddElement
  <2>3. Gs(batch)' = Gs(batch)
    BY <1>2 DEF Gs
  <2>4. Cardinality(Finished) \in Nat /\ Cardinality(Gs(batch)) \in Nat
    BY <1>6, BatchFacts
  <2>5. wg \in Int /\ sign \in Int /\ received \in Int
    BY DEF AddTypes
  <2> QED
    BY <1>1, <1>2, <2>2, <2>3, <2>4, <2>5 DEF JoinInv
<1>9. NumInv'
  BY <1>2 DEF NumInv, Shared, Gs, Cas!Sharing, Cas!Batches
<1>10. TopInv'
  BY <1>1, <1>2, <1>4, <1>5, <1>6 DEF TopInv, Gs
<1> QED
  BY <1>3, <1>7, <1>8, <1>9, <1>10

\* main launches a batch: a number of its own starts from 0, one that is shared
\* goes on from what the batches before have added to it.
LEMMA LaunchKeeps ==
  ASSUME AddInv, Cas!Launch
  PROVE  AddInv'
<1> USE DEF AddInv
<1>1. /\ main = "launch" /\ main' = "join" /\ received' = 0
      /\ UNCHANGED <<program, currNum, wins, sign, batch>>
      /\ num' = IF program.batches[batch].fresh THEN 0 ELSE num
      /\ wg' = IF program.batches[batch].join = "wg" THEN Cardinality(Gs(batch)) ELSE 0
      /\ pc' = [g \in Members(program) |-> IF g \in Gs(batch) THEN "load" ELSE pc[g]]
  <2>1. Cas!AllGoroutines = Members(program) /\ Cas!B = program.batches[batch]
    BY BatchFacts DEF Cas!B, Cas!Batches
  <2>2. Cas!B.gs = Gs(batch)
    BY <2>1 DEF Gs
  <2>3. /\ main = "launch" /\ main' = "join" /\ received' = 0
        /\ UNCHANGED <<program, currNum, wins, sign, batch>>
    BY DEF Cas!Launch
  <2>4. num' = IF program.batches[batch].fresh THEN 0 ELSE num
    BY <2>1, Zenon DEF Cas!Launch
  <2>5. wg' = IF program.batches[batch].join = "wg" THEN Cardinality(Gs(batch)) ELSE 0
    <3>1. Cas!Cardinality(Gs(batch)) = Cardinality(Gs(batch))
      BY DEF Cas!Cardinality, Cardinality
    <3> QED
      BY <2>1, <2>2, <3>1, Zenon DEF Cas!Launch
  <2>6. pc' = [g \in Members(program) |-> IF g \in Gs(batch) THEN "load" ELSE pc[g]]
    BY <2>1, <2>2, Zenon DEF Cas!Launch
  <2> QED
    BY <2>3, <2>4, <2>5, <2>6, Zenon
<1>2. /\ pc \in [Members(program) -> {"new", "load", "swap", "defer", "done"}]
      /\ batch \in 1..Len(program.batches) /\ num \in Nat
      /\ wins \in [Members(program) -> Nat]
  BY DEF AddTypes
<1>3. /\ \A b \in 1..Len(program.batches) : Gs(b) \subseteq Members(program) /\ Gs(b)' = Gs(b)
      /\ Cardinality(Gs(batch)) \in Nat /\ Cardinality(Gs(batch)) > 0
  BY <1>1, <1>2, BatchFacts DEF Gs
<1>4. \A g \in Gs(batch) : pc[g] = "new" /\ wins[g] = 0
  BY <1>1, <1>2, <1>3 DEF PhaseInv
<1>5. AddTypes'
  BY <1>1, <1>2, <1>3 DEF AddTypes
<1>6. PhaseInv'
  <2>1. \A b \in 1..Len(program.batches) : b # batch => \A g \in Gs(b) : g \notin Gs(batch)
    BY <1>2, BatchesApart
  <2>2. \A g \in Members(program) :
          /\ pc'[g] = "new" => wins'[g] = 0
          /\ program.single => wins'[g] = IF pc'[g] \in {"defer", "done"} THEN 1 ELSE 0
    BY <1>1, <1>2, <1>4 DEF PhaseInv
  <2> QED
    BY <1>1, <1>2, <1>3, <2>1, <2>2 DEF PhaseInv
<1>7. JoinInv'
  <2>1. Finished' = {}
    BY <1>1, <1>2, <1>3 DEF Finished
  <2>2. Cardinality({}) = 0
    BY FS_EmptySet
  <2>3. sign = 0
    BY <1>1 DEF JoinInv
  <2> QED
    BY <1>1, <1>2, <1>3, <2>1, <2>2, <2>3, BatchFacts DEF JoinInv
<1>8. NumInv'
  <2>1. Shared' = Shared
    BY <1>1 DEF Shared, Gs, Cas!Sharing, Cas!Batches
  <2>2. CASE program.batches[batch].fresh
    <3>1. Shared = Gs(batch) /\ IsFiniteSet(Shared)
      BY <2>2, SharedFacts
    <3>2. Sum(wins, Shared) = 0
      BY <1>4, <3>1, SumZero
    <3>3. program.increment * 0 = 0
      BY DEF AddTypes, Orderly
    <3> QED
      BY <1>1, <2>1, <2>2, <3>2, <3>3 DEF NumInv
  <2>3. CASE ~program.batches[batch].fresh
    BY <1>1, <2>1, <2>3 DEF NumInv
  <2> QED
    BY <2>2, <2>3
<1>9. TopInv'
  <2>1. program.top \in Nat
    BY DEF AddTypes, Orderly
  <2>2. \A g \in Members(program) : pc'[g] = "swap" => pc[g] = "swap"
    BY <1>1, <1>2
  <2>3. \A g \in Gs(batch) : pc'[g] = "load"
    BY <1>1, <1>2, <1>3
  <2> QED
    BY <1>1, <1>2, <1>3, <2>1, <2>2, <2>3 DEF TopInv
<1> QED
  BY <1>5, <1>6, <1>7, <1>8, <1>9

\* main has joined the batch: its goroutines are done, and with them their wins.
LEMMA JoinKeeps ==
  ASSUME AddInv, main = "join", Finished = Gs(batch), Cas!Joined,
         UNCHANGED <<program, num, currNum, wins, pc>>,
         sign' = 0, wg' = 0, received' \in Nat, received' <= Cardinality(Gs(batch))
  PROVE  AddInv'
<1> USE DEF AddInv
<1>1. /\ batch \in 1..Len(program.batches) /\ Len(program.batches) \in Nat
      /\ program.increment \in Nat \ {0} /\ program.top \in Nat
      /\ wins \in [Members(program) -> Nat]
      /\ pc \in [Members(program) -> {"new", "load", "swap", "defer", "done"}]
  BY DEF AddTypes, Orderly
<1>2. \/ batch < Len(program.batches) /\ batch' = batch + 1 /\ main' = "launch"
      \/ batch = Len(program.batches) /\ batch' = batch /\ main' = "exit"
  BY <1>1 DEF Cas!Joined, Cas!Batches
<1>3. batch' \in 1..Len(program.batches) /\ program' = program
  BY <1>1, <1>2
<1>4. AddTypes'
  BY <1>2, <1>3 DEF AddTypes
<1>5. \A b \in 1..Len(program.batches) : Gs(b)' = Gs(b) /\ Gs(b) \subseteq Members(program)
  BY BatchFacts DEF Gs
<1>6. \A g \in Gs(batch) : pc[g] = "done"
  BY DEF Finished
<1>7. PhaseInv'
  BY <1>1, <1>2, <1>5, <1>6 DEF PhaseInv
<1>8. JoinInv'
  <2>1. Cardinality(Gs(batch)') = Cardinality(Gs(batch))
    BY <1>3, BatchFacts DEF Gs
  <2> QED
    BY <1>2, <2>1 DEF JoinInv
<1>9. NumInv'
  <2>1. CASE main' = "exit"
    <3>1. Shared' = Shared
      BY <1>2, <2>1 DEF Shared, Gs, Cas!Sharing, Cas!Batches
    <3> QED
      BY <3>1 DEF NumInv
  <2>2. CASE batch' = batch + 1 /\ main' = "launch" /\ ~program.batches[batch + 1].fresh
    <3> DEFINE S == Shared
               T == Shared'
    <3>1. batch + 1 \in 1..Len(program.batches)
      BY <1>3, <2>2
    <3>2. Cas!Sharing(batch)' = Cas!Sharing(batch + 1)
      BY <2>2 DEF Cas!Sharing, Cas!Batches
    <3>3. Cas!Sharing(batch + 1) = Cas!Sharing(batch) \cup {batch + 1}
      BY <1>1, <2>2, <3>1 DEF Cas!Sharing, Cas!Batches
    <3>4. T = S \cup Gs(batch + 1)
      <4>1. T = UNION {Gs(c) : c \in Cas!Sharing(batch + 1)}
        BY <2>2 DEF Shared, Gs, Cas!Sharing, Cas!Batches
      <4> QED
        BY <3>3, <4>1 DEF Shared
    <3>5. \A g \in T \ S : wins[g] = 0
      <4>1. \A g \in Gs(batch + 1) : g \in Members(program) /\ pc[g] = "new"
        BY <1>1, <1>5, <3>1 DEF PhaseInv
      <4> QED
        BY <3>4, <4>1 DEF PhaseInv
    <3>6. T \subseteq Members(program) /\ IsFiniteSet(T) /\ S \subseteq T
      BY <1>5, <3>1, <3>4, SharedFacts, BatchFacts, FS_Subset DEF AddTypes, Orderly
    <3>7. Sum(wins, T) = Sum(wins, S)
      <4>1. \A g \in T : wins[g] \in Int
        BY <1>1, <3>6
      <4> HIDE DEF S, T
      <4> QED
        BY <3>5, <3>6, <4>1, SumOutside
    <3> QED
      BY <3>7 DEF NumInv
  <2> QED
    BY <1>2, <2>1, <2>2 DEF NumInv
<1>10. TopInv'
  <2>1. num' <= program'.top
    BY DEF TopInv
  <2> SUFFICES ASSUME ~program.single PROVE TopInv'
    BY <2>1 DEF TopInv
  <2>2. \A b \in 1..Len(program.batches) : program.batches[b].fresh
    BY DEF AddTypes, Orderly
  <2>3. Shared = Gs(batch)
    BY <1>1, <2>2, SharedFacts
  <2>4. num = program.increment * Sum(wins, Gs(batch))
    BY <2>3 DEF NumInv
  <2>5. num = program.top
    <3>1. PICK g \in Gs(batch) : TRUE
      BY <1>1, BatchFacts, FS_EmptySet
    <3> QED
      BY <1>6, <3>1 DEF TopInv
  <2>6. \A b \in 1..Len(program.batches) : b < batch' \/ main' = "exit" =>
           program.increment * Sum(wins, Gs(b)) = program.top
    BY <1>1, <1>2, <2>4, <2>5 DEF TopInv
  <2>7. main' # "launch" => batch' = batch
    BY <1>2
  <2> QED
    BY <1>3, <1>5, <2>5, <2>6, <2>7, <2>1 DEF TopInv
<1> QED
  BY <1>4, <1>7, <1>8, <1>9, <1>10

LEMMA WaitKeeps ==
  ASSUME AddInv, Cas!Wait
  PROVE  AddInv'
<1>1. /\ main = "join" /\ program.batches[batch].join = "wg" /\ wg = 0 /\ Cas!Joined
      /\ UNCHANGED <<program, num, currNum, wins, pc, wg, sign, received>>
  BY DEF Cas!Wait, Cas!B, Cas!Batches, Cas!joinVars
<1>2. AddTypes /\ batch \in 1..Len(program.batches)
  BY DEF AddInv, AddTypes
<1>3. Cardinality(Gs(batch)) \in Nat /\ Cardinality(Finished) \in Nat
  BY <1>2, BatchFacts
<1>4. wg = Cardinality(Gs(batch)) - Cardinality(Finished) /\ sign = 0 /\ received = 0
  BY <1>1 DEF AddInv, JoinInv
<1>5. Finished = Gs(batch)
  BY <1>1, <1>2, <1>3, <1>4, BatchFacts
<1> QED
  BY <1>1, <1>3, <1>4, <1>5, JoinKeeps

LEMMA ReceiveKeeps ==
  ASSUME AddInv, Cas!Receive
  PROVE  AddInv'
<1>1. /\ main = "join" /\ program.batches[batch].join = "sign" /\ sign > 0
      /\ sign' = sign - 1 /\ received' = received + 1
      /\ IF received' = Cardinality(Gs(batch)) THEN Cas!Joined ELSE UNCHANGED <<batch, main>>
      /\ UNCHANGED <<program, num, currNum, wins, pc, wg>>
  <2>1. Cas!B = program.batches[batch] /\ Cas!B.gs = Gs(batch)
    BY DEF Cas!B, Cas!Batches, Gs
  <2>2. /\ main = "join" /\ sign > 0 /\ sign' = sign - 1 /\ received' = received + 1
        /\ UNCHANGED <<program, num, currNum, wins, pc, wg>>
    BY DEF Cas!Receive
  <2>3. program.batches[batch].join = "sign"
    BY <2>1, Zenon DEF Cas!Receive
  <2>4. IF received' = Cardinality(Gs(batch)) THEN Cas!Joined ELSE UNCHANGED <<batch, main>>
    BY <2>1, Zenon DEF Cas!Receive, Cas!mainVars, Cas!Cardinality, Cardinality
  <2> QED
    BY <2>2, <2>3, <2>4, Zenon
<1>2. AddTypes /\ batch \in 1..Len(program.batches) /\ received \in Nat /\ sign \in 0..2
  BY DEF AddInv, AddTypes
<1>3. /\ Cardinality(Gs(batch)) \in Nat /\ Cardinality(Finished) \in Nat
      /\ Cardinality(Finished) <= Cardinality(Gs(batch))
  BY <1>2, BatchFacts
<1>4. sign + received = Cardinality(Finished) /\ wg = 0 /\ received < Cardinality(Gs(batch))
  BY <1>1 DEF AddInv, JoinInv
<1>5. CASE received' = Cardinality(Gs(batch))
  <2>1. sign' = 0 /\ Cardinality(Finished) = Cardinality(Gs(batch))
    BY <1>1, <1>2, <1>3, <1>4, <1>5
  <2>2. Finished = Gs(batch)
    BY <1>2, <2>1, BatchFacts
  <2>3. wg' = 0 /\ received' \in Nat /\ received' <= Cardinality(Gs(batch))
    BY <1>1, <1>2, <1>3, <1>4, <1>5
  <2> QED
    BY <1>1, <1>5, <2>1, <2>2, <2>3, JoinKeeps
<1>6. CASE received' # Cardinality(Gs(batch))
  <2>1. UNCHANGED <<program, num, currNum, wins, pc, wg, batch, main>>
    BY <1>1, <1>6
  <2>2. AddTypes'
    BY <1>1, <1>2, <2>1 DEF AddTypes
  <2>3. PhaseInv' /\ NumInv' /\ TopInv'
    BY <2>1 DEF AddInv, PhaseInv, NumInv, TopInv, Gs, Shared, Cas!Sharing, Cas!Batches
  <2>4. JoinInv'
    <3>1. Finished' = Finished /\ Gs(batch)' = Gs(batch)
      BY <2>1 DEF Finished, Gs
    <3> QED
      BY <1>1, <1>2, <1>3, <1>4, <1>6, <2>1, <3>1 DEF JoinInv
  <2> QED
    BY <2>2, <2>3, <2>4 DEF AddInv
<1> QED
  BY <1>5, <1>6

LEMMA CasKept == CasInv /\ [Next]_vars => CasInv'
<1> SUFFICES ASSUME CasInv, [Next]_vars, running' = "CasCounter" PROVE AddInv'
  BY DEF CasInv
<1>1. CASE OfCas(Cas!Next)
  <2>1. AddInv
    BY <1>1 DEF OfCas, CasInv
  <2>2. Cas!AllGoroutines = Members(program)
    BY <2>1, BatchFacts DEF AddInv
  <2>3. CASE Cas!Main
    BY <2>1, <2>3, LaunchKeeps, WaitKeeps, ReceiveKeeps DEF Cas!Main
  <2>4. ASSUME NEW g \in Cas!AllGoroutines, Cas!Step(g) PROVE AddInv'
    BY <2>1, <2>2, <2>4, LoadKeeps, SwapKeeps, DeferKeeps DEF Cas!Step
  <2>5. CASE Cas!Terminated
    <3>1. UNCHANGED <<program, num, currNum, wins, pc, wg, sign, received, batch, main>>
      BY <2>5 DEF Cas!Terminated, Cas!vars, Cas!joinVars, Cas!mainVars
    <3>2. AddTypes'
      BY <2>1, <3>1 DEF AddInv, AddTypes
    <3>3. PhaseInv' /\ JoinInv'
      BY <2>1, <3>1 DEF AddInv, PhaseInv, JoinInv, Gs, Finished
    <3>4. NumInv' /\ TopInv'
      BY <2>1, <3>1 DEF AddInv, NumInv, TopInv, Gs, Shared, Cas!Sharing, Cas!Batches
    <3> QED
      BY <3>2, <3>3, <3>4 DEF AddInv
  <2> QED
    BY <1>1, <2>3, <2>4, <2>5 DEF OfCas, Cas!Next
<1>2. CASE UNCHANGED vars
  BY <1>2 DEF vars, casVars, CasInv, AddInv, AddTypes, PhaseInv, JoinInv, NumInv, TopInv, Gs,
     Finished, Shared, Cas!Sharing, Cas!Batches
<1>3. CASE OfSpin(Spin!Next) \/ OfTrigger(Turns!Next) \/ OfContext(Ctx!Next)
  BY <1>3 DEF OfSpin, OfTrigger, OfContext
<1> QED
  BY <1>1, <1>2, <1>3 DEF Next

LEMMA CasInvariant == Spec => []CasInv
BY CasStarts, CasKept, PTL DEF Spec

LEMMA CasTypes == CasInv => (running = "CasCounter" => Cas!TypeOK)
<1> SUFFICES ASSUME AddInv PROVE Cas!TypeOK
  BY DEF CasInv
<1>1. AddTypes /\ batch \in 1..Len(program.batches)
  BY DEF AddInv, AddTypes
<1>2. /\ Cas!AllGoroutines = Members(program) /\ Cas!Batches = program.batches
      /\ Cas!Top = program.top /\ Cas!Increment = program.increment
  BY <1>1, BatchFacts DEF Cas!Batches, Cas!Top, Cas!Increment
<1>3. Cas!Cardinality(Cas!B.gs) = Cardinality(Gs(batch))
  BY DEF Cas!B, Cas!Batches, Gs, Cas!Cardinality, Cardinality
<1>4. program.top \in Nat /\ program.increment \in Nat /\ num \in 0..(program.top + program.increment)
  BY DEF AddInv, AddTypes, Orderly, TopInv
<1>5. wg \in 0..Cardinality(Gs(batch)) /\ received \in 0..Cardinality(Gs(batch))
  <2>1. /\ Cardinality(Gs(batch)) \in Nat /\ Cardinality(Finished) \in Nat
        /\ Cardinality(Finished) <= Cardinality(Gs(batch))
        /\ program.batches[batch].join \in {"wg", "sign"}
    BY <1>1, BatchFacts
  <2>2. received \in Nat /\ received <= Cardinality(Gs(batch))
    BY DEF AddInv, AddTypes, JoinInv
  <2>3. wg = 0 \/ wg = Cardinality(Gs(batch)) - Cardinality(Finished)
    BY <2>1 DEF AddInv, JoinInv
  <2> QED
    BY <2>1, <2>2, <2>3
<1> QED
  BY <1>1, <1>2, <1>3, <1>4, <1>5 DEF AddTypes, Cas!TypeOK

LEMMA CasConserved == CasInv => (running = "CasCounter" => Cas!EverySuccessCounts)
<1> SUFFICES ASSUME AddInv, main # "launch"
             PROVE  num = Cas!Increment * Cas!Won(UNION {Cas!Batches[c].gs : c \in Cas!Sharing(batch)})
  BY DEF CasInv, Cas!EverySuccessCounts
<1>1. Cas!Won(UNION {Cas!Batches[c].gs : c \in Cas!Sharing(batch)}) = Cas!Won(Shared)
  BY DEF Shared, Gs, Cas!Batches
<1>2. Cas!Won(Shared) = Sum(wins, Shared)
  BY DEF Cas!Won, Sum, MapThenSumSet, MapThenFoldSet, Cas!MapThenSumSet, Cas!MapThenFoldSet
<1>3. num = program.increment * Sum(wins, Shared)
  BY DEF AddInv, NumInv
<1> QED
  BY <1>1, <1>2, <1>3 DEF Cas!Increment

LEMMA CasJoined == CasInv => (running = "CasCounter" => Cas!JoinedBatchComplete)
<1> SUFFICES ASSUME AddInv, NEW b \in 1..Len(program.batches), b < batch \/ main = "exit"
             PROVE  /\ \A g \in Gs(b) : program.single => wins[g] = 1
                    /\ ~program.single => Cas!Won(Gs(b)) * program.increment = program.top
  BY DEF CasInv, Cas!JoinedBatchComplete, Cas!Batches, Gs, Cas!Single, Cas!Increment, Cas!Top
<1>1. AddTypes /\ Gs(b) \subseteq Members(program) /\ IsFiniteSet(Gs(b))
  BY BatchFacts DEF AddInv
<1>2. ASSUME NEW g \in Gs(b), program.single PROVE wins[g] = 1
  BY <1>1, <1>2 DEF AddInv, PhaseInv
<1>3. ASSUME ~program.single PROVE Cas!Won(Gs(b)) * program.increment = program.top
  <2>1. program.increment * Sum(wins, Gs(b)) = program.top
    BY <1>3 DEF AddInv, TopInv
  <2>2. Cas!Won(Gs(b)) = Sum(wins, Gs(b))
    BY DEF Cas!Won, Sum, MapThenSumSet, MapThenFoldSet, Cas!MapThenSumSet, Cas!MapThenFoldSet
  <2>3. Sum(wins, Gs(b)) \in Nat /\ program.increment \in Nat
    <3>1. \A g \in Gs(b) : wins[g] \in Nat
      BY <1>1 DEF AddTypes
    <3> QED
      BY <1>1, <3>1, SumNat DEF AddTypes, Orderly
  <2>4. \A m, n \in Nat : m * n = n * m
    OBVIOUS
  <2> QED
    BY <2>1, <2>2, <2>3, <2>4
<1> QED
  BY <1>2, <1>3

-----------------------------------------------------------------------------
(* The properties of the run *)

\* Every variable of the program that runs has its type, whatever the sizes: the
\* counters of the joins stay within the batch, and the number within its top.
THEOREM TypeCorrect == Spec => []TypeOK
<1>1. CasInv /\ SpinInv /\ TriggerInv /\ ContextInv => TypeOK
  <2> SUFFICES ASSUME CasInv, SpinInv, TriggerInv, ContextInv PROVE TypeOK
    OBVIOUS
  <2>1. running = "Trigger" => Turns!TypeOK
    BY DEF TriggerInv, TurnInv, Turns!TypeOK, Turns!Proc
  <2> QED
    BY <2>1, CasTypes DEF TypeOK, SpinInv, FillInv, ContextInv, DepositInv, ContextTypes
<1> QED
  BY <1>1, CasInvariant, SpinInvariant, TriggerInvariant, ContextInvariant, PTL

\* However the loads, tests and swaps of the goroutines interleave, no addition,
\* deposit or withdrawal is lost, none is made twice and none is made up
\* (demo_waitgroup.go:53, demo_waitgroup2.go:42, demo_TryLock.go:22 and 34,
\* demo_context.go:26 and 55), for any number of goroutines and any amounts.
THEOREM NothingLost == Spec => []Conserved
<1>1. CasInv /\ SpinInv /\ ContextInv => Conserved
  BY CasConserved, ContextConserved DEF Conserved, SpinInv, FillInv
<1> QED
  BY <1>1, CasInvariant, SpinInvariant, ContextInvariant, PTL

\* When main of demo_waitgroup.go or demo_waitgroup2.go has joined a batch, by
\* signs or by the WaitGroup, the work of the batch is done: the number is at its
\* top, or each of the goroutines has added exactly once.
THEOREM JoinsAreComplete == Spec => []JoinedBatchComplete
<1>1. CasInv => JoinedBatchComplete
  BY CasJoined DEF JoinedBatchComplete
<1> QED
  BY <1>1, CasInvariant, PTL
=============================================================================
