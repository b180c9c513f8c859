---------------------------- MODULE AtomicDemos ----------------------------
(***************************************************************************)
(* The programs that synchronise with sync/atomic: demo_waitgroup.go and   *)
(* demo_waitgroup2.go (CasCounter), demo_TryLock.go (SpinAccount),         *)
(* test_goroutine_order.go (Trigger) and demo_context.go (CancelContext),  *)
(* all of goroutine/. One of them runs, and a variable that several of the *)
(* modules declare stands for the variable of the one that runs; those of  *)
(* the others keep the value Unused.                                       *)
(***************************************************************************)
EXTENDS Integers, Sequences, FiniteSetsExt

CONSTANTS Total, Stride,          \* of demo_waitgroup2.go
          Opening, Amount, Full,  \* of demo_TryLock.go
          N,                      \* of test_goroutine_order.go
          Depositors, Amounts,    \* of demo_context.go, as are the next two
          Needed, Funds,          \* its total and its opening balance
          Unused

\* demo_TryLock.go fills the balance in whole amounts; a batch of
\* demo_waitgroup2.go has a goroutine, and there is a batch.
ASSUME AtomicDemosAssumption ==
  /\ Total \in Nat /\ Stride \in Nat \ {0} /\ Stride <= Total
  /\ Amount \in Nat \ {0} /\ Opening \in Nat /\ Full \in Nat /\ Opening < Full
  /\ \E j \in 0..Opening : Opening = Amount * j
  /\ \E k \in 0..Full : Full = Amount * k
  /\ N \in Nat
  /\ IsFiniteSet(Depositors) /\ "main" \notin Depositors
  /\ Amounts \subseteq Nat /\ Needed \in Nat /\ Funds \in Nat

VARIABLES running,
          program, currNum, wins, sign, received, batch,   \* CasCounter
          depositor, withdrawer, deposits, withdrawals,    \* SpinAccount
          count, printed,         \* Trigger
          demo, curr, err,        \* CancelContext
          num,                    \* CasCounter and CancelContext
          balance,                \* SpinAccount and CancelContext
          wg,                     \* CasCounter and SpinAccount
          main,                   \* all but Trigger
          pc                      \* all but SpinAccount

casVars == <<program, currNum, wins, sign, received, batch>>
spinVars == <<depositor, withdrawer, deposits, withdrawals>>
triggerVars == <<count, printed>>
contextVars == <<demo, curr, err>>
vars == <<running, casVars, spinVars, triggerVars, contextVars, num, balance, wg, main, pc>>

-----------------------------------------------------------------------------
(* The records of CasCounter *)

demo_waitgroup ==
  [batches |-> << [gs |-> {1, 2}, join |-> "sign", fresh |-> TRUE],
                  [gs |-> {3, 4}, join |-> "wg", fresh |-> TRUE] >>,
   top |-> 10, increment |-> 2, single |-> FALSE]

demo_waitgroup2 ==
  [batches |-> [b \in 1..(Total \div Stride) |->
                  [gs |-> ((b - 1) * Stride + 1)..(b * Stride), join |-> "wg", fresh |-> b = 1]],
   top |-> Total, increment |-> 1, single |-> TRUE]

Cas == INSTANCE CasCounter WITH Programs <- {demo_waitgroup, demo_waitgroup2}, SignCap <- 2
Spin == INSTANCE SpinAccount
Turns == INSTANCE Trigger
Ctx == INSTANCE CancelContext WITH
  Depositor <- Depositors, Total <- Needed, Opening <- Funds,
  Demos <- {"WithCancelDemo", "DeadlineDemo", "WithTimeoutDemo"}

-----------------------------------------------------------------------------

CasUnused ==
  /\ program = Unused /\ currNum = Unused /\ wins = Unused
  /\ sign = Unused /\ received = Unused /\ batch = Unused

SpinUnused ==
  depositor = Unused /\ withdrawer = Unused /\ deposits = Unused /\ withdrawals = Unused

TriggerUnused == count = Unused /\ printed = Unused

ContextUnused == demo = Unused /\ curr = Unused /\ err = Unused

Init ==
  \/ /\ running = "CasCounter" /\ Cas!Init
     /\ SpinUnused /\ TriggerUnused /\ ContextUnused /\ balance = Unused
  \/ /\ running = "SpinAccount" /\ Spin!Init
     /\ CasUnused /\ TriggerUnused /\ ContextUnused /\ num = Unused /\ pc = Unused
  \/ /\ running = "Trigger" /\ Turns!Init
     /\ CasUnused /\ SpinUnused /\ ContextUnused
     /\ num = Unused /\ balance = Unused /\ wg = Unused /\ main = Unused
  \/ /\ running = "CancelContext" /\ Ctx!Init
     /\ CasUnused /\ SpinUnused /\ TriggerUnused /\ wg = Unused

\* A is a step of the program that runs, a program of this module.
OfCas(A) ==
  running = "CasCounter" /\ A /\ UNCHANGED <<running, spinVars, triggerVars, contextVars, balance>>
OfSpin(A) ==
  running = "SpinAccount" /\ A /\ UNCHANGED <<running, casVars, triggerVars, contextVars, num, pc>>
OfTrigger(A) ==
  /\ running = "Trigger" /\ A
  /\ UNCHANGED <<running, casVars, spinVars, contextVars, num, balance, wg, main>>
OfContext(A) ==
  running = "CancelContext" /\ A /\ UNCHANGED <<running, casVars, spinVars, triggerVars, wg>>

Next ==
  OfCas(Cas!Next) \/ OfSpin(Spin!Next) \/ OfTrigger(Turns!Next) \/ OfContext(Ctx!Next)

Spec ==
  /\ Init /\ [][Next]_vars
  /\ WF_vars(OfCas(Cas!Main)) /\ \A g \in Cas!Goroutine : WF_vars(OfCas(Cas!Step(g)))
  /\ WF_vars(OfSpin(Spin!Depositor)) /\ WF_vars(OfSpin(Spin!Withdrawer))
  /\ WF_vars(OfSpin(Spin!Wait))
  /\ \A p \in Turns!Proc : WF_vars(OfTrigger(Turns!Step(p)))
  /\ WF_vars(OfContext(Ctx!Expire)) /\ WF_vars(OfContext(Ctx!MainStep))
  /\ \A d \in Depositors : WF_vars(OfContext(Ctx!Deposit(d)))

-----------------------------------------------------------------------------
(* The properties of the modules, of the program that runs *)

TypeOK ==
  /\ running = "CasCounter" => Cas!TypeOK
  /\ running = "SpinAccount" => Spin!TypeOK
  /\ running = "Trigger" => Turns!TypeOK
  /\ running = "CancelContext" => Ctx!TypeOK

\* Whatever a program loads, tests and swaps in between, the number or the
\* balance is what the successful additions, deposits and withdrawals make of
\* the first one (demo_waitgroup.go:53, demo_waitgroup2.go:42,
\* demo_TryLock.go:22 and 34, demo_context.go:26 and 55).
Conserved ==
  /\ running = "CasCounter" => Cas!EverySuccessCounts
  /\ running = "SpinAccount" => Spin!Conserved
  /\ running = "CancelContext" => Ctx!Conserved

\* A join means that the work of the batch is done (demo_waitgroup.go:26, 39,
\* demo_waitgroup2.go:29).
JoinedBatchComplete == running = "CasCounter" => Cas!JoinedBatchComplete

\* test_goroutine_order.go prints its numbers in order and all of them.
InOrder == running = "Trigger" => Turns!InOrder

\* The deposits of demo_context.go cancel the context when they have reached the
\* total, and only then, whatever comes between the swap of a deposit, its test
\* and its cancellation (lines 26, 51-52 and 76-77).
CancelsWhenFull == running = "CancelContext" => Ctx!CancelsWhenFull

\* The amounts of demo_context.go that are to be deposited suffice.
Enough ==
  /\ running = "CancelContext" /\ main = "wait"
  /\ Funds + Ctx!Drawn(Depositors) >= Needed

\* Every one of the programs ends, for all its spinning; main of
\* demo_context.go leaves if the amounts suffice or there is a deadline.
MainExits ==
  /\ <>(CASE running = "Trigger" -> Turns!Exited
          [] running = "CancelContext" /\ demo = "WithCancelDemo" -> TRUE
          [] OTHER -> main = "exit")
  /\ Enough ~> (main = "exit")
=============================================================================
