---------------------------- MODULE SpinAccount ----------------------------
(***************************************************************************)
(* goroutine/demo_TryLock.go: deposit adds `Amount` atomically until it    *)
(* reads the balance `Full`; withdrawAll spins on a compare-and-swap from  *)
(* `Full` to 0. The test `balance == 10000` is a separate read, so that    *)
(* the withdrawal may come between an addition and the test after it.      *)
(***************************************************************************)
EXTENDS Integers

CONSTANTS Opening, Amount, Full     \* 1000, 1000 and 10000 in the code

VARIABLES balance,
          depositor,     \* "add", "test", "sleep", "done", "returned"
          withdrawer,    \* "swap", "sleep", "print", "done", "returned"
          wg, main,      \* main: "wait" or "exit"
          deposits, withdrawals   \* lines each function has printed

vars == <<balance, depositor, withdrawer, wg, main, deposits, withdrawals>>

TypeOK ==
  /\ balance \in Nat
  /\ depositor \in {"add", "test", "sleep", "done", "returned"}
  /\ withdrawer \in {"swap", "sleep", "print", "done", "returned"}
  /\ wg \in 0..2 /\ main \in {"wait", "exit"}
  /\ deposits \in Nat /\ withdrawals \in {0, 1}

\* wg.Add(2) and the two go statements.
Init ==
  /\ balance = Opening
  /\ depositor = "add" /\ withdrawer = "swap"
  /\ wg = 2 /\ main = "wait"
  /\ deposits = 0 /\ withdrawals = 0

Deposit(from, to) == main = "wait" /\ depositor = from /\ depositor' = to
Withdraw(from, to) == main = "wait" /\ withdrawer = from /\ withdrawer' = to

-----------------------------------------------------------------------------
(* deposit *)

\* atomic.AddInt32(&balance, value)
Add ==
  /\ Deposit("add", "test")
  /\ balance' = balance + Amount
  /\ deposits' = deposits + 1
  /\ UNCHANGED <<withdrawer, wg, main, withdrawals>>

\* if balance == 10000 { break }
Test ==
  /\ Deposit("test", IF balance = Full THEN "done" ELSE "sleep")
  /\ UNCHANGED <<balance, withdrawer, wg, main, deposits, withdrawals>>

DepositSleep ==
  /\ Deposit("sleep", "add")
  /\ UNCHANGED <<balance, withdrawer, wg, main, deposits, withdrawals>>

DepositDone ==
  /\ Deposit("done", "returned")
  /\ wg' = wg - 1
  /\ UNCHANGED <<balance, withdrawer, main, deposits, withdrawals>>

Depositor == Add \/ Test \/ DepositSleep \/ DepositDone

-----------------------------------------------------------------------------
(* withdrawAll *)

SwapAnything ==
  /\ Withdraw("swap", "print")
  /\ balance' = 0
  /\ UNCHANGED <<depositor, wg, main, deposits, withdrawals>>

\* atomic.CompareAndSwapInt32(&balance, value, 0)
Swap ==
  /\ IF balance = Full
       THEN Withdraw("swap", "print") /\ balance' = 0
       ELSE Withdraw("swap", "sleep") /\ UNCHANGED balance
  /\ UNCHANGED <<depositor, wg, main, deposits, withdrawals>>

WithdrawSleep ==
  /\ Withdraw("sleep", "swap")
  /\ UNCHANGED <<balance, depositor, wg, main, deposits, withdrawals>>

PrintWithdrawn ==
  /\ Withdraw("print", "done")
  /\ withdrawals' = withdrawals + 1
  /\ UNCHANGED <<balance, depositor, wg, main, deposits>>

\* defer wg.Done()
WithdrawDone ==
  /\ Withdraw("done", "returned")
  /\ wg' = wg - 1
  /\ UNCHANGED <<balance, depositor, main, deposits, withdrawals>>

Withdrawer == Swap \/ WithdrawSleep \/ PrintWithdrawn \/ WithdrawDone

-----------------------------------------------------------------------------

Wait ==
  /\ main = "wait" /\ wg = 0
  /\ main' = "exit"
  /\ UNCHANGED <<balance, depositor, withdrawer, wg, deposits, withdrawals>>

Terminated == main = "exit" /\ UNCHANGED vars

Next == Depositor \/ Withdrawer \/ Wait \/ Terminated

Spec == Init /\ [][Next]_vars /\ WF_vars(Depositor) /\ WF_vars(Withdrawer) /\ WF_vars(Wait)

-----------------------------------------------------------------------------
(* Properties *)

Withdrawn == IF withdrawer \in {"swap", "sleep"} THEN 0 ELSE Full

\* Money is neither lost nor made: the balance is what was there, plus every
\* deposit printed, less the one withdrawal; and the depositor never runs past
\* the one value at which it tests and the withdrawer swaps.
Conserved ==
  /\ balance = Opening + Amount * deposits - Withdrawn
  /\ balance <= Full

\* The withdrawal happens, the depositor stops and main prints the balance.
MainExits == <>(main = "exit")

\* "存满10000后全部取出" (docs/golang/golang-concurrent-synchronization-for-
\* atomic-operation.md:126): filled to 10000, then taken out entirely.
AllWithdrawn == main = "exit" => balance = 0
=============================================================================
