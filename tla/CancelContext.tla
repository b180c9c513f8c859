--------------------------- MODULE CancelContext ---------------------------
(***************************************************************************)
(* goroutine/demo_context.go: goroutines that deposit a random amount each *)
(* with a compare-and-swap loop, and a main that launches them, waits for  *)
(* a context to be done and then leaves.                                   *)
(*   WithCancelDemo   the deferred function of each deposit cancels the    *)
(*                    context once the balance is Total or more; main then *)
(*                    withdraws Total                                      *)
(*   DeadlineDemo     as above with a deadline, and main prints ctx.Err()  *)
(*   WithTimeoutDemo  a timeout alone: the call of cancelFunc is commented *)
(*                    out                                                  *)
(* The context is the one of package context: cancelling and expiring both *)
(* close Done and set Err, and only the first of them has an effect.       *)
(***************************************************************************)
EXTENDS Integers, FiniteSets, FiniteSetsExt

CONSTANTS Depositor,   \* goroutines; 100 in the code
          Amounts,     \* what rand.Intn(2000) may return
          Total,       \* 10000 in the code
          Opening,     \* 1000 in the code
          Demos        \* the functions of the three that main may call

VARIABLES demo,    \* the function that main calls
          balance,
          num,     \* num[d]: the amount d deposits
          curr,    \* curr[p]: the balance p loaded
          pc,      \* of a depositor: "new", "load", "swap", "defer", "cancel", "done"
          err,     \* ctx.Err(): "nil", "canceled" or "exceeded"
          main     \* "launch", "wait", "load", "swap" or "exit"

vars == <<demo, balance, num, curr, pc, err, main>>

Main == "main"      \* main as the owner of a loaded balance

\* whether the deferred function of deposit calls cancelFunc; whether the context
\* has a deadline; whether main withdraws Total when the context is done
Cancels == demo # "WithTimeoutDemo"
Timer == demo # "WithCancelDemo"
Withdraws == demo = "WithCancelDemo"

TypeOK ==
  /\ demo \in Demos
  /\ balance \in Int
  /\ num \in [Depositor -> Amounts \cup {0}]
  /\ curr \in [Depositor \cup {Main} -> Int]
  /\ pc \in [Depositor -> {"new", "load", "swap", "defer", "cancel", "done"}]
  /\ err \in {"nil"} \cup (IF Cancels THEN {"canceled"} ELSE {})
                     \cup (IF Timer THEN {"exceeded"} ELSE {})
  /\ main \in {"launch", "wait", "load", "swap", "exit"}

Init ==
  /\ demo \in Demos
  /\ balance = Opening
  /\ num = [d \in Depositor |-> 0]
  /\ curr = [p \in Depositor \cup {Main} |-> 0]
  /\ pc = [d \in Depositor |-> "new"]
  /\ err = "nil"
  /\ main = "launch"

At(d, label) == main # "exit" /\ pc[d] = label

Goto(d, label) == pc' = [pc EXCEPT ![d] = label]

-----------------------------------------------------------------------------
(* deposit *)

DepositLoad(d) ==
  /\ At(d, "load")
  /\ curr' = [curr EXCEPT ![d] = balance]
  /\ Goto(d, "swap")
  /\ UNCHANGED <<demo, balance, num, err, main>>

DepositStore(d) ==
  /\ At(d, "swap")
  /\ balance' = curr[d] + num[d]
  /\ Goto(d, "defer")
  /\ UNCHANGED <<demo, num, curr, err, main>>

DepositSwap(d) ==
  /\ At(d, "swap")
  /\ IF balance = curr[d]
       THEN balance' = balance + num[d] /\ Goto(d, "defer")
       ELSE Goto(d, "load") /\ UNCHANGED balance
  /\ UNCHANGED <<demo, num, curr, err, main>>

\* The deferred function: if atomic.LoadInt32(&balance) >= total ...
DeferUntested(d) ==
  /\ At(d, "defer")
  /\ Goto(d, IF Cancels THEN "cancel" ELSE "done")
  /\ UNCHANGED <<demo, balance, num, curr, err, main>>

DeferOnEquality(d) ==
  /\ At(d, "defer")
  /\ Goto(d, IF balance = Total /\ Cancels THEN "cancel" ELSE "done")
  /\ UNCHANGED <<demo, balance, num, curr, err, main>>

Defer(d) ==
  /\ At(d, "defer")
  /\ Goto(d, IF balance >= Total /\ Cancels THEN "cancel" ELSE "done")
  /\ UNCHANGED <<demo, balance, num, curr, err, main>>

\* cancelFunc(): no effect on a context that is done already.
Cancel(d) ==
  /\ At(d, "cancel")
  /\ err' = IF err = "nil" THEN "canceled" ELSE err
  /\ Goto(d, "done")
  /\ UNCHANGED <<demo, balance, num, curr, main>>

Deposit(d) == DepositLoad(d) \/ DepositSwap(d) \/ Defer(d) \/ Cancel(d)

-----------------------------------------------------------------------------
(* The context's timer, and main *)

ExpireUntimed ==
  /\ err = "nil" /\ main # "exit"
  /\ err' = "exceeded"
  /\ UNCHANGED <<demo, balance, num, curr, pc, main>>

\* The deadline passes, however far the goroutines have come.
Expire ==
  /\ Timer /\ err = "nil" /\ main # "exit"
  /\ err' = "exceeded"
  /\ UNCHANGED <<demo, balance, num, curr, pc, main>>

\* One iteration: num := rand.Intn(2000); go deposit(...)
Launch(d) ==
  /\ main = "launch" /\ pc[d] = "new"
  /\ \E n \in Amounts : num' = [num EXCEPT ![d] = n]
  /\ Goto(d, "load")
  /\ UNCHANGED <<demo, balance, curr, err, main>>

\* The loop is over.
Launched ==
  /\ main = "launch" /\ \A d \in Depositor : pc[d] # "new"
  /\ main' = "wait"
  /\ UNCHANGED <<demo, balance, num, curr, pc, err>>

\* <-ctx.Done()
Awake ==
  /\ main = "wait" /\ err # "nil"
  /\ main' = IF Withdraws THEN "load" ELSE "exit"
  /\ UNCHANGED <<demo, balance, num, curr, pc, err>>

WithdrawLoad ==
  /\ main = "load"
  /\ curr' = [curr EXCEPT ![Main] = balance]
  /\ main' = "swap"
  /\ UNCHANGED <<demo, balance, num, pc, err>>

WithdrawSwap ==
  /\ main = "swap"
  /\ IF balance = curr[Main]
       THEN balance' = balance - Total /\ main' = "exit"
       ELSE main' = "load" /\ UNCHANGED balance
  /\ UNCHANGED <<demo, num, curr, pc, err>>

MainStep ==
  \/ \E d \in Depositor : Launch(d)
  \/ Launched \/ Awake \/ WithdrawLoad \/ WithdrawSwap

Terminated == main = "exit" /\ UNCHANGED vars

Next == (\E d \in Depositor : Deposit(d)) \/ Expire \/ MainStep \/ Terminated

Spec ==
  /\ Init /\ [][Next]_vars
  /\ WF_vars(Expire) /\ WF_vars(MainStep) /\ \A d \in Depositor : WF_vars(Deposit(d))

-----------------------------------------------------------------------------
(* Properties *)

\* What the goroutines of S have drawn to deposit.
Drawn(S) == MapThenSumSet(LAMBDA d : num[d], S)

Deposited == {d \in Depositor : pc[d] \in {"defer", "cancel", "done"}}

\* No deposit is lost and none is made twice, main's withdrawal among them; and
\* main withdraws Total only when the balance covers it, although deposits go on
\* between the test that cancelled, the cancellation and the withdrawal.
Conserved ==
  /\ balance = Opening + Drawn(Deposited) - (IF Withdraws /\ main = "exit" THEN Total ELSE 0)
  /\ balance >= 0

\* The deposits cancel when they reach Total, and only then: a context that is
\* canceled has deposits of Total behind it, and when those of Total are made the
\* deposit that reached it, or one after it, still comes to the test that cancels,
\* unless the context has ended. Each tests a balance that others change after its
\* own swap, and main takes Total out of it.
CancelsWhenFull ==
  /\ err = "canceled" => Opening + Drawn(Deposited) >= Total
  /\ Cancels /\ Deposited # {} /\ Opening + Drawn(Deposited) >= Total /\ err = "nil"
       => \E d \in Depositor : pc[d] \in {"defer", "cancel"}

\* When the amounts suffice, some deposit cancels the context and main leaves;
\* with a deadline it leaves whatever the goroutines do.
ExitsWhenFull ==
  /\ (main = "wait" /\ Opening + Drawn(Depositor) >= Total)
       ~> (main = "exit")
  /\ Timer => <>(main = "exit")

\* "要求是账户的钱大于10000后停止存钱" (docs/golang/golang-concurrent-
\* synchronization-for-context.md:49): once the balance has passed the total
\* and the context is cancelled, nobody deposits any more.
StopsWhenCanceled == [][err = "canceled" => balance' <= balance]_vars
=============================================================================
