---------------------------- MODULE AccountDemos ----------------------------
(***************************************************************************)
(* The programs of Account, one record for each: the calls of their        *)
(* deposit and withdraw functions (deferred calls last, in reverse order   *)
(* of their defer statements) and the batches their mains launch. A        *)
(* goroutine is <<function, number>>. demo.go and test_goroutine.go have   *)
(* no balance: they launch a loop of goroutines and join them.             *)
(*                                                                         *)
(* `protecting` is 1 in the programs that have it: 1 is the flag's default *)
(* and no main calls flag.Parse, so the branch that locks is the one that  *)
(* runs.                                                                   *)
(***************************************************************************)
EXTENDS Account, FiniteSetsExt, SequencesExt

CONSTANT Pairs        \* iterations of main's loop; 5 in the code

deposit(n)  == <<"deposit", n>>
withdraw(n) == <<"withdraw", n>>

Both == {deposit(n) : n \in 1..Pairs} \cup {withdraw(n) : n \in 1..Pairs}

Bodies(depositBody, withdrawBody) ==
  [g \in Both |-> IF g[1] = "deposit" THEN depositBody ELSE withdrawBody]

Values(deposited, withdrawn) ==
  [g \in Both |-> IF g[1] = "deposit" THEN deposited ELSE -withdrawn]

deposits == [n \in 1..Pairs |-> deposit(n)]
withdrawals == [n \in 1..Pairs |-> withdraw(n)]

\* go withdraw(...); go deposit(...), in each iteration of one loop
Interleaved == FlattenSeq([n \in 1..Pairs |-> <<withdraw(n), deposit(n)>>])

-----------------------------------------------------------------------------
(* demo_mutex2.go *)
Mutex2SignFirst == <<"Lock", "Load", "Sign", "Store", "Unlock">>

Mutex2Deposit  == <<"Lock", "Lock", "Load", "Store", "Unlock", "Sign">>
Mutex2Withdraw == <<"Lock", "Load", "Store", "Unlock", "Sign">>

demo_mutex2 ==
  [body |-> Bodies(Mutex2Deposit, Mutex2Withdraw), value |-> Values(500, 500),
   plan |-> <<Interleaved>>, join |-> "sign"]

-----------------------------------------------------------------------------
(* demo_mutex2-copy.go: one withdraw of 700 and one deposit of 500 *)
CopyUnlocked == <<"Load", "Store", "Done">>

CopyDeposit  == <<"Lock", "Load", "Store", "Unlock", "Done">>
CopyWithdraw == <<"Lock", "Load", "Store", "Unlock", "Done">>

demo_mutex2_copy ==
  [body |-> Bodies(CopyDeposit, CopyWithdraw), value |-> Values(500, 700),
   plan |-> << <<withdraw(1), deposit(1)>> >>, join |-> "wg"]

-----------------------------------------------------------------------------
(* demo_waitgroup0.go: deposit calls Done inside the critical section *)
Wg0NoUnlock == <<"Lock", "Load", "Store", "Done">>
Wg0LateLock == <<"Load", "Lock", "Store", "Unlock", "Done">>

Wg0Deposit  == <<"Lock", "Load", "Store", "Done", "Unlock">>
Wg0Withdraw == <<"Lock", "Load", "Store", "Unlock", "Done">>

demo_waitgroup0 ==
  [body |-> Bodies(Wg0Deposit, Wg0Withdraw), value |-> Values(500, 500),
   plan |-> <<Interleaved>>, join |-> "wg"]

-----------------------------------------------------------------------------
(* demo_waitgroup0-1.go: all deposits, then all withdrawals, on one wg *)
Wg01DoneFirst == <<"Done", "Lock", "Load", "Store", "Unlock">>

Wg01Deposit  == <<"Lock", "Load", "Store", "Done", "Unlock">>
Wg01Withdraw == <<"Lock", "Load", "Store", "Unlock", "Done">>

demo_waitgroup0_1 ==
  [body |-> Bodies(Wg01Deposit, Wg01Withdraw), value |-> Values(500, 500),
   plan |-> <<deposits, withdrawals>>, join |-> "wg"]

-----------------------------------------------------------------------------
(* demo_waitgroup0-2.go: one deposit at a time, of 500 + i *)
Wg02Deposit == <<"Lock", "Load", "Store", "Done", "Unlock">>

demo_waitgroup0_2 ==
  [body |-> Bodies(Wg02Deposit, <<>>),
   value |-> [g \in Both |-> IF g[1] = "deposit" THEN 500 + g[2] - 1 ELSE 0],
   plan |-> [n \in 1..Pairs |-> <<deposit(n)>>], join |-> "wg"]

-----------------------------------------------------------------------------
(* demo.go: wg.Add(100); each goroutine counts in a variable of its own *)
demo_go ==
  [body |-> Bodies(<<"Done">>, <<"Done">>), value |-> Values(0, 0),
   plan |-> <<Interleaved>>, join |-> "wg"]

(* test_goroutine.go: one send and one receive for each goroutine *)
test_goroutine ==
  [body |-> Bodies(<<"Sign">>, <<"Sign">>), value |-> Values(0, 0),
   plan |-> <<Interleaved>>, join |-> "sign"]

-----------------------------------------------------------------------------
AllPrograms == {demo_mutex2, demo_mutex2_copy, demo_waitgroup0, demo_waitgroup0_1,
                demo_waitgroup0_2, demo_go, test_goroutine}

Mutex2 == {demo_mutex2}

Launched == UNION {BatchGoroutines(b) : b \in DOMAIN Plan}

\* Nothing but locking the mutex twice keeps one of these programs from its
\* end: main returns without a panic, and at its last Printf the balance is the
\* opening balance plus everything deposited less everything withdrawn, however
\* the goroutines interleave.
EndsInBalance ==
  RelockFree =>
    <>(/\ main = "exit"
       /\ balance = Opening + MapThenSumSet(LAMBDA g : Value[g], Launched))
=============================================================================
