----------------------------- MODULE RWAccount -----------------------------
(***************************************************************************)
(* goroutine/demo_rwmutex.go: an account with an operation count `num` and *)
(* a `balance`, checked under the read lock and updated under the write    *)
(* lock of one sync.RWMutex; main joins by receiving one sign from each    *)
(* goroutine, prints the account, and then runs redundantUnlock on a lock  *)
(* of its own.                                                             *)
(*                                                                         *)
(* The RWMutex is the one of package sync: Lock first announces the writer *)
(* (later readers wait), then waits for the readers inside; Unlock admits  *)
(* every reader that waits before another writer can announce itself.      *)
(***************************************************************************)
EXTENDS Integers, Sequences, FiniteSets, FiniteSetsExt

CONSTANTS N,         \* iterations of main's loop; 5 in the code
          SignCap,   \* capacity of the channel sign; 15 in the code
          Opening,   \* opening balance; 1000 in the code
          NoOne

Goroutine == {"withdraw", "deposit", "check"} \X (1..N)
Writers == {"withdraw", "deposit"} \X (1..N)

Value == [g \in Writers |-> IF g[1] = "deposit" THEN 500 ELSE -500]

\* The calls of each function, the deferred ones last.
checkUnlocked == <<"LoadNum", "LoadBalance", "Sign">>
check == <<"RLock", "LoadNum", "LoadBalance", "RUnlock", "Sign">>
depositReadLocked ==
  <<"RLock", "LoadNum", "StoreNum", "LoadBalance", "StoreBalance", "RUnlock", "Sign">>
depositNoUnlock ==
  <<"Lock", "Enter", "LoadNum", "StoreNum", "LoadBalance", "StoreBalance", "Sign">>
deposit ==
  <<"Lock", "Enter", "LoadNum", "StoreNum", "LoadBalance", "StoreBalance", "Unlock", "Sign">>
withdraw ==
  <<"Lock", "Enter", "LoadNum", "StoreNum", "LoadBalance", "StoreBalance", "Unlock", "Sign">>

Body(g) == CASE g[1] = "check" -> check
             [] g[1] = "deposit" -> deposit
             [] g[1] = "withdraw" -> withdraw

\* The calls redundantUnlock makes on a lock of its own.
redundantUnlock == <<"RLock", "RUnlock", "Lock", "Unlock">>

VARIABLES writer,    \* the writer that has announced itself, or NoOne
          readers,   \* the readers inside
          waiting,   \* the readers blocked in RLock by the writer
          num, balance,
          seen,      \* seen[g]: the num and the balance g has read
          pc,        \* pc[g]: index into Body(g); 0 before `go`
          sign,      \* number of elements in the channel
          main, i,   \* main's phase and its loop variable
          local      \* redundantUnlock's lock: "free", "read" or "write"

lockVars == <<writer, readers, waiting>>
dataVars == <<num, balance, seen>>
mainVars == <<main, i, local>>
vars == <<lockVars, dataVars, pc, sign, mainVars>>

\* The place of g in the order in which main starts the goroutines.
LaunchOrder(g) ==
  3 * (g[2] - 1) + (CASE g[1] = "withdraw" -> 1 [] g[1] = "deposit" -> 2 [] g[1] = "check" -> 3)

TypeOK ==
  /\ writer \in Writers \cup {NoOne}
  /\ readers \subseteq Goroutine /\ waiting \subseteq Goroutine
  /\ num \in Nat /\ balance \in Int
  /\ \A g \in Goroutine : seen[g].num \in Nat /\ seen[g].balance \in Int
  /\ \A g \in Goroutine : pc[g] \in 0..(Len(Body(g)) + 1)
  /\ sign \in 0..SignCap
  /\ main \in {"launch", "receive", "redundantUnlock", "exit", "panic"}
  /\ i \in 1..(IF main \in {"launch", "receive"} THEN 3 * N ELSE Len(redundantUnlock))
  /\ local \in {"free", "read", "write"}

Unread == [num |-> 0, balance |-> 0]

Init ==
  /\ writer = NoOne /\ readers = {} /\ waiting = {}
  /\ num = 0 /\ balance = Opening
  /\ seen = [g \in Goroutine |-> Unread]
  /\ pc = [g \in Goroutine |-> 0]
  /\ sign = 0
  /\ main = "launch" /\ i = 1 /\ local = "free"

Alive == main \notin {"exit", "panic"}

At(g, call) ==
  /\ Alive
  /\ pc[g] \in 1..Len(Body(g))
  /\ Body(g)[pc[g]] = call

Advance(S) == pc' = [g \in Goroutine |-> IF g \in S THEN pc[g] + 1 ELSE pc[g]]

\* The function has printed the account: what it read is dead.
Forget(g) == seen' = [seen EXCEPT ![g] = Unread]

Panic == main' = "panic" /\ UNCHANGED <<i, local>>

-----------------------------------------------------------------------------
(* The RWMutex *)

RLock(g) ==
  /\ At(g, "RLock") /\ g \notin waiting
  /\ IF writer = NoOne
       THEN readers' = readers \cup {g} /\ Advance({g}) /\ UNCHANGED waiting
       ELSE waiting' = waiting \cup {g} /\ UNCHANGED <<readers, pc>>
  /\ UNCHANGED <<writer, dataVars, sign, mainVars>>

RUnlock(g) ==
  /\ At(g, "RUnlock")
  /\ readers' = readers \ {g}
  /\ Advance({g})
  /\ Forget(g)
  /\ IF readers = {} THEN Panic ELSE UNCHANGED mainVars
  /\ UNCHANGED <<writer, waiting, num, balance, sign>>

Lock(g) ==
  /\ At(g, "Lock")
  /\ writer = NoOne
  /\ writer' = g
  /\ Advance({g})
  /\ UNCHANGED <<readers, waiting, dataVars, sign, mainVars>>

Enter(g) ==
  /\ At(g, "Enter")
  /\ readers = {}
  /\ Advance({g})
  /\ UNCHANGED <<lockVars, dataVars, sign, mainVars>>

Unlock(g) ==
  /\ At(g, "Unlock")
  /\ writer' = NoOne
  /\ readers' = readers \cup waiting
  /\ waiting' = {}
  /\ Advance({g} \cup waiting)
  /\ Forget(g)
  /\ IF writer = NoOne THEN Panic ELSE UNCHANGED mainVars
  /\ UNCHANGED <<num, balance, sign>>

-----------------------------------------------------------------------------
(* The account: += is a read and then a write, and the two fields are read *)
(* and written one after the other.                                        *)

LoadNum(g) ==
  /\ At(g, "LoadNum")
  /\ seen' = [seen EXCEPT ![g].num = num]
  /\ Advance({g})
  /\ UNCHANGED <<lockVars, num, balance, sign, mainVars>>

StoreNum(g) ==
  /\ At(g, "StoreNum")
  /\ num' = seen[g].num + 1
  /\ Advance({g})
  /\ UNCHANGED <<lockVars, balance, seen, sign, mainVars>>

LoadBalance(g) ==
  /\ At(g, "LoadBalance")
  /\ seen' = [seen EXCEPT ![g].balance = balance]
  /\ Advance({g})
  /\ UNCHANGED <<lockVars, num, balance, sign, mainVars>>

StoreBalance(g) ==
  /\ At(g, "StoreBalance")
  /\ balance' = seen[g].balance + Value[g]
  /\ Advance({g})
  /\ UNCHANGED <<lockVars, num, seen, sign, mainVars>>

Sign(g) ==
  /\ At(g, "Sign")
  /\ sign < SignCap
  /\ sign' = sign + 1
  /\ Advance({g})
  /\ UNCHANGED <<lockVars, dataVars, mainVars>>

Step(g) ==
  \/ RLock(g) \/ RUnlock(g) \/ Lock(g) \/ Enter(g) \/ Unlock(g)
  \/ LoadNum(g) \/ StoreNum(g) \/ LoadBalance(g) \/ StoreBalance(g) \/ Sign(g)

-----------------------------------------------------------------------------
(* main *)

Launch ==
  /\ main = "launch"
  /\ \E g \in Goroutine : LaunchOrder(g) = i /\ pc' = [pc EXCEPT ![g] = 1]
  /\ IF i < 3 * N THEN i' = i + 1 /\ UNCHANGED main
                  ELSE i' = 1 /\ main' = "receive"
  /\ UNCHANGED <<lockVars, dataVars, sign, local>>

ReceiveUnblocked ==
  /\ main = "receive"
  /\ sign' = sign - 1
  /\ IF i < 3 * N THEN i' = i + 1 /\ UNCHANGED main
                  ELSE i' = 1 /\ main' = "redundantUnlock"
  /\ UNCHANGED <<lockVars, dataVars, pc, local>>

\* <-sign
Receive ==
  /\ main = "receive"
  /\ sign > 0
  /\ sign' = sign - 1
  /\ IF i < 3 * N THEN i' = i + 1 /\ UNCHANGED main
                  ELSE i' = 1 /\ main' = "redundantUnlock"
  /\ UNCHANGED <<lockVars, dataVars, pc, local>>

\* Each unlock must find the lock in its own mode, or the runtime aborts.
RedundantUnlock ==
  /\ main = "redundantUnlock"
  /\ local' = CASE redundantUnlock[i] = "RLock" -> "read"
                [] redundantUnlock[i] = "Lock" -> "write"
                [] redundantUnlock[i] \in {"RUnlock", "Unlock"} -> "free"
  /\ main' = IF \/ redundantUnlock[i] = "RUnlock" /\ local # "read"
                \/ redundantUnlock[i] = "Unlock" /\ local # "write"
               THEN "panic"
               ELSE IF i < Len(redundantUnlock) THEN main ELSE "exit"
  /\ i' = IF i < Len(redundantUnlock) THEN i + 1 ELSE i
  /\ UNCHANGED <<lockVars, dataVars, pc, sign>>

Main == Launch \/ Receive \/ RedundantUnlock

Terminated == ~Alive /\ UNCHANGED vars

Next == (\E g \in Goroutine : Step(g)) \/ Main \/ Terminated

Spec == Init /\ [][Next]_vars /\ WF_vars(Main) /\ \A g \in Goroutine : WF_vars(Step(g))

-----------------------------------------------------------------------------
(* Properties *)

\* g has just read both fields, to print them.
Printed(g) == pc[g] - 1 \in 1..Len(Body(g)) /\ Body(g)[pc[g] - 1] = "LoadBalance"

\* What the operations of S add up to.
Moved(S) == MapThenSumSet(LAMBDA g : Value[g], S)

\* The account after exactly the operations of S.
After(S, n, b) == n = Cardinality(S) /\ b = Opening + Moved(S)

\* A check prints an operation count and the balance after exactly that many
\* operations: no reader sees one field of an update without the other. main,
\* which prints the account without the lock, sees all of the operations.
WholeUpdatesSeen ==
  /\ \A n \in 1..N :
       LET g == <<"check", n>> IN
       Printed(g) =>
         \E S \in SUBSET Writers : After(S, seen[g].num, seen[g].balance)
  /\ main \in {"redundantUnlock", "exit"} => After(Writers, num, balance)

\* A writer never overwrites another's update of the count or of the balance.
ExactStep ==
  \A g \in Writers :
    /\ StoreNum(g) => num' = num + 1
    /\ StoreBalance(g) => balance' = balance + Value[g]
ExactUpdate == [][ExactStep]_vars

\* Readers and writers all get the lock, and main returns: no unlock finds its
\* lock free or held in the other mode ("这里会引发panic", demo_rwmutex.go:96-108).
MainExits == <>(main = "exit")
=============================================================================
