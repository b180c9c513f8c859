------------------------------ MODULE Account ------------------------------
(***************************************************************************)
(* The bank-account programs of goroutine/ that share one package-level    *)
(* `balance` under one sync.Mutex and are joined by a sync.WaitGroup or by *)
(* a buffered channel `sign`: demo_mutex2.go, demo_mutex2-copy.go,         *)
(* demo_waitgroup0.go, demo_waitgroup0-1.go and demo_waitgroup0-2.go.      *)
(*                                                                         *)
(* They differ only in the order of the calls each function makes and in   *)
(* the batches in which main launches them, so a program is a record:      *)
(*   body    body[g]: the calls goroutine g makes, its deferred calls at   *)
(*           the end in the order the runtime runs them (last one first);  *)
(*   value   value[g]: what g adds to the balance (negative: withdraw);    *)
(*   plan    the batches main launches, each joined before the next;       *)
(*   join    "wg": wg.Wait()   "sign": one receive per goroutine.          *)
(* `balance += value` is not atomic: it is a Load and then a Store.        *)
(* AccountDemos has the record of each file.                               *)
(***************************************************************************)
EXTENDS Integers, Sequences, FiniteSets

CONSTANTS Goroutine,  \* every goroutine some program may launch
          Programs,   \* the programs; one of them runs
          SignCap,    \* capacity of the channel sign
          Opening,    \* the balance init() sets
          NoOne       \* the mutex is not locked

Call == {"Lock", "Unlock", "Load", "Store", "Done", "Sign"}

ASSUME AccountAssumption ==
  /\ IsFiniteSet(Goroutine) /\ NoOne \notin Goroutine
  /\ \A p \in Programs :
       /\ p.body \in [Goroutine -> Seq(Call)]
       /\ p.value \in [Goroutine -> Int]
       /\ p.plan \in Seq(Seq(Goroutine)) /\ Len(p.plan) > 0
       /\ \A b \in 1..Len(p.plan) : Len(p.plan[b]) > 0
       /\ \A b, c \in 1..Len(p.plan) :
            \A k \in 1..Len(p.plan[b]), l \in 1..Len(p.plan[c]) :
              p.plan[b][k] = p.plan[c][l] => b = c /\ k = l   \* `go` makes a new goroutine
       /\ p.join \in {"wg", "sign"}
  /\ SignCap \in Nat
  /\ Opening \in Int

VARIABLES program,  \* the program that runs
          mutex,    \* the goroutine that locked it, or NoOne
          balance,
          loaded,   \* loaded[g]: the balance g read for its +=
          pc,       \* pc[g]: index into Body[g]; 0 before `go`
          wg,       \* counter of the WaitGroup
          sign,     \* number of elements in the channel sign
          batch,    \* the batch main is working on
          i,        \* main's loop variable: the next launch or receive
          main      \* main: "add", "launch", "join", "exit" or "panic"

vars == <<program, mutex, balance, loaded, pc, wg, sign, batch, i, main>>
mainVars == <<batch, i, main>>
dataVars == <<balance, loaded>>

Body == program.body
Value == program.value
Plan == program.plan
Join == program.join

TypeOK ==
  /\ program \in Programs
  /\ mutex \in Goroutine \cup {NoOne}
  /\ balance \in Int
  /\ loaded \in [Goroutine -> Int]
  /\ pc \in [Goroutine -> Nat]
  /\ \A g \in Goroutine : pc[g] \in 0..(Len(Body[g]) + 1)
  /\ wg \in Nat
  /\ sign \in Nat /\ sign <= SignCap
  /\ batch \in 1..Len(Plan)
  /\ i \in 1..(Len(Plan[batch]))
  /\ main \in {"add", "launch", "join", "exit", "panic"}

Init ==
  /\ program \in Programs
  /\ mutex = NoOne
  /\ balance = Opening
  /\ loaded = [g \in Goroutine |-> 0]
  /\ pc = [g \in Goroutine |-> 0]
  /\ wg = 0
  /\ sign = 0
  /\ batch = 1
  /\ i = 1
  /\ main = "add"

-----------------------------------------------------------------------------
(* The calls of a goroutine. The process ends with main: no goroutine runs *)
(* after main has returned or after a panic.                               *)

Alive == main \notin {"exit", "panic"}

At(g, call) ==
  /\ Alive
  /\ pc[g] \in 1..Len(Body[g])
  /\ Body[g][pc[g]] = call

Advance(g) == pc' = [pc EXCEPT ![g] = @ + 1]

Panic == main' = "panic" /\ UNCHANGED <<batch, i>>

\* sync.Mutex is not reentrant: whoever holds it, Lock blocks.
Lock(g) ==
  /\ At(g, "Lock")
  /\ mutex = NoOne
  /\ mutex' = g
  /\ Advance(g)
  /\ UNCHANGED <<program, dataVars, wg, sign, mainVars>>

\* Unlocking an unlocked mutex is fatal. The owner is not checked.
Unlock(g) ==
  /\ At(g, "Unlock")
  /\ mutex' = NoOne
  /\ Advance(g)
  /\ IF mutex = NoOne THEN Panic ELSE UNCHANGED mainVars
  /\ UNCHANGED <<program, dataVars, wg, sign>>

Load(g) ==
  /\ At(g, "Load")
  /\ loaded' = [loaded EXCEPT ![g] = balance]
  /\ Advance(g)
  /\ UNCHANGED <<program, mutex, balance, wg, sign, mainVars>>

Store(g) ==
  /\ At(g, "Store")
  /\ balance' = loaded[g] + Value[g]
  /\ Advance(g)
  /\ UNCHANGED <<program, mutex, loaded, wg, sign, mainVars>>

DoneTwice(g) ==
  /\ At(g, "Done")
  /\ IF wg = 0 THEN wg' = wg /\ Panic ELSE wg' = wg - 2 /\ UNCHANGED mainVars
  /\ Advance(g)
  /\ UNCHANGED <<program, mutex, dataVars, sign>>

\* A negative WaitGroup counter panics.
Done(g) ==
  /\ At(g, "Done")
  /\ IF wg = 0 THEN wg' = wg /\ Panic ELSE wg' = wg - 1 /\ UNCHANGED mainVars
  /\ Advance(g)
  /\ UNCHANGED <<program, mutex, dataVars, sign>>

Sign(g) ==
  /\ At(g, "Sign")
  /\ sign < SignCap
  /\ sign' = sign + 1
  /\ Advance(g)
  /\ UNCHANGED <<program, mutex, dataVars, wg, mainVars>>

Step(g) == Lock(g) \/ Unlock(g) \/ Load(g) \/ Store(g) \/ Done(g) \/ Sign(g)

-----------------------------------------------------------------------------
(* main *)

\* wg.Add(n) for the batch; nothing to do when the batch is joined by sign.
Add ==
  /\ main = "add"
  /\ wg' = IF Join = "wg" THEN wg + Len(Plan[batch]) ELSE wg
  /\ main' = "launch"
  /\ UNCHANGED <<program, mutex, dataVars, pc, sign, batch, i>>

\* One iteration of the loop `for i := ...; i++`; `last` when it is over.
NextIteration(after) ==
  IF i < Len(Plan[batch])
    THEN i' = i + 1 /\ UNCHANGED <<batch, main>>
    ELSE after

Launch ==
  /\ main = "launch"
  /\ pc' = [pc EXCEPT ![Plan[batch][i]] = 1]
  /\ NextIteration(i' = 1 /\ main' = "join" /\ UNCHANGED batch)
  /\ UNCHANGED <<program, mutex, dataVars, wg, sign>>

Joined ==
  /\ i' = 1
  /\ IF batch < Len(Plan) THEN batch' = batch + 1 /\ main' = "add"
                          ELSE batch' = batch /\ main' = "exit"

\* wg.Wait()
Wait ==
  /\ main = "join" /\ Join = "wg"
  /\ wg = 0
  /\ Joined
  /\ UNCHANGED <<program, mutex, dataVars, pc, wg, sign>>

\* <-sign
Receive ==
  /\ main = "join" /\ Join = "sign"
  /\ sign > 0
  /\ sign' = sign - 1
  /\ NextIteration(Joined)
  /\ UNCHANGED <<program, mutex, dataVars, pc, wg>>

Main == Add \/ Launch \/ Wait \/ Receive

\* The process has ended.
Terminated == ~Alive /\ UNCHANGED vars

Next == (\E g \in Goroutine : Step(g)) \/ Main \/ Terminated

\* The Go scheduler runs every runnable goroutine in the end.
Fairness == WF_vars(Main) /\ \A g \in Goroutine : WF_vars(Step(g))

Spec == Init /\ [][Next]_vars /\ Fairness

-----------------------------------------------------------------------------
(* What a body must satisfy for its updates to be safe *)

\* A goroutine that has made the calls of s before position n, and no others,
\* holds the mutex.
Holds(s, n) ==
  \E l \in 1..(n - 1) : s[l] = "Lock" /\ \A k \in (l + 1)..(n - 1) : s[k] # "Unlock"

\* The mutex is unlocked only while held, and the balance is read and written
\* back in one go while it is held.
WellLocked(s) ==
  \A n \in 1..Len(s) :
    /\ s[n] \in {"Unlock", "Load", "Store"} => Holds(s, n)
    /\ s[n] = "Store" => n > 1 /\ s[n - 1] = "Load"

\* No goroutine locks the mutex while it holds it.
RelockFree == \A g \in Goroutine : \A n \in DOMAIN Body[g] : Body[g][n] = "Lock" => ~Holds(Body[g], n)

-----------------------------------------------------------------------------
(* Properties *)

\* No update of the balance is lost: every store changes the balance it
\* overwrites by exactly the value of the goroutine that stores.
ExactUpdate == [][\A g \in Goroutine : Store(g) => balance' = balance + Value[g]]_vars

Stored(g) == pc[g] > 0 /\ \A k \in DOMAIN Body[g] : Body[g][k] = "Store" => pc[g] > k

BatchGoroutines(b) == {Plan[b][k] : k \in 1..Len(Plan[b])}

\* A join is a barrier: when main has gone past the join of a batch, every
\* goroutine of that batch has stored its update (main prints the balance and
\* starts the next batch on the strength of it).
JoinBarrier ==
  \A b \in 1..Len(Plan) :
    (b < batch \/ main = "exit") => \A g \in BatchGoroutines(b) : Stored(g)

\* The signs main has received of the batch it joins.
Received == IF main = "join" THEN i - 1 ELSE 0

\* The signs in the channel and those main has received stand for goroutines
\* that have stored their update and let the mutex go.
SignsEarned ==
  sign + Received <= Cardinality({g \in Goroutine : Stored(g) /\ mutex # g})

\* main receives every sign and returns: "接收完后就会退出主goroutine"
\* (docs/golang/golang-concurrent-synchronization-for-mutex.md:99).
MainExits == <>(main = "exit")
=============================================================================
