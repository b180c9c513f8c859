--------------------------- MODULE AccountProofs ---------------------------
(***************************************************************************)
(* Three things about the account programs, for any goroutines, batches    *)
(* and bodies that meet a condition on their text, and then that the       *)
(* programs of the repository meet all of them:                            *)
(*   - no update of the balance is lost where the bodies lock the mutex    *)
(*     around their += (WellLocked). The argument is the classical one:    *)
(*     LockInv ties the mutex to the position of its holder in its body,   *)
(*     so at most one goroutine stands between its Lock and its Unlock;    *)
(*     LoadInv says that what a goroutine read is still the balance when   *)
(*     it comes to write;                                                  *)
(*   - a sign is earned where the bodies sign once, last of all;           *)
(*   - a join is a barrier where the goroutines report to it once, after   *)
(*     their stores: CountInv says what the counters count, and that only  *)
(*     the batch main is working on can change them.                       *)
(***************************************************************************)
EXTENDS AccountDemos, FiniteSetTheorems, TLAPS

LockInv == \A g \in Goroutine : mutex = g <=> Holds(Body[g], pc[g])

LoadInv ==
  \A g \in Goroutine :
    (pc[g] \in 1..Len(Body[g]) /\ Body[g][pc[g]] = "Store") => loaded[g] = balance

AllWellLocked == \A p \in Programs : \A g \in Goroutine : WellLocked(p.body[g])

-----------------------------------------------------------------------------
(* What Holds does as a body advances by one call *)

\* Nobody holds the mutex before its first call.
LEMMA HoldsStart ==
  ASSUME NEW s \in Seq(Call)
  PROVE  ~Holds(s, 0) /\ ~Holds(s, 1)
  BY DEF Holds

\* One call later the mutex is held if the call was a Lock, or if it was held
\* and the call was not an Unlock.
LEMMA HoldsNext ==
  ASSUME NEW s \in Seq(Call), NEW n \in 1..Len(s)
  PROVE  Holds(s, n + 1) <=> (s[n] = "Lock" \/ (Holds(s, n) /\ s[n] # "Unlock"))
<1>1. ASSUME s[n] = "Lock" PROVE Holds(s, n + 1)
  BY <1>1 DEF Holds
<1>2. ASSUME Holds(s, n), s[n] # "Unlock" PROVE Holds(s, n + 1)
  <2>1. PICK l \in 1..(n - 1) :
          s[l] = "Lock" /\ \A k \in (l + 1)..(n - 1) : s[k] # "Unlock"
    BY <1>2 DEF Holds
  <2>2. l \in 1..((n + 1) - 1) /\ \A k \in (l + 1)..((n + 1) - 1) : s[k] # "Unlock"
    BY <2>1, <1>2
  <2> QED BY <2>1, <2>2 DEF Holds
<1>3. ASSUME Holds(s, n + 1), s[n] # "Lock" PROVE Holds(s, n) /\ s[n] # "Unlock"
  <2>1. PICK l \in 1..((n + 1) - 1) :
          s[l] = "Lock" /\ \A k \in (l + 1)..((n + 1) - 1) : s[k] # "Unlock"
    BY <1>3 DEF Holds
  <2>2. l \in 1..(n - 1) /\ \A k \in (l + 1)..(n - 1) : s[k] # "Unlock"
    BY <2>1, <1>3
  <2>3. s[n] # "Unlock"
    BY <2>1, <2>2
  <2> QED BY <2>1, <2>2, <2>3 DEF Holds
<1> QED BY <1>1, <1>2, <1>3

-----------------------------------------------------------------------------
(* Types *)

ProgramTyped ==
  /\ \A g \in Goroutine : Body[g] \in Seq(Call) /\ Len(Body[g]) \in Nat /\ Value[g] \in Int
  /\ Len(Plan) \in Nat /\ Len(Plan) > 0
  /\ \A b \in 1..Len(Plan) : Len(Plan[b]) \in Nat /\ Len(Plan[b]) > 0
  /\ \A b \in 1..Len(Plan) : \A k \in 1..Len(Plan[b]) : Plan[b][k] \in Goroutine
  /\ SignCap \in Nat /\ Opening \in Int

SameProgram == Body' = Body /\ Plan' = Plan /\ Value' = Value /\ Join' = Join

\* What the assumption says of the lengths and the elements of the program.
LEMMA TypedProgram ==
  ASSUME program \in Programs
  PROVE  ProgramTyped
<1>1. ASSUME NEW g \in Goroutine
      PROVE  Body[g] \in Seq(Call) /\ Len(Body[g]) \in Nat /\ Value[g] \in Int
  BY AccountAssumption DEF AccountAssumption, Body, Value, Plan
<1>2. Len(Plan) \in Nat /\ Len(Plan) > 0 /\ SignCap \in Nat /\ Opening \in Int
  BY AccountAssumption DEF AccountAssumption, Body, Value, Plan
<1>3. ASSUME NEW b \in 1..Len(Plan)
      PROVE  Plan[b] \in Seq(Goroutine) /\ Len(Plan[b]) \in Nat /\ Len(Plan[b]) > 0
  <2>1. Plan \in Seq(Seq(Goroutine)) /\ \A c \in 1..Len(Plan) : Len(Plan[c]) > 0
    BY AccountAssumption DEF AccountAssumption, Plan
  <2> QED BY <2>1
<1>4. ASSUME NEW b \in 1..Len(Plan), NEW k \in 1..Len(Plan[b])
      PROVE  Plan[b][k] \in Goroutine
  BY <1>3
<1> QED BY <1>1, <1>2, <1>3, <1>4 DEF ProgramTyped

\* A goroutine is launched once only.
LEMMA LaunchedOnce ==
  ASSUME program \in Programs, NEW b \in 1..Len(Plan), NEW c \in 1..Len(Plan),
         NEW k \in 1..Len(Plan[b]), NEW l \in 1..Len(Plan[c]), Plan[b][k] = Plan[c][l]
  PROVE  b = c /\ k = l
<1>1. \A p \in Programs : \A d, e \in 1..Len(p.plan) :
        \A m \in 1..Len(p.plan[d]), n \in 1..Len(p.plan[e]) :
          p.plan[d][m] = p.plan[e][n] => d = e /\ m = n
  BY AccountAssumption DEF AccountAssumption
<1> QED BY <1>1 DEF Plan

\* The program that runs stays the same.
LEMMA ProgramKept ==
  ASSUME [Next]_vars
  PROVE  program' = program /\ SameProgram
<1>1. CASE \E g \in Goroutine : Step(g)
  BY <1>1 DEF Step, Lock, Unlock, Load, Store, Done, Sign, SameProgram, Body, Plan, Value, Join
<1>2. CASE Main
  BY <1>2 DEF Main, Add, Launch, Wait, Receive, SameProgram, Body, Plan, Value, Join
<1>3. CASE UNCHANGED vars
  BY <1>3 DEF vars, SameProgram, Body, Plan, Value, Join
<1> QED BY <1>1, <1>2, <1>3 DEF Next, Terminated

LEMMA AllLocked ==
  ASSUME AllWellLocked, program \in Programs
  PROVE  \A g \in Goroutine : WellLocked(Body[g])
  BY DEF AllWellLocked, Body

\* Every variable keeps its type; in particular a program counter never runs
\* past the end of its body, and the WaitGroup counter is never negative.
THEOREM TypeCorrect == Spec => []TypeOK
<1> USE DEF TypeOK, ProgramTyped
<1>1. Init => TypeOK
  BY TypedProgram DEF Init
<1>2. ASSUME TypeOK, [Next]_vars PROVE TypeOK'
  <2>0. ProgramTyped /\ program' = program /\ SameProgram
    BY <1>2, TypedProgram, ProgramKept
  <2> USE <2>0 DEF SameProgram
  <2>1. ASSUME NEW g \in Goroutine, Step(g) PROVE TypeOK'
    <3>0. pc' \in [Goroutine -> Nat] /\ \A h \in Goroutine : pc'[h] \in 0..(Len(Body[h]) + 1)
      <4>1. pc[g] \in 1..Len(Body[g]) /\ Advance(g)
        BY <2>1 DEF Step, Lock, Unlock, Load, Store, Done, Sign, At
      <4>2. /\ pc' = [pc EXCEPT ![g] = pc[g] + 1] /\ pc \in [Goroutine -> Nat]
            /\ \A h \in Goroutine : pc[h] \in 0..(Len(Body[h]) + 1)
        BY <1>2, <4>1 DEF Advance
      <4>3. Len(Body[g]) \in Nat /\ pc'[g] = pc[g] + 1
        BY <4>2
      <4>4. pc'[g] \in 0..(Len(Body[g]) + 1)
        BY <4>1, <4>3
      <4>5. \A h \in Goroutine : h # g => pc'[h] = pc[h]
        BY <4>2
      <4> QED BY <4>2, <4>3, <4>4, <4>5
    <3>1. CASE Lock(g)
      BY <1>2, <3>0, <3>1 DEF Lock, dataVars, mainVars
    <3>2. CASE Unlock(g)
      BY <1>2, <3>0, <3>2 DEF Unlock, Panic, dataVars, mainVars
    <3>3. CASE Load(g)
      BY <1>2, <3>0, <3>3 DEF Load, dataVars, mainVars
    <3>4. CASE Store(g)
      <4>1. balance' \in Int /\ UNCHANGED <<program, mutex, loaded, wg, sign, mainVars>>
        BY <1>2, <3>4 DEF Store
      <4> QED BY <1>2, <3>0, <4>1 DEF mainVars
    <3>5. CASE Done(g)
      <4>1. wg' \in Nat /\ main' \in {main, "panic"} /\ UNCHANGED <<batch, i>>
        BY <1>2, <3>5 DEF Done, Panic, mainVars
      <4> QED BY <1>2, <3>0, <3>5, <4>1 DEF Done, dataVars
    <3>6. CASE Sign(g)
      BY <1>2, <3>0, <3>6 DEF Sign, dataVars, mainVars
    <3> QED BY <2>1, <3>1, <3>2, <3>3, <3>4, <3>5, <3>6 DEF Step
  <2>2. CASE Add
    BY <1>2, <2>2 DEF Add, dataVars
  <2>3. CASE Launch
    <3>1. Plan[batch][i] \in Goroutine
      BY <1>2
    <3>2. i' \in 1..Len(Plan[batch]) /\ batch' = batch /\ main' \in {"launch", "join"}
      BY <1>2, <2>3 DEF Launch, NextIteration
    <3> QED BY <1>2, <2>3, <3>1, <3>2 DEF Launch, dataVars
  <2>4. CASE Wait
    BY <1>2, <2>4 DEF Wait, Joined, dataVars
  <2>5. CASE Receive
    BY <1>2, <2>5 DEF Receive, NextIteration, Joined, dataVars
  <2>6. CASE UNCHANGED vars
    BY <1>2, <2>6 DEF vars
  <2> QED BY <1>2, <2>1, <2>2, <2>3, <2>4, <2>5, <2>6 DEF Next, Main, Terminated
<1> QED BY <1>1, <1>2, PTL DEF Spec

-----------------------------------------------------------------------------
(* Launching *)

\* The k-th goroutine of batch b is one main has still to launch.
ToLaunch(b, k) ==
  b > batch \/ (b = batch /\ (main = "add" \/ (main = "launch" /\ k >= i)))

\* Goroutines still to be launched are at position 0, and only goroutines of
\* the batches main has come to are at another.
LaunchInv ==
  /\ \A b \in 1..Len(Plan) : \A k \in 1..Len(Plan[b]) : ToLaunch(b, k) => pc[Plan[b][k]] = 0
  /\ \A g \in Goroutine :
       pc[g] > 0 => \E b \in 1..batch : \E k \in 1..Len(Plan[b]) : Plan[b][k] = g

\* A call of g is made at a position of its body, and moves g on by one.
LEMMA StepAdvances ==
  ASSUME NEW g \in Goroutine, Step(g)
  PROVE  pc[g] \in 1..Len(Body[g]) /\ Advance(g)
BY DEF Step, Lock, Unlock, Load, Store, Done, Sign, At

\* main launches a goroutine that has made no call, and moves no other.
LEMMA LaunchStarts ==
  ASSUME TypeOK, LaunchInv, Launch
  PROVE  LET g == Plan[batch][i] IN
           /\ g \in Goroutine /\ pc[g] = 0 /\ pc'[g] = 1
           /\ \A h \in Goroutine : h # g => pc'[h] = pc[h]
<1> USE DEF TypeOK
<1>1. /\ batch \in 1..Len(Plan) /\ i \in 1..Len(Plan[batch])
      /\ Plan[batch][i] \in Goroutine
  BY TypedProgram DEF ProgramTyped
<1>2. pc[Plan[batch][i]] = 0
  BY <1>1 DEF Launch, LaunchInv, ToLaunch
<1>3. pc' = [pc EXCEPT ![Plan[batch][i]] = 1]
  BY DEF Launch
<1> QED BY <1>1, <1>2, <1>3

\* A goroutine still to be launched makes no call; main launches each once.
LEMMA LaunchPreserved ==
  ASSUME TypeOK, TypeOK', LaunchInv, [Next]_vars
  PROVE  LaunchInv'
<1>0. ProgramTyped /\ SameProgram
  BY TypedProgram, ProgramKept DEF TypeOK
<1> USE <1>0 DEF ProgramTyped, SameProgram
<1>1. ASSUME NEW g \in Goroutine, Step(g) PROVE LaunchInv'
  <2>1. pc[g] \in 1..Len(Body[g]) /\ Advance(g)
    BY <1>1, StepAdvances
  <2>2. pc'[g] > 0 /\ pc[g] > 0 /\ \A h \in Goroutine : h # g => pc'[h] = pc[h]
    <3> HIDE <1>0 DEF ProgramTyped, SameProgram
    <3>1. pc \in [Goroutine -> Nat] /\ pc[g] > 0 /\ pc' = [pc EXCEPT ![g] = pc[g] + 1]
      <4>1. pc \in [Goroutine -> Nat]
        BY DEF TypeOK
      <4> QED BY <2>1, <4>1 DEF Advance
    <3> QED BY <3>1
  <2>3. UNCHANGED mainVars \/ Panic
    BY <1>1 DEF Step, Lock, Unlock, Load, Store, Done, Sign
  <2>4. ASSUME NEW b \in 1..Len(Plan), NEW k \in 1..Len(Plan[b]), ToLaunch(b, k)'
        PROVE  pc'[Plan[b][k]] = 0
    <3>1. ToLaunch(b, k)
      BY <2>3, <2>4 DEF ToLaunch, Panic, mainVars
    <3>2. Plan[b][k] \in Goroutine
      OBVIOUS
    <3>3. pc[Plan[b][k]] = 0
      BY <3>1 DEF LaunchInv
    <3>4. Plan[b][k] # g
      BY <2>2, <3>3
    <3> QED BY <2>2, <3>2, <3>3, <3>4, Zenon
  <2>5. batch' = batch
    BY <2>3 DEF Panic, mainVars
  <2>6. ASSUME NEW h \in Goroutine, pc'[h] > 0 PROVE pc[h] > 0
    BY <2>2, <2>6
  <2> QED BY <2>4, <2>5, <2>6 DEF LaunchInv
<1>2. CASE Launch
  <2> DEFINE g == Plan[batch][i]
  <2>1. /\ g \in Goroutine /\ pc[g] = 0 /\ pc'[g] = 1
        /\ \A h \in Goroutine : h # g => pc'[h] = pc[h]
    BY <1>2, LaunchStarts
  <2>2. batch \in 1..Len(Plan) /\ i \in 1..Len(Plan[batch]) /\ batch' = batch
    BY <1>2 DEF TypeOK, Launch, NextIteration
  <2>3. ASSUME NEW b \in 1..Len(Plan), NEW k \in 1..Len(Plan[b]), ToLaunch(b, k)'
        PROVE  pc'[Plan[b][k]] = 0
    <3>1. ToLaunch(b, k) /\ ~(b = batch /\ k = i)
      BY <1>2, <2>2, <2>3 DEF Launch, NextIteration, ToLaunch
    <3>2. pc[Plan[b][k]] = 0
      BY <3>1 DEF LaunchInv
    <3>3. Plan[b][k] # g
      <4>1. program \in Programs
        BY DEF TypeOK
      <4>2. Plan[b][k] = Plan[batch][i] => b = batch /\ k = i
        BY <2>2, <4>1, LaunchedOnce
      <4> QED BY <3>1, <4>2
    <3> QED BY <2>1, <3>2, <3>3
  <2>4. ASSUME NEW h \in Goroutine, pc'[h] > 0
        PROVE  \E b \in 1..batch' : \E k \in 1..Len(Plan[b]) : Plan[b][k] = h
    <3>1. CASE h = g
      BY <2>2, <3>1
    <3>2. CASE h # g
      BY <2>1, <2>2, <2>4, <3>2 DEF LaunchInv
    <3> QED BY <3>1, <3>2
  <2> QED BY <2>3, <2>4 DEF LaunchInv
<1>3. CASE Add \/ Wait \/ Receive \/ UNCHANGED vars
  <2>1. pc' = pc
    BY <1>3 DEF Add, Wait, Receive, vars
  <2>2. batch \in Nat /\ batch' \in Nat /\ batch <= batch'
    BY <1>3 DEF Add, Wait, Receive, NextIteration, Joined, vars, TypeOK
  <2>3. ASSUME NEW b \in 1..Len(Plan), NEW k \in 1..Len(Plan[b]), ToLaunch(b, k)'
        PROVE  ToLaunch(b, k)
    <3>1. CASE Add
      BY <2>3, <3>1 DEF Add, ToLaunch, TypeOK
    <3>2. CASE Wait
      BY <2>3, <3>2 DEF Wait, Joined, ToLaunch, TypeOK
    <3>3. CASE Receive
      BY <2>3, <3>3 DEF Receive, NextIteration, Joined, ToLaunch, TypeOK
    <3>4. CASE UNCHANGED vars
      BY <2>3, <3>4 DEF vars, ToLaunch
    <3> QED BY <1>3, <3>1, <3>2, <3>3, <3>4
  <2>4. \A b \in 1..batch : b \in 1..batch'
    BY <2>2
  <2>5. \A b \in 1..Len(Plan) : \A k \in 1..Len(Plan[b]) : ToLaunch(b, k)' => pc'[Plan[b][k]] = 0
    BY <2>1, <2>3 DEF LaunchInv
  <2>6. \A g \in Goroutine :
          pc'[g] > 0 => \E b \in 1..batch' : \E k \in 1..Len(Plan[b]) : Plan[b][k] = g
    BY <2>1, <2>4 DEF LaunchInv
  <2> QED BY <2>5, <2>6 DEF LaunchInv
<1> QED BY <1>1, <1>2, <1>3 DEF Next, Main, Terminated

\* This needs nothing of the bodies.
LEMMA LaunchesOnce == Spec => []LaunchInv
<1>1. Init => LaunchInv
  <2> SUFFICES ASSUME Init PROVE LaunchInv
    OBVIOUS
  <2>1. ProgramTyped
    BY TypedProgram DEF Init
  <2> QED BY <2>1 DEF Init, LaunchInv, ProgramTyped
<1>2. TypeOK /\ TypeOK' /\ LaunchInv /\ [Next]_vars => LaunchInv'
  BY LaunchPreserved
<1> QED BY <1>1, <1>2, TypeCorrect, PTL DEF Spec

-----------------------------------------------------------------------------
(* Mutual exclusion *)

IInv == TypeOK /\ LockInv /\ LoadInv

\* Under WellLocked, the mutex stays tied to the position of its holder.
LEMMA LockPreserved ==
  ASSUME AllWellLocked, IInv, NEW g \in Goroutine, Step(g)
  PROVE  LockInv'
<1>0. /\ ProgramTyped /\ SameProgram
      /\ \A h \in Goroutine : WellLocked(Body[h])
  BY TypedProgram, ProgramKept, AllLocked DEF Next, IInv, TypeOK
<1> USE <1>0 DEF ProgramTyped, SameProgram
<1>1. pc[g] \in 1..Len(Body[g]) /\ Advance(g)
  BY StepAdvances
<1>2. /\ pc'[g] = pc[g] + 1
      /\ \A h \in Goroutine : h # g => pc'[h] = pc[h]
  BY <1>1 DEF Advance, IInv, TypeOK
<1>3. Holds(Body[g], pc'[g]) <=>
        (Body[g][pc[g]] = "Lock" \/ (Holds(Body[g], pc[g]) /\ Body[g][pc[g]] # "Unlock"))
  BY <1>1, <1>2, HoldsNext
<1>4. \A h \in Goroutine : mutex = h <=> Holds(Body[h], pc[h])
  BY DEF IInv, LockInv
<1>5. NoOne \notin Goroutine
  BY AccountAssumption DEF AccountAssumption, Body, Value, Plan
<1>6. CASE Body[g][pc[g]] = "Lock"
  <2>1. mutex = NoOne /\ mutex' = g
    BY <1>6 DEF Step, Lock, Unlock, Load, Store, Done, Sign, At
  <2> QED BY <1>2, <1>3, <1>4, <1>5, <1>6, <2>1 DEF LockInv
<1>7. CASE Body[g][pc[g]] = "Unlock"
  <2>1. mutex' = NoOne
    BY <1>7 DEF Step, Lock, Unlock, Load, Store, Done, Sign, At
  <2>2. mutex = g
    BY <1>1, <1>4, <1>7 DEF WellLocked
  <2>3. \A h \in Goroutine : ~Holds(Body[h], pc'[h])
    BY <1>2, <1>3, <1>4, <1>7, <2>2
  <2> QED BY <1>5, <2>1, <2>3 DEF LockInv
<1>8. CASE Body[g][pc[g]] \notin {"Lock", "Unlock"}
  <2>1. mutex' = mutex
    BY <1>8 DEF Step, Lock, Unlock, Load, Store, Done, Sign, At
  <2>2. Holds(Body[g], pc'[g]) <=> Holds(Body[g], pc[g])
    BY <1>3, <1>8
  <2> QED BY <1>2, <1>4, <2>1, <2>2 DEF LockInv
<1> QED BY <1>6, <1>7, <1>8

\* Under WellLocked, what a goroutine loaded is the balance until it stores.
LEMMA LoadPreserved ==
  ASSUME AllWellLocked, IInv, NEW g \in Goroutine, Step(g)
  PROVE  LoadInv'
<1>0. /\ ProgramTyped /\ SameProgram
      /\ \A h \in Goroutine : WellLocked(Body[h])
  BY TypedProgram, ProgramKept, AllLocked DEF Next, IInv, TypeOK
<1> USE <1>0 DEF ProgramTyped, SameProgram
<1>1. pc[g] \in 1..Len(Body[g]) /\ Advance(g)
  BY StepAdvances
<1>2. /\ pc'[g] = pc[g] + 1
      /\ \A h \in Goroutine : h # g => pc'[h] = pc[h]
  BY <1>1 DEF Advance, IInv, TypeOK
<1>3. SUFFICES ASSUME NEW h \in Goroutine,
                      pc'[h] \in 1..Len(Body[h]), Body[h][pc'[h]] = "Store"
               PROVE  loaded'[h] = balance'
  BY DEF LoadInv
<1>4. CASE h = g
  <2>1. Body[g][pc[g]] = "Load"
    <3>1. Body[g][pc'[g] - 1] = "Load"
      BY <1>3, <1>4 DEF WellLocked
    <3>2. pc'[g] - 1 = pc[g]
      BY <1>1, <1>2
    <3> QED BY <3>1, <3>2
  <2>2. Load(g)
    BY <2>1 DEF Step, Lock, Unlock, Load, Store, Done, Sign, At
  <2> QED BY <1>4, <2>2 DEF Load, IInv, TypeOK
<1>5. CASE h # g
  <2>1. pc[h] \in 1..Len(Body[h]) /\ Body[h][pc[h]] = "Store"
    BY <1>2, <1>3, <1>5
  <2>2. loaded[h] = balance /\ mutex = h
    BY <2>1 DEF IInv, LoadInv, LockInv, WellLocked
  <2>3. loaded'[h] = loaded[h]
    BY <1>5 DEF Step, Lock, Unlock, Load, Store, Done, Sign, dataVars, IInv, TypeOK
  <2>4. ~Store(g)
    <3>1. ASSUME Store(g) PROVE FALSE
      <4>1. Holds(Body[g], pc[g])
        BY <1>1, <3>1 DEF Store, At, WellLocked
      <4>2. mutex = g
        BY <4>1 DEF IInv, LockInv
      <4> QED BY <1>5, <2>2, <4>2
    <3> QED BY <3>1
  <2>5. balance' = balance
    BY <2>4 DEF Step, Lock, Unlock, Load, Done, Sign, dataVars
  <2> QED BY <2>2, <2>3, <2>5
<1> QED BY <1>4, <1>5

\* main's steps move no goroutine but the one they launch, which has made no
\* call before.
LEMMA MainPreserves ==
  ASSUME AllWellLocked, IInv, LaunchInv, Main
  PROVE  LockInv' /\ LoadInv'
<1>0. /\ ProgramTyped /\ SameProgram
      /\ \A h \in Goroutine : WellLocked(Body[h])
  BY TypedProgram, ProgramKept, AllLocked DEF Next, IInv, TypeOK
<1> USE <1>0 DEF ProgramTyped, SameProgram
<1>1. UNCHANGED <<mutex, balance, loaded>>
  BY DEF Main, Add, Launch, Wait, Receive, dataVars
<1>2. CASE Launch
  <2> DEFINE g == Plan[batch][i]
  <2>1. /\ g \in Goroutine /\ pc[g] = 0 /\ pc'[g] = 1
        /\ \A h \in Goroutine : h # g => pc'[h] = pc[h]
    BY <1>2, LaunchStarts DEF IInv
  <2>2. LockInv'
    <3>1. ~Holds(Body[g], pc[g]) /\ ~Holds(Body[g], pc'[g])
      BY <2>1, HoldsStart
    <3> QED BY <1>1, <2>1, <3>1 DEF IInv, LockInv
  <2>3. LoadInv'
    <3> SUFFICES ASSUME NEW h \in Goroutine,
                        pc'[h] \in 1..Len(Body[h]), Body[h][pc'[h]] = "Store"
                 PROVE  loaded'[h] = balance'
      BY DEF LoadInv
    <3>1. h # g
      BY <2>1 DEF WellLocked
    <3> QED BY <1>1, <2>1, <3>1 DEF IInv, LoadInv
  <2> QED BY <2>2, <2>3
<1>3. CASE Add \/ Wait \/ Receive
  <2>1. pc' = pc
    BY <1>3 DEF Add, Wait, Receive
  <2> QED BY <1>1, <2>1 DEF IInv, LockInv, LoadInv
<1> QED BY <1>2, <1>3 DEF Main

\* The inductive invariant holds throughout, for bodies that are well locked.
LEMMA Inductive ==
  ASSUME AllWellLocked
  PROVE  Spec => []IInv
<1>1. Init => IInv
  <2> SUFFICES ASSUME Init PROVE IInv
    OBVIOUS
  <2>0. ProgramTyped
    BY TypedProgram DEF Init
  <2> USE <2>0 DEF ProgramTyped
  <2>1. TypeOK
    BY DEF Init, TypeOK
  <2>2. LockInv
    BY HoldsStart, AccountAssumption DEF Init, LockInv, AccountAssumption
  <2>3. LoadInv
    BY DEF Init, LoadInv
  <2> QED BY <2>1, <2>2, <2>3 DEF IInv
<1>2. IInv /\ TypeOK' /\ LaunchInv /\ [Next]_vars => IInv'
  <2> SUFFICES ASSUME IInv, TypeOK', LaunchInv, [Next]_vars PROVE IInv'
    OBVIOUS
  <2>1. ASSUME NEW g \in Goroutine, Step(g) PROVE IInv'
    BY <2>1, LockPreserved, LoadPreserved DEF IInv
  <2>2. CASE Main
    BY <2>2, MainPreserves DEF IInv
  <2>3. CASE UNCHANGED vars
    <3>1. SameProgram
      BY ProgramKept
    <3> QED BY <2>3, <3>1 DEF IInv, vars, LockInv, LoadInv, SameProgram
  <2> QED BY <2>1, <2>2, <2>3 DEF Next, Terminated
<1> QED BY <1>1, <1>2, TypeCorrect, LaunchesOnce, PTL DEF Spec

\* No update is lost: for any goroutines, values and batches, as long as every
\* body is well locked, each store adds its value to the balance it overwrites.
THEOREM NoLostUpdate ==
  ASSUME AllWellLocked
  PROVE  Spec => ExactUpdate
<1>1. IInv /\ [Next]_vars => [\A g \in Goroutine : Store(g) => balance' = balance + Value[g]]_vars
  BY DEF IInv, LoadInv, Store, At
<1> QED BY <1>1, Inductive, PTL DEF Spec, ExactUpdate

\* Under the same condition nobody ever unlocks a mutex that is not locked.
UnlockHeld == \A g \in Goroutine : At(g, "Unlock") => mutex = g

THEOREM UnlockIsSafe ==
  ASSUME AllWellLocked
  PROVE  Spec => []UnlockHeld
<1>1. IInv => UnlockHeld
  BY AllLocked DEF TypeOK, IInv, LockInv, UnlockHeld, At, WellLocked
<1> QED BY <1>1, Inductive, PTL

-----------------------------------------------------------------------------
(* Joins *)

\* A goroutine that has made the calls of s before position n has made `call`.
Called(s, n, call) == \E k \in 1..(n - 1) : s[k] = call

\* `call` is made once at most, and nothing is stored after it.
CallsLast(s, call) ==
  \A n \in 1..Len(s) : s[n] = call =>
    \A k \in 1..Len(s) : (s[k] = call => k = n) /\ (s[k] = "Store" => k < n)

\* What a goroutine does for the join.
JoinCall(p) == IF p.join = "wg" THEN "Done" ELSE "Sign"

\* Every goroutine that is launched reports to the join, once, after its stores.
AllReport ==
  \A p \in Programs : \A b \in 1..Len(p.plan) : \A k \in 1..Len(p.plan[b]) :
    LET s == p.body[p.plan[b][k]] IN
      CallsLast(s, JoinCall(p)) /\ \E n \in 1..Len(s) : s[n] = JoinCall(p)

\* Every goroutine signs at most once, after its stores and outside the mutex.
AllSignLast ==
  \A p \in Programs : \A g \in Goroutine :
    /\ CallsLast(p.body[g], "Sign")
    /\ \A n \in 1..Len(p.body[g]) : p.body[g][n] = "Sign" =>
         \A k \in n..Len(p.body[g]) : ~Holds(p.body[g], k + 1)

Reported(b, k) == Called(Body[Plan[b][k]], pc[Plan[b][k]], JoinCall(program))

Reporters == {k \in 1..Len(Plan[batch]) : Reported(batch, k)}

\* The counter of the WaitGroup stands for the goroutines of the batch that have
\* not reported, the signs in the channel and those received for those that have.
CountInv ==
  Alive =>
    /\ Join = "wg" /\ main = "add" => wg = 0
    /\ Join = "wg" /\ main # "add" => wg + Cardinality(Reporters) = Len(Plan[batch])
    /\ Join # "wg" => sign + Received = Cardinality(Reporters)

BatchesReported ==
  \A b \in 1..Len(Plan) : (b < batch \/ main = "exit") =>
    \A k \in 1..Len(Plan[b]) : Reported(b, k)

Signed == {g \in Goroutine : Called(Body[g], pc[g], "Sign")}

SignInv == sign + Received <= Cardinality(Signed)

LEMMA CalledStart ==
  ASSUME NEW s, NEW call
  PROVE  ~Called(s, 0, call) /\ ~Called(s, 1, call)
  BY DEF Called

LEMMA CalledNext ==
  ASSUME NEW s, NEW n \in Nat \ {0}, NEW call
  PROVE  Called(s, n + 1, call) <=> (Called(s, n, call) \/ s[n] = call)
<1>1. 1..((n + 1) - 1) = 1..(n - 1) \cup {n}
  OBVIOUS
<1> QED BY <1>1 DEF Called

\* A goroutine's own calls, and nothing else, add to what it has called.
LEMMA CallsRecorded ==
  ASSUME TypeOK, NEW g \in Goroutine, Step(g), NEW h \in Goroutine, NEW call
  PROVE  Called(Body[h], pc'[h], call)
           <=> (Called(Body[h], pc[h], call) \/ (h = g /\ Body[g][pc[g]] = call))
<1>1. pc[g] \in 1..Len(Body[g]) /\ Advance(g)
  BY StepAdvances
<1>2. pc[g] \in Nat \ {0} /\ pc'[g] = pc[g] + 1 /\ (h # g => pc'[h] = pc[h])
  BY <1>1 DEF Advance, TypeOK
<1>3. Called(Body[g], pc[g] + 1, call) <=> (Called(Body[g], pc[g], call) \/ Body[g][pc[g]] = call)
  BY <1>2, CalledNext
<1> QED BY <1>2, <1>3

LEMMA MainCallsNothing ==
  ASSUME TypeOK, LaunchInv, Main \/ UNCHANGED vars, NEW h \in Goroutine, NEW call
  PROVE  Called(Body[h], pc'[h], call) <=> Called(Body[h], pc[h], call)
<1>1. CASE Launch
  <2>1. CASE h = Plan[batch][i]
    BY <1>1, <2>1, LaunchStarts, CalledStart
  <2>2. CASE h # Plan[batch][i]
    BY <1>1, <2>2, LaunchStarts
  <2> QED BY <2>1, <2>2
<1>2. CASE Add \/ Wait \/ Receive \/ UNCHANGED vars
  BY <1>2 DEF Add, Wait, Receive, vars
<1> QED BY <1>1, <1>2 DEF Main

\* A goroutine past its only report has nothing left to store.
LEMMA ReportedStored ==
  ASSUME TypeOK, NEW g \in Goroutine, NEW call, CallsLast(Body[g], call),
         Called(Body[g], pc[g], call)
  PROVE  Stored(g)
<1>1. PICK n \in 1..(pc[g] - 1) : Body[g][n] = call
  BY DEF Called
<1>2. Body[g] \in Seq(Call) /\ Len(Body[g]) \in Nat /\ pc[g] \in 0..(Len(Body[g]) + 1)
  BY TypedProgram DEF TypeOK, ProgramTyped
<1>3. n \in 1..Len(Body[g]) /\ n < pc[g] /\ DOMAIN Body[g] = 1..Len(Body[g])
  BY <1>1, <1>2
<1>4. ASSUME NEW k \in 1..Len(Body[g]), Body[g][k] = "Store" PROVE k < n
  BY <1>1, <1>3, <1>4 DEF CallsLast
<1> QED BY <1>2, <1>3, <1>4 DEF Stored

\* A call that is made once at most is not made after it has been made.
LEMMA CalledOnce ==
  ASSUME TypeOK, NEW g \in Goroutine, NEW call, CallsLast(Body[g], call),
         pc[g] \in 1..Len(Body[g]), Body[g][pc[g]] = call
  PROVE  ~Called(Body[g], pc[g], call)
<1> SUFFICES ASSUME NEW k \in 1..(pc[g] - 1), Body[g][k] = call PROVE FALSE
  BY DEF Called
<1>1. k \in 1..Len(Body[g]) /\ k # pc[g]
  <2>1. Len(Body[g]) \in Nat
    BY TypedProgram DEF TypeOK, ProgramTyped
  <2> QED BY <2>1
<1> QED BY <1>1 DEF CallsLast

-----------------------------------------------------------------------------
(* Signs *)

LEMMA SignedFinite ==
  /\ IsFiniteSet(Signed) /\ Cardinality(Signed) \in Nat
  /\ \A T \in SUBSET Goroutine : IsFiniteSet(T) /\ Cardinality(T) \in Nat
<1>1. \A T \in SUBSET Goroutine : IsFiniteSet(T) /\ Cardinality(T) \in Nat
  BY AccountAssumption, FS_Subset, FS_CardinalityType DEF AccountAssumption
<1>2. Signed \in SUBSET Goroutine
  BY DEF Signed
<1> QED BY <1>1, <1>2

LEMMA ReceivedTyped ==
  ASSUME TypeOK
  PROVE  Received \in Nat /\ i \in Nat \ {0}
<1>1. i \in Nat \ {0}
  BY TypedProgram DEF TypeOK, ProgramTyped
<1> QED BY <1>1 DEF Received

LEMMA LeqTransitive ==
  \A a, b, c \in Int : a <= b /\ b <= c => a <= c
  OBVIOUS

\* main receives the signs it takes out of the channel.
LEMMA SignsOrReceived ==
  ASSUME TypeOK, Main \/ UNCHANGED vars
  PROVE  sign' + Received' <= sign + Received
<1>0. i \in Nat \ {0} /\ Received \in Nat /\ sign \in Nat
  BY ReceivedTyped DEF TypeOK
<1>1. CASE Add
  <2>1. sign' = sign /\ Received' = 0
    BY <1>1 DEF Add, Received
  <2> QED BY <1>0, <2>1
<1>2. CASE Launch
  <2>1. sign' = sign /\ (main' = "launch" \/ (main' = "join" /\ i' = 1))
    BY <1>2 DEF Launch, NextIteration
  <2>2. Received' = 0
    BY <2>1 DEF Received
  <2> QED BY <1>0, <2>1, <2>2
<1>3. CASE Wait
  <2>1. sign' = sign /\ Received' = 0
    BY <1>3 DEF Wait, Joined, Received
  <2> QED BY <1>0, <2>1
<1>4. CASE Receive
  <2>1. sign' = sign - 1 /\ main = "join" /\ ((i' = i + 1 /\ main' = "join") \/ main' \in {"add", "exit"})
    BY <1>4 DEF Receive, NextIteration, Joined
  <2>2. Received' = Received + 1 \/ Received' = 0
    BY <1>0, <2>1 DEF Received
  <2> QED BY <1>0, <2>1, <2>2
<1>5. CASE UNCHANGED vars
  <2>1. sign' = sign /\ Received' = Received
    BY <1>5 DEF vars, Received
  <2> QED BY <1>0, <2>1
<1> QED BY <1>1, <1>2, <1>3, <1>4, <1>5 DEF Main

LEMMA SignPreserved ==
  ASSUME AllSignLast, TypeOK, TypeOK', LaunchInv, SignInv, [Next]_vars
  PROVE  SignInv'
<1>0. SameProgram /\ Received \in Nat /\ sign \in Nat /\ sign' \in Nat
  BY ProgramKept, ReceivedTyped DEF TypeOK
<1>1. \A g \in Goroutine : CallsLast(Body[g], "Sign")
  BY DEF AllSignLast, TypeOK, Body
<1>2. ASSUME NEW g \in Goroutine, Step(g) PROVE SignInv'
  <2>1. \A h \in Goroutine : Called(Body[h], pc'[h], "Sign")
          <=> (Called(Body[h], pc[h], "Sign") \/ (h = g /\ Body[g][pc[g]] = "Sign"))
    BY <1>2, CallsRecorded
  <2>2. CASE Sign(g)
    <3>1. pc[g] \in 1..Len(Body[g]) /\ Body[g][pc[g]] = "Sign"
      BY <2>2 DEF Sign, At
    <3>2. g \notin Signed
      BY <1>1, <3>1, CalledOnce DEF Signed
    <3>3. Signed' = Signed \cup {g}
      BY <1>0, <2>1, <3>1 DEF Signed, SameProgram
    <3>4. Cardinality(Signed') = Cardinality(Signed) + 1
      BY <3>2, <3>3, SignedFinite, FS_AddElement
    <3>5. sign' = sign + 1 /\ Received' = Received
      BY <2>2 DEF Sign, mainVars, Received
    <3> QED BY <1>0, <3>4, <3>5, SignedFinite DEF SignInv
  <2>3. CASE ~Sign(g)
    <3>1. Body[g][pc[g]] # "Sign"
      BY <1>2, <2>3 DEF Step, Lock, Unlock, Load, Store, Done, At
    <3>2. Signed' = Signed
      BY <1>0, <2>1, <3>1 DEF Signed, SameProgram
    <3>3. sign' = sign /\ (UNCHANGED mainVars \/ Panic)
      BY <1>2, <2>3 DEF Step, Lock, Unlock, Load, Store, Done
    <3>4. Received' = Received \/ Received' = 0
      BY <3>3 DEF mainVars, Panic, Received
    <3> QED BY <1>0, <3>2, <3>3, <3>4, SignedFinite DEF SignInv
  <2> QED BY <2>2, <2>3
<1>3. ASSUME Main \/ UNCHANGED vars PROVE SignInv'
  <2>1. \A h \in Goroutine : Called(Body[h], pc'[h], "Sign") <=> Called(Body[h], pc[h], "Sign")
    BY <1>3, MainCallsNothing
  <2>2. Signed' = Signed
    BY <1>0, <2>1 DEF Signed, SameProgram
  <2>3. sign' + Received' <= sign + Received /\ Received' \in Int
    <3>1. i' \in Nat \ {0}
      BY <1>0, TypedProgram DEF TypeOK, ProgramTyped, SameProgram
    <3> QED BY <1>3, <3>1, SignsOrReceived DEF Received
  <2>4. Cardinality(Signed) \in Nat
    BY SignedFinite
  <2>5. sign + Received <= Cardinality(Signed)
    BY DEF SignInv
  <2>6. sign' + Received' \in Int /\ sign + Received \in Int
    BY <1>0, <2>3
  <2>7. sign' + Received' <= Cardinality(Signed)
    BY <2>3, <2>4, <2>5, <2>6, LeqTransitive
  <2> QED BY <2>2, <2>7 DEF SignInv
<1> QED BY <1>2, <1>3 DEF Next, Terminated

\* Every sign in the channel and every sign main has received is that of a
\* goroutine that has stored its update and let the mutex go, for any programs
\* whose goroutines sign once, last of all.
THEOREM SignsAreEarned ==
  ASSUME AllWellLocked, AllSignLast
  PROVE  Spec => []SignsEarned
<1>1. Init => SignInv
  <2> SUFFICES ASSUME Init PROVE SignInv
    OBVIOUS
  <2>1. Received = 0
    BY DEF Init, Received
  <2> QED BY <2>1, SignedFinite DEF Init, SignInv
<1>2. TypeOK /\ TypeOK' /\ LaunchInv /\ SignInv /\ [Next]_vars => SignInv'
  BY SignPreserved
<1>3. IInv /\ SignInv => SignsEarned
  <2> SUFFICES ASSUME IInv, SignInv PROVE SignsEarned
    OBVIOUS
  <2> DEFINE Earned == {g \in Goroutine : Stored(g) /\ mutex # g}
  <2>1. ASSUME NEW g \in Signed PROVE g \in Earned
    <3>1. /\ CallsLast(Body[g], "Sign")
          /\ \A n \in 1..Len(Body[g]) : Body[g][n] = "Sign" =>
               \A k \in n..Len(Body[g]) : ~Holds(Body[g], k + 1)
      BY DEF AllSignLast, IInv, TypeOK, Body, Signed
    <3>2. Stored(g)
      BY <3>1, ReportedStored DEF IInv, Signed
    <3>3. PICK n \in 1..(pc[g] - 1) : Body[g][n] = "Sign"
      BY DEF Signed, Called
    <3>4. Len(Body[g]) \in Nat /\ pc[g] \in 0..(Len(Body[g]) + 1)
      BY TypedProgram DEF IInv, TypeOK, ProgramTyped, Signed
    <3>5. pc[g] - 1 \in n..Len(Body[g]) /\ n \in 1..Len(Body[g]) /\ (pc[g] - 1) + 1 = pc[g]
      BY <3>3, <3>4
    <3>6. ~Holds(Body[g], pc[g])
      BY <3>1, <3>3, <3>5
    <3> QED BY <3>2, <3>6 DEF IInv, LockInv, Signed
  <2>2. Cardinality(Signed) <= Cardinality(Earned)
    BY <2>1, SignedFinite, FS_Subset
  <2>3. Cardinality(Earned) \in Nat /\ Cardinality(Signed) \in Nat
    BY SignedFinite
  <2>4. sign \in Nat /\ Received \in Nat
    BY ReceivedTyped DEF IInv, TypeOK
  <2> QED BY <2>2, <2>3, <2>4 DEF SignsEarned, SignInv
<1> QED BY <1>1, <1>2, <1>3, TypeCorrect, LaunchesOnce, Inductive, PTL DEF Spec

-----------------------------------------------------------------------------
(* Barriers *)

JoinInv == CountInv /\ BatchesReported

LEMMA ReportersCounted ==
  ASSUME TypeOK
  PROVE  /\ IsFiniteSet(Reporters) /\ Cardinality(Reporters) \in Nat
         /\ Len(Plan[batch]) \in Nat \ {0} /\ Cardinality(Reporters) <= Len(Plan[batch])
         /\ Cardinality(Reporters) = Len(Plan[batch]) => Reporters = 1..Len(Plan[batch])
<1>1. Len(Plan[batch]) \in Nat \ {0}
  BY TypedProgram DEF TypeOK, ProgramTyped
<1>2. /\ IsFiniteSet(1..Len(Plan[batch]))
      /\ Cardinality(1..Len(Plan[batch])) = Len(Plan[batch])
  <2>1. \A n \in Nat \ {0} : IsFiniteSet(1..n) /\ Cardinality(1..n) = n
    BY FS_Interval
  <2> QED BY <1>1, <2>1
<1>3. Reporters \in SUBSET (1..Len(Plan[batch]))
  BY DEF Reporters
<1>4. IsFiniteSet(Reporters) /\ Cardinality(Reporters) \in Nat
  BY <1>2, <1>3, FS_Subset, FS_CardinalityType
<1> QED BY <1>1, <1>2, <1>3, <1>4, FS_Subset

\* What AllReport says of the goroutines of the program that runs.
LEMMA LaunchedReport ==
  ASSUME AllReport, TypeOK, NEW b \in 1..Len(Plan), NEW k \in 1..Len(Plan[b])
  PROVE  CallsLast(Body[Plan[b][k]], JoinCall(program))
  BY DEF AllReport, TypeOK, Body, Plan

\* A goroutine that reports is one of the current batch that has not yet.
LEMMA NewReporter ==
  ASSUME AllReport, TypeOK, LaunchInv, JoinInv, Alive, NEW g \in Goroutine,
         pc[g] \in 1..Len(Body[g]), Body[g][pc[g]] = JoinCall(program)
  PROVE  \E k \in 1..Len(Plan[batch]) : Plan[batch][k] = g /\ k \notin Reporters
<1>0. ProgramTyped
  BY TypedProgram DEF TypeOK
<1>1. PICK b \in 1..batch : \E k \in 1..Len(Plan[b]) : Plan[b][k] = g
  BY DEF LaunchInv
<1> PICK k \in 1..Len(Plan[b]) : Plan[b][k] = g
  BY <1>1
<1>2. b \in 1..Len(Plan) /\ batch \in 1..Len(Plan)
  BY <1>0 DEF TypeOK, ProgramTyped
<1>3. ~Reported(b, k)
  <2>1. CallsLast(Body[g], JoinCall(program))
    BY <1>2, LaunchedReport
  <2> QED BY <2>1, CalledOnce DEF Reported
<1>4. b = batch
  BY <1>2, <1>3 DEF JoinInv, BatchesReported
<1> QED BY <1>3, <1>4 DEF Reporters

\* Before main launches a batch nobody of it has reported.
LEMMA NobodyReported ==
  ASSUME TypeOK, LaunchInv, NEW b \in 1..Len(Plan), b > batch \/ (b = batch /\ main = "add"),
         NEW k \in 1..Len(Plan[b])
  PROVE  pc[Plan[b][k]] = 0 /\ ~Reported(b, k)
<1>1. pc[Plan[b][k]] = 0
  BY DEF LaunchInv, ToLaunch
<1> QED BY <1>1, CalledStart DEF Reported

\* One call of a goroutine: the counters follow its report.
LEMMA CallKeepsCount ==
  ASSUME AllReport, TypeOK, TypeOK', LaunchInv, JoinInv, NEW g \in Goroutine, Step(g)
  PROVE  JoinInv'
<1>0. /\ ProgramTyped /\ SameProgram /\ program' = program
      /\ batch \in 1..Len(Plan)
  BY TypedProgram, ProgramKept DEF Next, TypeOK
<1>1. Alive /\ batch' = batch /\ (UNCHANGED mainVars \/ Panic)
  BY DEF Step, Lock, Unlock, Load, Store, Done, Sign, At, Panic, mainVars
<1>2. pc[g] \in 1..Len(Body[g])
  BY StepAdvances
<1>3. ASSUME NEW b \in 1..Len(Plan), NEW k \in 1..Len(Plan[b])
      PROVE  Reported(b, k)' <=>
               (Reported(b, k) \/ (Plan[b][k] = g /\ Body[g][pc[g]] = JoinCall(program)))
  <2>1. Plan[b][k] \in Goroutine
    BY <1>0 DEF ProgramTyped
  <2>2. Called(Body[Plan[b][k]], pc'[Plan[b][k]], JoinCall(program)) <=>
          (Reported(b, k) \/ (Plan[b][k] = g /\ Body[g][pc[g]] = JoinCall(program)))
    BY <2>1, CallsRecorded DEF Reported
  <2> QED BY <1>0, <2>2 DEF SameProgram, Reported
<1>4. BatchesReported'
  <2> SUFFICES ASSUME NEW b \in 1..Len(Plan), b < batch \/ main' = "exit",
                      NEW k \in 1..Len(Plan[b])
               PROVE  Reported(b, k)'
    BY <1>0, <1>1 DEF BatchesReported, SameProgram
  <2>1. main' # "exit"
    BY <1>1 DEF Alive, Panic, mainVars
  <2> QED BY <1>3, <2>1 DEF JoinInv, BatchesReported
<1>5. CountInv'
  <2> SUFFICES ASSUME Alive' PROVE CountInv'
    BY DEF CountInv
  <2>1. UNCHANGED mainVars /\ Received' = Received
    BY <1>1 DEF Alive, Panic, mainVars, Received
  <2>2. CASE Body[g][pc[g]] = JoinCall(program)
    <3>1. PICK k \in 1..Len(Plan[batch]) : Plan[batch][k] = g /\ k \notin Reporters
      BY <1>1, <1>2, <2>2, NewReporter
    <3>2. ASSUME NEW l \in 1..Len(Plan[batch]), Plan[batch][l] = g PROVE l = k
      <4>1. program \in Programs /\ batch \in 1..Len(Plan)
        BY <1>0 DEF TypeOK
      <4> QED BY <3>1, <3>2, <4>1, LaunchedOnce
    <3>3. Reporters' = Reporters \cup {k}
      BY <1>0, <1>1, <1>3, <2>2, <3>1, <3>2 DEF Reporters, SameProgram
    <3>4. Cardinality(Reporters') = Cardinality(Reporters) + 1
      BY <3>1, <3>3, ReportersCounted, FS_AddElement
    <3>5. Cardinality(Reporters) < Len(Plan[batch])
      BY <3>1, ReportersCounted
    <3>6. CASE Join = "wg"
      <4>1. Done(g)
        BY <2>2, <3>6 DEF JoinCall, Join, Step, Lock, Unlock, Load, Store, Sign, At
      <4>2. main # "add"
        BY <1>0, <1>2, <3>1, NobodyReported
      <4>3. wg + Cardinality(Reporters) = Len(Plan[batch])
        BY <1>1, <3>6, <4>2 DEF JoinInv, CountInv
      <4>4. wg # 0
        BY <3>5, <4>3, ReportersCounted
      <4>5. wg' = wg - 1 /\ wg \in Nat
        BY <4>1, <4>4 DEF Done, TypeOK
      <4>6. wg' + Cardinality(Reporters') = Len(Plan[batch])
        BY <3>4, <4>3, <4>5, ReportersCounted
      <4> QED BY <1>0, <2>1, <3>6, <4>2, <4>6 DEF CountInv, SameProgram, mainVars
    <3>7. CASE Join # "wg"
      <4>1. Sign(g)
        BY <2>2, <3>7 DEF JoinCall, Join, Step, Lock, Unlock, Load, Store, Done, At
      <4>2. sign' = sign + 1 /\ sign \in Nat /\ Received \in Nat
        BY <4>1, ReceivedTyped DEF Sign, TypeOK
      <4>3. sign + Received = Cardinality(Reporters)
        BY <1>1, <3>7 DEF JoinInv, CountInv
      <4>4. sign' + Received' = Cardinality(Reporters')
        BY <2>1, <3>4, <4>2, <4>3, ReportersCounted
      <4> QED BY <1>0, <3>7, <4>4 DEF CountInv, SameProgram
    <3> QED BY <3>6, <3>7
  <2>3. CASE Body[g][pc[g]] # JoinCall(program)
    <3>1. Reporters' = Reporters
      BY <1>0, <1>1, <1>3, <2>3 DEF Reporters, SameProgram
    <3>2. CASE Join = "wg"
      <4>1. wg' = wg
        BY <2>3, <3>2 DEF JoinCall, Join, Step, Lock, Unlock, Load, Store, Done, Sign, At
      <4> QED BY <1>0, <1>1, <2>1, <3>1, <3>2, <4>1
              DEF JoinInv, CountInv, SameProgram, mainVars
    <3>3. CASE Join # "wg"
      <4>1. sign' = sign
        BY <2>3, <3>3 DEF JoinCall, Join, Step, Lock, Unlock, Load, Store, Done, Sign, At
      <4> QED BY <1>0, <1>1, <2>1, <3>1, <3>3, <4>1
              DEF JoinInv, CountInv, SameProgram, mainVars
    <3> QED BY <3>2, <3>3
  <2> QED BY <2>2, <2>3
<1> QED BY <1>4, <1>5 DEF JoinInv

\* main goes on to the next batch, or to its end, when everybody has reported.
LEMMA AllReported ==
  ASSUME TypeOK, LaunchInv, JoinInv, Reporters = 1..Len(Plan[batch]), program' = program,
         UNCHANGED pc, Joined, CountInv'
  PROVE  JoinInv'
<1>0. /\ ProgramTyped /\ batch \in 1..Len(Plan) /\ Plan' = Plan /\ Body' = Body
  BY TypedProgram DEF TypeOK, Body, Plan
<1>1. ASSUME NEW b \in 1..Len(Plan), b <= batch, NEW k \in 1..Len(Plan[b])
      PROVE  Reported(b, k)
  <2>1. CASE b = batch
    BY <2>1, <1>1 DEF Reporters
  <2>2. CASE b < batch
    BY <2>2, <1>1 DEF JoinInv, BatchesReported
  <2> QED BY <1>0, <1>1, <2>1, <2>2
<1>2. ASSUME NEW b \in 1..Len(Plan), b < batch' \/ main' = "exit" PROVE b <= batch
  BY <1>0, <1>2 DEF Joined, ProgramTyped
<1>3. BatchesReported'
  BY <1>0, <1>1, <1>2 DEF BatchesReported, Reported
<1> QED BY <1>3 DEF JoinInv

\* main's own steps: the counters still count when a batch is added or joined.
LEMMA MainKeepsCount ==
  ASSUME TypeOK, TypeOK', LaunchInv, JoinInv, [Next]_vars, Main \/ UNCHANGED vars
  PROVE  JoinInv'
<1>0. /\ ProgramTyped /\ SameProgram /\ program' = program
      /\ batch \in 1..Len(Plan)
  BY TypedProgram, ProgramKept DEF TypeOK
<1>1. ASSUME NEW b \in 1..Len(Plan), NEW k \in 1..Len(Plan[b])
      PROVE  Reported(b, k)' <=> Reported(b, k)
  <2>1. Plan[b][k] \in Goroutine
    BY <1>0 DEF ProgramTyped
  <2>2. Called(Body[Plan[b][k]], pc'[Plan[b][k]], JoinCall(program)) <=> Reported(b, k)
    BY <2>1, MainCallsNothing DEF Reported
  <2> QED BY <1>0, <2>2 DEF SameProgram, Reported
<1>2. ASSUME batch' = batch PROVE Reporters' = Reporters
  BY <1>0, <1>1, <1>2 DEF Reporters, SameProgram
<1>3. ASSUME batch' = batch, main' = "exit" => main = "exit" PROVE BatchesReported'
  BY <1>0, <1>1, <1>3 DEF JoinInv, BatchesReported, SameProgram
<1>4. CASE Add
  <2>1. /\ batch' = batch /\ Alive /\ main = "add" /\ main' = "launch" /\ sign' = sign
        /\ Received = 0 /\ Received' = 0
    BY <1>4 DEF Add, Alive, Received
  <2>2. Reporters = {}
    BY <1>0, <2>1, NobodyReported DEF Reporters
  <2>3. Reporters' = {} /\ Cardinality(Reporters) = 0 /\ Cardinality(Reporters') = 0
    BY <1>2, <2>1, <2>2, FS_EmptySet
  <2>4. CASE Join = "wg"
    <3>1. wg = 0 /\ wg' = wg + Len(Plan[batch]) /\ Len(Plan[batch]) \in Nat
      BY <1>4, <2>1, <2>4, ReportersCounted DEF Add, JoinInv, CountInv
    <3>2. wg' + Cardinality(Reporters') = Len(Plan[batch])
      BY <2>3, <3>1
    <3> QED BY <1>0, <1>3, <2>1, <2>4, <3>2 DEF JoinInv, CountInv, SameProgram
  <2>5. CASE Join # "wg"
    BY <1>0, <1>3, <2>1, <2>3, <2>5 DEF JoinInv, CountInv, SameProgram
  <2> QED BY <2>4, <2>5
<1>5. CASE Launch
  <2>1. /\ batch' = batch /\ Alive /\ main = "launch" /\ sign' = sign /\ wg' = wg
        /\ (main' = "launch" \/ (main' = "join" /\ i' = 1))
    BY <1>5 DEF Launch, NextIteration, Alive
  <2>2. Received = 0 /\ Received' = 0
    BY <2>1 DEF Received
  <2> QED BY <1>0, <1>2, <1>3, <2>1, <2>2 DEF JoinInv, CountInv, SameProgram
<1>6. CASE Wait
  <2>1. /\ Join = "wg" /\ wg = 0 /\ wg' = wg /\ Joined /\ Alive /\ main # "add" /\ UNCHANGED pc
        /\ main' \in {"add", "exit"}
    BY <1>6 DEF Wait, Alive, Joined
  <2>2. Cardinality(Reporters) = Len(Plan[batch])
    BY <2>1, ReportersCounted DEF JoinInv, CountInv
  <2>3. CountInv'
    BY <1>0, <2>1 DEF CountInv, Alive, SameProgram
  <2> QED BY <1>0, <2>1, <2>2, <2>3, ReportersCounted, AllReported
<1>7. CASE Receive
  <2>1. /\ Join # "wg" /\ sign \in Nat \ {0} /\ sign' = sign - 1 /\ main = "join" /\ Alive
        /\ Received = i - 1 /\ i \in Nat \ {0} /\ UNCHANGED pc
    BY <1>7, ReceivedTyped DEF Receive, Alive, Received, TypeOK
  <2>2. sign + Received = Cardinality(Reporters)
    BY <2>1 DEF JoinInv, CountInv
  <2>3. CASE i < Len(Plan[batch])
    <3>1. batch' = batch /\ main' = main /\ i' = i + 1
      BY <1>7, <2>3 DEF Receive, NextIteration
    <3>2. Received' = Received + 1
      BY <2>1, <3>1 DEF Received
    <3>3. sign' + Received' = Cardinality(Reporters)
      BY <2>1, <2>2, <3>2
    <3> QED BY <1>0, <1>2, <1>3, <2>1, <3>1, <3>3 DEF JoinInv, CountInv, SameProgram
  <2>4. CASE ~(i < Len(Plan[batch]))
    <3>1. Joined /\ main' \in {"add", "exit"} /\ Received' = 0
      BY <1>7, <2>4 DEF Receive, NextIteration, Joined, Received
    <3>2. i = Len(Plan[batch])
      <4>1. i \in 1..Len(Plan[batch]) /\ Len(Plan[batch]) \in Nat
        BY <1>0 DEF TypeOK, ProgramTyped
      <4> QED BY <2>4, <4>1
    <3>3. Cardinality(Reporters) = Len(Plan[batch]) /\ sign' = 0
      BY <2>1, <2>2, <3>2, ReportersCounted
    <3>4. CountInv'
      <4> SUFFICES ASSUME Alive' PROVE CountInv'
        BY DEF CountInv
      <4>1. batch' = batch + 1 /\ batch' \in 1..Len(Plan)
        BY <1>0, <3>1 DEF Joined, Alive, ProgramTyped
      <4>2. \A k \in 1..Len(Plan[batch']) : ~Reported(batch', k)
        BY <1>0, <4>1, NobodyReported DEF ProgramTyped
      <4>3. Reporters' = {}
        BY <1>0, <1>1, <4>1, <4>2 DEF Reporters, SameProgram
      <4>4. sign' + Received' = Cardinality(Reporters')
        BY <3>1, <3>3, <4>3, FS_EmptySet
      <4> QED BY <1>0, <2>1, <4>4 DEF CountInv, SameProgram
    <3> QED BY <1>0, <2>1, <3>1, <3>3, <3>4, ReportersCounted, AllReported
  <2> QED BY <2>3, <2>4
<1>8. CASE UNCHANGED vars
  <2>1. /\ batch' = batch /\ main' = main /\ sign' = sign /\ wg' = wg
        /\ Received' = Received
    BY <1>8 DEF vars, Received
  <2> QED BY <1>0, <1>2, <1>3, <2>1 DEF JoinInv, CountInv, Alive, SameProgram
<1> QED BY <1>4, <1>5, <1>6, <1>7, <1>8 DEF Main

\* The join of a batch, by the WaitGroup or by signs, lets main on only when
\* every goroutine of the batch has stored its update, for any programs whose
\* goroutines report once, after their stores.
THEOREM JoinsAreBarriers ==
  ASSUME AllReport
  PROVE  Spec => []JoinBarrier
<1>1. Init => JoinInv
  <2> SUFFICES ASSUME Init PROVE JoinInv
    OBVIOUS
  <2>0. ProgramTyped
    BY TypedProgram DEF Init
  <2>1. Reporters = {}
    BY <2>0, CalledStart DEF Init, Reporters, Reported, ProgramTyped
  <2>2. sign + Received = Cardinality(Reporters) /\ wg = 0 /\ main = "add"
    BY <2>1, FS_EmptySet DEF Init, Received
  <2>3. BatchesReported
    BY <2>0 DEF Init, BatchesReported, ProgramTyped
  <2> QED BY <2>2, <2>3 DEF JoinInv, CountInv
<1>2. TypeOK /\ TypeOK' /\ LaunchInv /\ JoinInv /\ [Next]_vars => JoinInv'
  BY CallKeepsCount, MainKeepsCount DEF Next, Terminated
<1>3. TypeOK /\ JoinInv => JoinBarrier
  <2> SUFFICES ASSUME TypeOK, JoinInv, NEW b \in 1..Len(Plan), b < batch \/ main = "exit",
                      NEW k \in 1..Len(Plan[b])
               PROVE  Stored(Plan[b][k])
    BY DEF JoinBarrier, BatchGoroutines
  <2>1. Plan[b][k] \in Goroutine
    BY TypedProgram DEF TypeOK, ProgramTyped
  <2>2. Reported(b, k)
    BY DEF JoinInv, BatchesReported
  <2> QED BY <2>1, <2>2, LaunchedReport, ReportedStored DEF Reported
<1> QED BY <1>1, <1>2, <1>3, TypeCorrect, LaunchesOnce, PTL DEF Spec

-----------------------------------------------------------------------------
(* The programs of the repository *)

\* A body that is locked well, reports by `call` and signs last.
Fit(s, call) ==
  /\ WellLocked(s) /\ CallsLast(s, call) /\ CallsLast(s, "Sign")
  /\ \A n \in 1..Len(s) : s[n] = "Sign" => \A k \in n..Len(s) : ~Holds(s, k + 1)
  /\ \E n \in 1..Len(s) : s[n] = call

\* The texts of the deposit and withdraw functions, and of the two loops.
LEMMA BodiesFit ==
  /\ Fit(Mutex2Deposit, "Sign") /\ Fit(Mutex2Withdraw, "Sign")
  /\ Fit(CopyDeposit, "Done") /\ Fit(CopyWithdraw, "Done")
  /\ Fit(Wg0Deposit, "Done") /\ Fit(Wg0Withdraw, "Done")
  /\ Fit(Wg01Deposit, "Done") /\ Fit(Wg01Withdraw, "Done")
  /\ Fit(Wg02Deposit, "Done")
  /\ Fit(<<"Done">>, "Done") /\ Fit(<<"Sign">>, "Sign")
<1>1. ASSUME NEW s, s = <<"Lock", "Lock", "Load", "Store", "Unlock", "Sign">>
      PROVE  Fit(s, "Sign")
  BY <1>1 DEF Fit, WellLocked, CallsLast, Holds
<1>2. ASSUME NEW s, NEW call \in {"Done", "Sign"}, s = <<"Lock", "Load", "Store", "Unlock", call>>
      PROVE  Fit(s, call)
  BY <1>2 DEF Fit, WellLocked, CallsLast, Holds
<1>3. ASSUME NEW s, s = <<"Lock", "Load", "Store", "Done", "Unlock">>
      PROVE  Fit(s, "Done")
  BY <1>3 DEF Fit, WellLocked, CallsLast, Holds
<1>4. ASSUME NEW call \in {"Done", "Sign"} PROVE Fit(<<call>>, call)
  BY DEF Fit, WellLocked, CallsLast, Holds
<1> QED BY <1>1, <1>2, <1>3, <1>4
        DEF Mutex2Deposit, Mutex2Withdraw, CopyDeposit, CopyWithdraw, Wg0Deposit, Wg0Withdraw,
            Wg01Deposit, Wg01Withdraw, Wg02Deposit

\* The programs of the repository have all that the theorems above ask of a
\* program, the one that never ends (demo_mutex2.go) included.
LEMMA DemosFit ==
  ASSUME Goroutine = Both, Programs = AllPrograms
  PROVE  AllWellLocked /\ AllReport /\ AllSignLast
<1>1. ASSUME NEW p \in Programs, NEW g \in Goroutine, g \in Both,
             Fit(p.body[g], JoinCall(p)) \/ p.body[g] = <<>>
      PROVE  /\ WellLocked(p.body[g]) /\ CallsLast(p.body[g], "Sign")
             /\ \A n \in 1..Len(p.body[g]) : p.body[g][n] = "Sign" =>
                  \A k \in n..Len(p.body[g]) : ~Holds(p.body[g], k + 1)
  <2>1. CASE Fit(p.body[g], JoinCall(p))
    BY <2>1 DEF Fit
  <2>2. CASE p.body[g] = <<>>
    <3>1. 1..Len(p.body[g]) = {}
      BY <2>2
    <3> QED BY <3>1 DEF WellLocked, CallsLast
  <2> QED BY <1>1, <2>1, <2>2
<1>2. ASSUME NEW p \in Programs, NEW g \in Goroutine
      PROVE  \/ Fit(p.body[g], JoinCall(p))
             \/ p = demo_waitgroup0_2 /\ g[1] # "deposit" /\ p.body[g] = <<>>
  <2>1. CASE p \in {demo_mutex2, test_goroutine}
    BY <2>1, BodiesFit DEF demo_mutex2, test_goroutine, Bodies, JoinCall
  <2>2. CASE p \in {demo_mutex2_copy, demo_waitgroup0, demo_waitgroup0_1, demo_go}
    BY <2>2, BodiesFit
    DEF demo_mutex2_copy, demo_waitgroup0, demo_waitgroup0_1, demo_go, Bodies, JoinCall
  <2>3. CASE p = demo_waitgroup0_2
    BY <2>3, BodiesFit DEF demo_waitgroup0_2, Bodies, JoinCall
  <2> QED BY <2>1, <2>2, <2>3 DEF AllPrograms
<1>3. ASSUME NEW p \in Programs, NEW b \in 1..Len(p.plan), NEW k \in 1..Len(p.plan[b])
      PROVE  Fit(p.body[p.plan[b][k]], JoinCall(p))
  <2>1. p.plan[b][k] \in Goroutine
    <3>1. p.plan \in Seq(Seq(Goroutine))
      BY AccountAssumption DEF AccountAssumption
    <3> QED BY <3>1
  <2>2. CASE p = demo_waitgroup0_2
    <3>1. p.plan = [n \in 1..Pairs |-> <<deposit(n)>>]
      BY <2>2 DEF demo_waitgroup0_2
    <3>2. p.plan \in Seq(Seq(Goroutine))
      BY AccountAssumption DEF AccountAssumption
    <3>3. DOMAIN p.plan = 1..Len(p.plan)
      BY <3>2
    <3>4. p.plan[b] = <<deposit(b)>>
      BY <3>1, <3>3
    <3>5. p.plan[b][k] = deposit(b)
      BY <3>4
    <3> QED BY <1>2, <2>1, <3>5 DEF deposit
  <2> QED BY <1>2, <2>1, <2>2
<1>4. ASSUME NEW p \in Programs, NEW g \in Goroutine
      PROVE  Fit(p.body[g], JoinCall(p)) \/ p.body[g] = <<>>
  BY <1>2, <1>4
<1>5. AllWellLocked /\ AllSignLast
  BY <1>1, <1>4 DEF AllWellLocked, AllSignLast
<1>6. AllReport
  BY <1>3 DEF AllReport, Fit
<1> QED BY <1>5, <1>6

\* The five programs with a balance, and the two without, lose no update, join
\* only what has been stored and sign only what has been earned, for any number
\* of iterations of their loops.
THEOREM DemosSafe ==
  ASSUME Goroutine = Both, Programs = AllPrograms
  PROVE  Spec => ExactUpdate /\ []JoinBarrier /\ []SignsEarned
BY DemosFit, NoLostUpdate, JoinsAreBarriers, SignsAreEarned
=============================================================================
