--------------------------- MODULE GoroutineProofs ---------------------------
(***************************************************************************)
(* What the programs of GoroutineDemos keep true, for any number of        *)
(* goroutines, iterations, clients, stores and readers:                    *)
(*   - demo_rwmutex.go (LockInv, AccountInv, JoinInv): a writer is alone   *)
(*     inside the lock, so a reader finds the count and the balance after  *)
(*     the same operations, and no writer overwrites another;              *)
(*   - test_goroutine.go and demo2.go (LoopInv): what can be printed       *)
(*     without a lock;                                                     *)
(*   - demo_atomic.go (BoxInv, SliceInv): where an atomic.Value panics and *)
(*     what is loaded from one.                                            *)
(***************************************************************************)
EXTENDS GoroutineDemos, SumFacts

-----------------------------------------------------------------------------
(* The loops *)

LoopTypes ==
  /\ prog \in {"test_goroutine", "demo2"} /\ perIteration \in BOOLEAN
  /\ i \in 0..Launches /\ received \in 0..Launches
  /\ pc \in [Loops!Goroutines -> {"none", "start", "print", "sign", "done"}]
  /\ printed \in [Loops!Goroutines -> Int]
  /\ count1 \in [Loops!Goroutines -> Int]
  /\ shown \in [Loops!Goroutines -> Seq(Int)]

\* main is at i or past it when goroutine i runs, and a goroutine that signs
\* has printed.
PrintInv ==
  /\ Loops!PrintsReached
  /\ \A g \in Loops!Goroutines :
       /\ pc[g] # "none" => g <= i
       /\ prog = "test_goroutine" =>
            pc[g] # "print" /\ (pc[g] \in {"sign", "done"} => printed[g] # -1)

\* An element holds 0 or its own number, and its own when its goroutine prints.
ElementInv ==
  /\ Loops!PrintsOwnElement
  /\ \A g \in Loops!Goroutines :
       count1[g] \in {0, g} /\ (pc[g] = "print" => count1[g] = g)

Done == {g \in Loops!Goroutines : pc[g] = "done"}

ReceiveInv == received <= Cardinality(Done) /\ (prog = "demo2" => received = 0)

LoopInv == LoopTypes /\ PrintInv /\ ElementInv /\ ReceiveInv

LoopsInv == running = "LaunchLoops" => LoopInv

LEMMA LoopsStart == Init => LoopsInv
<1> SUFFICES ASSUME Init, running = "LaunchLoops" PROVE LoopInv
  BY DEF LoopsInv
<1>1. Loops!Init
  BY DEF Init
<1> USE <1>1, GoroutineDemosAssumption DEF Loops!Init
<1>2. LoopTypes
  BY DEF LoopTypes
<1>3. PrintInv
  BY DEF PrintInv, Loops!PrintsReached
<1>4. ElementInv
  BY DEF ElementInv, Loops!PrintsOwnElement
<1>5. ReceiveInv
  <2>1. Done = {}
    BY DEF Done
  <2> QED
    BY <2>1, FS_EmptySet DEF ReceiveInv
<1> QED
  BY <1>2, <1>3, <1>4, <1>5 DEF LoopInv

LEMMA GoroutinesCounted ==
  IsFiniteSet(Loops!Goroutines) /\ Cardinality(Loops!Goroutines) = Launches
<1>1. 0 \in Int /\ Launches - 1 \in Int /\ Launches \in Nat
  BY GoroutineDemosAssumption
<1>2. IsFiniteSet(0..(Launches - 1))
  BY <1>1, FS_Interval
<1>3. Cardinality(0..(Launches - 1)) = IF 0 > Launches - 1 THEN 0 ELSE (Launches - 1) - 0 + 1
  BY <1>1, FS_Interval
<1>4. Cardinality(0..(Launches - 1)) = Launches
  BY <1>1, <1>3
<1> QED
  BY <1>2, <1>4 DEF Loops!Goroutines

\* The element a goroutine of demo2.go reads next is one of the slice.
LEMMA NextElement ==
  ASSUME LoopTypes, NEW g \in Loops!Goroutines, Loops!ReadElement(g)
  PROVE  /\ shown[g] \in Seq(Int) /\ Len(shown[g]) \in Loops!Goroutines
         /\ count1[Len(shown[g])] \in Int
<1>1. shown[g] \in Seq(Int) /\ Launches \in Nat
  BY GoroutineDemosAssumption DEF LoopTypes
<1>2. Len(shown[g]) \in Nat /\ Len(shown[g]) < Launches
  BY <1>1 DEF Loops!ReadElement
<1>3. Len(shown[g]) \in Loops!Goroutines
  BY <1>1, <1>2 DEF Loops!Goroutines
<1> QED
  BY <1>1, <1>3 DEF LoopTypes

LEMMA LoopTypesKept ==
  ASSUME LoopInv, Loops!Next
  PROVE  LoopTypes'
<1> USE GoroutineDemosAssumption DEF LoopInv, LoopTypes, Loops!To, Loops!Goroutines
<1>1. CASE Loops!Launch
  BY <1>1 DEF Loops!Launch
<1>2. CASE Loops!Increment
  BY <1>2 DEF Loops!Increment
<1>3. CASE Loops!Receive
  BY <1>3 DEF Loops!Receive
<1>4. CASE Loops!Terminated
  BY <1>4 DEF Loops!Terminated, Loops!vars
<1>5. ASSUME NEW g \in Loops!Goroutines, Loops!PrintI(g) PROVE LoopTypes'
  BY <1>5 DEF Loops!PrintI, Loops!Seen
<1>6. ASSUME NEW g \in Loops!Goroutines, Loops!Sign(g) PROVE LoopTypes'
  BY <1>6 DEF Loops!Sign
<1>7. ASSUME NEW g \in Loops!Goroutines, Loops!WriteElement(g) PROVE LoopTypes'
  BY <1>7 DEF Loops!WriteElement, Loops!Element
<1>8. ASSUME NEW g \in Loops!Goroutines, Loops!ReadElement(g) PROVE LoopTypes'
  <2>1. count1[Len(shown[g])] \in Int /\ shown[g] \in Seq(Int)
    BY <1>8, NextElement
  <2>2. Append(shown[g], count1[Len(shown[g])]) \in Seq(Int)
    BY <2>1
  <2>3. shown' \in [Loops!Goroutines -> Seq(Int)]
    BY <1>8, <2>2 DEF Loops!ReadElement
  <2> QED
    BY <1>8, <2>3 DEF Loops!ReadElement
<1> QED
  BY <1>1, <1>2, <1>3, <1>4, <1>5, <1>6, <1>7, <1>8 DEF Loops!Next, Loops!Main, Loops!Step

\* main does not go back, and a goroutine prints the variable while main is
\* past the place where it was launched.
LEMMA PrintKept ==
  ASSUME LoopInv, Loops!Next
  PROVE  PrintInv'
<1> USE GoroutineDemosAssumption DEF LoopInv, LoopTypes, PrintInv, Loops!PrintsReached,
      Loops!To, Loops!Goroutines
<1>1. CASE Loops!Launch
  <2>1. /\ pc' = [pc EXCEPT ![i] = "start"] /\ i \in Loops!Goroutines
        /\ UNCHANGED <<prog, perIteration, i, printed>>
    BY <1>1 DEF Loops!Launch
  <2>2. \A g \in Loops!Goroutines : pc'[g] = pc[g] \/ (g = i /\ pc'[g] = "start")
    BY <2>1
  <2> QED
    BY <2>1, <2>2
<1>2. CASE Loops!Increment
  <2>1. i' = i + 1 /\ i \in Nat /\ i' \in Nat
    <3>1. i \in 0..Launches /\ Launches \in Nat
      OBVIOUS
    <3>2. i' = i + 1
      BY <1>2 DEF Loops!Increment
    <3> HIDE DEF LoopInv, PrintInv
    <3> QED
      BY <3>1, <3>2
  <2>2. UNCHANGED <<pc, prog, perIteration, printed>>
    BY <1>2 DEF Loops!Increment
  <2>3. Loops!PrintsReached'
    <3> SUFFICES ASSUME NEW g \in Loops!Goroutines, printed[g] # -1
                 PROVE  IF perIteration THEN printed[g] = g ELSE printed[g] \in g..i'
      BY <2>2
    <3>1. CASE perIteration
      BY <3>1
    <3>2. CASE ~perIteration
      <4>1. g \in Int /\ printed[g] \in g..i
        BY <3>2
      <4> QED
        BY <2>1, <3>2, <4>1
    <3> QED
      BY <3>1, <3>2
  <2>4. \A g \in Loops!Goroutines : pc[g] # "none" => g <= i'
    <3>1. \A g \in Loops!Goroutines : g \in Int /\ (pc[g] # "none" => g <= i)
      OBVIOUS
    <3> QED
      BY <2>1, <3>1
  <2> QED
    BY <2>2, <2>3, <2>4
<1>3. CASE Loops!Receive
  BY <1>3 DEF Loops!Receive
<1>4. CASE Loops!Terminated
  BY <1>4 DEF Loops!Terminated, Loops!vars
<1>5. ASSUME NEW g \in Loops!Goroutines, Loops!PrintI(g) PROVE PrintInv'
  <2>1. /\ pc[g] = "start" /\ pc' = [pc EXCEPT ![g] = "sign"]
        /\ printed' = [printed EXCEPT ![g] = IF perIteration THEN g ELSE i]
        /\ UNCHANGED <<prog, perIteration, i>>
    BY <1>5 DEF Loops!PrintI, Loops!Seen
  <2>2. g \in Int /\ i \in Int /\ g <= i
    BY <2>1
  <2> SUFFICES ASSUME NEW h \in Loops!Goroutines
               PROVE  /\ printed'[h] # -1 =>
                           IF perIteration THEN printed'[h] = h ELSE printed'[h] \in h..i
                      /\ pc'[h] # "none" => h <= i
                      /\ prog = "test_goroutine" =>
                           pc'[h] # "print" /\ (pc'[h] \in {"sign", "done"} => printed'[h] # -1)
    BY <2>1
  <2>3. CASE h = g
    BY <2>1, <2>2, <2>3
  <2>4. CASE h # g
    BY <2>1, <2>4
  <2> QED
    BY <2>3, <2>4
<1>6. ASSUME NEW g \in Loops!Goroutines, Loops!Sign(g) PROVE PrintInv'
  BY <1>6 DEF Loops!Sign
<1>7. ASSUME NEW g \in Loops!Goroutines, Loops!WriteElement(g) PROVE PrintInv'
  BY <1>7 DEF Loops!WriteElement
<1>8. ASSUME NEW g \in Loops!Goroutines, Loops!ReadElement(g) PROVE PrintInv'
  BY <1>8 DEF Loops!ReadElement
<1> QED
  BY <1>1, <1>2, <1>3, <1>4, <1>5, <1>6, <1>7, <1>8 DEF Loops!Next, Loops!Main, Loops!Step

\* Each element is written once, by its own goroutine, before that goroutine
\* reads it.
LEMMA ElementKept ==
  ASSUME LoopInv, Loops!Next
  PROVE  ElementInv'
<1>0. ASSUME count1' = count1, shown' = shown,
             \A h \in Loops!Goroutines : pc'[h] = "print" => pc[h] = "print"
      PROVE  ElementInv'
  BY <1>0 DEF LoopInv, ElementInv, Loops!PrintsOwnElement
<1>1. CASE Loops!Main
  BY <1>0, <1>1 DEF LoopInv, LoopTypes, Loops!To, Loops!Main, Loops!Launch, Loops!Increment,
       Loops!Receive
<1>2. CASE Loops!Terminated
  BY <1>0, <1>2 DEF Loops!Terminated, Loops!vars
<1>3. ASSUME NEW g \in Loops!Goroutines, Loops!PrintI(g) \/ Loops!Sign(g) PROVE ElementInv'
  BY <1>0, <1>3 DEF LoopInv, LoopTypes, Loops!To, Loops!PrintI, Loops!Sign
<1>4. ASSUME NEW g \in Loops!Goroutines, Loops!WriteElement(g) PROVE ElementInv'
  <2>1. /\ count1' = [count1 EXCEPT ![g] = g] /\ pc' = [pc EXCEPT ![g] = "print"]
        /\ shown' = shown
    BY <1>4 DEF Loops!WriteElement, Loops!Element, Loops!To
  <2>2. \A h \in Loops!Goroutines :
          count1'[h] \in {0, h} /\ (pc'[h] = "print" => count1'[h] = h)
    BY <2>1 DEF LoopInv, LoopTypes, ElementInv
  <2> QED
    BY <2>1, <2>2 DEF LoopInv, ElementInv, Loops!PrintsOwnElement
<1>5. ASSUME NEW g \in Loops!Goroutines, Loops!ReadElement(g) PROVE ElementInv'
  <2> DEFINE len == Len(shown[g])
  <2>1. shown[g] \in Seq(Int) /\ len \in Loops!Goroutines /\ count1[len] \in Int
    BY <1>5, NextElement DEF LoopInv
  <2>2. /\ pc[g] = "print" /\ count1' = count1
        /\ shown' = [shown EXCEPT ![g] = Append(shown[g], count1[len])]
        /\ pc' = [pc EXCEPT ![g] = "done"] \/ pc' = pc
    BY <1>5 DEF Loops!ReadElement, Loops!To
  <2>3. count1[len] \in {0, len} /\ count1[g] = g
    BY <2>1, <2>2 DEF LoopInv, ElementInv
  <2>4. /\ shown'[g] = Append(shown[g], count1[len])
        /\ \A h \in Loops!Goroutines : h # g => shown'[h] = shown[h]
    BY <2>2 DEF LoopInv, LoopTypes
  <2>5. \A h \in Loops!Goroutines : pc'[h] = "print" => pc[h] = "print"
    BY <2>2 DEF LoopInv, LoopTypes
  <2>6. /\ len \in Nat /\ Len(shown'[g]) = len + 1 /\ shown'[g][len + 1] = count1[len]
        /\ \A n \in 1..len : shown'[g][n] = shown[g][n]
    BY <2>1, <2>4
  <2>7. \A n \in 1..len : shown[g][n] \in {0, n - 1} /\ (n = g + 1 => shown[g][n] = g)
    BY DEF LoopInv, ElementInv, Loops!PrintsOwnElement
  <2>8. ASSUME NEW n \in 1..(len + 1)
        PROVE  shown'[g][n] \in {0, n - 1} /\ (n = g + 1 => shown'[g][n] = g)
    <3> HIDE DEF len
    <3>1. CASE n = len + 1
      <4>1. g \in Int /\ n - 1 = len /\ (n = g + 1 => g = len)
        BY <2>6, <3>1, GoroutineDemosAssumption DEF Loops!Goroutines
      <4> QED
        BY <2>3, <2>6, <3>1, <4>1
    <3>2. CASE n \in 1..len
      BY <2>6, <2>7, <3>2
    <3> QED
      BY <2>6, <3>1, <3>2
  <2>9. Loops!PrintsOwnElement'
    <3> SUFFICES ASSUME NEW h \in Loops!Goroutines
                 PROVE  \A n \in 1..Len(shown'[h]) :
                          /\ shown'[h][n] \in {0, n - 1}
                          /\ n = h + 1 => shown'[h][n] = h
      BY DEF Loops!PrintsOwnElement
    <3>1. CASE h = g
      BY <2>6, <2>8, <3>1
    <3>2. CASE h # g
      BY <2>4, <3>2 DEF LoopInv, ElementInv, Loops!PrintsOwnElement
    <3> QED
      BY <3>1, <3>2
  <2> QED
    BY <2>2, <2>5, <2>9 DEF LoopInv, ElementInv
<1> QED
  BY <1>1, <1>2, <1>3, <1>4, <1>5 DEF Loops!Next, Loops!Step

\* main receives no more than has been signed, and nobody takes a sign back.
LEMMA ReceiveKept ==
  ASSUME LoopInv, Loops!Next
  PROVE  ReceiveInv'
<1> USE DEF LoopInv, LoopTypes
<1>1. Done \subseteq Done'
  <2> USE DEF Done, Loops!To
  <2>1. CASE Loops!Main
    BY <2>1 DEF Loops!Main, Loops!Launch, Loops!Increment, Loops!Receive
  <2>2. CASE Loops!Terminated
    BY <2>2 DEF Loops!Terminated, Loops!vars
  <2>3. ASSUME NEW g \in Loops!Goroutines, Loops!Step(g) PROVE Done \subseteq Done'
    BY <2>3 DEF Loops!Step, Loops!PrintI, Loops!Sign, Loops!WriteElement, Loops!ReadElement
  <2> QED
    BY <2>1, <2>2, <2>3 DEF Loops!Next
<1>2. IsFiniteSet(Done) /\ IsFiniteSet(Done')
  <2>1. Done \subseteq Loops!Goroutines /\ Done' \subseteq Loops!Goroutines
    BY DEF Done
  <2> QED
    BY <2>1, GoroutinesCounted, FS_Subset
<1>3. Cardinality(Done) \in Nat /\ Cardinality(Done') \in Nat
      /\ Cardinality(Done) <= Cardinality(Done')
  BY <1>1, <1>2, FS_Subset, FS_CardinalityType
<1>4. CASE Loops!Receive
  <2>1. received < Cardinality(Done) /\ received' = received + 1 /\ prog' = "test_goroutine"
    BY <1>4 DEF Loops!Receive, Done, Loops!Cardinality, Cardinality
  <2> QED
    BY <1>3, <2>1, GoroutineDemosAssumption DEF ReceiveInv
<1>5. ASSUME received' = received, prog' = prog PROVE ReceiveInv'
  BY <1>3, <1>5, GoroutineDemosAssumption DEF ReceiveInv
<1>6. CASE ~ Loops!Receive
  <2>1. received' = received /\ prog' = prog
    BY <1>6 DEF Loops!Next, Loops!Main, Loops!Step, Loops!Launch, Loops!Increment, Loops!PrintI,
         Loops!Sign, Loops!WriteElement, Loops!ReadElement, Loops!Terminated, Loops!vars
  <2> QED
    BY <1>5, <2>1
<1> QED
  BY <1>4, <1>6

LEMMA LoopsKept == LoopsInv /\ [Next]_vars => LoopsInv'
<1> SUFFICES ASSUME LoopsInv, [Next]_vars, running' = "LaunchLoops" PROVE LoopInv'
  BY DEF LoopsInv
<1>1. CASE OfLoop(Loops!Next)
  BY <1>1, LoopTypesKept, PrintKept, ElementKept, ReceiveKept DEF OfLoop, LoopsInv, LoopInv
<1>2. CASE UNCHANGED vars
  <2> USE <1>2 DEF vars, loopVars
  <2>1. LoopInv
    BY DEF LoopsInv
  <2>2. LoopTypes'
    BY <2>1 DEF LoopInv, LoopTypes
  <2>3. PrintInv'
    BY <2>1 DEF LoopInv, PrintInv, Loops!PrintsReached
  <2>4. ElementInv'
    BY <2>1 DEF LoopInv, ElementInv, Loops!PrintsOwnElement
  <2>5. ReceiveInv'
    BY <2>1 DEF LoopInv, ReceiveInv, Done
  <2> QED
    BY <2>2, <2>3, <2>4, <2>5 DEF LoopInv
<1>3. CASE OfAccount(Locked!Next) \/ OfBox(Boxed!Next) \/ OfSlice(Sliced!Next)
  BY <1>3 DEF OfAccount, OfBox, OfSlice
<1> QED
  BY <1>1, <1>2, <1>3 DEF Next

LEMMA LoopsInvariant == Spec => []LoopsInv
BY LoopsStart, LoopsKept, PTL DEF Spec

\* A goroutine of test_goroutine.go prints a number that main's loop variable
\* has had since it was launched, or its own if each iteration has a variable;
\* all have printed when main returns; and each goroutine of demo2.go prints
\* its own element as it wrote it, for every number of goroutines
\* (test_goroutine.go:12-25, demo2.go:10-14).
THEOREM PrintsWhatWasReached == Spec => []PrintsReached
<1>1. ASSUME LoopInv PROVE Loops!AllPrinted
  <2> USE DEF LoopInv, LoopTypes
  <2> SUFFICES ASSUME Loops!Exited, NEW g \in Loops!Goroutines PROVE printed[g] # -1
    BY <1>1 DEF Loops!AllPrinted
  <2>1. Done \subseteq Loops!Goroutines
    BY DEF Done
  <2>2. IsFiniteSet(Done) /\ Cardinality(Done) <= Launches /\ Cardinality(Done) \in Nat
    BY <2>1, GoroutinesCounted, FS_Subset, FS_CardinalityType
  <2>3. received = Launches /\ Launches \in Nat /\ Launches # 0
    BY GoroutineDemosAssumption DEF Loops!Exited, Loops!Goroutines
  <2>4. prog = "test_goroutine"
    BY <1>1, <2>3 DEF ReceiveInv
  <2>5. Cardinality(Done) = Launches
    BY <1>1, <2>2, <2>3 DEF ReceiveInv
  <2>6. Done = Loops!Goroutines
    BY <2>1, <2>5, GoroutinesCounted, FS_Subset
  <2> QED
    BY <1>1, <2>4, <2>6 DEF Done, PrintInv
<1>2. LoopsInv => PrintsReached
  BY <1>1 DEF LoopsInv, LoopInv, PrintInv, ElementInv, PrintsReached
<1> QED
  BY <1>2, LoopsInvariant, PTL

-----------------------------------------------------------------------------
(* The atomic values *)

\* How far each program is, and what is in its boxes there.
Demo1Inv ==
  /\ step \in 1..4 /\ ~panicked /\ boxes["box5"] = "nil"
  /\ step \in {1, 2} => boxes["box"] = "nil"
  /\ step \in {1, 2, 3} => boxes["box2"] = "nil"

Demo2Inv ==
  /\ step \in 1..3 /\ boxes["box5"] = "nil"
  /\ panicked <=> step = 3
  /\ step = 1 => boxes["box"] = "nil"
  /\ step = 2 => boxes["box"] = "text"

DemoInv ==
  /\ step \in 1..6 /\ ~panicked
  /\ step = 1 => boxes["box4"] = "nil"
  /\ step = 2 => boxes["box4"] = "v4"
  /\ step \in {1, 2, 3, 4} => boxes["box5"] = "nil"
  /\ step \in {4, 5, 6} => t = "*errorString"

ScriptInv ==
  /\ prog = "demo1" => Demo1Inv
  /\ prog = "demo2" => Demo2Inv
  /\ prog = "demo3" => step \in 1..2 /\ (panicked <=> step = 2) /\ boxes["box5"] = "nil"
  /\ prog = "demo" => DemoInv
  /\ prog = "clients" => step \in 1..2 /\ ~panicked /\ (step = 1 => boxes["box5"] = "nil")

\* The value that has passed the tests still passes them when it is stored.
ArgInv ==
  \A c \in Clients : arg[c] # "none" => prog = "clients" /\ step = 2 /\ Boxed!Accepted(arg[c])

BoxInv == Boxed!TypeOK /\ ScriptInv /\ ArgInv /\ Boxed!LoadIsTyped

BoxesInv == running = "AtomicBox" => BoxInv

LEMMA ProgramNames == DOMAIN Boxed!Programs = {"demo1", "demo2", "demo3", "demo", "clients"}
BY DEF Boxed!Programs

LEMMA ValueTypes ==
  /\ Boxed!Values = {"v1", "text", "number", "v4", "v41", "v42", "nil"}
  /\ Boxed!TypeOf["v1"] = "[3]int" /\ Boxed!TypeOf["text"] = "string"
  /\ Boxed!TypeOf["number"] = "int" /\ Boxed!TypeOf["v4"] = "*errorString"
  /\ Boxed!TypeOf["v41"] = "*errorString" /\ Boxed!TypeOf["v42"] = "*PathError"
  /\ Boxed!TypeOf["nil"] = "nil"
BY DEF Boxed!Values, Boxed!TypeOf

\* The scripts, call by call.
LEMMA Scripts ==
  /\ prog = "demo1" => Boxed!Script = Boxed!demo1
  /\ prog = "demo2" => Boxed!Script = Boxed!demo2
  /\ prog = "demo3" => Boxed!Script = Boxed!demo3
  /\ prog = "demo" => Boxed!Script = Boxed!demo
  /\ prog = "clients" => Boxed!Script = Boxed!clients
<1>1. /\ Boxed!Programs["demo1"] = Boxed!demo1 /\ Boxed!Programs["demo2"] = Boxed!demo2
      /\ Boxed!Programs["demo3"] = Boxed!demo3 /\ Boxed!Programs["demo"] = Boxed!demo
      /\ Boxed!Programs["clients"] = Boxed!clients
  BY DEF Boxed!Programs
<1> QED
  BY <1>1 DEF Boxed!Script

LEMMA ScriptOfDemo1 ==
  /\ Len(Boxed!demo1) = 3
  /\ Boxed!demo1[1] = Boxed!Op("copy", "box", "nil")
  /\ Boxed!demo1[2] = Boxed!Op("store", "box", "v1")
  /\ Boxed!demo1[3] = Boxed!Op("store", "box2", "text")
BY DEF Boxed!demo1

LEMMA ScriptOfDemo2 ==
  /\ Len(Boxed!demo2) = 2
  /\ Boxed!demo2[1] = Boxed!Op("store", "box", "text")
  /\ Boxed!demo2[2] = Boxed!Op("store", "box", "number")
BY DEF Boxed!demo2

LEMMA ScriptOfDemo3 ==
  Len(Boxed!demo3) = 1 /\ Boxed!demo3[1] = Boxed!Op("store", "box", "nil")
BY DEF Boxed!demo3

LEMMA ScriptOfDemo ==
  /\ Len(Boxed!demo) = 5
  /\ Boxed!demo[1] = Boxed!Op("store", "box4", "v4")
  /\ Boxed!demo[2] = Boxed!Op("store", "box4", "v41")
  /\ Boxed!demo[3] = Boxed!Op("new", "box5", "v4")
  /\ Boxed!demo[4] = Boxed!Op("try", "box5", "v41")
  /\ Boxed!demo[5] = Boxed!Op("try", "box5", "v42")
BY DEF Boxed!demo

LEMMA ScriptOfClients ==
  Len(Boxed!clients) = 1 /\ Boxed!clients[1] = Boxed!Op("new", "box5", "v4")
BY DEF Boxed!clients

LEMMA Fields ==
  ASSUME NEW op, NEW box, NEW v
  PROVE  /\ Boxed!Op(op, box, v).op = op /\ Boxed!Op(op, box, v).box = box
         /\ Boxed!Op(op, box, v).v = v
BY DEF Boxed!Op

\* The next call of each program, at each place it can be at.
CallAt(s, op, box, v) ==
  step = s /\ Boxed!Script[s].op = op /\ Boxed!Script[s].box = box /\ Boxed!Script[s].v = v

LEMMA NextCall ==
  ASSUME BoxInv, step <= Len(Boxed!Script)
  PROVE  \/ /\ prog = "demo1"
            /\ \/ CallAt(1, "copy", "box", "nil") \/ CallAt(2, "store", "box", "v1")
               \/ CallAt(3, "store", "box2", "text")
         \/ /\ prog = "demo2"
            /\ CallAt(1, "store", "box", "text") \/ CallAt(2, "store", "box", "number")
         \/ prog = "demo3" /\ CallAt(1, "store", "box", "nil")
         \/ /\ prog = "demo"
            /\ \/ CallAt(1, "store", "box4", "v4") \/ CallAt(2, "store", "box4", "v41")
               \/ CallAt(3, "new", "box5", "v4") \/ CallAt(4, "try", "box5", "v41")
               \/ CallAt(5, "try", "box5", "v42")
         \/ prog = "clients" /\ CallAt(1, "new", "box5", "v4")
<1>0. /\ prog \in {"demo1", "demo2", "demo3", "demo", "clients"}
      /\ step \in 1..6 /\ step <= Len(Boxed!Script)
  BY ProgramNames DEF BoxInv, Boxed!TypeOK
<1>1. CASE prog = "demo1"
  <2>1. Boxed!Script = Boxed!demo1 /\ Len(Boxed!Script) = 3
    BY <1>1, Scripts, ScriptOfDemo1
  <2>2. step = 1 \/ step = 2 \/ step = 3
    BY <1>0, <2>1
  <2> QED
    BY <1>1, <2>1, <2>2, ScriptOfDemo1, Fields DEF CallAt
<1>2. CASE prog = "demo2"
  <2>1. Boxed!Script = Boxed!demo2 /\ Len(Boxed!Script) = 2
    BY <1>2, Scripts, ScriptOfDemo2
  <2>2. step = 1 \/ step = 2
    BY <1>0, <2>1
  <2> QED
    BY <1>2, <2>1, <2>2, ScriptOfDemo2, Fields DEF CallAt
<1>3. CASE prog = "demo3"
  <2>1. Boxed!Script = Boxed!demo3 /\ Len(Boxed!Script) = 1
    BY <1>3, Scripts, ScriptOfDemo3
  <2>2. step = 1
    BY <1>0, <2>1
  <2> QED
    BY <1>3, <2>1, <2>2, ScriptOfDemo3, Fields DEF CallAt
<1>4. CASE prog = "demo"
  <2>1. Boxed!Script = Boxed!demo /\ Len(Boxed!Script) = 5
    BY <1>4, Scripts, ScriptOfDemo
  <2>2. step = 1 \/ step = 2 \/ step = 3 \/ step = 4 \/ step = 5
    BY <1>0, <2>1
  <2> QED
    BY <1>4, <2>1, <2>2, ScriptOfDemo, Fields DEF CallAt
<1>5. CASE prog = "clients"
  <2>1. Boxed!Script = Boxed!clients /\ Len(Boxed!Script) = 1
    BY <1>5, Scripts, ScriptOfClients
  <2>2. step = 1
    BY <1>0, <2>1
  <2> QED
    BY <1>5, <2>1, <2>2, ScriptOfClients, Fields DEF CallAt
<1> QED
  BY <1>0, <1>1, <1>2, <1>3, <1>4, <1>5

LEMMA BoxesStart == Init => BoxesInv
<1> SUFFICES ASSUME Init, running = "AtomicBox" PROVE BoxInv
  BY DEF BoxesInv
<1>1. Boxed!Init
  BY DEF Init
<1> USE <1>1, GoroutineDemosAssumption DEF Boxed!Init
<1>2. Boxed!TypeOK
  <2>1. t \in {Boxed!TypeOf[v] : v \in Boxed!Values} /\ "nil" \in Boxed!Values
    BY ValueTypes
  <2>2. boxes \in [Boxed!Boxes -> Boxed!Values] /\ arg \in [Clients -> Boxed!Values \cup {"none"}]
    BY <2>1
  <2>3. calls \in [Clients -> 0..MaxStores] /\ step \in 1..6
    OBVIOUS
  <2>4. prog \in DOMAIN Boxed!Programs /\ succeeded \in BOOLEAN /\ panicked \in BOOLEAN
    OBVIOUS
  <2> QED
    BY <2>1, <2>2, <2>3, <2>4, Zenon DEF Boxed!TypeOK
<1>3. ScriptInv
  <2>1. \A b \in {"box", "box2", "box4", "box5"} : boxes[b] = "nil"
    BY DEF Boxed!Boxes
  <2>2. step = 1 /\ ~panicked
    OBVIOUS
  <2> QED
    BY <2>1, <2>2 DEF ScriptInv, Demo1Inv, Demo2Inv, DemoInv
<1>4. ArgInv
  BY DEF ArgInv
<1>5. Boxed!LoadIsTyped
  BY DEF Boxed!LoadIsTyped, Boxed!Boxes
<1> QED
  BY <1>2, <1>3, <1>4, <1>5 DEF BoxInv

\* What a call of Store does to the box it is for, and to no other box.
LEMMA StoreEffect ==
  ASSUME Boxed!TypeOK, NEW b \in Boxed!Boxes, NEW v \in Boxed!Values, Boxed!Store(b, v)
  PROVE  /\ boxes' \in [Boxed!Boxes -> Boxed!Values] /\ panicked' \in BOOLEAN
         /\ \A c \in Boxed!Boxes : c # b => boxes'[c] = boxes[c]
         /\ v = "nil" => panicked' /\ boxes' = boxes
         /\ v # "nil" /\ (boxes[b] = "nil" \/ Boxed!TypeOf[boxes[b]] = Boxed!TypeOf[v]) =>
              boxes'[b] = v /\ panicked' = panicked
         /\ boxes[b] # "nil" /\ Boxed!TypeOf[boxes[b]] # Boxed!TypeOf[v] =>
              panicked' /\ boxes' = boxes
<1> USE DEF Boxed!TypeOK
<1>1. boxes \in [Boxed!Boxes -> Boxed!Values] /\ panicked \in BOOLEAN
  OBVIOUS
<1>2. CASE v = "nil" \/ (boxes[b] # "nil" /\ Boxed!TypeOf[boxes[b]] # Boxed!TypeOf[v])
  <2>1. panicked' = TRUE /\ boxes' = boxes
    BY <1>2 DEF Boxed!Store
  <2> QED
    BY <1>1, <1>2, <2>1
<1>3. CASE ~ (v = "nil" \/ (boxes[b] # "nil" /\ Boxed!TypeOf[boxes[b]] # Boxed!TypeOf[v]))
  <2>1. boxes' = [boxes EXCEPT ![b] = v] /\ panicked' = panicked
    BY <1>3 DEF Boxed!Store
  <2>2. boxes' \in [Boxed!Boxes -> Boxed!Values] /\ boxes'[b] = v
        /\ \A c \in Boxed!Boxes : c # b => boxes'[c] = boxes[c]
    BY <1>1, <2>1
  <2> QED
    BY <1>1, <1>3, <2>1, <2>2
<1> QED
  BY <1>2, <1>3

\* What the programs of one goroutine store, box by box: the second value of
\* demo2 has another type and demo3 stores nil, and these two panic.
LEMMA StoreRawKeeps ==
  ASSUME BoxInv, Boxed!StoreRaw
  PROVE  BoxInv'
<1>1. /\ Boxed!TypeOK /\ ScriptInv /\ ArgInv /\ Boxed!LoadIsTyped
      /\ Boxed!Script[step].op = "store" /\ step <= Len(Boxed!Script)
      /\ Boxed!Store(Boxed!Script[step].box, Boxed!Script[step].v)
      /\ step' = step + 1 /\ UNCHANGED <<prog, t, arg, calls, succeeded>>
  BY DEF BoxInv, Boxed!StoreRaw, Boxed!At
<1>2. \/ prog = "demo1" /\ (CallAt(2, "store", "box", "v1") \/ CallAt(3, "store", "box2", "text"))
      \/ prog = "demo2" /\ (CallAt(1, "store", "box", "text") \/ CallAt(2, "store", "box", "number"))
      \/ prog = "demo3" /\ CallAt(1, "store", "box", "nil")
      \/ prog = "demo" /\ (CallAt(1, "store", "box4", "v4") \/ CallAt(2, "store", "box4", "v41"))
  BY <1>1, NextCall DEF CallAt
<1>3. step \in Nat /\ boxes["box5"] = "nil" /\ prog # "clients"
  BY <1>1, <1>2 DEF ScriptInv, Demo1Inv, Demo2Inv, DemoInv, CallAt
<1>4. "box" \in Boxed!Boxes /\ "box2" \in Boxed!Boxes /\ "box4" \in Boxed!Boxes /\ "box5" \in Boxed!Boxes
  BY DEF Boxed!Boxes
<1>5. boxes' \in [Boxed!Boxes -> Boxed!Values] /\ panicked' \in BOOLEAN /\ boxes'["box5"] = "nil"
  <2>1. PICK b \in Boxed!Boxes, v \in Boxed!Values : b # "box5" /\ Boxed!Store(b, v)
    BY <1>1, <1>2, <1>4, ValueTypes DEF CallAt
  <2> QED
    BY <1>1, <1>3, <1>4, <2>1, StoreEffect
<1>6. Boxed!TypeOK'
  <2>1. step' \in 1..6
    BY <1>1, <1>2 DEF CallAt
  <2> QED
    BY <1>1, <1>5, <2>1 DEF Boxed!TypeOK
<1>7. ArgInv' /\ Boxed!LoadIsTyped'
  <2>1. \A c \in Clients : arg[c] = "none"
    BY <1>1, <1>3 DEF ArgInv
  <2>2. ~ succeeded
    BY <1>1, <1>3 DEF Boxed!LoadIsTyped
  <2> QED
    BY <1>1, <1>5, <2>1, <2>2 DEF ArgInv, Boxed!LoadIsTyped
<1>8. ScriptInv'
  <2> USE DEF ScriptInv
  <2>1. ASSUME prog = "demo1", CallAt(2, "store", "box", "v1") PROVE ScriptInv'
    <3>1. Boxed!Store("box", "v1") /\ step' = 3 /\ prog' = "demo1"
      BY <1>1, <2>1 DEF CallAt
    <3>2. boxes["box"] = "nil" /\ boxes["box2"] = "nil" /\ ~panicked
      BY <1>1, <2>1 DEF CallAt, Demo1Inv
    <3>3. ~panicked' /\ boxes'["box2"] = "nil"
      BY <1>1, <1>4, <3>1, <3>2, ValueTypes, StoreEffect
    <3> QED
      BY <1>5, <3>1, <3>3 DEF Demo1Inv
  <2>2. ASSUME prog = "demo1", CallAt(3, "store", "box2", "text") PROVE ScriptInv'
    <3>1. Boxed!Store("box2", "text") /\ step' = 4 /\ prog' = "demo1"
      BY <1>1, <2>2 DEF CallAt
    <3>2. boxes["box2"] = "nil" /\ ~panicked
      BY <1>1, <2>2 DEF CallAt, Demo1Inv
    <3>3. ~panicked'
      BY <1>1, <1>4, <3>1, <3>2, ValueTypes, StoreEffect
    <3> QED
      BY <1>5, <3>1, <3>3 DEF Demo1Inv
  <2>3. ASSUME prog = "demo2", CallAt(1, "store", "box", "text") PROVE ScriptInv'
    <3>1. Boxed!Store("box", "text") /\ step' = 2 /\ prog' = "demo2"
      BY <1>1, <2>3 DEF CallAt
    <3>2. boxes["box"] = "nil" /\ ~panicked
      BY <1>1, <2>3 DEF CallAt, Demo2Inv
    <3>3. ~panicked' /\ boxes'["box"] = "text"
      BY <1>1, <1>4, <3>1, <3>2, ValueTypes, StoreEffect
    <3> QED
      BY <1>5, <3>1, <3>3 DEF Demo2Inv
  <2>4. ASSUME prog = "demo2", CallAt(2, "store", "box", "number") PROVE ScriptInv'
    <3>1. Boxed!Store("box", "number") /\ step' = 3 /\ prog' = "demo2"
      BY <1>1, <2>4 DEF CallAt
    <3>2. boxes["box"] = "text"
      BY <1>1, <2>4 DEF CallAt, Demo2Inv
    <3>3. panicked'
      BY <1>1, <1>4, <3>1, <3>2, ValueTypes, StoreEffect
    <3> QED
      BY <1>5, <3>1, <3>3 DEF Demo2Inv
  <2>5. ASSUME prog = "demo3", CallAt(1, "store", "box", "nil") PROVE ScriptInv'
    <3>1. Boxed!Store("box", "nil") /\ step' = 2 /\ prog' = "demo3"
      BY <1>1, <2>5 DEF CallAt
    <3>2. panicked'
      BY <1>1, <1>4, <3>1, ValueTypes, StoreEffect
    <3> QED
      BY <1>5, <3>1, <3>2
  <2>6. ASSUME prog = "demo", CallAt(1, "store", "box4", "v4") PROVE ScriptInv'
    <3>1. Boxed!Store("box4", "v4") /\ step' = 2 /\ prog' = "demo"
      BY <1>1, <2>6 DEF CallAt
    <3>2. boxes["box4"] = "nil" /\ ~panicked
      BY <1>1, <2>6 DEF CallAt, DemoInv
    <3>3. ~panicked' /\ boxes'["box4"] = "v4"
      BY <1>1, <1>4, <3>1, <3>2, ValueTypes, StoreEffect
    <3> QED
      BY <1>5, <3>1, <3>3 DEF DemoInv
  <2>7. ASSUME prog = "demo", CallAt(2, "store", "box4", "v41") PROVE ScriptInv'
    <3>1. Boxed!Store("box4", "v41") /\ step' = 3 /\ prog' = "demo"
      BY <1>1, <2>7 DEF CallAt
    <3>2. boxes["box4"] = "v4" /\ ~panicked
      BY <1>1, <2>7 DEF CallAt, DemoInv
    <3>3. ~panicked'
      BY <1>1, <1>4, <3>1, <3>2, ValueTypes, StoreEffect
    <3> QED
      BY <1>5, <3>1, <3>3 DEF DemoInv
  <2> QED
    BY <1>2, <2>1, <2>2, <2>3, <2>4, <2>5, <2>6, <2>7
<1> QED
  BY <1>6, <1>7, <1>8 DEF BoxInv

LEMMA CopyKeeps ==
  ASSUME BoxInv, Boxed!Copy
  PROVE  BoxInv'
<1>1. /\ Boxed!TypeOK /\ ScriptInv /\ ArgInv /\ Boxed!LoadIsTyped
      /\ Boxed!Script[step].op = "copy" /\ step <= Len(Boxed!Script)
      /\ boxes' = [boxes EXCEPT !["box2"] = boxes["box"]]
      /\ step' = step + 1 /\ UNCHANGED <<prog, t, arg, calls, succeeded, panicked>>
  BY DEF BoxInv, Boxed!Copy, Boxed!At
<1>2. prog = "demo1" /\ step = 1
  BY <1>1, NextCall DEF CallAt
<1>3. \A b \in Boxed!Boxes : boxes'[b] = IF b = "box2" THEN boxes["box"] ELSE boxes[b]
  BY <1>1 DEF Boxed!TypeOK
<1>4. Boxed!TypeOK'
  <2>1. boxes' \in [Boxed!Boxes -> Boxed!Values] /\ step' \in 1..6
    BY <1>1, <1>2 DEF Boxed!TypeOK, Boxed!Boxes
  <2> QED
    BY <1>1, <2>1 DEF Boxed!TypeOK
<1>5. boxes'["box5"] = boxes["box5"] /\ boxes'["box2"] = boxes["box"] /\ boxes'["box"] = boxes["box"]
  BY <1>3 DEF Boxed!Boxes
<1>6. ScriptInv'
  <2>1. step' = 2 /\ prog' = "demo1"
    BY <1>1, <1>2
  <2>2. ~panicked' /\ boxes'["box5"] = "nil" /\ boxes'["box2"] = "nil" /\ boxes'["box"] = "nil"
    BY <1>1, <1>2, <1>5 DEF ScriptInv, Demo1Inv
  <2> QED
    BY <2>1, <2>2 DEF ScriptInv, Demo1Inv
<1>7. ArgInv' /\ Boxed!LoadIsTyped'
  BY <1>1, <1>2, <1>5 DEF ArgInv, Boxed!LoadIsTyped
<1> QED
  BY <1>4, <1>6, <1>7 DEF BoxInv

\* An atomicValue is made before anything can be stored in it.
LEMMA NewKeeps ==
  ASSUME BoxInv, Boxed!NewAtomicValue
  PROVE  BoxInv'
<1>1. /\ Boxed!TypeOK /\ ScriptInv /\ ArgInv /\ Boxed!LoadIsTyped
      /\ Boxed!Script[step].op = "new" /\ step <= Len(Boxed!Script)
      /\ step' = step + 1 /\ UNCHANGED <<prog, boxes, arg, calls, succeeded, panicked>>
  BY DEF BoxInv, Boxed!NewAtomicValue, Boxed!At
<1>2. \/ prog = "demo" /\ CallAt(3, "new", "box5", "v4")
      \/ prog = "clients" /\ CallAt(1, "new", "box5", "v4")
  BY <1>1, NextCall DEF CallAt
<1>3. PICK v \in Boxed!Values :
        t' = Boxed!TypeOf[v] /\ (prog = "demo" => v = "v4")
  <2>1. CASE prog = "demo"
    BY <1>2, <2>1, ValueTypes DEF Boxed!NewAtomicValue, CallAt, Boxed!Example
  <2>2. CASE prog = "clients"
    BY <2>2 DEF Boxed!NewAtomicValue, Boxed!Example
  <2> QED
    BY <1>2, <2>1, <2>2
<1>4. Boxed!TypeOK'
  <2>1. step' \in 1..6
    BY <1>1, <1>2 DEF CallAt
  <2> QED
    BY <1>1, <1>3, <2>1 DEF Boxed!TypeOK
<1>5. boxes["box5"] = "nil" /\ ~panicked
  BY <1>1, <1>2 DEF ScriptInv, DemoInv, CallAt
<1>6. \A c \in Clients : arg[c] = "none"
  BY <1>1, <1>2 DEF ArgInv, CallAt
<1>7. ScriptInv'
  <2>1. CASE prog = "demo"
    <3>1. step' = 4 /\ t' = "*errorString" /\ prog' = "demo"
      BY <1>1, <1>2, <1>3, <2>1, ValueTypes DEF CallAt
    <3> QED
      BY <1>1, <1>5, <3>1 DEF ScriptInv, DemoInv
  <2>2. CASE prog = "clients"
    <3>1. step' = 2 /\ prog' = "clients"
      BY <1>1, <1>2, <2>2 DEF CallAt
    <3> QED
      BY <1>1, <1>5, <3>1 DEF ScriptInv
  <2> QED
    BY <1>2, <2>1, <2>2
<1>8. ArgInv' /\ Boxed!LoadIsTyped'
  BY <1>1, <1>5, <1>6 DEF ArgInv, Boxed!LoadIsTyped
<1> QED
  BY <1>4, <1>7, <1>8 DEF BoxInv

\* demo stores v41, of the type of the example, and v42 is refused.
LEMMA CheckedKeeps ==
  ASSUME BoxInv, Boxed!StoreChecked
  PROVE  BoxInv'
<1>1. /\ Boxed!TypeOK /\ ScriptInv /\ ArgInv /\ Boxed!LoadIsTyped
      /\ Boxed!Script[step].op = "try" /\ step <= Len(Boxed!Script)
      /\ step' = step + 1 /\ UNCHANGED <<prog, t, arg, calls>>
  BY DEF BoxInv, Boxed!StoreChecked, Boxed!At
<1>2. prog = "demo" /\ (CallAt(4, "try", "box5", "v41") \/ CallAt(5, "try", "box5", "v42"))
  BY <1>1, NextCall DEF CallAt
<1>3. t = "*errorString" /\ ~panicked /\ step' \in {5, 6}
  BY <1>1, <1>2 DEF ScriptInv, DemoInv, CallAt
<1>4. \A c \in Clients : arg[c] = "none"
  BY <1>1, <1>2 DEF ArgInv
<1>5. CASE CallAt(4, "try", "box5", "v41")
  <2>1. Boxed!Store("box5", "v41") /\ succeeded' = TRUE
    BY <1>3, <1>5, ValueTypes DEF CallAt, Boxed!StoreChecked, Boxed!Accepted
  <2>2. boxes["box5"] = "nil"
    BY <1>1, <1>2, <1>5 DEF ScriptInv, DemoInv, CallAt
  <2>3. boxes' \in [Boxed!Boxes -> Boxed!Values] /\ panicked' \in BOOLEAN
        /\ boxes'["box5"] = "v41" /\ panicked' = panicked
    BY <1>1, <2>1, <2>2, ValueTypes, StoreEffect DEF Boxed!Boxes
  <2>4. Boxed!TypeOK'
    BY <1>1, <1>3, <2>1, <2>3 DEF Boxed!TypeOK
  <2>5. ScriptInv'
    BY <1>1, <1>2, <1>3, <1>5, <2>3 DEF ScriptInv, DemoInv, CallAt
  <2>6. ArgInv' /\ Boxed!LoadIsTyped'
    BY <1>1, <1>3, <1>4, <2>3, ValueTypes DEF ArgInv, Boxed!LoadIsTyped
  <2> QED
    BY <2>4, <2>5, <2>6 DEF BoxInv
<1>6. CASE CallAt(5, "try", "box5", "v42")
  <2>1. UNCHANGED <<boxes, panicked, succeeded>>
    BY <1>3, <1>6, ValueTypes DEF CallAt, Boxed!StoreChecked, Boxed!Accepted
  <2>2. Boxed!TypeOK'
    BY <1>1, <1>3, <2>1 DEF Boxed!TypeOK
  <2>3. ScriptInv'
    BY <1>1, <1>2, <1>3, <1>6, <2>1 DEF ScriptInv, DemoInv, CallAt
  <2>4. ArgInv' /\ Boxed!LoadIsTyped'
    BY <1>1, <1>4, <2>1 DEF ArgInv, Boxed!LoadIsTyped
  <2> QED
    BY <2>2, <2>3, <2>4 DEF BoxInv
<1> QED
  BY <1>2, <1>5, <1>6

\* The value of a client passes its tests, and keeps passing them: t is not
\* changed any more.
LEMMA CheckKeeps ==
  ASSUME BoxInv, NEW c \in Clients, Boxed!Check(c)
  PROVE  BoxInv'
<1>1. /\ Boxed!TypeOK /\ ScriptInv /\ ArgInv /\ Boxed!LoadIsTyped
      /\ prog = "clients" /\ step > Len(Boxed!Script) /\ calls[c] < MaxStores
      /\ calls' = [calls EXCEPT ![c] = @ + 1]
      /\ UNCHANGED <<prog, step, boxes, t, succeeded, panicked>>
  BY DEF BoxInv, Boxed!Check
<1>2. step = 2
  <2>1. step \in 1..2 /\ step > 1
    BY <1>1, Scripts, ScriptOfClients DEF ScriptInv
  <2> QED
    BY <2>1
<1>3. PICK v \in Boxed!Values : arg' = IF Boxed!Accepted(v) THEN [arg EXCEPT ![c] = v] ELSE arg
  BY DEF Boxed!Check
<1>4. Boxed!TypeOK'
  <2>1. arg \in [Clients -> Boxed!Values \cup {"none"}] /\ calls \in [Clients -> 0..MaxStores]
    BY <1>1 DEF Boxed!TypeOK
  <2>2. arg' \in [Clients -> Boxed!Values \cup {"none"}]
    BY <1>3, <2>1
  <2>3. calls' \in [Clients -> 0..MaxStores]
    BY <1>1, <2>1, GoroutineDemosAssumption
  <2> QED
    BY <1>1, <2>2, <2>3 DEF Boxed!TypeOK
<1>5. ScriptInv' /\ Boxed!LoadIsTyped'
  BY <1>1 DEF ScriptInv, Boxed!LoadIsTyped
<1>6. ArgInv'
  <2> SUFFICES ASSUME NEW e \in Clients, arg'[e] # "none"
               PROVE  /\ prog' = "clients" /\ step' = 2
                      /\ arg'[e] # "nil" /\ Boxed!TypeOf[arg'[e]] = t'
    BY DEF ArgInv, Boxed!Accepted
  <2>1. (arg'[e] = v /\ Boxed!Accepted(v)) \/ arg'[e] = arg[e]
    BY <1>1, <1>3 DEF Boxed!TypeOK
  <2>2. Boxed!Accepted(arg'[e])
    BY <1>1, <2>1 DEF ArgInv
  <2> QED
    BY <1>1, <1>2, <2>2 DEF Boxed!Accepted
<1> QED
  BY <1>4, <1>5, <1>6 DEF BoxInv

\* So the Store inside finds the box empty or with a value of the same type,
\* and does not panic.
LEMMA StoreAcceptedKeeps ==
  ASSUME BoxInv, NEW c \in Clients, Boxed!StoreAccepted(c)
  PROVE  BoxInv'
<1>1. /\ Boxed!TypeOK /\ ScriptInv /\ ArgInv /\ Boxed!LoadIsTyped
      /\ arg[c] # "none" /\ ~panicked /\ Boxed!Store("box5", arg[c])
      /\ arg' = [arg EXCEPT ![c] = "none"]
      /\ succeeded' = (succeeded \/ ~panicked')
      /\ UNCHANGED <<prog, step, t, calls>>
  BY DEF BoxInv, Boxed!StoreAccepted
<1>2. prog = "clients" /\ step = 2 /\ arg[c] # "nil" /\ Boxed!TypeOf[arg[c]] = t
  BY <1>1 DEF ArgInv, Boxed!Accepted
<1>3. arg \in [Clients -> Boxed!Values \cup {"none"}] /\ arg[c] \in Boxed!Values
  BY <1>1 DEF Boxed!TypeOK
<1>4. boxes["box5"] = "nil" \/ Boxed!TypeOf[boxes["box5"]] = Boxed!TypeOf[arg[c]]
  BY <1>1, <1>2 DEF Boxed!LoadIsTyped
<1>5. boxes' \in [Boxed!Boxes -> Boxed!Values] /\ panicked' = panicked /\ boxes'["box5"] = arg[c]
  BY <1>1, <1>2, <1>3, <1>4, StoreEffect DEF Boxed!Boxes
<1>6. Boxed!TypeOK'
  <2>1. arg' \in [Clients -> Boxed!Values \cup {"none"}]
    BY <1>1, <1>3
  <2>2. succeeded' = TRUE /\ panicked' = FALSE
    <3>1. ~panicked' /\ panicked \in BOOLEAN
      BY <1>1, <1>5 DEF Boxed!TypeOK
    <3>2. (succeeded \/ ~panicked') = TRUE
      BY <3>1
    <3> QED
      BY <1>1, <1>5, <3>1, <3>2
  <2> QED
    BY <1>1, <1>5, <2>1, <2>2 DEF Boxed!TypeOK
<1>7. ScriptInv' /\ Boxed!LoadIsTyped'
  BY <1>1, <1>2, <1>5 DEF ScriptInv, Boxed!LoadIsTyped
<1>8. ArgInv'
  <2> SUFFICES ASSUME NEW e \in Clients, arg'[e] # "none"
               PROVE  /\ prog' = "clients" /\ step' = 2
                      /\ arg'[e] # "nil" /\ Boxed!TypeOf[arg'[e]] = t'
    BY DEF ArgInv, Boxed!Accepted
  <2>1. arg'[e] = arg[e]
    BY <1>1, <1>3
  <2> QED
    BY <1>1, <2>1 DEF ArgInv, Boxed!Accepted
<1> QED
  BY <1>6, <1>7, <1>8 DEF BoxInv

LEMMA BoxesKept == BoxesInv /\ [Next]_vars => BoxesInv'
<1> SUFFICES ASSUME BoxesInv, [Next]_vars, running' = "AtomicBox" PROVE BoxInv'
  BY DEF BoxesInv
<1>1. CASE OfBox(Boxed!Next)
  <2>1. BoxInv /\ Boxed!Next
    BY <1>1 DEF OfBox, BoxesInv
  <2>2. CASE Boxed!Terminated
    BY <2>1, <2>2 DEF Boxed!Terminated, Boxed!vars, BoxInv, Boxed!TypeOK, ScriptInv, Demo1Inv,
         Demo2Inv, DemoInv, ArgInv, Boxed!Accepted, Boxed!LoadIsTyped
  <2> QED
    BY <2>1, <2>2, CopyKeeps, StoreRawKeeps, NewKeeps, CheckedKeeps, CheckKeeps,
       StoreAcceptedKeeps DEF Boxed!Next
<1>2. CASE UNCHANGED vars
  BY <1>2 DEF vars, boxVars, BoxesInv, BoxInv, Boxed!TypeOK, ScriptInv, Demo1Inv,
       Demo2Inv, DemoInv, ArgInv, Boxed!Accepted, Boxed!LoadIsTyped
<1>3. CASE OfAccount(Locked!Next) \/ OfLoop(Loops!Next) \/ OfSlice(Sliced!Next)
  BY <1>3 DEF OfAccount, OfLoop, OfSlice
<1> QED
  BY <1>1, <1>2, <1>3 DEF Next

LEMMA BoxesInvariant == Spec => []BoxesInv
BY BoxesStart, BoxesKept, PTL DEF Spec

\* Only the second value of demo2 and the nil of demo3 make an atomic.Value
\* panic, and these do; no mixture of clients does it to an atomicValue.
LEMMA BoxesAsAnnounced == BoxInv => Boxed!PanicsWhereAnnounced
<1> SUFFICES ASSUME BoxInv PROVE Boxed!PanicsWhereAnnounced
  OBVIOUS
<1>1. ScriptInv /\ prog \in {"demo1", "demo2", "demo3", "demo", "clients"} /\ panicked \in BOOLEAN
  BY ProgramNames DEF BoxInv, Boxed!TypeOK
<1>2. ASSUME prog = "demo2", Boxed!Finished PROVE panicked
  <2>1. step > 2 /\ step \in 1..3 /\ (panicked <=> step = 3)
    BY <1>1, <1>2, Scripts, ScriptOfDemo2 DEF Boxed!Finished, ScriptInv, Demo2Inv
  <2> QED
    BY <2>1
<1>3. ASSUME prog = "demo3", Boxed!Finished PROVE panicked
  <2>1. step > 1 /\ step \in 1..2 /\ (panicked <=> step = 2)
    BY <1>1, <1>3, Scripts, ScriptOfDemo3 DEF Boxed!Finished, ScriptInv
  <2> QED
    BY <2>1
<1>4. ASSUME prog \in {"demo1", "demo", "clients"} PROVE ~panicked
  BY <1>1, <1>4 DEF ScriptInv, Demo1Inv, DemoInv
<1>5. panicked => prog \in {"demo2", "demo3"}
  BY <1>1, <1>4
<1>6. Boxed!Finished => (panicked <=> prog \in {"demo2", "demo3"})
  BY <1>2, <1>3, <1>5
<1>7. Boxed!Finished => panicked = (prog \in {"demo2", "demo3"})
  <2>1. CASE panicked = TRUE
    BY <1>6, <2>1
  <2>2. CASE panicked = FALSE
    <3> SUFFICES ASSUME Boxed!Finished PROVE panicked = (prog \in {"demo2", "demo3"})
      OBVIOUS
    <3>1. prog \notin {"demo2", "demo3"}
      BY <1>6, <2>2
    <3>2. (prog \in {"demo2", "demo3"}) = FALSE
      BY <3>1
    <3> QED
      BY <2>2, <3>2, Zenon
  <2> QED
    BY <1>1, <2>1, <2>2
<1> QED
  BY <1>5, <1>7 DEF Boxed!PanicsWhereAnnounced

-----------------------------------------------------------------------------
(* The stored slice *)

SliceTypes ==
  /\ step \in {"store", "change", "copy", "write", "end"}
  /\ heap \in [Sliced!Arrays -> Seq(Nat)]
  /\ \A a \in Sliced!Arrays : Len(heap[a]) = 3
  /\ copied \in 0..3
  /\ loaded \in [Readers -> {"none", "first", "replica"}]
  /\ seen \in [Readers -> Seq(Nat)]

\* main has left an array before anybody reads it as what was stored.
ReplicaInv ==
  /\ v6 = IF step \in {"store", "change"} THEN "first" ELSE "second"
  /\ box6 = CASE step = "store" -> "none"
              [] step \in {"change", "copy"} -> "first"
              [] step \in {"write", "end"} -> "replica"
  /\ step \in {"write", "end"} => stored["replica"] = heap["replica"]

SeenInv ==
  \A r \in Readers :
    /\ loaded[r] = "replica" => step \in {"write", "end"}
    /\ Len(seen[r]) <= 3 /\ (loaded[r] = "none" => Len(seen[r]) = 0)
    /\ loaded[r] = "replica" => \A n \in 1..Len(seen[r]) : seen[r][n] = heap["replica"][n]

SliceInv == SliceTypes /\ ReplicaInv /\ SeenInv

SlicesInv == running = "SliceBox" => SliceInv

LEMMA SlicesStart == Init => SlicesInv
<1> SUFFICES ASSUME Init, running = "SliceBox" PROVE SliceInv
  BY DEF SlicesInv
<1>1. Sliced!Init
  BY DEF Init
<1> USE <1>1 DEF Sliced!Init
<1>2. <<1, 2, 3>> \in Seq(Nat) /\ Len(<<1, 2, 3>>) = 3
      /\ Sliced!Zeros \in Seq(Nat) /\ Len(Sliced!Zeros) = 3
  BY DEF Sliced!Zeros
<1>3. SliceTypes
  <2>1. \A a \in Sliced!Arrays : heap[a] = <<1, 2, 3>> \/ heap[a] = Sliced!Zeros
    OBVIOUS
  <2>2. heap \in [Sliced!Arrays -> Seq(Nat)]
    BY <1>2
  <2>3. seen \in [Readers -> Seq(Nat)] /\ loaded \in [Readers -> {"none", "first", "replica"}]
    OBVIOUS
  <2> QED
    BY <1>2, <2>1, <2>2, <2>3 DEF SliceTypes
<1>4. ReplicaInv
  BY DEF ReplicaInv
<1>5. SeenInv
  BY DEF SeenInv
<1> QED
  BY <1>3, <1>4, <1>5 DEF SliceInv

\* An assignment to one element leaves a sequence of the same length.
LEMMA ElementAssigned ==
  ASSUME NEW s \in Seq(Nat), NEW n \in 1..Len(s), NEW e \in Nat
  PROVE  /\ [s EXCEPT ![n] = e] \in Seq(Nat)
         /\ Len([s EXCEPT ![n] = e]) = Len(s)
  OBVIOUS

LEMMA StoreAliasKeeps ==
  ASSUME SliceInv, Sliced!StoreAlias
  PROVE  SliceInv'
<1> USE DEF SliceInv, SliceTypes, ReplicaInv, SeenInv
<1>1. /\ step = "store" /\ step' = "change" /\ box6' = v6
      /\ UNCHANGED <<v6, heap, copied, loaded, seen>>
  BY DEF Sliced!StoreAlias, Sliced!Publish
<1> QED
  BY <1>1

LEMMA ChangeKeeps ==
  ASSUME SliceInv, Sliced!Change
  PROVE  SliceInv'
<1> USE DEF SliceInv
<1>1. /\ step = "change" /\ step' = "copy" /\ v6 = "first" /\ v6' = "second"
      /\ heap' = [heap EXCEPT !["first"] = [heap["first"] EXCEPT ![2] = 4], !["second"] = <<1, 2, 3>>]
      /\ UNCHANGED <<box6, stored, copied, loaded, seen>>
  BY DEF Sliced!Change, ReplicaInv
<1>2. heap["first"] \in Seq(Nat) /\ 2 \in 1..Len(heap["first"])
  <2>1. heap["first"] \in Seq(Nat) /\ Len(heap["first"]) = 3
    BY DEF SliceTypes, Sliced!Arrays
  <2> QED
    BY <2>1
<1>3. heap'["first"] = [heap["first"] EXCEPT ![2] = 4] /\ heap'["second"] = <<1, 2, 3>>
      /\ heap'["replica"] = heap["replica"] /\ DOMAIN heap' = Sliced!Arrays
  BY <1>1 DEF SliceTypes, Sliced!Arrays
<1>4. [heap["first"] EXCEPT ![2] = 4] \in Seq(Nat) /\ Len([heap["first"] EXCEPT ![2] = 4]) = 3
  BY <1>2, ElementAssigned DEF SliceTypes, Sliced!Arrays
<1>5. <<1, 2, 3>> \in Seq(Nat) /\ Len(<<1, 2, 3>>) = 3
  OBVIOUS
<1>6. \A a \in Sliced!Arrays : heap'[a] \in Seq(Nat) /\ Len(heap'[a]) = 3
  BY <1>3, <1>4, <1>5 DEF Sliced!Arrays, SliceTypes
<1>7. SliceTypes'
  <2>1. heap' \in [Sliced!Arrays -> Seq(Nat)]
    BY <1>1, <1>6 DEF SliceTypes
  <2> QED
    BY <1>1, <1>6, <2>1 DEF SliceTypes
<1>8. ReplicaInv' /\ SeenInv'
  BY <1>1, <1>3 DEF ReplicaInv, SeenInv
<1> QED
  BY <1>7, <1>8

\* One element of the replica is written, and nobody can have loaded it yet.
LEMMA CopyElementKeeps ==
  ASSUME SliceInv, Sliced!Copy
  PROVE  SliceInv'
<1> USE DEF SliceInv
<1>1. /\ step = "copy" /\ copied \in 0..3 /\ copied < 3 /\ copied' = copied + 1 /\ v6 = "second"
      /\ heap' = [heap EXCEPT !["replica"] =
                    [heap["replica"] EXCEPT ![copied + 1] = heap["second"][copied + 1]]]
      /\ UNCHANGED <<step, v6, box6, stored, loaded, seen>>
  BY DEF Sliced!Copy, ReplicaInv, SliceTypes
<1>2. heap["second"] \in Seq(Nat) /\ heap["replica"] \in Seq(Nat)
      /\ Len(heap["second"]) = 3 /\ Len(heap["replica"]) = 3
  BY DEF SliceTypes, Sliced!Arrays
<1>3. copied + 1 \in 1..3 /\ heap["second"][copied + 1] \in Nat
  <2>1. copied + 1 \in 1..3
    BY <1>1
  <2> QED
    BY <1>2, <2>1
<1> DEFINE copy == [heap["replica"] EXCEPT ![copied + 1] = heap["second"][copied + 1]]
<1>4. copy \in Seq(Nat) /\ Len(copy) = 3
  BY <1>2, <1>3, ElementAssigned
<1>5. heap' = [heap EXCEPT !["replica"] = copy]
  BY <1>1
<1> HIDE DEF copy
<1>6. heap' \in [Sliced!Arrays -> Seq(Nat)] /\ \A a \in Sliced!Arrays : Len(heap'[a]) = 3
  BY <1>4, <1>5 DEF SliceTypes, Sliced!Arrays
<1>7. SliceTypes'
  BY <1>1, <1>6 DEF SliceTypes
<1>8. ReplicaInv' /\ SeenInv'
  BY <1>1 DEF ReplicaInv, SeenInv
<1> QED
  BY <1>7, <1>8

LEMMA StoreReplicaKeeps ==
  ASSUME SliceInv, Sliced!StoreReplica
  PROVE  SliceInv'
<1> USE DEF SliceInv
<1>1. /\ step = "copy" /\ step' = "write" /\ box6' = "replica" /\ v6 = "second"
      /\ stored' = [b \in DOMAIN stored \cup {"replica"} |->
                      IF b = "replica" THEN heap["replica"] ELSE stored[b]]
      /\ UNCHANGED <<v6, heap, copied, loaded, seen>>
  BY DEF Sliced!StoreReplica, Sliced!Publish, ReplicaInv
<1>2. stored'["replica"] = heap'["replica"]
  BY <1>1
<1> QED
  BY <1>1, <1>2 DEF SliceTypes, ReplicaInv, SeenInv

\* main writes to the array it holds, which is not the stored one.
LEMMA WriteKeeps ==
  ASSUME SliceInv, Sliced!Write
  PROVE  SliceInv'
<1> USE DEF SliceInv
<1>1. /\ step = "write" /\ step' = "end" /\ v6 = "second"
      /\ heap' = [heap EXCEPT !["second"] = [heap["second"] EXCEPT ![3] = 5]]
      /\ UNCHANGED <<v6, box6, stored, copied, loaded, seen>>
  BY DEF Sliced!Write, ReplicaInv
<1>2. heap["second"] \in Seq(Nat) /\ 3 \in 1..Len(heap["second"])
  <2>1. heap["second"] \in Seq(Nat) /\ Len(heap["second"]) = 3
    BY DEF SliceTypes, Sliced!Arrays
  <2> QED
    BY <2>1
<1> DEFINE written == [heap["second"] EXCEPT ![3] = 5]
<1>3. written \in Seq(Nat) /\ Len(written) = 3
  BY <1>2, ElementAssigned DEF SliceTypes, Sliced!Arrays
<1>4. heap' = [heap EXCEPT !["second"] = written]
  BY <1>1
<1> HIDE DEF written
<1>5. heap' \in [Sliced!Arrays -> Seq(Nat)] /\ (\A a \in Sliced!Arrays : Len(heap'[a]) = 3)
      /\ heap'["replica"] = heap["replica"]
  BY <1>3, <1>4 DEF SliceTypes, Sliced!Arrays
<1>6. SliceTypes'
  BY <1>1, <1>5 DEF SliceTypes
<1>7. ReplicaInv' /\ SeenInv'
  BY <1>1, <1>5 DEF ReplicaInv, SeenInv
<1> QED
  BY <1>6, <1>7

LEMMA LoadKeeps ==
  ASSUME SliceInv, NEW r \in Readers, Sliced!Load(r)
  PROVE  SliceInv'
<1> USE DEF SliceInv
<1>1. /\ box6 # "none" /\ loaded' = [loaded EXCEPT ![r] = box6]
      /\ seen' = [seen EXCEPT ![r] = <<heap[box6][1]>>]
      /\ UNCHANGED <<step, v6, heap, box6, stored, copied>>
  BY DEF Sliced!Load
<1>2. /\ box6 = "first" \/ box6 = "replica"
      /\ box6 = "replica" => step \in {"write", "end"}
  BY <1>1 DEF ReplicaInv, SliceTypes
<1>3. heap[box6] \in Seq(Nat) /\ Len(heap[box6]) = 3
  BY <1>2 DEF SliceTypes, Sliced!Arrays
<1>4. heap[box6][1] \in Nat
  BY <1>3
<1> DEFINE read == <<heap[box6][1]>>
<1>5. read \in Seq(Nat) /\ Len(read) = 1 /\ \A n \in 1..Len(read) : read[n] = heap[box6][n]
  BY <1>4
<1>6. seen' = [seen EXCEPT ![r] = read]
  BY <1>1
<1> HIDE DEF read
<1>7. SliceTypes'
  <2>1. loaded' \in [Readers -> {"none", "first", "replica"}]
    BY <1>1, <1>2 DEF SliceTypes
  <2>2. seen' \in [Readers -> Seq(Nat)]
    BY <1>5, <1>6 DEF SliceTypes
  <2> QED
    BY <1>1, <2>1, <2>2 DEF SliceTypes
<1>8. SeenInv'
  <2> SUFFICES ASSUME NEW q \in Readers
               PROVE  /\ loaded'[q] = "replica" => step' \in {"write", "end"}
                      /\ Len(seen'[q]) <= 3 /\ (loaded'[q] = "none" => Len(seen'[q]) = 0)
                      /\ loaded'[q] = "replica" =>
                           \A n \in 1..Len(seen'[q]) : seen'[q][n] = heap'["replica"][n]
    BY DEF SeenInv
  <2>1. CASE q = r
    <3>1. loaded'[q] = box6 /\ seen'[q] = read
      BY <1>1, <1>6, <2>1 DEF SliceTypes
    <3>2. Len(seen'[q]) = 1 /\ loaded'[q] # "none"
      BY <1>1, <1>5, <3>1
    <3>3. loaded'[q] = "replica" => step' \in {"write", "end"}
      BY <1>1, <1>2, <3>1
    <3>4. loaded'[q] = "replica" => \A n \in 1..Len(seen'[q]) : seen'[q][n] = heap'["replica"][n]
      BY <1>1, <1>5, <3>1
    <3> QED
      BY <3>2, <3>3, <3>4
  <2>2. CASE q # r
    <3>1. loaded'[q] = loaded[q] /\ seen'[q] = seen[q]
      BY <1>1, <2>2 DEF SliceTypes
    <3> QED
      BY <1>1, <3>1 DEF SeenInv
  <2> QED
    BY <2>1, <2>2
<1> QED
  BY <1>1, <1>7, <1>8 DEF ReplicaInv

LEMMA ReadKeeps ==
  ASSUME SliceInv, NEW r \in Readers, Sliced!Read(r)
  PROVE  SliceInv'
<1> USE DEF SliceInv
<1> DEFINE next == heap[loaded[r]][Len(seen[r]) + 1]
<1>1. /\ Len(seen[r]) \in {1, 2}
      /\ seen' = [seen EXCEPT ![r] = Append(seen[r], next)]
      /\ UNCHANGED <<step, v6, heap, box6, stored, copied, loaded>>
  BY DEF Sliced!Read
<1>2. seen[r] \in Seq(Nat) /\ loaded[r] \in {"first", "replica"}
  BY <1>1 DEF SeenInv, SliceTypes
<1>3. heap[loaded[r]] \in Seq(Nat) /\ Len(heap[loaded[r]]) = 3
  BY <1>2 DEF SliceTypes, Sliced!Arrays
<1>4. next \in Nat
  <2> DEFINE len == Len(seen[r])
             size == Len(heap[loaded[r]])
  <2>1. len = 1 \/ len = 2
    BY <1>1
  <2>2. size = 3
    BY <1>3
  <2> HIDE DEF len, size
  <2>3. len + 1 \in 1..size
    BY <2>1, <2>2
  <2>4. Len(seen[r]) + 1 \in 1..Len(heap[loaded[r]])
    BY <2>3 DEF len, size
  <2> QED
    BY <1>3, <2>4
<1>5. loaded[r] = "replica" => next = heap["replica"][Len(seen[r]) + 1]
  OBVIOUS
<1> HIDE DEF next
<1> DEFINE read == Append(seen[r], next)
<1>6. read \in Seq(Nat) /\ Len(read) = Len(seen[r]) + 1 /\ read[Len(seen[r]) + 1] = next
      /\ \A n \in 1..Len(seen[r]) : read[n] = seen[r][n]
  BY <1>2, <1>4
<1>7. seen' = [seen EXCEPT ![r] = read]
  BY <1>1
<1> HIDE DEF read
<1>8. SliceTypes'
  BY <1>1, <1>6, <1>7 DEF SliceTypes
<1>9. SeenInv'
  <2> SUFFICES ASSUME NEW q \in Readers
               PROVE  /\ loaded'[q] = "replica" => step' \in {"write", "end"}
                      /\ Len(seen'[q]) <= 3 /\ (loaded'[q] = "none" => Len(seen'[q]) = 0)
                      /\ loaded'[q] = "replica" =>
                           \A n \in 1..Len(seen'[q]) : seen'[q][n] = heap'["replica"][n]
    BY DEF SeenInv
  <2>1. CASE q = r
    <3>1. loaded'[q] = loaded[r] /\ seen'[q] = read
      BY <1>1, <1>7, <2>1 DEF SliceTypes
    <3> DEFINE len == Len(seen[r])
    <3>2. len \in {1, 2} /\ Len(read) = len + 1
      BY <1>1, <1>6
    <3>3. ASSUME loaded[r] = "replica", NEW n \in 1..Len(read) PROVE read[n] = heap["replica"][n]
      <4>1. n = len + 1 \/ n \in 1..len
        <5> HIDE DEF len
        <5> QED
          BY <3>2
      <4>2. \A k \in 1..len : seen[r][k] = heap["replica"][k]
        BY <3>3 DEF SeenInv
      <4> QED
        BY <1>5, <1>6, <3>3, <4>1, <4>2
    <3>4. Len(read) <= 3
      <4> HIDE DEF len
      <4> QED
        BY <3>2
    <3> QED
      BY <1>1, <1>2, <3>1, <3>3, <3>4 DEF SeenInv
  <2>2. CASE q # r
    <3>1. loaded'[q] = loaded[q] /\ seen'[q] = seen[q]
      BY <1>1, <1>7, <2>2 DEF SliceTypes
    <3> QED
      BY <1>1, <3>1 DEF SeenInv
  <2> QED
    BY <2>1, <2>2
<1> QED
  BY <1>1, <1>8, <1>9 DEF ReplicaInv

LEMMA SlicesKept == SlicesInv /\ [Next]_vars => SlicesInv'
<1> SUFFICES ASSUME SlicesInv, [Next]_vars, running' = "SliceBox" PROVE SliceInv'
  BY DEF SlicesInv
<1>1. CASE OfSlice(Sliced!Next)
  BY <1>1, StoreAliasKeeps, ChangeKeeps, CopyElementKeeps, StoreReplicaKeeps, WriteKeeps,
     LoadKeeps, ReadKeeps DEF OfSlice, SlicesInv, Sliced!Next
<1>2. CASE UNCHANGED vars
  BY <1>2 DEF vars, sliceVars, SlicesInv, SliceInv, SliceTypes, ReplicaInv, SeenInv
<1>3. CASE OfAccount(Locked!Next) \/ OfLoop(Loops!Next) \/ OfBox(Boxed!Next)
  BY <1>3 DEF OfAccount, OfLoop, OfBox
<1> QED
  BY <1>1, <1>2, <1>3 DEF Next

LEMMA SlicesInvariant == Spec => []SlicesInv
BY SlicesStart, SlicesKept, PTL DEF Spec

LEMMA Front ==
  ASSUME NEW s \in Seq(Nat), NEW n \in Nat, n <= Len(s)
  PROVE  /\ SubSeq(s, 1, n) \in Seq(Nat) /\ Len(SubSeq(s, 1, n)) = n
         /\ \A k \in 1..n : SubSeq(s, 1, n)[k] = s[k]
  OBVIOUS

\* Whoever has loaded the replica has read the beginning of what was stored.
LEMMA SliceReadsStored == SliceInv => Sliced!ReadsWhatWasStored
<1> SUFFICES ASSUME SliceInv, NEW r \in Readers, loaded[r] \notin {"none", "first"}
             PROVE  seen[r] = SubSeq(stored[loaded[r]], 1, Len(seen[r]))
  BY DEF Sliced!ReadsWhatWasStored
<1> USE DEF SliceInv
<1>1. loaded[r] = "replica" /\ step \in {"write", "end"} /\ seen[r] \in Seq(Nat) /\ Len(seen[r]) <= 3
  BY DEF SliceTypes, SeenInv
<1> DEFINE replica == stored["replica"]
<1>2. replica \in Seq(Nat) /\ Len(replica) = 3 /\ \A n \in 1..Len(seen[r]) : seen[r][n] = replica[n]
  BY <1>1 DEF SliceTypes, ReplicaInv, SeenInv, Sliced!Arrays
<1> HIDE DEF replica
<1>3. seen[r] = SubSeq(replica, 1, Len(seen[r]))
  <2> DEFINE len == Len(seen[r])
             front == SubSeq(replica, 1, len)
  <2>1. len \in Nat /\ len <= Len(replica)
    BY <1>1, <1>2
  <2> HIDE DEF len
  <2>2. front \in Seq(Nat) /\ Len(front) = len /\ \A n \in 1..len : front[n] = replica[n]
    BY <1>2, <2>1, Front
  <2> HIDE DEF front
  <2>3. \A n \in 1..len : front[n] = seen[r][n]
    BY <1>2, <2>2 DEF len
  <2>4. Len(seen[r]) = len
    BY DEF len
  <2>5. seen[r] = front
    BY <1>1, <2>2, <2>3, <2>4
  <2> QED
    BY <2>5 DEF front, len
<1> QED
  BY <1>1, <1>3 DEF replica

\* An atomic.Value panics where demo_atomic.go announces it and nowhere else,
\* what is loaded from an atomicValue has its type, and of the replica a
\* reader sees nothing but what was stored, for any number of clients, stores
\* and readers (demo_atomic.go:12-48, 54-68, 118-150).
THEOREM LoadsAsStored == Spec => []LoadsWhatWasStored
<1>1. BoxesInv /\ SlicesInv => LoadsWhatWasStored
  BY BoxesAsAnnounced, SliceReadsStored DEF BoxesInv, BoxInv, SlicesInv, LoadsWhatWasStored
<1> QED
  BY <1>1, BoxesInvariant, SlicesInvariant, PTL

-----------------------------------------------------------------------------
(* The account under the RWMutex *)

Checks == {"check"} \X (1..N)

LockTypes ==
  /\ num \in Nat /\ balance \in Int
  /\ seen \in [Locked!Goroutine -> [num : Nat, balance : Int]]
  /\ pc \in [Locked!Goroutine -> 0..9]
  /\ \A g \in Checks : pc[g] <= 6
  /\ readers \subseteq Checks /\ waiting \subseteq Checks
  /\ sign \in 0..SignCap
  /\ local \in {"free", "read", "write"}

\* A writer is announced from its Lock to its Unlock, a reader inside from its
\* RLock to its RUnlock, and once a writer has entered no reader is.
LockInv ==
  /\ writer \in Locked!Writers \cup {NoOne}
  /\ \A g \in Locked!Writers : writer = g <=> pc[g] \in 2..7
  /\ \A g \in Checks : g \in readers <=> pc[g] \in 2..4
  /\ \A g \in waiting : pc[g] = 1
  /\ \A g \in Locked!Writers : pc[g] \in 3..7 => readers = {}

\* The writers that have stored the count, and the balance.
Counted == {g \in Locked!Writers : pc[g] >= 5}
Booked == {g \in Locked!Writers : pc[g] >= 7}

\* The account is what the writers have stored, and what a writer read is
\* still there when it stores, and what a reader read while it is inside.
AccountInv ==
  /\ num = Cardinality(Counted)
  /\ balance = Opening + Locked!Moved(Booked)
  /\ \A g \in Locked!Writers :
       (pc[g] = 4 => seen[g].num = num) /\ (pc[g] = 6 => seen[g].balance = balance)
  /\ \A g \in Checks :
       (pc[g] \in {3, 4} => seen[g].num = num) /\ (pc[g] = 4 => seen[g].balance = balance)

Last(g) == IF g \in Checks THEN 6 ELSE 9
Signed == {g \in Locked!Goroutine : pc[g] = Last(g)}

Received ==
  CASE main = "launch" -> 0
    [] main = "receive" -> i - 1
    [] main \in {"redundantUnlock", "exit"} -> 3 * N

\* Every element that was or is in the channel comes from a goroutine at its
\* end; the lock of redundantUnlock is in the mode of the next unlock.
JoinInv ==
  /\ main \in {"launch", "receive", "redundantUnlock", "exit"}
  /\ main \in {"launch", "receive"} => i \in 1..(3 * N) /\ local = "free"
  /\ main = "launch" => \A g \in Locked!Goroutine : Locked!LaunchOrder(g) >= i => pc[g] = 0
  /\ main = "exit" => i = 4
  /\ main = "redundantUnlock" =>
       i \in 1..4 /\ local = <<"free", "read", "free", "write">>[i]
  /\ sign + Received = Cardinality(Signed)

RWInv == LockTypes /\ LockInv /\ AccountInv /\ JoinInv

LockedInv == running = "RWAccount" => RWInv

LEMMA Goroutines ==
  /\ Locked!Goroutine = Locked!Writers \cup Checks
  /\ \A g \in Locked!Writers : g \notin Checks
BY DEF Locked!Goroutine, Locked!Writers, Checks

LEMMA GoroutinesLaunched ==
  IsFiniteSet(Locked!Goroutine) /\ Cardinality(Locked!Goroutine) = 3 * N
<1> DEFINE Kinds == {"withdraw", "deposit", "check"}
<1>1. IsFiniteSet(Kinds) /\ Cardinality(Kinds) = 3
  <2>1. IsFiniteSet({"withdraw"}) /\ Cardinality({"withdraw"}) = 1
    BY FS_Singleton
  <2>2. {"withdraw", "deposit"} = {"withdraw"} \cup {"deposit"} /\ "deposit" \notin {"withdraw"}
    OBVIOUS
  <2>3. IsFiniteSet({"withdraw", "deposit"}) /\ Cardinality({"withdraw", "deposit"}) = 2
    BY <2>1, <2>2, FS_AddElement
  <2>4. Kinds = {"withdraw", "deposit"} \cup {"check"} /\ "check" \notin {"withdraw", "deposit"}
    OBVIOUS
  <2> QED
    BY <2>3, <2>4, FS_AddElement
<1>2. IsFiniteSet(1..N) /\ Cardinality(1..N) = N
  <2>1. 1 \in Int /\ N \in Nat \ {0}
    BY GoroutineDemosAssumption
  <2>2. IsFiniteSet(1..N)
    BY <2>1, FS_Interval
  <2>3. Cardinality(1..N) = IF 1 > N THEN 0 ELSE N - 1 + 1
    BY <2>1, FS_Interval
  <2> QED
    BY <2>1, <2>2, <2>3
<1> HIDE DEF Kinds
<1>3. IsFiniteSet(Kinds \X (1..N)) /\ Cardinality(Kinds \X (1..N)) = Cardinality(Kinds) * Cardinality(1..N)
  BY <1>1, <1>2, FS_Product
<1> QED
  BY <1>1, <1>2, <1>3 DEF Locked!Goroutine, Kinds

\* Where in the body of each goroutine each call is.
LEMMA CallsOfWriter ==
  ASSUME NEW g \in Locked!Writers, NEW call, Locked!At(g, call)
  PROVE  \/ call = "Lock" /\ pc[g] = 1
         \/ call = "Enter" /\ pc[g] = 2
         \/ call = "LoadNum" /\ pc[g] = 3
         \/ call = "StoreNum" /\ pc[g] = 4
         \/ call = "LoadBalance" /\ pc[g] = 5
         \/ call = "StoreBalance" /\ pc[g] = 6
         \/ call = "Unlock" /\ pc[g] = 7
         \/ call = "Sign" /\ pc[g] = 8
<1>1. Locked!Body(g) = <<"Lock", "Enter", "LoadNum", "StoreNum", "LoadBalance", "StoreBalance",
                         "Unlock", "Sign">>
  BY DEF Locked!Writers, Locked!Body, Locked!withdraw, Locked!deposit
<1>2. pc[g] \in 1..8 /\ Locked!Body(g)[pc[g]] = call
  BY <1>1 DEF Locked!At
<1>3. /\ Locked!Body(g)[1] = "Lock" /\ Locked!Body(g)[2] = "Enter"
      /\ Locked!Body(g)[3] = "LoadNum" /\ Locked!Body(g)[4] = "StoreNum"
      /\ Locked!Body(g)[5] = "LoadBalance" /\ Locked!Body(g)[6] = "StoreBalance"
      /\ Locked!Body(g)[7] = "Unlock" /\ Locked!Body(g)[8] = "Sign"
  BY <1>1
<1>4. pc[g] = 1 \/ pc[g] = 2 \/ pc[g] = 3 \/ pc[g] = 4 \/ pc[g] = 5 \/ pc[g] = 6 \/ pc[g] = 7 \/ pc[g] = 8
  BY <1>2
<1> QED
  BY <1>2, <1>3, <1>4

LEMMA CallsOfCheck ==
  ASSUME NEW g \in Checks, NEW call, Locked!At(g, call)
  PROVE  \/ call = "RLock" /\ pc[g] = 1
         \/ call = "LoadNum" /\ pc[g] = 2
         \/ call = "LoadBalance" /\ pc[g] = 3
         \/ call = "RUnlock" /\ pc[g] = 4
         \/ call = "Sign" /\ pc[g] = 5
<1>1. Locked!Body(g) = <<"RLock", "LoadNum", "LoadBalance", "RUnlock", "Sign">>
  BY DEF Checks, Locked!Body, Locked!check
<1>2. pc[g] \in 1..5 /\ Locked!Body(g)[pc[g]] = call
  BY <1>1 DEF Locked!At
<1>3. /\ Locked!Body(g)[1] = "RLock" /\ Locked!Body(g)[2] = "LoadNum"
      /\ Locked!Body(g)[3] = "LoadBalance" /\ Locked!Body(g)[4] = "RUnlock"
      /\ Locked!Body(g)[5] = "Sign"
  BY <1>1
<1>4. pc[g] = 1 \/ pc[g] = 2 \/ pc[g] = 3 \/ pc[g] = 4 \/ pc[g] = 5
  BY <1>2
<1> QED
  BY <1>2, <1>3, <1>4

LEMMA LockedStart == Init => LockedInv
<1> SUFFICES ASSUME Init, running = "RWAccount" PROVE RWInv
  BY DEF LockedInv
<1>1. Locked!Init
  BY DEF Init
<1> USE <1>1, GoroutineDemosAssumption DEF Locked!Init
<1>2. \A g \in Locked!Goroutine : pc[g] = 0
  OBVIOUS
<1>3. LockTypes
  BY Goroutines DEF LockTypes, Locked!Unread
<1>4. LockInv
  <2>1. \A g \in Locked!Writers : g # NoOne
    BY DEF Locked!Writers
  <2> QED
    BY <1>2, <2>1, Goroutines DEF LockInv
<1>5. AccountInv
  <2>1. Counted = {} /\ Booked = {}
    BY <1>2, Goroutines DEF Counted, Booked
  <2>2. Cardinality({}) = 0
    BY FS_EmptySet
  <2>3. Locked!Moved({}) = 0
    <3>1. Locked!Moved({}) = Sum(Locked!Value, {})
      BY DEF Locked!Moved, Sum, MapThenSumSet, MapThenFoldSet, Locked!MapThenSumSet,
         Locked!MapThenFoldSet
    <3> QED
      BY <3>1, SumEmpty
  <2> QED
    BY <1>2, <2>1, <2>2, <2>3, Goroutines DEF AccountInv
<1>6. JoinInv
  <2>1. Signed = {}
    BY <1>2 DEF Signed, Last
  <2>2. Cardinality({}) = 0
    BY FS_EmptySet
  <2> QED
    BY <1>2, <2>1, <2>2 DEF JoinInv, Received
<1> QED
  BY <1>3, <1>4, <1>5, <1>6 DEF RWInv

-----------------------------------------------------------------------------
(* What a step that is not about the account, or about the join, keeps *)

LEMMA AccountFrame ==
  ASSUME AccountInv, UNCHANGED <<num, balance>>,
         \A g \in Locked!Writers : /\ pc'[g] >= 5 <=> pc[g] >= 5
                                   /\ pc'[g] >= 7 <=> pc[g] >= 7
                                   /\ pc'[g] \in {4, 6} => pc'[g] = pc[g] /\ seen'[g] = seen[g],
         \A g \in Checks : pc'[g] \in {3, 4} => pc'[g] = pc[g] /\ seen'[g] = seen[g]
  PROVE  AccountInv'
<1>1. Counted' = Counted /\ Booked' = Booked
  BY DEF Counted, Booked
<1> QED
  BY <1>1 DEF AccountInv

LEMMA JoinFrame ==
  ASSUME JoinInv, UNCHANGED <<sign, main, i, local>>,
         \A g \in Locked!Goroutine : /\ pc'[g] = Last(g) <=> pc[g] = Last(g)
                                     /\ pc[g] = 0 => pc'[g] = 0
  PROVE  JoinInv'
<1>1. Signed' = Signed
  BY DEF Signed, Last
<1>2. \A g \in Locked!Goroutine : Locked!LaunchOrder(g)' = Locked!LaunchOrder(g)
  BY DEF Locked!LaunchOrder
<1> QED
  BY <1>1, <1>2 DEF JoinInv, Received

-----------------------------------------------------------------------------
(* The lock *)

\* A check gets in while no writer is announced, and waits otherwise.
LEMMA RLockKeeps ==
  ASSUME RWInv, NEW g \in Locked!Goroutine, Locked!RLock(g)
  PROVE  RWInv'
<1> USE DEF RWInv
<1>1. g \in Checks /\ pc[g] = 1
  <2>1. Locked!At(g, "RLock")
    BY DEF Locked!RLock
  <2>2. g \notin Locked!Writers
    BY <2>1, CallsOfWriter
  <2> QED
    BY <2>1, <2>2, Goroutines, CallsOfCheck
<1>2. UNCHANGED <<writer, num, balance, seen, sign, main, i, local>>
  BY DEF Locked!RLock, Locked!dataVars, Locked!mainVars
<1>3. CASE writer = NoOne
  <2>1. readers' = readers \cup {g} /\ waiting' = waiting
        /\ pc' = [h \in Locked!Goroutine |-> IF h \in {g} THEN pc[h] + 1 ELSE pc[h]]
    BY <1>3 DEF Locked!RLock, Locked!Advance
  <2>2. g \notin waiting
    BY DEF Locked!RLock
  <2>3. pc'[g] = 2 /\ \A h \in Locked!Goroutine : h # g => pc'[h] = pc[h]
    BY <1>1, <2>1
  <2>4. LockTypes'
    <3>1. pc' \in [Locked!Goroutine -> 0..9]
      BY <1>1, <2>1 DEF LockTypes
    <3> QED
      BY <1>1, <1>2, <2>1, <2>3, <3>1, Goroutines DEF LockTypes
  <2>5. LockInv'
    <3>1. \A h \in Locked!Writers : pc'[h] = pc[h] /\ writer # h
      BY <1>1, <1>3, <2>3, Goroutines, GoroutineDemosAssumption DEF Locked!Goroutine
    <3>2. \A h \in Locked!Writers : pc[h] \notin 2..7
      BY <3>1 DEF LockInv
    <3>3. \A h \in Locked!Writers : pc'[h] \notin 3..7
      BY <3>1, <3>2, Goroutines DEF LockTypes
    <3>4. \A h \in Checks : h \in readers' <=> pc'[h] \in 2..4
      BY <1>1, <2>1, <2>3, Goroutines DEF LockInv
    <3>5. \A h \in waiting' : pc'[h] = 1
      BY <2>1, <2>2, <2>3, Goroutines DEF LockInv, LockTypes
    <3>6. \A h \in Locked!Writers : writer' # h /\ pc'[h] \notin 2..7
      BY <1>2, <3>1, <3>2
    <3> QED
      BY <1>2, <1>3, <3>3, <3>4, <3>5, <3>6 DEF LockInv
  <2>6. AccountInv'
    BY <1>1, <1>2, <2>3, Goroutines, AccountFrame
  <2>7. JoinInv'
    BY <1>1, <1>2, <2>3, Goroutines, JoinFrame DEF Last
  <2> QED
    BY <2>4, <2>5, <2>6, <2>7
<1>4. CASE writer # NoOne
  <2>1. waiting' = waiting \cup {g} /\ readers' = readers /\ pc' = pc
    BY <1>4 DEF Locked!RLock
  <2> QED
    BY <1>1, <1>2, <2>1, AccountFrame, JoinFrame DEF LockTypes, LockInv
<1> QED
  BY <1>3, <1>4

LEMMA RUnlockKeeps ==
  ASSUME RWInv, NEW g \in Locked!Goroutine, Locked!RUnlock(g)
  PROVE  RWInv'
<1> USE DEF RWInv
<1>1. g \in Checks /\ pc[g] = 4
  <2>1. Locked!At(g, "RUnlock")
    BY DEF Locked!RUnlock
  <2>2. g \notin Locked!Writers
    BY <2>1, CallsOfWriter
  <2> QED
    BY <2>1, <2>2, Goroutines, CallsOfCheck
<1>2. g \in readers
  BY <1>1 DEF LockInv
<1>3. /\ readers' = readers \ {g}
      /\ pc' = [h \in Locked!Goroutine |-> IF h \in {g} THEN pc[h] + 1 ELSE pc[h]]
      /\ seen' = [seen EXCEPT ![g] = Locked!Unread]
      /\ UNCHANGED <<writer, waiting, num, balance, sign, main, i, local>>
  BY <1>2 DEF Locked!RUnlock, Locked!Advance, Locked!Forget, Locked!mainVars
<1>4. pc'[g] = 5 /\ \A h \in Locked!Goroutine : h # g => pc'[h] = pc[h] /\ seen'[h] = seen[h]
  BY <1>1, <1>3 DEF LockTypes
<1>5. LockTypes'
  <2>1. pc' \in [Locked!Goroutine -> 0..9]
    BY <1>1, <1>3 DEF LockTypes
  <2>2. seen' \in [Locked!Goroutine -> [num : Nat, balance : Int]]
    BY <1>3 DEF LockTypes, Locked!Unread
  <2> QED
    BY <1>1, <1>3, <1>4, <2>1, <2>2, Goroutines DEF LockTypes
<1>6. LockInv'
  BY <1>1, <1>3, <1>4, Goroutines DEF LockInv, LockTypes
<1>7. AccountInv'
  BY <1>1, <1>3, <1>4, Goroutines, AccountFrame
<1>8. JoinInv'
  BY <1>1, <1>3, <1>4, Goroutines, JoinFrame DEF Last
<1> QED
  BY <1>5, <1>6, <1>7, <1>8

LEMMA LockKeeps ==
  ASSUME RWInv, NEW g \in Locked!Goroutine, Locked!Lock(g)
  PROVE  RWInv'
<1> USE DEF RWInv
<1>1. g \in Locked!Writers /\ pc[g] = 1
  <2>1. Locked!At(g, "Lock")
    BY DEF Locked!Lock
  <2>2. g \notin Checks
    BY <2>1, CallsOfCheck
  <2> QED
    BY <2>1, <2>2, Goroutines, CallsOfWriter
<1>2. /\ writer = NoOne /\ writer' = g
      /\ pc' = [h \in Locked!Goroutine |-> IF h \in {g} THEN pc[h] + 1 ELSE pc[h]]
      /\ UNCHANGED <<readers, waiting, num, balance, seen, sign, main, i, local>>
  BY DEF Locked!Lock, Locked!Advance, Locked!dataVars, Locked!mainVars
<1>3. pc'[g] = 2 /\ \A h \in Locked!Goroutine : h # g => pc'[h] = pc[h]
  BY <1>1, <1>2
<1>4. LockTypes'
  <2>1. pc' \in [Locked!Goroutine -> 0..9]
    BY <1>1, <1>2 DEF LockTypes
  <2> QED
    BY <1>1, <1>2, <1>3, <2>1, Goroutines DEF LockTypes
<1>5. LockInv'
  <2>1. \A h \in Locked!Writers : writer # h
    BY <1>2, Goroutines, GoroutineDemosAssumption DEF Locked!Goroutine
  <2>2. \A h \in Locked!Writers : pc[h] \notin 2..7
    BY <2>1 DEF LockInv
  <2>3. \A h \in Locked!Writers : writer' = h <=> pc'[h] \in 2..7
    BY <1>1, <1>2, <1>3, <2>2, Goroutines
  <2>4. \A h \in Locked!Writers : pc'[h] \notin 3..7
    BY <1>1, <1>3, <2>2, Goroutines DEF LockTypes
  <2>5. \A h \in Checks : h \in readers' <=> pc'[h] \in 2..4
    BY <1>1, <1>2, <1>3, Goroutines DEF LockInv
  <2>6. \A h \in waiting' : pc'[h] = 1
    BY <1>1, <1>2, <1>3, Goroutines DEF LockInv, LockTypes
  <2> QED
    BY <1>1, <1>2, <2>3, <2>4, <2>5, <2>6 DEF LockInv
<1>6. AccountInv'
  BY <1>1, <1>2, <1>3, Goroutines, AccountFrame
<1>7. JoinInv'
  BY <1>1, <1>2, <1>3, Goroutines, JoinFrame DEF Last
<1> QED
  BY <1>4, <1>5, <1>6, <1>7

\* The writer goes in when the last reader has gone.
LEMMA EnterKeeps ==
  ASSUME RWInv, NEW g \in Locked!Goroutine, Locked!Enter(g)
  PROVE  RWInv'
<1> USE DEF RWInv
<1>1. g \in Locked!Writers /\ pc[g] = 2
  <2>1. Locked!At(g, "Enter")
    BY DEF Locked!Enter
  <2>2. g \notin Checks
    BY <2>1, CallsOfCheck
  <2> QED
    BY <2>1, <2>2, Goroutines, CallsOfWriter
<1>2. /\ readers = {}
      /\ pc' = [h \in Locked!Goroutine |-> IF h \in {g} THEN pc[h] + 1 ELSE pc[h]]
      /\ UNCHANGED <<writer, readers, waiting, num, balance, seen, sign, main, i, local>>
  BY DEF Locked!Enter, Locked!Advance, Locked!lockVars, Locked!dataVars, Locked!mainVars
<1>3. pc'[g] = 3 /\ \A h \in Locked!Goroutine : h # g => pc'[h] = pc[h]
  BY <1>1, <1>2
<1>4. LockTypes'
  <2>1. pc' \in [Locked!Goroutine -> 0..9]
    BY <1>1, <1>2 DEF LockTypes
  <2> QED
    BY <1>1, <1>2, <1>3, <2>1, Goroutines DEF LockTypes
<1>5. LockInv'
  BY <1>1, <1>2, <1>3, Goroutines DEF LockInv, LockTypes
<1>6. AccountInv'
  BY <1>1, <1>2, <1>3, Goroutines, AccountFrame
<1>7. JoinInv'
  BY <1>1, <1>2, <1>3, Goroutines, JoinFrame DEF Last
<1> QED
  BY <1>4, <1>5, <1>6, <1>7

\* The writer leaves, and with it every reader that waited gets in.
LEMMA UnlockKeeps ==
  ASSUME RWInv, NEW g \in Locked!Goroutine, Locked!Unlock(g)
  PROVE  RWInv'
<1> USE DEF RWInv
<1>1. g \in Locked!Writers /\ pc[g] = 7
  <2>1. Locked!At(g, "Unlock")
    BY DEF Locked!Unlock
  <2>2. g \notin Checks
    BY <2>1, CallsOfCheck
  <2> QED
    BY <2>1, <2>2, Goroutines, CallsOfWriter
<1>2. writer = g /\ g # NoOne /\ readers = {}
  <2>1. writer = g /\ readers = {}
    BY <1>1 DEF LockInv
  <2>2. g # NoOne
    BY GoroutineDemosAssumption DEF Locked!Goroutine
  <2> QED
    BY <2>1, <2>2
<1>3. /\ writer' = NoOne /\ readers' = readers \cup waiting /\ waiting' = {}
      /\ pc' = [h \in Locked!Goroutine |-> IF h \in {g} \cup waiting THEN pc[h] + 1 ELSE pc[h]]
      /\ seen' = [seen EXCEPT ![g] = Locked!Unread]
      /\ UNCHANGED <<num, balance, sign, main, i, local>>
  BY <1>2 DEF Locked!Unlock, Locked!Advance, Locked!Forget, Locked!mainVars
<1>4. waiting \subseteq Checks /\ \A h \in waiting : pc[h] = 1
  BY DEF LockTypes, LockInv
<1>5. /\ pc'[g] = 8
      /\ \A h \in Locked!Goroutine : h # g => seen'[h] = seen[h]
      /\ \A h \in waiting : pc'[h] = 2
      /\ \A h \in Locked!Goroutine : h # g /\ h \notin waiting => pc'[h] = pc[h]
  BY <1>1, <1>3, <1>4, Goroutines DEF LockTypes
<1>6. LockTypes'
  <2>1. pc' \in [Locked!Goroutine -> 0..9]
    <3>1. \A h \in Locked!Goroutine : pc'[h] \in 0..9
      BY <1>5 DEF LockTypes
    <3> QED
      BY <1>3, <3>1
  <2>2. seen' \in [Locked!Goroutine -> [num : Nat, balance : Int]]
    BY <1>3 DEF LockTypes, Locked!Unread
  <2>3. \A h \in Checks : pc'[h] <= 6
    BY <1>1, <1>5, Goroutines DEF LockTypes
  <2> QED
    BY <1>3, <1>4, <2>1, <2>2, <2>3 DEF LockTypes
<1>7. LockInv'
  <2>1. \A h \in Locked!Writers : h # g => pc'[h] = pc[h] /\ writer # h
    BY <1>2, <1>4, <1>5, Goroutines
  <2>2. \A h \in Locked!Writers : pc'[h] \notin 2..7
    <3>1. \A h \in Locked!Writers : h # g => pc[h] \notin 2..7
      BY <2>1 DEF LockInv
    <3> QED
      BY <1>5, <2>1, <3>1
  <2>3. \A h \in Locked!Writers : h # NoOne /\ pc'[h] \notin 3..7
    BY <2>2, Goroutines, GoroutineDemosAssumption DEF LockTypes, Locked!Goroutine
  <2>4. \A h \in Checks : h \in readers' <=> pc'[h] \in 2..4
    <3> SUFFICES ASSUME NEW h \in Checks PROVE h \in readers' <=> pc'[h] \in 2..4
      OBVIOUS
    <3>1. CASE h \in waiting
      BY <1>3, <1>5, <3>1
    <3>2. CASE h \notin waiting
      BY <1>1, <1>3, <1>5, <3>2, Goroutines DEF LockInv
    <3> QED
      BY <3>1, <3>2
  <2> QED
    BY <1>3, <2>2, <2>3, <2>4 DEF LockInv
<1>8. AccountInv'
  <2>1. \A h \in Locked!Writers : h # g => pc'[h] = pc[h] /\ seen'[h] = seen[h]
    BY <1>4, <1>5, Goroutines
  <2>2. \A h \in Checks : pc'[h] \in {3, 4} => pc'[h] = pc[h] /\ seen'[h] = seen[h]
    BY <1>1, <1>5, Goroutines
  <2> QED
    BY <1>1, <1>3, <1>5, <2>1, <2>2, AccountFrame
<1>9. JoinInv'
  <2>1. \A h \in Locked!Goroutine : /\ pc'[h] = Last(h) <=> pc[h] = Last(h)
                                    /\ pc[h] = 0 => pc'[h] = 0
    BY <1>1, <1>4, <1>5, Goroutines DEF Last
  <2> QED
    BY <1>3, <2>1, JoinFrame
<1> QED
  BY <1>6, <1>7, <1>8, <1>9

-----------------------------------------------------------------------------
(* The account *)

\* Reads and writes leave the lock as it is.
LEMMA AccessKeepsLock ==
  ASSUME RWInv, NEW g \in Locked!Goroutine,
         g \in Locked!Writers => pc[g] \in 3..6,
         g \in Checks => pc[g] \in {2, 3},
         pc' = [h \in Locked!Goroutine |-> IF h \in {g} THEN pc[h] + 1 ELSE pc[h]],
         UNCHANGED <<writer, readers, waiting>>
  PROVE  /\ LockInv' /\ pc' \in [Locked!Goroutine -> 0..9]
         /\ \A h \in Checks : pc'[h] <= 6
         /\ pc'[g] = pc[g] + 1
         /\ \A h \in Locked!Goroutine : h # g => pc'[h] = pc[h]
<1> USE DEF RWInv
<1>1. pc \in [Locked!Goroutine -> 0..9]
  BY DEF LockTypes
<1>2. pc[g] \in 2..6
  BY Goroutines
<1>3. pc'[g] = pc[g] + 1 /\ \A h \in Locked!Goroutine : h # g => pc'[h] = pc[h]
  OBVIOUS
<1>4. pc' \in [Locked!Goroutine -> 0..9]
  BY <1>1, <1>2
<1>5. \A h \in Checks : pc'[h] <= 6 /\ (pc'[h] \in 2..4 <=> pc[h] \in 2..4)
  BY <1>1, <1>3, Goroutines DEF LockTypes
<1>6. \A h \in Locked!Writers : (pc'[h] \in 2..7 <=> pc[h] \in 2..7) /\ (pc'[h] \in 3..7 <=> pc[h] \in 3..7)
  BY <1>1, <1>3, Goroutines
<1>7. \A h \in waiting : pc'[h] = 1
  BY <1>2, <1>3, Goroutines DEF LockInv, LockTypes
<1> QED
  BY <1>3, <1>4, <1>5, <1>6, <1>7 DEF LockInv

LEMMA LoadNumKeeps ==
  ASSUME RWInv, NEW g \in Locked!Goroutine, Locked!LoadNum(g)
  PROVE  RWInv'
<1> USE DEF RWInv
<1>1. (g \in Locked!Writers => pc[g] = 3) /\ (g \in Checks => pc[g] = 2)
  <2>1. Locked!At(g, "LoadNum")
    BY DEF Locked!LoadNum
  <2> QED
    BY <2>1, CallsOfWriter, CallsOfCheck
<1>2. /\ pc' = [h \in Locked!Goroutine |-> IF h \in {g} THEN pc[h] + 1 ELSE pc[h]]
      /\ seen' = [seen EXCEPT ![g].num = num]
      /\ UNCHANGED <<writer, readers, waiting, num, balance, sign, main, i, local>>
  BY DEF Locked!LoadNum, Locked!Advance, Locked!lockVars, Locked!mainVars
<1>3. /\ LockInv' /\ pc' \in [Locked!Goroutine -> 0..9] /\ \A h \in Checks : pc'[h] <= 6
      /\ pc'[g] = pc[g] + 1 /\ \A h \in Locked!Goroutine : h # g => pc'[h] = pc[h]
  BY <1>1, <1>2, AccessKeepsLock
<1>4. /\ seen' \in [Locked!Goroutine -> [num : Nat, balance : Int]]
      /\ seen'[g].num = num /\ \A h \in Locked!Goroutine : h # g => seen'[h] = seen[h]
  BY <1>2 DEF LockTypes
<1>5. LockTypes'
  BY <1>2, <1>3, <1>4 DEF LockTypes
<1>6. AccountInv'
  <2>1. Counted' = Counted /\ Booked' = Booked
    BY <1>1, <1>3, Goroutines DEF Counted, Booked
  <2>2. \A h \in Locked!Writers : /\ pc'[h] = 4 => seen'[h].num = num'
                                  /\ pc'[h] = 6 => seen'[h].balance = balance'
    BY <1>1, <1>2, <1>3, <1>4, Goroutines DEF AccountInv
  <2>3. \A h \in Checks : /\ pc'[h] \in {3, 4} => seen'[h].num = num'
                          /\ pc'[h] = 4 => seen'[h].balance = balance'
    BY <1>1, <1>2, <1>3, <1>4, Goroutines DEF AccountInv
  <2> QED
    BY <1>2, <2>1, <2>2, <2>3 DEF AccountInv
<1>7. JoinInv'
  BY <1>1, <1>2, <1>3, Goroutines, JoinFrame DEF Last
<1> QED
  BY <1>3, <1>5, <1>6, <1>7

LEMMA LoadBalanceKeeps ==
  ASSUME RWInv, NEW g \in Locked!Goroutine, Locked!LoadBalance(g)
  PROVE  RWInv'
<1> USE DEF RWInv
<1>1. (g \in Locked!Writers => pc[g] = 5) /\ (g \in Checks => pc[g] = 3)
  <2>1. Locked!At(g, "LoadBalance")
    BY DEF Locked!LoadBalance
  <2> QED
    BY <2>1, CallsOfWriter, CallsOfCheck
<1>2. /\ pc' = [h \in Locked!Goroutine |-> IF h \in {g} THEN pc[h] + 1 ELSE pc[h]]
      /\ seen' = [seen EXCEPT ![g].balance = balance]
      /\ UNCHANGED <<writer, readers, waiting, num, balance, sign, main, i, local>>
  BY DEF Locked!LoadBalance, Locked!Advance, Locked!lockVars, Locked!mainVars
<1>3. /\ LockInv' /\ pc' \in [Locked!Goroutine -> 0..9] /\ \A h \in Checks : pc'[h] <= 6
      /\ pc'[g] = pc[g] + 1 /\ \A h \in Locked!Goroutine : h # g => pc'[h] = pc[h]
  BY <1>1, <1>2, AccessKeepsLock
<1>4. /\ seen' \in [Locked!Goroutine -> [num : Nat, balance : Int]]
      /\ seen'[g].balance = balance /\ seen'[g].num = seen[g].num
      /\ \A h \in Locked!Goroutine : h # g => seen'[h] = seen[h]
  BY <1>2 DEF LockTypes
<1>5. LockTypes'
  BY <1>2, <1>3, <1>4 DEF LockTypes
<1>6. AccountInv'
  <2>1. Counted' = Counted /\ Booked' = Booked
    BY <1>1, <1>3, Goroutines DEF Counted, Booked
  <2>2. \A h \in Locked!Writers : /\ pc'[h] = 4 => seen'[h].num = num'
                                  /\ pc'[h] = 6 => seen'[h].balance = balance'
    BY <1>1, <1>2, <1>3, <1>4, Goroutines DEF AccountInv
  <2>3. \A h \in Checks : /\ pc'[h] \in {3, 4} => seen'[h].num = num'
                          /\ pc'[h] = 4 => seen'[h].balance = balance'
    BY <1>1, <1>2, <1>3, <1>4, Goroutines DEF AccountInv
  <2> QED
    BY <1>2, <2>1, <2>2, <2>3 DEF AccountInv
<1>7. JoinInv'
  BY <1>1, <1>2, <1>3, Goroutines, JoinFrame DEF Last
<1> QED
  BY <1>3, <1>5, <1>6, <1>7

\* A writer that is inside is the only one, and no reader is.
LEMMA WriterIsAlone ==
  ASSUME RWInv, NEW g \in Locked!Writers, pc[g] \in 3..7
  PROVE  /\ \A h \in Locked!Writers : h # g => pc[h] \notin 2..7
         /\ \A h \in Checks : pc[h] \notin 2..4
<1>1. writer = g /\ readers = {}
  BY DEF RWInv, LockInv
<1> QED
  BY <1>1 DEF RWInv, LockInv

LEMMA StoreNumKeeps ==
  ASSUME RWInv, NEW g \in Locked!Goroutine, Locked!StoreNum(g)
  PROVE  RWInv' /\ num' = num + 1
<1> USE DEF RWInv
<1>1. g \in Locked!Writers /\ pc[g] = 4
  <2>1. Locked!At(g, "StoreNum")
    BY DEF Locked!StoreNum
  <2>2. g \notin Checks
    BY <2>1, CallsOfCheck
  <2> QED
    BY <2>1, <2>2, Goroutines, CallsOfWriter
<1>2. /\ pc' = [h \in Locked!Goroutine |-> IF h \in {g} THEN pc[h] + 1 ELSE pc[h]]
      /\ num' = seen[g].num + 1
      /\ UNCHANGED <<writer, readers, waiting, balance, seen, sign, main, i, local>>
  BY DEF Locked!StoreNum, Locked!Advance, Locked!lockVars, Locked!mainVars
<1>3. /\ LockInv' /\ pc' \in [Locked!Goroutine -> 0..9] /\ \A h \in Checks : pc'[h] <= 6
      /\ pc'[g] = 5 /\ \A h \in Locked!Goroutine : h # g => pc'[h] = pc[h]
  BY <1>1, <1>2, Goroutines, AccessKeepsLock
<1>4. num' = num + 1 /\ num \in Nat
  BY <1>1, <1>2 DEF AccountInv, LockTypes
<1>5. LockTypes'
  BY <1>2, <1>3, <1>4 DEF LockTypes
<1>6. /\ \A h \in Locked!Writers : h # g => pc'[h] \notin 2..7
      /\ \A h \in Checks : pc'[h] \notin 2..4
  BY <1>1, <1>3, WriterIsAlone, Goroutines
<1>7. AccountInv'
  <2>1. Counted' = Counted \cup {g} /\ g \notin Counted /\ Booked' = Booked
    BY <1>1, <1>3, Goroutines DEF Counted, Booked
  <2>2. Cardinality(Counted') = Cardinality(Counted) + 1
    <3>1. IsFiniteSet(Counted)
      BY GoroutinesLaunched, Goroutines, FS_Subset DEF Counted
    <3> QED
      BY <2>1, <3>1, FS_AddElement
  <2>3. \A h \in Locked!Writers : pc'[h] # 4 /\ pc'[h] # 6
    BY <1>3, <1>6
  <2>4. \A h \in Checks : pc'[h] # 3 /\ pc'[h] # 4
    BY <1>6
  <2> QED
    BY <1>2, <1>4, <2>1, <2>2, <2>3, <2>4 DEF AccountInv
<1>8. JoinInv'
  BY <1>1, <1>2, <1>3, Goroutines, JoinFrame DEF Last
<1> QED
  BY <1>3, <1>4, <1>5, <1>7, <1>8

\* The amounts add up to a sum over the writers that have stored.
LEMMA MovedIsSum ==
  ASSUME NEW S \in SUBSET Locked!Writers
  PROVE  /\ Locked!Moved(S) = Sum(Locked!Value, S)
         /\ Locked!Moved(S) \in Int
         /\ \A g \in Locked!Writers \ S : Locked!Moved(S \cup {g}) = Locked!Moved(S) + Locked!Value[g]
<1>1. \A T \in SUBSET Locked!Writers : Locked!Moved(T) = Sum(Locked!Value, T)
  BY DEF Locked!Moved, Sum, MapThenSumSet, MapThenFoldSet, Locked!MapThenSumSet,
     Locked!MapThenFoldSet
<1>2. IsFiniteSet(S)
  BY GoroutinesLaunched, Goroutines, FS_Subset
<1>3. \A g \in Locked!Writers : Locked!Value[g] \in Int
  BY DEF Locked!Value
<1>4. Sum(Locked!Value, S) \in Int
  BY <1>2, <1>3, SumType
<1>5. ASSUME NEW g \in Locked!Writers \ S
      PROVE  Locked!Moved(S \cup {g}) = Locked!Moved(S) + Locked!Value[g]
  <2>1. \A h \in S \cup {g} : Locked!Value[h] \in Int
    BY <1>3
  <2>2. Sum(Locked!Value, S \cup {g}) = Sum(Locked!Value, S) + Locked!Value[g]
    BY <1>2, <2>1, SumAdd
  <2>3. Locked!Moved(S \cup {g}) = Sum(Locked!Value, S \cup {g})
        /\ Locked!Moved(S) = Sum(Locked!Value, S)
    BY <1>1
  <2> QED
    BY <2>2, <2>3
<1> QED
  BY <1>1, <1>4, <1>5

LEMMA StoreBalanceKeeps ==
  ASSUME RWInv, NEW g \in Locked!Goroutine, Locked!StoreBalance(g)
  PROVE  RWInv' /\ balance' = balance + Locked!Value[g]
<1> USE DEF RWInv
<1>1. g \in Locked!Writers /\ pc[g] = 6
  <2>1. Locked!At(g, "StoreBalance")
    BY DEF Locked!StoreBalance
  <2>2. g \notin Checks
    BY <2>1, CallsOfCheck
  <2> QED
    BY <2>1, <2>2, Goroutines, CallsOfWriter
<1>2. /\ pc' = [h \in Locked!Goroutine |-> IF h \in {g} THEN pc[h] + 1 ELSE pc[h]]
      /\ balance' = seen[g].balance + Locked!Value[g]
      /\ UNCHANGED <<writer, readers, waiting, num, seen, sign, main, i, local>>
  BY DEF Locked!StoreBalance, Locked!Advance, Locked!lockVars, Locked!mainVars
<1>3. /\ LockInv' /\ pc' \in [Locked!Goroutine -> 0..9] /\ \A h \in Checks : pc'[h] <= 6
      /\ pc'[g] = 7 /\ \A h \in Locked!Goroutine : h # g => pc'[h] = pc[h]
  BY <1>1, <1>2, Goroutines, AccessKeepsLock
<1>4. balance' = balance + Locked!Value[g] /\ balance \in Int /\ Locked!Value[g] \in Int
  BY <1>1, <1>2 DEF AccountInv, LockTypes, Locked!Value
<1>5. LockTypes'
  BY <1>2, <1>3, <1>4 DEF LockTypes
<1>6. /\ \A h \in Locked!Writers : h # g => pc'[h] \notin 2..7
      /\ \A h \in Checks : pc'[h] \notin 2..4
  BY <1>1, <1>3, WriterIsAlone, Goroutines
<1>7. AccountInv'
  <2>1. Counted' = Counted /\ Booked' = Booked \cup {g} /\ g \notin Booked
    BY <1>1, <1>3, Goroutines DEF Counted, Booked
  <2>2. Locked!Moved(Booked \cup {g}) = Locked!Moved(Booked) + Locked!Value[g]
        /\ Locked!Moved(Booked) \in Int
    BY <1>1, <2>1, MovedIsSum DEF Booked
  <2>3. balance' = Opening + Locked!Moved(Booked')
    <3>1. balance = Opening + Locked!Moved(Booked)
      BY DEF AccountInv
    <3> QED
      BY <1>4, <2>1, <2>2, <3>1, GoroutineDemosAssumption
  <2>4. \A h \in Locked!Writers : pc'[h] # 4 /\ pc'[h] # 6
    BY <1>3, <1>6
  <2>5. \A h \in Checks : pc'[h] # 3 /\ pc'[h] # 4
    BY <1>6
  <2> QED
    BY <1>2, <2>1, <2>3, <2>4, <2>5 DEF AccountInv
<1>8. JoinInv'
  BY <1>1, <1>2, <1>3, Goroutines, JoinFrame DEF Last
<1> QED
  BY <1>3, <1>4, <1>5, <1>7, <1>8

-----------------------------------------------------------------------------
(* The join *)

\* A sign is sent once, by a goroutine at its end.
LEMMA SignKeeps ==
  ASSUME RWInv, NEW g \in Locked!Goroutine, Locked!Sign(g)
  PROVE  RWInv'
<1> USE DEF RWInv
<1>1. pc[g] + 1 = Last(g) /\ (g \in Locked!Writers => pc[g] = 8) /\ (g \in Checks => pc[g] = 5)
  <2>1. Locked!At(g, "Sign")
    BY DEF Locked!Sign
  <2> QED
    BY <2>1, CallsOfWriter, CallsOfCheck, Goroutines DEF Last
<1>2. /\ pc' = [h \in Locked!Goroutine |-> IF h \in {g} THEN pc[h] + 1 ELSE pc[h]]
      /\ sign < SignCap /\ sign' = sign + 1
      /\ UNCHANGED <<writer, readers, waiting, num, balance, seen, main, i, local>>
  BY DEF Locked!Sign, Locked!Advance, Locked!lockVars, Locked!dataVars, Locked!mainVars
<1>3. pc'[g] = Last(g) /\ \A h \in Locked!Goroutine : h # g => pc'[h] = pc[h]
  BY <1>1, <1>2
<1>4. LockTypes'
  <2>1. pc' \in [Locked!Goroutine -> 0..9]
    <3>1. pc'[g] \in 0..9
      BY <1>1, <1>3, Goroutines
    <3> QED
      BY <1>2, <1>3, <3>1 DEF LockTypes
  <2>2. \A h \in Checks : pc'[h] <= 6
    BY <1>1, <1>3, Goroutines DEF LockTypes
  <2>3. sign' \in 0..SignCap
    BY <1>2, GoroutineDemosAssumption DEF LockTypes
  <2> QED
    BY <1>2, <2>1, <2>2, <2>3 DEF LockTypes
<1>5. LockInv'
  <2>1. \A h \in Locked!Writers : (pc'[h] \in 2..7 <=> pc[h] \in 2..7) /\ (pc'[h] \in 3..7 <=> pc[h] \in 3..7)
    BY <1>1, <1>3, Goroutines DEF Last
  <2>2. \A h \in Checks : pc'[h] \in 2..4 <=> pc[h] \in 2..4
    BY <1>1, <1>3, Goroutines DEF Last
  <2>3. \A h \in waiting : pc'[h] = 1
    BY <1>1, <1>3, Goroutines DEF LockInv, LockTypes
  <2> QED
    BY <1>2, <2>1, <2>2, <2>3 DEF LockInv
<1>6. AccountInv'
  <2>1. \A h \in Locked!Writers : /\ pc'[h] >= 5 <=> pc[h] >= 5
                                  /\ pc'[h] >= 7 <=> pc[h] >= 7
                                  /\ pc'[h] \in {4, 6} => pc'[h] = pc[h] /\ seen'[h] = seen[h]
    BY <1>1, <1>2, <1>3, Goroutines DEF Last
  <2>2. \A h \in Checks : pc'[h] \in {3, 4} => pc'[h] = pc[h] /\ seen'[h] = seen[h]
    BY <1>1, <1>2, <1>3, Goroutines DEF Last
  <2> QED
    BY <1>2, <2>1, <2>2, AccountFrame
<1>7. JoinInv'
  <2>1. Signed' = Signed \cup {g} /\ g \notin Signed
    BY <1>1, <1>3, Goroutines DEF Signed, Last
  <2>2. Cardinality(Signed') = Cardinality(Signed) + 1 /\ Cardinality(Signed) \in Nat
    <3>1. IsFiniteSet(Signed)
      BY GoroutinesLaunched, FS_Subset DEF Signed
    <3> QED
      BY <2>1, <3>1, FS_AddElement, FS_CardinalityType
  <2>3. Received' = Received /\ sign \in Nat
    BY <1>2, GoroutineDemosAssumption DEF Received, LockTypes
  <2>4. Received \in Int
    BY GoroutineDemosAssumption DEF Received, JoinInv
  <2>5. sign' + Received' = Cardinality(Signed')
    BY <1>2, <2>2, <2>3, <2>4 DEF JoinInv
  <2>6. \A h \in Locked!Goroutine : pc[h] = 0 => pc'[h] = 0
    BY <1>1, <1>3, Goroutines
  <2>7. \A h \in Locked!Goroutine : Locked!LaunchOrder(h)' = Locked!LaunchOrder(h)
    BY DEF Locked!LaunchOrder
  <2> QED
    BY <1>2, <2>5, <2>6, <2>7 DEF JoinInv
<1> QED
  BY <1>4, <1>5, <1>6, <1>7

\* What main does changes no lock and no account.
LEMMA MainKeepsAccount ==
  ASSUME RWInv, UNCHANGED <<writer, readers, waiting, num, balance, seen>>,
         pc' \in [Locked!Goroutine -> 0..9],
         \A g \in Locked!Goroutine : pc'[g] = pc[g] \/ (pc[g] = 0 /\ pc'[g] = 1)
  PROVE  LockInv' /\ AccountInv'
<1> USE DEF RWInv
<1>1. \A g \in Locked!Writers : /\ pc'[g] \in 2..7 <=> pc[g] \in 2..7
                                /\ pc'[g] \in 3..7 <=> pc[g] \in 3..7
                                /\ pc'[g] >= 5 <=> pc[g] >= 5
                                /\ pc'[g] >= 7 <=> pc[g] >= 7
                                /\ pc'[g] \in {4, 6} => pc'[g] = pc[g]
  BY Goroutines
<1>2. \A g \in Checks : /\ pc'[g] \in 2..4 <=> pc[g] \in 2..4
                        /\ pc'[g] \in {3, 4} => pc'[g] = pc[g]
  BY Goroutines
<1>3. \A g \in waiting : pc'[g] = 1
  BY Goroutines DEF LockInv, LockTypes
<1>4. LockInv'
  BY <1>1, <1>2, <1>3 DEF LockInv
<1>5. AccountInv'
  BY <1>1, <1>2, AccountFrame
<1> QED
  BY <1>4, <1>5

LEMMA LaunchKeeps ==
  ASSUME RWInv, Locked!Launch
  PROVE  RWInv'
<1> USE DEF RWInv
<1>1. PICK g \in Locked!Goroutine : Locked!LaunchOrder(g) = i /\ pc' = [pc EXCEPT ![g] = 1]
  BY DEF Locked!Launch
<1>2. /\ main = "launch"
      /\ UNCHANGED <<writer, readers, waiting, num, balance, seen, sign, local>>
      /\ IF i < 3 * N THEN i' = i + 1 /\ main' = main ELSE i' = 1 /\ main' = "receive"
  BY DEF Locked!Launch, Locked!lockVars, Locked!dataVars
<1>3. i \in 1..(3 * N) /\ N \in Nat \ {0} /\ 3 * N \in Nat
  BY <1>2, GoroutineDemosAssumption DEF JoinInv
<1>4. pc[g] = 0
  BY <1>1, <1>2, <1>3 DEF JoinInv
<1>5. pc' \in [Locked!Goroutine -> 0..9] /\ pc'[g] = 1
      /\ \A h \in Locked!Goroutine : h # g => pc'[h] = pc[h]
  BY <1>1 DEF LockTypes
<1>6. LockTypes'
  <2>1. \A h \in Checks : pc'[h] <= 6
    BY <1>5, Goroutines DEF LockTypes
  <2> QED
    BY <1>2, <1>5, <2>1 DEF LockTypes
<1>7. LockInv' /\ AccountInv'
  BY <1>2, <1>4, <1>5, MainKeepsAccount
<1>8. JoinInv'
  <2>1. Signed' = Signed
    BY <1>4, <1>5 DEF Signed, Last
  <2>2. Received = 0 /\ Received' = 0
    BY <1>2 DEF Received
  <2>3. sign' + Received' = Cardinality(Signed')
    BY <1>2, <2>1, <2>2 DEF JoinInv
  <2>4. main' \in {"launch", "receive"} /\ i' \in 1..(3 * N) /\ local' = "free"
    BY <1>2, <1>3 DEF JoinInv
  <2>5. ASSUME main' = "launch", NEW h \in Locked!Goroutine, Locked!LaunchOrder(h)' >= i'
        PROVE  pc'[h] = 0
    <3>1. Locked!LaunchOrder(h)' = Locked!LaunchOrder(h)
      BY DEF Locked!LaunchOrder
    <3>2. i' = i + 1
      BY <1>2, <2>5
    <3>3. Locked!LaunchOrder(h) \in Int
      <4>1. h[2] \in Int /\ h[1] \in {"withdraw", "deposit", "check"}
        BY DEF Locked!Goroutine
      <4> QED
        BY <4>1 DEF Locked!LaunchOrder
    <3>4. Locked!LaunchOrder(h) >= i /\ Locked!LaunchOrder(h) # i
      BY <1>3, <2>5, <3>1, <3>2, <3>3
    <3> QED
      BY <1>1, <1>2, <1>5, <3>4 DEF JoinInv
  <2> QED
    BY <2>3, <2>4, <2>5 DEF JoinInv
<1> QED
  BY <1>6, <1>7, <1>8

LEMMA ReceiveKeeps ==
  ASSUME RWInv, Locked!Receive
  PROVE  RWInv'
<1> USE DEF RWInv
<1>1. /\ main = "receive" /\ sign > 0 /\ sign' = sign - 1
      /\ UNCHANGED <<writer, readers, waiting, num, balance, seen, pc, local>>
      /\ IF i < 3 * N THEN i' = i + 1 /\ main' = main ELSE i' = 1 /\ main' = "redundantUnlock"
  BY DEF Locked!Receive, Locked!lockVars, Locked!dataVars
<1>2. i \in 1..(3 * N) /\ N \in Nat \ {0} /\ 3 * N \in Nat /\ sign \in 0..SignCap /\ SignCap \in Nat
  BY <1>1, GoroutineDemosAssumption DEF JoinInv, LockTypes
<1>3. LockTypes'
  <2>1. sign' \in 0..SignCap
    BY <1>1, <1>2
  <2> QED
    BY <1>1, <2>1 DEF LockTypes
<1>4. LockInv' /\ AccountInv'
  BY <1>1, MainKeepsAccount DEF LockTypes
<1>5. JoinInv'
  <2>1. Signed' = Signed
    BY <1>1 DEF Signed, Last
  <2>2. Received = i - 1 /\ Received' = i
    BY <1>1, <1>2 DEF Received
  <2>3. sign' + Received' = Cardinality(Signed')
    BY <1>1, <1>2, <2>1, <2>2 DEF JoinInv
  <2>4. main' = "receive" => i' \in 1..(3 * N) /\ local' = "free"
    BY <1>1, <1>2 DEF JoinInv
  <2>5. main' \in {"receive", "redundantUnlock"}
    BY <1>1
  <2>6. main' = "redundantUnlock" => i' \in 1..4 /\ local' = <<"free", "read", "free", "write">>[i']
    <3>1. ASSUME main' = "redundantUnlock" PROVE i' = 1 /\ local' = local
      BY <1>1, <3>1
    <3>2. local = "free"
      BY <1>1 DEF JoinInv
    <3> QED
      BY <3>1, <3>2
  <2> QED
    BY <2>3, <2>4, <2>5, <2>6 DEF JoinInv
<1> QED
  BY <1>3, <1>4, <1>5

\* Each unlock of redundantUnlock finds its lock in its own mode.
LEMMA RedundantKeeps ==
  ASSUME RWInv, Locked!RedundantUnlock
  PROVE  RWInv'
<1> USE DEF RWInv
<1>1. /\ main = "redundantUnlock"
      /\ UNCHANGED <<writer, readers, waiting, num, balance, seen, pc, sign>>
  BY DEF Locked!RedundantUnlock, Locked!lockVars, Locked!dataVars
<1>2. /\ Len(Locked!redundantUnlock) = 4
      /\ Locked!redundantUnlock[1] = "RLock" /\ Locked!redundantUnlock[2] = "RUnlock"
      /\ Locked!redundantUnlock[3] = "Lock" /\ Locked!redundantUnlock[4] = "Unlock"
  BY DEF Locked!redundantUnlock
<1>3. \/ i = 1 /\ local = "free"
      \/ i = 2 /\ local = "read"
      \/ i = 3 /\ local = "free"
      \/ i = 4 /\ local = "write"
  <2>1. i \in 1..4 /\ local = <<"free", "read", "free", "write">>[i]
    BY <1>1 DEF JoinInv
  <2>2. i = 1 \/ i = 2 \/ i = 3 \/ i = 4
    BY <2>1
  <2> QED
    BY <2>1, <2>2
<1>4. \/ i = 1 /\ local' = "read" /\ main' = "redundantUnlock" /\ i' = 2
      \/ i = 2 /\ local' = "free" /\ main' = "redundantUnlock" /\ i' = 3
      \/ i = 3 /\ local' = "write" /\ main' = "redundantUnlock" /\ i' = 4
      \/ i = 4 /\ local' = "free" /\ main' = "exit" /\ i' = 4
  <2>1. CASE i = 1
    BY <1>1, <1>2, <2>1 DEF Locked!RedundantUnlock
  <2>2. CASE i = 2
    BY <1>1, <1>2, <1>3, <2>2 DEF Locked!RedundantUnlock
  <2>3. CASE i = 3
    BY <1>1, <1>2, <2>3 DEF Locked!RedundantUnlock
  <2>4. CASE i = 4
    BY <1>1, <1>2, <1>3, <2>4 DEF Locked!RedundantUnlock
  <2> QED
    BY <1>3, <2>1, <2>2, <2>3, <2>4
<1>5. LockTypes'
  BY <1>1, <1>4 DEF LockTypes
<1>6. LockInv' /\ AccountInv'
  BY <1>1, MainKeepsAccount DEF LockTypes
<1>7. JoinInv'
  <2>1. Signed' = Signed
    BY <1>1 DEF Signed, Last
  <2>2. Received = 3 * N /\ Received' = 3 * N
    BY <1>1, <1>4 DEF Received
  <2>3. sign' + Received' = Cardinality(Signed')
    BY <1>1, <2>1, <2>2 DEF JoinInv
  <2>4. main' = "redundantUnlock" => i' \in 1..4 /\ local' = <<"free", "read", "free", "write">>[i']
    BY <1>4
  <2>5. main' \in {"redundantUnlock", "exit"} /\ (main' = "exit" => i' = 4)
    BY <1>4
  <2> QED
    BY <2>3, <2>4, <2>5 DEF JoinInv
<1> QED
  BY <1>5, <1>6, <1>7

LEMMA LockedKept == LockedInv /\ [Next]_vars => LockedInv'
<1> SUFFICES ASSUME LockedInv, [Next]_vars, running' = "RWAccount" PROVE RWInv'
  BY DEF LockedInv
<1>0. ASSUME RWInv, UNCHANGED <<accountVars, pc, i, seen>> PROVE RWInv'
  <2> USE <1>0 DEF RWInv, accountVars
  <2>1. LockTypes'
    BY DEF LockTypes
  <2>2. LockInv'
    BY DEF LockInv
  <2>3. AccountInv'
    BY AccountFrame
  <2>4. JoinInv'
    BY JoinFrame
  <2> QED
    BY <2>1, <2>2, <2>3, <2>4
<1>1. CASE OfAccount(Locked!Next)
  <2>1. RWInv /\ Locked!Next
    BY <1>1 DEF OfAccount, LockedInv
  <2>2. CASE Locked!Terminated
    <3>1. UNCHANGED <<accountVars, pc, i, seen>>
      BY <2>2 DEF Locked!Terminated, Locked!vars, Locked!lockVars, Locked!dataVars, Locked!mainVars,
           accountVars
    <3> QED
      BY <1>0, <2>1, <3>1
  <2>3. CASE Locked!Main
    BY <2>1, <2>3, LaunchKeeps, ReceiveKeeps, RedundantKeeps DEF Locked!Main
  <2>4. ASSUME NEW g \in Locked!Goroutine, Locked!Step(g) PROVE RWInv'
    BY <2>1, <2>4, RLockKeeps, RUnlockKeeps, LockKeeps, EnterKeeps, UnlockKeeps, LoadNumKeeps,
       StoreNumKeeps, LoadBalanceKeeps, StoreBalanceKeeps, SignKeeps DEF Locked!Step
  <2> QED
    BY <2>1, <2>2, <2>3, <2>4 DEF Locked!Next
<1>2. CASE UNCHANGED vars
  BY <1>0, <1>2 DEF vars, LockedInv
<1>3. CASE OfLoop(Loops!Next) \/ OfBox(Boxed!Next) \/ OfSlice(Sliced!Next)
  BY <1>3 DEF OfLoop, OfBox, OfSlice
<1> QED
  BY <1>1, <1>2, <1>3 DEF Next

LEMMA LockedInvariant == Spec => []LockedInv
BY LockedStart, LockedKept, PTL DEF Spec

-----------------------------------------------------------------------------
(* What a reader sees *)

\* A reader inside, and main after the join, find every writer before its
\* first store or after its last one.
LEMMA SeenIsWhole == RWInv => Locked!WholeUpdatesSeen
<1> SUFFICES ASSUME RWInv PROVE Locked!WholeUpdatesSeen
  OBVIOUS
<1> USE DEF RWInv
<1>1. ASSUME NEW n \in 1..N, Locked!Printed(<<"check", n>>)
      PROVE  \E S \in SUBSET Locked!Writers :
               Locked!After(S, seen[<<"check", n>>].num, seen[<<"check", n>>].balance)
  <2> DEFINE g == <<"check", n>>
  <2>1. g \in Checks /\ g \in Locked!Goroutine
    BY DEF Checks, Locked!Goroutine
  <2> HIDE DEF g
  <2>2. pc[g] = 4
    <3>1. Locked!Body(g) = <<"RLock", "LoadNum", "LoadBalance", "RUnlock", "Sign">>
      BY <2>1 DEF Checks, Locked!Body, Locked!check
    <3>2. pc[g] - 1 \in 1..5 /\ Locked!Body(g)[pc[g] - 1] = "LoadBalance" /\ pc[g] \in 0..9
      BY <1>1, <2>1, <3>1 DEF Locked!Printed, g, LockTypes
    <3>3. \/ pc[g] - 1 = 1 \/ pc[g] - 1 = 2 \/ pc[g] - 1 = 3 \/ pc[g] - 1 = 4 \/ pc[g] - 1 = 5
      BY <3>2
    <3>4. pc[g] - 1 = 3
      BY <3>1, <3>2, <3>3
    <3> QED
      BY <3>2, <3>4
  <2>3. \A h \in Locked!Writers : pc[h] \notin 3..7
    BY <2>1, <2>2 DEF LockInv
  <2>4. Counted = Booked
    BY <2>3, Goroutines DEF Counted, Booked, LockTypes
  <2>5. seen[g].num = Cardinality(Booked) /\ seen[g].balance = Opening + Locked!Moved(Booked)
    BY <2>1, <2>2, <2>4 DEF AccountInv
  <2>6. Locked!After(Booked, seen[g].num, seen[g].balance)
    BY <2>5 DEF Locked!After, Locked!Cardinality, Cardinality
  <2>7. Booked \in SUBSET Locked!Writers
    BY DEF Booked
  <2> QED
    BY <2>6, <2>7 DEF g
<1>2. ASSUME main \in {"redundantUnlock", "exit"}
      PROVE  Locked!After(Locked!Writers, num, balance)
  <2>1. Signed \subseteq Locked!Goroutine
    BY DEF Signed
  <2>2. IsFiniteSet(Signed) /\ Cardinality(Signed) \in Nat /\ Cardinality(Signed) <= 3 * N
    BY <2>1, GoroutinesLaunched, FS_Subset, FS_CardinalityType
  <2>3. sign + 3 * N = Cardinality(Signed) /\ sign \in Nat /\ 3 * N \in Nat
    BY <1>2, GoroutineDemosAssumption DEF JoinInv, Received, LockTypes
  <2>4. Cardinality(Signed) = 3 * N
    BY <2>2, <2>3
  <2>5. Signed = Locked!Goroutine
    BY <2>1, <2>4, GoroutinesLaunched, FS_Subset
  <2>6. \A g \in Locked!Writers : pc[g] = 9
    BY <2>5, Goroutines DEF Signed, Last
  <2>7. Counted = Locked!Writers /\ Booked = Locked!Writers
    BY <2>6 DEF Counted, Booked
  <2> QED
    BY <2>7 DEF AccountInv, Locked!After, Locked!Cardinality, Cardinality
<1> QED
  BY <1>1, <1>2 DEF Locked!WholeUpdatesSeen

\* A check of demo_rwmutex.go that prints the account, and main after the
\* join, show the count and the balance after the same operations, for any
\* number of iterations and any capacity of the channel (lines 18-54, 70-75).
THEOREM ReadersSeeWholeUpdates == Spec => []WholeUpdatesSeen
<1>1. LockedInv => WholeUpdatesSeen
  BY SeenIsWhole DEF LockedInv, WholeUpdatesSeen
<1> QED
  BY <1>1, LockedInvariant, PTL

\* No writer of demo_rwmutex.go overwrites what another has stored: between
\* its read of a field and its write nobody else writes it (28-54).
THEOREM NoUpdateOverwritten == Spec => ExactUpdate
<1>1. LockedInv /\ [Next]_vars => [running = "RWAccount" => Locked!ExactStep]_vars
  <2> SUFFICES ASSUME LockedInv, running = "RWAccount" PROVE Locked!ExactStep
    OBVIOUS
  <2>1. RWInv
    BY DEF LockedInv
  <2> SUFFICES ASSUME NEW g \in Locked!Writers
               PROVE  /\ Locked!StoreNum(g) => num' = num + 1
                      /\ Locked!StoreBalance(g) => balance' = balance + Locked!Value[g]
    BY DEF Locked!ExactStep
  <2> QED
    BY <2>1, Goroutines, StoreNumKeeps, StoreBalanceKeeps
<1> QED
  BY <1>1, LockedInvariant, PTL DEF Spec, ExactUpdate

\* No unlock of demo_rwmutex.go finds its lock free or held in the other mode:
\* the aborts that redundantUnlock warns of (96-108) do not happen.
THEOREM UnlocksInTheirMode == Spec => [](running = "RWAccount" => main # "panic")
<1>1. LockedInv => (running = "RWAccount" => main # "panic")
  BY DEF LockedInv, RWInv, JoinInv
<1> QED
  BY <1>1, LockedInvariant, PTL

\* The variables of the account and of the atomic values have their types.
THEOREM TypeCorrect == Spec => []TypeOK
<1>1. ASSUME RWInv PROVE Locked!TypeOK
  <2> USE <1>1 DEF RWInv
  <2>1. \A g \in Locked!Goroutine : pc[g] \in 0..(Len(Locked!Body(g)) + 1)
    <3>1. ASSUME NEW g \in Locked!Writers PROVE Len(Locked!Body(g)) = 8 /\ pc[g] \in 0..9
      BY Goroutines DEF Locked!Writers, Locked!Body, Locked!withdraw, Locked!deposit, LockTypes
    <3>2. ASSUME NEW g \in Checks PROVE Len(Locked!Body(g)) = 5 /\ pc[g] \in 0..6
      BY Goroutines DEF Checks, Locked!Body, Locked!check, LockTypes
    <3> SUFFICES ASSUME NEW g \in Locked!Goroutine PROVE pc[g] \in 0..(Len(Locked!Body(g)) + 1)
      OBVIOUS
    <3>3. CASE g \in Locked!Writers
      <4>1. Len(Locked!Body(g)) = 8 /\ pc[g] \in 0..9
        BY <3>1, <3>3
      <4>2. Len(Locked!Body(g)) + 1 = 9
        BY <4>1
      <4> QED
        BY <4>1, <4>2, Zenon
    <3>4. CASE g \in Checks
      <4>1. Len(Locked!Body(g)) = 5 /\ pc[g] \in 0..6
        BY <3>2, <3>4
      <4>2. Len(Locked!Body(g)) + 1 = 6
        BY <4>1
      <4> QED
        BY <4>1, <4>2, Zenon
    <3> QED
      BY <3>3, <3>4, Goroutines
  <2>2. i \in 1..(IF main \in {"launch", "receive"} THEN 3 * N ELSE Len(Locked!redundantUnlock))
    <3>1. Len(Locked!redundantUnlock) = 4
      BY DEF Locked!redundantUnlock
    <3> QED
      BY <3>1 DEF JoinInv
  <2>3. main \in {"launch", "receive", "redundantUnlock", "exit", "panic"}
    BY DEF JoinInv
  <2>4. readers \subseteq Locked!Goroutine /\ waiting \subseteq Locked!Goroutine
    BY Goroutines DEF LockTypes
  <2> QED
    BY <2>1, <2>2, <2>3, <2>4 DEF Locked!TypeOK, LockTypes, LockInv
<1>2. LockedInv /\ BoxesInv => TypeOK
  BY <1>1 DEF LockedInv, BoxesInv, BoxInv, TypeOK
<1> QED
  BY <1>2, LockedInvariant, BoxesInvariant, PTL
=============================================================================
