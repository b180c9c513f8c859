--------------------------- MODULE GoroutineDemos ---------------------------
(***************************************************************************)
(* The programs of goroutine/ whose goroutines share variables, with a     *)
(* lock, with an atomic.Value or with nothing: demo_rwmutex.go (RWAccount),*)
(* test_goroutine.go and demo2.go (LaunchLoops), and demo_atomic.go        *)
(* (AtomicBox and SliceBox). One of them runs, and a variable that several *)
(* of the modules declare stands for the variable of the one that runs;    *)
(* those of the others keep the value Unused.                              *)
(***************************************************************************)
EXTENDS Integers, Sequences

CONSTANTS N, SignCap, Opening, NoOne,   \* of demo_rwmutex.go
          Launches,                     \* num of test_goroutine.go and demo2.go
          Clients, MaxStores,           \* of the atomicValue
          Readers,                      \* of the stored slice
          Unused

ASSUME GoroutineDemosAssumption ==
  /\ N \in Nat \ {0} /\ SignCap \in Nat /\ Opening \in Int
  /\ NoOne \notin {"withdraw", "deposit", "check"} \X (1..N)
  /\ Launches \in Nat /\ MaxStores \in Nat

VARIABLES running,
          writer, readers, waiting, num, balance, sign, main, local,   \* RWAccount
          perIteration, received, printed, count1, shown,              \* LaunchLoops
          boxes, t, arg, calls, succeeded, panicked,                   \* AtomicBox
          v6, heap, box6, stored, copied, loaded,                      \* SliceBox
          pc, i,                               \* RWAccount and LaunchLoops
          prog,                                \* LaunchLoops and AtomicBox
          step,                                \* AtomicBox and SliceBox
          seen                                 \* RWAccount and SliceBox

accountVars == <<writer, readers, waiting, num, balance, sign, main, local>>
loopVars == <<perIteration, received, printed, count1, shown>>
boxVars == <<boxes, t, arg, calls, succeeded, panicked>>
sliceVars == <<v6, heap, box6, stored, copied, loaded>>
vars == <<running, accountVars, loopVars, boxVars, sliceVars, pc, i, prog, step, seen>>

Locked == INSTANCE RWAccount
Loops == INSTANCE LaunchLoops WITH num <- Launches
Boxed == INSTANCE AtomicBox
Sliced == INSTANCE SliceBox

-----------------------------------------------------------------------------

AccountUnused ==
  /\ writer = Unused /\ readers = Unused /\ waiting = Unused /\ num = Unused
  /\ balance = Unused /\ sign = Unused /\ main = Unused /\ local = Unused

LoopUnused ==
  /\ perIteration = Unused /\ received = Unused /\ printed = Unused
  /\ count1 = Unused /\ shown = Unused

BoxUnused ==
  /\ boxes = Unused /\ t = Unused /\ arg = Unused
  /\ calls = Unused /\ succeeded = Unused /\ panicked = Unused

SliceUnused ==
  /\ v6 = Unused /\ heap = Unused /\ box6 = Unused
  /\ stored = Unused /\ copied = Unused /\ loaded = Unused

Init ==
  \/ /\ running = "RWAccount" /\ Locked!Init
     /\ LoopUnused /\ BoxUnused /\ SliceUnused /\ prog = Unused /\ step = Unused
  \/ /\ running = "LaunchLoops" /\ Loops!Init
     /\ AccountUnused /\ BoxUnused /\ SliceUnused /\ step = Unused /\ seen = Unused
  \/ /\ running = "AtomicBox" /\ Boxed!Init
     /\ AccountUnused /\ LoopUnused /\ SliceUnused
     /\ pc = Unused /\ i = Unused /\ seen = Unused
  \/ /\ running = "SliceBox" /\ Sliced!Init
     /\ AccountUnused /\ LoopUnused /\ BoxUnused
     /\ pc = Unused /\ i = Unused /\ prog = Unused

\* A is a step of the program that runs, a program of this module.
OfAccount(A) ==
  running = "RWAccount" /\ A /\ UNCHANGED <<running, loopVars, boxVars, sliceVars, prog, step>>
OfLoop(A) ==
  running = "LaunchLoops" /\ A /\ UNCHANGED <<running, accountVars, boxVars, sliceVars, step, seen>>
OfBox(A) ==
  running = "AtomicBox" /\ A /\ UNCHANGED <<running, accountVars, loopVars, sliceVars, pc, i, seen>>
OfSlice(A) ==
  running = "SliceBox" /\ A /\ UNCHANGED <<running, accountVars, loopVars, boxVars, pc, i, prog>>

Next ==
  OfAccount(Locked!Next) \/ OfLoop(Loops!Next) \/ OfBox(Boxed!Next) \/ OfSlice(Sliced!Next)

\* The fairness of each module.
Spec ==
  /\ Init /\ [][Next]_vars
  /\ WF_vars(OfAccount(Locked!Main))
  /\ \A g \in Locked!Goroutine : WF_vars(OfAccount(Locked!Step(g)))
  /\ WF_vars(OfLoop(Loops!Main))
  /\ \A g \in Loops!Goroutines : WF_vars(OfLoop(Loops!Step(g)))

-----------------------------------------------------------------------------
(* The properties of the modules, of the program that runs *)

TypeOK ==
  /\ running = "RWAccount" => Locked!TypeOK
  /\ running = "AtomicBox" => Boxed!TypeOK

\* A check of demo_rwmutex.go, and main at the end, print an operation count
\* and the balance after exactly that many operations (lines 18-54, 70-75).
WholeUpdatesSeen == running = "RWAccount" => Locked!WholeUpdatesSeen

\* No writer of demo_rwmutex.go overwrites the update of another (28-54).
ExactUpdate == [][running = "RWAccount" => Locked!ExactStep]_vars

\* An atomic.Value panics where demo_atomic.go announces it and nowhere else;
\* what is loaded has the type of the box, and of a slice that was stored as a
\* replica nobody sees anything but what was stored (12-48, 54-68, 118-150).
LoadsWhatWasStored ==
  /\ running = "AtomicBox" => Boxed!PanicsWhereAnnounced /\ Boxed!LoadIsTyped
  /\ running = "SliceBox" => Sliced!ReadsWhatWasStored

\* What goroutines that share a variable or a slice without a lock may print,
\* and that all have printed when main returns (test_goroutine.go:12-25,
\* demo2.go:10-14).
PrintsReached ==
  running = "LaunchLoops" => Loops!PrintsReached /\ Loops!AllPrinted /\ Loops!PrintsOwnElement

\* The goroutines with the lock and those without come to their ends, and so
\* does each main that has one: main of demo2.go sleeps for ever.
MainExits ==
  /\ <>(running = "RWAccount" => main = "exit")
  /\ <>(running = "LaunchLoops" => Loops!Ended)
=============================================================================
