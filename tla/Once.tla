-------------------------------- MODULE Once --------------------------------
(***************************************************************************)
(* goroutine/demo_do.go and goroutine/demo_once.go: examples that call     *)
(* sync.Once.Do from one or several goroutines. Each example, or phase,    *)
(* starts with a fresh Once (`once = sync.Once{}`, or a new variable),     *)
(* runs its callers and waits for all of them; it maps each caller to the  *)
(* functions the caller passes to Do, in order.                            *)
(*                                                                         *)
(* Do is the code of package sync that docs/golang/golang-concurrent-      *)
(* synchronization-for-sync-once.md:84-100 lists: an atomic load, then a   *)
(* mutex and a second test; `done` is stored by a deferred call, so that   *)
(* a panic of the function stores it as well.                              *)
(***************************************************************************)
EXTENDS Integers, Sequences, FiniteSets

CONSTANTS Program,     \* the sequence of phases
          Panics,      \* the functions that panic
          NoCaller

ASSUME OnceAssumption ==
  /\ Len(Program) \in Nat \ {0}
  /\ \A k \in 1..Len(Program) :
       /\ IsFiniteSet(DOMAIN Program[k]) /\ DOMAIN Program[k] # {}
       /\ NoCaller \notin DOMAIN Program[k]
       /\ \A c \in DOMAIN Program[k] :
            /\ Len(Program[k][c]) \in Nat \ {0}
            /\ \A n \in 1..Len(Program[k][c]) : Program[k][c][n] # NoCaller

VARIABLES phase,
          done, m,       \* the Once: its done flag and the holder of its mutex
          pc, call,      \* of each caller of the phase: where it is, in which Do
          started,       \* functions started in this phase, in order
          finished,      \* those that have returned or panicked
          wg             \* callers main still waits for

onceVars == <<done, m>>
logVars == <<started, finished>>
vars == <<phase, onceVars, pc, call, logVars, wg>>

Todo == Program[phase]
Callers == DOMAIN Todo
Fn(c) == Todo[c][call[c]]

TypeOK ==
  /\ phase \in 1..Len(Program)
  /\ done \in {0, 1} /\ m \in Callers \cup {NoCaller}
  /\ pc \in [Callers -> {"load", "lock", "recheck", "run", "running", "store",
                         "unlock", "return", "exit"}]
  /\ call \in [Callers -> Nat] /\ \A c \in Callers : call[c] \in 1..Len(Todo[c])
  /\ wg \in 0..Cardinality(Callers)

StartPhaseAddedTwice(k) ==
  LET callers == DOMAIN Program[k] IN
  /\ phase' = k
  /\ done' = 0 /\ m' = NoCaller
  /\ pc' = [c \in callers |-> "load"]
  /\ call' = [c \in callers |-> 1]
  /\ started' = <<>> /\ finished' = {}
  /\ wg' = 2 * Cardinality(callers)

\* wg.Add(n) and the go statements of phase k, on a Once of its own.
StartPhase(k) ==
  LET callers == DOMAIN Program[k] IN
  /\ phase' = k
  /\ done' = 0 /\ m' = NoCaller
  /\ pc' = [c \in callers |-> "load"]
  /\ call' = [c \in callers |-> 1]
  /\ started' = <<>> /\ finished' = {}
  /\ wg' = Cardinality(callers)

Init ==
  /\ phase = 1
  /\ done = 0 /\ m = NoCaller
  /\ pc = [c \in Callers |-> "load"]
  /\ call = [c \in Callers |-> 1]
  /\ started = <<>> /\ finished = {}
  /\ wg = Cardinality(Callers)

At(c, label) == c \in Callers /\ pc[c] = label

Goto(c, label) == pc' = [pc EXCEPT ![c] = label]

-----------------------------------------------------------------------------
(* once.Do(f) *)

\* if atomic.LoadUint32(&o.done) == 0 { o.doSlow(f) }
LoadDone(c) ==
  /\ At(c, "load")
  /\ Goto(c, IF done = 1 THEN "return" ELSE "lock")
  /\ UNCHANGED <<phase, onceVars, call, logVars, wg>>

\* o.m.Lock()
LockOnce(c) ==
  /\ At(c, "lock")
  /\ m = NoCaller
  /\ m' = c
  /\ Goto(c, "recheck")
  /\ UNCHANGED <<phase, done, call, logVars, wg>>

\* if o.done == 0, under the mutex
RecheckSkipped(c) ==
  /\ At(c, "recheck")
  /\ Goto(c, "run")
  /\ UNCHANGED <<phase, onceVars, call, logVars, wg>>

RecheckStoring(c) ==
  /\ At(c, "recheck")
  /\ Goto(c, IF done = 0 THEN "run" ELSE "unlock")
  /\ done' = 1
  /\ UNCHANGED <<phase, m, call, logVars, wg>>

Recheck(c) ==
  /\ At(c, "recheck")
  /\ Goto(c, IF done = 0 THEN "run" ELSE "unlock")
  /\ UNCHANGED <<phase, onceVars, call, logVars, wg>>

\* f() begins
Start(c) ==
  /\ At(c, "run")
  /\ started' = Append(started, Fn(c))
  /\ Goto(c, "running")
  /\ UNCHANGED <<phase, onceVars, call, finished, wg>>

\* f() returns or panics; either way the deferred store is next
Finish(c) ==
  /\ At(c, "running")
  /\ finished' = finished \cup {Fn(c)}
  /\ Goto(c, "store")
  /\ UNCHANGED <<phase, onceVars, call, started, wg>>

StoreMissing(c) ==
  /\ At(c, "store")
  /\ Goto(c, "unlock")
  /\ UNCHANGED <<phase, onceVars, call, logVars, wg>>

\* atomic.StoreUint32(&o.done, 1), deferred
StoreDone(c) ==
  /\ At(c, "store")
  /\ done' = 1
  /\ Goto(c, "unlock")
  /\ UNCHANGED <<phase, m, call, logVars, wg>>

\* o.m.Unlock(), deferred
UnlockForgotten(c) ==
  /\ At(c, "unlock")
  /\ Goto(c, "return")
  /\ UNCHANGED <<phase, onceVars, call, logVars, wg>>

UnlockOnce(c) ==
  /\ At(c, "unlock")
  /\ m' = NoCaller
  /\ Goto(c, "return")
  /\ UNCHANGED <<phase, done, call, logVars, wg>>

\* c's own function has panicked: the panic leaves Do and the caller recovers.
Panicking(c) == Fn(c) \in Panics /\ Fn(c) \in finished

\* Do has returned: the next Do, or the end of the caller and its wg.Done().
Return(c) ==
  /\ At(c, "return")
  /\ IF call[c] < Len(Todo[c]) /\ ~Panicking(c)
       THEN call' = [call EXCEPT ![c] = @ + 1] /\ Goto(c, "load") /\ UNCHANGED wg
       ELSE wg' = wg - 1 /\ Goto(c, "exit") /\ UNCHANGED call
  /\ UNCHANGED <<phase, onceVars, logVars>>

Step(c) ==
  \/ LoadDone(c) \/ LockOnce(c) \/ Recheck(c) \/ Start(c) \/ Finish(c)
  \/ StoreDone(c) \/ UnlockOnce(c) \/ Return(c)

-----------------------------------------------------------------------------

\* wg.Wait(), then the next example.
NextPhase ==
  /\ wg = 0 /\ phase < Len(Program)
  /\ StartPhase(phase + 1)

Exited == wg = 0 /\ phase = Len(Program)

Terminated == Exited /\ UNCHANGED vars

Next == (\E c \in Callers : Step(c)) \/ NextPhase \/ Terminated

Spec == Init /\ [][Next]_vars /\ WF_vars(NextPhase)
        /\ \A c \in UNION {DOMAIN Program[k] : k \in 1..Len(Program)} : WF_vars(Step(c))

-----------------------------------------------------------------------------
(* Properties *)

FirstFunctionsOf(k) == {Program[k][c][1] : c \in DOMAIN Program[k]}
CallersOf(k) == DOMAIN Program[k]

\* The refinement mapping: what callers may observe of the Once.
chosen == IF started = <<>> THEN NoCaller ELSE started[Len(started)]
ran == finished # {}
returned == {c \in Callers : call[c] > 1 \/ pc[c] \in {"return", "exit"}}

Abs == INSTANCE OnceAbs WITH
  Function <- FirstFunctionsOf,
  Caller <- CallersOf,
  Phases <- Len(Program),
  NoFunction <- NoCaller

\* Each phase runs one function, and no other function of the Once is ever
\* started, even if that one panics ("只执行一次，也不会执行其它函数",
\* sync-once.md:45); the function of a second Do is ignored (demo_once.go
\* prints 7 twice); nobody's Do returns before the function has returned or
\* panicked, so that a caller that finds the Once done may rely on its effects;
\* and every Do returns.
ImplementsOnceAbs == Abs!Spec

-----------------------------------------------------------------------------
(* The three examples of demo_do.go, then those of demo_once.go: demo1, and *)
(* demo2 with a Once for each function. Function 4 panics.                  *)

demo_do == << [main |-> <<"add 1", "add 2">>],
              [g1 |-> <<"task 1">>, g2 |-> <<"task 2">>, g3 |-> <<"task 3">>],
              [g4 |-> <<"task 4">>, g5 |-> <<"task 5">>] >>

demo_once == << [main |-> <<"add_one", "minus_one">>],
                [main |-> <<"add_one">>],
                [main |-> <<"minus_one">>] >>

MCProgram == demo_do \o demo_once
=============================================================================
