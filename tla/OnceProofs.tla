----------------------------- MODULE OnceProofs -----------------------------
(***************************************************************************)
(* Do runs one function per Once, for any phases, callers and functions,   *)
(* panicking ones included: the program implements the safety of OnceAbs.  *)
(*                                                                         *)
(* One caller at a time is past LockOnce (MutexInv). The flag done tells   *)
(* the whole history of the Once: while it is 0 nothing was started except *)
(* by the caller that is running or about to store, and once it is 1 a     *)
(* function has come to its end (DoneInv). Whoever is back from a Do has   *)
(* seen it at 1, which is what lets it rely on the function's effects.     *)
(***************************************************************************)
EXTENDS Once, FiniteSetTheorems, TLAPS

Inside == {"recheck", "run", "running", "store", "unlock"}

MutexInv == \A c \in Callers : m = c <=> pc[c] \in Inside

StartedOne == started = <<>> \/ \E f \in FirstFunctionsOf(phase) : started = <<f>>

DoneInv ==
  /\ started = <<>> => finished = {}
  /\ done = 0 /\ (\A c \in Callers : pc[c] \notin {"running", "store"}) => started = <<>>
  /\ done = 1 => finished # {}
  /\ \A c \in Callers :
       /\ pc[c] = "run" => done = 0
       /\ pc[c] = "running" => done = 0 /\ started # <<>> /\ finished = {}
       /\ pc[c] = "store" => done = 0 /\ started # <<>> /\ finished # {}
       /\ pc[c] \in {"unlock", "return", "exit"} \/ call[c] > 1 => done = 1

Remaining == {c \in Callers : pc[c] # "exit"}

CountInv == wg = Cardinality(Remaining)

IInv == TypeOK /\ MutexInv /\ StartedOne /\ DoneInv /\ CountInv

-----------------------------------------------------------------------------
(* Types *)

\* What the assumption says of the phase that runs.
LEMMA PhaseTyped ==
  ASSUME phase \in 1..Len(Program)
  PROVE  /\ IsFiniteSet(Callers) /\ Callers # {} /\ NoCaller \notin Callers
         /\ Cardinality(Callers) \in Nat
         /\ \A c \in Callers : /\ Len(Todo[c]) \in Nat \ {0}
                               /\ \A n \in 1..Len(Todo[c]) : Todo[c][n] # NoCaller
<1>1. /\ IsFiniteSet(Callers) /\ Callers # {} /\ NoCaller \notin Callers
      /\ \A c \in Callers : /\ Len(Todo[c]) \in Nat \ {0}
                            /\ \A n \in 1..Len(Todo[c]) : Todo[c][n] # NoCaller
  BY OnceAssumption DEF OnceAssumption, Callers, Todo
<1> QED BY <1>1, FS_CardinalityType

LEMMA RemainingFinite ==
  ASSUME phase \in 1..Len(Program)
  PROVE  /\ IsFiniteSet(Remaining) /\ Cardinality(Remaining) \in Nat
         /\ Cardinality(Remaining) <= Cardinality(Callers)
<1>1. Remaining \in SUBSET Callers
  BY DEF Remaining
<1> QED BY <1>1, PhaseTyped, FS_Subset, FS_CardinalityType

\* What Init and NextPhase make of the variables.
Fresh ==
  /\ phase \in 1..Len(Program)
  /\ done = 0 /\ m = NoCaller
  /\ pc = [c \in Callers |-> "load"]
  /\ call = [c \in Callers |-> 1]
  /\ started = <<>> /\ finished = {}
  /\ wg = Cardinality(Callers)

\* A phase begins with the invariant, whatever went before.
LEMMA FreshPhase == Fresh => IInv
<1> SUFFICES ASSUME Fresh PROVE IInv
  OBVIOUS
<1> USE PhaseTyped DEF Fresh
<1>1. Remaining = Callers
  BY DEF Remaining
<1>2. TypeOK
  BY DEF TypeOK
<1>3. MutexInv /\ StartedOne
  BY DEF MutexInv, StartedOne, Inside
<1>4. DoneInv
  BY DEF DoneInv
<1> QED BY <1>1, <1>2, <1>3, <1>4 DEF IInv, CountInv

LEMMA NextFreshPhase == Fresh' => IInv'
BY FreshPhase, PTL

\* A caller's step stays in the phase and moves no other caller.
LEMMA StepLocal ==
  ASSUME TypeOK, NEW c \in Callers, Step(c)
  PROVE  /\ phase' = phase /\ Todo' = Todo /\ Callers' = Callers
         /\ pc' \in [Callers -> {"load", "lock", "recheck", "run", "running", "store",
                                 "unlock", "return", "exit"}]
         /\ \A d \in Callers : d # c => pc'[d] = pc[d]
         /\ call' \in [Callers -> Nat] /\ \A d \in Callers : call'[d] \in 1..Len(Todo[d])
         /\ \A d \in Callers : d # c => call'[d] = call[d]
<1>1. phase' = phase
  BY DEF Step, LoadDone, LockOnce, Recheck, Start, Finish, StoreDone, UnlockOnce, Return
<1>2. Todo' = Todo /\ Callers' = Callers
  BY <1>1 DEF Todo, Callers
<1>3. /\ pc' \in [Callers -> {"load", "lock", "recheck", "run", "running", "store",
                              "unlock", "return", "exit"}]
      /\ \A d \in Callers : d # c => pc'[d] = pc[d]
  BY DEF TypeOK, Step, LoadDone, LockOnce, Recheck, Start, Finish, StoreDone, UnlockOnce,
         Return, Goto
<1>4. /\ call' \in [Callers -> Nat] /\ \A d \in Callers : call'[d] \in 1..Len(Todo[d])
      /\ \A d \in Callers : d # c => call'[d] = call[d]
  <2>1. CASE Return(c)
    <3>1. CASE call[c] < Len(Todo[c]) /\ ~Panicking(c)
      <4>1. call' = [call EXCEPT ![c] = @ + 1]
        BY <2>1, <3>1 DEF Return
      <4>2. Len(Todo[c]) \in Nat /\ call[c] \in 1..Len(Todo[c])
        BY PhaseTyped DEF TypeOK
      <4>3. call[c] + 1 \in 1..Len(Todo[c])
        BY <3>1, <4>2
      <4> QED BY <4>1, <4>3 DEF TypeOK
    <3>2. CASE ~(call[c] < Len(Todo[c]) /\ ~Panicking(c))
      BY <2>1, <3>2 DEF TypeOK, Return
    <3> QED BY <3>1, <3>2
  <2>2. CASE ~Return(c)
    BY <2>2 DEF TypeOK, Step, LoadDone, LockOnce, Recheck, Start, Finish, StoreDone, UnlockOnce
  <2> QED BY <2>1, <2>2
<1> QED BY <1>1, <1>2, <1>3, <1>4

-----------------------------------------------------------------------------
(* One step of a caller *)

\* LockOnce lets one caller in, and only UnlockOnce lets it out.
LEMMA MutexPreserved ==
  ASSUME IInv, NEW c \in Callers, Step(c)
  PROVE  MutexInv'
<1>0. /\ Callers' = Callers /\ NoCaller \notin Callers
      /\ \A d \in Callers : d # c => pc'[d] = pc[d]
  BY StepLocal, PhaseTyped DEF IInv, TypeOK
<1> USE <1>0
<1>1. CASE LockOnce(c)
  BY <1>1 DEF LockOnce, At, Goto, IInv, TypeOK, MutexInv, Inside
<1>2. CASE UnlockOnce(c)
  BY <1>2 DEF UnlockOnce, At, Goto, IInv, TypeOK, MutexInv, Inside
<1>3. CASE ~LockOnce(c) /\ ~UnlockOnce(c)
  <2>1. m' = m /\ (pc'[c] \in Inside <=> pc[c] \in Inside)
    BY <1>3 DEF Step, LoadDone, Recheck, Start, Finish, StoreDone, Return, At, Goto, onceVars,
                IInv, TypeOK, Inside
  <2> QED BY <2>1 DEF IInv, MutexInv
<1> QED BY <1>1, <1>2, <1>3

\* The function that is started is the first one its caller passes to Do.
LEMMA StartsFirst ==
  ASSUME IInv, NEW c \in Callers, Start(c)
  PROVE  /\ started = <<>> /\ started' = <<Fn(c)>> /\ finished = {} /\ done = 0
         /\ Fn(c) \in FirstFunctionsOf(phase) /\ Fn(c) # NoCaller
<1>1. pc[c] = "run" /\ done = 0 /\ started' = Append(started, Fn(c))
  BY DEF Start, At, IInv, DoneInv
<1>2. \A d \in Callers : pc[d] \notin {"running", "store"}
  <2>1. m = c
    BY <1>1 DEF IInv, MutexInv, Inside
  <2> QED BY <1>1, <2>1 DEF IInv, MutexInv, Inside
<1>3. started = <<>> /\ finished = {}
  BY <1>1, <1>2 DEF IInv, DoneInv
<1>4. call[c] = 1
  BY <1>1, PhaseTyped DEF IInv, DoneInv, TypeOK
<1>5. Fn(c) = Program[phase][c][1] /\ Fn(c) # NoCaller
  BY <1>4, PhaseTyped DEF Fn, Todo, IInv, TypeOK
<1> QED BY <1>1, <1>3, <1>5 DEF FirstFunctionsOf, Callers, Todo

\* The flag and the log stay together.
LEMMA DonePreserved ==
  ASSUME IInv, NEW c \in Callers, Step(c)
  PROVE  StartedOne' /\ DoneInv'
<1>0. /\ phase' = phase /\ Todo' = Todo /\ Callers' = Callers
      /\ pc \in [Callers -> {"load", "lock", "recheck", "run", "running", "store",
                             "unlock", "return", "exit"}]
      /\ done \in {0, 1}
      /\ \A d \in Callers : d # c => pc'[d] = pc[d] /\ call'[d] = call[d]
  BY StepLocal DEF IInv, TypeOK
<1> USE <1>0
<1>1. /\ \A d \in Callers : m = d <=> pc[d] \in Inside
      /\ StartedOne /\ DoneInv
  BY DEF IInv, MutexInv
<1>2. CASE Start(c)
  <2>1. /\ started' = <<Fn(c)>> /\ Fn(c) \in FirstFunctionsOf(phase) /\ finished = {} /\ done = 0
    BY <1>2, StartsFirst
  <2>2. UNCHANGED <<done, call, finished>> /\ pc'[c] = "running"
    BY <1>2 DEF Start, Goto, onceVars
  <2>3. StartedOne'
    BY <2>1 DEF StartedOne, FirstFunctionsOf
  <2>4. <<Fn(c)>> # <<>>
    OBVIOUS
  <2>5. \A d \in Callers : d # c => pc[d] \notin Inside
    BY <1>1, <1>2 DEF Start, At, Inside
  <2>6. DoneInv'
    BY <1>1, <2>1, <2>2, <2>4, <2>5 DEF DoneInv, Inside
  <2> QED BY <2>3, <2>6
<1>3. CASE ~Start(c)
  <2>1. started' = started
    BY <1>3 DEF Step, LoadDone, LockOnce, Recheck, Finish, StoreDone, UnlockOnce, Return, logVars
  <2>2. StartedOne'
    BY <1>1, <2>1 DEF StartedOne
  <2>3. DoneInv'
    <3>1. CASE LoadDone(c)
      BY <1>1, <3>1 DEF LoadDone, At, Goto, onceVars, logVars, DoneInv
    <3>2. CASE LockOnce(c)
      BY <1>1, <3>2 DEF LockOnce, At, Goto, logVars, DoneInv
    <3>3. CASE Recheck(c)
      BY <1>1, <3>3 DEF Recheck, At, Goto, onceVars, logVars, DoneInv
    <3>4. CASE Finish(c)
      BY <1>1, <3>4 DEF Finish, At, Goto, onceVars, DoneInv, Inside
    <3>5. CASE StoreDone(c)
      BY <1>1, <3>5 DEF StoreDone, At, Goto, logVars, DoneInv, Inside
    <3>6. CASE UnlockOnce(c)
      BY <1>1, <3>6 DEF UnlockOnce, At, Goto, logVars, DoneInv
    <3>7. CASE Return(c)
      <4>1. pc[c] = "return" /\ UNCHANGED <<done, started, finished>> /\ pc'[c] \in {"load", "exit"}
        BY <3>7 DEF Return, At, Goto, onceVars, logVars
      <4> QED BY <1>1, <4>1 DEF DoneInv
    <3> QED BY <1>3, <3>1, <3>2, <3>3, <3>4, <3>5, <3>6, <3>7 DEF Step
  <2> QED BY <2>2, <2>3
<1> QED BY <1>2, <1>3

\* wg counts the callers that have not exited.
LEMMA CountPreserved ==
  ASSUME IInv, NEW c \in Callers, Step(c)
  PROVE  CountInv' /\ wg' \in 0..Cardinality(Callers)
<1>0. /\ phase' = phase /\ Callers' = Callers
      /\ \A d \in Callers : d # c => pc'[d] = pc[d]
      /\ IsFiniteSet(Remaining) /\ Cardinality(Remaining) \in Nat
      /\ Cardinality(Remaining) <= Cardinality(Callers) /\ Cardinality(Callers) \in Nat
      /\ wg = Cardinality(Remaining)
  BY StepLocal, RemainingFinite, PhaseTyped DEF IInv, TypeOK, CountInv
<1>1. CASE Return(c) /\ pc'[c] = "exit"
  <2>1. wg' = wg - 1 /\ c \in Remaining
    BY <1>1 DEF Return, At, Goto, IInv, TypeOK, Remaining
  <2>2. Remaining' = Remaining \ {c}
    BY <1>0, <1>1 DEF Remaining
  <2>3. Cardinality(Remaining') = Cardinality(Remaining) - 1
    BY <1>0, <2>1, <2>2, FS_RemoveElement
  <2>4. Cardinality(Remaining) # 0
    BY <1>0, <2>1, FS_EmptySet
  <2> QED BY <1>0, <2>1, <2>3, <2>4 DEF CountInv
<1>2. CASE ~(Return(c) /\ pc'[c] = "exit")
  <2>1. wg' = wg /\ pc'[c] # "exit" /\ pc[c] # "exit"
    BY <1>2 DEF Step, LoadDone, LockOnce, Recheck, Start, Finish, StoreDone, UnlockOnce, Return,
                At, Goto, IInv, TypeOK
  <2>2. Remaining' = Remaining
    BY <1>0, <2>1 DEF Remaining
  <2> QED BY <1>0, <2>1, <2>2 DEF CountInv
<1> QED BY <1>1, <1>2

-----------------------------------------------------------------------------
(* The theorems *)

LEMMA StepPreserves ==
  ASSUME IInv, NEW c \in Callers, Step(c)
  PROVE  IInv'
<1>1. /\ phase' = phase /\ Todo' = Todo /\ Callers' = Callers
      /\ pc' \in [Callers -> {"load", "lock", "recheck", "run", "running", "store",
                              "unlock", "return", "exit"}]
      /\ call' \in [Callers -> Nat] /\ \A d \in Callers : call'[d] \in 1..Len(Todo[d])
  BY StepLocal DEF IInv
<1>2. done' \in {0, 1} /\ m' \in Callers \cup {NoCaller}
  BY DEF IInv, TypeOK, Step, LoadDone, LockOnce, Recheck, Start, Finish, StoreDone, UnlockOnce,
         Return, onceVars
<1>3. CountInv' /\ wg' \in 0..Cardinality(Callers)
  BY CountPreserved
<1>4. TypeOK'
  BY <1>1, <1>2, <1>3 DEF IInv, TypeOK
<1> QED BY <1>3, <1>4, MutexPreserved, DonePreserved DEF IInv

\* When main goes on everybody has exited, and the next Once is a new one.
LEMMA NextPhasePreserves ==
  ASSUME IInv, NextPhase
  PROVE  IInv' /\ \A c \in Callers : pc[c] = "exit"
<1>1. phase' = phase + 1 /\ phase' \in 1..Len(Program)
  BY OnceAssumption DEF NextPhase, StartPhase, IInv, TypeOK, OnceAssumption
<1>2. /\ done' = 0 /\ m' = NoCaller
      /\ pc' = [c \in Callers' |-> "load"]
      /\ call' = [c \in Callers' |-> 1]
      /\ started' = <<>> /\ finished' = {}
      /\ wg' = Cardinality(Callers')
  BY <1>1 DEF NextPhase, StartPhase, Callers, Todo
<1>3. IInv'
  BY <1>1, <1>2, NextFreshPhase DEF Fresh
<1>4. Remaining = {}
  BY RemainingFinite, FS_EmptySet DEF NextPhase, IInv, TypeOK, CountInv
<1> QED BY <1>3, <1>4 DEF Remaining

LEMMA Inductive == Spec => []IInv
<1>1. Init => IInv
  BY OnceAssumption, FreshPhase DEF Init, Fresh, OnceAssumption
<1>2. IInv /\ [Next]_vars => IInv'
  <2> SUFFICES ASSUME IInv, [Next]_vars PROVE IInv'
    OBVIOUS
  <2>1. CASE \E c \in Callers : Step(c)
    BY <2>1, StepPreserves
  <2>2. CASE NextPhase
    BY <2>2, NextPhasePreserves
  <2>3. CASE UNCHANGED vars
    BY <2>3 DEF vars, onceVars, logVars, IInv, TypeOK, MutexInv, StartedOne, FirstFunctionsOf,
                DoneInv, CountInv, Remaining, Callers, Todo
  <2> QED BY <2>1, <2>2, <2>3 DEF Next, Terminated
<1> QED BY <1>1, <1>2, PTL DEF Spec

\* Every variable keeps its type from phase to phase: the WaitGroup counter
\* stays between 0 and the number of callers, and no caller goes past its Dos.
THEOREM TypeCorrect == Spec => []TypeOK
<1>1. IInv => TypeOK
  BY DEF IInv
<1> QED BY <1>1, Inductive, PTL

-----------------------------------------------------------------------------
(* The refinement *)

\* Start chooses the function and Finish runs it.
LEMMA FunctionRuns ==
  ASSUME IInv, NEW c \in Callers
  PROVE  (Start(c) => Abs!Choose) /\ (Finish(c) => Abs!Run)
<1>1. ASSUME Start(c) PROVE Abs!Choose
  <2>1. /\ started = <<>> /\ started' = <<Fn(c)>> /\ finished = {}
        /\ Fn(c) \in FirstFunctionsOf(phase)
    BY <1>1, StartsFirst
  <2>2. UNCHANGED <<phase, finished, call>> /\ pc'[c] = "running" /\ pc[c] = "run"
    BY <1>1 DEF Start, At, Goto, onceVars, IInv, TypeOK
  <2>3. chosen = NoCaller /\ chosen' = Fn(c)
    BY <2>1 DEF chosen
  <2>4. returned' = returned /\ ran' = ran
    BY <1>1, <2>2, StepLocal DEF Step, returned, ran, IInv
  <2> QED BY <2>1, <2>2, <2>3, <2>4 DEF Abs!Choose
<1>2. ASSUME Finish(c) PROVE Abs!Run
  <2>1. started # <<>> /\ finished = {}
    BY <1>2 DEF Finish, At, IInv, DoneInv
  <2>2. PICK f \in FirstFunctionsOf(phase) : started = <<f>>
    BY <2>1 DEF IInv, StartedOne
  <2>3. f # NoCaller
    <3>1. PICK d \in Callers : f = Todo[d][1]
      BY <2>2 DEF FirstFunctionsOf, Callers, Todo
    <3>2. 1 \in 1..Len(Todo[d])
      BY PhaseTyped DEF IInv, TypeOK
    <3> QED BY <3>1, <3>2, PhaseTyped DEF IInv, TypeOK
  <2>4. chosen = f /\ UNCHANGED <<phase, started, call>> /\ finished' = finished \cup {Fn(c)}
    BY <1>2, <2>2 DEF Finish, onceVars, chosen
  <2>5. returned' = returned
    <3>1. pc[c] = "running" /\ pc'[c] = "store" /\ call' = call
      BY <1>2 DEF Finish, At, Goto, IInv, TypeOK
    <3> QED BY <1>2, <3>1, StepLocal DEF Step, returned, IInv
  <2> QED BY <2>1, <2>3, <2>4, <2>5 DEF Abs!Run, ran, chosen
<1> QED BY <1>1, <1>2

\* Any other step brings its caller back from Do, which it does only when the
\* function has run, or changes nothing that OnceAbs shows.
LEMMA OthersReturn ==
  ASSUME IInv, NEW c \in Callers, Step(c), ~Start(c), ~Finish(c)
  PROVE  Abs!Return \/ UNCHANGED <<phase, chosen, ran, returned>>
<1>0. /\ phase' = phase /\ Callers' = Callers /\ Todo' = Todo
      /\ \A d \in Callers : d # c => pc'[d] = pc[d] /\ call'[d] = call[d]
  BY StepLocal DEF IInv
<1>1. UNCHANGED <<chosen, ran>>
  BY DEF Step, LoadDone, LockOnce, Recheck, StoreDone, UnlockOnce, Return, logVars, chosen, ran
<1>2. CASE pc'[c] = "return"
  <2>1. done = 1 /\ call' = call
    BY <1>2 DEF Step, LoadDone, LockOnce, Recheck, StoreDone, UnlockOnce, Return, At, Goto, IInv,
                TypeOK, DoneInv
  <2>2. ran
    BY <2>1 DEF ran, IInv, DoneInv
  <2>3. returned' = returned \cup {c}
    BY <1>0, <1>2, <2>1 DEF returned
  <2> QED BY <1>0, <1>1, <2>2, <2>3 DEF Abs!Return, CallersOf, Callers, Todo
<1>3. CASE pc'[c] # "return"
  <2>1. c \in returned' <=> c \in returned
    <3>1. CASE Return(c)
      <4>1. c \in returned
        BY <3>1 DEF Return, At, returned
      <4>2. call'[c] > 1 \/ pc'[c] = "exit"
        BY <3>1, PhaseTyped DEF Return, Goto, IInv, TypeOK
      <4> QED BY <1>0, <4>1, <4>2 DEF returned
    <3>2. CASE ~Return(c)
      <4>1. /\ call' = call /\ pc'[c] \notin {"return", "exit"}
            /\ pc[c] \notin {"return", "exit"}
        BY <1>3, <3>2 DEF Step, LoadDone, LockOnce, Recheck, StoreDone, UnlockOnce, At, Goto,
                          IInv, TypeOK
      <4> QED BY <1>0, <4>1 DEF returned
    <3> QED BY <3>1, <3>2
  <2>2. \A d \in Callers : d \in returned' <=> d \in returned
    BY <1>0, <2>1 DEF returned
  <2>3. returned' = returned
    BY <1>0, <2>2 DEF returned
  <2> QED BY <1>0, <1>1, <2>3
<1> QED BY <1>2, <1>3

\* One function is run for each Once, only functions that a caller passes first
\* are, and no Do returns before the function has come to its end: the program
\* implements the safety of OnceAbs.
THEOREM ImplementsOnceAbsSafety == Spec => Abs!Safe
<1>1. Init => Abs!Init
  BY OnceAssumption DEF Init, Abs!Init, chosen, ran, returned
<1>2. IInv /\ [Next]_vars => [Abs!Next]_<<phase, chosen, ran, returned>>
  <2> SUFFICES ASSUME IInv, [Next]_vars PROVE [Abs!Next]_<<phase, chosen, ran, returned>>
    OBVIOUS
  <2>1. ASSUME NEW c \in Callers, Step(c)
        PROVE  Abs!Next \/ UNCHANGED <<phase, chosen, ran, returned>>
    BY <2>1, FunctionRuns, OthersReturn DEF Abs!Next
  <2>2. CASE NextPhase
    <3>1. \A c \in Callers : pc[c] = "exit"
      BY <2>2, NextPhasePreserves
    <3>2. returned = CallersOf(phase)
      BY <3>1 DEF returned, CallersOf, Callers, Todo
    <3>3. /\ phase < Len(Program) /\ phase' = phase + 1
          /\ chosen' = NoCaller /\ ran' = FALSE /\ returned' = {}
      BY <2>2 DEF NextPhase, StartPhase, chosen, ran, returned, Callers, Todo
    <3> QED BY <3>2, <3>3 DEF Abs!Next, Abs!NextPhase
  <2>3. CASE UNCHANGED vars
    BY <2>3 DEF vars, onceVars, logVars, chosen, ran, returned, Callers, Todo
  <2> QED BY <2>1, <2>2, <2>3 DEF Next, Terminated
<1> QED BY <1>1, <1>2, Inductive, PTL DEF Spec, Abs!Safe
=============================================================================
