--------------------------- MODULE MailboxProofs ---------------------------
(***************************************************************************)
(* The mailbox takes letters one at a time, for any number of senders,     *)
(* receivers and rounds, provided at most one goroutine can be between its *)
(* lock and its unlock: the receivers use the lock itself, or there is at  *)
(* most one of them. demo_variable_cond.go is in the second case: its      *)
(* receiver writes mailbox under a read lock, which a second receiver      *)
(* would share.                                                            *)
(*                                                                         *)
(* That no wake-up is lost does not depend on the lock at all: it follows  *)
(* from who wakes whom and from testing again after Wait.                  *)
(***************************************************************************)
EXTENDS Mailbox, FiniteSetTheorems, TLAPS

OneInside == \A p \in Programs : ~p.readLocked \/ \A q, r \in p.receiver : q = r

LockedLabels == {"check", "act", "unlock"}

LockInv ==
  /\ \A p \in Proc : p \in inside <=> pc[p] \in LockedLabels
  /\ \A p, q \in inside : p = q

\* The box holds exactly the letter that was sent and not yet taken.
NoLetterLost == sent = taken + mailbox

IInv == TypeOK /\ LockInv /\ CheckedStillReady /\ NoLetterLost

\* The program that runs stays the same.
LEMMA ProgramKept ==
  ASSUME [Next]_vars
  PROVE  program' = program /\ Proc' = Proc /\ Receiver' = Receiver
<1>1. program' = program
  BY DEF Next, Terminated, Step, Loop, Check, Relock, Act, Unlock, Wake, Sign, Receive, vars
<1> QED BY <1>1 DEF Proc, Receiver

\* One step of a goroutine keeps at most one of them inside the lock.
LEMMA LockPreserved ==
  ASSUME OneInside, IInv, NEW p \in Proc, Step(p)
  PROVE  LockInv'
<1>0. Proc' = Proc /\ Receiver' = Receiver
  BY ProgramKept DEF Next
<1> USE <1>0
<1>1. /\ pc \in [Proc -> {"idle", "check", "act", "unlock", "wake", "wait", "sign", "done"}]
      /\ inside \subseteq Proc
      /\ \A q \in Proc : q \in inside <=> pc[q] \in LockedLabels
      /\ \A q, r \in inside : q = r
  BY DEF IInv, TypeOK, LockInv
<1>2. ASSUME CanEnter(p), pc[p] \notin LockedLabels PROVE inside = {}
  <2>1. CASE Reads(p)
    <3>0. program \in Programs /\ program.readLocked /\ p \in Receiver
      BY <2>1 DEF IInv, TypeOK, Reads
    <3>1. \A q \in inside : q = p
      BY <1>1, <1>2, <2>1, <3>0 DEF CanEnter, Reads, OneInside, Receiver
    <3> QED BY <1>1, <1>2, <3>1
  <2>2. CASE ~Reads(p)
    BY <1>2, <2>2 DEF CanEnter
  <2> QED BY <2>1, <2>2
<1>3. CASE Loop(p)
  BY <1>1, <1>2, <1>3 DEF Loop, At, Goto, LockInv, LockedLabels
<1>4. CASE Check(p)
  BY <1>1, <1>4 DEF Check, At, Goto, LockInv, LockedLabels, lockVars
<1>5. CASE Relock(p)
  BY <1>1, <1>2, <1>5 DEF Relock, At, Goto, LockInv, LockedLabels
<1>6. CASE Act(p)
  BY <1>1, <1>6 DEF Act, At, Goto, LockInv, LockedLabels, lockVars
<1>7. CASE Unlock(p)
  BY <1>1, <1>7 DEF Unlock, At, Goto, LockInv, LockedLabels
<1>8. CASE Wake(p)
  BY <1>1, <1>8 DEF Wake, At, Goto, LockInv, LockedLabels
<1>9. CASE Sign(p)
  BY <1>1, <1>9 DEF Sign, At, Goto, LockInv, LockedLabels, lockVars
<1> QED BY <1>3, <1>4, <1>5, <1>6, <1>7, <1>8, <1>9 DEF Step

\* What was tested under the lock is still true when it is acted on, and the
\* box holds exactly the letter that was sent and not yet taken.
LEMMA DataPreserved ==
  ASSUME OneInside, IInv, LockInv', NEW p \in Proc, Step(p)
  PROVE  CheckedStillReady' /\ NoLetterLost'
<1>0. Proc' = Proc /\ Receiver' = Receiver
  BY ProgramKept DEF Next
<1> USE <1>0
<1>1. /\ mailbox \in {0, 1} /\ sent \in Nat /\ taken \in Nat
      /\ pc \in [Proc -> {"idle", "check", "act", "unlock", "wake", "wait", "sign", "done"}]
      /\ \A q \in Proc : pc[q] = "act" => Ready(q)
      /\ sent = taken + mailbox
  BY DEF IInv, TypeOK, CheckedStillReady, NoLetterLost
<1>2. CASE Act(p)
  <2>1. \A q \in Proc : pc'[q] # "act"
    <3>1. ASSUME NEW q \in Proc, pc[q] = "act" PROVE q = p
      BY <1>2, <3>1 DEF Act, At, IInv, LockInv, LockedLabels
    <3> QED BY <1>1, <1>2, <3>1 DEF Act, Goto
  <2>2. Ready(p)
    BY <1>1, <1>2 DEF Act, At
  <2>3. NoLetterLost'
    BY <1>1, <1>2, <2>2 DEF Act, Ready, NoLetterLost
  <2> QED BY <2>1, <2>3 DEF CheckedStillReady
<1>3. CASE Check(p)
  BY <1>1, <1>3 DEF Check, At, Goto, boxVars, CheckedStillReady, Ready, NoLetterLost
<1>4. CASE Loop(p) \/ Relock(p) \/ Unlock(p) \/ Wake(p) \/ Sign(p)
  <2>1. UNCHANGED boxVars /\ \A q \in Proc : pc'[q] = "act" => pc[q] = "act"
    BY <1>1, <1>4 DEF Loop, Relock, Unlock, Wake, Sign, Goto
  <2> QED BY <1>1, <2>1 DEF boxVars, CheckedStillReady, Ready, NoLetterLost
<1> QED BY <1>2, <1>3, <1>4 DEF Step

LEMMA ProcCount ==
  ASSUME program \in Programs
  PROVE  Cardinality(Proc) \in Nat
<1>1. IsFiniteSet(Sender) /\ IsFiniteSet(Receiver)
  BY MailboxAssumption DEF MailboxAssumption, Receiver
<1> QED BY <1>1, FS_Union, FS_CardinalityType DEF Proc

LEMMA InitTyped == Init => TypeOK
  BY ProcCount, MailboxAssumption DEF Init, TypeOK, MailboxAssumption

\* Every variable keeps its type, in particular the channel sign never holds
\* more than its capacity.
THEOREM TypeCorrect == Spec => []TypeOK
<1> USE DEF TypeOK
<1>1. Init => TypeOK
  BY InitTyped
<1>2. ASSUME TypeOK, [Next]_vars PROVE TypeOK'
  <2>0. program' = program /\ Proc' = Proc /\ Cardinality(Proc) \in Nat
    BY <1>2, ProgramKept, ProcCount
  <2> USE <2>0
  <2>1. ASSUME NEW p \in Proc, Step(p) PROVE TypeOK'
    <3>1. CASE Loop(p)
      BY <1>2, <3>1 DEF Loop, Goto, boxVars, mainVars
    <3>2. CASE Check(p)
      BY <1>2, <3>2 DEF Check, Goto, lockVars, boxVars, mainVars
    <3>3. CASE Relock(p)
      BY <1>2, <3>3 DEF Relock, Goto, boxVars, mainVars
    <3>4. CASE Act(p)
      BY <1>2, <3>4 DEF Act, Goto, lockVars, mainVars
    <3>5. CASE Unlock(p)
      BY <1>2, <3>5 DEF Unlock, Goto, boxVars, mainVars
    <3>6. CASE Wake(p)
      BY <1>2, <3>6 DEF Wake, Goto, boxVars, mainVars
    <3>7. CASE Sign(p)
      BY <1>2, <3>7, MailboxAssumption
      DEF Sign, Goto, lockVars, boxVars, MailboxAssumption
    <3> QED BY <2>1, <3>1, <3>2, <3>3, <3>4, <3>5, <3>6, <3>7 DEF Step
  <2>2. CASE Receive
    BY <1>2, <2>2, MailboxAssumption
    DEF Receive, Exited, lockVars, boxVars, MailboxAssumption
  <2>3. CASE UNCHANGED vars
    BY <1>2, <2>3 DEF vars
  <2> QED BY <1>2, <2>1, <2>2, <2>3 DEF Next, Terminated
<1> QED BY <1>1, <1>2, PTL DEF Spec

\* The inductive invariant.
LEMMA Inductive ==
  ASSUME OneInside
  PROVE  Spec => []IInv
<1>1. Init => IInv
  <2>1. Init => LockInv /\ CheckedStillReady /\ NoLetterLost
    BY DEF Init, LockInv, LockedLabels, CheckedStillReady, NoLetterLost
  <2> QED BY <2>1, InitTyped DEF IInv
<1>2. IInv /\ TypeOK' /\ [Next]_vars => IInv'
  <2> SUFFICES ASSUME IInv, TypeOK', [Next]_vars PROVE IInv'
    OBVIOUS
  <2>1. ASSUME NEW p \in Proc, Step(p) PROVE IInv'
    BY <2>1, LockPreserved, DataPreserved DEF IInv
  <2>2. CASE Receive \/ UNCHANGED vars
    <3>1. UNCHANGED <<lockVars, boxVars, pc>> /\ Proc' = Proc
      BY <2>2, ProgramKept DEF Receive, vars, lockVars, boxVars
    <3> QED BY <3>1 DEF IInv, lockVars, boxVars, LockInv, LockedLabels,
                        CheckedStillReady, Ready, NoLetterLost
  <2> QED BY <2>1, <2>2 DEF Next, Terminated
<1> QED BY <1>1, <1>2, TypeCorrect, PTL DEF Spec

\* Neither a wake-up nor another goroutine invalidates a tested condition.
THEOREM TestsHold ==
  ASSUME OneInside
  PROVE  Spec => []CheckedStillReady
<1> QED BY Inductive, PTL DEF IInv

\* No letter is overwritten before it is taken and none is taken twice.
THEOREM LettersConserved ==
  ASSUME OneInside
  PROVE  Spec => []NoLetterLost
<1> QED BY Inductive, PTL DEF IInv

\* The mailbox implements the safety of the one-letter slot: letters are posted
\* and taken strictly in turn.
THEOREM ImplementsSlotSafety ==
  ASSUME OneInside
  PROVE  Spec => Slots!Safe
<1>1. Init => Slots!Init
  BY DEF Init, Slots!Init
<1>2. IInv /\ [Next]_vars => [Slots!Next]_<<sent, taken>>
  <2> SUFFICES ASSUME IInv, [Next]_vars PROVE [Slots!Next]_<<sent, taken>>
    OBVIOUS
  <2>1. ASSUME NEW p \in Proc, Act(p) PROVE Slots!Next
    <3>1. Ready(p) /\ sent = taken + mailbox
      BY <2>1 DEF Act, At, IInv, CheckedStillReady, NoLetterLost
    <3>2. CASE p \in Sender
      BY <2>1, <3>1, <3>2 DEF Act, Ready, Slots!Next, Slots!Post, IInv, TypeOK
    <3>3. CASE p \notin Sender
      BY <2>1, <3>1, <3>3 DEF Act, Ready, Slots!Next, Slots!Take, IInv, TypeOK
    <3> QED BY <3>2, <3>3
  <2>2. ASSUME NEW p \in Proc, Step(p), ~Act(p) PROVE UNCHANGED <<sent, taken>>
    BY <2>2 DEF Step, Loop, Check, Relock, Unlock, Wake, Sign, boxVars
  <2>3. CASE Receive \/ UNCHANGED vars
    BY <2>3 DEF Receive, vars, boxVars
  <2> QED BY <2>1, <2>2, <2>3 DEF Next, Terminated
<1> QED BY <1>1, <1>2, Inductive, PTL DEF Spec, Slots!Safe

-----------------------------------------------------------------------------
(* Wake-ups *)

\* Who is on a condition's list is in its Wait.
WaitInv == \A p \in waiting : pc[p] = "wait"

WakeInv == WaitInv /\ NoLostWakeup

\* q does for p's condition what NoLostWakeup asks of somebody.
Minds(q, p) == IF q \in Sender <=> p \in Sender THEN Looks(q) ELSE pc[q] \in {"unlock", "wake"}

LEMMA Minded ==
  NoLostWakeup <=> \A p \in waiting : Ready(p) => \E q \in Proc : Minds(q, p)
BY DEF NoLostWakeup, Minds

\* Each step of a goroutine leaves somebody to mind a condition that is true:
\* who makes it true wakes the other side, who is woken looks, and who looks in
\* vain has found it false.
LEMMA WakePreserved ==
  ASSUME TypeOK, WakeInv, NEW p \in Proc, Step(p)
  PROVE  WakeInv'
<1>0. /\ Proc' = Proc /\ Receiver' = Receiver /\ Receiver \cap Sender = {}
      /\ program' = program
  BY ProgramKept, MailboxAssumption DEF Next, TypeOK, MailboxAssumption, Receiver
<1>1. /\ waiting \subseteq Proc /\ pc' = [pc EXCEPT ![p] = pc'[p]]
      /\ \A q \in Proc : q # p => pc'[q] = pc[q]
  BY DEF TypeOK, Step, Loop, Check, Relock, Act, Unlock, Wake, Sign, Goto
<1>2. WaitInv'
  <2>1. CASE Check(p)
    <3>1. p \notin waiting
      BY <2>1 DEF Check, At, WakeInv, WaitInv
    <3>2. (p \in waiting' => pc'[p] = "wait") /\ waiting' \subseteq waiting \cup {p}
      BY <2>1, <3>1 DEF Check, Goto, lockVars, TypeOK
    <3> QED BY <1>1, <3>2 DEF WakeInv, WaitInv
  <2>2. CASE ~Check(p)
    <3>1. waiting' \subseteq waiting /\ p \notin waiting'
      BY <2>2 DEF Step, Loop, Relock, Act, Unlock, Wake, Sign, At, lockVars, WakeInv, WaitInv
    <3> QED BY <1>1, <3>1 DEF WakeInv, WaitInv
  <2> QED BY <2>1, <2>2
<1>3. ASSUME NEW x \in waiting', Ready(x)'
      PROVE  \E q \in Proc : Minds(q, x)'
  <2>1. ASSUME UNCHANGED mailbox, x \in waiting
        PROVE  \E q \in Proc : Minds(q, x)
    BY <2>1, <1>3, Minded DEF Ready, WakeInv
  <2>2. ASSUME NEW q \in Proc, q # p, Minds(q, x), waiting' \subseteq waiting \cup {p}
        PROVE  Minds(q, x)'
    BY <1>1, <2>2 DEF Minds, Looks
  <2>3. CASE Act(p)
    <3>1. pc'[p] = "unlock" /\ ~(p \in Sender <=> x \in Sender)
      BY <1>3, <2>3 DEF Act, Goto, Ready, TypeOK
    <3> QED BY <3>1 DEF Minds
  <2>4. CASE Check(p)
    <3>1. x \in waiting /\ UNCHANGED mailbox /\ waiting' \subseteq waiting \cup {p}
      BY <1>3, <2>4 DEF Check, lockVars, boxVars, Ready
    <3>2. PICK q \in Proc : Minds(q, x)
      BY <2>1, <3>1
    <3>3. CASE q = p
      <4>1. (p \in Sender <=> x \in Sender) /\ Ready(p)
        BY <1>3, <2>4, <3>1, <3>2, <3>3 DEF Minds, Check, At, Ready
      <4>2. pc'[p] = "act"
        BY <2>4, <4>1 DEF Check, Goto, TypeOK
      <4> QED BY <4>1, <4>2 DEF Minds, Looks
    <3> QED BY <2>2, <3>1, <3>2, <3>3
  <2>5. CASE Wake(p)
    <3>1. x \in waiting /\ UNCHANGED mailbox /\ waiting' \subseteq waiting
      BY <1>3, <2>5 DEF Wake, boxVars
    <3>2. PICK q \in Proc : Minds(q, x)
      BY <2>1, <3>1
    <3>3. CASE q = p
      <4>1. ~(p \in Sender <=> x \in Sender) /\ pc[p] = "wake"
        BY <2>5, <3>2, <3>3 DEF Wake, At, Minds, Looks
      <4>2. x \in waiting \cap (IF p \in Sender THEN Receiver ELSE Sender)
        BY <1>1, <3>1, <4>1 DEF Proc
      <4>3. PICK y \in waiting \cap (IF p \in Sender THEN Receiver ELSE Sender) :
              waiting' = waiting \ {y}
        BY <1>3, <2>5, <4>2 DEF Wake
      <4>4. pc[y] = "wait" /\ y # p /\ y \in Proc /\ pc'[y] = "wait" /\ y \notin waiting'
        BY <1>1, <4>1, <4>3 DEF WakeInv, WaitInv
      <4>5. y \in Sender <=> x \in Sender
        BY <1>0, <4>1, <4>3
      <4> QED BY <4>4, <4>5 DEF Minds, Looks
    <3> QED BY <2>2, <3>1, <3>2, <3>3
  <2>6. CASE Loop(p) \/ Relock(p) \/ Unlock(p) \/ Sign(p)
    <3>1. UNCHANGED mailbox /\ waiting' = waiting
      BY <2>6 DEF Loop, Relock, Unlock, Sign, boxVars, lockVars
    <3>2. PICK q \in Proc : Minds(q, x)
      BY <1>3, <2>1, <3>1
    <3>3. CASE q = p
      <4>1. \/ Relock(p) /\ pc'[p] = "check" /\ Looks(p)
            \/ Unlock(p) /\ pc'[p] = "wake"
        BY <2>6, <3>2, <3>3 DEF Loop, Relock, Unlock, Sign, At, Goto, Minds, Looks, TypeOK
      <4>2. CASE Relock(p)
        <5>1. pc[p] = "wait" /\ pc'[p] = "check"
          BY <4>1, <4>2 DEF Relock, Unlock, At
        <5>2. p \in Sender <=> x \in Sender
          BY <3>2, <3>3, <5>1 DEF Minds
        <5> QED BY <5>1, <5>2 DEF Minds, Looks
      <4>3. CASE Unlock(p)
        BY <3>2, <3>3, <4>1, <4>3 DEF Unlock, At, Minds, Looks
      <4> QED BY <4>1, <4>2, <4>3
    <3> QED BY <2>2, <3>1, <3>2, <3>3
  <2> QED BY <2>3, <2>4, <2>5, <2>6 DEF Step
<1>4. NoLostWakeup'
  BY <1>0, <1>3 DEF NoLostWakeup, Minds
<1> QED BY <1>2, <1>4 DEF WakeInv

LEMMA WakeInductive == Spec => []WakeInv
<1>1. Init => WakeInv
  BY DEF Init, WakeInv, WaitInv, NoLostWakeup
<1>2. TypeOK /\ WakeInv /\ [Next]_vars => WakeInv'
  <2> SUFFICES ASSUME TypeOK, WakeInv, [Next]_vars PROVE WakeInv'
    OBVIOUS
  <2>1. CASE \E p \in Proc : Step(p)
    BY <2>1, WakePreserved
  <2>2. CASE Receive \/ UNCHANGED vars
    <3>1. UNCHANGED <<mailbox, waiting, pc>> /\ Proc' = Proc
      BY <2>2, ProgramKept DEF Receive, vars, lockVars, boxVars
    <3> QED BY <3>1 DEF WakeInv, WaitInv, NoLostWakeup, Looks, Ready
  <2> QED BY <2>1, <2>2 DEF Next, Terminated
<1> QED BY <1>1, <1>2, TypeCorrect, PTL DEF Spec

\* For any senders and receivers, whichever way they lock and wake each other,
\* a goroutine whose condition is true is not left waiting with nobody to wake
\* it or to act in its place.
THEOREM WakeupsReach == Spec => []NoLostWakeup
<1>1. WakeInv => NoLostWakeup
  BY DEF WakeInv
<1> QED BY <1>1, WakeInductive, PTL

\* They never all wait while the condition of one of them is true.
NotAllAsleep ==
  (\A p \in Proc : pc[p] = "done" \/ p \in waiting) => \A p \in waiting : ~Ready(p)

\* In particular the goroutines that are not done are not all on the lists of
\* the conditions while one of them could go on.
THEOREM SomebodyAwake == Spec => []NotAllAsleep
<1>1. WakeInv => NotAllAsleep
  BY DEF WakeInv, WaitInv, NoLostWakeup, NotAllAsleep, Looks
<1> QED BY <1>1, WakeInductive, PTL

-----------------------------------------------------------------------------
(* The two programs of the repository *)

\* Both programs of the repository meet the condition: the one receiver behind
\* the read lock is alone, the two receivers use the lock itself.
THEOREM DemosSafe ==
  ASSUME Programs = BothPrograms
  PROVE  Spec => []CheckedStillReady /\ []NoLetterLost /\ Slots!Safe
<1>1. OneInside
  BY DEF OneInside, BothPrograms, demo_variable_cond, demo_variable_cond2
<1> QED BY <1>1, TestsHold, LettersConserved, ImplementsSlotSafety
=============================================================================
