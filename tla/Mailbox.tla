------------------------------ MODULE Mailbox ------------------------------
(***************************************************************************)
(* A mailbox for one letter, guarded by a lock and two condition variables *)
(* (goroutine/demo_variable_cond.go and demo_variable_cond2.go). A sender  *)
(* waits on sendCond while the box is full, a receiver on recvCond while   *)
(* it is empty; each signals the other's condition after unlocking.        *)
(*                                                                         *)
(* Cond.Wait joins the condition's list before it unlocks, so joining and  *)
(* unlocking are one step here; a woken goroutine takes the lock again and *)
(* then tests its condition again.                                         *)
(***************************************************************************)
EXTENDS Integers, FiniteSets

CONSTANTS Sender,    \* the goroutines that send
          Programs,  \* the programs; one of them runs
          Letters,   \* what the senders send together; max in the code
          SignCap    \* capacity of the channel sign; 3 in the code

  \* A program is a record:
  \*   receiver    the goroutines that receive;
  \*   readLocked  they use lock.RLocker(), not the lock;
  \*   wakeAll     a sender broadcasts instead of signalling.

ASSUME MailboxAssumption ==
  /\ IsFiniteSet(Sender) /\ Sender # {} /\ Letters \in Nat /\ SignCap \in Nat
  /\ \A p \in Programs :
       /\ IsFiniteSet(p.receiver) /\ p.receiver # {} /\ p.receiver \cap Sender = {}
       /\ p.readLocked \in BOOLEAN /\ p.wakeAll \in BOOLEAN

VARIABLES program,   \* the program that runs
          mailbox,   \* 0: empty, 1: full
          inside,    \* who holds the lock
          waiting,   \* who waits on its condition variable
          pc,        \* "idle", "check", "act", "unlock", "wake", "wait", "sign", "done"
          round,     \* round[p]: rounds p has completed
          sent, taken,   \* letters logged as sent and as received
          sign, received \* the channel sign and main's receives from it

vars == <<program, mailbox, inside, waiting, pc, round, sent, taken, sign, received>>
lockVars == <<inside, waiting>>
boxVars == <<mailbox, sent, taken>>
mainVars == <<sign, received>>

Receiver == program.receiver
Proc == Sender \cup Receiver
Goroutine == Sender \cup UNION {p.receiver : p \in Programs}

\* Each sender posts an equal part of the letters, each receiver takes one:
\* max iterations against max, or against max/2 of each of two receivers.
Rounds(p) == Letters \div Cardinality(IF p \in Sender THEN Sender ELSE Receiver)

TypeOK ==
  /\ program \in Programs
  /\ mailbox \in {0, 1}
  /\ inside \subseteq Proc /\ waiting \subseteq Proc
  /\ pc \in [Proc -> {"idle", "check", "act", "unlock", "wake", "wait", "sign", "done"}]
  /\ round \in [Proc -> Nat]
  /\ sent \in Nat /\ taken \in Nat
  /\ sign \in 0..SignCap /\ received \in 0..Cardinality(Proc)

Init ==
  /\ program \in Programs
  /\ mailbox = 0
  /\ inside = {} /\ waiting = {}
  /\ pc = [p \in Proc |-> "idle"]
  /\ round = [p \in Proc |-> 0]
  /\ sent = 0 /\ taken = 0
  /\ sign = 0 /\ received = 0

Exited == received = Cardinality(Proc)

At(p, label) == ~Exited /\ p \in Proc /\ pc[p] = label

Goto(p, label) == pc' = [pc EXCEPT ![p] = label]

Reads(p) == program.readLocked /\ p \in Receiver

CanEnter(p) == IF Reads(p) THEN \A q \in inside : Reads(q) ELSE inside = {}

\* The condition p waits for: the box is empty for a sender, full for a receiver.
Ready(p) == mailbox = (IF p \in Sender THEN 0 ELSE 1)

-----------------------------------------------------------------------------

\* The top of the loop: another round, or the deferred sign.
Loop(p) ==
  /\ At(p, "idle")
  /\ \/ /\ round[p] < Rounds(p) /\ CanEnter(p)
        /\ inside' = inside \cup {p}
        /\ Goto(p, "check")
     \/ /\ round[p] = Rounds(p)
        /\ Goto(p, "sign")
        /\ UNCHANGED inside
  /\ UNCHANGED <<program, waiting, boxVars, round, mainVars>>

\* for mailbox == ... { cond.Wait() }
Check(p) ==
  /\ At(p, "check")
  /\ IF Ready(p)
       THEN Goto(p, "act") /\ UNCHANGED lockVars
       ELSE /\ inside' = inside \ {p}
            /\ waiting' = waiting \cup {p}
            /\ Goto(p, "wait")
  /\ UNCHANGED <<program, boxVars, round, mainVars>>

\* The end of cond.Wait: p has been woken and takes the lock again.
RelockAndAct(p) ==
  /\ At(p, "wait") /\ p \notin waiting
  /\ CanEnter(p)
  /\ inside' = inside \cup {p}
  /\ Goto(p, "act")
  /\ UNCHANGED <<program, waiting, boxVars, round, mainVars>>

Relock(p) ==
  /\ At(p, "wait") /\ p \notin waiting
  /\ CanEnter(p)
  /\ inside' = inside \cup {p}
  /\ Goto(p, "check")
  /\ UNCHANGED <<program, waiting, boxVars, round, mainVars>>

\* mailbox = 1 and its log line; mailbox = 0 and its log line.
Act(p) ==
  /\ At(p, "act")
  /\ IF p \in Sender THEN mailbox' = 1 /\ sent' = sent + 1 /\ UNCHANGED taken
                     ELSE mailbox' = 0 /\ taken' = taken + 1 /\ UNCHANGED sent
  /\ Goto(p, "unlock")
  /\ UNCHANGED <<program, lockVars, round, mainVars>>

Unlock(p) ==
  /\ At(p, "unlock")
  /\ inside' = inside \ {p}
  /\ Goto(p, "wake")
  /\ UNCHANGED <<program, waiting, boxVars, round, mainVars>>

\* recvCond.Signal() or Broadcast(); sendCond.Signal().
WakeOwnSide(p) ==
  /\ At(p, "wake")
  /\ LET others == waiting \cap (IF p \in Sender THEN Sender ELSE Receiver) IN
       \/ others = {} /\ UNCHANGED waiting
       \/ \E q \in others : waiting' = waiting \ {q}
  /\ round' = [round EXCEPT ![p] = @ + 1]
  /\ Goto(p, "idle")
  /\ UNCHANGED <<program, inside, boxVars, mainVars>>

Wake(p) ==
  /\ At(p, "wake")
  /\ LET others == waiting \cap (IF p \in Sender THEN Receiver ELSE Sender) IN
       \/ others = {} /\ UNCHANGED waiting
       \/ p \in Sender /\ program.wakeAll /\ waiting' = waiting \ others
       \/ ~(p \in Sender /\ program.wakeAll) /\ \E q \in others : waiting' = waiting \ {q}
  /\ round' = [round EXCEPT ![p] = @ + 1]
  /\ Goto(p, "idle")
  /\ UNCHANGED <<program, inside, boxVars, mainVars>>

Sign(p) ==
  /\ At(p, "sign")
  /\ sign < SignCap
  /\ sign' = sign + 1
  /\ Goto(p, "done")
  /\ UNCHANGED <<program, lockVars, boxVars, round, received>>

Step(p) == Loop(p) \/ Check(p) \/ Relock(p) \/ Act(p) \/ Unlock(p) \/ Wake(p) \/ Sign(p)

ReceiveUnblocked ==
  /\ ~Exited
  /\ sign' = sign - 1
  /\ received' = received + 1
  /\ UNCHANGED <<program, lockVars, boxVars, pc, round>>

\* <-sign in main
Receive ==
  /\ ~Exited /\ sign > 0
  /\ sign' = sign - 1
  /\ received' = received + 1
  /\ UNCHANGED <<program, lockVars, boxVars, pc, round>>

Terminated == Exited /\ UNCHANGED vars

Next == (\E p \in Proc : Step(p)) \/ Receive \/ Terminated

Spec == Init /\ [][Next]_vars /\ WF_vars(Receive) /\ \A p \in Goroutine : WF_vars(Step(p))

-----------------------------------------------------------------------------
(* Properties *)

\* A goroutine that is about to post or to take still finds its condition
\* true: no wake-up, and no goroutine that ran in between, invalidates the test.
CheckedStillReady == \A p \in Proc : pc[p] = "act" => Ready(p)

\* p goes on to act if its condition is true when it looks.
Looks(p) == pc[p] \in {"check", "act"} \/ (pc[p] = "wait" /\ p \notin waiting)

\* No wake-up is lost: while the condition of a waiting goroutine is true,
\* another one of its side has been woken or is looking, or one of the other
\* side has yet to wake somebody. In particular they never all wait while the
\* condition of one of them is true.
NoLostWakeup ==
  \A p \in waiting : Ready(p) =>
    \E q \in Proc : IF q \in Sender <=> p \in Sender THEN Looks(q)
                                                   ELSE pc[q] \in {"unlock", "wake"}

Slots == INSTANCE Slot

\* The letters go through the box one at a time, and all of them do.
ImplementsSlot == Slots!Spec

\* Every goroutine finishes its rounds and main receives its sign.
MainExits == <>Exited

-----------------------------------------------------------------------------
(* The two programs: the single receiver of demo_variable_cond.go behind    *)
(* the read lock, and the two receivers of demo_variable_cond2.go.          *)

CONSTANTS r1, r2

demo_variable_cond == [receiver |-> {r1}, readLocked |-> TRUE, wakeAll |-> FALSE]

demo_variable_cond2 == [receiver |-> {r1, r2}, readLocked |-> FALSE, wakeAll |-> TRUE]

BothPrograms == {demo_variable_cond, demo_variable_cond2}
=============================================================================
