------------------------------ MODULE Channels ------------------------------
(***************************************************************************)
(* The programs of channel/: main and at most one goroutine, which send    *)
(* to, receive from, close and select over a few channels. Such a program  *)
(* is a constant here: a script for each goroutine, whose statements are   *)
(* a line of output, a close, or a select of which a plain send or receive *)
(* is the case with one alternative. ChannelDemos holds the programs.      *)
(*                                                                         *)
(* The channels are the runtime's: a send blocks on a full channel and a   *)
(* receive on an empty open one; a closed channel yields its elements      *)
(* first; on an unbuffered channel a send and its receive are one step;    *)
(* sending on or closing a closed channel panics; a nil channel is never   *)
(* ready; and when every goroutine is blocked the runtime aborts.          *)
(***************************************************************************)
EXTENDS Integers, Sequences, SequencesExt

CONSTANT Demos
  \* The sequence of the programs; a program is [name, cap, script, delivers, ends]:
  \*   cap        the capacity of each channel that is made; the others are nil
  \*   script     the statements of "main" and of the goroutine it starts
  \*   delivers   what main is to receive if it returns
  \*   ends       how the program ends: "return", "panic" or "deadlock"

ASSUME ChannelsAssumption ==
  \A d \in 1..Len(Demos) :
    "main" \in DOMAIN Demos[d].script /\ Demos[d].ends \in {"return", "panic", "deadlock"}

VARIABLES demo,          \* the index of the program that runs
          ch, closed,    \* contents of each channel; the channels closed
          pc,            \* index into the script of each goroutine
          got,           \* what main has received
          outcome        \* "running", "return", "panic" or "deadlock"

vars == <<demo, ch, closed, pc, got, outcome>>

Program == Demos[demo]
Made == DOMAIN Program.cap
Procs == DOMAIN Program.script

TypeOK ==
  /\ demo \in 1..Len(Demos)
  /\ \A c \in Made : Len(ch[c]) <= Program.cap[c]
  /\ closed \subseteq Made
  /\ \A p \in Procs : pc[p] \in 1..(Len(Program.script[p]) + 1)
  /\ outcome \in {"running", "return", "panic", "deadlock"}

Init ==
  /\ demo \in 1..Len(Demos)
  /\ ch = [c \in Made |-> <<>>] /\ closed = {}
  /\ pc = [p \in Procs |-> 1]
  /\ got = <<>>
  /\ outcome = "running"

At(p, what) ==
  /\ outcome = "running" /\ p \in Procs
  /\ pc[p] <= Len(Program.script[p])
  /\ Program.script[p][pc[p]].do = what

Stmt(p) == Program.script[p][pc[p]]

\* The alternatives of p's select on channels that are made, in one direction.
Cases(p, dir) ==
  IF At(p, "select") THEN {k \in Stmt(p).cases : k.dir = dir /\ k.ch \in Made} ELSE {}

\* The next statement, or the end of the goroutine.
Jump(p, n) == pc' = [pc EXCEPT ![p] = @ + n]

Abort(how) == outcome' = how /\ UNCHANGED <<ch, closed, pc, got>>

\* Elements that a goroutine other than main receives go nowhere.
Got(p, e) == got' = IF p = "main" THEN Append(got, e) ELSE got

-----------------------------------------------------------------------------

\* fmt.Printf
PrintLine(p) ==
  /\ At(p, "print")
  /\ Jump(p, Stmt(p).jump)
  /\ UNCHANGED <<demo, ch, closed, got, outcome>>

Close(p) ==
  /\ At(p, "close")
  /\ IF Stmt(p).ch \in closed THEN Abort("panic")
     ELSE /\ closed' = closed \cup {Stmt(p).ch}
          /\ Jump(p, 1)
          /\ UNCHANGED <<ch, got, outcome>>
  /\ UNCHANGED demo

SendOverFull(p) ==
  \E k \in Cases(p, "send") :
    /\ k.ch \notin closed
    /\ ch' = [ch EXCEPT ![k.ch] = Append(@, k.val)]
    /\ Jump(p, k.jump)
    /\ UNCHANGED <<demo, closed, got, outcome>>

Send(p) ==
  \E k \in Cases(p, "send") :
    /\ IF k.ch \in closed THEN Abort("panic")
       ELSE /\ Len(ch[k.ch]) < Program.cap[k.ch]
            /\ ch' = [ch EXCEPT ![k.ch] = Append(@, k.val)]
            /\ Jump(p, k.jump)
            /\ UNCHANGED <<closed, got, outcome>>
    /\ UNCHANGED demo

Receive(p) ==
  \E k \in Cases(p, "receive") :
    /\ ch[k.ch] # <<>>
    /\ ch' = [ch EXCEPT ![k.ch] = Tail(@)]
    /\ Got(p, Head(ch[k.ch]))
    /\ Jump(p, k.jump)
    /\ UNCHANGED <<demo, closed, outcome>>

ReceiveClosedAsElement(p) ==
  \E k \in Cases(p, "receive") :
    /\ k.ch \in closed /\ ch[k.ch] = <<>>
    /\ Jump(p, k.jump)
    /\ UNCHANGED <<demo, ch, closed, got, outcome>>

\* The zero value, and ok = false.
ReceiveClosed(p) ==
  \E k \in Cases(p, "receive") :
    /\ k.ch \in closed /\ ch[k.ch] = <<>>
    /\ Jump(p, k.closedJump)
    /\ UNCHANGED <<demo, ch, closed, got, outcome>>

\* p sends to q on an unbuffered channel.
CanMeet(p, q) ==
  \E k \in Cases(p, "send"), l \in Cases(q, "receive") :
    p # q /\ k.ch = l.ch /\ Program.cap[k.ch] = 0 /\ k.ch \notin closed

Meet(p, q) ==
  /\ CanMeet(p, q)
  /\ \E k \in Cases(p, "send"), l \in Cases(q, "receive") :
       /\ k.ch = l.ch /\ Program.cap[k.ch] = 0
       /\ pc' = [pc EXCEPT ![p] = @ + k.jump, ![q] = @ + l.jump]
       /\ Got(q, k.val)
  /\ UNCHANGED <<demo, ch, closed, outcome>>

\* Some alternative of p's select can proceed without another goroutine.
Ready(p) ==
  \/ \E k \in Cases(p, "send") : k.ch \in closed \/ Len(ch[k.ch]) < Program.cap[k.ch]
  \/ \E k \in Cases(p, "receive") : k.ch \in closed \/ ch[k.ch] # <<>>

Default(p) ==
  /\ At(p, "select") /\ Stmt(p).default /\ ~Ready(p)
  /\ Jump(p, 1)
  /\ UNCHANGED <<demo, ch, closed, got, outcome>>

Step(p) ==
  \/ PrintLine(p) \/ Close(p) \/ Send(p) \/ Receive(p)
  \/ ReceiveClosed(p) \/ Default(p) \/ (\E q \in Procs : Meet(p, q))

-----------------------------------------------------------------------------

\* The program ends with main, whatever the other goroutine is doing.
Return ==
  /\ outcome = "running" /\ pc["main"] > Len(Program.script["main"])
  /\ outcome' = "return"
  /\ UNCHANGED <<demo, ch, closed, pc, got>>

\* fatal error: all goroutines are asleep - deadlock!
Asleep ==
  /\ At("main", "select")
  /\ \A p \in Procs :
       \/ pc[p] > Len(Program.script[p])
       \/ /\ At(p, "select") /\ ~Stmt(p).default /\ ~Ready(p)
          /\ \A q \in Procs : ~CanMeet(p, q) /\ ~CanMeet(q, p)
  /\ outcome' = "deadlock"
  /\ UNCHANGED <<demo, ch, closed, pc, got>>

Terminated == outcome # "running" /\ UNCHANGED vars

Next == (\E p \in Procs : Step(p)) \/ Return \/ Asleep \/ Terminated

Spec ==
  /\ Init /\ [][Next]_vars
  /\ WF_vars(Return) /\ WF_vars(Asleep)
  /\ \A p \in UNION {DOMAIN Demos[d].script : d \in 1..Len(Demos)} : WF_vars(Step(p))

-----------------------------------------------------------------------------
(* Properties *)

\* A main that returns has received everything that was meant for it, in the
\* order in which it was sent, although the channel is closed, or the process
\* ends, while elements may still be on their way.
Delivered == outcome = "return" => got = Program.delivers

\* A program ends only in the way its comments and its output in the docs say:
\* no schedule makes a program that returns panic or block, or the reverse.
EndsOneWay == outcome # "running" => outcome = Program.ends

\* Every program ends: no loop over a select goes on for ever.
Ends == <>(outcome # "running")
=============================================================================
