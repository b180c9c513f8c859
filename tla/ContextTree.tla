---------------------------- MODULE ContextTree -----------------------------
(***************************************************************************)
(* WithValueDemo of goroutine/demo_context.go: a chain of contexts below   *)
(* context.Background(), ctx1 with a cancelFunc, ctx2 and ctx3 with a      *)
(* value each, ctx4 with a timeout of an hour whose own cancel function is *)
(* thrown away. The deferred cancelFunc of ctx1 must end all of them.      *)
(***************************************************************************)
EXTENDS Integers, Sequences

VARIABLES made,        \* the contexts made so far, ctx1 to ctx4
          err,         \* context -> "nil", "canceled" or "exceeded"
          timer,       \* the timer of ctx4 is pending
          found,       \* the values printed
          pc           \* "run" or "returned"

vars == <<made, err, timer, found, pc>>

Contexts == 1..4
Kind == <<"cancel", "value", "value", "timeout">>
Key == <<"none", "key2", "key3", "none">>

\* The two lookups in ctx3 and the two in ctx4, each made after its context.
Lookups == <<[ctx |-> 3, key |-> "key2"], [ctx |-> 3, key |-> "key3"],
             [ctx |-> 4, key |-> "key2"], [ctx |-> 4, key |-> "key3"]>>

Init ==
  /\ made = 0 /\ err = [c \in Contexts |-> "nil"] /\ timer = FALSE
  /\ found = <<>> /\ pc = "run"

\* WithCancel, WithValue twice, WithTimeout
Make ==
  /\ pc = "run" /\ made < 4
  /\ made = 3 => Len(found) = 2
  /\ made' = made + 1
  /\ timer' = (Kind[made + 1] = "timeout")
  /\ UNCHANGED <<err, found, pc>>

\* Mistake: only the context itself is asked.
ValueOfOne(c, key) == IF Key[c] = key THEN c ELSE 0
\* Value asks the context, then those above it: the context that has the key.
Value(c, key) ==
  LET above[k \in 0..4] == IF k = 0 \/ Key[k] = key THEN k ELSE above[k - 1] IN
  IF key = "none" THEN 0 ELSE above[c]

Look ==
  /\ pc = "run" /\ Len(found) < 4 /\ Lookups[Len(found) + 1].ctx = made
  /\ found' = Append(found, Value(made, Lookups[Len(found) + 1].key))
  /\ UNCHANGED <<made, err, timer, pc>>

\* The contexts that end with c: c and those below it, through the ones with
\* values, unless they have ended before.
BelowDirect(c) == {d \in c..made : d = c \/ (d = c + 1 /\ Kind[d] # "value")}   \* mistake
Below(c) == c..made

Ending(c, e) == [d \in Contexts |-> IF d \in Below(c) /\ err[d] = "nil" THEN e ELSE err[d]]

\* The hour is over; the contexts above ctx4 go on.
Expire ==
  /\ timer /\ pc = "run"
  /\ err' = Ending(4, "exceeded") /\ timer' = FALSE
  /\ UNCHANGED <<made, found, pc>>

\* The deferred cancelFunc; a context that is done stops its timer.
Return ==
  /\ pc = "run" /\ Len(found) = 4
  /\ err' = Ending(1, "canceled")
  /\ timer' = (timer /\ err'[4] = "nil")
  /\ pc' = "returned"
  /\ UNCHANGED <<made, found>>

Terminated == pc = "returned" /\ UNCHANGED vars

Next == Make \/ Look \/ Expire \/ Return \/ Terminated

Spec == Init /\ [][Next]_vars

-----------------------------------------------------------------------------
(* Properties *)

\* ctx3 and ctx4 both know the keys of ctx2 and ctx3 (lines 109-116), whether
\* the timeout has passed or not.
KnowsTheKeys == \A k \in 1..Len(found) : found[k] = IF k % 2 = 1 THEN 2 ELSE 3

\* When WithValueDemo returns no context and no timer is left, although the
\* cancel function of ctx4 was thrown away (lines 105 and 114); until then
\* nothing but the timeout ends a context, and that only ctx4.
NothingLeft ==
  /\ pc = "returned" => ~timer /\ \A c \in Contexts : err[c] # "nil"
  /\ pc = "run" => \A c \in Contexts : err[c] \in {"nil"} \cup (IF c = 4 THEN {"exceeded"} ELSE {})
=============================================================================
