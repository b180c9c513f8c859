----------------------------- MODULE Unwinding ------------------------------
(***************************************************************************)
(* error/test_defer.go, test_panic.go and test_panic2.go: deferred calls,  *)
(* a panic that nobody recovers, and one that the deferred function of     *)
(* main recovers. The bodies are scripts, run on a stack of frames: a      *)
(* frame that has ended, or through which a panic goes, runs its deferred  *)
(* calls, the last one first. The panic of an index out of range and the   *)
(* one of panic() are alike.                                               *)
(***************************************************************************)
EXTENDS Integers, Sequences, SequencesExt

VARIABLES prog,
          stack,       \* the frames, the running one last
          i,           \* the loop variable of test_defer.go
          panicking,
          output       \* what has been printed

vars == <<prog, stack, i, panicking, output>>

Do(op, x) == [op |-> op, x |-> x]

Bodies ==
  [test_defer |->
     <<Do("defer", "first"),
       Do("defer", "i"), Do("inc", "i"), Do("defer", "i"), Do("inc", "i"), Do("defer", "i"),
       Do("inc", "i"), Do("defer", "last")>>,
   test_panic |-> <<Do("print", "enter_main"), Do("call", "caller1"), Do("print", "exit_main")>>,
   caller1 |-> <<Do("print", "enter_1"), Do("call", "caller2"), Do("print", "exit_1")>>,
   caller2 |-> <<Do("print", "enter_2"), Do("panic", "err"), Do("print", "exit_2")>>,
   test_panic2 |->
     <<Do("print", "enter_main"), Do("defer", "func"), Do("recover", "p"), Do("panic", "err"),
       Do("recover", "p"), Do("print", "exit_main")>>,
   func |-> <<Do("print", "enter_func"), Do("recover", "p"), Do("print", "exit_func")>>]

\* by: the frame was called by a deferred call while a panic went through.
Frame(f, by) == [f |-> f, pc |-> 1, defers |-> <<>>, by |-> by]
Top == stack[Len(stack)]
End(f) == Len(Bodies[f]) + 1
At(op) == stack # <<>> /\ Top.pc < End(Top.f) /\ Bodies[Top.f][Top.pc].op = op
Arg == Bodies[Top.f][Top.pc].x
Stepped == [stack EXCEPT ![Len(stack)].pc = @ + 1]

Init ==
  /\ prog \in {"test_defer", "test_panic", "test_panic2"}
  /\ stack = <<Frame(prog, FALSE)>> /\ i = 0 /\ panicking = FALSE /\ output = <<>>

Say ==
  /\ At("print")
  /\ output' = Append(output, Arg) /\ stack' = Stepped
  /\ UNCHANGED <<prog, i, panicking>>

ArgumentLater(x) == x                \* mistake: evaluated when it is called
Argument(x) == IF x = "i" THEN <<"0", "1", "2">>[i + 1] ELSE x

\* The arguments of a deferred call are evaluated by the defer statement.
Defer ==
  /\ At("defer")
  /\ stack' = [Stepped EXCEPT ![Len(stack)].defers = Append(@, Argument(Arg))]
  /\ UNCHANGED <<prog, i, panicking, output>>

Increment ==
  /\ At("inc")
  /\ i' = i + 1 /\ stack' = Stepped
  /\ UNCHANGED <<prog, panicking, output>>

Call ==
  /\ At("call")
  /\ stack' = Append(Stepped, Frame(Arg, FALSE))
  /\ UNCHANGED <<prog, i, panicking, output>>

\* What follows the panic in its function is left out.
Panic ==
  /\ At("panic")
  /\ panicking' = TRUE
  /\ stack' = [stack EXCEPT ![Len(stack)].pc = End(Top.f)]
  /\ UNCHANGED <<prog, i, output>>

\* recover() finds a panic in a deferred function only.
Recover ==
  LET found == panicking /\ Top.by IN
  /\ At("recover")
  /\ output' = Append(output, IF found THEN "panic" ELSE "no_panic")
  /\ panicking' = (panicking /\ ~found)
  /\ stack' = Stepped
  /\ UNCHANGED <<prog, i>>

FirstDeferred(defers) == 1           \* mistake: in the order of the statements
LastDeferred(defers) == Len(defers)

\* A frame that has come to its end runs a deferred call, a function or a print.
RunDeferred ==
  LET k == LastDeferred(Top.defers)
      left == [stack EXCEPT ![Len(stack)].defers = RemoveAt(@, k)] IN
  /\ stack # <<>> /\ Top.pc = End(Top.f) /\ Top.defers # <<>>
  /\ IF Top.defers[k] = "func"
       THEN stack' = Append(left, Frame("func", panicking)) /\ UNCHANGED output
       ELSE stack' = left /\ output' = Append(output, Top.defers[k])
  /\ UNCHANGED <<prog, i, panicking>>

\* The frame is left; a panic brings the one below to its end too.
Leave ==
  LET below == Len(stack) - 1 IN
  /\ stack # <<>> /\ Top.pc = End(Top.f) /\ Top.defers = <<>>
  /\ stack' = IF panicking /\ below > 0
                THEN [Front(stack) EXCEPT ![below].pc = End(stack[below].f)]
                ELSE Front(stack)
  /\ UNCHANGED <<prog, i, panicking, output>>

Exited == stack = <<>>
Terminated == Exited /\ UNCHANGED vars

Next ==
  \/ Say \/ Defer \/ Increment \/ Call \/ Panic \/ Recover
  \/ RunDeferred \/ Leave \/ Terminated

Spec == Init /\ [][Next]_vars

-----------------------------------------------------------------------------
(* Properties *)

\* The deferred calls come in reverse order, each with the number its defer
\* statement saw (test_defer.go:6-10); no function prints its exit once the
\* panic has gone through it (test_panic.go:9-24); a recover before the panic
\* finds none, the one in the deferred function does, and nothing after the
\* panic in main is run (test_panic2.go:15-32).
RunsDeferred ==
  Exited =>
    /\ panicking = (prog = "test_panic")
    /\ prog = "test_defer" => output = <<"last", "2", "1", "0", "first">>
    /\ prog = "test_panic" => output = <<"enter_main", "enter_1", "enter_2">>
    /\ prog = "test_panic2" =>
         output = <<"enter_main", "no_panic", "enter_func", "panic", "exit_func">>
=============================================================================
