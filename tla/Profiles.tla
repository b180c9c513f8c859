------------------------------ MODULE Profiles ------------------------------
(***************************************************************************)
(* performance/demo.go: one file per profile and debug option, written one *)
(* after the other; the first error ends the program. Any call may fail,   *)
(* the program may be killed at any time, and it is run again in the       *)
(* directory it left. CreateFile, which creates or truncates, and Execute  *)
(* are in the package common, which is not in the repository.              *)
(***************************************************************************)
EXTENDS Integers

CONSTANTS Last,        \* the files: 6 names by 3 options, 18 in the code
          MaxRuns      \* bound: the runs of the program

VARIABLES run,
          pc,          \* "dir", "create", "execute", "write", "return" or "end"
          k,           \* the file main is at
          err,
          open,        \* the open files
          file         \* k -> the run that wrote it and whether it is complete

vars == <<run, pc, k, err, open, file>>

Files == 1..Last
Absent == [run |-> 0, complete |-> FALSE]

Init ==
  /\ run = 1 /\ pc = "dir" /\ k = 1 /\ err = FALSE
  /\ open = {} /\ file = [f \in Files |-> Absent]

\* An existing directory is no error.
CreateDir ==
  /\ pc = "dir"
  /\ \E ok \in BOOLEAN : err' = ~ok /\ pc' = IF ok THEN "create" ELSE "end"
  /\ UNCHANGED <<run, k, open, file>>

CreateFile ==
  /\ pc = "create" /\ k \in Files
  /\ \/ /\ open' = open \cup {k} /\ file' = [file EXCEPT ![k] = [run |-> run, complete |-> FALSE]]
        /\ pc' = "execute" /\ UNCHANGED err
     \/ err' = TRUE /\ pc' = "end" /\ UNCHANGED <<open, file>>
  /\ UNCHANGED <<run, k>>

Execute ==
  /\ pc = "execute"
  /\ \E ok \in BOOLEAN : err' = ~ok /\ pc' = IF ok THEN "write" ELSE "return"
  /\ UNCHANGED <<run, k, open, file>>

WriteTo ==
  /\ pc = "write" /\ pc' = "return"
  /\ \E ok \in BOOLEAN : err' = ~ok /\ file' = [file EXCEPT ![k].complete = ok]
  /\ UNCHANGED <<run, k, open>>

\* Mistake: the file is closed only where genProfile ends well.
CloseOnSuccess == IF err THEN open ELSE open \ {k}
\* The deferred f.Close()
CloseDeferred == open \ {k}

\* Mistake: main goes on with the next file.
GoOn == TRUE
StopOnError == ~err

\* genProfile returns, and main looks at its error.
Return ==
  /\ pc = "return"
  /\ open' = CloseDeferred
  /\ IF StopOnError THEN k' = k + 1 /\ pc' = "create" ELSE pc' = "end" /\ UNCHANGED k
  /\ UNCHANGED <<run, err, file>>

Finish ==
  /\ pc = "create" /\ k \notin Files
  /\ pc' = "end"
  /\ UNCHANGED <<run, k, err, open, file>>

Rerun ==
  /\ run < MaxRuns /\ run' = run + 1
  /\ pc' = "dir" /\ k' = 1 /\ err' = FALSE /\ open' = {}
  /\ UNCHANGED file

Terminated == pc = "end" /\ UNCHANGED vars

Next == CreateDir \/ CreateFile \/ Execute \/ WriteTo \/ Return \/ Finish \/ Rerun \/ Terminated

Spec == Init /\ [][Next]_vars

-----------------------------------------------------------------------------
(* Properties *)

\* Between two calls of genProfile, and at the end, no file is left open,
\* whichever call has failed (line 67).
NoFileLeftOpen == pc \in {"dir", "create", "end"} => open = {}

\* What a run has completed is the files up to where it stopped, and only the
\* file it stopped at can be incomplete; a run that ends without an error has
\* replaced every file of the runs before it (48-56).
CompletePrefix ==
  /\ \A f \in Files : file[f] = [run |-> run, complete |-> TRUE] => f <= k
  /\ \A f \in Files : f < k => file[f] = [run |-> run, complete |-> TRUE]
  /\ pc = "end" /\ ~err => \A f \in Files : file[f] = [run |-> run, complete |-> TRUE]
=============================================================================
