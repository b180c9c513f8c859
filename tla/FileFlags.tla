----------------------------- MODULE FileFlags ------------------------------
(***************************************************************************)
(* os_exec/demo_file.go: a file in the temporary directory is opened three *)
(* times with different flags, written to and read back (example 1), then  *)
(* truncated and opened once more with O_EXCL (example 2).                 *)
(*                                                                         *)
(* The file outlives the program: the program may be killed between any    *)
(* two calls, and is run again on what it left. Any call may fail, a write *)
(* without having written. The records have one length, so that one        *)
(* written at offset 0 replaces the first one of the file. The program     *)
(* closes none of the files it opens, so that up to seven descriptors stay *)
(* open until it ends; they are not modelled, and nothing is claimed of    *)
(* them.                                                                   *)
(***************************************************************************)
EXTENDS Integers, Sequences

CONSTANT MaxRuns       \* bound: the runs of the program

VARIABLES run, i,      \* the opens 1 to 3 are the loop, 4 and 5 example 2
          pc,          \* "open", "write", "read" or "end"
          exists, contents,
          created,     \* the first open of this run has succeeded
          shown,       \* i -> what iteration i of this run has read back
          excl         \* "refused" or "created" by the last open, or "none"

vars == <<run, i, pc, exists, contents, created, shown, excl>>

FlagsWithoutAppend == <<{"CREATE", "TRUNC"}, {}, {}, {"CREATE", "TRUNC"}, {"CREATE", "EXCL"}>>
FlagsWithoutTrunc == <<{"CREATE"}, {}, {"APPEND"}, {"CREATE", "TRUNC"}, {"CREATE", "EXCL"}>>
Flags == <<{"CREATE", "TRUNC"}, {}, {"APPEND"}, {"CREATE", "TRUNC"}, {"CREATE", "EXCL"}>>
Record == [run |-> run, i |-> i]

Begin(r) ==
  /\ run' = r /\ i' = 1 /\ pc' = "open"
  /\ created' = FALSE /\ shown' = <<>> /\ excl' = "none"

Init ==
  /\ run = 1 /\ i = 1 /\ pc = "open"
  /\ exists \in BOOLEAN /\ contents = <<>>
  /\ created = FALSE /\ shown = <<>> /\ excl = "none"

\* The next iteration, after an error too; after the loop, example 2.
Continue == i' = i + 1 /\ pc' = "open"

Admits(flag) == IF exists THEN "EXCL" \notin flag ELSE "CREATE" \in flag

OpenFile ==
  /\ pc = "open" /\ i < 5 /\ Admits(Flags[i])
  /\ exists' = TRUE
  /\ contents' = IF "TRUNC" \in Flags[i] THEN <<>> ELSE contents
  /\ created' = (created \/ i = 1)
  /\ IF i = 4 THEN Continue ELSE pc' = "write" /\ i' = i
  /\ UNCHANGED <<run, shown, excl>>

OpenIgnored ==                 \* mistake: example 2 goes on after an error
  /\ pc = "open" /\ i < 5 /\ Continue
  /\ UNCHANGED <<run, exists, contents, created, shown, excl>>

OpenFails ==
  /\ pc = "open" /\ i < 5
  /\ IF i < 4 THEN Continue ELSE pc' = "end" /\ i' = i
  /\ UNCHANGED <<run, exists, contents, created, shown, excl>>

OpenExclusive ==
  /\ pc = "open" /\ i = 5
  /\ excl' = IF Admits(Flags[i]) THEN "created" ELSE "refused"
  /\ exists' = TRUE
  /\ pc' = "end"
  /\ UNCHANGED <<run, i, contents, created, shown>>

WriteString ==
  /\ pc = "write" /\ pc' = "read"
  /\ contents' = IF "APPEND" \in Flags[i] \/ contents = <<>> THEN Append(contents, Record)
                 ELSE [contents EXCEPT ![1] = Record]
  /\ UNCHANGED <<run, i, exists, created, shown, excl>>

ReadAll ==
  /\ pc = "read" /\ Continue
  /\ shown' = [k \in DOMAIN shown \cup {i} |-> IF k = i THEN contents ELSE shown[k]]
  /\ UNCHANGED <<run, exists, contents, created, excl>>

\* A write, an Open or a ReadAll that fails ends the iteration.
Fails ==
  /\ pc \in {"write", "read"} /\ Continue
  /\ UNCHANGED <<run, exists, contents, created, shown, excl>>

\* The program has ended, or is killed, and is run again.
Rerun == run < MaxRuns /\ Begin(run + 1) /\ UNCHANGED <<exists, contents>>

Terminated == pc = "end" /\ UNCHANGED vars

Next ==
  \/ OpenFile \/ OpenFails \/ OpenExclusive \/ WriteString \/ ReadAll
  \/ Fails \/ Rerun \/ Terminated

Spec == Init /\ [][Next]_vars

-----------------------------------------------------------------------------
(* Properties *)

\* An iteration reads back what it has just written where its flags put it:
\* alone, at the beginning, or after all that the second one showed (38-64).
RecordInPlace ==
  LET Own(k) == [run |-> run, i |-> k] IN
  /\ 1 \in DOMAIN shown => shown[1] = <<Own(1)>>
  /\ 2 \in DOMAIN shown => shown[2][1] = Own(2)
  /\ 3 \in DOMAIN shown => shown[3][Len(shown[3])] = Own(3)
  /\ {2, 3} \subseteq DOMAIN shown => shown[3] = Append(shown[2], Own(3))

\* After a successful first open nothing of an earlier run is shown, wherever
\* that run was killed (line 25).
NothingOld ==
  created => \A k \in DOMAIN shown : \A m \in 1..Len(shown[k]) : shown[k][m].run = run

\* The last open always meets the file the one before it has made, and is
\* refused; that is why example 2 returns when the first of them fails (72).
ExclusiveRefused == excl # "created"
=============================================================================
