------------------------------ MODULE OsErrors ------------------------------
(***************************************************************************)
(* error/underlying_error.go: errors of the operating system are provoked, *)
(* unwrapped and classified, twice in two ways, and the one variable f     *)
(* holds several files after one another, beside the two ends of a pipe.   *)
(* An error is its wrapper and the error inside; what the calls answer     *)
(* depends on the machine: whether the path of line 43 exists, and may     *)
(* come and go, whether GOROOT exists, and which of its two errors for a   *)
(* missing permission exec.LookPath wraps. The error of the write to the   *)
(* pipe is printed without being classified, and left out.                 *)
(***************************************************************************)
EXTENDS Integers, Sequences

VARIABLES step,
          f,           \* the file f refers to, or "nil"
          open,        \* the files that are open; the runtime may close one
                       \* that nobody refers to, which is not modelled
          closes,      \* the calls of Close on each file, for the properties
          shown        \* what printError and printError2 have printed

vars == <<step, f, open, closes, shown>>

\* The ends of the pipe, os.Args[0], and paths[1] opened twice
Files == {"r", "w", "self", "first", "second"}

NoError == [wrap |-> "none", err |-> "nil"]
Wrapped(w, e) == [wrap |-> w, err |-> e]

\* Mistake: a wrapper has been forgotten.
underlyingErrorNotExec(e) == IF e.wrap \in {"PathError"} THEN Wrapped("none", e.err) ELSE e
underlyingError(e) ==
  IF e.wrap \in {"PathError", "LinkError", "SyscallError", "exec.Error"}
    THEN Wrapped("none", e.err) ELSE e

\* printError compares with three values, printError2 asks what an error means.
printError(e) ==
  LET u == underlyingError(e) IN
  IF e = NoError THEN "nil"
  ELSE IF u.wrap = "none" /\ u.err \in {"closed", "invalid", "permission"} THEN u.err ELSE "nothing"

printError2(e) ==
  LET u == underlyingError(e) IN
  CASE e = NoError -> "nil"
    [] u = Wrapped("none", "EEXIST") -> "exist"
    [] u = Wrapped("none", "ENOENT") -> "notexist"
    [] u \in {Wrapped("none", "permission"), Wrapped("none", "EACCES")} -> "permission"
    [] OTHER -> "other"

Init ==
  /\ step = 0 /\ f = "nil" /\ open = {}
  /\ closes = [x \in Files |-> 0] /\ shown = <<>>

At(n) == step = n /\ step' = n + 1
Close(x) == open' = open \ {x} /\ closes' = [closes EXCEPT ![x] = @ + 1]
Show(tag) == shown' = Append(shown, tag)

\* os.Open(paths[1]) into f: nil where the path does not exist.
OpenPath(x) ==
  \/ f' = "nil" /\ UNCHANGED open
  \/ f' = x /\ open' = open \cup {x}

\* Example 1: os.Pipe, which may fail, r.Close() and a write to w.
OpenPipe ==
  /\ \/ /\ At(0)
        /\ open' = open \cup {"w"} /\ closes' = [closes EXCEPT !["r"] = @ + 1]
     \/ step = 0 /\ step' = 9 /\ UNCHANGED <<open, closes>>
  /\ UNCHANGED <<f, shown>>

\* The first block of example 2: os.Open of os.Args[0] may fail.
ReadClosed ==
  \/ /\ At(1)
     /\ f' = "self" /\ Close("self")
     /\ Show(printError(Wrapped("PathError", "closed")))
  \/ step = 1 /\ step' = 9 /\ UNCHANGED <<f, open, closes, shown>>

\* Mistake: f is declared anew in the block.
StatShadowed ==
  /\ At(2)
  /\ \E there \in BOOLEAN :
       /\ open' = IF there THEN open \cup {"first"} ELSE open
       /\ Show(printError(IF there THEN NoError ELSE Wrapped("none", "invalid")))
  /\ UNCHANGED <<f, closes>>

\* Stat of a nil file is os.ErrInvalid itself.
Stat ==
  /\ At(2)
  /\ OpenPath("first")
  /\ Show(printError(IF f' = "nil" THEN Wrapped("none", "invalid") ELSE NoError))
  /\ UNCHANGED closes

\* The errors of exec.LookPath for a file that cannot be executed.
LookPath == {Wrapped("exec.Error", e) : e \in {"permission", "EACCES"}}

LookDevNull ==
  /\ At(3) /\ \E e \in LookPath : Show(printError(e))
  /\ UNCHANGED <<f, open, closes>>

CloseF ==
  /\ At(4) \/ At(8)
  /\ IF f # "nil" THEN Close(f) ELSE UNCHANGED <<open, closes>>
  /\ UNCHANGED <<f, shown>>

\* Example 3
Mkdir ==
  /\ At(5)
  /\ \E e \in {NoError} \cup {Wrapped("PathError", x) : x \in {"EEXIST", "ENOENT", "EACCES"}} :
       Show(printError2(e))
  /\ UNCHANGED <<f, open, closes>>

OpenMissing ==
  /\ At(6)
  /\ OpenPath("second")
  /\ Show(printError2(IF f' = "nil" THEN Wrapped("PathError", "ENOENT") ELSE NoError))
  /\ UNCHANGED closes

LookDevNull2 ==
  /\ At(7) /\ \E e \in LookPath : Show(printError2(e))
  /\ UNCHANGED <<f, open, closes>>

Terminated == step = 9 /\ UNCHANGED vars

Next ==
  \/ OpenPipe \/ ReadClosed \/ Stat \/ LookDevNull \/ CloseF
  \/ Mkdir \/ OpenMissing \/ LookDevNull2 \/ Terminated

Spec == Init /\ [][Next]_vars

-----------------------------------------------------------------------------
(* Properties *)

\* Whatever exists on the machine, no file is closed twice, and at the end none
\* that f has held is still open, although f is assigned three times and tested
\* only twice (lines 65, 78, 88, 122 and 130). The end w of the pipe is: the
\* program never closes it (line 27).
ClosedOnce ==
  /\ \A x \in Files : closes[x] <= 1
  /\ step = 9 => open \subseteq {"w"} /\ closes["w"] = 0

\* The errors are told apart as the comments say (70, 77 and 84), except that
\* printError prints nothing for the second error of exec.LookPath, which
\* printError2 recognises.
ToldApart ==
  \A n \in 1..Len(shown) :
    CASE n = 1 -> shown[n] = "closed"
      [] n = 2 -> shown[n] \in {"invalid", "nil"}
      [] n = 3 -> shown[n] \in {"permission", "nothing"}
      [] n = 4 -> shown[n] # "other"
      [] n = 5 -> shown[n] \in {"notexist", "nil"}
      [] n = 6 -> shown[n] = "permission"
=============================================================================
