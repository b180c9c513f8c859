-------------------------------- MODULE Pipe --------------------------------
(***************************************************************************)
(* Example 6 of io/demo.go: one goroutine writes `comments` to an io.Pipe  *)
(* and closes it, another one reads into wBuf until it gets an error, and  *)
(* main waits for both. A comment is its length.                           *)
(*                                                                         *)
(* The pipe holds nothing: a Write blocks until Reads have taken all of    *)
(* its bytes, and a Read blocks until there is a Write or the pipe is      *)
(* closed.                                                                 *)
(***************************************************************************)
EXTENDS Integers, Sequences, FiniteSetsExt

CONSTANTS Comments,   \* sequence of the lengths; <<42, 54, 33>> in the code
          Sizes       \* lengths of wBuf to try; the code's is 55

VARIABLES wBuf,       \* the length of wBuf
          wpc,        \* the writer: "sleep", "write", "print", "close", "wg", "done"
          d,          \* the index of its comment
          rest,       \* the bytes of d that no Read has taken
          rpc,        \* the reader: "read", "print", "wg", "done"
          closed,
          wg,         \* the counter of the WaitGroup
          written,    \* how many "Written" lines have been printed
          taken       \* the bytes that Reads have returned: the sum of the n's

vars == <<wBuf, wpc, d, rest, rpc, closed, wg, written, taken>>
writerVars == <<wpc, d, closed, written>>

TypeOK ==
  /\ wBuf \in Sizes
  /\ d \in 1..(Len(Comments) + 1)
  /\ rest # 0 => /\ d <= Len(Comments) /\ rest \in 1..Comments[d]
                 /\ wpc = "write"
  /\ wg \in 0..2
  /\ written \in 0..Len(Comments)

Init ==
  /\ wBuf \in Sizes
  /\ wpc = "sleep" /\ d = 1 /\ rest = 0
  /\ rpc = "read"
  /\ closed = FALSE
  /\ wg = 2
  /\ written = 0
  /\ taken = 0

-----------------------------------------------------------------------------

\* for _, d := range comments { time.Sleep(...); pWriter.Write(d) ...
\* Nobody closes pReader, so Write never returns an error.
Sleep ==
  /\ wpc = "sleep"
  /\ IF d <= Len(Comments)
       THEN rest' = Comments[d] /\ wpc' = "write"
       ELSE rest' = 0 /\ wpc' = "close"
  /\ UNCHANGED <<wBuf, d, rpc, closed, wg, written, taken>>

\* A Write and a Read meet; the Write returns when nothing is left of d.
Transfer ==
  /\ wpc = "write" /\ rpc = "read"
  /\ LET n == Min({wBuf, rest}) IN
       /\ rest' = rest - n
       /\ taken' = taken + n
       /\ wpc' = IF n = rest THEN "print" ELSE wpc
  /\ rpc' = "print"
  /\ UNCHANGED <<wBuf, d, closed, wg, written>>

PrintWritten ==
  /\ wpc = "print"
  /\ written' = written + 1
  /\ d' = d + 1
  /\ wpc' = "sleep"
  /\ UNCHANGED <<wBuf, rest, rpc, closed, wg, taken>>

Close ==
  /\ wpc = "close"
  /\ closed' = TRUE
  /\ wpc' = "wg"
  /\ UNCHANGED <<wBuf, d, rest, rpc, wg, written, taken>>

PrintRead ==
  /\ rpc = "print"
  /\ rpc' = "read"
  /\ UNCHANGED <<wBuf, rest, wg, taken, writerVars>>

\* n, err := pReader.Read(wBuf); if err != nil { ...; break }
ReadGivenUp ==
  /\ rpc = "read" /\ wpc \in {"sleep", "close"}
  /\ rpc' = "wg"
  /\ UNCHANGED <<wBuf, rest, wg, taken, writerVars>>

ReadEOF ==
  /\ rpc = "read" /\ closed
  /\ rpc' = "wg"
  /\ UNCHANGED <<wBuf, rest, wg, taken, writerVars>>

\* defer wg.Done()
DoneWriter ==
  /\ wpc = "wg"
  /\ wg' = wg - 1
  /\ wpc' = "done"
  /\ UNCHANGED <<wBuf, d, rest, rpc, closed, written, taken>>

DoneReader ==
  /\ rpc = "wg"
  /\ wg' = wg - 1
  /\ rpc' = "done"
  /\ UNCHANGED <<wBuf, rest, taken, writerVars>>

\* wg.Wait()
Exited == wg = 0

Terminated == Exited /\ UNCHANGED vars

WriterSide == Sleep \/ PrintWritten \/ Close \/ DoneWriter
ReaderSide == PrintRead \/ ReadEOF \/ DoneReader

Next == WriterSide \/ ReaderSide \/ Transfer \/ Terminated

Spec ==
  Init /\ [][Next]_vars
       /\ WF_vars(WriterSide) /\ WF_vars(ReaderSide) /\ WF_vars(Transfer)

-----------------------------------------------------------------------------
(* Properties *)

\* The bytes of the first k comments.
Total(k) == MapThenSumSet(LAMBDA n : Comments[n], 1..k)

\* "Written" is printed for a comment only when the reader has every byte of it
\* and of those before it, and the reader is at most in the next one.
Synchronous ==
  /\ taken >= Total(written)
  /\ taken <= Total(Min({written + 1, Len(Comments)}))

\* The reader stops only at the end of the data, so the writer is never left
\* alone in a Write, and main prints everything before it returns.
ReadsToTheEnd == rpc \in {"wg", "done"} => taken = Total(Len(Comments))

\* Both goroutines end, whatever the length of wBuf.
MainExits == <>Exited
=============================================================================
