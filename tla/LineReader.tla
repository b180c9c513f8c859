----------------------------- MODULE LineReader -----------------------------
(***************************************************************************)
(* Read of net/test_read.go: one line from a connection, through a         *)
(* bufio.Reader that is made for the call and takes from the connection    *)
(* whatever has arrived; what it has taken and not returned is lost with   *)
(* it. The bytes of the stream are numbered, so that what a call returns   *)
(* is an interval of them; a bufio.Reader holds at most Size of them.      *)
(*                                                                         *)
(* The caller and the peer are not in the repository: the caller calls     *)
(* Read again and again, the peer sends lines and may close the connection *)
(* anywhere; a peer in lockstep sends a line only after Read has returned  *)
(* the one before.                                                         *)
(***************************************************************************)
EXTENDS Integers, Sequences

CONSTANTS Last,        \* bound: the last byte of the stream
          Ends,        \* the bytes that end a line
          Size,        \* the size of a bufio.Reader; 4096 in the code
          MaxCalls     \* bound: the calls of Read

VARIABLES lockstep, sent, closed,
          taken,       \* the last byte the reader has taken from the connection
          head,        \* the first byte in its buffer
          buffer,      \* <<first, last>> of the bytes in the variable buffer
          results,     \* what the calls have returned
          reading

vars == <<lockstep, sent, closed, taken, head, buffer, results, reading>>

Init ==
  /\ lockstep \in BOOLEAN /\ sent = 0 /\ closed = FALSE
  /\ taken = 0 /\ head = 1 /\ buffer = <<1, 0>> /\ results = <<>>
  /\ reading = FALSE

Held == head..taken
Lines == {p \in Held : p \in Ends}
FirstEnd == CHOOSE p \in Lines : \A q \in Lines : p <= q

Send ==
  /\ ~closed /\ sent < Last
  /\ lockstep /\ sent \in Ends => ~reading /\ results # <<>> /\ results[Len(results)][2] = sent
  /\ sent' = sent + 1
  /\ UNCHANGED <<lockstep, closed, taken, head, buffer, results, reading>>

\* The peer closes the connection, or resets it: then bytes sent are lost.
Close ==
  /\ ~closed /\ closed' = TRUE
  /\ sent' \in taken..sent
  /\ UNCHANGED <<lockstep, taken, head, buffer, results, reading>>

CallWithoutReset ==            \* mistake: buffer is not made anew
  /\ ~reading /\ Len(results) < MaxCalls
  /\ reading' = TRUE
  /\ head' = taken + 1
  /\ UNCHANGED <<lockstep, sent, closed, taken, buffer, results>>

Call ==
  /\ ~reading /\ Len(results) < MaxCalls
  /\ reading' = TRUE
  /\ head' = taken + 1 /\ buffer' = <<taken + 1, taken>>
  /\ UNCHANGED <<lockstep, sent, closed, taken, results>>

\* bufio.Reader.fill: the reader needs more bytes and gets some of those sent.
Fill ==
  /\ reading /\ Lines = {}
  /\ taken' \in {p \in (taken + 1)..sent : p < head + Size}
  /\ UNCHANGED <<lockstep, sent, closed, head, buffer, results, reading>>

\* ReadLine returns the bytes up to p, and Read adds them to what it has.
Return(p) ==
  /\ buffer' = <<buffer[1], p>> /\ head' = p + 1
  /\ results' = Append(results, buffer') /\ reading' = FALSE
  /\ UNCHANGED <<lockstep, sent, closed, taken>>

ReadLine == reading /\ Lines # {} /\ Return(FirstEnd)

PrefixReturned ==              \* mistake: isPrefix is not tested
  reading /\ Lines = {} /\ taken = head + Size - 1 /\ Return(taken)

PrefixDropped ==               \* mistake: only the last part is kept
  /\ reading /\ Lines = {} /\ taken = head + Size - 1
  /\ buffer' = <<taken + 1, taken>> /\ head' = taken + 1
  /\ UNCHANGED <<lockstep, sent, closed, taken, results, reading>>

ReadPrefix ==                  \* the buffer is full: isPrefix, and the loop goes on
  /\ reading /\ Lines = {} /\ taken = head + Size - 1
  /\ buffer' = <<buffer[1], taken>> /\ head' = taken + 1
  /\ UNCHANGED <<lockstep, sent, closed, taken, results, reading>>

ReadEndAgain ==                \* mistake: io.EOF does not end the loop
  reading /\ closed /\ taken = sent /\ Lines = {} /\ UNCHANGED vars

\* The connection has ended, with io.EOF or another error: ReadLine hands out
\* the rest of its bytes without the error and without isPrefix, and an error
\* that comes alone ends the loop as well, line 29 or 36.
ReadEnd == reading /\ closed /\ taken = sent /\ Lines = {} /\ Return(taken)

Terminated == closed /\ ~reading /\ Len(results) = MaxCalls /\ UNCHANGED vars

Goes == Fill \/ ReadLine \/ ReadPrefix \/ ReadEnd

Next == Send \/ Close \/ Call \/ Goes \/ Terminated

Spec == Init /\ [][Next]_vars /\ WF_vars(Goes)

-----------------------------------------------------------------------------
(* Properties *)

\* What Read returns is a line, or the rest of one whose beginning was lost, even
\* if it is longer than the reader (lines 34-37): it ends where a line ends, or
\* where the stream does, and no line ends inside it.
LineOrTail ==
  \A k \in 1..Len(results) :
    /\ results[k][2] \in Ends \/ (closed /\ results[k][2] = sent)
    /\ \A p \in Ends : p < results[k][1] \/ p >= results[k][2]

\* Results begin at the first byte and keep the order of the stream; between two
\* of them is lost at most what one bufio.Reader of line 23 held behind the end of
\* its line, less than Size bytes: the next lines, or the beginning of one.
InOrder ==
  /\ Len(results) > 0 => results[1][1] = 1
  /\ \A k, l \in 1..Len(results) : k < l => results[k][2] < results[l][1]
  /\ \A k \in 2..Len(results) : results[k][1] - results[k - 1][2] <= Size

\* With a peer in lockstep nothing is lost: each call returns what follows the
\* call before, so that a result is a whole line, or the rest of the stream.
LockstepKeepsAll ==
  lockstep => \A k \in 1..Len(results) :
                results[k][1] = IF k = 1 THEN 1 ELSE results[k - 1][2] + 1

\* A call is due to return once the rest of a line has been sent or the
\* connection is closed.
Reading == reading
Due == Reading /\ (closed \/ \E p \in Ends : head <= p /\ p <= sent)
=============================================================================
