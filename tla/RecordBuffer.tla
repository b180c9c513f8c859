---------------------------- MODULE RecordBuffer ----------------------------
(***************************************************************************)
(* goroutine/demo_sync.go: writers put records that end in '\t' into one   *)
(* bytes.Buffer under the mutex mu; readers take one record each with      *)
(* ReadString('\t') under mu, and try again later on io.EOF. Each side     *)
(* counts its bytes under a mutex of its own. main receives one sign from  *)
(* each goroutine.                                                         *)
(*                                                                         *)
(* A record is two bytes here, its body and its tab. `buffer` keeps every  *)
(* byte written and `off` is the read offset, as in bytes.Buffer. The      *)
(* critical section of counterMu holds a single +=, so count is one step;  *)
(* the one of mu is spelled out. A bytes.Buffer returns no error but       *)
(* io.EOF, so the other error branches are dead.                           *)
(***************************************************************************)
EXTENDS Integers, Sequences, FiniteSets

\* The readers take as many records as the writers put in, 20 in the code.
CONSTANTS Writer, Reader,          \* 5 and 10 goroutines in the code
          WriteNumber, ReadNumber, \* records of each: 4 and 2 in the code
          NoOne

Proc == Writer \cup Reader

\* The byte '\t', which is in nobody's body.
Tab == <<NoOne, 0>>

VARIABLES mu,
          buffer, off,
          pc,       \* "lock", "body", "tab", "read", "unlock", "count", "done"
          round,    \* round[p]: the j of p's loop, from 0
          data,     \* data[r]: the range <<from, to>> of buffer r has read
          written, read,    \* the two counters, in bytes
          sign, received

vars == <<mu, buffer, off, pc, round, data, written, read, sign, received>>
bufferVars == <<buffer, off, data>>
countVars == <<written, read>>
mainVars == <<sign, received>>

TypeOK ==
  /\ mu \in Proc \cup {NoOne}
  /\ off \in 0..Len(buffer)
  /\ \A p \in Proc : round[p] \in 0..(IF p \in Writer THEN WriteNumber ELSE ReadNumber)
  /\ \A r \in Reader : data[r][1] <= data[r][2] /\ data[r][2] <= off
  /\ written \in Nat /\ read \in Nat
  /\ sign \in 0..Cardinality(Proc) /\ received \in 0..Cardinality(Proc)

Init ==
  /\ mu = NoOne
  /\ buffer = <<>> /\ off = 0
  /\ pc = [p \in Proc |-> "lock"]
  /\ round = [p \in Proc |-> 0]
  /\ data = [r \in Reader |-> <<0, 0>>]
  /\ written = 0 /\ read = 0
  /\ sign = 0 /\ received = 0

Exited == received = Cardinality(Proc)

At(p, label) == ~Exited /\ pc[p] = label

Goto(p, label) == pc' = [pc EXCEPT ![p] = label]

-----------------------------------------------------------------------------
(* Both loops: lock, work, unlock, count. The sleep of an iteration only    *)
(* delays the lock.                                                        *)

Number(p) == IF p \in Writer THEN WriteNumber ELSE ReadNumber

LockMissing(p) ==
  /\ At(p, "lock") /\ round[p] < Number(p)
  /\ Goto(p, IF p \in Writer THEN "body" ELSE "read")
  /\ UNCHANGED <<mu, bufferVars, round, countVars, mainVars>>

Lock(p) ==
  /\ At(p, "lock") /\ round[p] < Number(p) /\ mu = NoOne
  /\ mu' = p
  /\ Goto(p, IF p \in Writer THEN "body" ELSE "read")
  /\ UNCHANGED <<bufferVars, round, countVars, mainVars>>

\* What ReadString returned at the end of the buffer: io.EOF.
Eof(p) == p \in Reader /\ (data[p][1] = data[p][2] \/ buffer[data[p][2]] # Tab)

\* data and n of the iteration go out of use.
Forget(p) == data' = [r \in Reader |-> IF r = p THEN <<0, 0>> ELSE data[r]]

\* defer mu.Unlock(); a reader that met the end of the buffer sleeps again.
Unlock(p) ==
  /\ At(p, "unlock")
  /\ mu' = NoOne
  /\ Goto(p, IF Eof(p) THEN "lock" ELSE "count")
  /\ IF Eof(p) THEN Forget(p) ELSE UNCHANGED data
  /\ UNCHANGED <<buffer, off, round, countVars, mainVars>>

\* count(n), the log line and the next iteration.
Count(p) ==
  /\ At(p, "count")
  /\ IF p \in Writer THEN written' = written + 2 /\ UNCHANGED read
                     ELSE read' = read + data[p][2] - data[p][1] /\ UNCHANGED written
  /\ round' = [round EXCEPT ![p] = @ + 1]
  /\ Goto(p, "lock") /\ Forget(p)
  /\ UNCHANGED <<mu, buffer, off, mainVars>>

-----------------------------------------------------------------------------
(* The critical sections *)

\* writer.Write([]byte(data)), byte by byte
WriteBody(w) ==
  /\ At(w, "body")
  /\ buffer' = Append(buffer, <<w, round[w]>>)
  /\ Goto(w, "tab")
  /\ UNCHANGED <<mu, off, data, round, countVars, mainVars>>

WriteTab(w) ==
  /\ At(w, "tab")
  /\ buffer' = Append(buffer, Tab)
  /\ Goto(w, "unlock")
  /\ UNCHANGED <<mu, off, data, round, countVars, mainVars>>

\* buffer.ReadString('\t'): up to the first tab, or else everything there is.
ReadString(r) ==
  /\ At(r, "read")
  /\ LET tabs == {k \in (off + 1)..Len(buffer) : buffer[k] = Tab}
         to == IF tabs = {} THEN Len(buffer) ELSE CHOOSE k \in tabs : \A l \in tabs : k <= l
     IN off' = to /\ data' = [data EXCEPT ![r] = <<off, to>>]
  /\ Goto(r, "unlock")
  /\ UNCHANGED <<mu, buffer, round, countVars, mainVars>>

-----------------------------------------------------------------------------

\* defer func() { sign <- struct{}{} }(): the channel has room for everyone.
SignForgotten(p) ==
  /\ At(p, "lock") /\ round[p] = Number(p)
  /\ Goto(p, "done")
  /\ UNCHANGED <<mu, bufferVars, round, countVars, mainVars>>

Sign(p) ==
  /\ At(p, "lock") /\ round[p] = Number(p) /\ sign < Cardinality(Proc)
  /\ sign' = sign + 1
  /\ Goto(p, "done")
  /\ UNCHANGED <<mu, bufferVars, round, countVars, received>>

Step(p) ==
  \/ Lock(p) \/ Unlock(p) \/ Count(p) \/ Sign(p)
  \/ p \in Writer /\ (WriteBody(p) \/ WriteTab(p))
  \/ p \in Reader /\ ReadString(p)

\* <-sign in main
Receive ==
  /\ ~Exited /\ sign > 0
  /\ sign' = sign - 1 /\ received' = received + 1
  /\ UNCHANGED <<mu, bufferVars, pc, round, countVars>>

Terminated == Exited /\ UNCHANGED vars

Next == (\E p \in Proc : Step(p)) \/ Receive \/ Terminated

\* A sync.Mutex hands itself over to a waiter that has waited too long, so a
\* goroutine that keeps asking for mu gets it (strong fairness of Lock).
Spec ==
  /\ Init /\ [][Next]_vars /\ WF_vars(Receive)
  /\ \A p \in Proc : WF_vars(Step(p)) /\ SF_vars(Lock(p))

-----------------------------------------------------------------------------
(* Properties *)

\* A reader that logs has read one whole record, and one that tries again has
\* taken nothing out of the buffer: no record is torn and none is lost.
WholeRecords ==
  \A r \in Reader :
    /\ pc[r] = "count" => /\ data[r][2] = data[r][1] + 2
                          /\ buffer[data[r][1] + 1] \in Writer \X Nat
                          /\ buffer[data[r][2]] = Tab
    /\ pc[r] = "unlock" /\ Eof(r) => data[r][1] = data[r][2]

\* The bytes read are never more than the bytes taken out of the buffer, and
\* when main leaves both counters stand at everything that was written.
CountersAgree ==
  /\ read <= off
  /\ Exited => written = Len(buffer) /\ read = Len(buffer)

\* Readers that come too early do not keep the writers out, and main leaves.
MainExits == <>Exited
=============================================================================
