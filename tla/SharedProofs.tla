---------------------------- MODULE SharedProofs ----------------------------
(***************************************************************************)
(* What the programs of SharedDemos keep true, each of them an inductive   *)
(* invariant of its module:                                                *)
(*   - io/demo.go (PipeInv): the reader and the writer of the pipe stay in *)
(*     step, whatever the length of wBuf;                                  *)
(*   - demo_sync.go (RecordInv): the goroutines take turns inside the      *)
(*     mutex, bodies and tabs take turns in the buffer, and the bytes in   *)
(*     it are those that the writers have counted or are about to;         *)
(*   - demo_mutex.go (BlockInv): with the mutex the writer that holds it   *)
(*     is at the end of the buffer and continues the last block;           *)
(*   - map/sync_map.go (MapInv): a ConcurrentMap holds what its types      *)
(*     allow and what its LoadOrStore has returned.                        *)
(***************************************************************************)
EXTENDS SharedDemos, SumFacts

-----------------------------------------------------------------------------
(* The pipe *)

PipeTypes ==
  /\ wBuf \in Sizes /\ d \in 1..4 /\ rest \in Nat /\ written \in Nat /\ taken \in Nat
  /\ wpc \in {"sleep", "write", "print", "close", "wg", "done"}
  /\ rpc \in {"read", "print", "wg", "done"}

\* The bytes of the comment the writer is at that Reads have taken.
TakenOfThis ==
  IF wpc = "write" THEN comments[d] - rest ELSE IF wpc = "print" THEN comments[d] ELSE 0

WriterInv ==
  /\ written = d - 1
  /\ wpc \in {"write", "print"} => d <= 3
  /\ IF wpc = "write" THEN rest \in 1..comments[d] ELSE rest = 0
  /\ wpc \in {"close", "wg", "done"} => d = 4
  /\ closed <=> wpc \in {"wg", "done"}

ReaderInv ==
  /\ taken = Piped!Total(d - 1) + TakenOfThis
  /\ rpc \in {"wg", "done"} => closed

WaitInv == wg = (IF wpc = "done" THEN 0 ELSE 1) + (IF rpc = "done" THEN 0 ELSE 1)

PipeInv == PipeTypes /\ WriterInv /\ ReaderInv /\ WaitInv

PipedInv == running = "Pipe" => PipeInv

LEMMA Lengths ==
  /\ Len(comments) = 3 /\ \A n \in 1..3 : comments[n] \in Nat \ {0}
BY DEF comments

LEMMA TotalGrows ==
  /\ Piped!Total(0) = 0
  /\ \A n \in 0..3 : Piped!Total(n) \in Nat
  /\ \A n \in 1..3 : Piped!Total(n) = Piped!Total(n - 1) + comments[n]
<1>1. \A n \in 0..3 : Piped!Total(n) = Sum(comments, 1..n)
  BY DEF Piped!Total, Sum, MapThenSumSet, MapThenFoldSet, Piped!MapThenSumSet,
     Piped!MapThenFoldSet
<1>2. \A n \in 0..3 : IsFiniteSet(1..n) /\ \A x \in 1..n : comments[x] \in Nat
  <2>1. ASSUME NEW n \in 0..3 PROVE IsFiniteSet(1..n)
    BY FS_Interval
  <2>2. \A n \in 0..3 : \A x \in 1..n : x \in 1..3
    OBVIOUS
  <2> QED
    BY <2>1, <2>2, Lengths
<1>3. Piped!Total(0) = 0
  BY <1>1, SumEmpty
<1>4. ASSUME NEW n \in 0..3 PROVE Piped!Total(n) \in Nat
  BY <1>1, <1>2, SumNat
<1>5. ASSUME NEW n \in 1..3 PROVE Piped!Total(n) = Piped!Total(n - 1) + comments[n]
  <2>1. n \in 0..3 /\ n - 1 \in 0..3 /\ n \notin 1..(n - 1) /\ 1..n = (1..(n - 1)) \cup {n}
    OBVIOUS
  <2>2. \A x \in (1..(n - 1)) \cup {n} : comments[x] \in Int
    BY Lengths
  <2>3. Sum(comments, (1..(n - 1)) \cup {n}) = Sum(comments, 1..(n - 1)) + comments[n]
    BY <1>2, <2>1, <2>2, SumAdd
  <2> QED
    BY <1>1, <2>1, <2>3
<1> QED
  BY <1>3, <1>4, <1>5

LEMMA LessOf ==
  ASSUME NEW a \in Int, NEW b \in Int
  PROVE  Piped!Min({a, b}) = IF a <= b THEN a ELSE b
<1>1. \A x \in {a, b} : (\A y \in {a, b} : x <= y) <=> x = (IF a <= b THEN a ELSE b)
  OBVIOUS
<1>2. (IF a <= b THEN a ELSE b) \in {a, b}
  OBVIOUS
<1> QED
  BY <1>1, <1>2 DEF Piped!Min

LEMMA PipeStart == Init => PipedInv
<1> SUFFICES ASSUME Init, running = "Pipe" PROVE PipeInv
  BY DEF PipedInv
<1>1. Piped!Init
  BY DEF Init
<1>2. Piped!Total(0) = 0
  BY TotalGrows
<1>3. d = 1 /\ d - 1 = 0 /\ taken = 0 /\ wpc = "sleep" /\ rpc = "read"
  BY <1>1 DEF Piped!Init
<1>4. WriterInv /\ WaitInv
  BY <1>1 DEF Piped!Init, WriterInv, WaitInv
<1>5. PipeTypes
  BY <1>1 DEF Piped!Init, PipeTypes
<1>6. ReaderInv
  BY <1>2, <1>3 DEF ReaderInv, TakenOfThis
<1> QED
  BY <1>4, <1>5, <1>6 DEF PipeInv

LEMMA SleepKeeps ==
  ASSUME PipeInv, Piped!Sleep
  PROVE  PipeInv'
<1> USE Lengths DEF PipeInv, PipeTypes, WriterInv, ReaderInv, WaitInv, TakenOfThis
<1>1. d \in 1..4 /\ Piped!Total(d - 1) \in Nat
  BY TotalGrows
<1>2. CASE d <= 3
  BY <1>1, <1>2 DEF Piped!Sleep
<1>3. CASE ~(d <= 3)
  BY <1>1, <1>3 DEF Piped!Sleep
<1> QED
  BY <1>2, <1>3

\* A Read takes what fits into wBuf, and no more than there is.
LEMMA TransferKeeps ==
  ASSUME PipeInv, Piped!Transfer
  PROVE  PipeInv'
<1> USE DEF PipeInv, PipeTypes, WriterInv
<1> DEFINE n == Piped!Min({wBuf, rest})
<1>1. /\ wpc = "write" /\ rpc = "read" /\ rpc' = "print"
      /\ rest' = rest - n /\ taken' = taken + n
      /\ wpc' = (IF n = rest THEN "print" ELSE wpc)
      /\ UNCHANGED <<wBuf, d, closed, wg, written>>
  BY DEF Piped!Transfer
<1>2. d \in 1..3 /\ comments[d] \in Nat /\ Piped!Total(d - 1) \in Nat
  BY <1>1, Lengths, TotalGrows
<1>3. n \in 1..rest
  <2>1. wBuf \in Nat \ {0} /\ rest \in Nat \ {0}
    BY <1>1, <1>2, SharedDemosAssumption
  <2> QED
    BY <2>1, LessOf
<1> HIDE DEF n
<1>4. PipeTypes'
  BY <1>1, <1>3
<1>5. WriterInv'
  BY <1>1, <1>2, <1>3
<1>6. ReaderInv'
  BY <1>1, <1>2, <1>3 DEF ReaderInv, TakenOfThis
<1>7. WaitInv'
  BY <1>1 DEF WaitInv
<1> QED
  BY <1>4, <1>5, <1>6, <1>7

LEMMA PrintWrittenKeeps ==
  ASSUME PipeInv, Piped!PrintWritten
  PROVE  PipeInv'
<1> USE DEF PipeInv, PipeTypes, WriterInv, ReaderInv, WaitInv, TakenOfThis
<1>1. d \in 1..3 /\ (d + 1) - 1 = d
  BY DEF Piped!PrintWritten
<1>2. Piped!Total(d) = Piped!Total(d - 1) + comments[d] /\ Piped!Total(d) \in Nat
  BY <1>1, TotalGrows
<1> QED
  BY <1>1, <1>2 DEF Piped!PrintWritten

LEMMA PipeKept == PipedInv /\ [Next]_vars => PipedInv'
<1> SUFFICES ASSUME PipedInv, [Next]_vars, running' = "Pipe" PROVE PipeInv'
  BY DEF PipedInv
<1> DEFINE Steady == UNCHANGED <<pipeVars, written>>
<1>0. ASSUME PipeInv, Steady PROVE PipeInv'
  BY <1>0 DEF PipeInv, PipeTypes, WriterInv, ReaderInv, WaitInv, TakenOfThis, pipeVars
<1>1. CASE OfPipe(Piped!Next)
  <2>1. PipeInv /\ Piped!Next
    BY <1>1 DEF OfPipe, PipedInv
  <2> USE <2>1
  <2>2. CASE Piped!Close \/ Piped!DoneWriter \/ Piped!PrintRead \/ Piped!ReadEOF \/ Piped!DoneReader
    <3> USE DEF PipeInv, PipeTypes, WriterInv, ReaderInv, WaitInv, TakenOfThis, Piped!writerVars
    <3>1. CASE Piped!Close
      BY <3>1 DEF Piped!Close
    <3>2. CASE Piped!DoneWriter
      BY <3>2 DEF Piped!DoneWriter
    <3>3. CASE Piped!PrintRead
      BY <3>3 DEF Piped!PrintRead
    <3>4. CASE Piped!ReadEOF
      BY <3>4 DEF Piped!ReadEOF
    <3>5. CASE Piped!DoneReader
      BY <3>5 DEF Piped!DoneReader
    <3> QED
      BY <2>2, <3>1, <3>2, <3>3, <3>4, <3>5
  <2>3. CASE Piped!Terminated
    BY <1>0, <2>3 DEF Piped!Terminated, Piped!vars, pipeVars
  <2> QED
    BY <2>2, <2>3, SleepKeeps, TransferKeeps, PrintWrittenKeeps
       DEF Piped!Next, Piped!WriterSide, Piped!ReaderSide
<1>2. CASE UNCHANGED vars
  BY <1>0, <1>2 DEF vars, PipedInv
<1>3. CASE OfRecords(Records!Next) \/ OfBlocks(InBlocks!Next) \/ OfMap(Mapped!Next)
  BY <1>3 DEF OfRecords, OfBlocks, OfMap
<1> QED
  BY <1>1, <1>2, <1>3 DEF Next

LEMMA PipeInvariant == Spec => []PipedInv
BY PipeStart, PipeKept, PTL DEF Spec

\* The writer prints a comment only when the reader has all of it, and the
\* reader stops only when it has everything, for every length of wBuf
\* (io/demo.go:115-143).
THEOREM PipeIsReadToTheEnd == Spec => []ReadsToTheEnd
<1>1. ASSUME PipeInv PROVE Piped!ReadsToTheEnd /\ Piped!Synchronous
  <2> USE <1>1 DEF PipeInv, PipeTypes, WriterInv
  <2>1. d - 1 \in 0..3 /\ Piped!Total(d - 1) \in Nat /\ TakenOfThis \in Nat
    BY Lengths, TotalGrows DEF TakenOfThis
  <2>2. taken = Piped!Total(d - 1) + TakenOfThis
    BY DEF ReaderInv
  <2>3. Piped!ReadsToTheEnd
    BY <2>1, <2>2, Lengths DEF Piped!ReadsToTheEnd, ReaderInv, TakenOfThis
  <2>4. CASE d = 4
    <3>1. Piped!Min({written + 1, Len(comments)}) = 3
      BY <2>4, Lengths, LessOf
    <3>2. TakenOfThis = 0
      BY <2>4 DEF TakenOfThis
    <3> QED
      BY <2>1, <2>2, <2>3, <2>4, <3>1, <3>2 DEF Piped!Synchronous
  <2>5. CASE d # 4
    <3>1. Piped!Min({written + 1, Len(comments)}) = d
      BY <2>5, Lengths, LessOf
    <3>2. Piped!Total(d) = Piped!Total(d - 1) + comments[d] /\ comments[d] \in Nat
      BY <2>5, TotalGrows, Lengths
    <3>3. TakenOfThis <= comments[d]
      BY <3>2 DEF TakenOfThis
    <3> QED
      BY <2>1, <2>2, <2>3, <3>1, <3>2, <3>3 DEF Piped!Synchronous
  <2> QED
    BY <2>4, <2>5
<1>2. PipedInv => ReadsToTheEnd
  BY <1>1 DEF PipedInv, ReadsToTheEnd
<1> QED
  BY <1>2, PipeInvariant, PTL

-----------------------------------------------------------------------------
(* The buffer of records *)

Labels == {"lock", "body", "tab", "read", "unlock", "count", "done"}
Inside == {"body", "tab", "read", "unlock"}

RecordTypes ==
  /\ mu \in Records!Proc \cup {NoOne}
  /\ buffer \in Seq((Writer \X Nat) \cup {Records!Tab}) /\ off \in 0..Len(buffer)
  /\ pc \in [Records!Proc -> Labels] /\ round \in [Records!Proc -> Nat]
  /\ data \in [Reader -> Nat \X Nat]
  /\ written \in Nat /\ read \in Nat /\ sign \in Nat /\ received \in Nat

\* One goroutine at a time is inside the mutex, in the section of its side, and
\* only before its last round is over.
SectionInv ==
  \A p \in Records!Proc :
    /\ mu = p <=> pc[p] \in Inside
    /\ pc[p] \in {"body", "tab"} => p \in Writer
    /\ pc[p] = "read" => p \in Reader
    /\ round[p] <= Records!Number(p)
    /\ pc[p] \in Inside \cup {"count"} => round[p] < Records!Number(p)
    /\ pc[p] = "done" => round[p] = Records!Number(p)

\* Bodies and tabs take turns, the last byte is a body only while its writer is
\* about to add the tab, and reads have ended behind a tab.
ShapeInv ==
  /\ Len(buffer) > 0 => buffer[1] # Records!Tab
  /\ \A n \in 1..(Len(buffer) - 1) : buffer[n] = Records!Tab <=> buffer[n + 1] # Records!Tab
  /\ (\E w \in Writer : pc[w] = "tab") <=>
       Len(buffer) > 0 /\ buffer[Len(buffer)] # Records!Tab
  /\ off > 0 => buffer[off] = Records!Tab

OneRecord(r) ==
  /\ data[r][2] = data[r][1] + 2
  /\ buffer[data[r][1] + 1] # Records!Tab /\ buffer[data[r][2]] = Records!Tab

DataInv ==
  \A r \in Reader :
    /\ data[r][2] <= off
    /\ pc[r] \notin {"unlock", "count"} => data[r] = <<0, 0>>
    /\ pc[r] = "unlock" => data[r][1] = data[r][2] \/ OneRecord(r)
    /\ pc[r] = "count" => OneRecord(r)

\* The bytes of w in the buffer that it has not counted yet, and those r has
\* taken out of it and not counted.
Underway == [w \in Writer |-> IF pc[w] = "tab" THEN 1
                              ELSE IF pc[w] \in {"unlock", "count"} THEN 2 ELSE 0]
Fetched == [r \in Reader |-> data[r][2] - data[r][1]]

ByteInv ==
  /\ Len(buffer) = written + Sum(Underway, Writer)
  /\ off = read + Sum(Fetched, Reader)
  /\ written = 2 * Sum(round, Writer)
  /\ read = 2 * Sum(round, Reader)

SignedOff == {p \in Records!Proc : pc[p] = "done"}

SignInv == sign + received = Cardinality(SignedOff)

RecordInv == RecordTypes /\ SectionInv /\ ShapeInv /\ DataInv /\ ByteInv /\ SignInv

RecordsInv == running = "RecordBuffer" => RecordInv

LEMMA Sides ==
  /\ IsFiniteSet(Writer) /\ IsFiniteSet(Reader) /\ IsFiniteSet(Records!Proc)
  /\ Records!Proc = Writer \cup Reader /\ NoOne \notin Records!Proc
  /\ \A p \in Records!Proc : (p \in Reader <=> p \notin Writer)
  /\ \A p \in Records!Proc : Records!Number(p) \in Nat
  /\ Records!Tab \notin Writer \X Nat
<1>1. IsFiniteSet(Writer \cup Reader)
  BY SharedDemosAssumption, FS_Union
<1> QED
  BY <1>1, SharedDemosAssumption DEF Records!Proc, Records!Number, Records!Tab

LEMMA RecordsStart == Init => RecordsInv
<1> SUFFICES ASSUME Init, running = "RecordBuffer" PROVE RecordInv
  BY DEF RecordsInv
<1>1. Records!Init
  BY DEF Init
<1> USE <1>1, Sides DEF Records!Init
<1>2. RecordTypes
  BY DEF RecordTypes, Labels
<1>3. SectionInv
  BY DEF SectionInv, Inside
<1>4. ShapeInv
  BY DEF ShapeInv
<1>5. DataInv
  BY DEF DataInv
<1>6. ByteInv
  <2>1. Sum(Underway, Writer) = 0
    <3>1. \A w \in Writer : Underway[w] = 0
      BY DEF Underway
    <3> QED
      BY <3>1, SumZero
  <2>2. Sum(Fetched, Reader) = 0
    <3>1. \A r \in Reader : Fetched[r] = 0
      BY DEF Fetched
    <3> QED
      BY <3>1, SumZero
  <2>3. Sum(round, Writer) = 0 /\ Sum(round, Reader) = 0
    <3>1. \A p \in Writer \cup Reader : round[p] = 0
      OBVIOUS
    <3> QED
      BY <3>1, SumZero
  <2> QED
    BY <2>1, <2>2, <2>3 DEF ByteInv
<1>7. SignInv
  <2>1. SignedOff = {}
    BY DEF SignedOff
  <2> QED
    BY <2>1, FS_EmptySet DEF SignInv
<1> QED
  BY <1>2, <1>3, <1>4, <1>5, <1>6, <1>7 DEF RecordInv

\* What a step of one goroutine does to the three sums of ByteInv.
LEMMA SumsMove ==
  ASSUME RecordTypes, RecordTypes', NEW p \in Records!Proc,
         \A q \in Records!Proc \ {p} : pc'[q] = pc[q] /\ round'[q] = round[q],
         \A r \in Reader \ {p} : data'[r] = data[r]
  PROVE  /\ Sum(Underway, Writer) \in Nat
         /\ p \in Writer =>
              /\ Sum(Underway', Writer) = Sum(Underway, Writer) + (Underway'[p] - Underway[p])
              /\ Sum(round', Writer) = Sum(round, Writer) + (round'[p] - round[p])
              /\ Sum(Fetched', Reader) = Sum(Fetched, Reader)
              /\ Sum(round', Reader) = Sum(round, Reader)
         /\ p \in Reader =>
              /\ Sum(Underway', Writer) = Sum(Underway, Writer)
              /\ Sum(round', Writer) = Sum(round, Writer)
              /\ Sum(Fetched', Reader) = Sum(Fetched, Reader) + (Fetched'[p] - Fetched[p])
              /\ Sum(round', Reader) = Sum(round, Reader) + (round'[p] - round[p])
<1> USE Sides
<1>1. \A w \in Writer : Underway[w] \in Nat /\ Underway'[w] \in Nat
                        /\ (w # p => Underway'[w] = Underway[w])
  BY DEF Underway
<1>2. \A r \in Reader : Fetched[r] \in Int /\ Fetched'[r] \in Int
                        /\ (r # p => Fetched'[r] = Fetched[r])
  <2> SUFFICES ASSUME NEW r \in Reader
               PROVE  /\ Fetched[r] \in Int /\ Fetched'[r] \in Int
                      /\ r # p => Fetched'[r] = Fetched[r]
    OBVIOUS
  <2>1. data[r] \in Nat \X Nat /\ data'[r] \in Nat \X Nat
    BY DEF RecordTypes
  <2>2. Fetched[r] = data[r][2] - data[r][1] /\ Fetched'[r] = data'[r][2] - data'[r][1]
    BY DEF Fetched
  <2> QED
    BY <2>1, <2>2
<1>3. \A q \in Records!Proc : round[q] \in Int /\ round'[q] \in Int
                              /\ (q # p => round'[q] = round[q])
  BY DEF RecordTypes
<1>4. Sum(Underway, Writer) \in Nat
  BY <1>1, SumNat
<1>5. ASSUME p \in Writer
      PROVE  /\ Sum(Underway', Writer) = Sum(Underway, Writer) + (Underway'[p] - Underway[p])
             /\ Sum(round', Writer) = Sum(round, Writer) + (round'[p] - round[p])
             /\ Sum(Fetched', Reader) = Sum(Fetched, Reader)
             /\ Sum(round', Reader) = Sum(round, Reader)
  <2>1. Sum(Underway', Writer) = Sum(Underway, Writer) + (Underway'[p] - Underway[p])
    BY <1>1, <1>5, SumChange
  <2>2. \A q \in Writer : round[q] \in Int /\ round'[q] \in Int /\ (q # p => round'[q] = round[q])
    BY <1>3
  <2>3. Sum(round', Writer) = Sum(round, Writer) + (round'[p] - round[p])
    BY <1>5, <2>2, SumChange
  <2>4. \A r \in Reader : r # p
    BY <1>5
  <2>5. Sum(Fetched', Reader) = Sum(Fetched, Reader)
    BY <1>2, <2>4, SumSame
  <2>6. \A r \in Reader : round'[r] = round[r]
    BY <1>3, <2>4
  <2>7. Sum(round', Reader) = Sum(round, Reader)
    BY <2>6, SumSame
  <2> QED
    BY <2>1, <2>3, <2>5, <2>7
<1>6. ASSUME p \in Reader
      PROVE  /\ Sum(Underway', Writer) = Sum(Underway, Writer)
             /\ Sum(round', Writer) = Sum(round, Writer)
             /\ Sum(Fetched', Reader) = Sum(Fetched, Reader) + (Fetched'[p] - Fetched[p])
             /\ Sum(round', Reader) = Sum(round, Reader) + (round'[p] - round[p])
  <2>1. \A w \in Writer : w # p
    BY <1>6
  <2>2. Sum(Underway', Writer) = Sum(Underway, Writer)
    BY <1>1, <2>1, SumSame
  <2>3. \A w \in Writer : round'[w] = round[w]
    BY <1>3, <2>1
  <2>4. Sum(round', Writer) = Sum(round, Writer)
    BY <2>3, SumSame
  <2>5. Sum(Fetched', Reader) = Sum(Fetched, Reader) + (Fetched'[p] - Fetched[p])
    BY <1>2, <1>6, SumChange
  <2>6. \A q \in Reader : round[q] \in Int /\ round'[q] \in Int /\ (q # p => round'[q] = round[q])
    BY <1>3
  <2>7. Sum(round', Reader) = Sum(round, Reader) + (round'[p] - round[p])
    BY <1>6, <2>6, SumChange
  <2> QED
    BY <2>2, <2>4, <2>5, <2>7
<1> QED
  BY <1>4, <1>5, <1>6

LEMMA LockKeeps ==
  ASSUME RecordInv, NEW p \in Records!Proc, Records!Lock(p)
  PROVE  RecordInv'
<1> USE Sides DEF RecordInv
<1>1. /\ pc[p] = "lock" /\ round[p] < Records!Number(p) /\ mu = NoOne /\ mu' = p
      /\ pc' = [pc EXCEPT ![p] = IF p \in Writer THEN "body" ELSE "read"]
      /\ UNCHANGED <<buffer, off, data, round, written, read, sign, received>>
  BY DEF Records!Lock, Records!At, Records!Goto, Records!bufferVars, Records!countVars,
     Records!mainVars
<1>2. RecordTypes'
  BY <1>1 DEF RecordTypes, Labels
<1>3. \A q \in Records!Proc : q # p => pc'[q] = pc[q]
  BY <1>1 DEF RecordTypes
<1>4. pc'[p] = IF p \in Writer THEN "body" ELSE "read"
  BY <1>1 DEF RecordTypes
<1>5. SectionInv'
  BY <1>1, <1>3, <1>4 DEF SectionInv, Inside
<1>6. ShapeInv'
  <2>1. \A w \in Writer : pc'[w] = "tab" <=> pc[w] = "tab"
    BY <1>1, <1>3, <1>4
  <2> QED
    BY <1>1, <2>1 DEF ShapeInv
<1>7. DataInv'
  <2>1. \A r \in Reader : pc'[r] \in {"unlock", "count"} <=> pc[r] \in {"unlock", "count"}
    BY <1>1, <1>3, <1>4
  <2>2. \A r \in Reader : pc'[r] \in {"unlock", "count"} => pc'[r] = pc[r]
    BY <1>3, <1>4
  <2> QED
    BY <1>1, <2>1, <2>2 DEF DataInv, OneRecord
<1>8. ByteInv'
  <2>1. Underway' = Underway
    BY <1>1, <1>3, <1>4 DEF Underway
  <2>2. Fetched' = Fetched
    BY <1>1 DEF Fetched
  <2> QED
    BY <1>1, <2>1, <2>2 DEF ByteInv
<1>9. SignInv'
  <2>1. SignedOff' = SignedOff
    BY <1>1, <1>3, <1>4 DEF SignedOff
  <2> QED
    BY <1>1, <2>1 DEF SignInv
<1> QED
  BY <1>2, <1>5, <1>6, <1>7, <1>8, <1>9

\* A reader that met the end of the buffer has taken nothing.
LEMMA EofIsEmpty ==
  ASSUME RecordInv, NEW r \in Reader, pc[r] = "unlock"
  PROVE  /\ Records!Eof(r) <=> data[r][1] = data[r][2]
         /\ ~Records!Eof(r) => OneRecord(r)
<1>1. data[r] \in Nat \X Nat
  BY DEF RecordInv, RecordTypes
<1>2. data[r][1] = data[r][2] \/ OneRecord(r)
  BY DEF RecordInv, DataInv
<1> QED
  BY <1>1, <1>2 DEF Records!Eof, OneRecord

LEMMA UnlockKeeps ==
  ASSUME RecordInv, NEW p \in Records!Proc, Records!Unlock(p)
  PROVE  RecordInv'
<1> USE Sides DEF RecordInv
<1> DEFINE eof == Records!Eof(p)
<1>1. /\ pc[p] = "unlock" /\ mu' = NoOne
      /\ pc' = [pc EXCEPT ![p] = IF eof THEN "lock" ELSE "count"]
      /\ IF eof THEN data' = [r \in Reader |-> IF r = p THEN <<0, 0>> ELSE data[r]]
                ELSE data' = data
      /\ UNCHANGED <<buffer, off, round, written, read, sign, received>>
  BY DEF Records!Unlock, Records!At, Records!Goto, Records!countVars, Records!mainVars,
     Records!Forget
<1>2. p \in Writer => ~eof
  BY DEF Records!Eof
<1>3. p \in Reader /\ eof => data[p][1] = data[p][2]
  BY <1>1, EofIsEmpty
<1>4. p \in Reader /\ ~eof => OneRecord(p)
  BY <1>1, EofIsEmpty
<1> HIDE DEF eof
<1>5. RecordTypes'
  BY <1>1 DEF RecordTypes, Labels
<1>6. /\ \A q \in Records!Proc : q # p => pc'[q] = pc[q]
      /\ pc'[p] = (IF eof THEN "lock" ELSE "count")
      /\ \A r \in Reader : r # p => data'[r] = data[r]
      /\ p \in Reader => data'[p] = (IF eof THEN <<0, 0>> ELSE data[p])
  BY <1>1 DEF RecordTypes
<1>7. SectionInv'
  BY <1>1, <1>6 DEF SectionInv, Inside
<1>8. ShapeInv'
  <2>1. \A w \in Writer : pc'[w] = "tab" <=> pc[w] = "tab"
    BY <1>1, <1>6
  <2> QED
    BY <1>1, <2>1 DEF ShapeInv
<1>9. DataInv'
  <2> SUFFICES ASSUME NEW r \in Reader
               PROVE  /\ data'[r][2] <= off
                      /\ pc'[r] \notin {"unlock", "count"} => data'[r] = <<0, 0>>
                      /\ pc'[r] = "unlock" => data'[r][1] = data'[r][2] \/ OneRecord(r)'
                      /\ pc'[r] = "count" => OneRecord(r)'
    BY <1>1 DEF DataInv
  <2>1. CASE r # p
    BY <1>1, <1>6, <2>1 DEF DataInv, OneRecord
  <2>2. CASE r = p /\ eof
    BY <1>6, <2>2 DEF RecordTypes
  <2>3. CASE r = p /\ ~eof
    BY <1>1, <1>4, <1>6, <2>3 DEF DataInv, OneRecord
  <2> QED
    BY <2>1, <2>2, <2>3
<1>10. ByteInv'
  <2>1. Underway' = Underway
    BY <1>1, <1>2, <1>6 DEF Underway
  <2>2. Fetched' = Fetched
    <3> SUFFICES ASSUME NEW r \in Reader PROVE data'[r][2] - data'[r][1] = data[r][2] - data[r][1]
      BY DEF Fetched
    <3>1. CASE r # p \/ ~eof
      BY <1>6, <3>1
    <3>2. CASE r = p /\ eof
      <4>1. data[r] \in Nat \X Nat /\ data[r][1] = data[r][2] /\ data'[r] = <<0, 0>>
        BY <1>3, <1>6, <3>2 DEF RecordTypes
      <4> QED
        BY <4>1
    <3> QED
      BY <3>1, <3>2
  <2> QED
    BY <1>1, <2>1, <2>2 DEF ByteInv
<1>11. SignInv'
  <2>1. SignedOff' = SignedOff
    BY <1>1, <1>6 DEF SignedOff
  <2> QED
    BY <1>1, <2>1 DEF SignInv
<1> QED
  BY <1>5, <1>7, <1>8, <1>9, <1>10, <1>11

LEMMA OneMoreRound ==
  ASSUME NEW total \in Int, NEW counted \in Int, NEW left \in Int, NEW rounds \in Int,
         total = counted + left, counted = 2 * rounds
  PROVE  total = (counted + 2) + (left - 2) /\ counted + 2 = 2 * (rounds + 1)
OBVIOUS

LEMMA CountKeeps ==
  ASSUME RecordInv, NEW p \in Records!Proc, Records!Count(p)
  PROVE  RecordInv'
<1> USE Sides DEF RecordInv
<1>1. /\ pc[p] = "count"
      /\ pc' = [pc EXCEPT ![p] = "lock"]
      /\ round' = [round EXCEPT ![p] = @ + 1]
      /\ data' = [r \in Reader |-> IF r = p THEN <<0, 0>> ELSE data[r]]
      /\ IF p \in Writer THEN written' = written + 2 /\ UNCHANGED read
         ELSE read' = read + data[p][2] - data[p][1] /\ UNCHANGED written
      /\ UNCHANGED <<mu, buffer, off, sign, received>>
  BY DEF Records!Count, Records!At, Records!Goto, Records!mainVars, Records!Forget
<1>2. p \in Reader => data[p] \in Nat \X Nat /\ data[p][2] = data[p][1] + 2 /\ OneRecord(p)
  BY <1>1 DEF RecordTypes, DataInv, OneRecord
<1>3. p \in Reader => read' = read + 2
  BY <1>1, <1>2 DEF RecordTypes
<1>4. /\ \A q \in Records!Proc : q # p => pc'[q] = pc[q] /\ round'[q] = round[q]
      /\ pc'[p] = "lock" /\ round'[p] = round[p] + 1
      /\ \A r \in Reader : r # p => data'[r] = data[r]
      /\ p \in Reader => data'[p] = <<0, 0>>
      /\ round[p] \in Nat
  BY <1>1 DEF RecordTypes
<1>5. RecordTypes'
  <2>1. written \in Nat /\ read \in Nat
    BY DEF RecordTypes
  <2>2. written' \in Nat /\ read' \in Nat
    BY <1>1, <1>3, <2>1
  <2>3. pc' \in [Records!Proc -> Labels] /\ round' \in [Records!Proc -> Nat]
    BY <1>1 DEF RecordTypes, Labels
  <2>4. data' \in [Reader -> Nat \X Nat]
    BY <1>1 DEF RecordTypes
  <2> QED
    BY <1>1, <2>2, <2>3, <2>4 DEF RecordTypes
<1>6. SectionInv'
  BY <1>1, <1>4 DEF SectionInv, Inside
<1>7. ShapeInv'
  <2>1. \A w \in Writer : pc'[w] = "tab" <=> pc[w] = "tab"
    BY <1>1, <1>4
  <2> QED
    BY <1>1, <2>1 DEF ShapeInv
<1>8. DataInv'
  <2> SUFFICES ASSUME NEW r \in Reader
               PROVE  /\ data'[r][2] <= off
                      /\ pc'[r] \notin {"unlock", "count"} => data'[r] = <<0, 0>>
                      /\ pc'[r] = "unlock" => data'[r][1] = data'[r][2] \/ OneRecord(r)'
                      /\ pc'[r] = "count" => OneRecord(r)'
    BY <1>1 DEF DataInv
  <2>1. CASE r # p
    BY <1>1, <1>4, <2>1 DEF DataInv, OneRecord
  <2>2. CASE r = p
    BY <1>4, <2>2 DEF RecordTypes
  <2> QED
    BY <2>1, <2>2
<1>9. ByteInv'
  <2>1. /\ p \in Writer => Underway'[p] = 0 /\ Underway[p] = 2
        /\ p \in Reader => Fetched'[p] = 0 /\ Fetched[p] = 2
    BY <1>1, <1>2, <1>4 DEF Underway, Fetched
  <2>2. /\ Sum(Underway, Writer) \in Nat /\ Sum(Fetched, Reader) \in Int
        /\ Sum(round, Writer) \in Int /\ Sum(round, Reader) \in Int
    <3>1. \A r \in Reader : Fetched[r] \in Int
      <4> SUFFICES ASSUME NEW r \in Reader PROVE Fetched[r] \in Int
        OBVIOUS
      <4>1. data[r] \in Nat \X Nat
        BY DEF RecordTypes
      <4> QED
        BY <4>1 DEF Fetched
    <3>2. (\A w \in Writer : round[w] \in Int) /\ (\A r \in Reader : round[r] \in Int)
      BY DEF RecordTypes
    <3> QED
      BY <1>4, <1>5, <3>1, <3>2, SumsMove, SumType
  <2>3. CASE p \in Writer
    <3>1. /\ Sum(Underway', Writer) = Sum(Underway, Writer) - 2
          /\ Sum(round', Writer) = Sum(round, Writer) + 1
          /\ Sum(Fetched', Reader) = Sum(Fetched, Reader)
          /\ Sum(round', Reader) = Sum(round, Reader)
      BY <1>4, <1>5, <2>1, <2>2, <2>3, SumsMove
    <3>2. written' = written + 2 /\ read' = read /\ off' = off /\ Len(buffer') = Len(buffer)
      BY <1>1, <2>3
    <3>3. written \in Nat /\ read \in Nat
      BY DEF RecordTypes
    <3>4. /\ Len(buffer) = (written + 2) + (Sum(Underway, Writer) - 2)
          /\ written + 2 = 2 * (Sum(round, Writer) + 1)
      <4>1. Len(buffer) = written + Sum(Underway, Writer) /\ written = 2 * Sum(round, Writer)
        BY DEF ByteInv
      <4>2. Len(buffer) \in Int
        BY <2>2, <3>3, <4>1
      <4> QED
        BY <2>2, <3>3, <4>1, <4>2, OneMoreRound
    <3> QED
      BY <3>1, <3>2, <3>4 DEF ByteInv
  <2>4. CASE p \in Reader
    <3>1. /\ Sum(Underway', Writer) = Sum(Underway, Writer)
          /\ Sum(round', Writer) = Sum(round, Writer)
          /\ Sum(Fetched', Reader) = Sum(Fetched, Reader) - 2
          /\ Sum(round', Reader) = Sum(round, Reader) + 1
      BY <1>4, <1>5, <2>1, <2>2, <2>4, SumsMove
    <3>2. read' = read + 2 /\ written' = written /\ off' = off /\ Len(buffer') = Len(buffer)
      BY <1>1, <1>3, <2>4
    <3>3. written \in Nat /\ read \in Nat
      BY DEF RecordTypes
    <3>4. /\ off = (read + 2) + (Sum(Fetched, Reader) - 2)
          /\ read + 2 = 2 * (Sum(round, Reader) + 1)
      <4>1. off = read + Sum(Fetched, Reader) /\ read = 2 * Sum(round, Reader)
        BY DEF ByteInv
      <4>2. off \in Int
        BY <2>2, <3>3, <4>1
      <4> QED
        BY <2>2, <3>3, <4>1, <4>2, OneMoreRound
    <3> QED
      BY <3>1, <3>2, <3>4 DEF ByteInv
  <2> QED
    BY <2>3, <2>4
<1>10. SignInv'
  <2>1. SignedOff' = SignedOff
    BY <1>1, <1>4 DEF SignedOff
  <2> QED
    BY <1>1, <2>1 DEF SignInv
<1> QED
  BY <1>5, <1>6, <1>7, <1>8, <1>9, <1>10

\* A byte more in the buffer.
LEMMA Appended ==
  ASSUME NEW S, NEW s \in Seq(S), NEW e \in S
  PROVE  /\ Append(s, e) \in Seq(S) /\ Len(Append(s, e)) = Len(s) + 1 /\ Len(s) \in Nat
         /\ \A n \in 1..Len(s) : Append(s, e)[n] = s[n]
         /\ Append(s, e)[Len(s) + 1] = e
OBVIOUS

\* While p writes or reads, no writer is between its body and its tab.
LEMMA NobodyTorn ==
  ASSUME RecordInv, NEW p \in Records!Proc, pc[p] \in {"body", "read"}
  PROVE  /\ \A w \in Writer : pc[w] # "tab"
         /\ Len(buffer) > 0 => buffer[Len(buffer)] = Records!Tab
<1>1. \A w \in Writer : pc[w] # "tab"
  BY Sides DEF RecordInv, SectionInv, Inside
<1> QED
  BY <1>1 DEF RecordInv, ShapeInv

\* What WriteBody and WriteTab have in common: one byte more, which is not
\* counted yet.
LEMMA WriteFrame ==
  ASSUME RecordInv, NEW w \in Writer, NEW e \in (Writer \X Nat) \cup {Records!Tab},
         pc[w] \in {"body", "tab"}, buffer' = Append(buffer, e),
         pc' = [pc EXCEPT ![w] = IF pc[w] = "body" THEN "tab" ELSE "unlock"],
         UNCHANGED <<mu, off, data, round, written, read, sign, received>>
  PROVE  RecordTypes' /\ SectionInv' /\ DataInv' /\ ByteInv' /\ SignInv'
<1> USE Sides DEF RecordInv
<1>1. /\ buffer' \in Seq((Writer \X Nat) \cup {Records!Tab})
      /\ Len(buffer') = Len(buffer) + 1 /\ Len(buffer) \in Nat
      /\ \A n \in 1..Len(buffer) : buffer'[n] = buffer[n]
  BY Appended DEF RecordTypes
<1>2. RecordTypes'
  <2>1. off' \in 0..Len(buffer')
    BY <1>1 DEF RecordTypes
  <2> QED
    BY <1>1, <2>1 DEF RecordTypes, Labels
<1>3. /\ \A q \in Records!Proc : q # w => pc'[q] = pc[q]
      /\ pc'[w] = (IF pc[w] = "body" THEN "tab" ELSE "unlock")
  BY DEF RecordTypes
<1>4. SectionInv'
  BY <1>3 DEF SectionInv, Inside
<1>5. DataInv'
  <2> SUFFICES ASSUME NEW r \in Reader
               PROVE  /\ data[r][2] <= off
                      /\ pc[r] \notin {"unlock", "count"} => data[r] = <<0, 0>>
                      /\ pc[r] = "unlock" => data[r][1] = data[r][2] \/ OneRecord(r)'
                      /\ pc[r] = "count" => OneRecord(r)'
    <3>1. \A r \in Reader : pc'[r] = pc[r]
      BY <1>3
    <3> QED
      BY <3>1 DEF DataInv
  <2>1. OneRecord(r) => OneRecord(r)'
    <3>1. data[r] \in Nat \X Nat /\ data[r][2] <= off /\ off <= Len(buffer)
      BY DEF DataInv, RecordTypes
    <3>2. ASSUME OneRecord(r)
          PROVE  data[r][1] + 1 \in 1..Len(buffer) /\ data[r][2] \in 1..Len(buffer)
      <4>1. data[r][1] \in Nat /\ data[r][2] \in Nat /\ off \in Nat
        BY <1>1, <3>1 DEF RecordTypes
      <4>2. data[r][2] = data[r][1] + 2
        BY <3>2 DEF OneRecord
      <4> QED
        BY <1>1, <3>1, <4>1, <4>2
    <3> QED
      BY <1>1, <3>2 DEF OneRecord
  <2> QED
    BY <2>1 DEF DataInv
<1>6. ByteInv'
  <2>1. Underway'[w] = Underway[w] + 1
    BY <1>3 DEF Underway
  <2>2. Sum(Underway', Writer) = Sum(Underway, Writer) + (Underway'[w] - Underway[w])
    BY <1>2, <1>3, SumsMove
  <2>3. Sum(Underway, Writer) \in Nat /\ Underway[w] \in Nat
    BY <1>2, <1>3, SumsMove DEF Underway
  <2>4. Sum(Underway', Writer) = Sum(Underway, Writer) + 1
    BY <2>1, <2>2, <2>3
  <2>5. written \in Nat /\ Len(buffer) = written + Sum(Underway, Writer)
    BY DEF ByteInv, RecordTypes
  <2>6. Len(buffer') = written + Sum(Underway', Writer)
    BY <1>1, <2>3, <2>4, <2>5
  <2>7. Fetched' = Fetched
    BY DEF Fetched
  <2> QED
    BY <2>6, <2>7 DEF ByteInv
<1>7. SignInv'
  <2>1. SignedOff' = SignedOff
    BY <1>3 DEF SignedOff
  <2> QED
    BY <2>1 DEF SignInv
<1> QED
  BY <1>2, <1>4, <1>5, <1>6, <1>7

LEMMA WriteBodyKeeps ==
  ASSUME RecordInv, NEW w \in Writer, Records!WriteBody(w)
  PROVE  RecordInv'
<1> USE Sides DEF RecordInv
<1> DEFINE body == <<w, round[w]>>
<1>1. /\ pc[w] = "body" /\ buffer' = Append(buffer, body)
      /\ pc' = [pc EXCEPT ![w] = "tab"]
      /\ UNCHANGED <<mu, off, data, round, written, read, sign, received>>
  BY DEF Records!WriteBody, Records!At, Records!Goto, Records!countVars, Records!mainVars
<1>2. body \in Writer \X Nat /\ body # Records!Tab
  BY DEF RecordTypes
<1> HIDE DEF body
<1>3. RecordTypes' /\ SectionInv' /\ DataInv' /\ ByteInv' /\ SignInv'
  BY <1>1, <1>2, WriteFrame
<1>4. /\ Len(buffer') = Len(buffer) + 1 /\ Len(buffer) \in Nat
      /\ \A n \in 1..Len(buffer) : buffer'[n] = buffer[n]
      /\ buffer'[Len(buffer) + 1] = body
  BY <1>1, <1>2, Appended DEF RecordTypes
<1>5. Len(buffer) > 0 => buffer[Len(buffer)] = Records!Tab
  BY <1>1, NobodyTorn
<1>6. ShapeInv'
  <2>1. buffer'[1] # Records!Tab
    BY <1>2, <1>4 DEF ShapeInv
  <2>2. ASSUME NEW n \in 1..(Len(buffer') - 1)
        PROVE  buffer'[n] = Records!Tab <=> buffer'[n + 1] # Records!Tab
    <3>1. CASE n = Len(buffer)
      BY <1>2, <1>4, <1>5, <3>1
    <3>2. CASE n # Len(buffer)
      <4>1. n \in 1..(Len(buffer) - 1) /\ n \in 1..Len(buffer) /\ n + 1 \in 1..Len(buffer)
        BY <1>4, <3>2
      <4> QED
        BY <1>4, <4>1 DEF ShapeInv
    <3> QED
      BY <3>1, <3>2
  <2>3. pc'[w] = "tab"
    BY <1>1 DEF RecordTypes
  <2>4. Len(buffer') > 0 /\ buffer'[Len(buffer')] # Records!Tab
    BY <1>2, <1>4
  <2>5. off' > 0 => buffer'[off'] = Records!Tab
    BY <1>1, <1>4 DEF ShapeInv, RecordTypes
  <2> QED
    BY <2>1, <2>2, <2>3, <2>4, <2>5 DEF ShapeInv
<1> QED
  BY <1>3, <1>6

LEMMA WriteTabKeeps ==
  ASSUME RecordInv, NEW w \in Writer, Records!WriteTab(w)
  PROVE  RecordInv'
<1> USE Sides DEF RecordInv
<1>1. /\ pc[w] = "tab" /\ buffer' = Append(buffer, Records!Tab)
      /\ pc' = [pc EXCEPT ![w] = "unlock"]
      /\ UNCHANGED <<mu, off, data, round, written, read, sign, received>>
  BY DEF Records!WriteTab, Records!At, Records!Goto, Records!countVars, Records!mainVars
<1>2. RecordTypes' /\ SectionInv' /\ DataInv' /\ ByteInv' /\ SignInv'
  BY <1>1, WriteFrame
<1>3. /\ Len(buffer') = Len(buffer) + 1 /\ Len(buffer) \in Nat
      /\ \A n \in 1..Len(buffer) : buffer'[n] = buffer[n]
      /\ buffer'[Len(buffer) + 1] = Records!Tab
  BY <1>1, Appended DEF RecordTypes
<1>4. Len(buffer) > 0 /\ buffer[Len(buffer)] # Records!Tab
  BY <1>1 DEF ShapeInv
<1>5. ShapeInv'
  <2>1. buffer'[1] # Records!Tab
    BY <1>3, <1>4 DEF ShapeInv
  <2>2. ASSUME NEW n \in 1..(Len(buffer') - 1)
        PROVE  buffer'[n] = Records!Tab <=> buffer'[n + 1] # Records!Tab
    <3>1. CASE n = Len(buffer)
      BY <1>3, <1>4, <3>1
    <3>2. CASE n # Len(buffer)
      <4>1. n \in 1..(Len(buffer) - 1) /\ n \in 1..Len(buffer) /\ n + 1 \in 1..Len(buffer)
        BY <1>3, <3>2
      <4> QED
        BY <1>3, <4>1 DEF ShapeInv
    <3> QED
      BY <3>1, <3>2
  <2>3. \A v \in Writer : pc'[v] # "tab"
    BY <1>1 DEF RecordTypes, SectionInv, Inside
  <2>4. buffer'[Len(buffer')] = Records!Tab
    BY <1>3
  <2>5. off' > 0 => buffer'[off'] = Records!Tab
    BY <1>1, <1>3 DEF ShapeInv, RecordTypes
  <2> QED
    BY <2>1, <2>2, <2>3, <2>4, <2>5 DEF ShapeInv
<1> QED
  BY <1>2, <1>5

\* ReadString takes one record, or nothing if there is none.
LEMMA ReadStringKeeps ==
  ASSUME RecordInv, NEW r \in Reader, Records!ReadString(r)
  PROVE  RecordInv'
<1> USE Sides DEF RecordInv
<1> DEFINE tabs == {n \in (off + 1)..Len(buffer) : buffer[n] = Records!Tab}
           to == IF tabs = {} THEN Len(buffer)
                 ELSE CHOOSE n \in tabs : \A l \in tabs : n <= l
<1>1. /\ pc[r] = "read" /\ off' = to /\ data' = [data EXCEPT ![r] = <<off, to>>]
      /\ pc' = [pc EXCEPT ![r] = "unlock"]
      /\ UNCHANGED <<mu, buffer, round, written, read, sign, received>>
  BY DEF Records!ReadString, Records!At, Records!Goto, Records!countVars, Records!mainVars
<1>2. off \in Nat /\ Len(buffer) \in Nat /\ off <= Len(buffer)
  BY DEF RecordTypes
<1>3. Len(buffer) > 0 => buffer[Len(buffer)] = Records!Tab
  BY <1>1, NobodyTorn
<1>4. Len(buffer) > off => buffer[off + 1] # Records!Tab
  <2>1. CASE off = 0
    BY <2>1 DEF ShapeInv
  <2>2. ASSUME off # 0, Len(buffer) > off PROVE buffer[off + 1] # Records!Tab
    <3>1. off \in 1..(Len(buffer) - 1) /\ buffer[off] = Records!Tab
      BY <1>2, <2>2 DEF ShapeInv
    <3> QED
      BY <3>1 DEF ShapeInv
  <2> QED
    BY <2>1, <2>2
<1>5. Len(buffer) > off => Len(buffer) >= off + 2 /\ buffer[off + 2] = Records!Tab
  <2> HAVE Len(buffer) > off
  <2>1. Len(buffer) # off + 1
    BY <1>2, <1>3, <1>4
  <2>2. off + 1 \in 1..(Len(buffer) - 1) /\ (off + 1) + 1 = off + 2
    BY <1>2, <2>1
  <2>3. buffer[off + 1] = Records!Tab <=> buffer[(off + 1) + 1] # Records!Tab
    BY <2>2 DEF ShapeInv
  <2> QED
    BY <1>2, <1>4, <2>2, <2>3
<1>6. \/ to = off /\ off = Len(buffer)
      \/ to = off + 2 /\ to <= Len(buffer) /\ buffer[off + 1] # Records!Tab
         /\ buffer[to] = Records!Tab
  <2>1. CASE Len(buffer) > off
    <3>1. off + 2 \in tabs
      BY <1>2, <1>5, <2>1
    <3>2. \A l \in tabs : off + 2 <= l
      BY <1>2, <1>4, <2>1
    <3>3. \A n \in tabs : (\A l \in tabs : n <= l) => n = off + 2
      BY <1>2, <3>1, <3>2
    <3> HIDE DEF tabs
    <3>4. to = off + 2
      BY <3>1, <3>2, <3>3
    <3> QED
      BY <1>2, <1>4, <1>5, <2>1, <3>4
  <2>2. CASE ~(Len(buffer) > off)
    <3>1. off = Len(buffer) /\ tabs = {}
      BY <1>2, <2>2
    <3> QED
      BY <3>1
  <2> QED
    BY <2>1, <2>2
<1> HIDE DEF to
<1>7. to \in Nat /\ off <= to /\ to <= Len(buffer)
  BY <1>2, <1>6
<1>8. RecordTypes'
  <2>1. data' \in [Reader -> Nat \X Nat] /\ off' \in 0..Len(buffer')
    BY <1>1, <1>2, <1>7 DEF RecordTypes
  <2> QED
    BY <1>1, <2>1 DEF RecordTypes, Labels
<1>9. /\ \A q \in Records!Proc : q # r => pc'[q] = pc[q]
      /\ pc'[r] = "unlock" /\ data'[r] = <<off, to>>
      /\ \A q \in Reader : q # r => data'[q] = data[q]
  BY <1>1 DEF RecordTypes
<1>10. SectionInv'
  BY <1>1, <1>9 DEF SectionInv, Inside
<1>11. ShapeInv'
  <2>1. \A w \in Writer : pc'[w] = pc[w]
    BY <1>9
  <2>2. off' > 0 => buffer[off'] = Records!Tab
    BY <1>1, <1>6 DEF ShapeInv
  <2> QED
    BY <1>1, <2>1, <2>2 DEF ShapeInv
<1>12. DataInv'
  <2> SUFFICES ASSUME NEW q \in Reader
               PROVE  /\ data'[q][2] <= off'
                      /\ pc'[q] \notin {"unlock", "count"} => data'[q] = <<0, 0>>
                      /\ pc'[q] = "unlock" => data'[q][1] = data'[q][2] \/ OneRecord(q)'
                      /\ pc'[q] = "count" => OneRecord(q)'
    BY DEF DataInv
  <2>1. CASE q # r
    <3>1. data[q] \in Nat \X Nat /\ data'[q] = data[q] /\ pc'[q] = pc[q]
      BY <1>9, <2>1 DEF RecordTypes
    <3>2. data[q][2] \in Nat /\ data[q][2] <= off'
      BY <1>1, <1>2, <1>7, <3>1 DEF DataInv
    <3> QED
      BY <1>1, <3>1, <3>2 DEF DataInv, OneRecord
  <2>2. CASE q = r
    <3>1. data'[q][1] = off /\ data'[q][2] = to
      BY <1>9, <2>2
    <3>2. OneRecord(q)' \/ data'[q][1] = data'[q][2]
      BY <1>1, <1>6, <3>1 DEF OneRecord
    <3> QED
      BY <1>1, <1>7, <1>9, <2>2, <3>1, <3>2
  <2> QED
    BY <2>1, <2>2
<1>13. ByteInv'
  <2>1. Fetched[r] = 0 /\ Fetched'[r] = to - off
    <3>1. data[r] = <<0, 0>>
      BY <1>1 DEF DataInv
    <3> QED
      BY <1>9, <3>1 DEF Fetched
  <2>2. /\ Sum(Underway', Writer) = Sum(Underway, Writer)
        /\ Sum(Fetched', Reader) = Sum(Fetched, Reader) + (Fetched'[r] - Fetched[r])
    BY <1>1, <1>8, <1>9, SumsMove
  <2>3. Sum(Fetched, Reader) \in Int
    <3>1. \A q \in Reader : Fetched[q] \in Int
      <4> SUFFICES ASSUME NEW q \in Reader PROVE Fetched[q] \in Int
        OBVIOUS
      <4>1. data[q] \in Nat \X Nat
        BY DEF RecordTypes
      <4> QED
        BY <4>1 DEF Fetched
    <3> QED
      BY <3>1, SumType
  <2>4. off' = read' + Sum(Fetched', Reader)
    <3>1. read \in Nat /\ read' = read /\ off = read + Sum(Fetched, Reader)
      BY <1>1 DEF RecordTypes, ByteInv
    <3>2. Sum(Fetched', Reader) = Sum(Fetched, Reader) + (to - off)
      BY <1>2, <1>7, <2>1, <2>2
    <3> QED
      BY <1>1, <1>2, <1>7, <2>3, <3>1, <3>2
  <2> QED
    BY <1>1, <2>2, <2>4 DEF ByteInv
<1>14. SignInv'
  <2>1. SignedOff' = SignedOff
    BY <1>1, <1>9 DEF SignedOff
  <2> QED
    BY <1>1, <2>1 DEF SignInv
<1> QED
  BY <1>8, <1>10, <1>11, <1>12, <1>13, <1>14

LEMMA SignKeeps ==
  ASSUME RecordInv, NEW p \in Records!Proc, Records!Sign(p)
  PROVE  RecordInv'
<1> USE Sides DEF RecordInv
<1>1. /\ pc[p] = "lock" /\ round[p] = Records!Number(p) /\ sign' = sign + 1
      /\ pc' = [pc EXCEPT ![p] = "done"]
      /\ UNCHANGED <<mu, buffer, off, data, round, written, read, received>>
  BY DEF Records!Sign, Records!At, Records!Goto, Records!bufferVars, Records!countVars
<1>2. RecordTypes'
  BY <1>1 DEF RecordTypes, Labels
<1>3. (\A q \in Records!Proc : q # p => pc'[q] = pc[q]) /\ pc'[p] = "done"
  BY <1>1 DEF RecordTypes
<1>4. SectionInv'
  BY <1>1, <1>3 DEF SectionInv, Inside
<1>5. ShapeInv'
  <2>1. \A w \in Writer : pc'[w] = "tab" <=> pc[w] = "tab"
    BY <1>1, <1>3
  <2> QED
    BY <1>1, <2>1 DEF ShapeInv
<1>6. DataInv'
  BY <1>1, <1>3 DEF DataInv, OneRecord
<1>7. ByteInv'
  <2>1. Underway' = Underway /\ Fetched' = Fetched
    BY <1>1, <1>3 DEF Underway, Fetched
  <2> QED
    BY <1>1, <2>1 DEF ByteInv
<1>8. SignInv'
  <2>1. SignedOff' = SignedOff \cup {p} /\ p \notin SignedOff /\ SignedOff \subseteq Records!Proc
    BY <1>1, <1>3 DEF SignedOff
  <2>2. IsFiniteSet(SignedOff) /\ Cardinality(SignedOff) \in Nat
    BY <2>1, FS_Subset, FS_CardinalityType
  <2>3. Cardinality(SignedOff') = Cardinality(SignedOff) + 1
    BY <2>1, <2>2, FS_AddElement
  <2> QED
    BY <1>1, <2>2, <2>3 DEF SignInv, RecordTypes
<1> QED
  BY <1>2, <1>4, <1>5, <1>6, <1>7, <1>8

LEMMA ReceiveKeeps ==
  ASSUME RecordInv, Records!Receive
  PROVE  RecordInv'
<1> USE DEF RecordInv
<1>1. /\ sign > 0 /\ sign' = sign - 1 /\ received' = received + 1
      /\ UNCHANGED <<mu, buffer, off, data, pc, round, written, read>>
  BY DEF Records!Receive, Records!bufferVars, Records!countVars
<1>2. RecordTypes' /\ SignInv'
  BY <1>1 DEF RecordTypes, SignInv, SignedOff
<1>3. SectionInv' /\ ShapeInv' /\ DataInv'
  BY <1>1 DEF SectionInv, ShapeInv, DataInv, OneRecord
<1>4. ByteInv'
  <2>1. Underway' = Underway /\ Fetched' = Fetched
    BY <1>1 DEF Underway, Fetched
  <2> QED
    BY <1>1, <2>1 DEF ByteInv
<1> QED
  BY <1>2, <1>3, <1>4

LEMMA RecordsKept == RecordsInv /\ [Next]_vars => RecordsInv'
<1> SUFFICES ASSUME RecordsInv, [Next]_vars, running' = "RecordBuffer" PROVE RecordInv'
  BY DEF RecordsInv
<1> DEFINE Steady == UNCHANGED <<recordVars, bufferVars, written, pc>>
<1>0. ASSUME RecordInv, Steady PROVE RecordInv'
  <2> USE <1>0 DEF RecordInv, recordVars, bufferVars
  <2>1. RecordTypes' /\ SectionInv' /\ ShapeInv' /\ DataInv'
    BY DEF RecordTypes, SectionInv, ShapeInv, DataInv, OneRecord
  <2>2. Underway' = Underway /\ Fetched' = Fetched /\ SignedOff' = SignedOff
    BY DEF Underway, Fetched, SignedOff
  <2>3. ByteInv' /\ SignInv'
    BY <2>2 DEF ByteInv, SignInv
  <2> QED
    BY <2>1, <2>3
<1>1. CASE OfRecords(Records!Next)
  <2>1. RecordInv /\ Records!Next
    BY <1>1 DEF OfRecords, RecordsInv
  <2>2. CASE Records!Terminated
    <3>1. Steady
      BY <2>2 DEF Records!Terminated, Records!vars, recordVars, bufferVars
    <3> QED
      BY <1>0, <2>1, <3>1
  <2>3. ASSUME NEW p \in Records!Proc, Records!Step(p) PROVE RecordInv'
    BY <2>1, <2>3, LockKeeps, UnlockKeeps, CountKeeps, SignKeeps, WriteBodyKeeps, WriteTabKeeps,
       ReadStringKeeps DEF Records!Step
  <2> QED
    BY <2>1, <2>2, <2>3, ReceiveKeeps DEF Records!Next
<1>2. CASE UNCHANGED vars
  BY <1>0, <1>2 DEF vars, RecordsInv
<1>3. CASE OfBlocks(InBlocks!Next) \/ OfPipe(Piped!Next) \/ OfMap(Mapped!Next)
  BY <1>3 DEF OfBlocks, OfPipe, OfMap
<1> QED
  BY <1>1, <1>2, <1>3 DEF Next

LEMMA RecordsInvariant == Spec => []RecordsInv
BY RecordsStart, RecordsKept, PTL DEF Spec

-----------------------------------------------------------------------------
(* What the readers get and what main finds *)

LEMMA RecordsWhole == RecordInv => Records!WholeRecords
<1> SUFFICES ASSUME RecordInv, NEW r \in Reader
             PROVE  /\ pc[r] = "count" => /\ data[r][2] = data[r][1] + 2
                                          /\ buffer[data[r][1] + 1] \in Writer \X Nat
                                          /\ buffer[data[r][2]] = Records!Tab
                    /\ pc[r] = "unlock" /\ Records!Eof(r) => data[r][1] = data[r][2]
  BY DEF Records!WholeRecords
<1> USE DEF RecordInv
<1>1. ASSUME pc[r] = "count" PROVE OneRecord(r) /\ buffer[data[r][1] + 1] \in Writer \X Nat
  <2>1. OneRecord(r) /\ data[r][2] <= off
    BY <1>1 DEF DataInv
  <2>2. data[r] \in Nat \X Nat /\ off \in 0..Len(buffer) /\ Len(buffer) \in Nat
    BY DEF RecordTypes
  <2>3. data[r][1] + 1 \in 1..Len(buffer)
    <3>1. data[r][1] \in Nat /\ data[r][2] \in Nat /\ data[r][2] = data[r][1] + 2
      BY <2>1, <2>2 DEF OneRecord
    <3> QED
      BY <2>1, <2>2, <3>1
  <2> QED
    BY <2>1, <2>3 DEF OneRecord, RecordTypes
<1>2. pc[r] = "unlock" /\ Records!Eof(r) => data[r][1] = data[r][2]
  BY EofIsEmpty
<1> QED
  BY <1>1, <1>2 DEF OneRecord

\* When main has received the last sign everybody has done all rounds.
LEMMA AllSignedOff ==
  ASSUME RecordInv, Records!Exited
  PROVE  \A p \in Records!Proc : pc[p] = "done" /\ round[p] = Records!Number(p)
<1> USE Sides DEF RecordInv
<1>1. SignedOff \subseteq Records!Proc
  BY DEF SignedOff
<1>2. /\ IsFiniteSet(SignedOff) /\ Cardinality(SignedOff) \in Nat
      /\ Cardinality(SignedOff) <= Cardinality(Records!Proc)
      /\ (Cardinality(SignedOff) = Cardinality(Records!Proc) => SignedOff = Records!Proc)
  BY <1>1, FS_Subset, FS_CardinalityType
<1>3. received = Cardinality(Records!Proc) /\ Cardinality(Records!Proc) \in Nat
  BY FS_CardinalityType DEF Records!Exited, Records!Cardinality, Cardinality
<1>4. SignedOff = Records!Proc
  BY <1>2, <1>3 DEF SignInv, RecordTypes
<1> QED
  BY <1>4 DEF SignedOff, SectionInv

LEMMA CountersStandAtTheEnd == RecordInv => Records!CountersAgree
<1> SUFFICES ASSUME RecordInv PROVE Records!CountersAgree
  OBVIOUS
<1> USE Sides DEF RecordInv
<1>1. \A r \in Reader : Fetched[r] \in Nat
  <2> SUFFICES ASSUME NEW r \in Reader PROVE data[r][2] - data[r][1] \in Nat
    BY DEF Fetched
  <2>1. data[r] \in Nat \X Nat /\ data[r][1] \in Nat /\ data[r][2] \in Nat
    BY DEF RecordTypes
  <2>2. data[r] = <<0, 0>> \/ data[r][1] = data[r][2] \/ data[r][2] = data[r][1] + 2
    BY DEF DataInv, OneRecord
  <2> QED
    BY <2>1, <2>2
<1>2. Sum(Fetched, Reader) \in Nat
  BY <1>1, SumNat
<1>3. read <= off
  BY <1>2 DEF ByteInv, RecordTypes
<1>4. ASSUME Records!Exited PROVE written = Len(buffer) /\ read = Len(buffer)
  <2>1. \A w \in Writer : Underway[w] = 0 /\ round[w] = WriteNumber
    BY <1>4, AllSignedOff DEF Underway, Records!Number
  <2>2. \A r \in Reader : Fetched[r] = 0 /\ round[r] = ReadNumber
    BY <1>4, AllSignedOff DEF Fetched, Records!Number, DataInv
  <2>3. Sum(Underway, Writer) = 0 /\ Sum(Fetched, Reader) = 0
    BY <2>1, <2>2, SumZero
  <2>4. WriteNumber \in Int /\ ReadNumber \in Int
    BY SharedDemosAssumption
  <2>5. /\ Sum(round, Writer) = Cardinality(Writer) * WriteNumber
        /\ Sum(round, Reader) = Cardinality(Reader) * ReadNumber
    BY <2>1, <2>2, <2>4, SumConstant
  <2>6. Sum(round, Writer) = Sum(round, Reader)
    BY <2>5, SharedDemosAssumption
  <2> QED
    BY <2>3, <2>6 DEF ByteInv, RecordTypes
<1> QED
  BY <1>3, <1>4 DEF Records!CountersAgree

-----------------------------------------------------------------------------
(* The buffer of blocks *)

Writing == {"find", "grow", "copy", "unlock"}
Chunk == [id : Goroutine, j : 1..Blocks, k : 0..Chunks]

BlockTypes ==
  /\ protecting \in {0, 1} /\ mu \in Goroutine \cup {NoOne}
  /\ buffer \in Seq(Chunk \cup {InBlocks!NoChunk}) /\ len \in 0..Len(buffer)
  /\ m \in [Goroutine -> 0..Len(buffer)]
  /\ pc \in [Goroutine -> Writing \cup {"lock", "sign", "done", "panicked"}]
  /\ j \in [Goroutine -> 1..(Blocks + 1)] /\ k \in [Goroutine -> 0..Chunks]
  /\ sign \in Nat /\ received \in Nat

BlockLoopInv ==
  \A g \in Goroutine :
    /\ pc[g] \in Writing => j[g] <= Blocks
    /\ pc[g] \in {"lock", "unlock", "sign", "done"} => k[g] = 0
    /\ pc[g] \in {"sign", "done"} => j[g] = Blocks + 1

Ended == {g \in Goroutine : pc[g] = "done"}

BlockSignInv == sign + received = Cardinality(Ended)

\* With the mutex one goroutine at a time writes, at the end of the buffer.
WriterAloneInv ==
  /\ len = Len(buffer)
  /\ \A g \in Goroutine :
       /\ mu = g <=> pc[g] \in Writing
       /\ pc[g] # "panicked"
       /\ pc[g] = "grow" => m[g] = len
       /\ pc[g] = "copy" => m[g] + 1 = len

\* The cells with a chunk: all of them but the one that is about to be filled.
Filled == IF \E g \in Goroutine : pc[g] = "copy" THEN len - 1 ELSE len

InBlock(g) == pc[g] \in {"find", "grow", "copy"} /\ k[g] > 0

\* A chunk follows the one before it in its block, a header the last chunk of
\* another block, and the next chunk will follow the last one.
LayoutInv ==
  /\ \A n \in 1..len : buffer[n] = InBlocks!NoChunk <=> n > Filled
  /\ \A n \in 1..Filled :
       IF buffer[n].k = 0 THEN n = 1 \/ buffer[n - 1].k = Chunks
       ELSE n > 1 /\ buffer[n - 1] = [buffer[n] EXCEPT !.k = @ - 1]
  /\ \A g \in Goroutine : InBlock(g) =>
       Filled > 0 /\ buffer[Filled] = [id |-> g, j |-> j[g], k |-> k[g] - 1]
  /\ (\A g \in Goroutine : ~InBlock(g)) => Filled = 0 \/ buffer[Filled].k = Chunks

Past(c) ==
  c.j < j[c.id] \/ (c.j = j[c.id] /\ (c.k < k[c.id] \/ pc[c.id] = "unlock"))

PresentInv == \A c \in Chunk : (\E n \in 1..len : buffer[n] = c) <=> Past(c)

\* The cells that the goroutines have taken.
Cells == [g \in Goroutine |->
            (j[g] - 1) * (Chunks + 1) + (IF pc[g] = "unlock" THEN Chunks + 1 ELSE k[g])
                                      + (IF pc[g] = "copy" THEN 1 ELSE 0)]

LengthInv == len = Sum(Cells, Goroutine)

GuardedInv == WriterAloneInv /\ LayoutInv /\ PresentInv /\ LengthInv

BlockInv ==
  /\ BlockTypes /\ BlockLoopInv /\ BlockSignInv
  /\ protecting > 0 => GuardedInv

BlocksInv == running = "BlockBuffer" => BlockInv

LEMMA Sizing ==
  /\ Blocks \in Nat /\ Chunks \in Nat /\ IsFiniteSet(Goroutine) /\ NoOne \notin Goroutine
  /\ InBlocks!NoChunk \notin Chunk
BY SharedDemosAssumption DEF Chunk, InBlocks!NoChunk

LEMMA BlocksStart == Init => BlocksInv
<1> SUFFICES ASSUME Init, running = "BlockBuffer" PROVE BlockInv
  BY DEF BlocksInv
<1>1. InBlocks!Init
  BY DEF Init
<1> USE <1>1, Sizing DEF InBlocks!Init
<1>2. BlockTypes
  BY DEF BlockTypes
<1>3. BlockLoopInv
  BY DEF BlockLoopInv, Writing
<1>4. BlockSignInv
  <2>1. Ended = {}
    BY DEF Ended
  <2> QED
    BY <2>1, FS_EmptySet DEF BlockSignInv
<1>5. WriterAloneInv
  BY DEF WriterAloneInv, Writing
<1>6. LayoutInv
  <2>1. Filled = 0 /\ len = 0 /\ \A g \in Goroutine : ~InBlock(g)
    BY DEF Filled, InBlock
  <2> QED
    BY <2>1 DEF LayoutInv
<1>7. PresentInv
  <2>1. ASSUME NEW c \in Chunk PROVE ~Past(c)
    <3>1. c.id \in Goroutine /\ c.j \in 1..Blocks /\ c.k \in 0..Chunks
      BY DEF Chunk
    <3>2. j[c.id] = 1 /\ k[c.id] = 0 /\ pc[c.id] = "lock"
      BY <3>1
    <3> QED
      BY <3>1, <3>2 DEF Past
  <2> QED
    BY <2>1 DEF PresentInv
<1>8. LengthInv
  <2>1. \A g \in Goroutine : Cells[g] = 0
    <3>1. 0 * (Chunks + 1) = 0
      OBVIOUS
    <3> QED
      BY <3>1 DEF Cells
  <2> QED
    BY <2>1, SumZero DEF LengthInv
<1> QED
  BY <1>2, <1>3, <1>4, <1>5, <1>6, <1>7, <1>8 DEF BlockInv, GuardedInv

LEMMA Replaced ==
  ASSUME NEW S, NEW s \in Seq(S), NEW n \in 1..Len(s), NEW e \in S
  PROVE  /\ [s EXCEPT ![n] = e] \in Seq(S) /\ Len([s EXCEPT ![n] = e]) = Len(s)
         /\ [s EXCEPT ![n] = e][n] = e
         /\ \A l \in 1..Len(s) : l # n => [s EXCEPT ![n] = e][l] = s[l]
OBVIOUS

\* The types, and the counts of main, with the mutex or without it.
LEMMA BlockBasicsKept ==
  ASSUME BlockInv, InBlocks!Next
  PROVE  BlockTypes' /\ BlockLoopInv' /\ BlockSignInv' /\ protecting' = protecting
<1> USE Sizing DEF BlockInv
<1>1. ASSUME NEW g \in Goroutine, InBlocks!Step(g), ~InBlocks!Sign(g)
      PROVE  /\ BlockTypes' /\ BlockLoopInv' /\ protecting' = protecting
             /\ \A h \in Goroutine : pc'[h] = "done" <=> pc[h] = "done"
             /\ UNCHANGED <<sign, received>>
  <2> USE DEF BlockTypes, BlockLoopInv, InBlocks!At, InBlocks!Goto, InBlocks!bufferVars,
              InBlocks!loopVars, InBlocks!mainVars, Writing
  <2>1. CASE InBlocks!Lock(g)
    <3>1. /\ pc[g] = "lock" /\ mu' \in {mu, g}
          /\ pc' = [pc EXCEPT ![g] = IF j[g] > Blocks THEN "sign" ELSE "find"]
          /\ UNCHANGED <<protecting, buffer, len, m, j, k, sign, received>>
      BY <2>1 DEF InBlocks!Lock
    <3>2. BlockTypes'
      BY <3>1
    <3>3. j[g] \in 1..(Blocks + 1) /\ k[g] = 0
      BY <3>1
    <3> QED
      BY <3>1, <3>2, <3>3
  <2>2. CASE InBlocks!Find(g)
    BY <2>2 DEF InBlocks!Find
  <2>3. CASE InBlocks!Grow(g)
    <3>1. /\ pc[g] = "grow" /\ len' = m[g] + 1 /\ pc' = [pc EXCEPT ![g] = "copy"]
          /\ buffer' = (IF len' > Len(buffer) THEN Append(buffer, InBlocks!NoChunk) ELSE buffer)
          /\ UNCHANGED <<protecting, mu, m, j, k, sign, received>>
      BY <2>3 DEF InBlocks!Grow
    <3>2. m[g] \in 0..Len(buffer) /\ Len(buffer) \in Nat
      OBVIOUS
    <3>3. /\ buffer' \in Seq(Chunk \cup {InBlocks!NoChunk}) /\ Len(buffer') \in Nat
          /\ Len(buffer') >= Len(buffer) /\ len' <= Len(buffer')
      <4>1. CASE len' > Len(buffer)
        <5>1. buffer' = Append(buffer, InBlocks!NoChunk) /\ m[g] = Len(buffer)
          BY <3>1, <3>2, <4>1
        <5> QED
          BY <3>1, <3>2, <5>1, Appended
      <4>2. CASE ~(len' > Len(buffer))
        BY <3>1, <3>2, <4>2
      <4> QED
        BY <4>1, <4>2
    <3>4. len' \in 0..Len(buffer') /\ m' \in [Goroutine -> 0..Len(buffer')]
      <4>1. \A n \in 0..Len(buffer) : n \in 0..Len(buffer')
        BY <3>2, <3>3
      <4> QED
        BY <3>1, <3>2, <3>3, <4>1
    <3>5. BlockTypes'
      BY <3>1, <3>3, <3>4
    <3> QED
      BY <3>1, <3>5
  <2>4. CASE InBlocks!Copy(g)
    <3>1. CASE m[g] > len
      BY <2>4, <3>1 DEF InBlocks!Copy
    <3>2. CASE ~(m[g] > len)
      <4> DEFINE chunk == [id |-> g, j |-> j[g], k |-> k[g]]
      <4>1. /\ pc[g] = "copy"
            /\ buffer' = IF m[g] = len THEN buffer ELSE [buffer EXCEPT ![m[g] + 1] = chunk]
            /\ k' = [k EXCEPT ![g] = IF @ < Chunks THEN @ + 1 ELSE 0]
            /\ pc' = [pc EXCEPT ![g] = IF k[g] < Chunks THEN "find" ELSE "unlock"]
            /\ UNCHANGED <<protecting, mu, len, m, j, sign, received>>
        BY <2>4, <3>2 DEF InBlocks!Copy
      <4>2. chunk \in Chunk
        BY <4>1 DEF Chunk
      <4> HIDE DEF chunk
      <4>3. buffer' \in Seq(Chunk \cup {InBlocks!NoChunk}) /\ Len(buffer') = Len(buffer)
        <5>1. CASE m[g] = len
          BY <4>1, <5>1
        <5>2. CASE m[g] # len
          <6>1. m[g] \in 0..Len(buffer) /\ len \in 0..Len(buffer) /\ Len(buffer) \in Nat
            OBVIOUS
          <6>2. m[g] + 1 \in 1..Len(buffer)
            BY <3>2, <5>2, <6>1
          <6> QED
            BY <4>1, <4>2, <5>2, <6>2, Replaced
        <5> QED
          BY <5>1, <5>2
      <4>4. k'[g] \in 0..Chunks /\ k' \in [Goroutine -> 0..Chunks]
        BY <4>1
      <4>5. BlockTypes'
        BY <4>1, <4>3, <4>4
      <4>6. BlockLoopInv'
        <5>1. k[g] < Chunks \/ k'[g] = 0
          BY <4>1
        <5> QED
          BY <4>1, <5>1
      <4> QED
        BY <4>1, <4>5, <4>6
    <3> QED
      BY <3>1, <3>2
  <2>5. CASE InBlocks!Unlock(g)
    BY <2>5 DEF InBlocks!Unlock
  <2> QED
    BY <1>1, <2>1, <2>2, <2>3, <2>4, <2>5 DEF InBlocks!Step
<1>2. ASSUME NEW g \in Goroutine, InBlocks!Step(g), ~InBlocks!Sign(g)
      PROVE  BlockSignInv'
  <2>1. Ended' = Ended
    BY <1>1, <1>2 DEF Ended
  <2> QED
    BY <1>1, <1>2, <2>1 DEF BlockSignInv
<1>3. ASSUME NEW g \in Goroutine, InBlocks!Sign(g)
      PROVE  BlockTypes' /\ BlockLoopInv' /\ BlockSignInv' /\ protecting' = protecting
  <2>1. /\ pc[g] = "sign" /\ sign' = sign + 1 /\ pc' = [pc EXCEPT ![g] = "done"]
        /\ UNCHANGED <<protecting, mu, buffer, len, m, j, k, received>>
    BY <1>3 DEF InBlocks!Sign, InBlocks!At, InBlocks!Goto, InBlocks!bufferVars, InBlocks!loopVars
  <2>2. BlockTypes' /\ BlockLoopInv'
    BY <2>1 DEF BlockTypes, BlockLoopInv, Writing
  <2>3. Ended' = Ended \cup {g} /\ g \notin Ended /\ Ended \subseteq Goroutine
    BY <2>1 DEF BlockTypes, Ended
  <2>4. IsFiniteSet(Ended) /\ Cardinality(Ended) \in Nat
    BY <2>3, FS_Subset, FS_CardinalityType
  <2>5. Cardinality(Ended') = Cardinality(Ended) + 1
    BY <2>3, <2>4, FS_AddElement
  <2>6. BlockSignInv'
    <3>1. sign \in Nat /\ received \in Nat
      BY DEF BlockTypes
    <3> QED
      BY <2>1, <2>4, <2>5, <3>1 DEF BlockSignInv
  <2> QED
    BY <2>1, <2>2, <2>6
<1>4. CASE InBlocks!Receive
  <2>1. /\ sign > 0 /\ sign' = sign - 1 /\ received' = received + 1
        /\ UNCHANGED <<protecting, mu, buffer, len, m, pc, j, k>>
    BY <1>4 DEF InBlocks!Receive, InBlocks!bufferVars, InBlocks!loopVars
  <2> QED
    BY <2>1 DEF BlockTypes, BlockLoopInv, BlockSignInv, Ended
<1>5. CASE InBlocks!Terminated
  BY <1>5 DEF InBlocks!Terminated, InBlocks!vars, BlockTypes, BlockLoopInv, BlockSignInv, Ended
<1> QED
  BY <1>1, <1>2, <1>3, <1>4, <1>5 DEF InBlocks!Next

LEMMA OneWriter ==
  ASSUME WriterAloneInv, NEW g \in Goroutine, pc[g] \in Writing, NEW h \in Goroutine, h # g
  PROVE  pc[h] \notin Writing
BY DEF WriterAloneInv

\* A step that writes nothing and takes no cell.
LEMMA BlockFrame ==
  ASSUME GuardedInv, BlockTypes, UNCHANGED <<buffer, len, j, k>>,
         \A g \in Goroutine : /\ pc'[g] = "copy" <=> pc[g] = "copy"
                              /\ pc'[g] = "unlock" <=> pc[g] = "unlock"
                              /\ InBlock(g)' <=> InBlock(g)
  PROVE  LayoutInv' /\ PresentInv' /\ LengthInv'
<1> USE DEF GuardedInv
<1>1. Filled' = Filled
  BY DEF Filled
<1>2. LayoutInv'
  BY <1>1 DEF LayoutInv
<1>3. \A c \in Chunk : Past(c)' <=> Past(c)
  <2> SUFFICES ASSUME NEW c \in Chunk PROVE Past(c)' <=> Past(c)
    OBVIOUS
  <2>1. c.id \in Goroutine
    BY DEF Chunk
  <2> QED
    BY <2>1 DEF Past
<1>4. PresentInv'
  BY <1>3 DEF PresentInv
<1>5. Cells' = Cells
  BY DEF Cells
<1> QED
  BY <1>2, <1>4, <1>5 DEF LengthInv

LEMMA BlockLockKeeps ==
  ASSUME BlockInv, protecting > 0, NEW g \in Goroutine, InBlocks!Lock(g)
  PROVE  GuardedInv'
<1> USE DEF BlockInv
<1>1. /\ pc[g] = "lock" /\ pc' = [pc EXCEPT ![g] = IF j[g] > Blocks THEN "sign" ELSE "find"]
      /\ (IF j[g] > Blocks THEN mu' = mu ELSE mu = NoOne /\ mu' = g)
      /\ UNCHANGED <<buffer, len, m, j, k>>
  BY DEF InBlocks!Lock, InBlocks!At, InBlocks!Goto, InBlocks!bufferVars, InBlocks!loopVars
<1>2. (\A h \in Goroutine : h # g => pc'[h] = pc[h]) /\ pc'[g] \in {"sign", "find"}
      /\ (pc'[g] = "sign" <=> j[g] > Blocks)
  BY <1>1 DEF BlockTypes
<1>3. WriterAloneInv'
  BY <1>1, <1>2, Sizing DEF WriterAloneInv, Writing, GuardedInv
<1>4. k[g] = 0
  BY <1>1 DEF BlockLoopInv
<1>5. \A h \in Goroutine : InBlock(h)' <=> InBlock(h)
  BY <1>1, <1>2, <1>4 DEF InBlock
<1>6. LayoutInv' /\ PresentInv' /\ LengthInv'
  BY <1>1, <1>2, <1>5, BlockFrame
<1> QED
  BY <1>3, <1>6 DEF GuardedInv

LEMMA FindKeeps ==
  ASSUME BlockInv, protecting > 0, NEW g \in Goroutine, InBlocks!Find(g)
  PROVE  GuardedInv'
<1> USE DEF BlockInv
<1>1. /\ pc[g] = "find" /\ pc' = [pc EXCEPT ![g] = "grow"] /\ m' = [m EXCEPT ![g] = len]
      /\ UNCHANGED <<mu, buffer, len, j, k>>
  BY DEF InBlocks!Find, InBlocks!At, InBlocks!Goto, InBlocks!loopVars
<1>2. /\ \A h \in Goroutine : h # g => pc'[h] = pc[h] /\ m'[h] = m[h]
      /\ pc'[g] = "grow" /\ m'[g] = len
  BY <1>1 DEF BlockTypes
<1>3. WriterAloneInv'
  BY <1>1, <1>2 DEF WriterAloneInv, Writing, GuardedInv
<1>4. \A h \in Goroutine : InBlock(h)' <=> InBlock(h)
  BY <1>1, <1>2 DEF InBlock
<1>5. LayoutInv' /\ PresentInv' /\ LengthInv'
  BY <1>1, <1>2, <1>4, BlockFrame
<1> QED
  BY <1>3, <1>5 DEF GuardedInv

LEMMA BlockSignKeeps ==
  ASSUME BlockInv, protecting > 0, NEW g \in Goroutine, InBlocks!Sign(g)
  PROVE  GuardedInv'
<1> USE DEF BlockInv
<1>1. /\ pc[g] = "sign" /\ pc' = [pc EXCEPT ![g] = "done"]
      /\ UNCHANGED <<mu, buffer, len, m, j, k>>
  BY DEF InBlocks!Sign, InBlocks!At, InBlocks!Goto, InBlocks!bufferVars, InBlocks!loopVars
<1>2. (\A h \in Goroutine : h # g => pc'[h] = pc[h]) /\ pc'[g] = "done"
  BY <1>1 DEF BlockTypes
<1>3. WriterAloneInv'
  BY <1>1, <1>2 DEF WriterAloneInv, Writing, GuardedInv
<1>4. \A h \in Goroutine : InBlock(h)' <=> InBlock(h)
  BY <1>1, <1>2 DEF InBlock
<1>5. LayoutInv' /\ PresentInv' /\ LengthInv'
  BY <1>1, <1>2, <1>4, BlockFrame
<1> QED
  BY <1>3, <1>5 DEF GuardedInv

LEMMA CellsMove ==
  ASSUME BlockTypes, BlockTypes', NEW g \in Goroutine,
         \A h \in Goroutine \ {g} : pc'[h] = pc[h] /\ j'[h] = j[h] /\ k'[h] = k[h]
  PROVE  /\ Sum(Cells, Goroutine) \in Int /\ Cells[g] \in Int /\ Cells'[g] \in Int
         /\ Sum(Cells', Goroutine) = Sum(Cells, Goroutine) + (Cells'[g] - Cells[g])
<1> USE Sizing
<1>1. \A a \in Int : a * (Chunks + 1) \in Int
  OBVIOUS
<1>2. ASSUME NEW h \in Goroutine
      PROVE  /\ Cells[h] \in Int /\ Cells'[h] \in Int
             /\ h # g => Cells'[h] = Cells[h]
  <2>1. /\ j[h] - 1 \in Int /\ k[h] \in Int /\ j'[h] - 1 \in Int /\ k'[h] \in Int
    <3>1. j[h] \in 1..(Blocks + 1) /\ k[h] \in 0..Chunks
      BY DEF BlockTypes
    <3>2. j'[h] \in 1..(Blocks + 1) /\ k'[h] \in 0..Chunks
      BY DEF BlockTypes
    <3> QED
      BY <3>1, <3>2
  <2>2. (j[h] - 1) * (Chunks + 1) \in Int /\ (j'[h] - 1) * (Chunks + 1) \in Int
    BY <1>1, <2>1
  <2> QED
    BY <2>1, <2>2 DEF Cells
<1>3. Sum(Cells, Goroutine) \in Int
  BY <1>2, SumType
<1>4. Sum(Cells', Goroutine) = Sum(Cells, Goroutine) + (Cells'[g] - Cells[g])
  BY <1>2, SumChange
<1> QED
  BY <1>2, <1>3, <1>4

\* The slice grows by the cell of the next chunk, empty so far.
LEMMA GrowKeeps ==
  ASSUME BlockInv, BlockTypes', protecting > 0, NEW g \in Goroutine, InBlocks!Grow(g)
  PROVE  GuardedInv'
<1> USE Sizing DEF BlockInv, GuardedInv
<1>1. /\ pc[g] = "grow" /\ m[g] = len /\ len = Len(buffer) /\ len \in Nat
      /\ pc' = [pc EXCEPT ![g] = "copy"] /\ len' = len + 1
      /\ buffer' = Append(buffer, InBlocks!NoChunk)
      /\ UNCHANGED <<mu, m, j, k>>
  BY DEF InBlocks!Grow, InBlocks!At, InBlocks!Goto, InBlocks!loopVars, WriterAloneInv, BlockTypes
<1>2. /\ Len(buffer') = len' /\ (\A n \in 1..len : buffer'[n] = buffer[n])
      /\ buffer'[len'] = InBlocks!NoChunk
  BY <1>1, Appended DEF BlockTypes
<1>3. (\A h \in Goroutine : h # g => pc'[h] = pc[h]) /\ pc'[g] = "copy"
  BY <1>1 DEF BlockTypes
<1>4. \A h \in Goroutine : h # g => pc[h] \notin Writing
  <2>1. pc[g] \in Writing
    BY <1>1 DEF Writing
  <2> QED
    BY <2>1, OneWriter
<1>5. WriterAloneInv'
  BY <1>1, <1>2, <1>3, <1>4 DEF WriterAloneInv, Writing
<1>6. Filled = len /\ Filled' = len
  BY <1>1, <1>3, <1>4 DEF Filled, Writing
<1>7. \A h \in Goroutine : InBlock(h)' <=> InBlock(h)
  BY <1>1, <1>3 DEF InBlock
<1>8. LayoutInv'
  <2>1. \A n \in 1..len' : n = len' \/ n \in 1..len
    BY <1>1
  <2>2. \A n \in 1..len' : buffer'[n] = InBlocks!NoChunk <=> n > Filled'
    BY <1>1, <1>2, <1>6, <2>1 DEF LayoutInv
  <2>3. ASSUME NEW n \in 1..Filled'
        PROVE  IF buffer'[n].k = 0 THEN n = 1 \/ buffer'[n - 1].k = Chunks
               ELSE n > 1 /\ buffer'[n - 1] = [buffer'[n] EXCEPT !.k = @ - 1]
    <3>1. n \in 1..len /\ (n = 1 \/ n - 1 \in 1..len)
      BY <1>1, <1>6
    <3>2. buffer'[n] = buffer[n] /\ (n = 1 \/ buffer'[n - 1] = buffer[n - 1])
      BY <1>2, <3>1
    <3>3. IF buffer[n].k = 0 THEN n = 1 \/ buffer[n - 1].k = Chunks
          ELSE n > 1 /\ buffer[n - 1] = [buffer[n] EXCEPT !.k = @ - 1]
      BY <1>6, <3>1 DEF LayoutInv
    <3> QED
      BY <3>1, <3>2, <3>3
  <2>4. len > 0 => buffer'[len] = buffer[len]
    BY <1>1, <1>2
  <2>5. \A h \in Goroutine : InBlock(h)' =>
          Filled' > 0 /\ buffer'[Filled'] = [id |-> h, j |-> j'[h], k |-> k'[h] - 1]
    BY <1>1, <1>6, <1>7, <2>4 DEF LayoutInv
  <2>6. (\A h \in Goroutine : ~InBlock(h)') => Filled' = 0 \/ buffer'[Filled'].k = Chunks
    BY <1>1, <1>6, <1>7, <2>4 DEF LayoutInv
  <2> QED
    BY <2>2, <2>3, <2>5, <2>6 DEF LayoutInv
<1>9. PresentInv'
  <2> SUFFICES ASSUME NEW c \in Chunk
               PROVE  (\E n \in 1..len' : buffer'[n] = c) <=> Past(c)'
    BY DEF PresentInv
  <2>1. Past(c)' <=> Past(c)
    <3>1. c.id \in Goroutine
      BY DEF Chunk
    <3> QED
      BY <1>1, <1>3, <3>1 DEF Past
  <2>2. \A n \in 1..len' : n \in 1..len \/ buffer'[n] = InBlocks!NoChunk
    BY <1>1, <1>2
  <2>3. \A n \in 1..len : n \in 1..len'
    BY <1>1
  <2> QED
    BY <1>2, <2>1, <2>2, <2>3 DEF PresentInv
<1>10. LengthInv'
  <2>1. Sum(Cells', Goroutine) = Sum(Cells, Goroutine) + (Cells'[g] - Cells[g])
        /\ Sum(Cells, Goroutine) \in Int /\ Cells[g] \in Int /\ Cells'[g] \in Int
    BY <1>1, <1>3, CellsMove
  <2>2. Cells'[g] = Cells[g] + 1
    <3> DEFINE before == (j[g] - 1) * (Chunks + 1)
    <3>1. Cells[g] = before + k[g] + 0 /\ Cells'[g] = before + k[g] + 1
      BY <1>1, <1>3 DEF Cells
    <3>2. before \in Int /\ k[g] \in Int
      <4>1. j[g] - 1 \in Int /\ k[g] \in Int
        BY DEF BlockTypes
      <4> QED
        BY <4>1
    <3> HIDE DEF before
    <3> QED
      BY <3>1, <3>2
  <2> QED
    BY <1>1, <2>1, <2>2 DEF LengthInv
<1> QED
  BY <1>5, <1>8, <1>9, <1>10

\* The chunk goes into the last cell.
LEMMA CopyKeeps ==
  ASSUME BlockInv, BlockTypes', protecting > 0, NEW g \in Goroutine, InBlocks!Copy(g)
  PROVE  GuardedInv'
<1> USE Sizing DEF BlockInv, GuardedInv
<1> DEFINE chunk == [id |-> g, j |-> j[g], k |-> k[g]]
<1>0. /\ pc[g] = "copy" /\ m[g] + 1 = len /\ len = Len(buffer) /\ len \in Nat \ {0}
      /\ m[g] < len /\ m[g] \in Nat
  BY DEF InBlocks!Copy, InBlocks!At, WriterAloneInv, BlockTypes
<1>1. /\ buffer' = [buffer EXCEPT ![len] = chunk]
      /\ k' = [k EXCEPT ![g] = IF @ < Chunks THEN @ + 1 ELSE 0]
      /\ pc' = [pc EXCEPT ![g] = IF k[g] < Chunks THEN "find" ELSE "unlock"]
      /\ UNCHANGED <<mu, len, m, j>>
  BY <1>0 DEF InBlocks!Copy, InBlocks!Goto
<1>2. /\ j[g] \in 1..Blocks /\ k[g] \in 0..Chunks /\ chunk \in Chunk
      /\ chunk.id = g /\ chunk.j = j[g] /\ chunk.k = k[g]
  <2>1. j[g] \in 1..(Blocks + 1) /\ j[g] <= Blocks /\ k[g] \in 0..Chunks
    BY <1>0 DEF BlockTypes, BlockLoopInv, Writing
  <2> QED
    BY <2>1 DEF Chunk
<1>3. \A c \in Chunk : c = chunk <=> c.id = g /\ c.j = j[g] /\ c.k = k[g]
  BY DEF Chunk
<1>4. chunk # InBlocks!NoChunk /\ [chunk EXCEPT !.k = @ - 1] = [id |-> g, j |-> j[g], k |-> k[g] - 1]
  BY <1>2
<1> HIDE DEF chunk
<1>5. Len(buffer') = len /\ buffer'[len] = chunk /\ \A n \in 1..len : n # len => buffer'[n] = buffer[n]
  BY <1>0, <1>1, <1>2, Replaced DEF BlockTypes
<1>6. /\ \A h \in Goroutine : h # g => pc'[h] = pc[h] /\ k'[h] = k[h]
      /\ k[g] < Chunks => pc'[g] = "find" /\ k'[g] = k[g] + 1
      /\ k[g] = Chunks => pc'[g] = "unlock" /\ k'[g] = 0
  BY <1>1, <1>2 DEF BlockTypes
<1>7. k[g] < Chunks \/ k[g] = Chunks
  BY <1>2
<1>8. \A h \in Goroutine : h # g => pc[h] \notin Writing
  <2>1. pc[g] \in Writing
    BY <1>0 DEF Writing
  <2> QED
    BY <2>1, OneWriter
<1>9. WriterAloneInv'
  BY <1>0, <1>1, <1>5, <1>6, <1>7, <1>8 DEF WriterAloneInv, Writing
<1>10. Filled = len - 1 /\ Filled' = len
  BY <1>0, <1>1, <1>6, <1>7, <1>8 DEF Filled, Writing
<1>11. \A h \in Goroutine : h # g => ~InBlock(h) /\ ~InBlock(h)'
  BY <1>6, <1>8 DEF InBlock, Writing
<1>12. LayoutInv'
  <2>1. \A n \in 1..len' : buffer'[n] = InBlocks!NoChunk <=> n > Filled'
    <3>1. \A n \in 1..len : n # len => buffer[n] # InBlocks!NoChunk
      BY <1>0, <1>10 DEF LayoutInv
    <3> QED
      BY <1>0, <1>1, <1>4, <1>5, <1>10, <3>1
  <2>2. ASSUME NEW n \in 1..Filled'
        PROVE  IF buffer'[n].k = 0 THEN n = 1 \/ buffer'[n - 1].k = Chunks
               ELSE n > 1 /\ buffer'[n - 1] = [buffer'[n] EXCEPT !.k = @ - 1]
    <3>1. n \in 1..len /\ (n = 1 \/ (n - 1 \in 1..len /\ n - 1 # len))
      BY <1>0, <1>10
    <3>2. CASE n # len
      <4>1. n \in 1..Filled /\ buffer'[n] = buffer[n] /\ (n = 1 \/ buffer'[n - 1] = buffer[n - 1])
        <5>1. n \in 1..Filled
          BY <1>0, <1>10, <3>1, <3>2
        <5>2. n = 1 \/ buffer'[n - 1] = buffer[n - 1]
          BY <1>5, <3>1
        <5> QED
          BY <1>5, <3>1, <3>2, <5>1, <5>2
      <4>2. IF buffer[n].k = 0 THEN n = 1 \/ buffer[n - 1].k = Chunks
            ELSE n > 1 /\ buffer[n - 1] = [buffer[n] EXCEPT !.k = @ - 1]
        BY <4>1 DEF LayoutInv
      <4> QED
        BY <3>1, <4>1, <4>2
    <3>3. CASE n = len /\ k[g] = 0
      <4>1. \A h \in Goroutine : ~InBlock(h)
        BY <1>11, <3>3 DEF InBlock
      <4>2. Filled = 0 \/ buffer[Filled].k = Chunks
        BY <4>1 DEF LayoutInv
      <4>3. n = 1 \/ buffer'[n - 1].k = Chunks
        BY <1>0, <1>5, <1>10, <3>1, <3>3, <4>2
      <4> QED
        BY <1>2, <1>5, <3>3, <4>3
    <3>4. CASE n = len /\ k[g] # 0
      <4>1. InBlock(g)
        BY <1>0, <1>2, <3>4 DEF InBlock
      <4>2. Filled > 0 /\ buffer[Filled] = [id |-> g, j |-> j[g], k |-> k[g] - 1]
        BY <4>1 DEF LayoutInv
      <4>3. n > 1 /\ n - 1 = Filled /\ n - 1 \in 1..len /\ n - 1 # len
        BY <1>0, <1>10, <3>1, <3>4, <4>2
      <4>4. buffer'[n - 1] = buffer[Filled]
        BY <1>5, <4>3
      <4>5. buffer'[n - 1] = [chunk EXCEPT !.k = @ - 1]
        BY <1>4, <4>2, <4>4
      <4> QED
        BY <1>2, <1>5, <3>4, <4>3, <4>5
    <3> QED
      BY <3>2, <3>3, <3>4
  <2>3. InBlock(g)' => buffer'[Filled'] = [id |-> g, j |-> j'[g], k |-> k'[g] - 1]
    <3> HAVE InBlock(g)'
    <3>1. k'[g] - 1 = k[g]
      BY <1>2, <1>6, <1>7, <1>10 DEF InBlock
    <3> QED
      BY <1>1, <1>5, <1>10, <3>1 DEF chunk
  <2>4. ~InBlock(g)' => buffer'[Filled'].k = Chunks
    <3>1. ~InBlock(g)' => k[g] = Chunks
      BY <1>2, <1>6, <1>7 DEF InBlock
    <3> QED
      BY <1>2, <1>5, <1>10, <3>1
  <2>5. Filled' > 0
    BY <1>0, <1>10
  <2> QED
    BY <1>11, <2>1, <2>2, <2>3, <2>4, <2>5 DEF LayoutInv
<1>13. PresentInv'
  <2> SUFFICES ASSUME NEW c \in Chunk
               PROVE  (\E n \in 1..len' : buffer'[n] = c) <=> Past(c)'
    BY DEF PresentInv
  <2>1. Past(c)' <=> Past(c) \/ c = chunk
    <3>1. c.id \in Goroutine /\ c.j \in 1..Blocks /\ c.k \in 0..Chunks
      BY DEF Chunk
    <3>2. CASE c.id # g
      BY <1>1, <1>3, <1>6, <3>1, <3>2 DEF Past
    <3>3. CASE c.id = g
      <4>1. c = chunk <=> c.j = j[g] /\ c.k = k[g]
        BY <1>3, <3>3
      <4>2. c.k < k'[g] \/ pc'[g] = "unlock" <=> c.k < k[g] \/ c.k = k[g]
        <5>1. CASE k[g] < Chunks
          BY <1>2, <1>6, <3>1, <5>1
        <5>2. CASE k[g] = Chunks
          BY <1>6, <3>1, <5>2
        <5> QED
          BY <1>7, <5>1, <5>2
      <4>3. c.j < j'[g] \/ (c.j = j'[g] /\ (c.k < k'[g] \/ pc'[g] = "unlock"))
            <=> c.j < j[g] \/ (c.j = j[g] /\ (c.k < k[g] \/ pc[g] = "unlock")) \/ c = chunk
        <5>1. pc[g] # "unlock" /\ j'[g] = j[g]
          BY <1>0, <1>1
        <5> QED
          BY <1>2, <3>1, <4>1, <4>2, <5>1
      <4> QED
        BY <3>3, <4>3 DEF Past
    <3> QED
      BY <3>2, <3>3
  <2>2. buffer[len] = InBlocks!NoChunk
    BY <1>0, <1>10 DEF LayoutInv
  <2>3. (\E n \in 1..len' : buffer'[n] = c) <=> c = chunk \/ (\E n \in 1..len : buffer[n] = c)
    <3>1. c # InBlocks!NoChunk /\ len \in 1..len
      BY <1>0
    <3> QED
      BY <1>1, <1>5, <2>2, <3>1
  <2> QED
    BY <2>1, <2>3 DEF PresentInv
<1>14. LengthInv'
  <2>1. ASSUME NEW h \in Goroutine PROVE Cells'[h] = Cells[h]
    <3>1. CASE h # g
      BY <1>1, <1>6, <3>1 DEF Cells
    <3>2. CASE h = g
      <4> DEFINE before == (j[g] - 1) * (Chunks + 1)
      <4>1. before \in Int
        <5>1. j[g] - 1 \in Int
          BY <1>2
        <5> QED
          BY <5>1
      <4>2. Cells[g] = before + k[g] + 1
        BY <1>0 DEF Cells
      <4>3. CASE k[g] < Chunks
        <5>1. Cells'[g] = before + k'[g] + 0
          BY <1>1, <1>6, <4>3 DEF Cells
        <5> HIDE DEF before
        <5> QED
          BY <1>2, <1>6, <3>2, <4>1, <4>2, <4>3, <5>1
      <4>4. CASE k[g] = Chunks
        <5>1. Cells'[g] = before + (Chunks + 1) + 0
          BY <1>1, <1>6, <4>4 DEF Cells
        <5> HIDE DEF before
        <5> QED
          BY <1>2, <3>2, <4>1, <4>2, <4>4, <5>1
      <4> QED
        BY <1>7, <4>3, <4>4
    <3> QED
      BY <3>1, <3>2
  <2>2. Sum(Cells', Goroutine) = Sum(Cells, Goroutine)
    BY <2>1, SumSame
  <2> QED
    BY <1>1, <2>2 DEF LengthInv
<1> QED
  BY <1>9, <1>12, <1>13, <1>14

LEMMA BlockUnlockKeeps ==
  ASSUME BlockInv, BlockTypes', protecting > 0, NEW g \in Goroutine, InBlocks!Unlock(g)
  PROVE  GuardedInv'
<1> USE Sizing DEF BlockInv, GuardedInv
<1>1. /\ pc[g] = "unlock" /\ mu' = NoOne /\ j' = [j EXCEPT ![g] = @ + 1]
      /\ pc' = [pc EXCEPT ![g] = "lock"]
      /\ UNCHANGED <<buffer, len, m, k>>
  BY DEF InBlocks!Unlock, InBlocks!At, InBlocks!Goto, InBlocks!bufferVars
<1>2. /\ \A h \in Goroutine : h # g => pc'[h] = pc[h] /\ j'[h] = j[h]
      /\ pc'[g] = "lock" /\ j'[g] = j[g] + 1 /\ j[g] \in 1..Blocks /\ k[g] = 0
  BY <1>1 DEF BlockTypes, BlockLoopInv, Writing
<1>3. \A h \in Goroutine : h # g => pc[h] \notin Writing
  <2>1. pc[g] \in Writing
    BY <1>1 DEF Writing
  <2> QED
    BY <2>1, OneWriter
<1>4. WriterAloneInv'
  BY <1>1, <1>2, <1>3 DEF WriterAloneInv, Writing
<1>5. Filled' = Filled
  BY <1>1, <1>2 DEF Filled
<1>6. \A h \in Goroutine : ~InBlock(h) /\ ~InBlock(h)'
  BY <1>1, <1>2, <1>3 DEF InBlock, Writing
<1>7. LayoutInv'
  BY <1>1, <1>5, <1>6 DEF LayoutInv
<1>8. PresentInv'
  <2> SUFFICES ASSUME NEW c \in Chunk PROVE Past(c)' <=> Past(c)
    BY <1>1 DEF PresentInv
  <2>1. c.id \in Goroutine /\ c.j \in 1..Blocks /\ c.k \in 0..Chunks
    BY DEF Chunk
  <2>2. CASE c.id # g
    BY <1>1, <1>2, <2>1, <2>2 DEF Past
  <2>3. CASE c.id = g
    <3>1. c.j < j[g] + 1 <=> c.j < j[g] \/ c.j = j[g]
      BY <1>2, <2>1
    <3>2. ~(c.k < 0)
      BY <2>1
    <3>3. c.j < j'[g] \/ (c.j = j'[g] /\ (c.k < k'[g] \/ pc'[g] = "unlock"))
          <=> c.j < j[g] \/ c.j = j[g]
      <4>1. k'[g] = 0 /\ j'[g] = j[g] + 1 /\ pc'[g] # "unlock"
        BY <1>1, <1>2
      <4> QED
        BY <1>2, <2>1, <3>1, <3>2, <4>1
    <3> QED
      BY <1>1, <2>3, <3>3 DEF Past
  <2> QED
    BY <2>2, <2>3
<1>9. LengthInv'
  <2>1. ASSUME NEW h \in Goroutine PROVE Cells'[h] = Cells[h]
    <3>1. CASE h # g
      BY <1>1, <1>2, <3>1 DEF Cells
    <3>2. CASE h = g
      <4>1. Cells[g] = (j[g] - 1) * (Chunks + 1) + (Chunks + 1) + 0
        BY <1>1 DEF Cells
      <4>2. Cells'[g] = ((j[g] + 1) - 1) * (Chunks + 1) + 0 + 0
        BY <1>1, <1>2 DEF Cells
      <4>3. \A a, b \in Int : (a - 1) * b + b + 0 = ((a + 1) - 1) * b + 0 + 0
        OBVIOUS
      <4>4. j[g] \in Int /\ Chunks + 1 \in Int
        BY <1>2
      <4> QED
        BY <3>2, <4>1, <4>2, <4>3, <4>4
    <3> QED
      BY <3>1, <3>2
  <2>2. Sum(Cells', Goroutine) = Sum(Cells, Goroutine)
    BY <2>1, SumSame
  <2> QED
    BY <1>1, <2>2 DEF LengthInv
<1> QED
  BY <1>4, <1>7, <1>8, <1>9

LEMMA BlocksKept == BlocksInv /\ [Next]_vars => BlocksInv'
<1> SUFFICES ASSUME BlocksInv, [Next]_vars, running' = "BlockBuffer" PROVE BlockInv'
  BY DEF BlocksInv
<1> DEFINE Steady == UNCHANGED <<blockVars, bufferVars, m, pc>>
<1>0. ASSUME BlockInv, Steady PROVE BlockInv'
  <2> USE <1>0 DEF blockVars, bufferVars
  <2>1. BlockTypes' /\ BlockLoopInv' /\ BlockSignInv'
    BY DEF BlockInv, BlockTypes, BlockLoopInv, BlockSignInv, Ended
  <2>2. ASSUME protecting > 0 PROVE GuardedInv'
    <3>1. WriterAloneInv'
      BY <2>2 DEF BlockInv, GuardedInv, WriterAloneInv
    <3>2. \A g \in Goroutine : InBlock(g)' <=> InBlock(g)
      BY DEF InBlock
    <3>3. LayoutInv' /\ PresentInv' /\ LengthInv'
      BY <2>2, <3>2, BlockFrame DEF BlockInv
    <3> QED
      BY <3>1, <3>3 DEF GuardedInv
  <2> QED
    BY <2>1, <2>2 DEF BlockInv
<1>1. CASE OfBlocks(InBlocks!Next)
  <2>1. BlockInv /\ InBlocks!Next
    BY <1>1 DEF OfBlocks, BlocksInv
  <2>2. CASE InBlocks!Terminated
    <3>1. Steady
      BY <2>2 DEF InBlocks!Terminated, InBlocks!vars, blockVars, bufferVars
    <3> QED
      BY <1>0, <2>1, <3>1
  <2>3. BlockTypes' /\ BlockLoopInv' /\ BlockSignInv' /\ protecting' = protecting
    BY <2>1, BlockBasicsKept
  <2>4. ASSUME NEW g \in Goroutine, InBlocks!Step(g), protecting > 0 PROVE GuardedInv'
    BY <2>1, <2>3, <2>4, BlockLockKeeps, FindKeeps, GrowKeeps, CopyKeeps, BlockUnlockKeeps,
       BlockSignKeeps DEF InBlocks!Step
  <2>5. ASSUME InBlocks!Receive, protecting > 0 PROVE GuardedInv'
    <3>1. UNCHANGED <<mu, buffer, len, m, pc, j, k>>
      BY <2>5 DEF InBlocks!Receive, InBlocks!bufferVars, InBlocks!loopVars
    <3>2. WriterAloneInv'
      BY <2>1, <2>5, <3>1 DEF BlockInv, GuardedInv, WriterAloneInv
    <3>3. \A g \in Goroutine : InBlock(g)' <=> InBlock(g)
      BY <3>1 DEF InBlock
    <3>4. LayoutInv' /\ PresentInv' /\ LengthInv'
      BY <2>1, <2>5, <3>1, <3>3, BlockFrame DEF BlockInv
    <3> QED
      BY <3>2, <3>4 DEF GuardedInv
  <2> QED
    BY <2>1, <2>2, <2>3, <2>4, <2>5 DEF InBlocks!Next, BlockInv
<1>2. CASE UNCHANGED vars
  BY <1>0, <1>2 DEF vars, BlocksInv
<1>3. CASE OfRecords(Records!Next) \/ OfPipe(Piped!Next) \/ OfMap(Mapped!Next)
  BY <1>3 DEF OfRecords, OfPipe, OfMap
<1> QED
  BY <1>1, <1>2, <1>3 DEF Next

LEMMA BlocksInvariant == Spec => []BlocksInv
BY BlocksStart, BlocksKept, PTL DEF Spec

-----------------------------------------------------------------------------
(* What main finds in the buffer *)

LEMMA BlocksAreWhole == BlockInv => InBlocks!WholeBlocks
<1> SUFFICES ASSUME BlockInv, protecting > 0
             PROVE  /\ ~InBlocks!Panicked /\ len = Len(buffer)
                    /\ \A n \in 1..len : buffer[n] # InBlocks!NoChunk =>
                         IF buffer[n].k = 0 THEN n = 1 \/ buffer[n - 1].k = Chunks
                         ELSE n > 1 /\ buffer[n - 1] = [buffer[n] EXCEPT !.k = @ - 1]
  BY DEF InBlocks!WholeBlocks
<1> USE DEF BlockInv, GuardedInv
<1>1. ~InBlocks!Panicked /\ len = Len(buffer)
  BY DEF InBlocks!Panicked, WriterAloneInv
<1>2. len \in Nat /\ Filled \in Int
  BY DEF BlockTypes, Filled
<1>3. \A n \in 1..len : buffer[n] # InBlocks!NoChunk => n \in 1..Filled
  BY <1>2 DEF LayoutInv
<1> QED
  BY <1>1, <1>3 DEF LayoutInv

LEMMA EverybodyEnded ==
  ASSUME BlockInv, InBlocks!Exited
  PROVE  \A g \in Goroutine : pc[g] = "done" /\ j[g] = Blocks + 1 /\ k[g] = 0
<1> USE Sizing DEF BlockInv
<1>1. Ended \subseteq Goroutine
  BY DEF Ended
<1>2. /\ IsFiniteSet(Ended) /\ Cardinality(Ended) \in Nat
      /\ Cardinality(Ended) <= Cardinality(Goroutine)
      /\ (Cardinality(Ended) = Cardinality(Goroutine) => Ended = Goroutine)
  BY <1>1, FS_Subset, FS_CardinalityType
<1>3. received = Cardinality(Goroutine) /\ Cardinality(Goroutine) \in Nat
  BY FS_CardinalityType DEF InBlocks!Exited, InBlocks!Cardinality, Cardinality
<1>4. sign \in Nat /\ sign + received = Cardinality(Ended)
  BY DEF BlockTypes, BlockSignInv
<1>5. Ended = Goroutine
  BY <1>2, <1>3, <1>4
<1> QED
  BY <1>5 DEF Ended, BlockLoopInv

LEMMA ContentsAreComplete == BlockInv => InBlocks!ContentsComplete
<1> SUFFICES ASSUME BlockInv, protecting > 0, InBlocks!Exited
             PROVE  /\ {buffer[n] : n \in 1..len} = Chunk
                    /\ len = InBlocks!Cardinality(Goroutine) * Blocks * (Chunks + 1)
  BY DEF InBlocks!ContentsComplete, Chunk
<1> USE Sizing DEF BlockInv, GuardedInv
<1>1. \A g \in Goroutine : pc[g] = "done" /\ j[g] = Blocks + 1 /\ k[g] = 0
  BY EverybodyEnded
<1>2. Filled = len
  BY <1>1 DEF Filled
<1>3. {buffer[n] : n \in 1..len} = Chunk
  <2>1. \A n \in 1..len : buffer[n] \in Chunk
    <3>1. len \in 0..Len(buffer) /\ buffer \in Seq(Chunk \cup {InBlocks!NoChunk})
      BY DEF BlockTypes
    <3>2. \A n \in 1..len : buffer[n] \in Chunk \cup {InBlocks!NoChunk}
      BY <3>1
    <3>3. \A n \in 1..len : buffer[n] # InBlocks!NoChunk
      <4>1. \A n \in 1..len : ~(n > len)
        BY <3>1
      <4> QED
        BY <1>2, <4>1 DEF LayoutInv
    <3> QED
      BY <3>2, <3>3
  <2>2. \A c \in Chunk : Past(c)
    <3> SUFFICES ASSUME NEW c \in Chunk PROVE Past(c)
      OBVIOUS
    <3>1. c.id \in Goroutine /\ c.j \in 1..Blocks
      BY DEF Chunk
    <3>2. c.j < j[c.id]
      BY <1>1, <3>1
    <3> QED
      BY <3>2 DEF Past
  <2> QED
    BY <2>1, <2>2 DEF PresentInv
<1>4. len = Cardinality(Goroutine) * (Blocks * (Chunks + 1))
  <2>1. \A g \in Goroutine : Cells[g] = Blocks * (Chunks + 1)
    <3> SUFFICES ASSUME NEW g \in Goroutine PROVE Cells[g] = Blocks * (Chunks + 1)
      OBVIOUS
    <3>1. Cells[g] = ((Blocks + 1) - 1) * (Chunks + 1) + 0 + 0
      BY <1>1 DEF Cells
    <3>2. \A a, b \in Int : ((a + 1) - 1) * b + 0 + 0 = a * b
      OBVIOUS
    <3> QED
      BY <3>1, <3>2
  <2>2. Blocks * (Chunks + 1) \in Int
    OBVIOUS
  <2> QED
    BY <2>1, <2>2, SumConstant DEF LengthInv
<1>5. InBlocks!Cardinality(Goroutine) = Cardinality(Goroutine)
  BY DEF InBlocks!Cardinality, Cardinality
<1>6. Cardinality(Goroutine) * (Blocks * (Chunks + 1)) = Cardinality(Goroutine) * Blocks * (Chunks + 1)
  <2>1. Cardinality(Goroutine) \in Nat
    BY FS_CardinalityType
  <2>2. \A a, b, c \in Int : a * (b * c) = a * b * c
    OBVIOUS
  <2> QED
    BY <2>1, <2>2
<1> QED
  BY <1>3, <1>4, <1>5, <1>6

\* The records of demo_sync.go are read whole and the counters of both sides
\* agree in the end; with the mutex the blocks of demo_mutex.go stay together
\* and are all there: for any number of goroutines, records, blocks and chunks,
\* if the readers take as many records as the writers write
\* (demo_sync.go:44-74, 106-135; demo_mutex.go:46-77).
THEOREM WritesStayWhole == Spec => []WholeWrites
<1>1. RecordsInv /\ BlocksInv => WholeWrites
  BY RecordsWhole, CountersStandAtTheEnd, BlocksAreWhole, ContentsAreComplete
     DEF RecordsInv, BlocksInv, WholeWrites
<1> QED
  BY <1>1, RecordsInvariant, BlocksInvariant, PTL

-----------------------------------------------------------------------------
(* The dictionaries *)

Requests ==
  [op : {"Store", "Load", "LoadOrStore", "Delete", "Range"}, map : Mapped!Map,
   k : IntKeys \cup {aString, Nothing}, v : StringValues \cup {anInt, Nothing}]

LEMMA Arguments ==
  \A n \in 1..4 : key(n) \in IntKeys /\ value(n) \in StringValues
<1>1. ASSUME NEW n \in 1..4 PROVE key(n) \in IntKeys /\ value(n) \in StringValues
  <2>1. n = 1 \/ n = 2 \/ n = 3 \/ n = 4
    OBVIOUS
  <2> QED
    BY <2>1 DEF key, value, IntKeys, StringValues
<1> QED
  BY <1>1

LEMMA RequestsMade ==
  ASSUME NEW dict \in Mapped!Map, NEW at \in IntKeys \cup {aString, Nothing},
         NEW val \in StringValues \cup {anInt, Nothing}
  PROVE  /\ StoreOf(dict, at, val) \in Requests /\ LoadOf(dict, at) \in Requests
         /\ LoadOrStoreOf(dict, at, val) \in Requests /\ DeleteOf(dict, at) \in Requests
         /\ RangeOf(dict) \in Requests
BY DEF Requests, StoreOf, LoadOf, LoadOrStoreOf, DeleteOf, RangeOf

LEMMA ExampleTyped ==
  ASSUME NEW dict \in Mapped!Map
  PROVE  example(dict) \in Seq(Requests)
<1>1. \A i \in 1..4 : LoadOf(dict, key(i)) \in Requests /\ DeleteOf(dict, key(i)) \in Requests
  BY Arguments, RequestsMade
<1>2. \A i \in 1..4 : StoreOf(dict, key(i), value(i)) \in Requests
                      /\ LoadOrStoreOf(dict, key(i), value(i)) \in Requests
  BY Arguments, RequestsMade
<1>3. RangeOf(dict) \in Requests
  BY RequestsMade
<1> QED
  BY <1>1, <1>2, <1>3 DEF example

LEMMA OtherTyped == other \in Seq(Requests)
<1>1. "cMap" \in Mapped!Map /\ <<"string", "e">> \in StringValues
  BY DEF Mapped!Map, StringValues
<1>2. /\ LoadOrStoreOf("cMap", key(2), <<"string", "e">>) \in Requests
      /\ LoadOrStoreOf("cMap", key(4), <<"string", "e">>) \in Requests
      /\ RangeOf("cMap") \in Requests /\ DeleteOf("cMap", key(1)) \in Requests
  BY <1>1, Arguments, RequestsMade
<1> QED
  BY <1>2 DEF other

LEMMA ProgramsTyped ==
  ASSUME NEW p \in 1..Len(AllPrograms), NEW c \in DOMAIN AllPrograms[p]
  PROVE  AllPrograms[p][c] \in Seq(Requests)
<1>1. "cMap" \in Mapped!Map /\ "iMap" \in Mapped!Map
  BY DEF Mapped!Map
<1>2. example("iMap") \in Seq(Requests) /\ example("cMap") \in Seq(Requests)
  BY <1>1, ExampleTyped
<1>3. ASSUME c \in DOMAIN main PROVE main[c] \in Seq(Requests)
  <2>1. c = "main" /\ main[c] = example("iMap") \o example("cMap")
    BY <1>3 DEF main
  <2> QED
    BY <1>2, <2>1
<1>4. ASSUME c \in DOMAIN together PROVE together[c] \in Seq(Requests)
  BY <1>2, <1>4, OtherTyped DEF together
<1>5. /\ StoreOf("cMap", key(1), value(1)) \in Requests
      /\ LoadOf("cMap", aString) \in Requests /\ DeleteOf("cMap", aString) \in Requests
      /\ StoreOf("cMap", key(1), anInt) \in Requests
      /\ StoreOf("cMap", aString, value(1)) \in Requests
      /\ LoadOrStoreOf("cMap", key(1), anInt) \in Requests
      /\ LoadOrStoreOf("cMap", aString, value(1)) \in Requests
  BY <1>1, Arguments, RequestsMade
<1>6. Len(wrongTypes) = 4 /\ Len(AllPrograms) = 6
  BY DEF wrongTypes, AllPrograms
<1>7. ASSUME NEW n \in 1..4, c \in DOMAIN wrongTypes[n] PROVE wrongTypes[n][c] \in Seq(Requests)
  <2>1. CASE n = 1
    <3>1. c = "g" /\ wrongTypes[n][c] = <<StoreOf("cMap", key(1), value(1)), LoadOf("cMap", aString),
                     DeleteOf("cMap", aString), StoreOf("cMap", key(1), anInt)>>
      BY <1>7, <2>1 DEF wrongTypes
    <3> QED
      BY <1>5, <3>1
  <2>2. CASE n = 2
    <3>1. c = "g" /\ wrongTypes[n][c] = <<StoreOf("cMap", aString, value(1))>>
      BY <1>7, <2>2 DEF wrongTypes
    <3> QED
      BY <1>5, <3>1
  <2>3. CASE n = 3
    <3>1. c = "g" /\ wrongTypes[n][c] = <<LoadOrStoreOf("cMap", key(1), anInt)>>
      BY <1>7, <2>3 DEF wrongTypes
    <3> QED
      BY <1>5, <3>1
  <2>4. CASE n = 4
    <3>1. c = "g" /\ wrongTypes[n][c] = <<LoadOrStoreOf("cMap", aString, value(1))>>
      BY <1>7, <2>4 DEF wrongTypes
    <3> QED
      BY <1>5, <3>1
  <2> QED
    BY <2>1, <2>2, <2>3, <2>4
<1>8. AllPrograms[p] = IF p = 1 THEN main ELSE IF p = 2 THEN together ELSE wrongTypes[p - 2]
  BY <1>6 DEF AllPrograms
<1> QED
  BY <1>3, <1>4, <1>6, <1>7, <1>8

MapTypes ==
  /\ program \in 1..Len(AllPrograms)
  /\ DOMAIN m = Mapped!Map
  /\ pc \in [Mapped!Clients -> Nat \ {0}]
  /\ DOMAIN pending = Mapped!Clients /\ ranging \in [Mapped!Clients -> BOOLEAN]

RangeInv == \A c \in Mapped!Clients : pending[c] # {} => ranging[c]

\* Both writers have tested what a ConcurrentMap holds.
TypedInv ==
  \A at \in DOMAIN m["cMap"] : at \in IntKeys /\ m["cMap"][at] \in StringValues

\* What a LoadOrStore has returned, and nobody has overwritten, is still there.
WinnerInv ==
  \A a \in agreed : a[1] \in Mapped!Map /\ a[2] \in DOMAIN m[a[1]] /\ m[a[1]][a[2]] = a[3]

MapInv == MapTypes /\ RangeInv /\ TypedInv /\ WinnerInv

MappedInv == running = "ConcurrentMap" => MapInv

LEMMA MapStart == Init => MappedInv
<1> SUFFICES ASSUME Init, running = "ConcurrentMap" PROVE MapInv
  BY DEF MappedInv
<1>1. Mapped!Init
  BY DEF Init
<1>2. MapTypes
  BY <1>1 DEF Mapped!Init, MapTypes
<1>3. RangeInv
  BY <1>1 DEF Mapped!Init, RangeInv
<1>4. TypedInv
  BY <1>1 DEF Mapped!Init, TypedInv, Mapped!Map
<1>5. WinnerInv
  BY <1>1 DEF Mapped!Init, WinnerInv
<1> QED
  BY <1>2, <1>3, <1>4, <1>5 DEF MapInv

LEMMA CallIsRequest ==
  ASSUME MapTypes, NEW c, Mapped!More(c)
  PROVE  /\ Mapped!Call(c) \in Requests /\ Mapped!Call(c).map \in Mapped!Map
         /\ c \in Mapped!Clients
<1>1. c \in DOMAIN AllPrograms[program] /\ pc[c] \in Nat \ {0}
      /\ pc[c] <= Len(AllPrograms[program][c])
  BY DEF MapTypes, Mapped!More, Mapped!Clients
<1>2. AllPrograms[program][c] \in Seq(Requests)
  BY <1>1, ProgramsTyped DEF MapTypes
<1>3. AllPrograms[program][c][pc[c]] \in Requests
  BY <1>1, <1>2
<1>4. Mapped!Call(c) \in Requests
  BY <1>3 DEF Mapped!Call
<1> QED
  BY <1>1, <1>4 DEF Requests, Mapped!Clients

\* One dictionary gets another value under one key, which its types allow, and
\* nobody else is promised another value.
LEMMA WriteKeeps ==
  ASSUME MapInv, NEW dict \in Mapped!Map, NEW at, NEW val,
         dict = "cMap" => at \in IntKeys /\ val \in StringValues,
         DOMAIN m' = Mapped!Map, m'[dict] = Mapped!With(m[dict], at, val),
         \A e \in Mapped!Map : e # dict => m'[e] = m[e],
         \A a \in agreed' : IF a[1] = dict /\ a[2] = at THEN a[3] = val ELSE a \in agreed
  PROVE  TypedInv' /\ WinnerInv'
<1>1. m'[dict] = [l \in DOMAIN m[dict] \cup {at} |-> IF l = at THEN val ELSE m[dict][l]]
  BY DEF Mapped!With
<1>2. TypedInv'
  <2>1. CASE dict = "cMap"
    BY <1>1, <2>1 DEF MapInv, TypedInv
  <2>2. CASE dict # "cMap"
    BY <2>2 DEF MapInv, TypedInv, Mapped!Map
  <2> QED
    BY <2>1, <2>2
<1>3. ASSUME NEW a \in agreed'
      PROVE  a[1] \in Mapped!Map /\ a[2] \in DOMAIN m'[a[1]] /\ m'[a[1]][a[2]] = a[3]
  <2>1. CASE a[1] = dict /\ a[2] = at
    BY <1>1, <2>1
  <2>2. CASE ~(a[1] = dict /\ a[2] = at)
    <3>1. a[1] \in Mapped!Map /\ a[2] \in DOMAIN m[a[1]] /\ m[a[1]][a[2]] = a[3]
      BY <2>2 DEF MapInv, WinnerInv
    <3> QED
      BY <1>1, <2>2, <3>1
  <2> QED
    BY <2>1, <2>2
<1> QED
  BY <1>2, <1>3 DEF WinnerInv

LEMMA StoreKeeps ==
  ASSUME MapInv, NEW c, Mapped!Store(c)
  PROVE  MapInv'
<1> DEFINE x == Mapped!Call(c)
<1>1. x.map \in Mapped!Map /\ c \in Mapped!Clients
  BY CallIsRequest DEF MapInv, Mapped!Store, Mapped!Calls
<1>2. UNCHANGED <<program, pending, ranging>> /\ RangeInv'
  BY DEF MapInv, RangeInv, Mapped!Store, Mapped!rangeVars, Mapped!Clients
<1>3. CASE Mapped!Panic(c)
  BY <1>2, <1>3 DEF MapInv, MapTypes, TypedInv, WinnerInv, Mapped!Panic, Mapped!Clients
<1>4. CASE ~Mapped!Panic(c)
  <2>1. /\ Mapped!KeyFits(x) /\ Mapped!ValueFits(x)
        /\ m' = [m EXCEPT ![x.map] = Mapped!With(@, x.k, x.v)]
        /\ agreed' = Mapped!Forgotten(x.map, x.k) /\ Mapped!Advance(c)
    BY <1>4 DEF Mapped!Store
  <2>2. x.map = "cMap" => x.k \in IntKeys /\ x.v \in StringValues
    BY <2>1 DEF Mapped!KeyFits, Mapped!ValueFits
  <2> HIDE DEF x
  <2>3. /\ DOMAIN m' = Mapped!Map /\ m'[x.map] = Mapped!With(m[x.map], x.k, x.v)
        /\ \A e \in Mapped!Map : e # x.map => m'[e] = m[e]
    BY <1>1, <2>1 DEF MapInv, MapTypes
  <2>4. \A a \in agreed' : IF a[1] = x.map /\ a[2] = x.k THEN a[3] = x.v ELSE a \in agreed
    BY <2>1 DEF Mapped!Forgotten
  <2>5. TypedInv' /\ WinnerInv'
    BY <1>1, <2>2, <2>3, <2>4, WriteKeeps
  <2>6. MapTypes'
    BY <1>1, <1>2, <2>1, <2>3 DEF MapInv, MapTypes, Mapped!Advance, Mapped!Clients
  <2> QED
    BY <1>2, <2>5, <2>6 DEF MapInv
<1> QED
  BY <1>3, <1>4

LEMMA LoadOrStoreKeeps ==
  ASSUME MapInv, NEW c, Mapped!LoadOrStore(c)
  PROVE  MapInv'
<1> DEFINE x == Mapped!Call(c)
           actual == IF x.k \in DOMAIN m[x.map] THEN m[x.map][x.k] ELSE x.v
<1>1. x.map \in Mapped!Map /\ c \in Mapped!Clients
  BY CallIsRequest DEF MapInv, Mapped!LoadOrStore, Mapped!Calls
<1>2. UNCHANGED <<program, pending, ranging>> /\ RangeInv'
  BY DEF MapInv, RangeInv, Mapped!LoadOrStore, Mapped!rangeVars, Mapped!Clients
<1>3. CASE Mapped!Panic(c)
  BY <1>2, <1>3 DEF MapInv, MapTypes, TypedInv, WinnerInv, Mapped!Panic, Mapped!Clients
<1>4. CASE ~Mapped!Panic(c)
  <2>1. /\ Mapped!KeyFits(x) /\ Mapped!ValueFits(x)
        /\ m' = [m EXCEPT ![x.map] = Mapped!With(@, x.k, actual)]
        /\ agreed' = agreed \cup {<<x.map, x.k, actual>>} /\ Mapped!Advance(c)
    BY <1>4 DEF Mapped!LoadOrStore
  <2>2. x.map = "cMap" => x.k \in IntKeys /\ actual \in StringValues
    BY <2>1 DEF Mapped!KeyFits, Mapped!ValueFits, MapInv, TypedInv
  <2>3. x.k \in DOMAIN m[x.map] => actual = m[x.map][x.k]
    OBVIOUS
  <2> HIDE DEF x, actual
  <2>4. /\ DOMAIN m' = Mapped!Map /\ m'[x.map] = Mapped!With(m[x.map], x.k, actual)
        /\ \A e \in Mapped!Map : e # x.map => m'[e] = m[e]
    BY <1>1, <2>1 DEF MapInv, MapTypes
  <2>5. \A a \in agreed' : IF a[1] = x.map /\ a[2] = x.k THEN a[3] = actual ELSE a \in agreed
    BY <2>1, <2>3 DEF MapInv, WinnerInv
  <2>6. TypedInv' /\ WinnerInv'
    BY <1>1, <2>2, <2>4, <2>5, WriteKeeps
  <2>7. MapTypes'
    BY <1>1, <1>2, <2>1, <2>4 DEF MapInv, MapTypes, Mapped!Advance, Mapped!Clients
  <2> QED
    BY <1>2, <2>6, <2>7 DEF MapInv
<1> QED
  BY <1>3, <1>4

LEMMA DeleteKeeps ==
  ASSUME MapInv, NEW c, Mapped!Delete(c)
  PROVE  MapInv'
<1> DEFINE x == Mapped!Call(c)
<1>1. x.map \in Mapped!Map /\ c \in Mapped!Clients
  BY CallIsRequest DEF MapInv, Mapped!Delete, Mapped!Calls
<1>2. UNCHANGED <<program, pending, ranging>> /\ RangeInv' /\ Mapped!Advance(c)
  BY DEF MapInv, RangeInv, Mapped!Delete, Mapped!rangeVars, Mapped!Clients
<1>3. pc' \in [Mapped!Clients' -> Nat \ {0}]
  BY <1>1, <1>2 DEF MapInv, MapTypes, Mapped!Advance, Mapped!Clients
<1>4. CASE ~Mapped!KeyFits(x)
  <2>1. UNCHANGED <<m, agreed>>
    BY <1>4 DEF Mapped!Delete
  <2> QED
    BY <1>2, <1>3, <2>1 DEF MapInv, MapTypes, TypedInv, WinnerInv, Mapped!Clients
<1>5. CASE Mapped!KeyFits(x)
  <2>1. /\ m' = [m EXCEPT ![x.map] = Mapped!Restrict(m[x.map], DOMAIN m[x.map] \ {x.k})]
        /\ agreed' = Mapped!Forgotten(x.map, x.k)
    BY <1>5 DEF Mapped!Delete
  <2> HIDE DEF x
  <2>2. DOMAIN m = Mapped!Map /\ DOMAIN m' = Mapped!Map
    BY <2>1 DEF MapInv, MapTypes
  <2>3. m'[x.map] = [l \in DOMAIN m[x.map] \ {x.k} |-> m[x.map][l]]
    BY <1>1, <2>1, <2>2 DEF Mapped!Restrict
  <2>4. \A e \in Mapped!Map : e # x.map => m'[e] = m[e]
    BY <2>1, <2>2
  <2>5. TypedInv'
    <3>1. CASE x.map = "cMap"
      BY <2>3, <3>1 DEF MapInv, TypedInv
    <3>2. CASE x.map # "cMap"
      BY <2>4, <3>2 DEF MapInv, TypedInv, Mapped!Map
    <3> QED
      BY <3>1, <3>2
  <2>6. WinnerInv'
    <3>1. ASSUME NEW a \in agreed'
          PROVE  a[1] \in Mapped!Map /\ a[2] \in DOMAIN m'[a[1]] /\ m'[a[1]][a[2]] = a[3]
      <4>1. /\ a[1] \in Mapped!Map /\ a[2] \in DOMAIN m[a[1]] /\ m[a[1]][a[2]] = a[3]
            /\ a[1] # x.map \/ a[2] # x.k
        BY <2>1, <3>1 DEF MapInv, WinnerInv, Mapped!Forgotten
      <4>2. CASE a[1] = x.map
        BY <2>3, <4>1, <4>2
      <4>3. CASE a[1] # x.map
        BY <2>4, <4>1, <4>3
      <4> QED
        BY <4>2, <4>3
    <3> QED
      BY <3>1 DEF WinnerInv
  <2>7. MapTypes'
    BY <1>2, <1>3, <2>2 DEF MapInv, MapTypes, Mapped!Clients
  <2> QED
    BY <1>2, <2>5, <2>6, <2>7 DEF MapInv
<1> QED
  BY <1>4, <1>5

\* Load and Range change no dictionary.
LEMMA ReadsKeep ==
  ASSUME MapInv, NEW c,
         \/ Mapped!Load(c) \/ Mapped!RangeStart(c) \/ Mapped!RangeVisit(c)
         \/ Mapped!RangeEnd(c)
  PROVE  MapInv'
<1>1. UNCHANGED <<program, m, agreed>>
  BY DEF Mapped!Load, Mapped!RangeStart, Mapped!RangeVisit, Mapped!RangeEnd
<1>2. c \in Mapped!Clients
  BY DEF Mapped!Load, Mapped!RangeStart, Mapped!RangeVisit, Mapped!RangeEnd, Mapped!Calls,
     Mapped!More
<1>3. TypedInv' /\ WinnerInv'
  BY <1>1 DEF MapInv, TypedInv, WinnerInv
<1>4. pc' = pc \/ Mapped!Advance(c)
  BY DEF Mapped!Load, Mapped!RangeStart, Mapped!RangeVisit, Mapped!RangeEnd
<1>5. pc' \in [Mapped!Clients' -> Nat \ {0}]
  BY <1>1, <1>2, <1>4 DEF MapInv, MapTypes, Mapped!Advance, Mapped!Clients
<1>6. /\ DOMAIN pending' = Mapped!Clients' /\ ranging' \in [Mapped!Clients' -> BOOLEAN]
      /\ RangeInv'
  <2> USE <1>1, <1>2 DEF MapInv, MapTypes, RangeInv, Mapped!Clients
  <2>1. CASE Mapped!Load(c)
    BY <2>1 DEF Mapped!Load, Mapped!rangeVars
  <2>2. CASE Mapped!RangeStart(c)
    BY <2>2 DEF Mapped!RangeStart
  <2>3. CASE Mapped!RangeVisit(c)
    BY <2>3 DEF Mapped!RangeVisit
  <2>4. CASE Mapped!RangeEnd(c)
    BY <2>4 DEF Mapped!RangeEnd
  <2> QED
    BY <2>1, <2>2, <2>3, <2>4
<1>7. MapTypes'
  BY <1>1, <1>5, <1>6 DEF MapInv, MapTypes
<1> QED
  BY <1>3, <1>6, <1>7 DEF MapInv

LEMMA MapKept == MappedInv /\ [Next]_vars => MappedInv'
<1> SUFFICES ASSUME MappedInv, [Next]_vars, running' = "ConcurrentMap" PROVE MapInv'
  BY DEF MappedInv
<1>1. CASE UNCHANGED vars
  BY <1>1 DEF vars, mapVars, MappedInv, MapInv, MapTypes, RangeInv, TypedInv, WinnerInv,
     Mapped!Clients
<1>2. CASE OfMap(Mapped!Next)
  <2>1. MapInv
    BY <1>2 DEF OfMap, MappedInv
  <2>2. CASE Mapped!Terminated
    BY <2>1, <2>2 DEF Mapped!Terminated, Mapped!vars, Mapped!rangeVars, MapInv, MapTypes,
       RangeInv, TypedInv, WinnerInv, Mapped!Clients
  <2>3. ASSUME NEW c \in Mapped!Clients, Mapped!Step(c) PROVE MapInv'
    BY <2>1, <2>3, StoreKeeps, LoadOrStoreKeeps, DeleteKeeps, ReadsKeep DEF Mapped!Step
  <2> QED
    BY <1>2, <2>2, <2>3 DEF OfMap, Mapped!Next
<1> QED
  BY <1>1, <1>2 DEF Next, OfRecords, OfBlocks, OfPipe

LEMMA MapInvariant == Spec => []MappedInv
<1>1. Init => MappedInv
  BY MapStart
<1>2. MappedInv /\ [Next]_vars => MappedInv'
  BY MapKept
<1> QED
  BY <1>1, <1>2, PTL DEF Spec

\* Everybody who has called LoadOrStore for a key holds the value that is in the
\* dictionary until somebody stores or deletes it, whatever the clients of the two
\* dictionaries do in between (sync_map.go:27-31, 82-91).
THEOREM WinnersAgree ==
  Spec => [](running = "ConcurrentMap" => Mapped!LoadOrStoreAgree)
<1>1. MappedInv => (running = "ConcurrentMap" => Mapped!LoadOrStoreAgree)
  BY DEF MappedInv, MapInv, WinnerInv, Mapped!LoadOrStoreAgree
<1> QED
  BY <1>1, MapInvariant, PTL

-----------------------------------------------------------------------------
(* The types *)

LEMMA Signatures ==
  ASSUME NEW S, IsFiniteSet(S), NEW T \in SUBSET S, NEW a \in Nat, NEW b \in Nat,
         a + b = Cardinality(T)
  PROVE  a \in 0..Cardinality(S) /\ b \in 0..Cardinality(S)
<1>1. Cardinality(T) <= Cardinality(S) /\ Cardinality(S) \in Nat /\ Cardinality(T) \in Nat
  BY FS_Subset, FS_CardinalityType
<1> QED
  BY <1>1

LEMMA RecordsTyped == RecordInv => Records!TypeOK
<1> SUFFICES ASSUME RecordInv PROVE Records!TypeOK
  OBVIOUS
<1>1. sign \in 0..Cardinality(Records!Proc) /\ received \in 0..Cardinality(Records!Proc)
  <2>1. sign \in Nat /\ received \in Nat /\ sign + received = Cardinality(SignedOff)
    BY DEF RecordInv, RecordTypes, SignInv
  <2>2. SignedOff \in SUBSET Records!Proc
    BY DEF SignedOff
  <2> QED
    BY <2>1, <2>2, Sides, Signatures
<1>2. ASSUME NEW r \in Reader PROVE data[r][1] <= data[r][2] /\ data[r][2] <= off
  <2>1. pc[r] \in {"unlock", "count"} \/ data[r] = <<0, 0>>
    BY DEF RecordInv, DataInv
  <2>2. data[r][2] <= off
    BY DEF RecordInv, DataInv
  <2>3. data[r][1] \in Nat /\ data[r][2] \in Nat
    BY DEF RecordInv, RecordTypes
  <2>4. data[r][1] = data[r][2] \/ data[r][2] = data[r][1] + 2
    BY <2>1 DEF RecordInv, DataInv, OneRecord
  <2> QED
    BY <2>2, <2>3, <2>4
<1>3. \A p \in Records!Proc : round[p] \in 0..(IF p \in Writer THEN WriteNumber ELSE ReadNumber)
  BY SharedDemosAssumption DEF RecordInv, RecordTypes, SectionInv, Records!Number
<1> QED
  BY <1>1, <1>2, <1>3 DEF RecordInv, RecordTypes, Records!TypeOK, Cardinality, Records!Cardinality

LEMMA BlocksTyped == BlockInv => InBlocks!TypeOK
<1> SUFFICES ASSUME BlockInv PROVE InBlocks!TypeOK
  OBVIOUS
<1>1. sign \in 0..Cardinality(Goroutine) /\ received \in 0..Cardinality(Goroutine)
  <2>1. sign \in Nat /\ received \in Nat /\ sign + received = Cardinality(Ended)
    BY DEF BlockInv, BlockTypes, BlockSignInv
  <2>2. Ended \in SUBSET Goroutine
    BY DEF Ended
  <2> QED
    BY <2>1, <2>2, SharedDemosAssumption, Signatures
<1>2. ASSUME NEW n \in 1..Len(buffer), buffer[n] # InBlocks!NoChunk
      PROVE  buffer[n].id \in Goroutine /\ buffer[n].j \in 1..Blocks /\ buffer[n].k \in 0..Chunks
  BY <1>2 DEF BlockInv, BlockTypes, Chunk
<1> QED
  BY <1>1, <1>2 DEF BlockInv, BlockTypes, InBlocks!TypeOK, Cardinality, InBlocks!Cardinality

LEMMA PipeTyped == PipeInv => Piped!TypeOK
BY Lengths DEF PipeInv, PipeTypes, WriterInv, WaitInv, Piped!TypeOK

LEMMA MapTyped == MapInv => Mapped!TypeOK
BY DEF MapInv, RangeInv, TypedInv, Mapped!TypeOK

\* Whatever program runs keeps its types, for any number of goroutines, records,
\* blocks, chunks and lengths of the Read buffer: off stays inside the buffer of
\* demo_sync.go and len inside that of demo_mutex.go, and a ConcurrentMap holds
\* keys and values of its types only, whatever it is called with.
THEOREM TypeCorrect == Spec => []TypeOK
<1>1. RecordsInv /\ BlocksInv /\ PipedInv /\ MappedInv => TypeOK
  BY RecordsTyped, BlocksTyped, PipeTyped, MapTyped
  DEF RecordsInv, BlocksInv, PipedInv, MappedInv, TypeOK
<1> QED
  BY <1>1, RecordsInvariant, BlocksInvariant, PipeInvariant, MapInvariant, PTL
=============================================================================
