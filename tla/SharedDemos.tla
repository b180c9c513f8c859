---------------------------- MODULE SharedDemos ----------------------------
(***************************************************************************)
(* The programs whose goroutines share data: goroutine/demo_sync.go        *)
(* (RecordBuffer), goroutine/demo_mutex.go (BlockBuffer), example 6 of     *)
(* io/demo.go (Pipe) and map/sync_map.go (ConcurrentMap). One of them      *)
(* runs, and a variable that two of the modules declare stands for the     *)
(* variable of the one that runs; those of the others keep the value       *)
(* Unused.                                                                 *)
(***************************************************************************)
EXTENDS Integers, Sequences, FiniteSets

CONSTANTS Writer, Reader, WriteNumber, ReadNumber,   \* of demo_sync.go
          Goroutine, Blocks, Chunks,                 \* of demo_mutex.go
          Sizes,                                     \* of io/demo.go
          Nothing,                                   \* nil, of map/sync_map.go
          NoOne, Unused

ASSUME SharedDemosAssumption ==
  /\ IsFiniteSet(Writer) /\ IsFiniteSet(Reader) /\ Writer \cap Reader = {}
  /\ NoOne \notin Writer \cup Reader
  /\ WriteNumber \in Nat /\ ReadNumber \in Nat
  /\ Cardinality(Writer) * WriteNumber = Cardinality(Reader) * ReadNumber
  /\ IsFiniteSet(Goroutine) /\ NoOne \notin Goroutine
  /\ Blocks \in Nat /\ Chunks \in Nat
  /\ Sizes \subseteq Nat \ {0}

VARIABLES running,
          off, round, data, read,              \* RecordBuffer
          protecting, len, j, k,               \* BlockBuffer
          mu, buffer, sign, received,          \* RecordBuffer and BlockBuffer
          wBuf, wpc, d, rest, rpc, closed, wg, taken,             \* Pipe
          written,                             \* RecordBuffer and Pipe
          program, pending, ranging, answers, agreed, panicked,   \* ConcurrentMap
          m,                                   \* BlockBuffer and ConcurrentMap
          pc                                   \* all but Pipe

recordVars == <<off, round, data, read>>
blockVars == <<protecting, len, j, k>>
bufferVars == <<mu, buffer, sign, received>>
pipeVars == <<wBuf, wpc, d, rest, rpc, closed, wg, taken>>
mapVars == <<program, pending, ranging, answers, agreed, panicked>>
vars == <<running, recordVars, blockVars, bufferVars, pipeVars, written, mapVars, m, pc>>

-----------------------------------------------------------------------------
(* The programs for ConcurrentMap: main of map/sync_map.go; two clients     *)
(* that run its example on the ConcurrentMap at the same time; and calls    *)
(* with arguments of the wrong type.                                        *)

IntKeys == {<<"int", n>> : n \in {"1", "2", "3", "4"}}
StringValues == {<<"string", s>> : s \in {"a", "b", "c", "d", "e"}}

\* pairs[0].k and pairs[0].v are key(1) and value(1)
key(n) == <<"int", <<"1", "2", "3", "4">>[n]>>
value(n) == <<"string", <<"a", "b", "c", "d">>[n]>>

StoreOf(dict, at, val) == [op |-> "Store", map |-> dict, k |-> at, v |-> val]
LoadOf(dict, at) == [op |-> "Load", map |-> dict, k |-> at, v |-> Nothing]
LoadOrStoreOf(dict, at, val) == [op |-> "LoadOrStore", map |-> dict, k |-> at, v |-> val]
DeleteOf(dict, at) == [op |-> "Delete", map |-> dict, k |-> at, v |-> Nothing]
RangeOf(dict) == [op |-> "Range", map |-> dict, k |-> Nothing, v |-> Nothing]

\* one of the two blocks of main
example(dict) ==
  <<StoreOf(dict, key(1), value(1)), StoreOf(dict, key(2), value(2)), StoreOf(dict, key(3), value(3)),
    RangeOf(dict),
    LoadOf(dict, key(1)), LoadOf(dict, key(4)),
    LoadOrStoreOf(dict, key(3), value(3)), LoadOrStoreOf(dict, key(4), value(4)),
    DeleteOf(dict, key(2)), LoadOf(dict, key(2)), LoadOrStoreOf(dict, key(2), value(2)),
    RangeOf(dict)>>

main == [main |-> example("iMap") \o example("cMap")]

\* Another client that wants other values under the same keys.
other == <<LoadOrStoreOf("cMap", key(2), <<"string", "e">>), RangeOf("cMap"),
           DeleteOf("cMap", key(1)), LoadOrStoreOf("cMap", key(4), <<"string", "e">>)>>

together == [g1 |-> example("cMap"), g2 |-> other]

aString == <<"string", "a">>
anInt == <<"int", "1">>

wrongTypes ==
  << [g |-> <<StoreOf("cMap", key(1), value(1)), LoadOf("cMap", aString), DeleteOf("cMap", aString),
              StoreOf("cMap", key(1), anInt)>>],
     [g |-> <<StoreOf("cMap", aString, value(1))>>],
     [g |-> <<LoadOrStoreOf("cMap", key(1), anInt)>>],
     [g |-> <<LoadOrStoreOf("cMap", aString, value(1))>>] >>

AllPrograms == <<main, together>> \o wrongTypes

-----------------------------------------------------------------------------

\* The lengths of the three comments of io/demo.go, in bytes.
comments == <<42, 54, 33>>

Records == INSTANCE RecordBuffer
InBlocks == INSTANCE BlockBuffer
Piped == INSTANCE Pipe WITH Comments <- comments
Mapped == INSTANCE ConcurrentMap WITH
  KeyType <- IntKeys, ValueType <- StringValues, Programs <- AllPrograms

-----------------------------------------------------------------------------

RecordUnused == off = Unused /\ round = Unused /\ data = Unused /\ read = Unused
BlockUnused == protecting = Unused /\ len = Unused /\ j = Unused /\ k = Unused
BufferUnused == mu = Unused /\ buffer = Unused /\ sign = Unused /\ received = Unused

PipeUnused ==
  /\ wBuf = Unused /\ wpc = Unused /\ d = Unused /\ rest = Unused
  /\ rpc = Unused /\ closed = Unused /\ wg = Unused /\ taken = Unused

MapUnused ==
  /\ program = Unused /\ pending = Unused /\ ranging = Unused
  /\ answers = Unused /\ agreed = Unused /\ panicked = Unused

Init ==
  \/ /\ running = "RecordBuffer" /\ Records!Init
     /\ BlockUnused /\ PipeUnused /\ MapUnused /\ m = Unused
  \/ /\ running = "BlockBuffer" /\ InBlocks!Init
     /\ RecordUnused /\ PipeUnused /\ MapUnused /\ written = Unused
  \/ /\ running = "Pipe" /\ Piped!Init
     /\ RecordUnused /\ BlockUnused /\ BufferUnused /\ MapUnused /\ m = Unused /\ pc = Unused
  \/ /\ running = "ConcurrentMap" /\ Mapped!Init
     /\ RecordUnused /\ BlockUnused /\ BufferUnused /\ PipeUnused /\ written = Unused

\* A is a step of the program that runs, a program of this module.
OfRecords(A) ==
  running = "RecordBuffer" /\ A /\ UNCHANGED <<running, blockVars, pipeVars, mapVars, m>>
OfBlocks(A) ==
  running = "BlockBuffer" /\ A /\ UNCHANGED <<running, recordVars, pipeVars, written, mapVars>>
OfPipe(A) ==
  /\ running = "Pipe" /\ A
  /\ UNCHANGED <<running, recordVars, blockVars, bufferVars, mapVars, m, pc>>
OfMap(A) ==
  /\ running = "ConcurrentMap" /\ A
  /\ UNCHANGED <<running, recordVars, blockVars, bufferVars, pipeVars, written>>

Next ==
  OfRecords(Records!Next) \/ OfBlocks(InBlocks!Next) \/ OfPipe(Piped!Next) \/ OfMap(Mapped!Next)

\* The fairness of each module; a client of a dictionary is never kept waiting.
Spec ==
  /\ Init /\ [][Next]_vars
  /\ WF_vars(OfRecords(Records!Receive)) /\ WF_vars(OfBlocks(InBlocks!Receive))
  /\ \A p \in Writer \cup Reader :
       WF_vars(OfRecords(Records!Step(p))) /\ SF_vars(OfRecords(Records!Lock(p)))
  /\ \A g \in Goroutine : WF_vars(OfBlocks(InBlocks!Step(g)))
  /\ WF_vars(OfPipe(Piped!WriterSide)) /\ WF_vars(OfPipe(Piped!ReaderSide))
  /\ WF_vars(OfPipe(Piped!Transfer))
  /\ \A c \in {"main", "g1", "g2", "g"} : WF_vars(OfMap(Mapped!Step(c)))

-----------------------------------------------------------------------------
(* The properties of the modules, of the program that runs *)

TypeOK ==
  /\ running = "RecordBuffer" => Records!TypeOK
  /\ running = "BlockBuffer" => InBlocks!TypeOK
  /\ running = "Pipe" => Piped!TypeOK
  /\ running = "ConcurrentMap" => Mapped!TypeOK

\* demo_sync.go neither tears nor loses a record, and its counters agree with
\* the buffer (demo_sync.go:44-74, 106-135); with the mutex demo_mutex.go keeps
\* its blocks together and complete (demo_mutex.go:46-77).
WholeWrites ==
  /\ running = "RecordBuffer" => Records!WholeRecords /\ Records!CountersAgree
  /\ running = "BlockBuffer" => InBlocks!WholeBlocks /\ InBlocks!ContentsComplete

\* The reader of the pipe stays until it has everything, in step with the
\* writer (io/demo.go:115-143).
ReadsToTheEnd == running = "Pipe" => Piped!ReadsToTheEnd /\ Piped!Synchronous

\* The two dictionaries of sync_map.go answer main's calls alike but for their
\* types, a missing key with "" the one and nil the other, and everybody who called
\* LoadOrStore for a key got the value that is in there (sync_map.go:19-31, 75-91).
AnswersCorrespond ==
  running = "ConcurrentMap" => Mapped!AnswersCorrespond /\ Mapped!LoadOrStoreAgree

\* Every one of the programs ends, or panics where its code says so: a write
\* without the mutex, an argument of the wrong type.
MainExits ==
  <>(CASE running = "RecordBuffer" -> Records!Exited
       [] running = "BlockBuffer" -> InBlocks!Exited \/ (protecting = 0 /\ InBlocks!Panicked)
       [] running = "Pipe" -> Piped!Exited
       [] running = "ConcurrentMap" -> Mapped!Exited)
=============================================================================
