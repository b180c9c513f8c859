----------------------------- MODULE DataDemos ------------------------------
(***************************************************************************)
(* The sequential programs: readers of a connection (LineReader,           *)
(* FrameReader) and of strings (Readers), programs that leave files        *)
(* (FileFlags, Profiles), errors (OsErrors), deferred calls (Unwinding) or *)
(* contexts (ContextTree) behind, and those that compute (VirtualCards,    *)
(* TlvLength, NthPower, AtomicInts, Slices, StrCat). One of them runs, and *)
(* its variables are v1, v2 and so on, in the order of the module; those   *)
(* it does not need keep the value Unused.                                 *)
(***************************************************************************)
EXTENDS Integers, Sequences

CONSTANTS Stream, Ends, Size, MaxCalls,  \* of the lines; MaxCalls of a closure, too
          Lengths, MaxReports,           \* of the frames
          FileRuns, ProfileRuns,         \* the runs of the programs with files
          ProfileFiles,                  \* the files of performance/demo.go
          Deltas,                        \* of the readers of strings
          ApNums,                        \* the numbers of cards
          DataLens,                      \* the lengths for tlv_length
          W, Exps, Bases,                \* of nth_power; W of the integers, too
          Subtracted,                    \* of the uint32
          Spare,                         \* of append
          MaxN,                          \* of the concatenations
          Unused

ASSUME DataDemosAssumption ==
  /\ Stream \in Nat /\ Ends \subseteq 1..Stream /\ Stream \in Ends
  /\ Size \in Nat \ {0} /\ MaxCalls \in Nat
  /\ Lengths \subseteq 0..255 /\ MaxReports \in Nat
  /\ FileRuns \in Nat \ {0} /\ ProfileRuns \in Nat \ {0} /\ ProfileFiles \in Nat
  /\ Deltas \subseteq 0..5
  /\ ApNums \subseteq Nat /\ DataLens \subseteq Int
  /\ W \in Nat /\ W > 23            \* 20 + 3 of demo1 fits a word
  /\ Exps \subseteq 0..(W - 1) /\ Bases \subseteq 0..(W - 1)
  /\ Subtracted \subseteq 1..(W \div 2)
  /\ Spare \in Nat /\ MaxN \in Nat

VARIABLES running, v1, v2, v3, v4, v5, v6, v7, v8

vars == <<running, v1, v2, v3, v4, v5, v6, v7, v8>>

\* DataLens of the run: every length around the borders between the numbers of
\* digits, and samples of the rest.
SampleLengths ==
  (-300..800) \cup (4000..4200) \cup (65400..65700) \cup {-4096, -4095}
    \cup {-65536, -65535, 1000000, 2147483647}

Lines == INSTANCE LineReader WITH
  Last <- Stream, lockstep <- v1, sent <- v2, closed <- v3, taken <- v4, head <- v5,
  buffer <- v6, results <- v7, reading <- v8
Frames == INSTANCE FrameReader WITH
  closed <- v1, frame <- v2, n <- v3, filled <- v4, allocate_sn_data <- v5,
  reports <- v6, pc <- v7
Flagged == INSTANCE FileFlags WITH
  MaxRuns <- FileRuns, run <- v1, i <- v2, pc <- v3, exists <- v4, contents <- v5,
  created <- v6, shown <- v7, excl <- v8
Profiled == INSTANCE Profiles WITH
  MaxRuns <- ProfileRuns, Last <- ProfileFiles, run <- v1, pc <- v2, k <- v3, err <- v4,
  open <- v5, file <- v6
Failures == INSTANCE OsErrors WITH
  step <- v1, f <- v2, open <- v3, closes <- v4, shown <- v5
Strings == INSTANCE Readers WITH
  delta <- v1, example <- v2, i <- v3, rest <- v4, got <- v5, written <- v6
Cards == INSTANCE VirtualCards WITH
  apNum <- v1, i <- v2, j <- v3, mac_i <- v4, devArray <- v5, pc <- v6
Length == INSTANCE TlvLength WITH
  Lengths <- DataLens, data_len <- v1, s1 <- v2, s2 <- v3, data <- v4, pc <- v5
Power == INSTANCE NthPower WITH
  exp <- v1, arg <- v2, i <- v3, base <- v4, result <- v5, calls <- v6, pc <- v7
Sliced == INSTANCE Slices WITH
  prog <- v1, step <- v2, heap <- v3, slices <- v4, i <- v5, copied <- v6
Concat == INSTANCE StrCat WITH
  method <- v1, n <- v2, i <- v3, second <- v4, len <- v5, cap <- v6, copied <- v7
Ints == INSTANCE AtomicInts WITH
  prog <- v1, delta <- v2, step <- v3, num <- v4, old <- v5, printed <- v6
Tree == INSTANCE ContextTree WITH
  made <- v1, err <- v2, timer <- v3, found <- v4, pc <- v5
Unwound == INSTANCE Unwinding WITH
  prog <- v1, stack <- v2, i <- v3, panicking <- v4, output <- v5

-----------------------------------------------------------------------------

Init ==
  \/ running = "LineReader" /\ Lines!Init
  \/ running = "FrameReader" /\ Frames!Init /\ v8 = Unused
  \/ running = "FileFlags" /\ Flagged!Init
  \/ running = "Profiles" /\ Profiled!Init /\ v7 = Unused /\ v8 = Unused
  \/ running = "OsErrors" /\ Failures!Init /\ v6 = Unused /\ v7 = Unused /\ v8 = Unused
  \/ running = "Readers" /\ Strings!Init /\ v7 = Unused /\ v8 = Unused
  \/ running = "VirtualCards" /\ Cards!Init /\ v7 = Unused /\ v8 = Unused
  \/ running = "TlvLength" /\ Length!Init /\ v6 = Unused /\ v7 = Unused /\ v8 = Unused
  \/ running = "NthPower" /\ Power!Init /\ v8 = Unused
  \/ running = "Slices" /\ Sliced!Init /\ v7 = Unused /\ v8 = Unused
  \/ running = "StrCat" /\ Concat!Init /\ v8 = Unused
  \/ running = "AtomicInts" /\ Ints!Init /\ v7 = Unused /\ v8 = Unused
  \/ running = "ContextTree" /\ Tree!Init /\ v6 = Unused /\ v7 = Unused /\ v8 = Unused
  \/ running = "Unwinding" /\ Unwound!Init /\ v6 = Unused /\ v7 = Unused /\ v8 = Unused

\* A is a step of the program that runs, which has the first variables only.
Of(program, A, rest) == running = program /\ A /\ UNCHANGED <<running, rest>>

Next ==
  \/ Of("LineReader", Lines!Next, <<>>)
  \/ Of("FrameReader", Frames!Next, <<v8>>)
  \/ Of("FileFlags", Flagged!Next, <<>>)
  \/ Of("Profiles", Profiled!Next, <<v7, v8>>)
  \/ Of("OsErrors", Failures!Next, <<v6, v7, v8>>)
  \/ Of("Readers", Strings!Next, <<v7, v8>>)
  \/ Of("VirtualCards", Cards!Next, <<v7, v8>>)
  \/ Of("TlvLength", Length!Next, <<v6, v7, v8>>)
  \/ Of("NthPower", Power!Next, <<v8>>)
  \/ Of("Slices", Sliced!Next, <<v7, v8>>)
  \/ Of("StrCat", Concat!Next, <<v8>>)
  \/ Of("AtomicInts", Ints!Next, <<v7, v8>>)
  \/ Of("ContextTree", Tree!Next, <<v6, v7, v8>>)
  \/ Of("Unwinding", Unwound!Next, <<v6, v7, v8>>)

\* The fairness of the modules: a call of Read, AddVirtualNetworkCard and a
\* call of a closure go on.
Spec ==
  /\ Init /\ [][Next]_vars
  /\ WF_vars(Of("LineReader", Lines!Goes, <<>>))
  /\ WF_vars(Of("VirtualCards", Cards!Next, <<v7, v8>>))
  /\ WF_vars(Of("NthPower", Power!Goes, <<v8>>))

-----------------------------------------------------------------------------
(* The properties of the modules, of the program that runs *)

TypeOK ==
  /\ running = "VirtualCards" => Cards!TypeOK
  /\ running = "TlvLength" => Length!TypeOK
  /\ running = "Slices" => Sliced!TypeOK

\* Read returns lines in order, whole and all of them if the peer is in lockstep;
\* if it sends ahead, lines or the rests of lines, with less than a reader's buffer
\* lost between two calls (net/test_read.go:21-42). A frame is whole but for the
\* one the connection ends in (1-19).
ReadsInOrder ==
  /\ running = "LineReader" =>
       Lines!LineOrTail /\ Lines!InOrder /\ Lines!LockstepKeepsAll
  /\ running = "FrameReader" => Frames!FramesWhole /\ Frames!EndShowsNothing

\* Whatever call fails and wherever a run was killed: a record is where its
\* flags put it and nothing of an earlier run shows (demo_file.go:23-79), what is
\* complete is a prefix of the profiles and genProfile leaves none of them open
\* (performance/demo.go:41-79), f closes each of its files once and nothing but the
\* end w of a pipe stays open, and the errors are told apart
\* (underlying_error.go:27-131).
CleansUp ==
  /\ running = "FileFlags" =>
       Flagged!RecordInPlace /\ Flagged!NothingOld /\ Flagged!ExclusiveRefused
  /\ running = "Profiles" => Profiled!NoFileLeftOpen /\ Profiled!CompletePrefix
  /\ running = "OsErrors" => Failures!ClosedOnce /\ Failures!ToldApart

\* No two cards share an address, and every index asked for has a card
\* (test_coroutine.go:75-116).
CardsDistinct ==
  running = "VirtualCards" => Cards!DistinctAddresses /\ Cards!AllFiled

\* What is computed or printed is what the definition or the comment says: the
\* two bytes of a length (demo.go:19-43), a power and a difference in machine
\* words (test_closure2.go:9-20, demo_atomic0.go:29-50), the slices of
\* test_slice.go and the sums of test_range.go; the bytes copied to concatenate
\* are linear or quadratic in the result (demo_strcat.go); the wrapped readers
\* leave no gap and reach io.EOF (io/demo.go:13-100); deferred calls run in
\* reverse, through a panic too (error/); and one cancelFunc ends a tree of
\* contexts and its timer (demo_context.go:101-119).
Computes ==
  /\ running = "TlvLength" => Length!Encodes /\ Length!OutcomeFits
  /\ running = "NthPower" => Power!LoopInvariant /\ Power!ReturnsPower
  /\ running = "AtomicInts" => Ints!Prints
  /\ running = "Slices" => Sliced!ShowsWhatCommentsSay /\ Sliced!RangeSums
  /\ running = "StrCat" => Concat!LinearWork /\ Concat!QuadraticWork
  /\ running = "Readers" =>
       Strings!Contiguous /\ Strings!TeeWritesWhatIsRead /\ Strings!ReadsAll
  /\ running = "Unwinding" => Unwound!RunsDeferred
  /\ running = "ContextTree" => Tree!KnowsTheKeys /\ Tree!NothingLeft

\* A card on file is replaced at a seam of two blocks only, and what
\* is appended to a slice that was cut off with its capacity stays out of the
\* slices on the array (test_coroutine.go:113, test_slice.go:13-16).
KeepsOthers ==
  [][/\ running = "VirtualCards" => Cards!KeepsCards
     /\ running = "Slices" => Sliced!CutOffStaysApart]_vars

\* A call of Read returns once it has a line or the connection has ended, a
\* call of a closure returns, and AddVirtualNetworkCard ends, with a panic if
\* the MAC bytes run out (test_coroutine.go:91).
Returns ==
  /\ (running = "LineReader" /\ Lines!Due) ~> (running = "LineReader" /\ ~Lines!Reading)
  /\ (running = "NthPower" /\ Power!Called) ~> (running = "NthPower" /\ ~Power!Called)
  /\ <>[](running = "VirtualCards" => Cards!Ended)
=============================================================================
