------------------------------- MODULE Slices -------------------------------
(***************************************************************************)
(* The programs about slices as scripts over one machine: test_slice, of   *)
(* slice/test_slice.go, appends, of array_slice/test_slice2.go (example    *)
(* 1), and the three loops of loop/test_range.go. A slice is a window on   *)
(* an array; append writes into the array behind the window if there is    *)
(* room, and moves to a new array if not, which has as much room as the    *)
(* runtime likes. Indexes of slices and arrays start at 0, as in Go.       *)
(***************************************************************************)
EXTENDS Integers, Sequences

CONSTANT Spare         \* bound: the room a new array may have beyond its need

VARIABLES prog, step,
          heap,        \* the arrays made so far, each a sequence
          slices,      \* name -> its window
          i, copied    \* the loops: the index, and the array range has copied

vars == <<prog, step, heap, slices, i, copied>>

Make(dst, elems) == [op |-> "make", dst |-> dst, elems |-> elems]
Slice(dst, src, lo, hi, max) ==
  [op |-> "slice", dst |-> dst, src |-> src, lo |-> lo, hi |-> hi, max |-> max]
Append1(dst, src, v) == [op |-> "append", dst |-> dst, src |-> src, v |-> v]
Set(dst, k, v) == [op |-> "set", dst |-> dst, k |-> k, v |-> v]
Range(dst, kind) == [op |-> "range", dst |-> dst, kind |-> kind]

\* Mistake: s5 keeps the capacity of s4.
test_sliceUnprotected ==
  <<Make("s0", <<0, 1, 2, 3, 4, 5, 6>>), Slice("s1", "s0", 0, 7, 7), Slice("s2", "s1", 1, 3, 7),
    Slice("s3", "s1", 3, 7, 7), Slice("s4", "s0", 3, 5, 7), Slice("s5", "s4", 0, 2, 4),
    Append1("s6", "s4", 77), Append1("s7", "s5", 88), Append1("s8", "s7", 66), Set("s3", 1, 99)>>
test_slice ==
  <<Make("s0", <<0, 1, 2, 3, 4, 5, 6>>), Slice("s1", "s0", 0, 7, 7), Slice("s2", "s1", 1, 3, 7),
    Slice("s3", "s1", 3, 7, 7), Slice("s4", "s0", 3, 5, 7), Slice("s5", "s4", 0, 2, 2),
    Append1("s6", "s4", 77), Append1("s7", "s5", 88), Append1("s8", "s7", 66), Set("s3", 1, 99)>>
appends == <<Make("s6", <<>>)>> \o [k \in 1..5 |-> Append1("s6", "s6", k)]
Numbers == <<1, 2, 3, 4, 5, 6>>
Loop(kind) == <<Make("numbers", Numbers), Range("numbers", kind)>>
Programs ==
  [test_slice |-> test_slice, appends |-> appends,
   numbers1 |-> Loop("index"), numbers2 |-> Loop("array"), numbers3 |-> Loop("slice")]

Init ==
  /\ prog \in DOMAIN Programs /\ step = 1
  /\ heap = <<>> /\ slices = [s \in {} |-> 0]
  /\ i = 0 /\ copied = <<>>

Elem(s, k) == heap[slices[s].array][slices[s].off + k + 1]
View(s) == [k \in 1..slices[s].len |-> Elem(s, k - 1)]

Op == Programs[prog][step]
At(op) == step <= Len(Programs[prog]) /\ Op.op = op
Bind(window) == slices' = [s \in DOMAIN slices \cup {Op.dst} |-> IF s = Op.dst THEN window ELSE slices[s]]
Window(a, off, len, cap) == [array |-> a, off |-> off, len |-> len, cap |-> cap]
Next1 == step' = step + 1 /\ UNCHANGED <<prog, i, copied>>

MakeArray ==
  /\ At("make") /\ Next1
  /\ heap' = Append(heap, Op.elems)
  /\ Bind(Window(Len(heap'), 0, Len(Op.elems), Len(Op.elems)))

Reslice ==
  /\ At("slice") /\ Next1
  /\ Bind(Window(slices[Op.src].array, slices[Op.src].off + Op.lo, Op.hi - Op.lo, Op.max - Op.lo))
  /\ UNCHANGED heap

InPlace(s) == s.len < s.cap

DoAppend ==
  LET s == slices[Op.src] IN
  /\ At("append") /\ Next1
  /\ IF InPlace(s)
       THEN /\ heap' = [heap EXCEPT ![s.array][s.off + s.len + 1] = Op.v]
            /\ Bind([s EXCEPT !.len = @ + 1])
       ELSE \E spare \in 0..Spare :
            /\ heap' = Append(heap, View(Op.src) \o <<Op.v>> \o [k \in 1..spare |-> 0])
            /\ Bind(Window(Len(heap'), 0, s.len + 1, s.len + 1 + spare))

SetElem ==
  /\ At("set") /\ Next1
  /\ heap' = [heap EXCEPT ![slices[Op.dst].array][slices[Op.dst].off + Op.k + 1] = Op.v]
  /\ UNCHANGED slices

\* What range takes at index k: from its copy of an array, or from a slice.
TakenShared(k) == Elem(Op.dst, k)            \* mistake: no copy
Taken(k) == IF Op.kind = "array" THEN copied[k + 1] ELSE Elem(Op.dst, k)

\* One iteration; range copies an array before the first one. 3 | 4 is 7.
Iterate ==
  LET n == slices[Op.dst].len
      to == IF Op.kind = "index" THEN i ELSE (i + 1) % n IN
  /\ At("range") /\ i < n
  /\ copied' = IF i = 0 THEN View(Op.dst) ELSE copied
  /\ heap' = [heap EXCEPT ![slices[Op.dst].array][to + 1] =
                IF Op.kind # "index" THEN @ + (IF i = 0 THEN Elem(Op.dst, 0) ELSE Taken(i))
                ELSE IF i = 3 THEN 7 ELSE @]
  /\ i' = i + 1
  /\ UNCHANGED <<prog, step, slices>>

LoopEnds ==
  /\ At("range") /\ i = slices[Op.dst].len
  /\ step' = step + 1
  /\ UNCHANGED <<prog, heap, slices, i, copied>>

Finished == step > Len(Programs[prog])
Terminated == Finished /\ UNCHANGED vars

Next == MakeArray \/ Reslice \/ DoAppend \/ SetElem \/ Iterate \/ LoopEnds \/ Terminated

Spec == Init /\ [][Next]_vars

-----------------------------------------------------------------------------
(* Properties *)

\* Every slice is a window within its array, and never longer than its
\* capacity, whatever it was made from.
TypeOK ==
  /\ prog \in DOMAIN Programs /\ i \in 0..6
  /\ \A s \in DOMAIN slices :
       /\ slices[s].array \in 1..Len(heap)
       /\ slices[s].len <= slices[s].cap
       /\ slices[s].off + slices[s].cap <= Len(heap[slices[s].array])

\* test_slice ends with the elements that its comments list (lines 18-24),
\* whatever room the runtime gives: s3 shows the element appended to s4, but
\* not what is appended to s5, which was cut off with its capacity.
ShowsWhatCommentsSay ==
  prog = "test_slice" /\ Finished =>
    /\ View("s2") = <<1, 2>> /\ View("s3") = <<3, 99, 77, 6>> /\ View("s4") = <<3, 99>>
    /\ View("s5") = <<3, 99>> /\ View("s6") = <<3, 99, 77>>
    /\ View("s7") = <<3, 4, 88>> /\ View("s8") = <<3, 4, 88, 66>>

\* s5 is cut off with its capacity (test_slice.go:13): what is appended to it
\* and to s7, which is made of it, shows in none of the slices on the array a,
\* while what is appended to s4 shows in s0, s1 and s3 (lines 14-16, 19).
OnArray == {"s0", "s1", "s2", "s3", "s4", "s5", "s6"}
CutOffStaysApart ==
  prog = "test_slice" /\ At("append") /\ Op.src # "s4" =>
    \A s \in OnArray : View(s)' = View(s)

\* range over an array adds the elements as they were before the loop, over a
\* slice as the loop has made them, so that they add up (test_range.go:19, 32).
RangeSums ==
  Finished /\ prog \in {"numbers2", "numbers3"} =>
    View("numbers") = IF prog = "numbers2" THEN <<7, 3, 5, 7, 9, 11>>
                      ELSE <<1 + 21, 3, 6, 10, 15, 21>>
=============================================================================
