------------------------------ MODULE SliceBox ------------------------------
(***************************************************************************)
(* demo4 of goroutine/demo_atomic.go: a slice in an atomic.Value. A slice  *)
(* refers to an array: storing v6 itself publishes an array that main goes *)
(* on writing to, storing a replica does not. The comments (lines 56, 58   *)
(* and 68) are about goroutines that load the value meanwhile; Readers     *)
(* stand for them: each loads the slice and then reads it element by       *)
(* element.                                                                *)
(***************************************************************************)
EXTENDS Integers, Sequences

CONSTANT Readers

VARIABLES step,        \* the next step of main
          v6,          \* the array main holds
          heap,        \* array -> its elements
          box6,        \* the array the atomic.Value refers to, or "none"
          stored,      \* array -> its elements when it was stored, for the properties
          copied,      \* the elements of the replica copied so far
          loaded,      \* reader -> the array it has loaded, or "none"
          seen         \* reader -> the elements it has read

vars == <<step, v6, heap, box6, stored, copied, loaded, seen>>

Arrays == {"first", "second", "replica"}
Zeros == <<0, 0, 0>>

Init ==
  /\ step = "store" /\ v6 = "first"
  /\ heap = [a \in Arrays |-> IF a = "first" THEN <<1, 2, 3>> ELSE Zeros]
  /\ box6 = "none" /\ stored = [a \in {} |-> Zeros] /\ copied = 0
  /\ loaded = [r \in Readers |-> "none"] /\ seen = [r \in Readers |-> <<>>]

Publish(a) ==
  /\ box6' = a
  /\ stored' = [b \in DOMAIN stored \cup {a} |-> IF b = a THEN heap[a] ELSE stored[b]]

\* box6.Store(v6), line 54
StoreAlias ==
  /\ step = "store" /\ step' = "change"
  /\ Publish(v6)
  /\ UNCHANGED <<v6, heap, copied, loaded, seen>>

\* v6[1] = 4 and v6 = []int{1, 2, 3}, lines 56 and 59
Change ==
  /\ step = "change" /\ step' = "copy"
  /\ heap' = [heap EXCEPT ![v6][2] = 4, !["second"] = <<1, 2, 3>>]
  /\ v6' = "second"
  /\ UNCHANGED <<box6, stored, copied, loaded, seen>>

\* copy(replica, v) in store, element by element
Copy ==
  /\ step = "copy" /\ copied < 3
  /\ copied' = copied + 1
  /\ heap' = [heap EXCEPT !["replica"][copied + 1] = heap[v6][copied + 1]]
  /\ UNCHANGED <<step, v6, box6, stored, loaded, seen>>

\* box6.Store(replica) in store
StoreItself ==                               \* mistake: no replica
  /\ step = "copy" /\ step' = "write"
  /\ Publish(v6)
  /\ UNCHANGED <<v6, heap, copied, loaded, seen>>

StoreEarly ==                                \* mistake: before the copy is complete
  /\ step = "copy" /\ box6 # "replica"
  /\ Publish("replica")
  /\ step' = IF copied = 3 THEN "write" ELSE step
  /\ UNCHANGED <<v6, heap, copied, loaded, seen>>

StoreReplica ==
  /\ step = "copy" /\ copied = 3 /\ step' = "write"
  /\ Publish("replica")
  /\ UNCHANGED <<v6, heap, copied, loaded, seen>>

\* v6[2] = 5, line 68
Write ==
  /\ step = "write" /\ step' = "end"
  /\ heap' = [heap EXCEPT ![v6][3] = 5]
  /\ UNCHANGED <<v6, box6, stored, copied, loaded, seen>>

\* A reader may load as often as it likes; it then reads all three elements.
Load(r) ==
  /\ box6 # "none" /\ Len(seen[r]) \in {0, 3}
  /\ loaded' = [loaded EXCEPT ![r] = box6]
  /\ seen' = [seen EXCEPT ![r] = <<heap[box6][1]>>]
  /\ UNCHANGED <<step, v6, heap, box6, stored, copied>>

Read(r) ==
  /\ Len(seen[r]) \in {1, 2}
  /\ seen' = [seen EXCEPT ![r] = Append(@, heap[loaded[r]][Len(@) + 1])]
  /\ UNCHANGED <<step, v6, heap, box6, stored, copied, loaded>>

Next ==
  \/ StoreAlias \/ Change \/ Copy \/ StoreReplica \/ Write
  \/ \E r \in Readers : Load(r) \/ Read(r)

Spec == Init /\ [][Next]_vars

-----------------------------------------------------------------------------
(* Properties *)

\* A goroutine that reads a slice loaded from box6 reads what was stored, or
\* its beginning; only the slice stored without a replica can show it an
\* element that never was in what was stored (lines 54 and 56).
ReadsWhatWasStored ==
  \A r \in Readers : loaded[r] \notin {"none", "first"} =>
    seen[r] = SubSeq(stored[loaded[r]], 1, Len(seen[r]))
=============================================================================
