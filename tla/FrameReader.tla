---------------------------- MODULE FrameReader -----------------------------
(***************************************************************************)
(* cmd_dev_allocate_sn_a of net/test_read.go: frames of one length byte    *)
(* and that many bytes, all read into one buffer, for ever. The errors of  *)
(* both reads are dropped. A byte of the stream is the pair of its frame   *)
(* and its place in it. The peer may close the connection anywhere.        *)
(***************************************************************************)
EXTENDS Integers, Sequences

CONSTANTS Lengths,     \* the length bytes the peer sends
          MaxReports   \* bound: the frames that are shown

VARIABLES closed,
          frame,       \* the frame being read
          n, filled,   \* its length, and what io.ReadFull has read of it
          allocate_sn_data,
          reports,     \* the slices shown, lines 13-15
          pc           \* "length" or "data"

vars == <<closed, frame, n, filled, allocate_sn_data, reports, pc>>

Init ==
  /\ closed = FALSE
  /\ frame = 0 /\ n = 0 /\ filled = 0
  /\ allocate_sn_data = [k \in 1..1024 |-> <<0, 0>>]
  /\ reports = <<>>
  /\ pc = "length"

Close == ~closed /\ closed' = TRUE /\ UNCHANGED <<frame, n, filled, allocate_sn_data, reports, pc>>

ReadByte ==
  /\ pc = "length" /\ ~closed /\ Len(reports) < MaxReports
  /\ n' \in Lengths
  /\ frame' = frame + 1 /\ filled' = 0 /\ pc' = "data"
  /\ UNCHANGED <<closed, allocate_sn_data, reports>>

\* Mistake: n is kept from the frame before.
ReadByteKeepsN ==
  /\ pc = "length" /\ closed /\ Len(reports) < MaxReports
  /\ filled' = 0 /\ pc' = "data"
  /\ UNCHANGED <<closed, frame, n, allocate_sn_data, reports>>

\* A failed ReadByte returns 0, and the loop goes on with it.
ReadByteFails ==
  /\ pc = "length" /\ closed /\ Len(reports) < MaxReports
  /\ n' = 0 /\ filled' = 0 /\ pc' = "data"
  /\ UNCHANGED <<closed, frame, allocate_sn_data, reports>>

ReadFull ==
  /\ pc = "data" /\ filled < n /\ ~closed
  /\ filled' = filled + 1
  /\ allocate_sn_data' = [allocate_sn_data EXCEPT ![filled + 1] = <<frame, filled + 1>>]
  /\ UNCHANGED <<closed, frame, n, reports, pc>>

\* Mistake: a Read instead of io.ReadFull may come back with less.
ReportShort ==
  /\ pc = "data" /\ (filled = n \/ filled > 0 \/ closed)
  /\ reports' = Append(reports, SubSeq(allocate_sn_data, 1, n))
  /\ pc' = "length"
  /\ UNCHANGED <<closed, frame, n, filled, allocate_sn_data>>

Report ==
  /\ pc = "data" /\ (filled = n \/ closed)
  /\ reports' = Append(reports, SubSeq(allocate_sn_data, 1, n))
  /\ pc' = "length"
  /\ UNCHANGED <<closed, frame, n, filled, allocate_sn_data>>

Terminated == closed /\ Len(reports) = MaxReports /\ UNCHANGED vars

Next == Close \/ ReadByte \/ ReadByteFails \/ ReadFull \/ Report \/ Terminated

Spec == Init /\ [][Next]_vars

-----------------------------------------------------------------------------
(* Properties *)

Whole(k) == \A p \in 1..Len(reports[k]) : reports[k][p] = <<k, p>>

\* A frame shown while the connection is open is the next frame, whole and
\* with nothing of the frames before, although they share one buffer.
FramesWhole == \A k \in 1..Len(reports) : ~closed \/ k < frame => Whole(k)

\* After the end at most one frame is shown broken, the one the end came in,
\* the rest of it left from the frames before it; then only empty ones follow.
EndShowsNothing ==
  \A k \in 1..Len(reports) : k > frame => closed /\ reports[k] = <<>>
=============================================================================
