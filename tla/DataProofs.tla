----------------------------- MODULE DataProofs -----------------------------
(***************************************************************************)
(* What the programs of DataDemos keep true, for every stream of lines and *)
(* frames, every number of cards, runs and files:                          *)
(*   - Read of net/test_read.go (LinesInv): what a call holds lies behind  *)
(*     all that was returned, and in lockstep nothing is sent behind it;   *)
(*     (TailsInv) no end of a line lies inside what it has put together;   *)
(*   - cmd_dev_allocate_sn_a (FramesInv): how many frames were shown, and  *)
(*     that what is read of the next is in its place;                      *)
(*   - AddVirtualNetworkCard of test_coroutine.go (CardsInv): the cards of *)
(*     the blocks before, and of the present one, each at its index;       *)
(*   - os_exec/demo_file.go (FlagsInv): what the file contains before and  *)
(*     after each write;                                                   *)
(*   - performance/demo.go (ProfilesInv): which run each file is of, and   *)
(*     the one that is open;                                               *)
(*   - error/underlying_error.go (ErrorsInv): the file that f holds, and   *)
(*     what has been closed and printed before each step;                  *)
(*   - tlv_length of demo.go (LengthsInv): the digits of both halves, and  *)
(*     what the two bytes are worth;                                       *)
(*   - test_slice.go, test_slice2.go and test_range.go (SlicesInv): where  *)
(*     the window of each slice lies before each call, and what the loop   *)
(*     has made of the elements;                                           *)
(*   - demo_strcat.go (ConcatsInv): what is copied while the buffer grows, *)
(*     and while the string is built anew;                                 *)
(*   - test_closure2.go (PowsInv): the loop keeps the power of the base    *)
(*     times the result, and returns it;                                   *)
(*   - demo_atomic0.go (IntsInv): what each integer is before its step;    *)
(*   - demo_context.go (TreesInv): which contexts are there, and the key   *)
(*     that each lookup has found;                                         *)
(*   - io/demo.go (StringsInv): where in the strings each reader stands,   *)
(*     and that what was read adjoins;                                     *)
(*   - error/ (UnwindsInv): the stack of frames after each statement.      *)
(* One program runs; each invariant is about its own program.              *)
(***************************************************************************)
EXTENDS DataDemos, SumFacts, SequenceTheorems

-----------------------------------------------------------------------------
(* The lines: v1 is lockstep, v2 is sent, v3 is closed, v4 is taken, v5 is   *)
(* head, v6 is buffer, v7 is results and v8 is reading.                      *)

Parts == Nat \X Nat

LineTypes ==
  /\ v1 \in BOOLEAN /\ v2 \in Nat /\ v3 \in BOOLEAN /\ v4 \in Nat /\ v5 \in Nat
  /\ v6 \in Parts /\ v7 \in Seq(Parts) /\ v8 \in BOOLEAN

\* What the present call has read lies behind all that the calls have returned.
HeldInv == v4 <= v2 /\ v6[1] <= v5 /\ v5 - 1 <= v4

LineReturned(k) ==
  /\ v7[k][1] \in Nat /\ v7[k][2] \in Nat
  /\ v7[k][2] \in Ends \/ (v3 /\ v7[k][2] = v2)
  /\ v7[k][2] <= v4 /\ (v8 => v7[k][2] < v6[1])
  /\ v1 => v7[k][1] = IF k = 1 THEN 1 ELSE v7[k - 1][2] + 1

Ordered(k, l) == k < l => v7[k][2] < v7[l][1]

LastReturned == IF Len(v7) = 0 THEN 0 ELSE v7[Len(v7)][2]

\* A peer in lockstep has sent nothing behind the end of the line due next.
LockstepInv ==
  v1 => /\ \A p \in Ends : p <= LastReturned \/ p >= v2
        /\ ~v8 => v4 = LastReturned
        /\ v8 => v6[1] = LastReturned + 1

LineInv ==
  /\ LineTypes /\ HeldInv /\ LockstepInv
  /\ \A k \in 1..Len(v7) : LineReturned(k)
  /\ \A k, l \in 1..Len(v7) : Ordered(k, l)

LinesInv == running = "LineReader" => LineInv

LEMMA LinesStart == Init => LinesInv
<1> SUFFICES ASSUME Init, running = "LineReader" PROVE LineInv
  BY DEF LinesInv
<1>1. /\ v1 \in BOOLEAN /\ v2 = 0 /\ v3 = FALSE /\ v4 = 0 /\ v5 = 1 /\ v6 = <<1, 0>>
      /\ v7 = <<>> /\ v8 = FALSE
  BY DEF Init, Lines!Init
<1>2. v7 \in Seq(Parts) /\ Len(v7) = 0
  BY <1>1, EmptySeq
<1>3. LineTypes /\ HeldInv
  <2>1. v6 \in Parts
    BY <1>1 DEF Parts
  <2>2. v6[1] = 1
    BY <1>1
  <2>3. LineTypes
    BY <1>1, <1>2, <2>1 DEF LineTypes
  <2> QED
    BY <1>1, <2>2, <2>3 DEF HeldInv
<1>4. LockstepInv
  BY <1>1, <1>2, DataDemosAssumption DEF LockstepInv, LastReturned
<1> QED
  BY <1>2, <1>3, <1>4 DEF LineInv

LEMMA LineNumbers ==
  ASSUME LineInv
  PROVE  /\ v1 \in BOOLEAN /\ v2 \in Nat /\ v3 \in BOOLEAN /\ v4 \in Nat /\ v5 \in Nat
         /\ v6[1] \in Nat /\ v8 \in BOOLEAN /\ Len(v7) \in Nat /\ LastReturned \in Nat
         /\ LastReturned <= v4 /\ (v8 => LastReturned < v6[1] \/ Len(v7) = 0)
         /\ v4 <= v2 /\ v6[1] <= v5 /\ v5 - 1 <= v4
<1>1. /\ v1 \in BOOLEAN /\ v2 \in Nat /\ v3 \in BOOLEAN /\ v4 \in Nat /\ v5 \in Nat
      /\ v8 \in BOOLEAN /\ Len(v7) \in Nat
  BY DEF LineInv, LineTypes
<1>2. v6[1] \in Nat
  BY DEF LineInv, LineTypes, Parts
<1>3. Len(v7) # 0 => LineReturned(Len(v7))
  BY <1>1 DEF LineInv
<1>4. LastReturned \in Nat /\ LastReturned <= v4 /\ (v8 => LastReturned < v6[1] \/ Len(v7) = 0)
  BY <1>1, <1>3 DEF LineReturned, LastReturned
<1> QED
  BY <1>1, <1>2, <1>4 DEF LineInv, HeldInv

\* Steps that return nothing.
LEMMA LinesStay ==
  ASSUME LineInv, v7' = v7, v1' = v1, LineTypes', HeldInv', LockstepInv',
         v4' >= v4, v3 => v3' /\ v2' = v2,
         v8' => (v8 /\ v6'[1] = v6[1]) \/ v6'[1] > v4
  PROVE  LineInv'
<1>1. ASSUME NEW k \in 1..Len(v7) PROVE LineReturned(k)'
  <2>1. LineReturned(k)
    BY DEF LineInv
  <2>2. v4 \in Nat /\ v4' \in Nat /\ v6[1] \in Nat /\ v6'[1] \in Nat
    BY LineNumbers DEF LineTypes, Parts
  <2> QED
    BY <2>1, <2>2 DEF LineReturned
<1>2. ASSUME NEW k \in 1..Len(v7), NEW l \in 1..Len(v7) PROVE Ordered(k, l)'
  BY DEF LineInv, Ordered
<1> QED
  BY <1>1, <1>2 DEF LineInv

LEMMA PeerKeeps ==
  ASSUME LineInv, Lines!Send \/ Lines!Close
  PROVE  LineInv'
<1>0. /\ v1 \in BOOLEAN /\ v2 \in Nat /\ v3 \in BOOLEAN /\ v4 \in Nat /\ v5 \in Nat
      /\ v6[1] \in Nat /\ v8 \in BOOLEAN /\ Len(v7) \in Nat /\ LastReturned \in Nat
      /\ v4 <= v2 /\ v6[1] <= v5 /\ v5 - 1 <= v4
  BY LineNumbers
<1>1. UNCHANGED <<v1, v4, v5, v6, v7, v8>> /\ LastReturned' = LastReturned
  BY DEF Lines!Send, Lines!Close, LastReturned
<1>2. CASE Lines!Send
  <2>1. /\ ~v3 /\ v2' = v2 + 1 /\ v3' = v3
        /\ v1 /\ v2 \in Ends => v7 # <<>> /\ v7[Len(v7)][2] = v2
    BY <1>2 DEF Lines!Send
  <2>2. v1 /\ v2 \in Ends => LastReturned = v2
    <3>1. v7 \in Seq(Parts)
      BY DEF LineInv, LineTypes
    <3>2. v7 # <<>> => Len(v7) # 0
      BY <3>1, EmptySeq
    <3> QED
      BY <2>1, <3>2 DEF LastReturned
  <2>3. LineTypes' /\ HeldInv'
    BY <1>0, <1>1, <2>1 DEF LineInv, LineTypes, HeldInv
  <2>4. LockstepInv'
    <3>1. \A p \in Ends : p \in Nat
      BY DataDemosAssumption
    <3> QED
      BY <1>0, <1>1, <2>1, <2>2, <3>1 DEF LineInv, LockstepInv
  <2> QED
    BY <1>0, <1>1, <2>1, <2>3, <2>4, LinesStay
<1>3. CASE Lines!Close
  <2>1. ~v3 /\ v3' = TRUE /\ v2' \in v4..v2
    BY <1>3 DEF Lines!Close
  <2>3. LineTypes' /\ HeldInv'
    BY <1>0, <1>1, <2>1 DEF LineInv, LineTypes, HeldInv
  <2>4. LockstepInv'
    <3>1. \A p \in Ends : p \in Nat
      BY DataDemosAssumption
    <3> QED
      BY <1>0, <1>1, <2>1, <3>1 DEF LineInv, LockstepInv
  <2> QED
    BY <1>0, <1>1, <2>1, <2>3, <2>4, LinesStay
<1> QED
  BY <1>2, <1>3

LEMMA ReaderKeeps ==
  ASSUME LineInv, Lines!Call \/ Lines!Fill \/ Lines!ReadPrefix
  PROVE  LineInv'
<1>0. /\ v1 \in BOOLEAN /\ v2 \in Nat /\ v3 \in BOOLEAN /\ v4 \in Nat /\ v5 \in Nat
      /\ v6[1] \in Nat /\ v8 \in BOOLEAN /\ Len(v7) \in Nat /\ LastReturned \in Nat
      /\ v4 <= v2 /\ v6[1] <= v5 /\ v5 - 1 <= v4
  BY LineNumbers
<1>1. UNCHANGED <<v1, v2, v3, v7>> /\ LastReturned' = LastReturned
  BY DEF Lines!Call, Lines!Fill, Lines!ReadPrefix, LastReturned
<1>2. CASE Lines!Call
  <2>1. ~v8 /\ v8' = TRUE /\ v4' = v4 /\ v5' = v4 + 1 /\ v6' = <<v4 + 1, v4>>
    BY <1>2 DEF Lines!Call
  <2>2. v6' \in Parts /\ v6'[1] = v4 + 1
    BY <1>0, <2>1 DEF Parts
  <2>5. LineTypes'
    BY <1>0, <1>1, <2>1, <2>2 DEF LineInv, LineTypes
  <2>3. LineTypes' /\ HeldInv'
    BY <1>0, <1>1, <2>1, <2>2, <2>5 DEF HeldInv
  <2>4. LockstepInv'
    BY <1>0, <1>1, <2>1, <2>2 DEF LineInv, LockstepInv
  <2> QED
    BY <1>0, <1>1, <2>1, <2>2, <2>3, <2>4, LinesStay
<1>3. CASE Lines!Fill
  <2>1. v8 /\ v4' \in (v4 + 1)..v2 /\ UNCHANGED <<v5, v6, v8>>
    BY <1>3 DEF Lines!Fill
  <2>2. LineTypes'
    BY <1>0, <1>1, <2>1 DEF LineInv, LineTypes
  <2>5. v4' \in Int /\ v4 < v4' /\ v4' <= v2' /\ v5' = v5 /\ v6'[1] = v6[1]
    BY <1>0, <1>1, <2>1
  <2>3. HeldInv'
    BY <1>0, <2>5 DEF HeldInv
  <2>4. LockstepInv'
    BY <1>0, <1>1, <2>1 DEF LineInv, LockstepInv
  <2> QED
    BY <1>0, <1>1, <2>1, <2>2, <2>3, <2>4, <2>5, LinesStay
<1>4. CASE Lines!ReadPrefix
  <2>1. v8 /\ v6' = <<v6[1], v4>> /\ v5' = v4 + 1 /\ UNCHANGED <<v4, v8>>
    BY <1>4 DEF Lines!ReadPrefix
  <2>2. v6' \in Parts /\ v6'[1] = v6[1]
    BY <1>0, <2>1 DEF Parts
  <2>3. LineTypes' /\ HeldInv'
    BY <1>0, <1>1, <2>1, <2>2 DEF LineInv, LineTypes, HeldInv
  <2>4. LockstepInv'
    BY <1>0, <1>1, <2>1, <2>2 DEF LineInv, LockstepInv
  <2> QED
    BY <1>0, <1>1, <2>1, <2>2, <2>3, <2>4, LinesStay
<1> QED
  BY <1>2, <1>3, <1>4

\* What is returned ends a line or the stream; in lockstep it is all there is.
LEMMA ReturnKeeps ==
  ASSUME LineInv, NEW p \in Nat, v8, v5 - 1 <= p, p <= v4, p \in Ends \/ (v3 /\ p = v2),
         v1 => p = v4, Lines!Return(p)
  PROVE  LineInv'
<1>0. /\ v1 \in BOOLEAN /\ v2 \in Nat /\ v3 \in BOOLEAN /\ v4 \in Nat /\ v5 \in Nat
      /\ v6[1] \in Nat /\ v8 \in BOOLEAN /\ Len(v7) \in Nat /\ LastReturned \in Nat
      /\ v4 <= v2 /\ v6[1] <= v5 /\ v5 - 1 <= v4
      /\ (LastReturned < v6[1] \/ Len(v7) = 0)
  BY LineNumbers
<1>1. /\ v6' = <<v6[1], p>> /\ v5' = p + 1 /\ v7' = Append(v7, v6') /\ v8' = FALSE
      /\ UNCHANGED <<v1, v2, v3, v4>>
  BY DEF Lines!Return
<1>2. v6' \in Parts /\ v6'[1] = v6[1] /\ v6'[2] = p
  BY <1>0, <1>1 DEF Parts
<1>3. /\ v7' \in Seq(Parts) /\ Len(v7') = Len(v7) + 1 /\ v7'[Len(v7) + 1] = v6'
      /\ \A k \in 1..Len(v7) : v7'[k] = v7[k]
  <2>1. v7 \in Seq(Parts)
    BY DEF LineInv, LineTypes
  <2> QED
    BY <1>1, <1>2, <2>1, AppendProperties
<1>4. LineTypes' /\ HeldInv'
  <2>1. LineTypes'
    <3>1. v5' \in Nat /\ v8' \in BOOLEAN /\ v1' \in BOOLEAN /\ v2' \in Nat /\ v3' \in BOOLEAN
      <4>1. v5' = p + 1 /\ v8' = FALSE /\ v1' = v1 /\ v2' = v2 /\ v3' = v3
        BY <1>1
      <4>2. v8' \in BOOLEAN
        BY <4>1
      <4>3. v5' \in Nat
        BY <4>1
      <4> QED
        BY <1>0, <4>1, <4>2, <4>3
    <3>2. v4' \in Nat /\ v6' \in Parts /\ v7' \in Seq(Parts)
      BY <1>0, <1>1, <1>2, <1>3
    <3> QED
      BY <3>1, <3>2 DEF LineTypes
  <2>2. HeldInv'
    BY <1>0, <1>1, <1>2 DEF HeldInv
  <2> QED
    BY <2>1, <2>2
<1>5. LastReturned' = p
  BY <1>0, <1>2, <1>3 DEF LastReturned
<1>6. v1 => v6[1] = LastReturned + 1
  BY DEF LineInv, LockstepInv
<1>7. LockstepInv'
  <2>1. \A q \in Ends : q \in Nat
    BY DataDemosAssumption
  <2>2. ASSUME v1, NEW q \in Ends PROVE q <= p \/ q >= v2
    <3>1. q <= LastReturned \/ q >= v2
      BY <2>2 DEF LineInv, LockstepInv
    <3> QED
      BY <1>0, <1>6, <2>1, <2>2, <3>1
  <2> QED
    BY <1>0, <1>1, <1>5, <2>2 DEF LockstepInv
<1>8. ASSUME NEW k \in 1..Len(v7') PROVE LineReturned(k)'
  <2>1. CASE k <= Len(v7)
    <3>1. LineReturned(k) /\ v7'[k] = v7[k] /\ (k # 1 => v7'[k - 1] = v7[k - 1])
      BY <1>0, <1>3, <2>1 DEF LineInv
    <3> QED
      BY <1>1, <3>1 DEF LineReturned
  <2>2. CASE k = Len(v7) + 1
    <3>1. v7'[k][1] = v6[1] /\ v7'[k][2] = p
      BY <1>2, <1>3, <2>2
    <3>2. ASSUME v1 PROVE v7'[k][1] = IF k = 1 THEN 1 ELSE v7'[k - 1][2] + 1
      <4>1. CASE k = 1
        BY <1>0, <1>6, <2>2, <3>1, <3>2, <4>1 DEF LastReturned
      <4>2. CASE k # 1
        <5>1. v7'[k - 1][2] = LastReturned
          BY <1>0, <1>3, <2>2, <4>2 DEF LastReturned
        <5> QED
          BY <1>6, <3>1, <3>2, <4>2, <5>1
      <4> QED
        BY <4>1, <4>2
    <3> QED
      BY <1>0, <1>1, <3>1, <3>2 DEF LineReturned
  <2> QED
    BY <1>0, <1>3, <2>1, <2>2
<1>9. ASSUME NEW k \in 1..Len(v7'), NEW l \in 1..Len(v7') PROVE Ordered(k, l)'
  <2>1. CASE k <= Len(v7) /\ l <= Len(v7)
    <3>1. Ordered(k, l) /\ v7'[k] = v7[k] /\ v7'[l] = v7[l]
      BY <1>0, <1>3, <2>1 DEF LineInv
    <3> QED
      BY <3>1 DEF Ordered
  <2>2. CASE k <= Len(v7) /\ l = Len(v7) + 1
    <3>1. LineReturned(k) /\ v7'[k] = v7[k] /\ v7'[l][1] = v6[1]
      BY <1>0, <1>2, <1>3, <2>2 DEF LineInv
    <3> QED
      BY <3>1 DEF Ordered, LineReturned
  <2>3. CASE k = Len(v7) + 1
    BY <1>0, <1>3, <2>3 DEF Ordered
  <2> QED
    BY <1>0, <1>3, <2>1, <2>2, <2>3
<1> QED
  BY <1>4, <1>7, <1>8, <1>9 DEF LineInv

LEMMA LineEnds ==
  ASSUME LineInv, Lines!ReadLine \/ Lines!ReadEnd
  PROVE  LineInv'
<1>0. /\ v2 \in Nat /\ v4 \in Nat /\ v5 \in Nat /\ LastReturned \in Nat
      /\ v6[1] \in Nat /\ v4 <= v2 /\ v6[1] <= v5 /\ v5 - 1 <= v4 /\ v8
  BY LineNumbers DEF Lines!ReadLine, Lines!ReadEnd
<1>1. CASE Lines!ReadLine
  <2> DEFINE p == Lines!FirstEnd
  <2>1. Lines!Lines # {} /\ Lines!Lines \subseteq Nat
    <3>1. \A q \in Ends : q \in Nat
      BY DataDemosAssumption
    <3> QED
      BY <1>1, <3>1 DEF Lines!ReadLine, Lines!Lines
  <2>2. p \in Lines!Lines
    BY <2>1, NatMinimum DEF Lines!FirstEnd
  <2>3. Lines!Return(p)
    BY <1>1 DEF Lines!ReadLine
  <2> HIDE DEF p
  <2>4. p \in Ends /\ p \in Nat /\ v5 <= p /\ p <= v4
    BY <1>0, <2>1, <2>2 DEF Lines!Lines, Lines!Held
  <2>5. ASSUME v1 PROVE p = v4
    <3>1. (p <= LastReturned \/ p >= v2) /\ v6[1] = LastReturned + 1
      BY <1>0, <2>4, <2>5 DEF LineInv, LockstepInv
    <3> QED
      BY <1>0, <2>4, <3>1
  <2> QED
    BY <1>0, <2>3, <2>4, <2>5, ReturnKeeps
<1>2. CASE Lines!ReadEnd
  <2>1. v3 /\ v4 = v2 /\ Lines!Return(v4)
    BY <1>2 DEF Lines!ReadEnd
  <2> QED
    BY <1>0, <2>1, ReturnKeeps
<1> QED
  BY <1>1, <1>2

LEMMA LinesKept == LinesInv /\ [Next]_vars => LinesInv'
<1> SUFFICES ASSUME LinesInv, [Next]_vars, running' = "LineReader" PROVE LineInv'
  BY DEF LinesInv
<1>1. ASSUME UNCHANGED <<v1, v2, v3, v4, v5, v6, v7, v8>>, LineInv PROVE LineInv'
  <2>1. LineTypes' /\ HeldInv' /\ LockstepInv'
    BY <1>1 DEF LineInv, LineTypes, HeldInv, LockstepInv, LastReturned
  <2>2. v4 \in Nat
    BY <1>1, LineNumbers
  <2> QED
    BY <1>1, <2>1, <2>2, LinesStay
<1>2. CASE UNCHANGED vars
  BY <1>1, <1>2 DEF vars, LinesInv
<1>3. CASE Of("LineReader", Lines!Next, <<>>)
  <2>1. LineInv /\ Lines!Next
    BY <1>3 DEF Of, LinesInv
  <2> QED
    BY <1>1, <2>1, PeerKeeps, ReaderKeeps, LineEnds
    DEF Lines!Next, Lines!Goes, Lines!Terminated, Lines!vars
<1> QED
  BY <1>2, <1>3 DEF Next, Of

LEMMA LinesInvariant == Spec => []LinesInv
<1>1. Init => LinesInv
  BY LinesStart
<1>2. LinesInv /\ [Next]_vars => LinesInv'
  BY LinesKept
<1> QED
  BY <1>1, <1>2, PTL DEF Spec

-----------------------------------------------------------------------------
(* What is lost of the lines: the rest of what a reader held.                *)

\* While a call is reading, its reader holds at most Size bytes and has passed no
\* end of a line; between two calls, less than Size bytes lie behind what was
\* returned.
BufferInv ==
  /\ v8 => /\ v4 < v5 + Size
           /\ \A p \in Ends : p >= v6[1] => p >= v5
           /\ v6[1] - LastReturned <= Size
           /\ Len(v7) = 0 => v6[1] = 1
  /\ ~v8 => /\ v4 - LastReturned < Size
            /\ Len(v7) = 0 => v4 = 0

TailReturned(k) ==
  /\ \A p \in Ends : p < v7[k][1] \/ p >= v7[k][2]
  /\ IF k = 1 THEN v7[k][1] = 1 ELSE v7[k][1] - v7[k - 1][2] <= Size

TailInv == BufferInv /\ \A k \in 1..Len(v7) : TailReturned(k)

TailsInv == running = "LineReader" => TailInv

LEMMA TailsStart == Init => TailsInv
<1> SUFFICES ASSUME Init, running = "LineReader" PROVE TailInv
  BY DEF TailsInv
<1>1. v4 = 0 /\ v7 = <<>> /\ v8 = FALSE
  BY DEF Init, Lines!Init
<1>2. Len(v7) = 0 /\ LastReturned = 0
  BY <1>1, EmptySeq DEF LastReturned
<1> QED
  BY <1>1, <1>2, DataDemosAssumption DEF TailInv, BufferInv

\* Steps that return nothing.
LEMMA TailsStay ==
  ASSUME LineInv, TailInv, LineInv', Lines!Send \/ Lines!Close \/ Lines!Call \/ Lines!Fill \/ Lines!ReadPrefix
  PROVE  TailInv'
<1>0. /\ v4 \in Nat /\ v5 \in Nat /\ v6[1] \in Nat /\ Len(v7) \in Nat /\ LastReturned \in Nat
      /\ v8 \in BOOLEAN /\ v4' \in Nat /\ v6[1] <= v5 /\ v5 - 1 <= v4 /\ Size \in Nat \ {0}
      /\ \A p \in Ends : p \in Nat
  BY LineNumbers, DataDemosAssumption DEF LineInv, LineTypes
<1>1. v7' = v7 /\ LastReturned' = LastReturned
  BY DEF Lines!Send, Lines!Close, Lines!Call, Lines!Fill, Lines!ReadPrefix, LastReturned
<1>2. \A k \in 1..Len(v7) : TailReturned(k)'
  BY <1>1 DEF TailInv, TailReturned
<1>3. ASSUME BufferInv' PROVE TailInv'
  BY <1>1, <1>2, <1>3 DEF TailInv
<1>4. CASE Lines!Send \/ Lines!Close
  <2>1. UNCHANGED <<v4, v5, v6, v8>>
    BY <1>4 DEF Lines!Send, Lines!Close
  <2> QED
    BY <1>1, <1>3, <2>1 DEF TailInv, BufferInv
<1>5. CASE Lines!Call
  <2>1. ~v8 /\ v8' = TRUE /\ v4' = v4 /\ v5' = v4 + 1 /\ v6'[1] = v4 + 1
    BY <1>5 DEF Lines!Call
  <2>2. v4 - LastReturned < Size /\ (Len(v7) = 0 => v4 = 0)
    BY <2>1 DEF TailInv, BufferInv
  <2>3. BufferInv'
    BY <1>0, <1>1, <2>1, <2>2 DEF BufferInv
  <2> QED
    BY <1>3, <2>3
<1>6. CASE Lines!Fill
  <2>1. v8 /\ UNCHANGED <<v5, v6, v8>> /\ v4' < v5 + Size
    BY <1>6 DEF Lines!Fill
  <2>2. BufferInv'
    BY <1>1, <2>1 DEF TailInv, BufferInv
  <2> QED
    BY <1>3, <2>2
<1>7. CASE Lines!ReadPrefix
  <2>1. v8 /\ v8' = v8 /\ v4' = v4 /\ v5' = v4 + 1 /\ v6'[1] = v6[1] /\ Lines!Lines = {}
    BY <1>7 DEF Lines!ReadPrefix
  <2>2. ASSUME NEW p \in Ends, p >= v6[1] PROVE p >= v4 + 1
    <3>1. p >= v5 /\ p \notin v5..v4
      BY <2>1, <2>2 DEF TailInv, BufferInv, Lines!Lines, Lines!Held
    <3> QED
      BY <1>0, <3>1
  <2>3. BufferInv'
    BY <1>0, <1>1, <2>1, <2>2 DEF TailInv, BufferInv
  <2> QED
    BY <1>3, <2>3
<1> QED
  BY <1>4, <1>5, <1>6, <1>7

\* A call returns up to the first end of a line that it holds, or all it holds.
LEMMA TailReturns ==
  ASSUME LineInv, TailInv, NEW p \in Nat, v8, p <= v4, p >= v5 \/ p = v4,
         \A q \in Ends : q >= v5 => q >= p, Lines!Return(p)
  PROVE  TailInv'
<1>0. /\ v4 \in Nat /\ v5 \in Nat /\ v6[1] \in Nat /\ Len(v7) \in Nat /\ LastReturned \in Nat
      /\ Size \in Nat \ {0} /\ \A q \in Ends : q \in Nat
  BY LineNumbers, DataDemosAssumption
<1>1. v6' = <<v6[1], p>> /\ v7' = Append(v7, v6') /\ v8' = FALSE /\ v4' = v4
  BY DEF Lines!Return
<1>2. v6' \in Parts /\ v6'[1] = v6[1] /\ v6'[2] = p
  BY <1>0, <1>1 DEF Parts
<1>3. /\ Len(v7') = Len(v7) + 1 /\ v7'[Len(v7) + 1] = v6'
      /\ \A k \in 1..Len(v7) : v7'[k] = v7[k]
  <2>1. v7 \in Seq(Parts)
    BY DEF LineInv, LineTypes
  <2> QED
    BY <1>1, <1>2, <2>1, AppendProperties
<1>4. LastReturned' = p
  BY <1>0, <1>2, <1>3 DEF LastReturned
<1>5. /\ v4 < v5 + Size /\ v6[1] - LastReturned <= Size /\ (Len(v7) = 0 => v6[1] = 1)
      /\ \A q \in Ends : q >= v6[1] => q >= v5
  BY DEF TailInv, BufferInv
<1>6. BufferInv'
  <2>1. v4 - p < Size
    BY <1>0, <1>5
  <2>2. v4' - LastReturned' < Size
    BY <1>1, <1>4, <2>1
  <2>3. Len(v7') # 0
    BY <1>0, <1>3
  <2>4. ~v8'
    BY <1>1
  <2> QED
    BY <2>2, <2>3, <2>4 DEF BufferInv
<1>7. ASSUME NEW k \in 1..Len(v7') PROVE TailReturned(k)'
  <2>1. CASE k <= Len(v7)
    <3>1. TailReturned(k) /\ v7'[k] = v7[k] /\ (k # 1 => v7'[k - 1] = v7[k - 1])
      BY <1>0, <1>3, <2>1 DEF TailInv
    <3> QED
      BY <3>1 DEF TailReturned
  <2>2. CASE k = Len(v7) + 1
    <3>1. v7'[k][1] = v6[1] /\ v7'[k][2] = p
      BY <1>2, <1>3, <2>2
    <3>2. \A q \in Ends : q < v6[1] \/ q >= p
      BY <1>0, <1>5
    <3>3. CASE k = 1
      BY <1>0, <1>5, <2>2, <3>1, <3>2, <3>3 DEF TailReturned
    <3>4. CASE k # 1
      <4>1. v7'[k - 1][2] = LastReturned
        BY <1>0, <1>3, <2>2, <3>4 DEF LastReturned
      <4> QED
        BY <1>5, <3>1, <3>2, <3>4, <4>1 DEF TailReturned
    <3> QED
      BY <3>3, <3>4
  <2> QED
    BY <1>0, <1>3, <2>1, <2>2
<1> QED
  BY <1>6, <1>7 DEF TailInv

LEMMA TailEnds ==
  ASSUME LineInv, TailInv, Lines!ReadLine \/ Lines!ReadEnd
  PROVE  TailInv'
<1>0. v4 \in Nat /\ v5 \in Nat /\ v8 /\ \A q \in Ends : q \in Nat
  BY LineNumbers, DataDemosAssumption DEF Lines!ReadLine, Lines!ReadEnd
<1>1. CASE Lines!ReadLine
  <2> DEFINE p == Lines!FirstEnd
  <2>1. Lines!Lines # {} /\ Lines!Lines \subseteq Nat
    BY <1>0, <1>1 DEF Lines!ReadLine, Lines!Lines
  <2>2. p \in Lines!Lines /\ \A q \in Lines!Lines : p <= q
    BY <2>1, NatMinimum DEF Lines!FirstEnd
  <2>3. Lines!Return(p)
    BY <1>1 DEF Lines!ReadLine
  <2> HIDE DEF p
  <2>4. p \in Nat /\ v5 <= p /\ p <= v4
    BY <1>0, <2>1, <2>2 DEF Lines!Lines, Lines!Held
  <2>5. \A q \in Ends : q >= v5 => q >= p
    BY <1>0, <2>2, <2>4 DEF Lines!Lines, Lines!Held
  <2> QED
    BY <1>0, <2>3, <2>4, <2>5, TailReturns
<1>2. CASE Lines!ReadEnd
  <2>1. Lines!Lines = {} /\ Lines!Return(v4)
    BY <1>2 DEF Lines!ReadEnd
  <2>2. \A q \in Ends : q >= v5 => q >= v4
    BY <1>0, <2>1 DEF Lines!Lines, Lines!Held
  <2> QED
    BY <1>0, <2>1, <2>2, TailReturns
<1> QED
  BY <1>1, <1>2

LEMMA TailsKept == LinesInv /\ LinesInv' /\ TailsInv /\ [Next]_vars => TailsInv'
<1> SUFFICES ASSUME LinesInv, LinesInv', TailsInv, [Next]_vars, running' = "LineReader"
             PROVE  TailInv'
  BY DEF TailsInv
<1>1. ASSUME UNCHANGED <<v4, v5, v6, v7, v8>>, TailInv PROVE TailInv'
  BY <1>1 DEF TailInv, BufferInv, TailReturned, LastReturned
<1>2. CASE UNCHANGED vars
  BY <1>1, <1>2 DEF vars, TailsInv
<1>3. CASE Of("LineReader", Lines!Next, <<>>)
  <2>1. LineInv /\ LineInv' /\ TailInv /\ Lines!Next
    BY <1>3 DEF Of, LinesInv, TailsInv
  <2> QED
    BY <1>1, <2>1, TailsStay, TailEnds DEF Lines!Next, Lines!Goes, Lines!Terminated, Lines!vars
<1> QED
  BY <1>2, <1>3 DEF Next, Of

LEMMA TailsInvariant == Spec => []TailsInv
<1>1. Init => TailsInv
  BY TailsStart
<1>2. LinesInv /\ LinesInv' /\ TailsInv /\ [Next]_vars => TailsInv'
  BY TailsKept
<1> QED
  BY <1>1, <1>2, LinesInvariant, PTL DEF Spec

LEMMA LinesGood ==
  ASSUME LineInv, TailInv
  PROVE  Lines!LineOrTail /\ Lines!InOrder /\ Lines!LockstepKeepsAll
<1>1. Len(v7) \in Nat
  BY LineNumbers
<1>2. Lines!LineOrTail /\ Lines!LockstepKeepsAll
  BY DEF LineInv, LineReturned, TailInv, TailReturned, Lines!LineOrTail, Lines!LockstepKeepsAll
<1>3. Lines!InOrder
  BY <1>1 DEF LineInv, Ordered, TailInv, TailReturned, Lines!InOrder
<1> QED
  BY <1>2, <1>3

-----------------------------------------------------------------------------
(* The frames: v1 is closed, v2 is frame, v3 is n, v4 is filled, v5 is       *)
(* allocate_sn_data, v6 is reports and v7 is pc.                             *)

FrameBytes == Nat \X Nat
Shown == Seq(FrameBytes)

FrameTypes ==
  /\ v1 \in BOOLEAN /\ v2 \in Nat /\ v3 \in 0..255 /\ v4 \in 0..v3
  /\ v6 \in Seq(Shown) /\ v7 \in {"length", "data"}

Places == 1..1024
DataInv == v5 \in [Places -> FrameBytes]

\* What io.ReadFull has read of the frame is in its place.
FilledInv == \A p \in 1..v4 : v5[p] = <<v2, p>>

\* A frame is shown for every length byte, and empty ones once there are no more.
ShownInv ==
  /\ v7 = "length" => Len(v6) >= v2 /\ (~v1 => Len(v6) = v2)
  /\ v7 = "data" => /\ Len(v6) + 1 >= v2 /\ (~v1 => Len(v6) + 1 = v2)
                    /\ Len(v6) >= v2 => v1 /\ v3 = 0

FrameShown(k) ==
  /\ ~v1 \/ k < v2 => Frames!Whole(k)
  /\ k > v2 => v1 /\ v6[k] = <<>>

FrameInv == FrameTypes /\ DataInv /\ FilledInv /\ ShownInv /\ \A k \in 1..Len(v6) : FrameShown(k)

FramesInv == running = "FrameReader" => FrameInv

LEMMA FramesStart == Init => FramesInv
<1> SUFFICES ASSUME Init, running = "FrameReader" PROVE FrameInv
  BY DEF FramesInv
<1>1. Frames!Init
  BY DEF Init
<1>0. v1 = FALSE /\ v2 = 0 /\ v3 = 0 /\ v4 = 0 /\ v6 = <<>> /\ v7 = "length"
  BY <1>1 DEF Frames!Init
<1>2. FrameTypes
  <2>1. v6 \in Seq(Shown)
    BY <1>0, EmptySeq
  <2>2. v3 \in 0..255 /\ v4 \in 0..v3
    BY <1>0
  <2> QED
    BY <1>0, <2>1, <2>2 DEF FrameTypes
<1>3. DataInv
  <2>1. <<0, 0>> \in FrameBytes
    BY DEF FrameBytes
  <2> QED
    BY <1>1, <2>1 DEF Frames!Init, DataInv, Places
<1> QED
  BY <1>0, <1>2, <1>3 DEF FrameInv, FilledInv, ShownInv

\* Nothing that has been shown changes.
LEMMA FramesStay ==
  ASSUME FrameInv, v6' = v6, v2' >= v2, v2' \in Nat, v1' \in BOOLEAN, v1 => v1' /\ v2' = v2,
         v2' > v2 => Len(v6) <= v2
  PROVE  \A k \in 1..Len(v6') : FrameShown(k)'
<1> SUFFICES ASSUME NEW k \in 1..Len(v6) PROVE FrameShown(k)'
  OBVIOUS
<1>1. FrameShown(k) /\ v1 \in BOOLEAN /\ v2 \in Nat /\ Len(v6) \in Nat
  BY DEF FrameInv, FrameTypes
<1>2. Frames!Whole(k) => Frames!Whole(k)'
  BY DEF Frames!Whole
<1>3. CASE v1
  BY <1>1, <1>2, <1>3 DEF FrameShown
<1>4. CASE ~v1
  <2>1. Frames!Whole(k)' /\ k <= v2
    BY <1>1, <1>2, <1>4 DEF FrameShown
  <2> QED
    BY <1>1, <2>1 DEF FrameShown
<1> QED
  BY <1>1, <1>3, <1>4

LEMMA FrameReads ==
  ASSUME FrameInv, Frames!Close \/ Frames!ReadByte \/ Frames!ReadByteFails
  PROVE  FrameInv'
<1> USE DEF FrameInv
<1>0. v2 \in Nat /\ v1 \in BOOLEAN /\ Len(v6) \in Nat
  BY DEF FrameTypes
<1>4. DataInv'
  <2>1. v5' = v5
    BY DEF Frames!Close, Frames!ReadByte, Frames!ReadByteFails
  <2> HIDE DEF FrameInv
  <2>2. DataInv
    BY DEF FrameInv
  <2> QED
    BY <2>1, <2>2 DEF DataInv
<1>1. CASE Frames!Close
  <2>1. FrameTypes' /\ FilledInv' /\ ShownInv'
    BY <1>0, <1>1 DEF Frames!Close, FrameTypes, FilledInv, ShownInv
  <2> QED
    BY <1>4, <1>0, <1>1, <2>1, FramesStay DEF Frames!Close
<1>2. CASE Frames!ReadByte
  <2>1. v3' \in 0..255
    BY <1>2, DataDemosAssumption DEF Frames!ReadByte
  <2>2. FrameTypes' /\ FilledInv' /\ ShownInv'
    BY <1>0, <1>2, <2>1 DEF Frames!ReadByte, FrameTypes, FilledInv, ShownInv
  <2> QED
    BY <1>4, <1>0, <1>2, <2>2, FramesStay DEF Frames!ReadByte, ShownInv
<1>3. CASE Frames!ReadByteFails
  <2>1. FrameTypes' /\ FilledInv' /\ ShownInv'
    BY <1>0, <1>3 DEF Frames!ReadByteFails, FrameTypes, FilledInv, ShownInv
  <2> QED
    BY <1>4, <1>0, <1>3, <2>1, FramesStay DEF Frames!ReadByteFails
<1> QED
  BY <1>1, <1>2, <1>3

LEMMA Written ==
  ASSUME NEW S, NEW P, NEW d \in [P -> S], NEW n \in P, NEW b \in S
  PROVE  LET e == [d EXCEPT ![n] = b] IN
         e \in [P -> S] /\ e[n] = b /\ \A p \in P : p # n => e[p] = d[p]
OBVIOUS

LEMMA FrameFills ==
  ASSUME FrameInv, Frames!ReadFull
  PROVE  FrameInv'
<1> USE DEF FrameInv
<1>0. v2 \in Nat /\ v3 \in 0..255 /\ v4 \in 0..v3 /\ v4 < v3
  BY DEF FrameTypes, Frames!ReadFull
<1>7. v5 \in [Places -> FrameBytes]
  BY DEF DataInv
<1>1. /\ v4' = v4 + 1 /\ v5' = [v5 EXCEPT ![v4 + 1] = <<v2, v4 + 1>>]
      /\ UNCHANGED <<v1, v2, v3, v6, v7>>
  BY DEF Frames!ReadFull
<1>8. /\ v5' \in [Places -> FrameBytes] /\ v5'[v4 + 1] = <<v2, v4 + 1>>
      /\ \A p \in Places : p # v4 + 1 => v5'[p] = v5[p]
  <2>1. <<v2, v4 + 1>> \in FrameBytes
    BY <1>0 DEF FrameBytes
  <2>2. v4 + 1 \in Places
    BY <1>0 DEF Places
  <2>3. v5' = [v5 EXCEPT ![v4 + 1] = <<v2, v4 + 1>>]
    BY <1>1
  <2> HIDE DEF FrameInv
  <2> QED
    BY <1>7, <2>1, <2>2, <2>3, Written
<1>2. DataInv'
  BY <1>8 DEF DataInv
<1>3. FrameTypes'
  BY <1>0, <1>1 DEF FrameTypes
<1>4. FilledInv'
  <2> SUFFICES ASSUME NEW p \in 1..(v4 + 1) PROVE v5'[p] = <<v2, p>>
    BY <1>1 DEF FilledInv
  <2>1. CASE p = v4 + 1
    BY <1>8, <2>1
  <2>2. CASE p # v4 + 1
    <3>1. p \in 1..v4 /\ p \in Places
      BY <1>0, <2>2 DEF Places
    <3>2. v5'[p] = v5[p]
      BY <1>8, <2>2, <3>1
    <3> QED
      BY <3>1, <3>2 DEF FilledInv
  <2> QED
    BY <2>1, <2>2
<1>5. ShownInv'
  BY <1>1 DEF ShownInv
<1>6. v1 \in BOOLEAN
  BY DEF FrameTypes
<1> QED
  BY <1>0, <1>1, <1>2, <1>3, <1>4, <1>5, <1>6, FramesStay

LEMMA FrameReports ==
  ASSUME FrameInv, Frames!Report
  PROVE  FrameInv'
<1> USE DEF FrameInv
<1> DEFINE slice == SubSeq(v5, 1, v3)
<1>0. /\ v1 \in BOOLEAN /\ v2 \in Nat /\ v3 \in 0..255 /\ v4 \in 0..v3
      /\ v6 \in Seq(Shown) /\ Len(v6) \in Nat
      /\ v7 = "data" /\ (v4 = v3 \/ v1)
  BY DEF FrameTypes, Frames!Report
<1>1. v6' = Append(v6, slice) /\ v7' = "length" /\ UNCHANGED <<v1, v2, v3, v4, v5>>
  BY DEF Frames!Report
<1>2. slice \in Shown /\ Len(slice) = v3 /\ \A p \in 1..v3 : slice[p] = v5[p]
  <2>1. \A p \in 1..v3 : v5[p] \in FrameBytes
    <3>1. v3 \in 0..255 /\ v5 \in [Places -> FrameBytes]
      BY <1>0 DEF DataInv
    <3> HIDE DEF FrameInv
    <3> QED
      BY <3>1 DEF Places
  <2>2. /\ SubSeq(v5, 1, v3) \in Seq(FrameBytes)
        /\ Len(SubSeq(v5, 1, v3)) = IF 1 <= v3 THEN v3 - 1 + 1 ELSE 0
        /\ \A p \in 1..(v3 - 1 + 1) : SubSeq(v5, 1, v3)[p] = v5[1 + p - 1]
    BY <1>0, <2>1, SubSeqProperties
  <2> QED
    BY <1>0, <2>2 DEF Shown
<1> HIDE DEF slice
<1>3. /\ v6' \in Seq(Shown) /\ Len(v6') = Len(v6) + 1 /\ v6'[Len(v6) + 1] = slice
      /\ \A k \in 1..Len(v6) : v6'[k] = v6[k]
  BY <1>0, <1>1, <1>2, AppendProperties
<1>4. FrameTypes' /\ DataInv'
  BY <1>1, <1>3 DEF FrameTypes, DataInv
<1>5. FilledInv' /\ ShownInv'
  BY <1>0, <1>1, <1>3 DEF FilledInv, ShownInv
<1>6. ASSUME NEW k \in 1..Len(v6') PROVE FrameShown(k)'
  <2>1. CASE k <= Len(v6)
    <3>1. FrameShown(k) /\ v6'[k] = v6[k]
      BY <1>0, <1>3, <2>1
    <3>2. Frames!Whole(k) => Frames!Whole(k)'
      BY <3>1 DEF Frames!Whole
    <3> QED
      BY <1>1, <3>1, <3>2 DEF FrameShown
  <2>2. CASE k = Len(v6) + 1 /\ Len(v6) >= v2
    <3>1. v1 /\ v3 = 0
      BY <1>0, <2>2 DEF ShownInv
    <3>2. slice = <<>>
      BY <1>2, <3>1
    <3> QED
      BY <1>0, <1>1, <1>3, <2>2, <3>1, <3>2 DEF FrameShown
  <2>3. CASE k = Len(v6) + 1 /\ Len(v6) < v2
    <3>1. k = v2
      BY <1>0, <2>3 DEF ShownInv
    <3>2. ASSUME ~v1 PROVE Frames!Whole(k)'
      <4>1. v4 = v3
        BY <1>0, <3>2
      <4>2. \A p \in 1..v3 : slice[p] = <<k, p>>
        BY <1>2, <3>1, <4>1 DEF FilledInv
      <4>3. v6'[k] = slice
        BY <1>3, <2>3
      <4> QED
        BY <1>2, <4>2, <4>3 DEF Frames!Whole
    <3> QED
      BY <1>0, <1>1, <3>1, <3>2 DEF FrameShown
  <2> QED
    BY <1>0, <1>3, <2>1, <2>2, <2>3
<1> QED
  BY <1>4, <1>5, <1>6

LEMMA FramesKept == FramesInv /\ [Next]_vars => FramesInv'
<1> SUFFICES ASSUME FramesInv, [Next]_vars, running' = "FrameReader" PROVE FrameInv'
  BY DEF FramesInv
<1>1. ASSUME UNCHANGED <<v1, v2, v3, v4, v5, v6, v7>>, FrameInv PROVE FrameInv'
  <2>1. FrameTypes' /\ FilledInv' /\ ShownInv'
    BY <1>1 DEF FrameInv, FrameTypes, FilledInv, ShownInv
  <2>3. DataInv'
    BY <1>1 DEF FrameInv, DataInv
  <2>2. v1 \in BOOLEAN /\ v2 \in Nat
    BY <1>1 DEF FrameInv, FrameTypes
  <2> QED
    BY <1>1, <2>1, <2>2, <2>3, FramesStay DEF FrameInv
<1>2. CASE UNCHANGED vars
  BY <1>1, <1>2 DEF vars, FramesInv
<1>3. CASE Of("FrameReader", Frames!Next, <<v8>>)
  <2>1. FrameInv /\ Frames!Next
    BY <1>3 DEF Of, FramesInv
  <2> QED
    BY <1>1, <2>1, FrameReads, FrameFills, FrameReports
    DEF Frames!Next, Frames!Terminated, Frames!vars
<1> QED
  BY <1>2, <1>3 DEF Next, Of

LEMMA FramesInvariant == Spec => []FramesInv
<1>1. Init => FramesInv
  BY FramesStart
<1>2. FramesInv /\ [Next]_vars => FramesInv'
  BY FramesKept
<1> QED
  BY <1>1, <1>2, PTL DEF Spec

LEMMA FramesGood == FrameInv => Frames!FramesWhole /\ Frames!EndShowsNothing
BY DEF FrameInv, FrameShown, Frames!FramesWhole, Frames!EndShowsNothing

\* However many bytes are sent and wherever the peer closes or resets, Read
\* returns each time one line or the rest of one, in the order of the stream, and
\* loses less than a buffer of the reader in between; to a peer in lockstep it
\* returns every line whole (net/test_read.go:21-42). A frame is shown whole, but
\* for the one the connection ends in, although all share one buffer (1-19).
THEOREM ReadsLinesOrTails == Spec => []ReadsInOrder
<1>1. LinesInv /\ TailsInv /\ FramesInv => ReadsInOrder
  BY LinesGood, FramesGood DEF LinesInv, TailsInv, FramesInv, ReadsInOrder
<1> QED
  BY <1>1, LinesInvariant, TailsInvariant, FramesInvariant, PTL

-----------------------------------------------------------------------------
(* The cards: v1 is apNum, v2 is i, v3 is j, v4 is mac_i, v5 is devArray and *)
(* v6 is pc.                                                                 *)

\* The cards made in the present block; the last block is number ids.
Made == IF v6 = "block" THEN 0 ELSE v3 - 2

CardTypes ==
  /\ v1 \in ApNums /\ v1 \in Nat /\ v2 \in Nat /\ v3 \in 2..203 /\ v4 \in Nat
  /\ v6 \in {"block", "card", "done", "panic"}

CardLoopInv ==
  /\ v2 <= Cards!ids \/ (v2 = Cards!ids + 1 /\ Cards!remain > 0 /\ v6 \in {"block", "done"})
  /\ v6 \in {"card", "panic"} =>
       (v2 < Cards!ids \/ Cards!remain > 0) /\ v3 <= Cards!times + 2
  /\ v6 = "done" => v3 = 2 /\ (v2 > Cards!ids \/ (v2 = Cards!ids /\ Cards!remain = 0))

\* The MAC bytes run on: 201 for each block before.
MacInv ==
  v4 = 1 + (IF v2 > Cards!ids THEN 201 * Cards!ids + Cards!remain ELSE 201 * v2 + Made)

\* A card is at the index of its block and its last IP byte, and its MAC byte is
\* that of the iteration that made it.
Placed(n, a, b) ==
  /\ n = 200 * a + b - 1
  /\ v5[n] = Cards!Card(a, b, 201 * a + b - 1) /\ 201 * a + b - 1 < v4

PlaceInv == \A n \in DOMAIN v5 : \E a \in 0..7 : \E b \in 2..202 : Placed(n, a, b)

\* Every index up to that of the last card has a card.
FiledInv ==
  DOMAIN v5 = 1..(IF v2 > Cards!ids THEN v1
                  ELSE IF Made = 0 THEN IF v2 = 0 THEN 0 ELSE 200 * v2 + 1
                  ELSE 200 * v2 + Made)

CardInv == CardTypes /\ CardLoopInv /\ MacInv /\ v4 <= 256 /\ PlaceInv /\ FiledInv

CardsInv == running = "VirtualCards" => CardInv

LEMMA Blocks ==
  ASSUME v1 \in Nat
  PROVE  /\ Cards!ids \in Nat /\ Cards!remain \in 0..199
         /\ v1 = 200 * Cards!ids + Cards!remain
         /\ Cards!times \in 0..201
BY DEF Cards!ids, Cards!remain, Cards!times

LEMMA CardNumbers ==
  ASSUME CardInv
  PROVE  /\ v1 \in Nat /\ v2 \in Nat /\ v3 \in 2..203 /\ v4 \in Nat /\ v4 <= 256
         /\ Cards!ids \in Nat /\ Cards!remain \in 0..199 /\ Cards!times \in 0..201
         /\ v1 = 200 * Cards!ids + Cards!remain
         /\ Made \in 0..201
BY Blocks DEF CardInv, CardTypes, Made

LEMMA CardsStart == Init => CardsInv
<1> SUFFICES ASSUME Init, running = "VirtualCards" PROVE CardInv
  BY DEF CardsInv
<1>1. Cards!Init
  BY DEF Init
<1>2. v1 \in Nat
  BY <1>1, DataDemosAssumption DEF Cards!Init
<1>3. CardTypes
  BY <1>1, <1>2 DEF Cards!Init, CardTypes
<1>4. CardLoopInv /\ MacInv /\ v4 <= 256
  BY <1>1, <1>2, Blocks DEF Cards!Init, CardLoopInv, MacInv, Made
<1>5. PlaceInv /\ FiledInv
  BY <1>1, <1>2, Blocks DEF Cards!Init, PlaceInv, FiledInv, Made
<1> QED
  BY <1>3, <1>4, <1>5 DEF CardInv

LEMMA BlockKeeps ==
  ASSUME CardInv, Cards!Block
  PROVE  CardInv'
<1>0. /\ v1 \in Nat /\ v2 \in Nat /\ v3 \in 2..203 /\ v4 \in Nat /\ v4 <= 256
      /\ Cards!ids \in Nat /\ Cards!remain \in 0..199 /\ Cards!times \in 0..201
      /\ v1 = 200 * Cards!ids + Cards!remain
      /\ Made \in 0..201
  BY CardNumbers
<1> USE <1>0 DEF CardInv, CardTypes
<1>1. /\ v6 = "block" /\ v3' = 2 /\ UNCHANGED <<v1, v2, v4, v5>>
      /\ v6' = IF v2 > Cards!ids \/ (v2 = Cards!ids /\ Cards!remain = 0) THEN "done" ELSE "card"
      /\ Cards!ids' = Cards!ids /\ Cards!remain' = Cards!remain
  BY DEF Cards!Block, Cards!ids, Cards!remain
<1>2. Made = 0 /\ Made' = 0
  BY <1>1 DEF Made
<1>3. CardTypes' /\ v4' <= 256
  BY <1>1
<1>4. CardLoopInv'
  BY <1>1 DEF CardLoopInv, Cards!times
<1>5. MacInv'
  BY <1>1, <1>2 DEF MacInv
<1>6. PlaceInv'
  BY <1>1 DEF PlaceInv, Placed
<1>7. FiledInv'
  BY <1>1, <1>2 DEF FiledInv
<1> QED
  BY <1>3, <1>4, <1>5, <1>6, <1>7

LEMMA NextBlockKeeps ==
  ASSUME CardInv, Cards!NextBlock
  PROVE  CardInv'
<1>0. /\ v1 \in Nat /\ v2 \in Nat /\ v3 \in 2..203 /\ v4 \in Nat /\ v4 <= 256
      /\ Cards!ids \in Nat /\ Cards!remain \in 0..199 /\ Cards!times \in 0..201
      /\ v1 = 200 * Cards!ids + Cards!remain
      /\ Made \in 0..201
  BY CardNumbers
<1> USE <1>0 DEF CardInv, CardTypes
<1>1. /\ v6 = "card" /\ v3 > Cards!times + 1 /\ v2' = v2 + 1 /\ v6' = "block"
      /\ UNCHANGED <<v1, v3, v4, v5>>
      /\ Cards!ids' = Cards!ids /\ Cards!remain' = Cards!remain
  BY DEF Cards!NextBlock, Cards!ids, Cards!remain
<1>2. /\ v3 = Cards!times + 2 /\ Made = Cards!times /\ Made' = 0
      /\ v2 <= Cards!ids /\ (v2 = Cards!ids => Cards!remain > 0)
      /\ Cards!times = IF v2 # Cards!ids THEN 201 ELSE Cards!remain
  <2>1. v2 <= Cards!ids /\ (v2 < Cards!ids \/ Cards!remain > 0) /\ v3 <= Cards!times + 2
    BY <1>1 DEF CardLoopInv
  <2>2. Cards!times = IF v2 # Cards!ids THEN 201 ELSE Cards!remain
    BY DEF Cards!times
  <2>3. Made = v3 - 2 /\ Made' = 0
    BY <1>1 DEF Made
  <2>4. v3 \in Int /\ Cards!times \in Int /\ v2 \in Int /\ Cards!ids \in Int
    OBVIOUS
  <2>5. v3 = Cards!times + 2
    BY <1>1, <2>1, <2>4
  <2>6. v2 = Cards!ids => Cards!remain > 0
    BY <2>1, <2>4
  <2> QED
    BY <2>1, <2>2, <2>3, <2>4, <2>5, <2>6
<1>3. CardTypes' /\ v4' <= 256
  BY <1>1
<1>4. CardLoopInv'
  BY <1>1, <1>2 DEF CardLoopInv
<1>5. MacInv'
  <2>1. v4 = 1 + 201 * v2 + Made
    BY <1>2 DEF MacInv
  <2>2. CASE v2 = Cards!ids
    BY <1>1, <1>2, <2>1, <2>2 DEF MacInv
  <2>3. CASE v2 < Cards!ids
    BY <1>1, <1>2, <2>1, <2>3 DEF MacInv
  <2> QED
    BY <1>2, <2>2, <2>3
<1>6. PlaceInv'
  BY <1>1 DEF PlaceInv, Placed
<1>7. FiledInv'
  <2>1. DOMAIN v5 = 1..(IF Made = 0 THEN IF v2 = 0 THEN 0 ELSE 200 * v2 + 1 ELSE 200 * v2 + Made)
    BY <1>1, <1>2 DEF FiledInv
  <2>2. CASE v2 = Cards!ids
    <3>1. Made = Cards!remain /\ Made > 0 /\ v2' > Cards!ids'
      BY <1>1, <1>2, <2>2
    <3> QED
      BY <1>1, <2>1, <2>2, <3>1 DEF FiledInv
  <2>3. CASE v2 < Cards!ids
    <3>1. Made = 201 /\ ~(v2' > Cards!ids') /\ v2' # 0
      BY <1>1, <1>2, <2>3
    <3> QED
      BY <1>1, <1>2, <2>1, <2>3, <3>1 DEF FiledInv
  <2> QED
    BY <1>2, <2>2, <2>3
<1> QED
  BY <1>3, <1>4, <1>5, <1>6, <1>7

\* The card that is made now is at a new index, or at the seam of two blocks.
LEMMA AddKeeps ==
  ASSUME CardInv, Cards!Add
  PROVE  CardInv' /\ Cards!KeepsCards
<1>0. /\ v1 \in Nat /\ v2 \in Nat /\ v3 \in 2..203 /\ v4 \in Nat /\ v4 <= 256
      /\ Cards!ids \in Nat /\ Cards!remain \in 0..199 /\ Cards!times \in 0..201
      /\ v1 = 200 * Cards!ids + Cards!remain
      /\ Made \in 0..201
  BY CardNumbers
<1> USE <1>0 DEF CardInv, CardTypes
<1>1. /\ v6 = "card" /\ v3 <= Cards!times + 1 /\ UNCHANGED <<v1, v2>>
      /\ Cards!ids' = Cards!ids /\ Cards!remain' = Cards!remain /\ Cards!times' = Cards!times
  BY DEF Cards!Add, Cards!ids, Cards!remain, Cards!times
<1>2. /\ v2 <= Cards!ids /\ (v2 < Cards!ids \/ Cards!remain > 0)
      /\ Cards!times \in 0..201
  <2>1. v2 <= Cards!ids /\ (v2 < Cards!ids \/ Cards!remain > 0)
    BY <1>1 DEF CardLoopInv
  <2>2. Cards!times \in 0..201
    BY DEF Cards!times
  <2> QED
    BY <2>1, <2>2
<1>3. v4 = 201 * v2 + v3 - 1
  BY <1>1, <1>2 DEF MacInv, Made
<1>4. CASE v6' = "panic"
  <2>1. UNCHANGED <<v3, v4, v5>> /\ Made' = Made
    BY <1>1, <1>4 DEF Cards!Add, Made
  <2>2. CardTypes' /\ v4' <= 256 /\ MacInv' /\ FiledInv'
    BY <1>1, <1>4, <2>1 DEF MacInv, FiledInv
  <2>4. PlaceInv'
    BY <2>1 DEF PlaceInv, Placed
  <2>3. CardLoopInv'
    BY <1>1, <1>2, <1>4, <2>1 DEF CardLoopInv
  <2> QED
    BY <2>1, <2>2, <2>3, <2>4 DEF Cards!KeepsCards
<1>5. CASE v6' # "panic"
  <2> DEFINE at == 200 * v2 + v3 - 1
             new == Cards!Card(v2, v3, v4)
  <2>1. /\ v2 \in 0..7 /\ v4 \in 0..255 /\ v4' = v4 + 1 /\ v3' = v3 + 1 /\ v6' = "card"
        /\ v5' = [n \in DOMAIN v5 \cup {at} |-> IF n = at THEN new ELSE v5[n]]
    <3>1. v2 \in Cards!Prefixes /\ v4 \in Cards!MacBytes
      BY <1>5 DEF Cards!Add
    <3>2. v4' = v4 + 1 /\ v3' = v3 + 1 /\ v6' = "card"
      BY <1>1, <3>1 DEF Cards!Add
    <3>3. v5' = [n \in DOMAIN v5 \cup {at} |-> IF n = at THEN new ELSE v5[n]]
      BY <3>1 DEF Cards!Add, Cards!Index
    <3> QED
      BY <3>1, <3>2, <3>3 DEF Cards!Prefixes, Cards!MacBytes
  <2>2. v3 \in 2..202 /\ Made = v3 - 2 /\ Made' = v3 - 1
    BY <1>1, <1>2, <2>1 DEF Made
  <2>3. CardTypes' /\ v4' <= 256
    BY <1>1, <2>1, <2>2
  <2>4. CardLoopInv'
    BY <1>1, <1>2, <2>1 DEF CardLoopInv
  <2>5. MacInv'
    BY <1>1, <1>2, <1>3, <2>1, <2>2 DEF MacInv
  <2>6. at \in Nat
    BY <2>2
  <2>7. DOMAIN v5 = 1..(IF v3 = 2 THEN IF v2 = 0 THEN 0 ELSE 200 * v2 + 1 ELSE 200 * v2 + v3 - 2)
    BY <1>2, <2>2 DEF FiledInv
  <2> HIDE DEF at, new
  <2>8. FiledInv'
    <3>1. DOMAIN v5' = DOMAIN v5 \cup {at}
      BY <2>1
    <3>2. DOMAIN v5' = 1..(200 * v2 + v3 - 1)
      BY <2>2, <2>7, <3>1 DEF at
    <3>3. ~(v2' > Cards!ids') /\ Made' # 0
      BY <1>1, <1>2, <2>2
    <3> QED
      BY <1>1, <2>2, <3>2, <3>3 DEF FiledInv
  <2>9. PlaceInv'
    <3> SUFFICES ASSUME NEW n \in DOMAIN v5'
                 PROVE  \E a \in 0..7 : \E b \in 2..202 : Placed(n, a, b)'
      BY DEF PlaceInv
    <3>1. CASE n = at
      <4>1. v5'[n] = Cards!Card(v2, v3, 201 * v2 + v3 - 1)
        BY <1>3, <2>1, <3>1 DEF new
      <4>2. n = 200 * v2 + v3 - 1 /\ 201 * v2 + v3 - 1 < v4'
        BY <1>3, <2>1, <3>1 DEF at
      <4>3. ASSUME NEW a \in 0..7, NEW b \in 2..202, a = v2, b = v3 PROVE Placed(n, a, b)'
        BY <4>1, <4>2, <4>3 DEF Placed
      <4> QED
        BY <2>1, <2>2, <4>3
    <3>2. CASE n # at
      <4>1. n \in DOMAIN v5 /\ v5'[n] = v5[n]
        BY <2>1, <3>2
      <4>2. PICK a \in 0..7 : \E b \in 2..202 : Placed(n, a, b)
        BY <4>1 DEF PlaceInv
      <4>3. PICK b \in 2..202 : Placed(n, a, b)
        BY <4>2
      <4>4. Placed(n, a, b)'
        BY <2>1, <4>1, <4>3 DEF Placed
      <4> QED
        BY <4>4
    <3> QED
      BY <3>1, <3>2
  <2>10. Cards!KeepsCards
    <3> SUFFICES ASSUME NEW n \in DOMAIN v5, v5'[n] # v5[n]
                 PROVE  /\ n % 200 = 1 /\ v5[n].Ip = <<v2 - 1, 202>>
                        /\ v5'[n].Ip = <<v2, 2>>
      BY DEF Cards!KeepsCards
    <3>1. n = at /\ v5'[n] = new
      BY <2>1
    <3>2. v3 = 2 /\ n = 200 * v2 + 1
      BY <2>2, <2>7, <3>1 DEF at
    <3>3. PICK a \in 0..7 : \E b \in 2..202 : Placed(n, a, b)
      BY DEF PlaceInv
    <3>6. PICK b \in 2..202 : Placed(n, a, b)
      BY <3>3
    <3>4. a = v2 - 1 /\ b = 202
      BY <1>3, <3>2, <3>6 DEF Placed
    <3>5. n % 200 = 1
      BY <3>2
    <3> QED
      BY <3>1, <3>2, <3>6, <3>4, <3>5 DEF new, Cards!Card, Placed
  <2> QED
    BY <2>3, <2>4, <2>5, <2>8, <2>9, <2>10
<1> QED
  BY <1>4, <1>5

LEMMA CardsKept == CardsInv /\ [Next]_vars => CardsInv'
<1> SUFFICES ASSUME CardsInv, [Next]_vars, running' = "VirtualCards" PROVE CardInv'
  BY DEF CardsInv
<1>1. ASSUME UNCHANGED <<v1, v2, v3, v4, v5, v6>>, CardInv PROVE CardInv'
  <2>1. CardTypes' /\ CardLoopInv' /\ MacInv' /\ v4' <= 256 /\ FiledInv'
    BY <1>1 DEF CardInv, CardTypes, CardLoopInv, MacInv, FiledInv, Made, Cards!ids,
       Cards!remain, Cards!times
  <2>2. ASSUME NEW n \in DOMAIN v5, NEW a \in 0..7, NEW b \in 2..202, Placed(n, a, b)
        PROVE  Placed(n, a, b)'
    BY <1>1, <2>2 DEF Placed
  <2>3. PlaceInv'
    BY <1>1, <2>2 DEF CardInv, PlaceInv
  <2> QED
    BY <2>1, <2>3 DEF CardInv
<1>2. CASE UNCHANGED vars
  BY <1>1, <1>2 DEF vars, CardsInv
<1>3. CASE Of("VirtualCards", Cards!Next, <<v7, v8>>)
  <2>1. CardInv /\ Cards!Next
    BY <1>3 DEF Of, CardsInv
  <2> QED
    BY <1>1, <2>1, BlockKeeps, AddKeeps, NextBlockKeeps
    DEF Cards!Next, Cards!Terminated, Cards!vars
<1> QED
  BY <1>2, <1>3 DEF Next, Of

LEMMA CardsInvariant == Spec => []CardsInv
<1>1. Init => CardsInv
  BY CardsStart
<1>2. CardsInv /\ [Next]_vars => CardsInv'
  BY CardsKept
<1> QED
  BY <1>1, <1>2, PTL DEF Spec

LEMMA CardsApart == CardInv => Cards!DistinctAddresses /\ Cards!AllFiled
<1> SUFFICES ASSUME CardInv PROVE Cards!DistinctAddresses /\ Cards!AllFiled
  OBVIOUS
<1>1. ASSUME NEW l \in DOMAIN v5, NEW n \in DOMAIN v5, l # n
      PROVE  v5[l].Ip # v5[n].Ip /\ v5[l].Mac[2] # v5[n].Mac[2]
  <2>1. PICK a \in 0..7, b \in 2..202 : Placed(l, a, b)
    BY DEF CardInv, PlaceInv
  <2>2. PICK c \in 0..7, d \in 2..202 : Placed(n, c, d)
    BY DEF CardInv, PlaceInv
  <2>3. a # c \/ b # d
    BY <1>1, <2>1, <2>2 DEF Placed
  <2>4. 201 * a + b - 1 # 201 * c + d - 1
    BY <2>3
  <2>5. /\ v5[l].Ip = <<a, b>> /\ v5[l].Mac[2] = 201 * a + b - 1
        /\ v5[n].Ip = <<c, d>> /\ v5[n].Mac[2] = 201 * c + d - 1
    BY <2>1, <2>2 DEF Cards!Card, Placed
  <2> QED
    BY <2>3, <2>4, <2>5
<1>2. Cards!AllFiled
  <2> USE CardNumbers DEF CardInv, CardTypes
  <2>1. ASSUME v6 = "done"
        PROVE  DOMAIN v5 = 1..(IF Cards!remain = 0 /\ v1 > 0 THEN v1 + 1 ELSE v1)
    <3>1. v3 = 2 /\ (v2 > Cards!ids \/ (v2 = Cards!ids /\ Cards!remain = 0)) /\ Made = 0
      BY <2>1 DEF CardLoopInv, Made
    <3>2. CASE v2 > Cards!ids
      <4>1. Cards!remain > 0
        BY <3>2 DEF CardLoopInv
      <4> QED
        BY <3>2, <4>1 DEF FiledInv
    <3>3. CASE ~(v2 > Cards!ids)
      <4>1. Cards!remain = 0 /\ v2 = Cards!ids
        BY <3>1, <3>3
      <4> QED
        BY <3>1, <3>3, <4>1 DEF FiledInv
    <3> QED
      BY <3>2, <3>3
  <2> QED
    BY <2>1 DEF Cards!AllFiled
<1> QED
  BY <1>1, <1>2 DEF Cards!DistinctAddresses

LEMMA CardsTyped ==
  ASSUME CardInv
  PROVE  Cards!TypeOK
<1>1. /\ v1 \in ApNums /\ v2 \in Nat /\ v3 \in 2..203
      /\ v6 \in {"block", "card", "done", "panic"}
  BY DEF CardInv, CardTypes
<1>2. v4 \in 1..256
  <2>1. v4 \in Nat /\ v4 <= 256 /\ v2 \in Nat /\ Cards!ids \in Nat /\ Cards!remain \in Nat /\ Made \in Nat
    BY CardNumbers
  <2>2. v4 >= 1
    BY <2>1 DEF CardInv, MacInv
  <2> QED
    BY <2>1, <2>2
<1>3. DOMAIN v5 \subseteq Nat
  BY DEF CardInv, FiledInv
<1>4. ASSUME NEW n \in DOMAIN v5
      PROVE  v5[n] \in [Ip : Cards!Prefixes \X (2..202), Mac : Cards!Prefixes \X Cards!MacBytes]
  <2>1. PICK a \in 0..7, b \in 2..202 : Placed(n, a, b)
    BY DEF CardInv, PlaceInv
  <2>2. 201 * a + b - 1 \in 0..255
    BY <1>2, <2>1 DEF Placed
  <2> QED
    BY <2>1, <2>2 DEF Placed, Cards!Card, Cards!Prefixes, Cards!MacBytes
<1> QED
  BY <1>1, <1>2, <1>3, <1>4 DEF Cards!TypeOK

\* Only Add files a card.
LEMMA CardsStay ==
  ASSUME CardInv, Cards!Next
  PROVE  Cards!KeepsCards
<1>1. CASE Cards!Add
  BY <1>1, AddKeeps
<1>2. CASE Cards!Block \/ Cards!NextBlock \/ Cards!Terminated
  <2>1. v5' = v5
    BY <1>2 DEF Cards!Block, Cards!NextBlock, Cards!Terminated, Cards!vars
  <2> QED
    BY <2>1 DEF Cards!KeepsCards
<1> QED
  BY <1>1, <1>2 DEF Cards!Next

\* However many cards are asked for, no two on file share an IP address or a MAC
\* byte although the blocks overlap, and when AddVirtualNetworkCard returns every
\* index asked for has its card (test_coroutine.go:75-116).
THEOREM CardsFiledApart == Spec => []CardsDistinct
<1>1. CardsInv => CardsDistinct
  BY CardsApart DEF CardsInv, CardsDistinct
<1> QED
  BY <1>1, CardsInvariant, PTL

-----------------------------------------------------------------------------
(* The file: v1 is run, v2 is i, v3 is pc, v4 is exists, v5 is contents, v6  *)
(* is created, v7 is shown and v8 is excl.                                   *)

Records == [run : Nat, i : Nat]
Own(n) == [run |-> v1, i |-> n]

FlagTypes ==
  /\ v1 \in Nat /\ v2 \in 1..5 /\ v3 \in {"open", "write", "read", "end"}
  /\ v5 \in Seq(Records)
  /\ v7 = [n \in DOMAIN v7 |-> v7[n]] /\ DOMAIN v7 \subseteq {1, 2, 3}
  /\ \A n \in DOMAIN v7 : n < v2

\* While the program works with the file it is there, and for the last open.
ExistsInv ==
  /\ v3 \in {"write", "read"} => v4 /\ v2 <= 3
  /\ v2 = 5 => v4
  /\ v8 # "created"

\* What iteration i has in the file before and after its write.
ContentsInv ==
  /\ v2 = 1 => /\ v3 = "write" => v5 = <<>>
               /\ v3 = "read" => v5 = <<Own(1)>>
  /\ v2 = 2 /\ v3 = "read" => v5[1] = Own(2)
  /\ v2 = 3 => /\ v3 = "read" => v5[Len(v5)] = Own(3)
               /\ 2 \in DOMAIN v7 /\ v3 \in {"open", "write"} => v5 = v7[2]
               /\ 2 \in DOMAIN v7 /\ v3 = "read" => v5 = Append(v7[2], Own(3))

OfThisRun(s) == \A m \in 1..Len(s) : s[m].run = v1

CreatedInv == v6 => OfThisRun(v5) /\ \A n \in DOMAIN v7 : OfThisRun(v7[n])

FlagInv ==
  FlagTypes /\ ExistsInv /\ ContentsInv /\ CreatedInv /\ Flagged!RecordInPlace

FlagsInv == running = "FileFlags" => FlagInv

LEMMA FlagsStart == Init => FlagsInv
<1> SUFFICES ASSUME Init, running = "FileFlags" PROVE FlagInv
  BY DEF FlagsInv
<1>1. /\ v1 = 1 /\ v2 = 1 /\ v3 = "open" /\ v5 = <<>> /\ v6 = FALSE /\ v7 = <<>>
      /\ v8 = "none"
  BY DEF Init, Flagged!Init
<1>2. DOMAIN v7 = {} /\ v7 = [n \in {} |-> v7[n]]
  BY <1>1
<1>3. FlagTypes
  BY <1>1, <1>2, EmptySeq DEF FlagTypes
<1>4. ExistsInv /\ ContentsInv /\ CreatedInv
  BY <1>1 DEF ExistsInv, ContentsInv, CreatedInv
<1>5. Flagged!RecordInPlace
  BY <1>2 DEF Flagged!RecordInPlace
<1> QED
  BY <1>3, <1>4, <1>5 DEF FlagInv

\* What has been shown stays, in the same run.
LEMMA ShownStays ==
  ASSUME Flagged!RecordInPlace, v1' = v1, v7' = v7
  PROVE  Flagged!RecordInPlace'
BY DEF Flagged!RecordInPlace

LEMMA OpenKeeps ==
  ASSUME FlagInv, Flagged!OpenFile
  PROVE  FlagInv'
<1> USE DEF FlagInv
<1>0. v1 \in Nat /\ v2 \in 1..5 /\ v5 \in Seq(Records)
  BY DEF FlagTypes
<1>1. /\ v3 = "open" /\ v2 < 5 /\ v4' = TRUE /\ UNCHANGED <<v1, v7, v8>>
      /\ v5' = IF v2 \in {1, 4} THEN <<>> ELSE v5
      /\ v6' = (v6 \/ v2 = 1)
      /\ v2 = 4 => v2' = 5 /\ v3' = "open"
      /\ v2 # 4 => v2' = v2 /\ v3' = "write"
  <2>1. "TRUNC" \in Flagged!Flags[v2] <=> v2 \in {1, 4}
    BY <1>0 DEF Flagged!OpenFile, Flagged!Flags
  <2> QED
    BY <2>1 DEF Flagged!OpenFile, Flagged!Continue
<1>2. v2' \in 1..5 /\ v2' >= v2
  BY <1>0, <1>1
<1>3. FlagTypes'
  <2>1. v5' \in Seq(Records)
    BY <1>0, <1>1, EmptySeq
  <2> QED
    BY <1>0, <1>1, <1>2, <2>1 DEF FlagTypes
<1>4. ExistsInv'
  BY <1>0, <1>1 DEF ExistsInv
<1>5. ContentsInv'
  BY <1>0, <1>1 DEF ContentsInv, Own
<1>6. CreatedInv'
  <2>1. v2 = 1 => DOMAIN v7 = {}
    <3>1. \A n \in DOMAIN v7 : n \in {1, 2, 3} /\ n < v2
      BY DEF FlagTypes
    <3>2. v2 = 1 => \A n \in DOMAIN v7 : FALSE
      BY <3>1
    <3> QED
      BY <3>2
  <2>2. v2 \in {1, 4} => OfThisRun(v5)'
    <3>1. Len(<<>>) = 0
      BY EmptySeq
    <3> QED
      BY <1>1, <3>1 DEF OfThisRun
  <2>3. v6 /\ v2 \notin {1, 4} => OfThisRun(v5)'
    BY <1>1 DEF CreatedInv, OfThisRun
  <2>4. v6 => \A n \in DOMAIN v7 : OfThisRun(v7[n])'
    BY <1>1 DEF CreatedInv, OfThisRun
  <2> QED
    BY <1>1, <2>1, <2>2, <2>3, <2>4 DEF CreatedInv
<1> QED
  BY <1>1, <1>3, <1>4, <1>5, <1>6, ShownStays

\* Steps that show nothing and leave the file as it is.
LEMMA FailuresKeep ==
  ASSUME FlagInv, Flagged!OpenFails \/ Flagged!OpenExclusive \/ Flagged!Fails
  PROVE  FlagInv'
<1> USE DEF FlagInv
<1>0. v1 \in Nat /\ v2 \in 1..5
  BY DEF FlagTypes
<1>1. UNCHANGED <<v1, v5, v6, v7>>
  BY DEF Flagged!OpenFails, Flagged!OpenExclusive, Flagged!Fails
<1>2. CreatedInv'
  BY <1>1 DEF CreatedInv, OfThisRun
<1>3. CASE Flagged!OpenFails
  <2>1. /\ v3 = "open" /\ v2 < 5 /\ v4' = v4 /\ v8' = v8
        /\ v2 < 4 => v2' = v2 + 1 /\ v3' = "open"
        /\ v2 = 4 => v2' = v2 /\ v3' = "end"
    BY <1>0, <1>3 DEF Flagged!OpenFails, Flagged!Continue
  <2>2. v2' \in 1..4 /\ v2' >= v2
    BY <1>0, <2>1
  <2>3. FlagTypes' /\ ExistsInv'
    BY <1>0, <1>1, <2>1, <2>2 DEF FlagTypes, ExistsInv
  <2>4. ContentsInv'
    BY <1>0, <1>1, <2>1 DEF FlagTypes, ContentsInv, Own
  <2> QED
    BY <1>1, <1>2, <2>3, <2>4, ShownStays
<1>4. CASE Flagged!OpenExclusive
  <2>1. /\ v2 = 5 /\ v4' = TRUE /\ v3' = "end" /\ v2' = v2
        /\ v8' = IF Flagged!Admits({"CREATE", "EXCL"}) THEN "created" ELSE "refused"
    BY <1>4 DEF Flagged!OpenExclusive, Flagged!Flags
  <2>2. v4
    BY <2>1 DEF ExistsInv
  <2>3. v8' = "refused"
    BY <2>1, <2>2 DEF Flagged!Admits
  <2>4. FlagTypes' /\ ExistsInv'
    BY <1>1, <2>1, <2>3 DEF FlagTypes, ExistsInv
  <2>5. ContentsInv'
    BY <2>1 DEF ContentsInv
  <2> QED
    BY <1>1, <1>2, <2>4, <2>5, ShownStays
<1>5. CASE Flagged!Fails
  <2>1. v3 \in {"write", "read"} /\ v2' = v2 + 1 /\ v3' = "open" /\ v4' = v4 /\ v8' = v8
    BY <1>5 DEF Flagged!Fails, Flagged!Continue
  <2>2. v2 <= 3 /\ v2' \in 1..4
    BY <1>0, <2>1 DEF ExistsInv
  <2>3. FlagTypes' /\ ExistsInv'
    BY <1>0, <1>1, <2>1, <2>2 DEF FlagTypes, ExistsInv
  <2>4. ContentsInv'
    BY <1>0, <1>1, <2>1 DEF FlagTypes, ContentsInv, Own
  <2> QED
    BY <1>1, <1>2, <2>3, <2>4, ShownStays
<1> QED
  BY <1>3, <1>4, <1>5

LEMMA WriteStringKeeps ==
  ASSUME FlagInv, Flagged!WriteString
  PROVE  FlagInv'
<1> USE DEF FlagInv
<1> DEFINE rec == Own(v2)
<1>0. v1 \in Nat /\ v2 \in 1..5 /\ v5 \in Seq(Records) /\ Len(v5) \in Nat
  BY DEF FlagTypes
<1>1. /\ v3 = "write" /\ v3' = "read" /\ UNCHANGED <<v1, v2, v4, v6, v7, v8>>
      /\ v5' = IF "APPEND" \in Flagged!Flags[v2] \/ v5 = <<>> THEN Append(v5, rec)
               ELSE [v5 EXCEPT ![1] = rec]
  BY DEF Flagged!WriteString, Flagged!Record, Own
<1>2. v2 \in 1..3 /\ ("APPEND" \in Flagged!Flags[v2] <=> v2 = 3)
  <2>1. v2 \in 1..3
    BY <1>0, <1>1 DEF ExistsInv
  <2> QED
    BY <2>1 DEF Flagged!Flags
<1>3. rec \in Records /\ rec.run = v1
  BY <1>0 DEF Own, Records
<1> HIDE DEF rec
<1>4. /\ v5' \in Seq(Records) /\ Len(v5') \in Nat
      /\ \A m \in 1..Len(v5') : v5'[m] = rec \/ (m \in 1..Len(v5) /\ v5'[m] = v5[m])
      /\ v5 = <<>> => v5'[1] = rec /\ v5' = Append(v5, rec)
      /\ v2 = 2 => v5'[1] = rec
      /\ v2 = 3 => v5' = Append(v5, rec) /\ v5'[Len(v5')] = rec
  <2>1. CASE v2 = 3 \/ v5 = <<>>
    <3>1. v5' = Append(v5, rec)
      BY <1>1, <1>2, <2>1
    <3>2. /\ v5' \in Seq(Records) /\ Len(v5') = Len(v5) + 1
          /\ \A m \in 1..Len(v5) : v5'[m] = v5[m]
          /\ v5'[Len(v5) + 1] = rec
      BY <1>0, <1>3, <3>1, AppendProperties
    <3>3. v5 = <<>> => Len(v5) = 0
      BY EmptySeq
    <3> QED
      BY <1>0, <2>1, <3>1, <3>2, <3>3
  <2>2. CASE v2 # 3 /\ v5 # <<>>
    <3>1. v5' = [v5 EXCEPT ![1] = rec]
      BY <1>1, <1>2, <2>2
    <3>2. 1 \in 1..Len(v5)
      BY <1>0, <2>2, EmptySeq
    <3>3. /\ v5' \in Seq(Records) /\ Len(v5') = Len(v5)
          /\ \A m \in 1..Len(v5) : v5'[m] = IF m = 1 THEN rec ELSE v5[m]
      BY <1>0, <1>3, <3>1, <3>2, ExceptSeq
    <3> QED
      BY <1>0, <2>2, <3>2, <3>3
  <2> QED
    BY <2>1, <2>2
<1>5. FlagTypes' /\ ExistsInv'
  BY <1>1, <1>4 DEF FlagTypes, ExistsInv
<1>6. ContentsInv'
  <2>1. CASE v2 = 1
    <3>1. v5 = <<>>
      BY <1>1, <2>1 DEF ContentsInv
    <3>2. v5' = <<rec>>
      BY <1>4, <3>1
    <3> QED
      BY <1>1, <2>1, <3>2 DEF ContentsInv, Own, rec
  <2>2. CASE v2 = 2
    BY <1>1, <1>4, <2>2 DEF ContentsInv, Own, rec
  <2>3. CASE v2 = 3
    <3>1. 2 \in DOMAIN v7 => v5 = v7[2]
      BY <1>1, <2>3 DEF ContentsInv
    <3>2. rec = Own(3) /\ Own(3)' = Own(3)
      BY <1>1, <2>3 DEF Own, rec
    <3> QED
      BY <1>1, <1>4, <2>3, <3>1, <3>2 DEF ContentsInv
  <2> QED
    BY <1>2, <2>1, <2>2, <2>3
<1>7. CreatedInv'
  BY <1>1, <1>3, <1>4 DEF CreatedInv, OfThisRun
<1> QED
  BY <1>1, <1>5, <1>6, <1>7, ShownStays

LEMMA ReadAllKeeps ==
  ASSUME FlagInv, Flagged!ReadAll
  PROVE  FlagInv'
<1> USE DEF FlagInv
<1>0. v1 \in Nat /\ v2 \in 1..5 /\ DOMAIN v7 \subseteq {1, 2, 3} /\ \A n \in DOMAIN v7 : n < v2
  BY DEF FlagTypes
<1>1. /\ v3 = "read" /\ v2' = v2 + 1 /\ v3' = "open" /\ UNCHANGED <<v1, v4, v5, v6, v8>>
      /\ v7' = [n \in DOMAIN v7 \cup {v2} |-> IF n = v2 THEN v5 ELSE v7[n]]
  BY DEF Flagged!ReadAll, Flagged!Continue
<1>2. v2 \in 1..3
  BY <1>0, <1>1 DEF ExistsInv
<1>3. /\ DOMAIN v7' = DOMAIN v7 \cup {v2} /\ v7'[v2] = v5
      /\ \A n \in DOMAIN v7 : v7'[n] = v7[n]
      /\ v7' = [n \in DOMAIN v7' |-> v7'[n]]
  BY <1>0, <1>1
<1>4. FlagTypes'
  BY <1>0, <1>1, <1>2, <1>3 DEF FlagTypes
<1>5. ExistsInv'
  BY <1>1, <1>2 DEF ExistsInv
<1>6. ContentsInv'
  BY <1>0, <1>1, <1>2, <1>3 DEF ContentsInv
<1>7. CreatedInv'
  BY <1>1, <1>3 DEF CreatedInv, OfThisRun
<1>8. Flagged!RecordInPlace'
  <2>1. CASE v2 = 1
    BY <1>0, <1>1, <1>3, <2>1 DEF ContentsInv, Own, Flagged!RecordInPlace
  <2>2. CASE v2 = 2
    BY <1>0, <1>1, <1>3, <2>2 DEF ContentsInv, Own, Flagged!RecordInPlace
  <2>3. CASE v2 = 3
    BY <1>0, <1>1, <1>3, <2>3 DEF ContentsInv, Own, Flagged!RecordInPlace
  <2> QED
    BY <1>2, <2>1, <2>2, <2>3
<1> QED
  BY <1>4, <1>5, <1>6, <1>7, <1>8

LEMMA RerunKeepsFile ==
  ASSUME FlagInv, Flagged!Rerun
  PROVE  FlagInv'
<1> USE DEF FlagInv
<1>0. v1 \in Nat /\ v5 \in Seq(Records)
  BY DEF FlagTypes
<1>1. /\ v1' = v1 + 1 /\ v2' = 1 /\ v3' = "open" /\ v6' = FALSE /\ v7' = <<>>
      /\ v8' = "none" /\ v5' = v5
  BY DEF Flagged!Rerun, Flagged!Begin
<1>2. DOMAIN v7' = {} /\ v7' = [n \in {} |-> v7'[n]]
  BY <1>1
<1>3. FlagTypes'
  BY <1>0, <1>1, <1>2 DEF FlagTypes
<1>4. ExistsInv' /\ ContentsInv' /\ CreatedInv'
  BY <1>1 DEF ExistsInv, ContentsInv, CreatedInv
<1>5. Flagged!RecordInPlace'
  BY <1>2 DEF Flagged!RecordInPlace
<1> QED
  BY <1>3, <1>4, <1>5

LEMMA FlagsKept == FlagsInv /\ [Next]_vars => FlagsInv'
<1> SUFFICES ASSUME FlagsInv, [Next]_vars, running' = "FileFlags" PROVE FlagInv'
  BY DEF FlagsInv
<1>1. ASSUME UNCHANGED <<v1, v2, v3, v4, v5, v6, v7, v8>>, FlagInv PROVE FlagInv'
  <2>1. FlagTypes' /\ ExistsInv' /\ ContentsInv' /\ CreatedInv'
    BY <1>1 DEF FlagInv, FlagTypes, ExistsInv, ContentsInv, CreatedInv, OfThisRun, Own
  <2> QED
    BY <1>1, <2>1, ShownStays DEF FlagInv
<1>2. CASE UNCHANGED vars
  BY <1>1, <1>2 DEF vars, FlagsInv
<1>3. CASE Of("FileFlags", Flagged!Next, <<>>)
  <2>1. FlagInv /\ Flagged!Next
    BY <1>3 DEF Of, FlagsInv
  <2> QED
    BY <1>1, <2>1, OpenKeeps, FailuresKeep, WriteStringKeeps, ReadAllKeeps, RerunKeepsFile
    DEF Flagged!Next, Flagged!Terminated, Flagged!vars
<1> QED
  BY <1>2, <1>3 DEF Next, Of

LEMMA FlagsInvariant == Spec => []FlagsInv
<1>1. Init => FlagsInv
  BY FlagsStart
<1>2. FlagsInv /\ [Next]_vars => FlagsInv'
  BY FlagsKept
<1> QED
  BY <1>1, <1>2, PTL DEF Spec

LEMMA FlagsGood ==
  FlagInv => Flagged!RecordInPlace /\ Flagged!NothingOld /\ Flagged!ExclusiveRefused
BY DEF FlagInv, CreatedInv, OfThisRun, ExistsInv, Flagged!NothingOld, Flagged!ExclusiveRefused

-----------------------------------------------------------------------------
(* The profiles: v1 is run, v2 is pc, v3 is k, v4 is err, v5 is open and v6  *)
(* is file.                                                                  *)

ProfileTypes ==
  /\ v1 \in Nat /\ v3 \in 1..(ProfileFiles + 1)
  /\ v2 \in {"dir", "create", "execute", "write", "return", "end"}
  /\ v6 = [n \in Profiled!Files |-> v6[n]]

\* One file is open, while genProfile has one.
OpenInv ==
  /\ v2 \in {"execute", "write", "return"} => v3 \in Profiled!Files /\ v5 = {v3}
  /\ v2 \in {"dir", "create", "end"} => v5 = {}

ErrInv ==
  /\ v2 \in {"dir", "create", "execute", "write"} => ~v4
  /\ v2 = "end" /\ ~v4 => v3 = ProfileFiles + 1

\* Behind file k all is of this run, and before it nothing.
Generated(n) ==
  /\ v6[n].run \in Nat /\ v6[n].run <= v1
  /\ n < v3 => v6[n] = [run |-> v1, complete |-> TRUE]
  /\ n > v3 \/ (n = v3 /\ v2 \in {"dir", "create"}) => v6[n].run < v1
  /\ n = v3 /\ v2 \in {"execute", "write"} => v6[n] = [run |-> v1, complete |-> FALSE]
  /\ n = v3 /\ v2 = "return" /\ ~v4 => v6[n] = [run |-> v1, complete |-> TRUE]

ProfileInv ==
  ProfileTypes /\ OpenInv /\ ErrInv /\ \A n \in Profiled!Files : Generated(n)

ProfilesInv == running = "Profiles" => ProfileInv

LEMMA ProfilesStart == Init => ProfilesInv
<1> SUFFICES ASSUME Init, running = "Profiles" PROVE ProfileInv
  BY DEF ProfilesInv
<1>1. /\ v1 = 1 /\ v2 = "dir" /\ v3 = 1 /\ v4 = FALSE /\ v5 = {}
      /\ v6 = [n \in Profiled!Files |-> Profiled!Absent]
  BY DEF Init, Profiled!Init
<1>2. ProfileTypes
  BY <1>1, DataDemosAssumption DEF ProfileTypes
<1>3. OpenInv /\ ErrInv
  BY <1>1 DEF OpenInv, ErrInv
<1>4. ASSUME NEW n \in Profiled!Files PROVE Generated(n)
  <2>1. v6[n].run = 0 /\ n \in Nat /\ n >= 1
    BY <1>1, DataDemosAssumption DEF Profiled!Absent, Profiled!Files
  <2> QED
    BY <1>1, <2>1 DEF Generated
<1> QED
  BY <1>2, <1>3, <1>4 DEF ProfileInv

LEMMA ProfileNumbers ==
  ASSUME ProfileInv
  PROVE  /\ v1 \in Nat /\ v3 \in Nat /\ v3 >= 1 /\ v3 <= ProfileFiles + 1
         /\ ProfileFiles \in Nat
         /\ \A n : n \in Profiled!Files <=> n \in Nat /\ n >= 1 /\ n <= ProfileFiles
BY DataDemosAssumption DEF ProfileInv, ProfileTypes, Profiled!Files

\* Steps that leave the files as they are.
LEMMA FilesStay ==
  ASSUME ProfileInv, UNCHANGED <<v1, v3, v6>>, ProfileTypes', OpenInv', ErrInv',
         v2' \in {"dir", "create"} => v2 \in {"dir", "create"},
         v2' \in {"execute", "write"} => v2 \in {"execute", "write"},
         v2' = "return" /\ ~v4' => v2 = "return" /\ ~v4
  PROVE  ProfileInv'
<1>1. ASSUME NEW n \in Profiled!Files PROVE Generated(n)'
  <2>1. Generated(n)
    BY DEF ProfileInv
  <2> QED
    BY <2>1 DEF Generated
<1>2. Profiled!Files' = Profiled!Files
  BY DEF Profiled!Files
<1> QED
  BY <1>1, <1>2 DEF ProfileInv

LEMMA QuietProfileSteps ==
  ASSUME ProfileInv, Profiled!CreateDir \/ Profiled!Execute \/ Profiled!Finish
  PROVE  ProfileInv'
<1>0. /\ v1 \in Nat /\ v3 \in Nat /\ v3 >= 1 /\ v3 <= ProfileFiles + 1
      /\ ProfileFiles \in Nat
      /\ \A n : n \in Profiled!Files <=> n \in Nat /\ n >= 1 /\ n <= ProfileFiles
  BY ProfileNumbers
<1>1. CASE Profiled!CreateDir
  <2>1. /\ v2 = "dir" /\ UNCHANGED <<v1, v3, v5, v6>>
        /\ (v2' = "create" /\ ~v4') \/ (v2' = "end" /\ v4')
    BY <1>1 DEF Profiled!CreateDir
  <2>2. ProfileTypes' /\ OpenInv' /\ ErrInv'
    BY <2>1 DEF ProfileInv, ProfileTypes, OpenInv, ErrInv
  <2> QED
    BY <2>1, <2>2, FilesStay
<1>2. CASE Profiled!Execute
  <2>1. /\ v2 = "execute" /\ UNCHANGED <<v1, v3, v5, v6>>
        /\ (v2' = "write" /\ ~v4') \/ (v2' = "return" /\ v4')
    BY <1>2 DEF Profiled!Execute
  <2>2. ProfileTypes' /\ OpenInv' /\ ErrInv'
    BY <2>1 DEF ProfileInv, ProfileTypes, OpenInv, ErrInv, Profiled!Files
  <2> QED
    BY <2>1, <2>2, FilesStay
<1>3. CASE Profiled!Finish
  <2>1. /\ v2 = "create" /\ UNCHANGED <<v1, v3, v4, v5, v6>> /\ v2' = "end"
        /\ v3 \notin Profiled!Files
    BY <1>3 DEF Profiled!Finish
  <2>2. v3 = ProfileFiles + 1
    BY <1>0, <2>1
  <2>3. ProfileTypes' /\ OpenInv' /\ ErrInv'
    BY <2>1, <2>2 DEF ProfileInv, ProfileTypes, OpenInv, ErrInv
  <2> QED
    BY <2>1, <2>3, FilesStay
<1> QED
  BY <1>1, <1>2, <1>3

LEMMA CreateFileKeeps ==
  ASSUME ProfileInv, Profiled!CreateFile
  PROVE  ProfileInv'
<1>0. /\ v1 \in Nat /\ v3 \in Nat /\ v3 >= 1 /\ v3 <= ProfileFiles + 1
      /\ ProfileFiles \in Nat
      /\ \A n : n \in Profiled!Files <=> n \in Nat /\ n >= 1 /\ n <= ProfileFiles
  BY ProfileNumbers
<1>1. v2 = "create" /\ v3 \in Profiled!Files /\ UNCHANGED <<v1, v3>>
  BY DEF Profiled!CreateFile
<1>2. CASE v2' = "end"
  <2>1. v4' = TRUE /\ UNCHANGED <<v5, v6>>
    BY <1>2 DEF Profiled!CreateFile
  <2>2. ProfileTypes' /\ OpenInv' /\ ErrInv'
    BY <1>1, <1>2, <2>1 DEF ProfileInv, ProfileTypes, OpenInv, ErrInv
  <2> QED
    BY <1>1, <1>2, <2>1, <2>2, FilesStay
<1>3. CASE v2' # "end"
  <2>1. /\ v5' = v5 \cup {v3} /\ v6' = [v6 EXCEPT ![v3] = [run |-> v1, complete |-> FALSE]]
        /\ v2' = "execute" /\ v4' = v4
    BY <1>3 DEF Profiled!CreateFile
  <2>2. DOMAIN v6 = Profiled!Files /\ v6' = [n \in Profiled!Files |-> v6'[n]]
    BY <2>1 DEF ProfileInv, ProfileTypes
  <2>3. ProfileTypes'
    BY <1>1, <2>1, <2>2 DEF ProfileInv, ProfileTypes, Profiled!Files
  <2>4. OpenInv' /\ ErrInv'
    BY <1>1, <2>1 DEF ProfileInv, OpenInv, ErrInv, Profiled!Files
  <2>5. ASSUME NEW n \in Profiled!Files PROVE Generated(n)'
    <3>1. Generated(n) /\ n \in Nat
      BY <1>0 DEF ProfileInv
    <3>2. CASE n = v3
      <4>1. v6'[n] = [run |-> v1, complete |-> FALSE]
        BY <2>1, <2>2, <3>2
      <4> QED
        BY <1>0, <1>1, <2>1, <3>2, <4>1 DEF Generated
    <3>3. CASE n # v3
      <4>1. v6'[n] = v6[n]
        BY <2>1, <2>2, <3>3
      <4> QED
        BY <1>0, <1>1, <2>1, <3>1, <3>3, <4>1 DEF Generated
    <3> QED
      BY <3>2, <3>3
  <2>6. Profiled!Files' = Profiled!Files
    BY DEF Profiled!Files
  <2> QED
    BY <2>3, <2>4, <2>5, <2>6 DEF ProfileInv
<1> QED
  BY <1>2, <1>3

LEMMA WriteToKeeps ==
  ASSUME ProfileInv, Profiled!WriteTo
  PROVE  ProfileInv'
<1>0. /\ v1 \in Nat /\ v3 \in Nat /\ v3 >= 1 /\ v3 <= ProfileFiles + 1
      /\ ProfileFiles \in Nat
      /\ \A n : n \in Profiled!Files <=> n \in Nat /\ n >= 1 /\ n <= ProfileFiles
  BY ProfileNumbers
<1>1. PICK ok \in BOOLEAN :
        /\ v2 = "write" /\ v2' = "return" /\ UNCHANGED <<v1, v3, v5>>
        /\ v4' = ~ok /\ v6' = [v6 EXCEPT ![v3].complete = ok]
  BY DEF Profiled!WriteTo
<1>2. v3 \in Profiled!Files /\ Generated(v3) /\ v6[v3] = [run |-> v1, complete |-> FALSE]
  <2>1. v3 \in Profiled!Files
    BY <1>1 DEF ProfileInv, OpenInv
  <2> QED
    BY <1>1, <2>1 DEF ProfileInv, Generated
<1>3. /\ DOMAIN v6 = Profiled!Files /\ v6' = [n \in Profiled!Files |-> v6'[n]]
      /\ v6'[v3] = [run |-> v1, complete |-> ok]
      /\ \A n \in Profiled!Files : n # v3 => v6'[n] = v6[n]
  BY <1>1, <1>2 DEF ProfileInv, ProfileTypes
<1>4. ProfileTypes'
  BY <1>1, <1>3 DEF ProfileInv, ProfileTypes, Profiled!Files
<1>5. OpenInv' /\ ErrInv'
  BY <1>1 DEF ProfileInv, OpenInv, ErrInv, Profiled!Files
<1>6. ASSUME NEW n \in Profiled!Files PROVE Generated(n)'
  <2>1. Generated(n) /\ n \in Nat
    BY <1>0 DEF ProfileInv
  <2>2. CASE n = v3
    <3>1. v6'[n].run = v1 /\ (~v4' => v6'[n] = [run |-> v1, complete |-> TRUE])
      BY <1>1, <1>3, <2>2
    <3> QED
      BY <1>0, <1>1, <2>2, <3>1 DEF Generated
  <2>3. CASE n # v3
    BY <1>0, <1>1, <1>3, <2>1, <2>3 DEF Generated
  <2> QED
    BY <2>2, <2>3
<1>7. Profiled!Files' = Profiled!Files
  BY DEF Profiled!Files
<1> QED
  BY <1>4, <1>5, <1>6, <1>7 DEF ProfileInv

LEMMA ReturnKeepsFiles ==
  ASSUME ProfileInv, Profiled!Return
  PROVE  ProfileInv'
<1>0. /\ v1 \in Nat /\ v3 \in Nat /\ v3 >= 1 /\ v3 <= ProfileFiles + 1
      /\ ProfileFiles \in Nat
      /\ \A n : n \in Profiled!Files <=> n \in Nat /\ n >= 1 /\ n <= ProfileFiles
  BY ProfileNumbers
<1>1. v2 = "return" /\ v5' = v5 \ {v3} /\ UNCHANGED <<v1, v4, v6>>
  BY DEF Profiled!Return, Profiled!CloseDeferred
<1>2. v5' = {} /\ v3 \in Profiled!Files
  BY <1>1 DEF ProfileInv, OpenInv
<1>3. CASE v4
  <2>1. v2' = "end" /\ v3' = v3
    BY <1>3 DEF Profiled!Return, Profiled!StopOnError
  <2>2. ProfileTypes' /\ OpenInv' /\ ErrInv'
    BY <1>1, <1>2, <1>3, <2>1 DEF ProfileInv, ProfileTypes, OpenInv, ErrInv
  <2> QED
    BY <1>1, <2>1, <2>2, FilesStay
<1>4. CASE ~v4
  <2>1. v2' = "create" /\ v3' = v3 + 1
    BY <1>4 DEF Profiled!Return, Profiled!StopOnError
  <2>2. v3' \in 1..(ProfileFiles + 1)
    BY <1>0, <1>2, <2>1
  <2>3. ProfileTypes' /\ OpenInv' /\ ErrInv'
    BY <1>1, <1>2, <1>4, <2>1, <2>2 DEF ProfileInv, ProfileTypes, OpenInv, ErrInv
  <2>4. ASSUME NEW n \in Profiled!Files PROVE Generated(n)'
    <3>1. Generated(n) /\ n \in Nat
      BY <1>0 DEF ProfileInv
    <3> QED
      BY <1>0, <1>1, <1>4, <2>1, <3>1 DEF Generated
  <2>5. Profiled!Files' = Profiled!Files
    BY DEF Profiled!Files
  <2> QED
    BY <2>3, <2>4, <2>5 DEF ProfileInv
<1> QED
  BY <1>3, <1>4

\* To the next run every file is one of the runs before.
LEMMA RerunKeepsFiles ==
  ASSUME ProfileInv, Profiled!Rerun
  PROVE  ProfileInv'
<1>0. /\ v1 \in Nat /\ v3 \in Nat /\ v3 >= 1 /\ v3 <= ProfileFiles + 1
      /\ ProfileFiles \in Nat
      /\ \A n : n \in Profiled!Files <=> n \in Nat /\ n >= 1 /\ n <= ProfileFiles
  BY ProfileNumbers
<1>1. /\ v1' = v1 + 1 /\ v2' = "dir" /\ v3' = 1 /\ v4' = FALSE /\ v5' = {} /\ v6' = v6
  BY DEF Profiled!Rerun
<1>2. ProfileTypes'
  BY <1>0, <1>1 DEF ProfileInv, ProfileTypes
<1>3. OpenInv' /\ ErrInv'
  BY <1>1 DEF OpenInv, ErrInv
<1>4. ASSUME NEW n \in Profiled!Files PROVE Generated(n)'
  <2>1. n \in Nat /\ n >= 1 /\ v6[n].run \in Nat /\ v6[n].run <= v1
    BY <1>0 DEF ProfileInv, Generated
  <2> QED
    BY <1>0, <1>1, <2>1 DEF Generated
<1>5. Profiled!Files' = Profiled!Files
  BY DEF Profiled!Files
<1> QED
  BY <1>2, <1>3, <1>4, <1>5 DEF ProfileInv

LEMMA ProfilesKept == ProfilesInv /\ [Next]_vars => ProfilesInv'
<1> SUFFICES ASSUME ProfilesInv, [Next]_vars, running' = "Profiles" PROVE ProfileInv'
  BY DEF ProfilesInv
<1>1. ASSUME UNCHANGED <<v1, v2, v3, v4, v5, v6>>, ProfileInv PROVE ProfileInv'
  <2>1. ProfileTypes' /\ OpenInv' /\ ErrInv'
    BY <1>1 DEF ProfileInv, ProfileTypes, OpenInv, ErrInv, Profiled!Files
  <2> QED
    BY <1>1, <2>1, FilesStay
<1>2. CASE UNCHANGED vars
  BY <1>1, <1>2 DEF vars, ProfilesInv
<1>3. CASE Of("Profiles", Profiled!Next, <<v7, v8>>)
  <2>1. ProfileInv /\ Profiled!Next
    BY <1>3 DEF Of, ProfilesInv
  <2> QED
    BY <1>1, <2>1, QuietProfileSteps, CreateFileKeeps, WriteToKeeps, ReturnKeepsFiles,
       RerunKeepsFiles
    DEF Profiled!Next, Profiled!Terminated, Profiled!vars
<1> QED
  BY <1>2, <1>3 DEF Next, Of

LEMMA ProfilesInvariant == Spec => []ProfilesInv
<1>1. Init => ProfilesInv
  BY ProfilesStart
<1>2. ProfilesInv /\ [Next]_vars => ProfilesInv'
  BY ProfilesKept
<1> QED
  BY <1>1, <1>2, PTL DEF Spec

LEMMA ProfilesGood == ProfileInv => Profiled!NoFileLeftOpen /\ Profiled!CompletePrefix
<1> SUFFICES ASSUME ProfileInv PROVE Profiled!NoFileLeftOpen /\ Profiled!CompletePrefix
  OBVIOUS
<1>0. /\ v1 \in Nat /\ v3 \in Nat /\ v3 >= 1 /\ v3 <= ProfileFiles + 1
      /\ ProfileFiles \in Nat
      /\ \A n : n \in Profiled!Files <=> n \in Nat /\ n >= 1 /\ n <= ProfileFiles
  BY ProfileNumbers
<1>1. Profiled!NoFileLeftOpen
  BY DEF ProfileInv, OpenInv, Profiled!NoFileLeftOpen
<1>2. ASSUME NEW n \in Profiled!Files
      PROVE  /\ v6[n] = [run |-> v1, complete |-> TRUE] => n <= v3
             /\ n < v3 => v6[n] = [run |-> v1, complete |-> TRUE]
  <2>1. Generated(n) /\ n \in Nat
    BY <1>0 DEF ProfileInv
  <2>2. ASSUME n > v3 PROVE v6[n] # [run |-> v1, complete |-> TRUE]
    <3>1. v6[n].run < v1
      BY <2>1, <2>2 DEF Generated
    <3>2. v6[n].run # v1
      BY <1>0, <2>1, <3>1 DEF Generated
    <3> QED
      BY <3>2
  <2> QED
    BY <1>0, <2>1, <2>2 DEF Generated
<1>3. v2 = "end" /\ ~v4 => \A n \in Profiled!Files : n < v3
  BY <1>0 DEF ProfileInv, ErrInv
<1> QED
  BY <1>1, <1>2, <1>3 DEF Profiled!CompletePrefix

-----------------------------------------------------------------------------
(* The errors: v1 is step, v2 is f, v3 is open, v4 is closes and v5 is       *)
(* shown.                                                                    *)

\* How many errors are printed before a step.
Printed(s) == IF s = 0 THEN 0 ELSE IF s <= 4 THEN s - 1 ELSE IF s <= 8 THEN s - 2 ELSE 6

Tags == {"closed", "invalid", "nil", "permission", "nothing", "exist", "notexist"}

ErrorTypes ==
  /\ v1 \in 0..9
  /\ v4 = [x \in Failures!Files |-> v4[x]]
  /\ v5 \in Seq(Tags) /\ Len(v5) <= 6 /\ (v1 # 9 => Len(v5) = Printed(v1))

\* f holds one file after the other, and is nil where the path does not exist; w
\* stays open beside it.
HoldsInv ==
  /\ v1 \in 3..6 => v2 \in {"nil", "first"}
  /\ v1 \in {7, 8} => v2 \in {"nil", "second"}
  /\ v3 \ {"w"} = IF v1 \in {3, 4, 7, 8} /\ v2 # "nil" THEN {v2} ELSE {}

ClosesInv ==
  /\ v4["r"] \in {0, 1} /\ (v1 = 0 => v4["r"] = 0) /\ v4["w"] = 0
  /\ v4["self"] \in {0, 1} /\ (v1 <= 1 => v4["self"] = 0)
  /\ v4["first"] \in {0, 1} /\ (v1 <= 4 => v4["first"] = 0)
  /\ v4["second"] \in {0, 1} /\ (v1 <= 8 => v4["second"] = 0)

Told(n, tag) ==
  /\ n = 1 => tag = "closed"
  /\ n = 2 => tag \in {"invalid", "nil"}
  /\ n = 3 => tag \in {"permission", "nothing"}
  /\ n = 4 => tag # "other"
  /\ n = 5 => tag \in {"notexist", "nil"}
  /\ n = 6 => tag = "permission"

ToldInv == \A n \in 1..Len(v5) : Told(n, v5[n])

ErrorInv == ErrorTypes /\ HoldsInv /\ ClosesInv /\ ToldInv

ErrorsInv == running = "OsErrors" => ErrorInv

LEMMA ErrorsStart == Init => ErrorsInv
<1> SUFFICES ASSUME Init, running = "OsErrors" PROVE ErrorInv
  BY DEF ErrorsInv
<1>1. /\ v1 = 0 /\ v2 = "nil" /\ v3 = {} /\ v4 = [x \in Failures!Files |-> 0]
      /\ v5 = <<>>
  BY DEF Init, Failures!Init
<1>2. v5 \in Seq(Tags) /\ Len(v5) = 0
  BY <1>1, EmptySeq
<1>3. ErrorTypes
  BY <1>1, <1>2 DEF ErrorTypes, Printed
<1>4. HoldsInv /\ ClosesInv
  BY <1>1 DEF HoldsInv, ClosesInv, Failures!Files
<1>5. ToldInv
  BY <1>2 DEF ToldInv
<1> QED
  BY <1>3, <1>4, <1>5 DEF ErrorInv

\* What the two functions make of the errors of the program.
LEMMA Errors ==
  /\ Failures!printError(Failures!NoError) = "nil"
  /\ Failures!printError(Failures!Wrapped("none", "invalid")) = "invalid"
  /\ Failures!printError(Failures!Wrapped("PathError", "closed")) = "closed"
  /\ \A e \in Failures!LookPath :
       /\ Failures!printError(e) \in {"permission", "nothing"}
       /\ Failures!printError2(e) = "permission"
  /\ Failures!printError2(Failures!NoError) = "nil"
  /\ Failures!printError2(Failures!Wrapped("PathError", "EEXIST")) = "exist"
  /\ Failures!printError2(Failures!Wrapped("PathError", "ENOENT")) = "notexist"
  /\ Failures!printError2(Failures!Wrapped("PathError", "EACCES")) = "permission"
<1> USE DEF Failures!underlyingError, Failures!Wrapped, Failures!NoError
<1>1. /\ Failures!printError(Failures!NoError) = "nil"
      /\ Failures!printError(Failures!Wrapped("none", "invalid")) = "invalid"
      /\ Failures!printError(Failures!Wrapped("PathError", "closed")) = "closed"
  BY DEF Failures!printError
<1>2. ASSUME NEW e \in Failures!LookPath
      PROVE  /\ Failures!printError(e) \in {"permission", "nothing"}
             /\ Failures!printError2(e) = "permission"
  BY DEF Failures!LookPath, Failures!printError, Failures!printError2
<1>3. /\ Failures!printError2(Failures!NoError) = "nil"
      /\ Failures!printError2(Failures!Wrapped("PathError", "EEXIST")) = "exist"
      /\ Failures!printError2(Failures!Wrapped("PathError", "ENOENT")) = "notexist"
      /\ Failures!printError2(Failures!Wrapped("PathError", "EACCES")) = "permission"
  BY DEF Failures!printError2
<1> QED
  BY <1>1, <1>2, <1>3

\* A step that prints one more error.
LEMMA ShowKeeps ==
  ASSUME ErrorInv, NEW tag \in Tags, v5' = Append(v5, tag),
         v1 \in 1..7, v1 # 4, v1' = v1 + 1, v4' = [x \in Failures!Files |-> v4'[x]],
         Told(Printed(v1) + 1, tag), HoldsInv', ClosesInv'
  PROVE  ErrorInv'
<1>0. v5 \in Seq(Tags) /\ Len(v5) \in Nat /\ Len(v5) = Printed(v1)
  BY DEF ErrorInv, ErrorTypes
<1>1. /\ v5' \in Seq(Tags) /\ Len(v5') = Len(v5) + 1 /\ v5'[Len(v5) + 1] = tag
      /\ \A n \in 1..Len(v5) : v5'[n] = v5[n]
  BY <1>0, AppendProperties
<1>2. Printed(v1)  + 1 = Printed(v1') /\ Printed(v1') <= 6 /\ v1' \in 1..9
  BY DEF Printed
<1>3. ErrorTypes'
  BY <1>0, <1>1, <1>2 DEF ErrorTypes, Printed
<1>4. ASSUME NEW n \in 1..Len(v5') PROVE Told(n, v5'[n])
  <2>1. CASE n \in 1..Len(v5)
    BY <1>1, <2>1 DEF ErrorInv, ToldInv
  <2>2. CASE n = Len(v5) + 1
    BY <1>0, <1>1, <2>2
  <2> QED
    BY <1>0, <1>1, <2>1, <2>2
<1> QED
  BY <1>3, <1>4 DEF ErrorInv, ToldInv

\* The pipe: r is closed, w stays open.
LEMMA PipeKeeps ==
  ASSUME ErrorInv, Failures!OpenPipe
  PROVE  ErrorInv'
<1>0. /\ v4 = [x \in Failures!Files |-> v4[x]]
      /\ Failures!Files = {"r", "w", "self", "first", "second"}
  BY DEF ErrorInv, ErrorTypes, Failures!Files
<1>1. v1 = 0 /\ v1' \in {1, 9} /\ UNCHANGED <<v2, v5>>
  BY DEF Failures!OpenPipe, Failures!At
<1>2. \/ v3' = v3 \cup {"w"} /\ v4' = [v4 EXCEPT !["r"] = @ + 1]
      \/ v3' = v3 /\ v4' = v4
  BY DEF Failures!OpenPipe, Failures!At
<1>3. v4' = [x \in Failures!Files |-> v4'[x]]
  BY <1>0, <1>2
<1>4. ErrorTypes' /\ ToldInv'
  BY <1>1, <1>3 DEF ErrorInv, ErrorTypes, ToldInv, Printed, Failures!Files
<1>5. HoldsInv'
  BY <1>1, <1>2 DEF ErrorInv, HoldsInv
<1>6. ClosesInv'
  BY <1>0, <1>1, <1>2 DEF ErrorInv, ClosesInv
<1> QED
  BY <1>4, <1>5, <1>6 DEF ErrorInv

LEMMA FirstErrorsKeep ==
  ASSUME ErrorInv, Failures!ReadClosed \/ Failures!Stat \/ Failures!LookDevNull
  PROVE  ErrorInv'
<1>0. /\ v4 = [x \in Failures!Files |-> v4[x]]
      /\ Failures!Files = {"r", "w", "self", "first", "second"}
  BY DEF ErrorInv, ErrorTypes, Failures!Files
<1>1. CASE Failures!ReadClosed
  <2>1. CASE v1' = 2
    <3>1. /\ v1 = 1 /\ v2' = "self" /\ v3' = v3 \ {"self"}
          /\ v4' = [v4 EXCEPT !["self"] = @ + 1]
      BY <1>1, <2>1 DEF Failures!ReadClosed, Failures!At, Failures!Close
    <3>2. HoldsInv'
      BY <2>1, <3>1 DEF ErrorInv, HoldsInv
    <3>3. /\ v4' = [x \in Failures!Files |-> v4'[x]] /\ v4'["self"] = v4["self"] + 1
          /\ \A x \in {"r", "w", "first", "second"} : v4'[x] = v4[x]
      BY <1>0, <3>1
    <3>4. ClosesInv'
      BY <2>1, <3>1, <3>3 DEF ErrorInv, ClosesInv
    <3>5. Told(Printed(v1) + 1, "closed")
      BY <3>1 DEF Told, Printed
    <3>6. v5' = Append(v5, "closed")
      <4>1. v5' = Append(v5, Failures!printError(Failures!Wrapped("PathError", "closed")))
        BY <1>1, <2>1 DEF Failures!ReadClosed, Failures!At, Failures!Show
      <4> QED
        BY <4>1, Errors
    <3>7. v1 \in 1..7 /\ v1 # 4 /\ v1' = v1 + 1
      BY <2>1, <3>1
    <3>8. "closed" \in Tags
      BY DEF Tags
    <3> QED
      BY <3>8, <3>2, <3>3, <3>4, <3>5, <3>6, <3>7, ShowKeeps
  <2>2. CASE v1' # 2
    <3>1. v1 = 1 /\ v1' = 9 /\ UNCHANGED <<v2, v3, v4, v5>>
      BY <1>1, <2>2 DEF Failures!ReadClosed, Failures!At
    <3>2. ErrorTypes' /\ ToldInv'
      BY <3>1 DEF ErrorInv, ErrorTypes, ToldInv, Printed, Failures!Files
    <3>3. HoldsInv' /\ ClosesInv'
      BY <3>1 DEF ErrorInv, HoldsInv, ClosesInv
    <3> QED
      BY <3>2, <3>3 DEF ErrorInv
  <2> QED
    BY <2>1, <2>2
<1>2. CASE Failures!Stat
  <2>1. /\ v1 = 2 /\ v1' = 3 /\ v4' = v4
        /\ (v2' = "nil" /\ v3' = v3) \/ (v2' = "first" /\ v3' = v3 \cup {"first"})
    BY <1>2 DEF Failures!Stat, Failures!At, Failures!OpenPath
  <2>2. HoldsInv' /\ ClosesInv'
    BY <2>1 DEF ErrorInv, HoldsInv, ClosesInv
  <2>3. v5' = Append(v5, Failures!printError(IF v2' = "nil" THEN Failures!Wrapped("none", "invalid")
                                             ELSE Failures!NoError))
    BY <1>2 DEF Failures!Stat, Failures!Show
  <2>4. PICK tag \in {"invalid", "nil"} : v5' = Append(v5, tag)
    BY <2>3, Errors
  <2>9. v1 = 2 /\ v1' = 3
    BY <2>1
  <2>5. Told(Printed(v1) + 1, tag)
    <3>1. Printed(v1) + 1 = 2
      BY <2>9 DEF Printed
    <3> QED
      BY <2>4, <3>1 DEF Told
  <2>6. v1 \in 1..7 /\ v1 # 4 /\ v1' = v1 + 1
    BY <2>9
  <2>8. tag \in Tags
    BY <2>4 DEF Tags
  <2>7. v4' = [x \in Failures!Files |-> v4'[x]]
    BY <1>0, <2>1
  <2> QED
    BY <2>2, <2>4, <2>5, <2>6, <2>7, <2>8, ShowKeeps
<1>3. CASE Failures!LookDevNull
  <2>1. v1 = 3 /\ v1' = 4 /\ UNCHANGED <<v2, v3, v4>>
    BY <1>3 DEF Failures!LookDevNull, Failures!At
  <2>2. HoldsInv' /\ ClosesInv'
    BY <2>1 DEF ErrorInv, HoldsInv, ClosesInv
  <2>3. PICK e \in Failures!LookPath : v5' = Append(v5, Failures!printError(e))
    BY <1>3 DEF Failures!LookDevNull, Failures!Show
  <2>4. PICK tag \in {"permission", "nothing"} : v5' = Append(v5, tag)
    BY <2>3, Errors
  <2>9. v1 = 3 /\ v1' = 4
    BY <2>1
  <2>5. Told(Printed(v1) + 1, tag)
    <3>1. Printed(v1) + 1 = 3
      BY <2>9 DEF Printed
    <3> QED
      BY <2>4, <3>1 DEF Told
  <2>6. v1 \in 1..7 /\ v1 # 4 /\ v1' = v1 + 1
    BY <2>9
  <2>8. tag \in Tags
    BY <2>4 DEF Tags
  <2>7. v4' = [x \in Failures!Files |-> v4'[x]]
    BY <1>0, <2>1
  <2> QED
    BY <2>2, <2>4, <2>5, <2>6, <2>7, <2>8, ShowKeeps
<1> QED
  BY <1>1, <1>2, <1>3

LEMMA LastErrorsKeep ==
  ASSUME ErrorInv, Failures!Mkdir \/ Failures!OpenMissing \/ Failures!LookDevNull2
  PROVE  ErrorInv'
<1>0. /\ v4 = [x \in Failures!Files |-> v4[x]]
      /\ Failures!Files = {"r", "w", "self", "first", "second"}
  BY DEF ErrorInv, ErrorTypes, Failures!Files
<1>1. CASE Failures!Mkdir
  <2>1. v1 = 5 /\ v1' = 6 /\ UNCHANGED <<v2, v3, v4>>
    BY <1>1 DEF Failures!Mkdir, Failures!At
  <2>2. HoldsInv' /\ ClosesInv'
    BY <2>1 DEF ErrorInv, HoldsInv, ClosesInv
  <2>3. PICK e \in {Failures!NoError} \cup
                   {Failures!Wrapped("PathError", x) : x \in {"EEXIST", "ENOENT", "EACCES"}} :
          v5' = Append(v5, Failures!printError2(e))
    BY <1>1 DEF Failures!Mkdir, Failures!Show
  <2>4. PICK tag \in {"nil", "exist", "notexist", "permission"} : v5' = Append(v5, tag)
    BY <2>3, Errors
  <2>9. v1 = 5 /\ v1' = 6
    BY <2>1
  <2>5. Told(Printed(v1) + 1, tag)
    <3>1. Printed(v1) + 1 = 4
      BY <2>9 DEF Printed
    <3> QED
      BY <2>4, <3>1 DEF Told
  <2>6. v1 \in 1..7 /\ v1 # 4 /\ v1' = v1 + 1
    BY <2>9
  <2>8. tag \in Tags
    BY <2>4 DEF Tags
  <2>7. v4' = [x \in Failures!Files |-> v4'[x]]
    BY <1>0, <2>1
  <2> QED
    BY <2>2, <2>4, <2>5, <2>6, <2>7, <2>8, ShowKeeps
<1>2. CASE Failures!OpenMissing
  <2>1. /\ v1 = 6 /\ v1' = 7 /\ v4' = v4
        /\ (v2' = "nil" /\ v3' = v3) \/ (v2' = "second" /\ v3' = v3 \cup {"second"})
    BY <1>2 DEF Failures!OpenMissing, Failures!At, Failures!OpenPath
  <2>2. HoldsInv' /\ ClosesInv'
    BY <2>1 DEF ErrorInv, HoldsInv, ClosesInv
  <2>3. v5' = Append(v5, Failures!printError2(IF v2' = "nil" THEN Failures!Wrapped("PathError", "ENOENT")
                                              ELSE Failures!NoError))
    BY <1>2 DEF Failures!OpenMissing, Failures!Show
  <2>4. PICK tag \in {"notexist", "nil"} : v5' = Append(v5, tag)
    BY <2>3, Errors
  <2>9. v1 = 6 /\ v1' = 7
    BY <2>1
  <2>5. Told(Printed(v1) + 1, tag)
    <3>1. Printed(v1) + 1 = 5
      BY <2>9 DEF Printed
    <3> QED
      BY <2>4, <3>1 DEF Told
  <2>6. v1 \in 1..7 /\ v1 # 4 /\ v1' = v1 + 1
    BY <2>9
  <2>8. tag \in Tags
    BY <2>4 DEF Tags
  <2>7. v4' = [x \in Failures!Files |-> v4'[x]]
    BY <1>0, <2>1
  <2> QED
    BY <2>2, <2>4, <2>5, <2>6, <2>7, <2>8, ShowKeeps
<1>3. CASE Failures!LookDevNull2
  <2>1. v1 = 7 /\ v1' = 8 /\ UNCHANGED <<v2, v3, v4>>
    BY <1>3 DEF Failures!LookDevNull2, Failures!At
  <2>2. HoldsInv' /\ ClosesInv'
    BY <2>1 DEF ErrorInv, HoldsInv, ClosesInv
  <2>3. PICK e \in Failures!LookPath : v5' = Append(v5, Failures!printError2(e))
    BY <1>3 DEF Failures!LookDevNull2, Failures!Show
  <2>4. v5' = Append(v5, "permission")
    BY <2>3, Errors
  <2>9. v1 = 7 /\ v1' = 8
    BY <2>1
  <2>5. Told(Printed(v1) + 1, "permission")
    <3>1. Printed(v1) + 1 = 6
      BY <2>9 DEF Printed
    <3> QED
      BY <2>4, <3>1 DEF Told
  <2>6. v1 \in 1..7 /\ v1 # 4 /\ v1' = v1 + 1
    BY <2>9
  <2>8. "permission" \in Tags
    BY <2>4 DEF Tags
  <2>7. v4' = [x \in Failures!Files |-> v4'[x]]
    BY <1>0, <2>1
  <2> QED
    BY <2>2, <2>4, <2>5, <2>6, <2>7, <2>8, ShowKeeps
<1> QED
  BY <1>1, <1>2, <1>3

\* The file that is closed has not been closed before.
LEMMA CloseFKeeps ==
  ASSUME ErrorInv, Failures!CloseF
  PROVE  ErrorInv'
<1> USE DEF ErrorInv
<1>0. /\ v4 = [x \in Failures!Files |-> v4[x]]
      /\ Failures!Files = {"r", "w", "self", "first", "second"}
  BY DEF ErrorTypes, Failures!Files
<1>1. /\ v1 \in {4, 8} /\ v1' = v1 + 1 /\ UNCHANGED <<v2, v5>>
      /\ v2 = "nil" => UNCHANGED <<v3, v4>>
      /\ v2 # "nil" => v3' = v3 \ {v2} /\ v4' = [v4 EXCEPT ![v2] = @ + 1]
  BY DEF Failures!CloseF, Failures!At, Failures!Close
<1>2. ErrorTypes' /\ ToldInv'
  BY <1>0, <1>1 DEF ErrorTypes, ToldInv, Printed, Failures!Files
<1>3. v3' \ {"w"} = {}
  BY <1>1 DEF HoldsInv
<1>4. HoldsInv'
  BY <1>1, <1>3 DEF HoldsInv
<1>5. ClosesInv'
  <2>1. CASE v2 = "nil"
    BY <1>1, <2>1 DEF ClosesInv
  <2>2. CASE v2 # "nil"
    <3>1. v2 = IF v1 = 4 THEN "first" ELSE "second"
      BY <1>1, <2>2 DEF HoldsInv
    <3>2. /\ v4'[v2] = v4[v2] + 1 /\ \A x \in Failures!Files : x # v2 => v4'[x] = v4[x]
      BY <1>0, <1>1, <2>2, <3>1
    <3>3. CASE v1 = 4
      BY <1>0, <1>1, <3>1, <3>2, <3>3 DEF ClosesInv
    <3>4. CASE v1 = 8
      BY <1>0, <1>1, <3>1, <3>2, <3>4 DEF ClosesInv
    <3> QED
      BY <1>1, <3>3, <3>4
  <2> QED
    BY <2>1, <2>2
<1> QED
  BY <1>2, <1>4, <1>5

LEMMA ErrorsKept == ErrorsInv /\ [Next]_vars => ErrorsInv'
<1> SUFFICES ASSUME ErrorsInv, [Next]_vars, running' = "OsErrors" PROVE ErrorInv'
  BY DEF ErrorsInv
<1>1. ASSUME UNCHANGED <<v1, v2, v3, v4, v5>>, ErrorInv PROVE ErrorInv'
  <2>1. ErrorTypes' /\ ToldInv'
    BY <1>1 DEF ErrorInv, ErrorTypes, ToldInv, Failures!Files
  <2>2. HoldsInv' /\ ClosesInv'
    BY <1>1 DEF ErrorInv, HoldsInv, ClosesInv
  <2> QED
    BY <2>1, <2>2 DEF ErrorInv
<1>2. CASE UNCHANGED vars
  BY <1>1, <1>2 DEF vars, ErrorsInv
<1>3. CASE Of("OsErrors", Failures!Next, <<v6, v7, v8>>)
  <2>1. ErrorInv /\ Failures!Next
    BY <1>3 DEF Of, ErrorsInv
  <2> QED
    BY <1>1, <2>1, PipeKeeps, FirstErrorsKeep, LastErrorsKeep, CloseFKeeps
    DEF Failures!Next, Failures!Terminated, Failures!vars
<1> QED
  BY <1>2, <1>3 DEF Next, Of

LEMMA ErrorsInvariant == Spec => []ErrorsInv
<1>1. Init => ErrorsInv
  BY ErrorsStart
<1>2. ErrorsInv /\ [Next]_vars => ErrorsInv'
  BY ErrorsKept
<1> QED
  BY <1>1, <1>2, PTL DEF Spec

LEMMA ErrorsGood == ErrorInv => Failures!ClosedOnce /\ Failures!ToldApart
<1>1. ErrorInv => Failures!ClosedOnce
  BY DEF ErrorInv, HoldsInv, ClosesInv, Failures!ClosedOnce, Failures!Files
<1>2. ErrorInv => Failures!ToldApart
  <2> SUFFICES ASSUME ErrorInv, NEW n \in 1..Len(v5)
               PROVE  CASE n = 1 -> v5[n] = "closed"
                        [] n = 2 -> v5[n] \in {"invalid", "nil"}
                        [] n = 3 -> v5[n] \in {"permission", "nothing"}
                        [] n = 4 -> v5[n] # "other"
                        [] n = 5 -> v5[n] \in {"notexist", "nil"}
                        [] n = 6 -> v5[n] = "permission"
    BY DEF Failures!ToldApart
  <2>1. Told(n, v5[n])
    BY DEF ErrorInv, ToldInv
  <2>2. Len(v5) \in Nat /\ Len(v5) <= 6
    BY DEF ErrorInv, ErrorTypes
  <2>3. n \in 1..6
    BY <2>2
  <2>4. CASE n \in {1, 2, 3}
    BY <2>1, <2>4 DEF Told
  <2>5. CASE n \in {4, 5, 6}
    BY <2>1, <2>5 DEF Told
  <2>6. n \in {1, 2, 3} \/ n \in {4, 5, 6}
    BY <2>3
  <2> QED
    BY <2>4, <2>5, <2>6, Zenon
<1> QED
  BY <1>1, <1>2

\* Whatever call fails, however often the programs are killed and run again,
\* and however many profiles there are: a record is where its flags put it and
\* nothing of an earlier run shows (demo_file.go:23-79), the complete profiles
\* of a run are a prefix of them and no call of genProfile leaves a file open
\* (performance/demo.go:41-79), f closes each of its files once and nothing but the
\* end w of the pipe stays open, and the errors are told apart
\* (underlying_error.go:27-131).
THEOREM LeavesInOrder == Spec => []CleansUp
<1>1. FlagsInv /\ ProfilesInv /\ ErrorsInv => CleansUp
  BY FlagsGood, ProfilesGood, ErrorsGood DEF FlagsInv, ProfilesInv, ErrorsInv, CleansUp
<1> QED
  BY <1>1, FlagsInvariant, ProfilesInvariant, ErrorsInvariant, PTL

-----------------------------------------------------------------------------
(* The length: v1 is data_len, v2 is s1, v3 is s2, v4 is data and v5 is pc.  *)

Chars == -1..15

LengthInv ==
  /\ v1 \in DataLens
  /\ v2 \in Seq(Chars) /\ v3 \in Seq(Chars) /\ Len(v2) <= 2 /\ Len(v3) <= 2
  /\ v5 \in {"split", "decode", "returned", "panic", "fatal"}
  /\ v5 = "decode" =>
       /\ Length!Accepted(Length!FormatInt(v1))
       /\ v2 = Length!First(Length!FormatInt(v1)) /\ v3 = Length!Second(Length!FormatInt(v1))
  /\ v4 = IF v5 = "returned" THEN <<v1 \div 256, v1 % 256>> ELSE <<>>
  /\ Length!OutcomeFits

LengthsInv == running = "TlvLength" => LengthInv

\* The digit of n at a place, the last one at place 1.
Hex(n, k) == (n \div Length!Places[k]) % 16

LEMMA HexDigits ==
  ASSUME NEW n \in Nat
  PROVE  /\ \A k \in 1..5 : Hex(n, k) \in 0..15
         /\ Length!Width(n) \in 1..5
         /\ Length!Width(n) = 1 <=> n < 16
         /\ Length!Width(n) \in 2..4 <=> (n >= 16 /\ n <= 65535)
         /\ Length!Width(n) < 4 <=> n < 4096
         /\ Length!Width(n) = 2 => n \div 256 = 0 /\ n % 256 = 16 * Hex(n, 2) + Hex(n, 1)
         /\ Length!Width(n) = 3 =>
              n \div 256 = Hex(n, 3) /\ n % 256 = 16 * Hex(n, 2) + Hex(n, 1)
         /\ Length!Width(n) = 4 =>
              /\ n \div 256 = 16 * Hex(n, 4) + Hex(n, 3)
              /\ n % 256 = 16 * Hex(n, 2) + Hex(n, 1)
<1>0. /\ Hex(n, 1) = n % 16 /\ Hex(n, 2) = (n \div 16) % 16 /\ Hex(n, 3) = (n \div 256) % 16
      /\ Hex(n, 4) = (n \div 4096) % 16 /\ Hex(n, 5) = (n \div 65536) % 16
  BY DEF Hex, Length!Places
<1>1. \A k \in 1..5 : Hex(n, k) \in 0..15
  BY <1>0
<1>2. /\ Length!Width(n) \in 1..5
      /\ Length!Width(n) = 1 <=> n < 16
      /\ Length!Width(n) \in 2..4 <=> (n >= 16 /\ n <= 65535)
      /\ Length!Width(n) < 4 <=> n < 4096
  BY DEF Length!Width
<1>3. Length!Width(n) = 2 => n \div 256 = 0 /\ n % 256 = 16 * Hex(n, 2) + Hex(n, 1)
  BY <1>0 DEF Length!Width
<1>4. Length!Width(n) = 3 =>
        n \div 256 = Hex(n, 3) /\ n % 256 = 16 * Hex(n, 2) + Hex(n, 1)
  BY <1>0 DEF Length!Width
<1>5. Length!Width(n) = 4 =>
        /\ n \div 256 = 16 * Hex(n, 4) + Hex(n, 3)
        /\ n % 256 = 16 * Hex(n, 2) + Hex(n, 1)
  <2> SUFFICES ASSUME n >= 4096, n < 65536
               PROVE  /\ n \div 256 = 16 * Hex(n, 4) + Hex(n, 3)
                      /\ n % 256 = 16 * Hex(n, 2) + Hex(n, 1)
    BY DEF Length!Width
  <2>1. n \div 4096 = (n \div 256) \div 16 /\ (n \div 4096) % 16 = n \div 4096
    OBVIOUS
  <2>2. n % 256 = 16 * Hex(n, 2) + Hex(n, 1)
    BY <1>0
  <2>3. ASSUME NEW m \in Nat PROVE m = 16 * (m \div 16) + (m % 16)
    OBVIOUS
  <2>4. n \div 256 \in Nat
    OBVIOUS
  <2> QED
    BY <1>0, <2>1, <2>2, <2>3, <2>4
<1> QED
  BY <1>1, <1>2, <1>3, <1>4, <1>5

LEMMA Hexadecimal ==
  ASSUME NEW n \in Nat
  PROVE  LET w == Length!Width(n) IN
         /\ Length!Digits(n) \in Seq(0..15) /\ Len(Length!Digits(n)) = w
         /\ w = 1 => Length!Digits(n) = <<Hex(n, 1)>>
         /\ w = 2 => Length!Digits(n) = <<Hex(n, 2), Hex(n, 1)>>
         /\ w = 3 => Length!Digits(n) = <<Hex(n, 3), Hex(n, 2), Hex(n, 1)>>
         /\ w = 4 => Length!Digits(n) = <<Hex(n, 4), Hex(n, 3), Hex(n, 2), Hex(n, 1)>>
<1> DEFINE s == Length!Digits(n)
           w == Length!Width(n)
<1>1. w \in 1..5 /\ \A k \in 1..5 : Hex(n, k) \in 0..15
  BY HexDigits
<1>2. s = [k \in 1..w |-> Hex(n, w + 1 - k)]
  BY DEF Length!Digits, Hex
<1> SUFFICES
      /\ s \in Seq(0..15) /\ Len(s) = w
      /\ w = 1 => s = <<Hex(n, 1)>>
      /\ w = 2 => s = <<Hex(n, 2), Hex(n, 1)>>
      /\ w = 3 => s = <<Hex(n, 3), Hex(n, 2), Hex(n, 1)>>
      /\ w = 4 => s = <<Hex(n, 4), Hex(n, 3), Hex(n, 2), Hex(n, 1)>>
  BY Zenon
<1> HIDE DEF s, w
<1>3. s \in [1..w -> 0..15] /\ w \in Nat
  <2>1. ASSUME NEW k \in 1..w PROVE w + 1 - k \in 1..5
    BY <1>1
  <2>2. ASSUME NEW k \in 1..w PROVE Hex(n, w + 1 - k) \in 0..15
    BY <1>1, <2>1
  <2> QED
    BY <1>1, <1>2, <2>2
<1>4. s \in Seq(0..15) /\ Len(s) = w
  BY <1>3, SeqDef
<1>5. \A k \in 1..w : s[k] = Hex(n, w + 1 - k)
  BY <1>2
<1> QED
  BY <1>1, <1>4, <1>5

\* What strconv.FormatInt makes of a length below 0.
LEMMA Negative ==
  ASSUME NEW n \in Int, n < 0
  PROVE  /\ Length!FormatInt(n) \in Seq(Chars)
         /\ Length!FormatInt(n)[1] = -1
         /\ Len(Length!FormatInt(n)) = 1 + Length!Width(-n)
<1> DEFINE d == Length!Digits(-n)
<1>1. Length!FormatInt(n) = <<-1>> \o d
  BY DEF Length!FormatInt, Length!Magnitude, Length!Minus
<1>2. -n \in Nat
  OBVIOUS
<1>3. d \in Seq(0..15) /\ Len(d) = Length!Width(-n)
  BY <1>2, Hexadecimal
<1> HIDE DEF d
<1>4. d \in Seq(Chars)
  BY <1>3, SeqMonotonic DEF Chars
<1>5. <<-1>> \in Seq(Chars) /\ <<-1>>[1] = -1 /\ Len(<<-1>>) = 1
  BY DEF Chars
<1> QED
  BY <1>1, <1>3, <1>4, <1>5, ConcatProperties

\* The two texts a length is cut into.
LEMMA Cut ==
  ASSUME NEW s \in Seq(Chars), Len(s) \in 1..4
  PROVE  /\ Length!First(s) = IF Len(s) = 4 THEN <<s[1], s[2]>>
                              ELSE IF Len(s) = 3 THEN <<0, s[1]>> ELSE <<0, 0>>
         /\ Length!Second(s) = IF Len(s) > 2 THEN <<s[Len(s) - 1], s[Len(s)]>> ELSE s
<1>1. ASSUME NEW m \in 1..3, NEW k \in 2..4, k = m + 1, k <= Len(s)
      PROVE  SubSeq(s, m, k) = <<s[m], s[k]>>
  <2> DEFINE t == SubSeq(s, m, k)
  <2>1. t \in Seq(Chars) /\ Len(t) = 2 /\ t[1] = s[m] /\ t[2] = s[k]
    <3>1. m \in 1..Len(s) + 1 /\ k \in (m - 1)..Len(s) /\ k - m + 1 = 2
      BY <1>1
    <3>2. t \in Seq(Chars) /\ Len(t) = k - m + 1 /\ \A i \in 1..(k - m + 1) : t[i] = s[m + i - 1]
      BY <3>1, SubSeqProperties
    <3> HIDE DEF t
    <3>3. 1 \in 1..(k - m + 1) /\ 2 \in 1..(k - m + 1) /\ m + 1 - 1 = m /\ m + 2 - 1 = k
      BY <1>1
    <3>4. t[1] = s[m] /\ t[2] = s[k]
      BY <3>2, <3>3, Zenon
    <3> QED
      BY <3>1, <3>2, <3>4, Zenon
  <2> HIDE DEF t
  <2>2. t = <<t[1], t[2]>>
    BY <2>1
  <2> QED
    BY <2>1, <2>2 DEF t
<1>2. CASE Len(s) = 4
  <2>1. SubSeq(s, 1, 2) = <<s[1], s[2]>> /\ SubSeq(s, 3, 4) = <<s[3], s[4]>>
    BY <1>1, <1>2
  <2>2. Length!First(s) = SubSeq(s, 1, 2) /\ Length!Second(s) = SubSeq(s, 3, 4)
    BY <1>2 DEF Length!First, Length!Second
  <2> QED
    BY <1>2, <2>1, <2>2
<1>3. CASE Len(s) = 3
  <2>1. SubSeq(s, 2, 3) = <<s[2], s[3]>>
    BY <1>1, <1>3
  <2>2. Length!First(s) = <<0, s[1]>> /\ Length!Second(s) = SubSeq(s, 2, 3)
    BY <1>3 DEF Length!First, Length!Second
  <2> QED
    BY <1>3, <2>1, <2>2
<1>4. CASE Len(s) < 3
  <2>1. Len(s) # 4
    BY <1>4
  <2>2. Len(s) # 3
    BY <1>4
  <2>3. ~(Len(s) > 2)
    BY <1>4
  <2>4. Length!First(s) = <<0, 0>> /\ Length!Second(s) = s
    BY <2>1, <2>2, <2>3, Zenon DEF Length!First, Length!Second
  <2> QED
    BY <2>1, <2>2, <2>3, <2>4, Zenon
<1>5. Len(s) = 4 \/ Len(s) = 3 \/ Len(s) < 3
  <2> DEFINE n == Len(s)
  <2>1. n \in 1..4
    OBVIOUS
  <2> HIDE DEF n
  <2>2. n = 4 \/ n = 3 \/ n < 3
    BY <2>1
  <2> QED
    BY <2>2 DEF n
<1> QED
  BY <1>2, <1>3, <1>4, <1>5, Zenon

\* The texts and the bytes of a length that is not refused: none for a sign and
\* for one digit, those of the length for two to four digits.
LEMMA Halves ==
  ASSUME NEW n \in Int, Length!Accepted(Length!FormatInt(n)),
         NEW a, NEW b, a = Length!First(Length!FormatInt(n)),
         b = Length!Second(Length!FormatInt(n))
  PROVE  /\ a \in Seq(Chars) /\ b \in Seq(Chars) /\ Len(a) <= 2 /\ Len(b) <= 2
         /\ n >= -4095 /\ n <= 65535
         /\ n >= 16 => /\ Length!Decodes(a) /\ Length!Decodes(b)
                       /\ Length!Byte(a) = n \div 256 /\ Length!Byte(b) = n % 256
         /\ n < 16 => ~(Length!Decodes(a) /\ Length!Decodes(b))
<1> DEFINE s == Length!FormatInt(n)
<1>0. ASSUME NEW k \in 1..5, n >= 0 PROVE Hex(n, k) \in Chars /\ Hex(n, k) # -1
  BY <1>0, HexDigits DEF Chars
<1>1. CASE n < 0
  <2>1. s \in Seq(Chars) /\ s[1] = -1 /\ Len(s) <= 4 /\ Len(s) = 1 + Length!Width(-n)
    BY <1>1, Negative DEF Length!Accepted
  <2>2. Length!Width(-n) \in 1..3 /\ n >= -4095
    BY <1>1, <2>1, HexDigits
  <2> HIDE DEF s
  <2>3. /\ a = IF Len(s) = 4 THEN <<-1, s[2]>> ELSE IF Len(s) = 3 THEN <<0, -1>> ELSE <<0, 0>>
        /\ b = IF Len(s) > 2 THEN <<s[Len(s) - 1], s[Len(s)]>> ELSE s
    <3>1. Len(s) \in 1..4 /\ a = Length!First(s) /\ b = Length!Second(s)
      BY <2>1, <2>2 DEF s
    <3> QED
      BY <2>1, <3>1, Cut
  <2>4. ~(Length!Decodes(a) /\ Length!Decodes(b))
    BY <2>1, <2>2, <2>3 DEF Length!Decodes, Length!Minus
  <2>5. \A k \in 1..Len(s) : s[k] \in Chars
    BY <2>1
  <2>6. a \in Seq(Chars) /\ Len(a) = 2
    <3>1. s[2] \in Chars /\ -1 \in Chars /\ 0 \in Chars
      BY <2>1, <2>2, <2>5 DEF Chars
    <3> QED
      BY <2>3, <3>1
  <2>7. b \in Seq(Chars) /\ Len(b) = 2
    BY <2>1, <2>2, <2>3, <2>5
  <2> QED
    BY <1>1, <2>2, <2>4, <2>6, <2>7
<1>2. CASE n >= 0
  <2>1. s = Length!Digits(n)
    BY <1>2 DEF Length!FormatInt, Length!Magnitude
  <2>2. Length!Width(n) \in 1..4
    BY <1>2, <2>1, Hexadecimal, HexDigits DEF Length!Accepted
  <2>3. s \in Seq(Chars) /\ Len(s) = Length!Width(n)
    BY <1>2, <2>1, Hexadecimal, SeqMonotonic DEF Chars
  <2>4. /\ a = IF Len(s) = 4 THEN <<s[1], s[2]>> ELSE IF Len(s) = 3 THEN <<0, s[1]>> ELSE <<0, 0>>
        /\ b = IF Len(s) > 2 THEN <<s[Len(s) - 1], s[Len(s)]>> ELSE s
    BY <2>2, <2>3, Cut
  <2>5. CASE Length!Width(n) = 1
    <3>1. a = <<0, 0>> /\ b = <<Hex(n, 1)>> /\ n < 16
      BY <1>2, <2>1, <2>3, <2>4, <2>5, Hexadecimal, HexDigits
    <3> QED
      BY <1>0, <1>2, <3>1 DEF Length!Decodes, Chars
  <2>6. CASE Length!Width(n) = 2
    <3>1. /\ a = <<0, 0>> /\ b = <<Hex(n, 2), Hex(n, 1)>> /\ n >= 16 /\ n <= 65535
          /\ n \div 256 = 0 /\ n % 256 = 16 * Hex(n, 2) + Hex(n, 1)
      BY <1>2, <2>1, <2>3, <2>4, <2>6, Hexadecimal, HexDigits
    <3> QED
      BY <1>0, <1>2, <3>1 DEF Length!Decodes, Length!Byte, Length!Minus, Chars
  <2>7. CASE Length!Width(n) = 3
    <3>1. /\ a = <<0, Hex(n, 3)>> /\ b = <<Hex(n, 2), Hex(n, 1)>> /\ n >= 16 /\ n <= 65535
          /\ n \div 256 = Hex(n, 3) /\ n % 256 = 16 * Hex(n, 2) + Hex(n, 1)
      BY <1>2, <2>1, <2>3, <2>4, <2>7, Hexadecimal, HexDigits
    <3> QED
      BY <1>0, <1>2, <3>1 DEF Length!Decodes, Length!Byte, Length!Minus, Chars
  <2>8. CASE Length!Width(n) = 4
    <3>1. /\ a = <<Hex(n, 4), Hex(n, 3)>> /\ b = <<Hex(n, 2), Hex(n, 1)>>
          /\ n >= 16 /\ n <= 65535
          /\ n \div 256 = 16 * Hex(n, 4) + Hex(n, 3)
          /\ n % 256 = 16 * Hex(n, 2) + Hex(n, 1)
      BY <1>2, <2>1, <2>3, <2>4, <2>8, Hexadecimal, HexDigits
    <3> QED
      BY <1>0, <1>2, <3>1 DEF Length!Decodes, Length!Byte, Length!Minus, Chars
  <2> QED
    BY <2>2, <2>5, <2>6, <2>7, <2>8
<1> QED
  BY <1>1, <1>2

LEMMA Whole == DataLens \subseteq Int
BY DataDemosAssumption

LEMMA TooLong ==
  ASSUME NEW n \in Int, ~Length!Accepted(Length!FormatInt(n))
  PROVE  n > 65535 \/ n < -4095
<1>1. CASE n < 0
  <2>1. Length!Width(-n) > 3
    BY <1>1, Negative, HexDigits DEF Length!Accepted
  <2>2. -n >= 4096
    BY <1>1, <2>1, HexDigits
  <2> QED
    BY <1>1, <2>2
<1>2. CASE n >= 0
  <2>1. Length!FormatInt(n) = Length!Digits(n)
    BY <1>2 DEF Length!FormatInt, Length!Magnitude
  <2>2. Length!Width(n) > 4
    BY <1>2, <2>1, Hexadecimal, HexDigits DEF Length!Accepted
  <2>3. ~(n >= 16 /\ n <= 65535) /\ ~(n < 16)
    BY <1>2, <2>2, HexDigits
  <2> QED
    BY <1>2, <2>3
<1> QED
  BY <1>1, <1>2

LEMMA SplitKeeps ==
  ASSUME LengthInv, Length!Split
  PROVE  LengthInv'
<1> DEFINE s == Length!FormatInt(v1)
<1>1. /\ v5 = "split" /\ v1' = v1 /\ v4' = v4 /\ v1 \in Int /\ v1 \in DataLens
      /\ IF Length!Accepted(s)
           THEN v2' = Length!First(s) /\ v3' = Length!Second(s) /\ v5' = "decode"
           ELSE v5' = "fatal" /\ v2' = v2 /\ v3' = v3
  BY Whole DEF LengthInv, Length!Split
<1>2. v4' = <<>>
  BY <1>1 DEF LengthInv
<1>3. CASE Length!Accepted(s)
  <2>1. v2' \in Seq(Chars) /\ v3' \in Seq(Chars) /\ Len(v2') <= 2 /\ Len(v3') <= 2
    BY <1>1, <1>3, Halves
  <2>2. v2' = Length!First(s) /\ v3' = Length!Second(s) /\ v5' = "decode"
    BY <1>1, <1>3
  <2> HIDE DEF s
  <2>3. v5' # "returned" /\ v5' # "split" /\ Length!OutcomeFits'
    BY <2>2 DEF Length!OutcomeFits
  <2>4. v1' \in DataLens
    BY <1>1
  <2> QED
    BY <1>1, <1>2, <1>3, <2>1, <2>2, <2>3, <2>4 DEF LengthInv, s
<1>4. CASE ~Length!Accepted(s)
  <2>1. v1 > 65535 \/ v1 < -4095
    BY <1>1, <1>4, TooLong
  <2>2. v5' = "fatal" /\ v2' = v2 /\ v3' = v3
    BY <1>1, <1>4
  <2>3. Length!OutcomeFits'
    BY <1>1, <2>1, <2>2 DEF Length!OutcomeFits
  <2>4. v1' \in DataLens
    BY <1>1
  <2> QED
    BY <1>1, <1>2, <2>2, <2>3, <2>4 DEF LengthInv
<1> QED
  BY <1>3, <1>4

LEMMA DecodeKeeps ==
  ASSUME LengthInv, Length!Decode
  PROVE  LengthInv'
<1>1. /\ v5 = "decode" /\ UNCHANGED <<v1, v2, v3>> /\ v1 \in Int /\ v1' \in DataLens
      /\ IF Length!Decodes(v2) /\ Length!Decodes(v3)
           THEN v4' = <<Length!Byte(v2), Length!Byte(v3)>> /\ v5' = "returned"
           ELSE v5' = "panic" /\ v4' = v4
  BY Whole DEF LengthInv, Length!Decode
<1>2. /\ Length!Accepted(Length!FormatInt(v1))
      /\ v2 = Length!First(Length!FormatInt(v1)) /\ v3 = Length!Second(Length!FormatInt(v1))
      /\ v4 = <<>>
  BY <1>1 DEF LengthInv
<1>3. /\ v1 >= -4095 /\ v1 <= 65535
      /\ v1 >= 16 => /\ Length!Decodes(v2) /\ Length!Decodes(v3)
                     /\ Length!Byte(v2) = v1 \div 256 /\ Length!Byte(v3) = v1 % 256
      /\ v1 < 16 => ~(Length!Decodes(v2) /\ Length!Decodes(v3))
  BY <1>1, <1>2, Halves
<1>4. /\ v5' \in {"returned", "panic"}
      /\ v4' = IF v5' = "returned" THEN <<v1 \div 256, v1 % 256>> ELSE <<>>
      /\ v5' = "returned" => v1 >= 16
      /\ v5' = "panic" => v1 < 16
  BY <1>1, <1>2, <1>3
<1>5. Length!OutcomeFits'
  BY <1>1, <1>3, <1>4 DEF Length!OutcomeFits
<1>6. v2' \in Seq(Chars) /\ v3' \in Seq(Chars) /\ Len(v2') <= 2 /\ Len(v3') <= 2
  BY <1>1 DEF LengthInv
<1> QED
  BY <1>1, <1>4, <1>5, <1>6 DEF LengthInv

LEMMA LengthsStart == Init => LengthsInv
<1> SUFFICES ASSUME Init, running = "TlvLength" PROVE LengthInv
  BY DEF LengthsInv
<1>1. Length!Init
  BY DEF Init
<1>2. Length!OutcomeFits
  BY <1>1 DEF Length!Init, Length!OutcomeFits
<1> QED
  BY <1>1, <1>2 DEF Length!Init, LengthInv

LEMMA LengthsKept == LengthsInv /\ [Next]_vars => LengthsInv'
<1> SUFFICES ASSUME LengthsInv, [Next]_vars, running' = "TlvLength" PROVE LengthInv'
  BY DEF LengthsInv
<1>1. ASSUME UNCHANGED <<v1, v2, v3, v4, v5>>, LengthInv PROVE LengthInv'
  BY <1>1 DEF LengthInv, Length!OutcomeFits
<1>2. CASE UNCHANGED vars
  BY <1>1, <1>2 DEF vars, LengthsInv
<1>3. CASE Of("TlvLength", Length!Next, <<v6, v7, v8>>)
  <2>1. LengthInv /\ Length!Next
    BY <1>3 DEF Of, LengthsInv
  <2> QED
    BY <1>1, <2>1, SplitKeeps, DecodeKeeps DEF Length!Next, Length!Terminated, Length!vars
<1> QED
  BY <1>2, <1>3 DEF Next, Of

LEMMA LengthsInvariant == Spec => []LengthsInv
<1>1. Init => LengthsInv
  BY LengthsStart
<1>2. LengthsInv /\ [Next]_vars => LengthsInv'
  BY LengthsKept
<1> QED
  BY <1>1, <1>2, PTL DEF Spec

LEMMA LengthsGood == LengthInv => Length!TypeOK /\ Length!Encodes /\ Length!OutcomeFits
<1> SUFFICES ASSUME LengthInv PROVE Length!TypeOK /\ Length!Encodes /\ Length!OutcomeFits
  OBVIOUS
<1>1. Length!Encodes /\ Length!OutcomeFits
  BY DEF LengthInv, Length!Encodes
<1>2. v4 \in {<<>>} \cup (0..255) \X (0..255)
  <2>1. CASE v5 = "returned"
    <3>1. v1 \in Int /\ v1 >= 16 /\ v1 <= 65535
      BY <1>1, <2>1, Whole DEF LengthInv, Length!OutcomeFits
    <3>2. v1 \div 256 \in 0..255 /\ v1 % 256 \in 0..255
      BY <3>1
    <3> QED
      BY <2>1, <3>2 DEF LengthInv
  <2>2. CASE v5 # "returned"
    BY <2>2 DEF LengthInv
  <2> QED
    BY <2>1, <2>2
<1> QED
  BY <1>1, <1>2 DEF LengthInv, Length!TypeOK, Chars

-----------------------------------------------------------------------------
(* The slices: v1 is prog, v2 is step, v3 is heap, v4 is slices, v5 is i and *)
(* v6 is copied.                                                             *)

Windows == [array : Nat, off : Nat, len : Nat, cap : Nat]

Fits(h, w) ==
  w \in Windows /\ w.array \in 1..Len(h) /\ w.len <= w.cap /\ w.off + w.cap <= Len(h[w.array])

FitInv == v3 \in Seq(Seq(Int)) /\ \A s \in DOMAIN v4 : Fits(v3, v4[s])

LEMMA ViewElems ==
  ASSUME FitInv, NEW s \in DOMAIN v4
  PROVE  /\ Sliced!View(s) \in Seq(Int) /\ Len(Sliced!View(s)) = v4[s].len
         /\ \A k \in 1..v4[s].len : Sliced!View(s)[k] = v3[v4[s].array][v4[s].off + k]
<1>1. /\ v4[s] \in Windows /\ v3[v4[s].array] \in Seq(Int)
      /\ v4[s].off + v4[s].len <= Len(v3[v4[s].array])
  BY DEF FitInv, Fits, Windows
<1>2. /\ v4[s].off \in Nat /\ v4[s].len \in Nat
  BY <1>1 DEF Windows
<1> DEFINE n == v4[s].len
           o == v4[s].off
           a == v3[v4[s].array]
<1>3. Sliced!View(s) = [k \in 1..n |-> a[o + (k - 1) + 1]]
  BY DEF Sliced!View, Sliced!Elem
<1> HIDE DEF n, o, a
<1>4. ASSUME NEW k \in 1..n PROVE a[o + (k - 1) + 1] = a[o + k] /\ a[o + k] \in Int
  <2>1. o \in Nat /\ n \in Nat /\ a \in Seq(Int) /\ o + n <= Len(a)
    BY <1>1, <1>2 DEF n, o, a
  <2>2. o + (k - 1) + 1 = o + k /\ o + k \in 1..Len(a)
    BY <2>1
  <2> QED
    BY <2>1, <2>2
<1>5. Sliced!View(s) \in [1..n -> Int] /\ n \in Nat
  BY <1>2, <1>3, <1>4 DEF n
<1>6. Sliced!View(s) \in Seq(Int) /\ Len(Sliced!View(s)) = n
  BY <1>5, SeqDef
<1>7. \A k \in 1..n : Sliced!View(s)[k] = a[o + k]
  BY <1>3, <1>4
<1> QED
  BY <1>6, <1>7 DEF n, o, a

LEMMA Joined ==
  ASSUME NEW s \in Seq(Int), NEW t \in Seq(Int)
  PROVE  /\ s \o t \in Seq(Int) /\ Len(s \o t) = Len(s) + Len(t)
         /\ \A k \in 1..Len(s) : (s \o t)[k] = s[k]
         /\ \A k \in 1..Len(t) : (s \o t)[Len(s) + k] = t[k]
<1> DEFINE u == s \o t
<1>1. /\ u \in Seq(Int) /\ Len(u) = Len(s) + Len(t)
      /\ \A k \in 1..(Len(s) + Len(t)) : u[k] = IF k <= Len(s) THEN s[k] ELSE t[k - Len(s)]
  BY ConcatProperties
<1> HIDE DEF u
<1>2. Len(s) \in Nat /\ Len(t) \in Nat
  OBVIOUS
<1>3. ASSUME NEW k \in 1..Len(t) PROVE u[Len(s) + k] = t[k]
  <2>1. Len(s) + k \in 1..(Len(s) + Len(t)) /\ ~(Len(s) + k <= Len(s)) /\ Len(s) + k - Len(s) = k
    BY <1>2
  <2> QED
    BY <1>1, <2>1
<1>4. \A k \in 1..Len(s) : u[k] = s[k]
  BY <1>1, <1>2
<1> QED
  BY <1>1, <1>3, <1>4 DEF u

LEMMA LongerWindow ==
  ASSUME NEW w \in Windows
  PROVE  [w EXCEPT !.len = @ + 1] =
           [array |-> w.array, off |-> w.off, len |-> w.len + 1, cap |-> w.cap]
BY DEF Windows

\* The array an append moves to.
LEMMA Grown ==
  ASSUME NEW view \in Seq(Int), NEW x \in Int, NEW spare \in Nat
  PROVE  LET grown == view \o <<x>> \o [k \in 1..spare |-> 0] IN
         /\ grown \in Seq(Int) /\ Len(grown) = Len(view) + 1 + spare
         /\ \A k \in 1..Len(view) : grown[k] = view[k]
         /\ grown[Len(view) + 1] = x
<1> DEFINE zeros == [k \in 1..spare |-> 0]
           longer == view \o <<x>>
           grown == view \o <<x>> \o zeros
<1>1. zeros \in Seq(Int) /\ Len(zeros) = spare
  <2>1. zeros \in [1..spare -> Int]
    OBVIOUS
  <2> QED
    BY <2>1, SeqDef
<1>2. <<x>> \in Seq(Int) /\ Len(<<x>>) = 1 /\ <<x>>[1] = x
  OBVIOUS
<1>3. /\ longer \in Seq(Int) /\ Len(longer) = Len(view) + 1
      /\ \A k \in 1..Len(view) : longer[k] = view[k]
      /\ longer[Len(view) + 1] = x
  BY <1>2, Joined
<1>4. grown = longer \o zeros
  OBVIOUS
<1>5. Len(view) \in Nat
  OBVIOUS
<1> SUFFICES
      /\ grown \in Seq(Int) /\ Len(grown) = Len(view) + 1 + spare
      /\ \A k \in 1..Len(view) : grown[k] = view[k]
      /\ grown[Len(view) + 1] = x
  BY Zenon
<1> HIDE DEF longer, zeros, grown
<1>6. /\ grown \in Seq(Int) /\ Len(grown) = Len(longer) + spare
      /\ \A k \in 1..Len(longer) : grown[k] = longer[k]
  BY <1>1, <1>3, <1>4, Joined
<1> QED
  BY <1>3, <1>5, <1>6

LEMMA Changed ==
  ASSUME NEW S, NEW s \in Seq(S), NEW n \in 1..Len(s), NEW e \in S
  PROVE  LET t == [s EXCEPT ![n] = e] IN
         /\ t \in Seq(S) /\ Len(t) = Len(s) /\ t[n] = e
         /\ \A m \in 1..Len(s) : m # n => t[m] = s[m]
BY ExceptSeq

\* One element written in place.
LEMMA Poked ==
  ASSUME NEW h \in Seq(Seq(Int)), NEW a \in 1..Len(h), NEW p \in 1..Len(h[a]), NEW x \in Int
  PROVE  LET g == [h EXCEPT ![a][p] = x] IN
         /\ g \in Seq(Seq(Int)) /\ Len(g) = Len(h)
         /\ \A n \in 1..Len(h) : Len(g[n]) = Len(h[n])
         /\ g[a][p] = x
         /\ \A n \in 1..Len(h) : \A k \in 1..Len(h[n]) : ~(n = a /\ k = p) => g[n][k] = h[n][k]
<1> DEFINE e == [h[a] EXCEPT ![p] = x]
           g == [h EXCEPT ![a][p] = x]
<1>1. h[a] \in Seq(Int)
  OBVIOUS
<1>2. /\ e \in Seq(Int) /\ Len(e) = Len(h[a]) /\ e[p] = x
      /\ \A k \in 1..Len(h[a]) : k # p => e[k] = h[a][k]
  BY <1>1, Changed
<1>3. g = [h EXCEPT ![a] = e]
  OBVIOUS
<1> SUFFICES
      /\ g \in Seq(Seq(Int)) /\ Len(g) = Len(h)
      /\ \A n \in 1..Len(h) : Len(g[n]) = Len(h[n])
      /\ g[a][p] = x
      /\ \A n \in 1..Len(h) : \A k \in 1..Len(h[n]) : ~(n = a /\ k = p) => g[n][k] = h[n][k]
  BY Zenon
<1> HIDE DEF e, g
<1>4. /\ g \in Seq(Seq(Int)) /\ Len(g) = Len(h) /\ g[a] = e
      /\ \A n \in 1..Len(h) : n # a => g[n] = h[n]
  BY <1>2, <1>3, Changed
<1> QED
  BY <1>2, <1>4

\* The elements after x has been appended to w, which has become new.
Appended(w, x, new) ==
  /\ Len(v3') >= Len(v3) /\ new.len = w.len + 1
  /\ \A n \in 1..Len(v3) : \A k \in 1..Len(v3[n]) :
       ~(Sliced!InPlace(w) /\ n = w.array /\ k = w.off + w.len + 1) => v3'[n][k] = v3[n][k]
  /\ IF Sliced!InPlace(w) THEN new.array = w.array /\ new.off = w.off /\ new.cap = w.cap
     ELSE new.array = Len(v3) + 1 /\ new.off = 0
  /\ \A k \in 1..w.len : v3'[new.array][new.off + k] = v3[w.array][w.off + k]
  /\ v3'[new.array][new.off + w.len + 1] = x

\* The place behind a window, in its array if the window has room left.
LEMMA PlaceBehind ==
  ASSUME NEW off \in Nat, NEW len \in Nat, NEW cap \in Nat, NEW n \in Nat,
         len <= cap, off + cap <= n
  PROVE  /\ len < cap => off + len + 1 \in 1..n
         /\ \A k \in 1..len : off + k \in 1..n /\ off + k # off + len + 1
OBVIOUS

\* What an append does to the arrays and the windows, wherever it ends up.
LEMMA AppendFits ==
  ASSUME FitInv, Sliced!DoAppend, Sliced!Op.src \in DOMAIN v4, Sliced!Op.v \in Int
  PROVE  /\ FitInv'
         /\ DOMAIN v4' = DOMAIN v4 \cup {Sliced!Op.dst}
         /\ \A s \in DOMAIN v4 \ {Sliced!Op.dst} : v4'[s] = v4[s]
         /\ Appended(v4[Sliced!Op.src], Sliced!Op.v, v4'[Sliced!Op.dst])
<1> DEFINE w == v4[Sliced!Op.src]
           x == Sliced!Op.v
           dst == Sliced!Op.dst
<1>1. /\ v3 \in Seq(Seq(Int)) /\ w \in Windows /\ w.array \in 1..Len(v3) /\ w.len <= w.cap
      /\ w.off + w.cap <= Len(v3[w.array]) /\ v3[w.array] \in Seq(Int)
  BY DEF FitInv, Fits
<1>2. /\ w.off \in Nat /\ w.len \in Nat /\ w.cap \in Nat /\ w.array \in Nat
  BY <1>1 DEF Windows
<1>3. ASSUME NEW win, v4' = [s \in DOMAIN v4 \cup {dst} |-> IF s = dst THEN win ELSE v4[s]]
      PROVE  /\ DOMAIN v4' = DOMAIN v4 \cup {dst}
             /\ \A s \in DOMAIN v4 \ {dst} : v4'[s] = v4[s]
             /\ v4'[dst] = win
  BY <1>3
<1>0. /\ w = v4[Sliced!Op.src] /\ x = Sliced!Op.v /\ dst = Sliced!Op.dst /\ x \in Int
      /\ Sliced!Op.src \in DOMAIN v4
  OBVIOUS
<1> HIDE DEF w, x, dst
<1>6. /\ w.array \in 1..Len(v3) /\ w.len <= w.cap /\ w.off + w.cap <= Len(v3[w.array])
      /\ Len(v3) \in Nat /\ Len(v3[w.array]) \in Nat
  BY <1>1
<1>4. CASE Sliced!InPlace(w)
  <2>1. /\ v3' = [v3 EXCEPT ![w.array][w.off + w.len + 1] = x]
        /\ v4' = [s \in DOMAIN v4 \cup {dst} |-> IF s = dst THEN [w EXCEPT !.len = @ + 1] ELSE v4[s]]
        /\ w.len < w.cap
    BY <1>0, <1>4 DEF Sliced!DoAppend, Sliced!Bind, Sliced!InPlace
  <2> DEFINE p == w.off + w.len + 1
  <2>2. p \in 1..Len(v3[w.array])
    <3>1. w.len < w.cap
      BY <2>1
    <3> QED
      BY <1>2, <1>6, <3>1, PlaceBehind
  <2>0. p = w.off + w.len + 1 /\ v3' = [v3 EXCEPT ![w.array][p] = x]
    BY <2>1
  <2> HIDE DEF p
  <2>3. /\ v3' \in Seq(Seq(Int)) /\ Len(v3') = Len(v3)
        /\ v3'[w.array] = [v3[w.array] EXCEPT ![p] = x]
        /\ \A n \in 1..Len(v3) : n # w.array => v3'[n] = v3[n]
    <3> DEFINE e == [v3[w.array] EXCEPT ![p] = x]
    <3>1. e \in Seq(Int)
      BY <1>0, <1>1, <2>2
    <3>2. v3' = [v3 EXCEPT ![w.array] = e]
      BY <2>0
    <3> HIDE DEF e
    <3>3. /\ v3' \in Seq(Seq(Int)) /\ Len(v3') = Len(v3) /\ v3'[w.array] = e
          /\ \A n \in 1..Len(v3) : n # w.array => v3'[n] = v3[n]
      BY <1>1, <3>1, <3>2, Changed
    <3> QED
      BY <3>3 DEF e
  <2>4. ASSUME NEW n \in 1..Len(v3) PROVE Len(v3'[n]) = Len(v3[n])
    <3>1. CASE n = w.array
      BY <1>0, <1>1, <2>2, <2>3, <3>1, Changed
    <3>2. CASE n # w.array
      BY <2>3, <3>2
    <3> QED
      BY <3>1, <3>2
  <2>5. [w EXCEPT !.len = @ + 1] =
          [array |-> w.array, off |-> w.off, len |-> w.len + 1, cap |-> w.cap]
    BY <1>1, LongerWindow, Zenon
  <2>6. FitInv'
    <3>1. ASSUME NEW s \in DOMAIN v4' PROVE Fits(v3', v4'[s])
      <4>1. CASE s = dst
        <5>1. v4'[s] = [array |-> w.array, off |-> w.off, len |-> w.len + 1, cap |-> w.cap]
          BY <2>1, <2>5, <4>1
        <5>2. v4'[s] \in Windows
          BY <1>2, <5>1 DEF Windows
        <5>3. /\ v4'[s].array = w.array /\ v4'[s].len = w.len + 1 /\ v4'[s].off = w.off
              /\ v4'[s].cap = w.cap /\ Len(v3'[w.array]) = Len(v3[w.array])
          BY <1>1, <2>4, <5>1
        <5>4. v4'[s].array \in 1..Len(v3')
          BY <1>6, <2>3, <5>3
        <5>5. v4'[s].len <= v4'[s].cap
          BY <1>2, <2>1, <5>3
        <5>6. v4'[s].off + v4'[s].cap <= Len(v3'[v4'[s].array])
          BY <1>2, <1>6, <5>3
        <5> QED
          BY <5>2, <5>4, <5>5, <5>6 DEF Fits
      <4>2. CASE s # dst
        <5>1. s \in DOMAIN v4 /\ v4'[s] = v4[s] /\ Fits(v3, v4[s])
          BY <1>3, <2>1, <4>2 DEF FitInv
        <5> QED
          BY <2>3, <2>4, <5>1 DEF Fits
      <4> QED
        BY <4>1, <4>2
    <3> QED
      BY <2>3, <3>1 DEF FitInv
  <2>8. /\ v4'[dst].len = w.len + 1 /\ v4'[dst].array = w.array /\ v4'[dst].off = w.off
        /\ v4'[dst].cap = w.cap
    BY <1>3, <2>1, <2>5
  <2>9. v3'[w.array][p] = x
    BY <1>0, <1>1, <2>2, <2>3, Changed
  <2>10. ASSUME NEW n \in 1..Len(v3), NEW k \in 1..Len(v3[n]), ~(n = w.array /\ k = p)
         PROVE  v3'[n][k] = v3[n][k]
    <3>1. CASE n # w.array
      BY <2>3, <3>1
    <3>2. CASE n = w.array
      <4>1. k # p /\ k \in 1..Len(v3[w.array]) /\ v3[w.array] \in Seq(Int)
        BY <1>1, <2>10, <3>2
      <4>2. [v3[w.array] EXCEPT ![p] = x][k] = v3[w.array][k]
        BY <1>0, <2>2, <4>1, Changed
      <4> QED
        BY <2>3, <3>2, <4>2
    <3> QED
      BY <3>1, <3>2
  <2>11. ASSUME NEW k \in 1..w.len PROVE v3'[w.array][w.off + k] = v3[w.array][w.off + k]
    <3>1. w.off + k \in 1..Len(v3[w.array]) /\ w.off + k # p
      <4>1. p = w.off + w.len + 1
        BY <2>0
      <4> QED
        BY <1>2, <1>6, <4>1, PlaceBehind
    <3> QED
      BY <1>6, <2>10, <3>1
  <2>12. Appended(w, x, v4'[dst])
    <3>1. \A k \in 1..w.len : v3'[v4'[dst].array][v4'[dst].off + k] = v3[w.array][w.off + k]
      BY <2>8, <2>11
    <3>2. v3'[v4'[dst].array][v4'[dst].off + w.len + 1] = x
      BY <2>0, <2>8, <2>9
    <3>3. Len(v3') >= Len(v3)
      BY <1>6, <2>3
    <3> QED
      BY <1>4, <2>0, <2>8, <2>10, <3>1, <3>2, <3>3 DEF Appended
  <2> QED
    BY <1>0, <1>3, <2>1, <2>6, <2>12
<1>5. CASE ~Sliced!InPlace(w)
  <2>1. PICK spare \in 0..Spare :
          /\ v3' = Append(v3, Sliced!View(Sliced!Op.src) \o <<x>> \o [k \in 1..spare |-> 0])
          /\ v4' = [s \in DOMAIN v4 \cup {dst} |->
                      IF s = dst THEN Sliced!Window(Len(v3'), 0, w.len + 1, w.len + 1 + spare) ELSE v4[s]]
    BY <1>0, <1>5 DEF Sliced!DoAppend, Sliced!Bind
  <2> DEFINE g == Sliced!View(Sliced!Op.src) \o <<x>> \o [k \in 1..spare |-> 0]
  <2>2. spare \in Nat
    BY <2>1, DataDemosAssumption
  <2>3. /\ g \in Seq(Int) /\ Len(g) = w.len + 1 + spare /\ g[w.len + 1] = x
        /\ \A k \in 1..w.len : g[k] = v3[w.array][w.off + k]
    <3>1. Sliced!View(Sliced!Op.src) \in Seq(Int) /\ Len(Sliced!View(Sliced!Op.src)) = w.len
      BY <1>0, ViewElems
    <3> DEFINE view == Sliced!View(Sliced!Op.src)
    <3>2. /\ view \in Seq(Int) /\ Len(view) = w.len
          /\ \A k \in 1..w.len : view[k] = v3[w.array][w.off + k]
      BY <1>0, <3>1, ViewElems
    <3> HIDE DEF view
    <3>3. LET grown == view \o <<x>> \o [k \in 1..spare |-> 0] IN
          /\ grown \in Seq(Int) /\ Len(grown) = Len(view) + 1 + spare
          /\ \A k \in 1..Len(view) : grown[k] = view[k]
          /\ grown[Len(view) + 1] = x
      BY <1>0, <2>2, <3>2, Grown
    <3> QED
      BY <3>2, <3>3 DEF view
  <2> HIDE DEF g
  <2>4. v3' = Append(v3, g)
    BY <2>1 DEF g
  <2>5. /\ v3' \in Seq(Seq(Int)) /\ Len(v3') = Len(v3) + 1
        /\ \A n \in 1..Len(v3) : v3'[n] = v3[n]
        /\ v3'[Len(v3) + 1] = g
    BY <1>1, <2>3, <2>4
  <2>6. FitInv'
    <3>1. ASSUME NEW s \in DOMAIN v4' PROVE Fits(v3', v4'[s])
      <4>1. CASE s = dst
        <5>1. v4'[s] = [array |-> Len(v3) + 1, off |-> 0, len |-> w.len + 1, cap |-> w.len + 1 + spare]
          BY <2>1, <2>5, <4>1 DEF Sliced!Window
        <5> QED
          <6>1. v4'[s] \in Windows
            BY <1>2, <1>6, <2>2, <5>1 DEF Windows
          <6>2. /\ v4'[s].array = Len(v3) + 1 /\ v4'[s].off = 0 /\ v4'[s].len = w.len + 1
                /\ v4'[s].cap = w.len + 1 + spare
            BY <5>1
          <6>3. v4'[s].array \in 1..Len(v3') /\ Len(v3'[v4'[s].array]) = w.len + 1 + spare
            BY <1>6, <2>3, <2>5, <6>2
          <6> QED
            BY <1>2, <2>2, <6>1, <6>2, <6>3 DEF Fits
      <4>2. CASE s # dst
        <5>1. s \in DOMAIN v4 /\ v4'[s] = v4[s] /\ Fits(v3, v4[s])
          BY <1>3, <2>1, <4>2 DEF FitInv
        <5> QED
          BY <1>1, <2>5, <5>1 DEF Fits
      <4> QED
        BY <4>1, <4>2
    <3> QED
      BY <2>5, <3>1 DEF FitInv
  <2>8. v4'[dst].len = w.len + 1 /\ v4'[dst].array = Len(v3) + 1 /\ v4'[dst].off = 0
    BY <1>3, <2>1, <2>5 DEF Sliced!Window
  <2>9. ASSUME NEW k \in 1..(w.len + 1)
        PROVE  v3'[v4'[dst].array][v4'[dst].off + k] = g[k]
    <3>1. v4'[dst].off + k = k
      BY <1>2, <2>8
    <3> QED
      BY <2>5, <2>8, <3>1
  <2>10. /\ \A k \in 1..w.len : v3'[v4'[dst].array][v4'[dst].off + k] = v3[w.array][w.off + k]
         /\ v3'[v4'[dst].array][v4'[dst].off + (w.len + 1)] = x
    <3>1. \A k \in 1..w.len : k \in 1..(w.len + 1)
      BY <1>2
    <3>2. w.len + 1 \in 1..(w.len + 1)
      BY <1>2
    <3> QED
      BY <2>3, <2>9, <3>1, <3>2
  <2>11. v4'[dst].off + (w.len + 1) = v4'[dst].off + w.len + 1
    BY <1>2, <2>8
  <2>12. Len(v3') >= Len(v3)
    BY <1>6, <2>5
  <2>13. Appended(w, x, v4'[dst])
    BY <1>5, <2>5, <2>8, <2>10, <2>11, <2>12 DEF Appended
  <2> QED
    BY <1>0, <1>3, <2>1, <2>6, <2>13
<1> QED
  BY <1>4, <1>5

\* The calls of the scripts.
LEMMA TestCalls ==
  ASSUME v1 = "test_slice"
  PROVE  /\ Len(Sliced!Programs[v1]) = 10
         /\ v2 = 1 => Sliced!Op = Sliced!Make("s0", <<0, 1, 2, 3, 4, 5, 6>>)
         /\ v2 = 2 => Sliced!Op = Sliced!Slice("s1", "s0", 0, 7, 7)
         /\ v2 = 3 => Sliced!Op = Sliced!Slice("s2", "s1", 1, 3, 7)
         /\ v2 = 4 => Sliced!Op = Sliced!Slice("s3", "s1", 3, 7, 7)
         /\ v2 = 5 => Sliced!Op = Sliced!Slice("s4", "s0", 3, 5, 7)
         /\ v2 = 6 => Sliced!Op = Sliced!Slice("s5", "s4", 0, 2, 2)
         /\ v2 = 7 => Sliced!Op = Sliced!Append1("s6", "s4", 77)
         /\ v2 = 8 => Sliced!Op = Sliced!Append1("s7", "s5", 88)
         /\ v2 = 9 => Sliced!Op = Sliced!Append1("s8", "s7", 66)
         /\ v2 = 10 => Sliced!Op = Sliced!Set("s3", 1, 99)
<1>1. Sliced!Programs[v1] = Sliced!test_slice
  BY DEF Sliced!Programs
<1> QED
  BY <1>1 DEF Sliced!Op, Sliced!test_slice

LEMMA AppendCalls ==
  ASSUME v1 = "appends", v2 \in 1..7
  PROVE  /\ Len(Sliced!Programs[v1]) = 6
         /\ v2 = 1 => Sliced!Op = Sliced!Make("s6", <<>>)
         /\ v2 \in 2..6 => Sliced!Op = Sliced!Append1("s6", "s6", v2 - 1)
<1> DEFINE first == <<Sliced!Make("s6", <<>>)>>
           others == [k \in 1..5 |-> Sliced!Append1("s6", "s6", k)]
           S == {Sliced!Make("s6", <<>>)} \cup {Sliced!Append1("s6", "s6", k) : k \in 1..5}
<1>1. Sliced!Programs[v1] = first \o others
  BY DEF Sliced!Programs, Sliced!appends
<1>2. first \in Seq(S) /\ Len(first) = 1 /\ first[1] = Sliced!Make("s6", <<>>)
  OBVIOUS
<1>3. others \in Seq(S) /\ Len(others) = 5 /\ \A k \in 1..5 : others[k] = Sliced!Append1("s6", "s6", k)
  <2>1. others \in [1..5 -> S]
    OBVIOUS
  <2> QED
    BY <2>1, SeqDef
<1> HIDE DEF first, others, S
<1>4. /\ Len(first \o others) = 6 /\ (first \o others)[1] = first[1]
      /\ \A k \in 2..6 : (first \o others)[k] = others[k - 1]
  <2>1. /\ Len(first \o others) = Len(first) + Len(others)
        /\ \A k \in 1..(Len(first) + Len(others)) :
             (first \o others)[k] = IF k <= Len(first) THEN first[k] ELSE others[k - Len(first)]
    <3>1. first \in Seq(S) /\ others \in Seq(S)
      BY <1>2, <1>3
    <3> QED
      BY <3>1, ConcatProperties
  <2> QED
    BY <1>2, <1>3, <2>1
<1> QED
  BY <1>1, <1>2, <1>3, <1>4 DEF Sliced!Op

Loops == {"numbers1", "numbers2", "numbers3"}
KindOf == [numbers1 |-> "index", numbers2 |-> "array", numbers3 |-> "slice"]

LEMMA LoopCalls ==
  ASSUME v1 \in Loops
  PROVE  /\ Len(Sliced!Programs[v1]) = 2
         /\ v2 = 1 => Sliced!Op = Sliced!Make("numbers", <<1, 2, 3, 4, 5, 6>>)
         /\ v2 = 2 => Sliced!Op = Sliced!Range("numbers", KindOf[v1])
BY DEF Loops, KindOf, Sliced!Op, Sliced!Programs, Sliced!Loop, Sliced!Numbers

-----------------------------------------------------------------------------

Win(a, off, len, cap) == [array |-> a, off |-> off, len |-> len, cap |-> cap]

\* test_slice: the windows on the first array, and where its elements stand.
TestWindows ==
  [s0 |-> Win(1, 0, 7, 7), s1 |-> Win(1, 0, 7, 7), s2 |-> Win(1, 1, 2, 6),
   s3 |-> Win(1, 3, 4, 4), s4 |-> Win(1, 3, 2, 4), s5 |-> Win(1, 3, 2, 2),
   s6 |-> Win(1, 3, 3, 4)]
Names == <<"s0", "s1", "s2", "s3", "s4", "s5", "s6">>

Holds(s, elems) ==
  /\ s \in DOMAIN v4 /\ v4[s].array > 1 /\ v4[s].len = Len(elems)
  /\ \A k \in 1..Len(elems) : v3[v4[s].array][v4[s].off + k] = elems[k]

TestInv ==
  v1 = "test_slice" =>
    /\ v2 \in 1..11 /\ v5 = 0
    /\ v2 = 1 => v3 = <<>> /\ DOMAIN v4 = {}
    /\ \A k \in 1..7 : k < v2 => Names[k] \in DOMAIN v4 /\ v4[Names[k]] = TestWindows[Names[k]]
    /\ v2 > 1 => \A k \in 1..7 :
         v3[1][k] = IF k = 6 /\ v2 > 7 THEN 77 ELSE IF k = 5 /\ v2 > 10 THEN 99 ELSE k - 1
    /\ v2 > 8 => Holds("s7", <<3, 4, 88>>)
    /\ v2 > 9 => Holds("s8", <<3, 4, 88, 66>>)

\* appends: one slice, which each call replaces.
AppendsInv ==
  v1 = "appends" =>
    /\ v2 \in 1..7 /\ v5 = 0
    /\ IF v2 = 1 THEN v3 = <<>> /\ DOMAIN v4 = {} ELSE "s6" \in DOMAIN v4

\* The loops: what n iterations have made of each element.
Row(n, k) ==
  IF k = 1 THEN IF n < 6 THEN 1 ELSE IF v1 = "numbers2" THEN 7 ELSE 22
  ELSE IF k > n + 1 THEN k
  ELSE IF v1 = "numbers2" THEN 2 * k - 1 ELSE <<1, 3, 6, 10, 15, 21>>[k]

LoopsInv ==
  v1 \in Loops =>
    /\ v2 \in 1..3 /\ v5 \in 0..6
    /\ v2 = 1 => v3 = <<>> /\ DOMAIN v4 = {} /\ v5 = 0
    /\ v2 > 1 => DOMAIN v4 = {"numbers"} /\ v4["numbers"] = Win(1, 0, 6, 6)
    /\ v2 > 1 /\ v1 # "numbers1" => \A k \in 1..6 : v3[1][k] = Row(v5, k)
    /\ v2 = 3 => v5 = 6
    /\ v2 > 1 /\ v5 > 0 /\ v1 # "numbers1" => \A k \in 1..6 : v6[k] = k

SliceInv ==
  /\ v1 \in DOMAIN Sliced!Programs /\ FitInv
  /\ TestInv /\ AppendsInv /\ LoopsInv

SlicesInv == running = "Slices" => SliceInv

LEMMA Programs5 == DOMAIN Sliced!Programs = {"test_slice", "appends"} \cup Loops
BY DEF Sliced!Programs, Loops

LEMMA SlicesStart == Init => SlicesInv
<1> SUFFICES ASSUME Init, running = "Slices" PROVE SliceInv
  BY DEF SlicesInv
<1>1. Sliced!Init
  BY DEF Init
<1>2. v3 = <<>> /\ DOMAIN v4 = {} /\ v2 = 1 /\ v5 = 0 /\ v1 \in DOMAIN Sliced!Programs
  BY <1>1 DEF Sliced!Init
<1>3. FitInv
  BY <1>2 DEF FitInv
<1>4. TestInv
  BY <1>2 DEF TestInv
<1>5. AppendsInv
  BY <1>2 DEF AppendsInv
<1>6. LoopsInv
  BY <1>2 DEF LoopsInv
<1> QED
  BY <1>2, <1>3, <1>4, <1>5, <1>6 DEF SliceInv

\* A new array, and a window on all of it.
LEMMA MakeFits ==
  ASSUME v3 = <<>>, DOMAIN v4 = {}, Sliced!MakeArray, Sliced!Op.elems \in Seq(Int)
  PROVE  /\ FitInv' /\ DOMAIN v4' = {Sliced!Op.dst}
         /\ v3'[1] = Sliced!Op.elems
         /\ v4'[Sliced!Op.dst] = Win(1, 0, Len(Sliced!Op.elems), Len(Sliced!Op.elems))
<1> DEFINE e == Sliced!Op.elems
           d == Sliced!Op.dst
<1>1. v3' = Append(v3, e) /\ e \in Seq(Int) /\ Len(e) \in Nat
  BY DEF Sliced!MakeArray
<1>2. v4' = [s \in DOMAIN v4 \cup {d} |->
               IF s = d THEN Sliced!Window(Len(v3'), 0, Len(e), Len(e)) ELSE v4[s]]
  BY DEF Sliced!MakeArray, Sliced!Bind
<1> HIDE DEF e, d
<1>3. v3' = <<e>> /\ v3' \in Seq(Seq(Int)) /\ Len(v3') = 1 /\ v3'[1] = e
  BY <1>1
<1>4. DOMAIN v4' = {d} /\ v4'[d] = Win(1, 0, Len(e), Len(e))
  BY <1>2, <1>3 DEF Sliced!Window, Win
<1>5. Fits(v3', v4'[d])
  BY <1>1, <1>3, <1>4 DEF Fits, Windows, Win
<1>6. FitInv'
  BY <1>3, <1>4, <1>5 DEF FitInv
<1> QED
  BY <1>3, <1>4, <1>6 DEF e, d

\* A window on part of one.
LEMMA ResliceFits ==
  ASSUME FitInv, Sliced!Reslice, Sliced!Op.src \in DOMAIN v4,
         Sliced!Op.lo \in Nat, Sliced!Op.hi \in Nat, Sliced!Op.max \in Nat,
         Sliced!Op.lo <= Sliced!Op.hi, Sliced!Op.hi <= Sliced!Op.max,
         Sliced!Op.max <= v4[Sliced!Op.src].cap
  PROVE  /\ FitInv' /\ v3' = v3
         /\ DOMAIN v4' = DOMAIN v4 \cup {Sliced!Op.dst}
         /\ \A s \in DOMAIN v4 \ {Sliced!Op.dst} : v4'[s] = v4[s]
         /\ v4'[Sliced!Op.dst] =
              [array |-> v4[Sliced!Op.src].array, off |-> v4[Sliced!Op.src].off + Sliced!Op.lo,
               len |-> Sliced!Op.hi - Sliced!Op.lo, cap |-> Sliced!Op.max - Sliced!Op.lo]
<1> DEFINE w == v4[Sliced!Op.src]
           dst == Sliced!Op.dst
           lo == Sliced!Op.lo
           hi == Sliced!Op.hi
           max == Sliced!Op.max
           n == [array |-> w.array, off |-> w.off + lo, len |-> hi - lo, cap |-> max - lo]
<1>1. /\ v3' = v3
      /\ v4' = [s \in DOMAIN v4 \cup {dst} |-> IF s = dst THEN n ELSE v4[s]]
  BY DEF Sliced!Reslice, Sliced!Bind, Sliced!Window
<1>2. w \in Windows /\ w.array \in 1..Len(v3) /\ w.off + w.cap <= Len(v3[w.array])
  BY DEF FitInv, Fits
<1>3. w.array \in Nat /\ w.off \in Nat /\ w.cap \in Nat /\ Len(v3[w.array]) \in Nat
  BY <1>2 DEF Windows, FitInv
<1>4. /\ lo \in Nat /\ hi \in Nat /\ max \in Nat /\ lo <= hi /\ hi <= max /\ max <= w.cap
  OBVIOUS
<1> HIDE DEF w, dst, lo, hi, max
<1>5. Fits(v3, n)
  <2>1. n \in Windows
    BY <1>3, <1>4 DEF Windows
  <2>2. /\ n.array = w.array /\ n.off = w.off + lo /\ n.len = hi - lo /\ n.cap = max - lo
    OBVIOUS
  <2> HIDE DEF n
  <2>3. hi - lo <= max - lo /\ (w.off + lo) + (max - lo) <= Len(v3[w.array])
    <3>1. w.off + w.cap <= Len(v3[w.array])
      BY <1>2
    <3>2. (w.off + lo) + (max - lo) = w.off + max
      BY <1>3, <1>4
    <3>3. w.off + max <= w.off + w.cap
      BY <1>3, <1>4
    <3>4. w.off + max <= Len(v3[w.array])
      BY <1>3, <1>4, <3>1, <3>3
    <3>5. hi - lo <= max - lo
      BY <1>4
    <3> QED
      BY <3>2, <3>4, <3>5
  <2>4. n.len <= n.cap /\ n.off + n.cap <= Len(v3[n.array])
    BY <2>2, <2>3
  <2> QED
    BY <1>2, <2>1, <2>2, <2>4 DEF Fits
<1> HIDE DEF n
<1>6. /\ DOMAIN v4' = DOMAIN v4 \cup {dst} /\ v4'[dst] = n
      /\ \A s \in DOMAIN v4 \ {dst} : v4'[s] = v4[s]
  BY <1>1
<1>7. FitInv /\ v3' = v3
  BY <1>1
<1>8. FitInv'
  BY <1>5, <1>6, <1>7 DEF FitInv
<1> QED
  BY <1>1, <1>6, <1>8 DEF n, w, dst, lo, hi, max

\* The steps of test_slice. What is there stays: the windows bound before, and
\* the elements of the first array but for one.
TestStays(n, x) ==
  /\ FitInv' /\ v1' = v1 /\ v2' = v2 + 1 /\ v5' = v5
  /\ \A k \in 1..7 : k < v2 => Names[k] \in DOMAIN v4' /\ v4'[Names[k]] = v4[Names[k]]
  /\ \A k \in 1..7 : v3'[1][k] = IF k = n THEN x ELSE v3[1][k]

LEMMA TestKeeps ==
  ASSUME SliceInv, v1 = "test_slice", NEW n \in 0..7, NEW x, TestStays(n, x),
         v2 > 1, v2 < 11,
         v2 <= 7 => Names[v2] \in DOMAIN v4' /\ v4'[Names[v2]] = TestWindows[Names[v2]],
         n = (IF v2 = 7 THEN 6 ELSE IF v2 = 10 THEN 5 ELSE 0),
         x = (IF v2 = 7 THEN 77 ELSE 99),
         v2 > 7 => Holds("s7", <<3, 4, 88>>)',
         v2 > 8 => Holds("s8", <<3, 4, 88, 66>>)'
  PROVE  SliceInv'
<1>1. v2 \in 1..11 /\ v5 = 0
  BY DEF SliceInv, TestInv
<1>2. v1' = "test_slice" /\ v2' = v2 + 1 /\ v2' \in 1..11 /\ v5' = 0 /\ v2' # 1
  BY <1>1 DEF TestStays
<1>3. ASSUME NEW k \in 1..7, k < v2'
      PROVE  Names[k] \in DOMAIN v4' /\ v4'[Names[k]] = TestWindows[Names[k]]
  <2>1. CASE k < v2
    BY <2>1 DEF SliceInv, TestInv, TestStays
  <2>2. CASE k = v2
    BY <2>2
  <2> QED
    BY <1>1, <1>2, <1>3, <2>1, <2>2
<1>4. ASSUME NEW k \in 1..7
      PROVE  v3'[1][k] = IF k = 6 /\ v2' > 7 THEN 77 ELSE IF k = 5 /\ v2' > 10 THEN 99 ELSE k - 1
  <2>1. v3[1][k] = IF k = 6 /\ v2 > 7 THEN 77 ELSE IF k = 5 /\ v2 > 10 THEN 99 ELSE k - 1
    BY DEF SliceInv, TestInv
  <2>2. v3'[1][k] = IF k = n THEN x ELSE v3[1][k]
    BY DEF TestStays
  <2> QED
    BY <1>1, <1>2, <2>1, <2>2
<1>5. /\ v2' > 8 => Holds("s7", <<3, 4, 88>>)'
      /\ v2' > 9 => Holds("s8", <<3, 4, 88, 66>>)'
  BY <1>1, <1>2
<1>6. TestInv'
  BY <1>2, <1>3, <1>4, <1>5 DEF TestInv
<1>7. AppendsInv' /\ LoopsInv'
  BY <1>2 DEF AppendsInv, LoopsInv, Loops
<1>8. v1' \in DOMAIN Sliced!Programs
  BY <1>2, Programs5
<1> QED
  BY <1>6, <1>7, <1>8 DEF SliceInv, TestStays

\* The call at hand names the action.
LEMMA ActionOf ==
  ASSUME Sliced!Next, v2 \in Nat, Len(Sliced!Programs[v1]) \in Nat, v2 <= Len(Sliced!Programs[v1])
  PROVE  /\ Sliced!Op.op = "make" => Sliced!MakeArray
         /\ Sliced!Op.op = "slice" => Sliced!Reslice
         /\ Sliced!Op.op = "append" => Sliced!DoAppend
         /\ Sliced!Op.op = "set" => Sliced!SetElem
         /\ Sliced!Op.op = "range" => Sliced!Iterate \/ Sliced!LoopEnds
<1>1. /\ Sliced!MakeArray => Sliced!Op.op = "make"
      /\ Sliced!Reslice => Sliced!Op.op = "slice"
      /\ Sliced!DoAppend => Sliced!Op.op = "append"
      /\ Sliced!SetElem => Sliced!Op.op = "set"
      /\ Sliced!Iterate \/ Sliced!LoopEnds => Sliced!Op.op = "range"
  BY DEF Sliced!MakeArray, Sliced!Reslice, Sliced!DoAppend, Sliced!SetElem, Sliced!Iterate,
     Sliced!LoopEnds, Sliced!At
<1>2. ~Sliced!Terminated
  BY DEF Sliced!Terminated, Sliced!Finished
<1> QED
  BY <1>1, <1>2 DEF Sliced!Next

LEMMA TestTypes ==
  ASSUME SliceInv, v1 = "test_slice"
  PROVE  v2 \in 1..11 /\ v5 = 0 /\ FitInv
BY DEF SliceInv, TestInv

LEMMA TestDoing ==
  ASSUME SliceInv, v1 = "test_slice", Sliced!Next
  PROVE  /\ v2 = 1 => Sliced!MakeArray
         /\ v2 \in 2..6 => Sliced!Reslice
         /\ v2 \in 7..9 => Sliced!DoAppend
         /\ v2 = 10 => Sliced!SetElem
         /\ v2 = 11 => UNCHANGED Sliced!vars
<1>1. Len(Sliced!Programs[v1]) = 10
  BY TestCalls
<1>2. v2 \in 1..11
  BY TestTypes
<1>3. /\ v2 = 1 => Sliced!Op.op = "make"
      /\ v2 \in 2..6 => Sliced!Op.op = "slice"
      /\ v2 \in 7..9 => Sliced!Op.op = "append"
      /\ v2 = 10 => Sliced!Op.op = "set"
  BY TestCalls DEF Sliced!Make, Sliced!Slice, Sliced!Append1, Sliced!Set
<1>4. CASE v2 <= 10
  <2>1. Len(Sliced!Programs[v1]) \in Nat /\ v2 <= Len(Sliced!Programs[v1]) /\ v2 \in Nat
    BY <1>1, <1>2, <1>4
  <2>2. /\ Sliced!Op.op = "make" => Sliced!MakeArray
        /\ Sliced!Op.op = "slice" => Sliced!Reslice
        /\ Sliced!Op.op = "append" => Sliced!DoAppend
        /\ Sliced!Op.op = "set" => Sliced!SetElem
    BY <2>1, ActionOf
  <2> QED
    BY <1>3, <1>4, <2>2
<1>5. CASE v2 = 11
  <2>1. ~(v2 <= Len(Sliced!Programs[v1]))
    BY <1>1, <1>5
  <2>2. UNCHANGED Sliced!vars
    BY <2>1, Zenon DEF Sliced!Next, Sliced!MakeArray, Sliced!Reslice, Sliced!DoAppend, Sliced!SetElem,
       Sliced!Iterate, Sliced!LoopEnds, Sliced!Terminated, Sliced!At
  <2> QED
    BY <1>5, <2>2
<1> QED
  BY <1>2, <1>4, <1>5

LEMMA TestMakes ==
  ASSUME SliceInv, v1 = "test_slice", v2 = 1, Sliced!Next
  PROVE  SliceInv'
<1>1. Sliced!Op = Sliced!Make("s0", <<0, 1, 2, 3, 4, 5, 6>>) /\ Sliced!MakeArray
  BY TestCalls, TestDoing
<1>2. /\ Sliced!Op.elems = <<0, 1, 2, 3, 4, 5, 6>> /\ Sliced!Op.dst = "s0"
      /\ v1' = "test_slice" /\ v2' = 2 /\ v5' = 0
  BY <1>1, TestTypes DEF Sliced!Make, Sliced!MakeArray, Sliced!Next1
<1>3. v3 = <<>> /\ DOMAIN v4 = {}
  BY DEF SliceInv, TestInv
<1> DEFINE e == <<0, 1, 2, 3, 4, 5, 6>>
<1>4. e \in Seq(Int) /\ Len(e) = 7 /\ \A k \in 1..7 : e[k] = k - 1
  OBVIOUS
<1>5. Sliced!Op.elems = e
  BY <1>2
<1> HIDE DEF e
<1>6. /\ FitInv' /\ DOMAIN v4' = {"s0"} /\ v3'[1] = e /\ v4'["s0"] = Win(1, 0, 7, 7)
  BY <1>1, <1>2, <1>3, <1>4, <1>5, MakeFits
<1>7. \A k \in 1..7 : k < v2' => Names[k] \in DOMAIN v4' /\ v4'[Names[k]] = TestWindows[Names[k]]
  BY <1>2, <1>6 DEF Names, TestWindows
<1>8. \A k \in 1..7 :
        v3'[1][k] = IF k = 6 /\ v2' > 7 THEN 77 ELSE IF k = 5 /\ v2' > 10 THEN 99 ELSE k - 1
  BY <1>2, <1>4, <1>6
<1>9. TestInv'
  BY <1>2, <1>7, <1>8 DEF TestInv
<1>10. AppendsInv' /\ LoopsInv'
  BY <1>2 DEF AppendsInv, LoopsInv, Loops
<1>11. v1' \in DOMAIN Sliced!Programs
  BY <1>2, Programs5
<1> QED
  BY <1>6, <1>9, <1>10, <1>11 DEF SliceInv

LEMMA TestReslices ==
  ASSUME SliceInv, v1 = "test_slice", v2 \in 2..6, Sliced!Next
  PROVE  SliceInv'
<1>1. Sliced!Reslice /\ v1' = v1 /\ v2' = v2 + 1 /\ v5' = v5 /\ FitInv
  <2>1. Sliced!Reslice
    BY TestDoing
  <2> QED
    BY <2>1, TestTypes DEF Sliced!Reslice, Sliced!Next1
<1>2. \A k \in 1..7 : k < v2 => Names[k] \in DOMAIN v4 /\ v4[Names[k]] = TestWindows[Names[k]]
  BY DEF SliceInv, TestInv
<1>3. ASSUME NEW src \in DOMAIN v4, NEW d, NEW lo \in Nat, NEW hi \in Nat, NEW max \in Nat,
             Sliced!Op = Sliced!Slice(d, src, lo, hi, max), Names[v2] = d,
             lo <= hi, hi <= max, max <= v4[src].cap,
             TestWindows[d] = Win(v4[src].array, v4[src].off + lo, hi - lo, max - lo)
      PROVE  SliceInv'
  <2>1. /\ FitInv' /\ v3' = v3 /\ DOMAIN v4' = DOMAIN v4 \cup {Names[v2]}
        /\ \A s \in DOMAIN v4 \ {Names[v2]} : v4'[s] = v4[s]
        /\ v4'[Names[v2]] = TestWindows[Names[v2]]
    <3>1. /\ Sliced!Op.src = src /\ Sliced!Op.dst = d /\ Sliced!Op.lo = lo /\ Sliced!Op.hi = hi
          /\ Sliced!Op.max = max
      BY <1>3 DEF Sliced!Slice
    <3>2. /\ FitInv' /\ v3' = v3 /\ DOMAIN v4' = DOMAIN v4 \cup {Sliced!Op.dst}
          /\ \A s \in DOMAIN v4 \ {Sliced!Op.dst} : v4'[s] = v4[s]
          /\ v4'[Sliced!Op.dst] =
               [array |-> v4[Sliced!Op.src].array, off |-> v4[Sliced!Op.src].off + Sliced!Op.lo,
                len |-> Sliced!Op.hi - Sliced!Op.lo, cap |-> Sliced!Op.max - Sliced!Op.lo]
      BY <1>1, <1>3, <3>1, ResliceFits
    <3> QED
      BY <1>3, <3>1, <3>2 DEF Win
  <2>2. \A k \in 1..7 : k < v2 => Names[k] # Names[v2]
    BY DEF Names
  <2>3. \A k \in 1..7 : k < v2 => Names[k] \in DOMAIN v4' /\ v4'[Names[k]] = v4[Names[k]]
    BY <1>2, <2>1, <2>2
  <2>4. TestStays(0, 99)
    BY <1>1, <2>1, <2>3 DEF TestStays
  <2> QED
    BY <2>1, <2>4, TestKeeps
<1>4. CASE v2 = 2
  <2>1. "s0" \in DOMAIN v4 /\ v4["s0"] = Win(1, 0, 7, 7)
    BY <1>2, <1>4 DEF Names, TestWindows
  <2> QED
    BY <1>3, <1>4, <2>1, TestCalls DEF Names, TestWindows, Win
<1>5. CASE v2 = 3
  <2>1. "s1" \in DOMAIN v4 /\ v4["s1"] = Win(1, 0, 7, 7)
    BY <1>2, <1>5 DEF Names, TestWindows
  <2> QED
    BY <1>3, <1>5, <2>1, TestCalls DEF Names, TestWindows, Win
<1>6. CASE v2 = 4
  <2>1. "s1" \in DOMAIN v4 /\ v4["s1"] = Win(1, 0, 7, 7)
    BY <1>2, <1>6 DEF Names, TestWindows
  <2> QED
    BY <1>3, <1>6, <2>1, TestCalls DEF Names, TestWindows, Win
<1>7. CASE v2 = 5
  <2>1. "s0" \in DOMAIN v4 /\ v4["s0"] = Win(1, 0, 7, 7)
    BY <1>2, <1>7 DEF Names, TestWindows
  <2> QED
    BY <1>3, <1>7, <2>1, TestCalls DEF Names, TestWindows, Win
<1>8. CASE v2 = 6
  <2>1. "s4" \in DOMAIN v4 /\ v4["s4"] = Win(1, 3, 2, 4)
    BY <1>2, <1>8 DEF Names, TestWindows
  <2> QED
    BY <1>3, <1>8, <2>1, TestCalls DEF Names, TestWindows, Win
<1> QED
  BY <1>4, <1>5, <1>6, <1>7, <1>8

LEMMA TestAppends ==
  ASSUME SliceInv, v1 = "test_slice", v2 \in 7..9, Sliced!Next
  PROVE  SliceInv'
<1> DEFINE src == Sliced!Op.src
           dst == Sliced!Op.dst
           x == Sliced!Op.v
<1>1. /\ Sliced!DoAppend /\ v1' = v1 /\ v2' = v2 + 1 /\ v5' = v5 /\ FitInv
  <2>1. Sliced!DoAppend
    BY TestDoing
  <2> QED
    BY <2>1, TestTypes DEF Sliced!DoAppend, Sliced!Next1
<1>2. /\ \A k \in 1..7 : k < v2 => Names[k] \in DOMAIN v4 /\ v4[Names[k]] = TestWindows[Names[k]]
      /\ \A k \in 1..7 : v3[1][k] = IF k = 6 /\ v2 > 7 THEN 77 ELSE k - 1
      /\ v2 > 8 => Holds("s7", <<3, 4, 88>>)
  BY DEF SliceInv, TestInv
<1>3. ASSUME src \in DOMAIN v4, x \in Int
      PROVE  /\ FitInv' /\ DOMAIN v4' = DOMAIN v4 \cup {dst}
             /\ \A s \in DOMAIN v4 \ {dst} : v4'[s] = v4[s]
             /\ Appended(v4[src], x, v4'[dst])
  BY <1>1, <1>3, AppendFits
<1>4. /\ "s0" \in DOMAIN v4 /\ v4["s0"] = Win(1, 0, 7, 7)
      /\ "s4" \in DOMAIN v4 /\ v4["s4"] = Win(1, 3, 2, 4)
      /\ "s5" \in DOMAIN v4 /\ v4["s5"] = Win(1, 3, 2, 2)
  <2>1. 1 < v2 /\ 5 < v2 /\ 6 < v2
    OBVIOUS
  <2> QED
    BY <1>2, <2>1 DEF Names, TestWindows
<1>5. Len(v3) \in Nat /\ Len(v3) >= 1 /\ Len(v3[1]) >= 7 /\ Len(v3[1]) \in Nat
  BY <1>1, <1>4 DEF FitInv, Fits, Win
<1>6. CASE v2 = 7
  <2>1. src = "s4" /\ dst = "s6" /\ x = 77
    BY <1>6, TestCalls DEF Sliced!Append1
  <2>2. /\ FitInv' /\ DOMAIN v4' = DOMAIN v4 \cup {"s6"}
        /\ \A s \in DOMAIN v4 \ {"s6"} : v4'[s] = v4[s]
        /\ Appended(v4["s4"], 77, v4'["s6"])
    BY <1>3, <1>4, <2>1
  <2> HIDE DEF src, dst, x
  <2>3. Sliced!InPlace(v4["s4"])
    BY <1>4 DEF Sliced!InPlace, Win
  <2>4. /\ v4["s4"].array = 1 /\ v4["s4"].off = 3 /\ v4["s4"].len = 2
    BY <1>4 DEF Win
  <2>5. /\ v4'["s6"].array = 1 /\ v4'["s6"].off = 3 /\ v4'["s6"].len = 3 /\ v4'["s6"].cap = 4
    BY <1>4, <2>2, <2>3, <2>4 DEF Appended, Win
  <2>6. v4'["s6"] = TestWindows["s6"]
    <3>1. v4'["s6"] \in Windows
      BY <2>2 DEF FitInv, Fits
    <3> QED
      BY <2>5, <3>1 DEF Windows, TestWindows, Win
  <2>7. v3'[1][6] = 77
    <3>1. v3'[v4'["s6"].array][v4'["s6"].off + v4["s4"].len + 1] = 77
      BY <2>2 DEF Appended
    <3> QED
      BY <2>4, <2>5, <3>1
  <2>8. ASSUME NEW k \in 1..7 PROVE v3'[1][k] = IF k = 6 THEN 77 ELSE v3[1][k]
    <3>1. CASE k = 6
      BY <2>7, <3>1
    <3>2. CASE k # 6
      <4>1. 1 \in 1..Len(v3) /\ k \in 1..Len(v3[1])
        BY <1>5
      <4>2. ~(Sliced!InPlace(v4["s4"]) /\ 1 = v4["s4"].array /\ k = v4["s4"].off + v4["s4"].len + 1)
        BY <2>4, <3>2
      <4>3. v3'[1][k] = v3[1][k]
        BY <2>2, <4>1, <4>2 DEF Appended
      <4> QED
        BY <3>2, <4>3
    <3> QED
      BY <3>1, <3>2
  <2>9. TestStays(6, 77)
    <3>1. ASSUME NEW k \in 1..7, k < v2
          PROVE  Names[k] \in DOMAIN v4' /\ v4'[Names[k]] = v4[Names[k]]
      <4>1. Names[k] \in DOMAIN v4 /\ Names[k] # "s6"
        BY <1>2, <1>6, <3>1 DEF Names
      <4> QED
        BY <2>2, <4>1
    <3> QED
      BY <1>1, <2>2, <2>8, <3>1 DEF TestStays
  <2> QED
    <3>1. Names[v2] \in DOMAIN v4' /\ v4'[Names[v2]] = TestWindows[Names[v2]]
      BY <1>6, <2>2, <2>6 DEF Names
    <3> QED
      BY <1>6, <2>9, <3>1, TestKeeps
<1>7. ASSUME v2 > 7, NEW d, d = dst, d \notin {"s0", "s1", "s2", "s3", "s4", "s5", "s6"},
             src \in DOMAIN v4, x \in Int, v4[src].array > 1 \/ ~Sliced!InPlace(v4[src])
      PROVE  TestStays(0, 99)
  <2>1. /\ FitInv' /\ DOMAIN v4' = DOMAIN v4 \cup {d}
        /\ \A s \in DOMAIN v4 \ {d} : v4'[s] = v4[s]
        /\ Appended(v4[src], x, v4'[d])
    BY <1>3, <1>7
  <2>2. ASSUME NEW k \in 1..7 PROVE v3'[1][k] = v3[1][k]
    <3>1. 1 \in 1..Len(v3) /\ k \in 1..Len(v3[1])
      BY <1>5
    <3>2. ~(Sliced!InPlace(v4[src]) /\ 1 = v4[src].array /\ k = v4[src].off + v4[src].len + 1)
      BY <1>7
    <3> QED
      BY <2>1, <3>1, <3>2 DEF Appended
  <2>3. ASSUME NEW k \in 1..7
        PROVE  Names[k] \in DOMAIN v4' /\ v4'[Names[k]] = v4[Names[k]]
    <3>1. Names[k] \in DOMAIN v4 /\ Names[k] # d
      BY <1>2, <1>7 DEF Names
    <3> QED
      BY <2>1, <3>1
  <2> QED
    BY <1>1, <2>1, <2>2, <2>3 DEF TestStays
<1>8. CASE v2 = 8
  <2>1. src = "s5" /\ dst = "s7" /\ x = 88
    BY <1>8, TestCalls DEF Sliced!Append1
  <2>2. /\ v4["s5"].array = 1 /\ v4["s5"].off = 3 /\ v4["s5"].len = 2
        /\ ~Sliced!InPlace(v4["s5"])
    BY <1>4 DEF Win, Sliced!InPlace
  <2>3. DOMAIN v4' = DOMAIN v4 \cup {"s7"} /\ Appended(v4["s5"], 88, v4'["s7"])
    BY <1>3, <1>4, <2>1
  <2>4. TestStays(0, 99)
    BY <1>4, <1>7, <1>8, <2>1, <2>2
  <2> HIDE DEF src, dst, x
  <2>5. v4'["s7"].len = 3 /\ v4'["s7"].array = Len(v3) + 1 /\ v4'["s7"].off = 0
    BY <2>2, <2>3 DEF Appended
  <2>6. v3[1][4] = 3 /\ v3[1][5] = 4
    BY <1>2
  <2>7. /\ \A k \in 1..2 : v3'[Len(v3) + 1][0 + k] = v3[1][3 + k]
        /\ v3'[Len(v3) + 1][0 + 2 + 1] = 88
    BY <2>2, <2>3, <2>5 DEF Appended
  <2>8. ASSUME NEW k \in 1..3 PROVE v3'[v4'["s7"].array][v4'["s7"].off + k] = <<3, 4, 88>>[k]
    <3>1. /\ v3'[Len(v3) + 1][0 + 1] = 3 /\ v3'[Len(v3) + 1][0 + 2] = 4
          /\ v3'[Len(v3) + 1][0 + 3] = 88
      BY <2>6, <2>7
    <3> QED
      BY <2>5, <3>1
  <2>9. Holds("s7", <<3, 4, 88>>)'
    BY <1>5, <2>3, <2>5, <2>8 DEF Holds
  <2> QED
    BY <1>8, <2>4, <2>9, TestKeeps
<1>9. CASE v2 = 9
  <2>1. src = "s7" /\ dst = "s8" /\ x = 66
    BY <1>9, TestCalls DEF Sliced!Append1
  <2>2. /\ "s7" \in DOMAIN v4 /\ v4["s7"].array > 1 /\ v4["s7"].len = 3
        /\ \A k \in 1..3 : v3[v4["s7"].array][v4["s7"].off + k] = <<3, 4, 88>>[k]
    BY <1>2, <1>9 DEF Holds
  <2>3. /\ DOMAIN v4' = DOMAIN v4 \cup {"s8"} /\ Appended(v4["s7"], 66, v4'["s8"])
        /\ v4'["s7"] = v4["s7"]
    BY <1>3, <2>1, <2>2
  <2>4. TestStays(0, 99)
    BY <1>7, <1>9, <2>1, <2>2
  <2>5. /\ v4["s7"].array \in 1..Len(v3) /\ v4["s7"].off \in Nat
        /\ v4["s7"].off + 3 <= Len(v3[v4["s7"].array]) /\ Len(v3[v4["s7"].array]) \in Nat
    <3>1. /\ v4["s7"] \in Windows /\ v4["s7"].array \in 1..Len(v3) /\ 3 <= v4["s7"].cap
          /\ v4["s7"].off + v4["s7"].cap <= Len(v3[v4["s7"].array])
          /\ v3[v4["s7"].array] \in Seq(Int)
      BY <1>1, <2>2 DEF FitInv, Fits
    <3>2. v4["s7"].off \in Nat /\ v4["s7"].cap \in Nat /\ Len(v3[v4["s7"].array]) \in Nat
      BY <3>1 DEF Windows
    <3> QED
      BY <3>1, <3>2
  <2> HIDE DEF src, dst, x
  <2> DEFINE a == v4["s7"].array
             o == v4["s7"].off
             b == v4'["s8"].array
             p == v4'["s8"].off
  <2>6. /\ v4'["s8"].len = 4 /\ b > 1
    BY <1>5, <2>2, <2>3 DEF Appended
  <2>7. ASSUME NEW k \in 1..3 PROVE v3'[a][o + k] = v3[a][o + k]
    <3>1. a \in 1..Len(v3) /\ o + k \in 1..Len(v3[a])
      BY <2>5
    <3>2. ~(Sliced!InPlace(v4["s7"]) /\ a = v4["s7"].array /\ o + k = v4["s7"].off + v4["s7"].len + 1)
      BY <2>2, <2>5
    <3> QED
      BY <2>3, <3>1, <3>2 DEF Appended
  <2>8. Holds("s7", <<3, 4, 88>>)'
    BY <2>2, <2>3, <2>7 DEF Holds
  <2>9. /\ \A k \in 1..3 : v3'[b][p + k] = v3[a][o + k]
        /\ v3'[b][p + 3 + 1] = 66
    BY <2>2, <2>3 DEF Appended
  <2>10. p \in Nat
    BY <2>3, <2>5 DEF Appended
  <2>11. ASSUME NEW k \in 1..4 PROVE v3'[b][p + k] = <<3, 4, 88, 66>>[k]
    <3>1. CASE k \in 1..3
      BY <2>2, <2>9, <3>1
    <3>2. CASE k = 4
      <4>1. p + 3 + 1 = p + 4
        BY <2>10
      <4> QED
        BY <2>9, <3>2, <4>1
    <3> QED
      BY <3>1, <3>2
  <2>12. Holds("s8", <<3, 4, 88, 66>>)'
    BY <2>3, <2>6, <2>11 DEF Holds
  <2> QED
    BY <1>9, <2>4, <2>8, <2>12, TestKeeps
<1> QED
  BY <1>6, <1>8, <1>9

\* An element set through a window.
LEMMA PokeFits ==
  ASSUME FitInv, NEW a \in 1..Len(v3), NEW p \in 1..Len(v3[a]), NEW x \in Int,
         v3' = [v3 EXCEPT ![a][p] = x], v4' = v4
  PROVE  /\ FitInv' /\ v3'[a][p] = x /\ Len(v3') = Len(v3)
         /\ \A n \in 1..Len(v3) : \A k \in 1..Len(v3[n]) : ~(n = a /\ k = p) => v3'[n][k] = v3[n][k]
<1>1. v3 \in Seq(Seq(Int))
  BY DEF FitInv
<1>2. /\ v3' \in Seq(Seq(Int)) /\ Len(v3') = Len(v3)
      /\ \A n \in 1..Len(v3) : Len(v3'[n]) = Len(v3[n])
      /\ v3'[a][p] = x
      /\ \A n \in 1..Len(v3) : \A k \in 1..Len(v3[n]) : ~(n = a /\ k = p) => v3'[n][k] = v3[n][k]
  <2> DEFINE g == [v3 EXCEPT ![a][p] = x]
  <2>1. LET f == [v3 EXCEPT ![a][p] = x] IN
        /\ f \in Seq(Seq(Int)) /\ Len(f) = Len(v3)
        /\ \A n \in 1..Len(v3) : Len(f[n]) = Len(v3[n])
        /\ f[a][p] = x
        /\ \A n \in 1..Len(v3) : \A k \in 1..Len(v3[n]) : ~(n = a /\ k = p) => f[n][k] = v3[n][k]
    BY <1>1, Poked
  <2>2. v3' = g
    OBVIOUS
  <2> HIDE DEF g
  <2> QED
    BY <2>1, <2>2
<1>3. ASSUME NEW s \in DOMAIN v4' PROVE Fits(v3', v4'[s])
  <2>1. s \in DOMAIN v4 /\ Fits(v3, v4[s]) /\ v4'[s] = v4[s]
    BY DEF FitInv
  <2> QED
    BY <1>2, <2>1 DEF Fits
<1> QED
  BY <1>2, <1>3 DEF FitInv

LEMMA TestSets ==
  ASSUME SliceInv, v1 = "test_slice", v2 = 10, Sliced!Next
  PROVE  SliceInv'
<1>1. /\ Sliced!SetElem /\ v1' = v1 /\ v2' = v2 + 1 /\ v5' = v5 /\ v4' = v4 /\ FitInv
  <2>1. Sliced!SetElem
    BY TestDoing
  <2> QED
    BY <2>1, TestTypes DEF Sliced!SetElem, Sliced!Next1
<1>2. /\ \A k \in 1..7 : k < v2 => Names[k] \in DOMAIN v4 /\ v4[Names[k]] = TestWindows[Names[k]]
      /\ Holds("s7", <<3, 4, 88>>) /\ Holds("s8", <<3, 4, 88, 66>>)
  BY DEF SliceInv, TestInv
<1>3. /\ "s0" \in DOMAIN v4 /\ v4["s0"] = Win(1, 0, 7, 7)
      /\ "s3" \in DOMAIN v4 /\ v4["s3"] = Win(1, 3, 4, 4)
  <2>1. 1 < v2 /\ 4 < v2
    OBVIOUS
  <2> QED
    BY <1>2, <2>1 DEF Names, TestWindows
<1>4. Len(v3) \in Nat /\ Len(v3) >= 1 /\ Len(v3[1]) >= 7 /\ Len(v3[1]) \in Nat
  BY <1>1, <1>3 DEF FitInv, Fits, Win
<1>5. v3' = [v3 EXCEPT ![1][5] = 99]
  <2>1. Sliced!Op.dst = "s3" /\ Sliced!Op.k = 1 /\ Sliced!Op.v = 99
    BY TestCalls DEF Sliced!Set
  <2>2. v4["s3"].array = 1 /\ v4["s3"].off + 1 + 1 = 5
    BY <1>3 DEF Win
  <2> QED
    BY <1>1, <2>1, <2>2 DEF Sliced!SetElem
<1>6. /\ FitInv' /\ v3'[1][5] = 99 /\ Len(v3') = Len(v3)
      /\ \A n \in 1..Len(v3) : \A k \in 1..Len(v3[n]) : ~(n = 1 /\ k = 5) => v3'[n][k] = v3[n][k]
  <2>1. 1 \in 1..Len(v3) /\ 5 \in 1..Len(v3[1])
    BY <1>4
  <2> QED
    <3>1. PICK a, p, x :
            a \in 1..Len(v3) /\ p \in 1..Len(v3[a]) /\ x \in Int /\ a = 1 /\ p = 5 /\ x = 99
      BY <2>1
    <3>2. v3' = [v3 EXCEPT ![a][p] = x]
      BY <1>5, <3>1
    <3>3. /\ FitInv' /\ v3'[a][p] = x /\ Len(v3') = Len(v3)
          /\ \A n \in 1..Len(v3) : \A k \in 1..Len(v3[n]) : ~(n = a /\ k = p) => v3'[n][k] = v3[n][k]
      <4>0. FitInv /\ v4' = v4
        BY <1>1
      <4>1. FitInv'
        BY <4>0, <3>1, <3>2, PokeFits
      <4>2. v3'[a][p] = x
        BY <4>0, <3>1, <3>2, PokeFits
      <4>3. Len(v3') = Len(v3)
        BY <4>0, <3>1, <3>2, PokeFits
      <4>4. \A n \in 1..Len(v3) : \A k \in 1..Len(v3[n]) : ~(n = a /\ k = p) => v3'[n][k] = v3[n][k]
        BY <4>0, <3>1, <3>2, PokeFits
      <4> QED
        BY <4>1, <4>2, <4>3, <4>4
    <3> QED
      BY <3>1, <3>3
<1>7. TestStays(5, 99)
  <2>1. ASSUME NEW k \in 1..7 PROVE v3'[1][k] = IF k = 5 THEN 99 ELSE v3[1][k]
    BY <1>4, <1>6
  <2> QED
    BY <1>1, <1>2, <1>6, <2>1 DEF TestStays
<1>8. ASSUME NEW s \in DOMAIN v4, v4[s].array > 1, NEW k \in 1..v4[s].len
      PROVE  v3'[v4'[s].array][v4'[s].off + k] = v3[v4[s].array][v4[s].off + k]
  <2>1. /\ v4[s] \in Windows /\ v4[s].array \in 1..Len(v3) /\ v4[s].len <= v4[s].cap
        /\ v4[s].off + v4[s].cap <= Len(v3[v4[s].array]) /\ v3[v4[s].array] \in Seq(Int)
    BY <1>1 DEF FitInv, Fits
  <2> DEFINE o == v4[s].off
             n == v4[s].len
             c == v4[s].cap
             l == Len(v3[v4[s].array])
  <2>2. o \in Nat /\ n \in Nat /\ c \in Nat /\ l \in Nat
    BY <2>1 DEF Windows
  <2>4. n <= c /\ o + c <= l /\ k \in 1..n
    BY <2>1
  <2>5. o + k \in 1..l
    <3> HIDE DEF o, n, c, l
    <3> QED
      BY <2>2, <2>4
  <2>3. v4[s].off + k \in 1..Len(v3[v4[s].array])
    BY <2>5
  <2> HIDE DEF o, n, c, l
  <2> QED
    BY <1>1, <1>6, <1>8, <2>1, <2>3
<1>9. Holds("s7", <<3, 4, 88>>)' /\ Holds("s8", <<3, 4, 88, 66>>)'
  BY <1>1, <1>2, <1>8 DEF Holds
<1> QED
  BY <1>7, <1>9, TestKeeps

LEMMA TestNext ==
  ASSUME SliceInv, v1 = "test_slice", Sliced!Next
  PROVE  SliceInv'
<1>1. v2 = 1 \/ v2 \in 2..6 \/ v2 \in 7..9 \/ v2 = 10 \/ v2 = 11
  BY TestTypes
<1>2. CASE v2 = 11
  <2>1. UNCHANGED <<v1, v2, v3, v4, v5, v6>>
    BY <1>2, TestDoing DEF Sliced!vars
  <2> QED
    BY <2>1 DEF SliceInv, TestInv, AppendsInv, LoopsInv, FitInv, Holds, Row
<1> QED
  BY <1>1, <1>2, TestMakes, TestReslices, TestAppends, TestSets

LEMMA AppendsNext ==
  ASSUME SliceInv, v1 = "appends", Sliced!Next
  PROVE  SliceInv'
<1>1. v2 \in 1..7 /\ v5 = 0 /\ FitInv
  BY DEF SliceInv, AppendsInv
<1>2. Len(Sliced!Programs[v1]) = 6
  BY <1>1, AppendCalls
<1>3. ASSUME v1' = v1, v2' = v2 + 1, v5' = v5, v2 <= 6, FitInv', "s6" \in DOMAIN v4'
      PROVE  SliceInv'
  <2>1. v1' = "appends" /\ v2' \in 2..7 /\ v5' = 0
    BY <1>1, <1>3
  <2>2. AppendsInv'
    BY <1>3, <2>1 DEF AppendsInv
  <2>3. TestInv' /\ LoopsInv' /\ v1' \in DOMAIN Sliced!Programs
    BY <2>1, Programs5 DEF TestInv, LoopsInv, Loops
  <2> QED
    BY <1>3, <2>2, <2>3 DEF SliceInv
<1>4. CASE v2 <= 6
  <2>1. Len(Sliced!Programs[v1]) \in Nat /\ v2 <= Len(Sliced!Programs[v1]) /\ v2 \in Nat
    BY <1>1, <1>2, <1>4
  <2>2. /\ Sliced!Op.op = "make" => Sliced!MakeArray
        /\ Sliced!Op.op = "append" => Sliced!DoAppend
    BY <2>1, ActionOf
  <2>3. CASE v2 = 1
    <3>1. /\ Sliced!Op.op = "make" /\ Sliced!Op.dst = "s6" /\ Sliced!Op.elems = <<>>
      BY <1>1, <2>3, AppendCalls DEF Sliced!Make
    <3>2. v3 = <<>> /\ DOMAIN v4 = {}
      BY <2>3 DEF SliceInv, AppendsInv
    <3>3. FitInv' /\ DOMAIN v4' = {"s6"}
      BY <2>2, <3>1, <3>2, MakeFits
    <3> QED
      BY <1>3, <1>4, <2>2, <3>1, <3>3 DEF Sliced!MakeArray, Sliced!Next1
  <2>4. CASE v2 \in 2..6
    <3>1. /\ Sliced!Op.op = "append" /\ Sliced!Op.src = "s6" /\ Sliced!Op.v = v2 - 1
      BY <1>1, <2>4, AppendCalls DEF Sliced!Append1
    <3>2. "s6" \in DOMAIN v4 /\ Sliced!Op.v \in Int
      BY <1>1, <2>4, <3>1 DEF SliceInv, AppendsInv
    <3>3. FitInv' /\ DOMAIN v4' = DOMAIN v4 \cup {Sliced!Op.dst}
      BY <1>1, <2>2, <3>1, <3>2, AppendFits
    <3> QED
      BY <1>3, <1>4, <2>2, <3>1, <3>2, <3>3 DEF Sliced!DoAppend, Sliced!Next1
  <2> QED
    BY <1>1, <1>4, <2>3, <2>4
<1>5. CASE v2 = 7
  <2>1. ~(v2 <= Len(Sliced!Programs[v1]))
    BY <1>2, <1>5
  <2>2. UNCHANGED <<v1, v2, v3, v4, v5, v6>>
    BY <2>1, Zenon DEF Sliced!Next, Sliced!MakeArray, Sliced!Reslice, Sliced!DoAppend, Sliced!SetElem,
       Sliced!Iterate, Sliced!LoopEnds, Sliced!Terminated, Sliced!At, Sliced!vars
  <2> QED
    BY <2>2 DEF SliceInv, TestInv, AppendsInv, LoopsInv, FitInv, Holds, Row
<1> QED
  BY <1>1, <1>4, <1>5

LEMMA LoopIterates ==
  ASSUME SliceInv, v1 \in Loops, v2 = 2, Sliced!Iterate
  PROVE  SliceInv'
<1>1. /\ v5 \in 0..6 /\ FitInv /\ DOMAIN v4 = {"numbers"} /\ v4["numbers"] = Win(1, 0, 6, 6)
      /\ v1 # "numbers1" => \A k \in 1..6 : v3[1][k] = Row(v5, k)
      /\ v1 # "numbers1" /\ v5 > 0 => \A k \in 1..6 : v6[k] = k
  BY DEF SliceInv, LoopsInv
<1>2. Sliced!Op.dst = "numbers" /\ Sliced!Op.kind = KindOf[v1]
  BY LoopCalls DEF Sliced!Range
<1>3. /\ v4["numbers"].array = 1 /\ v4["numbers"].off = 0 /\ v4["numbers"].len = 6
      /\ v4["numbers"].cap = 6
  BY <1>1 DEF Win
<1>4. v3 \in Seq(Seq(Int)) /\ 1 \in 1..Len(v3) /\ Len(v3[1]) \in Nat /\ Len(v3[1]) >= 6
      /\ v3[1] \in Seq(Int)
  BY <1>1, <1>3 DEF FitInv, Fits
<1>5. /\ v5 \in 0..5 /\ v5' = v5 + 1 /\ v1' = v1 /\ v2' = v2 /\ v4' = v4
      /\ v6' = IF v5 = 0 THEN Sliced!View("numbers") ELSE v6
  BY <1>1, <1>2, <1>3 DEF Sliced!Iterate
<1> DEFINE to == IF KindOf[v1] = "index" THEN v5 ELSE (v5 + 1) % 6
           p == to + 1
           y == IF v5 = 0 THEN v3[1][1] ELSE IF KindOf[v1] = "array" THEN v6[v5 + 1] ELSE v3[1][v5 + 1]
           x == IF KindOf[v1] # "index" THEN v3[1][p] + y ELSE IF v5 = 3 THEN 7 ELSE v3[1][p]
<1>6. v3' = [v3 EXCEPT ![1][p] = x]
  <2>1. /\ v4["numbers"].off + 0 + 1 = 1 /\ v4["numbers"].off + v5 + 1 = v5 + 1
    BY <1>3, <1>5
  <2> QED
    <3>1. Sliced!Elem("numbers", 0) = v3[1][1] /\ Sliced!Elem("numbers", v5) = v3[1][v5 + 1]
      BY <1>3, <2>1 DEF Sliced!Elem
    <3>2. Sliced!Taken(v5) = IF KindOf[v1] = "array" THEN v6[v5 + 1] ELSE v3[1][v5 + 1]
      BY <1>2, <3>1 DEF Sliced!Taken
    <3>3. y = IF v5 = 0 THEN Sliced!Elem("numbers", 0) ELSE Sliced!Taken(v5)
      BY <3>1, <3>2
    <3>4. to = IF KindOf[v1] = "index" THEN v5 ELSE (v5 + 1) % v4["numbers"].len
      BY <1>3
    <3> HIDE DEF y, to
    <3> QED
      BY <1>2, <1>3, <3>3, <3>4 DEF Sliced!Iterate
<1>7. p \in 1..6 /\ (v1 # "numbers1" => p = IF v5 = 5 THEN 1 ELSE v5 + 2)
  BY <1>5 DEF KindOf, Loops
<1>8. v1 # "numbers1" => y = IF v1 = "numbers2" THEN v5 + 1 ELSE Row(v5, v5 + 1)
  BY <1>1, <1>5 DEF KindOf, Loops, Row
<1>9. x \in Int
  <2>1. v3[1][p] \in Int /\ v3[1][v5 + 1] \in Int
    <3>1. p \in 1..Len(v3[1])
      BY <1>4, <1>7
    <3>2. v5 + 1 \in 1..Len(v3[1])
      BY <1>4, <1>5
    <3> QED
      BY <1>4, <3>1, <3>2
  <2>2. v1 # "numbers1" => y \in Int
    BY <1>1, <1>5, <1>8, <2>1
  <2>3. v1 = "numbers1" => KindOf[v1] = "index"
    BY DEF KindOf
  <2> QED
    BY <2>1, <2>2, <2>3
<1>10. v1 # "numbers1" => KindOf[v1] # "index"
  BY DEF KindOf, Loops
<1>11. PICK q, z : q = p /\ z = x
  OBVIOUS
<1>12. v1 # "numbers1" => z = v3[1][q] + y
  BY <1>10, <1>11
<1>13. q \in 1..6 /\ z \in Int /\ v3' = [v3 EXCEPT ![1][q] = z]
  BY <1>6, <1>7, <1>9, <1>11
<1>14. v1 # "numbers1" => q = IF v5 = 5 THEN 1 ELSE v5 + 2
  BY <1>7, <1>11
<1> HIDE DEF to, p, x, y
<1>15. FitInv' /\ \A k \in 1..6 : v3'[1][k] = IF k = q THEN z ELSE v3[1][k]
  <2>1. q \in 1..Len(v3[1])
    BY <1>4, <1>13
  <2>2. PICK a : a = 1
    OBVIOUS
  <2>3. a \in 1..Len(v3) /\ q \in 1..Len(v3[a]) /\ v3' = [v3 EXCEPT ![a][q] = z]
    BY <1>4, <1>13, <2>1, <2>2
  <2>4. FitInv /\ v4' = v4 /\ z \in Int
    BY <1>1, <1>5, <1>13
  <2>5. FitInv'
    BY <2>3, <2>4, PokeFits
  <2>6. v3'[a][q] = z
    BY <2>3, <2>4, PokeFits
  <2>7. \A n \in 1..Len(v3) : \A k \in 1..Len(v3[n]) : ~(n = a /\ k = q) => v3'[n][k] = v3[n][k]
    BY <2>3, <2>4, PokeFits
  <2>8. ASSUME NEW k \in 1..6 PROVE v3'[1][k] = IF k = q THEN z ELSE v3[1][k]
    <3>1. k \in 1..Len(v3[1])
      BY <1>4
    <3> QED
      BY <1>4, <2>2, <2>6, <2>7, <3>1
  <2> QED
    BY <2>5, <2>8
<1>16. ASSUME v1 # "numbers1", NEW k \in 1..6 PROVE v3'[1][k] = Row(v5, k)'
  <2>1. v3'[1][k] = IF k = q THEN Row(v5, q) + y ELSE Row(v5, k)
    BY <1>1, <1>12, <1>13, <1>15, <1>16
  <2>2. CASE v1 = "numbers2"
    <3>1. /\ Row(v5, k) = IF k = 1 THEN IF v5 < 6 THEN 1 ELSE 7 ELSE IF k > v5 + 1 THEN k ELSE 2 * k - 1
          /\ Row(v5, q) = IF q = 1 THEN IF v5 < 6 THEN 1 ELSE 7 ELSE IF q > v5 + 1 THEN q ELSE 2 * q - 1
          /\ Row(v5, k)' = IF k = 1 THEN IF v5' < 6 THEN 1 ELSE 7 ELSE IF k > v5' + 1 THEN k ELSE 2 * k - 1
      BY <1>5, <2>2 DEF Row
    <3> QED
      BY <1>5, <1>8, <1>14, <1>16, <2>1, <2>2, <3>1
  <2>3. CASE v1 = "numbers3"
    <3> DEFINE sums == <<1, 3, 6, 10, 15, 21>>
    <3>1. /\ Row(v5, k) = IF k = 1 THEN IF v5 < 6 THEN 1 ELSE 22 ELSE IF k > v5 + 1 THEN k ELSE sums[k]
          /\ Row(v5, q) = IF q = 1 THEN IF v5 < 6 THEN 1 ELSE 22 ELSE IF q > v5 + 1 THEN q ELSE sums[q]
          /\ Row(v5, k)' = IF k = 1 THEN IF v5' < 6 THEN 1 ELSE 22 ELSE IF k > v5' + 1 THEN k ELSE sums[k]
          /\ Row(v5, v5 + 1) = IF v5 = 0 THEN 1 ELSE sums[v5 + 1]
      BY <1>5, <2>3 DEF Row
    <3>2. /\ sums[1] = 1 /\ sums[2] = 3 /\ sums[3] = 6 /\ sums[4] = 10 /\ sums[5] = 15 /\ sums[6] = 21
      OBVIOUS
    <3> HIDE DEF sums
    <3> QED
      BY <1>5, <1>8, <1>14, <1>16, <2>1, <2>3, <3>1, <3>2
  <2> QED
    BY <1>16, <2>2, <2>3 DEF Loops
<1>17. ASSUME v1 # "numbers1", NEW k \in 1..6 PROVE v6'[k] = k
  <2>1. CASE v5 = 0
    <3>1. Sliced!View("numbers")[k] = v3[1][0 + k]
      BY <1>1, <1>3, ViewElems
    <3> QED
      BY <1>1, <1>5, <1>17, <2>1, <3>1 DEF Row
  <2> QED
    BY <1>1, <1>5, <1>17, <2>1
<1>18. LoopsInv'
  BY <1>1, <1>5, <1>16, <1>17 DEF LoopsInv, Loops
<1>19. TestInv' /\ AppendsInv' /\ v1' \in DOMAIN Sliced!Programs
  BY <1>5, Programs5 DEF TestInv, AppendsInv, Loops
<1> QED
  BY <1>15, <1>18, <1>19 DEF SliceInv

LEMMA LoopNext ==
  ASSUME SliceInv, v1 \in Loops, Sliced!Next
  PROVE  SliceInv'
<1>1. v2 \in 1..3 /\ v5 \in 0..6 /\ FitInv
  BY DEF SliceInv, LoopsInv
<1>2. Len(Sliced!Programs[v1]) = 2
  BY LoopCalls
<1>3. ASSUME v2 <= 2
      PROVE  /\ Sliced!Op.op = "make" => Sliced!MakeArray
             /\ Sliced!Op.op = "range" => Sliced!Iterate \/ Sliced!LoopEnds
  <2>1. Len(Sliced!Programs[v1]) \in Nat /\ v2 <= Len(Sliced!Programs[v1]) /\ v2 \in Nat
    BY <1>1, <1>2, <1>3
  <2> QED
    BY <2>1, ActionOf
<1>4. ASSUME v1' = v1, FitInv', LoopsInv'
      PROVE  SliceInv'
  BY <1>4, Programs5 DEF SliceInv, TestInv, AppendsInv, Loops
<1>5. CASE v2 = 1
  <2>1. Sliced!MakeArray /\ Sliced!Op.dst = "numbers" /\ Sliced!Op.elems = <<1, 2, 3, 4, 5, 6>>
    BY <1>3, <1>5, LoopCalls DEF Sliced!Make
  <2>2. v3 = <<>> /\ DOMAIN v4 = {} /\ v5 = 0
    BY <1>5 DEF SliceInv, LoopsInv
  <2> DEFINE e == <<1, 2, 3, 4, 5, 6>>
  <2>3. e \in Seq(Int) /\ Len(e) = 6 /\ \A k \in 1..6 : e[k] = k
    OBVIOUS
  <2>4. Sliced!Op.elems = e
    BY <2>1
  <2> HIDE DEF e
  <2>5. FitInv' /\ DOMAIN v4' = {"numbers"} /\ v3'[1] = e /\ v4'["numbers"] = Win(1, 0, 6, 6)
    BY <2>1, <2>2, <2>3, <2>4, MakeFits
  <2>6. v1' = v1 /\ v2' = 2 /\ v5' = 0
    BY <1>5, <2>1, <2>2 DEF Sliced!MakeArray, Sliced!Next1
  <2>7. \A k \in 1..6 : v3'[1][k] = Row(v5, k)'
    BY <2>3, <2>5, <2>6 DEF Row
  <2>8. LoopsInv'
    BY <2>5, <2>6, <2>7 DEF LoopsInv
  <2> QED
    BY <1>4, <2>5, <2>6, <2>8
<1>6. CASE v2 = 2
  <2>1. Sliced!Iterate \/ Sliced!LoopEnds
    BY <1>3, <1>6, LoopCalls DEF Sliced!Range
  <2>2. CASE Sliced!LoopEnds
    <3>1. Sliced!Op.dst = "numbers" /\ v4["numbers"].len = 6
      BY <1>6, LoopCalls DEF Sliced!Range, SliceInv, LoopsInv, Win
    <3>2. /\ v5 = 6 /\ v2' = 3 /\ UNCHANGED <<v1, v3, v4, v5, v6>>
      BY <1>6, <2>2, <3>1 DEF Sliced!LoopEnds
    <3>3. FitInv'
      BY <1>1, <3>2 DEF FitInv
    <3>4. LoopsInv'
      BY <1>6, <3>2 DEF SliceInv, LoopsInv, Row
    <3> QED
      BY <1>4, <3>2, <3>3, <3>4
  <2> QED
    BY <1>6, <2>1, <2>2, LoopIterates
<1>7. CASE v2 = 3
  <2>1. ~(v2 <= Len(Sliced!Programs[v1]))
    BY <1>2, <1>7
  <2>2. UNCHANGED <<v1, v2, v3, v4, v5, v6>>
    BY <2>1, Zenon DEF Sliced!Next, Sliced!MakeArray, Sliced!Reslice, Sliced!DoAppend, Sliced!SetElem,
       Sliced!Iterate, Sliced!LoopEnds, Sliced!Terminated, Sliced!At, Sliced!vars
  <2> QED
    BY <2>2 DEF SliceInv, TestInv, AppendsInv, LoopsInv, FitInv, Holds, Row
<1> QED
  BY <1>1, <1>5, <1>6, <1>7

LEMMA SlicesKept == SlicesInv /\ [Next]_vars => SlicesInv'
<1> SUFFICES ASSUME SlicesInv, [Next]_vars, running' = "Slices" PROVE SliceInv'
  BY DEF SlicesInv
<1>1. CASE UNCHANGED vars
  <2>1. SliceInv /\ UNCHANGED <<v1, v2, v3, v4, v5, v6>>
    BY <1>1 DEF vars, SlicesInv
  <2> QED
    BY <2>1 DEF SliceInv, TestInv, AppendsInv, LoopsInv, FitInv, Holds, Row
<1>2. CASE Of("Slices", Sliced!Next, <<v7, v8>>)
  <2>1. SliceInv /\ Sliced!Next
    BY <1>2 DEF Of, SlicesInv
  <2>2. v1 = "test_slice" \/ v1 = "appends" \/ v1 \in Loops
    BY <2>1, Programs5 DEF SliceInv
  <2> QED
    BY <2>1, <2>2, TestNext, AppendsNext, LoopNext
<1> QED
  BY <1>1, <1>2 DEF Next, Of

LEMMA SlicesInvariant == Spec => []SlicesInv
<1>1. Init => SlicesInv
  BY SlicesStart
<1>2. SlicesInv /\ [Next]_vars => SlicesInv'
  BY SlicesKept
<1> QED
  BY <1>1, <1>2, PTL DEF Spec

LEMMA SlicesGood ==
  ASSUME SliceInv
  PROVE  Sliced!TypeOK /\ Sliced!ShowsWhatCommentsSay /\ Sliced!RangeSums
<1>1. /\ v1 \in {"test_slice", "appends"} \cup Loops /\ FitInv
      /\ TestInv /\ AppendsInv /\ LoopsInv
  BY Programs5 DEF SliceInv
<1>2. Sliced!TypeOK
  <2>1. v5 \in 0..6
    BY <1>1 DEF TestInv, AppendsInv, LoopsInv
  <2>2. v1 \in DOMAIN Sliced!Programs
    BY DEF SliceInv
  <2> QED
    BY <1>1, <2>1, <2>2 DEF Sliced!TypeOK, FitInv, Fits
<1>3. ASSUME NEW s \in DOMAIN v4
      PROVE  /\ Sliced!View(s) \in Seq(Int) /\ Len(Sliced!View(s)) = v4[s].len
             /\ \A k \in 1..v4[s].len : Sliced!View(s)[k] = v3[v4[s].array][v4[s].off + k]
  BY <1>1, ViewElems
<1>4. Sliced!ShowsWhatCommentsSay
  <2> SUFFICES ASSUME v1 = "test_slice", Sliced!Finished
               PROVE  /\ Sliced!View("s2") = <<1, 2>> /\ Sliced!View("s3") = <<3, 99, 77, 6>>
                      /\ Sliced!View("s4") = <<3, 99>>
                      /\ Sliced!View("s5") = <<3, 99>> /\ Sliced!View("s6") = <<3, 99, 77>>
                      /\ Sliced!View("s7") = <<3, 4, 88>> /\ Sliced!View("s8") = <<3, 4, 88, 66>>
    BY DEF Sliced!ShowsWhatCommentsSay
  <2>1. v2 = 11
    <3>1. v2 \in 1..11 /\ Len(Sliced!Programs[v1]) = 10
      BY TestTypes, TestCalls
    <3> QED
      BY <3>1 DEF Sliced!Finished
  <2>2. /\ \A k \in 1..7 : Names[k] \in DOMAIN v4 /\ v4[Names[k]] = TestWindows[Names[k]]
        /\ \A k \in 1..7 : v3[1][k] = IF k = 6 THEN 77 ELSE IF k = 5 THEN 99 ELSE k - 1
        /\ Holds("s7", <<3, 4, 88>>) /\ Holds("s8", <<3, 4, 88, 66>>)
    BY <1>1, <2>1 DEF TestInv
  <2>3. /\ v3[1][2] = 1 /\ v3[1][3] = 2 /\ v3[1][4] = 3 /\ v3[1][5] = 99 /\ v3[1][6] = 77
        /\ v3[1][7] = 6
    BY <2>2
  <2>4. /\ "s2" \in DOMAIN v4 /\ v4["s2"] = Win(1, 1, 2, 6)
        /\ "s3" \in DOMAIN v4 /\ v4["s3"] = Win(1, 3, 4, 4)
        /\ "s4" \in DOMAIN v4 /\ v4["s4"] = Win(1, 3, 2, 4)
        /\ "s5" \in DOMAIN v4 /\ v4["s5"] = Win(1, 3, 2, 2)
        /\ "s6" \in DOMAIN v4 /\ v4["s6"] = Win(1, 3, 3, 4)
    <3>1. /\ Names[3] = "s2" /\ Names[4] = "s3" /\ Names[5] = "s4" /\ Names[6] = "s5" /\ Names[7] = "s6"
      BY DEF Names
    <3>2. \A k \in {3, 4, 5, 6, 7} : Names[k] \in DOMAIN v4 /\ v4[Names[k]] = TestWindows[Names[k]]
      BY <2>2
    <3> QED
      BY <3>1, <3>2 DEF TestWindows
  <2>5. Sliced!View("s2") = <<1, 2>>
    <3>1. "s2" \in DOMAIN v4 /\ v4["s2"].array = 1 /\ v4["s2"].off = 1 /\ v4["s2"].len = 2
      BY <2>4 DEF Win
    <3>2. Sliced!View("s2") \in Seq(Int) /\ Len(Sliced!View("s2")) = 2
      BY <1>3, <3>1
    <3>3. \A k \in 1..2 : Sliced!View("s2")[k] = v3[1][1 + k]
      BY <1>3, <3>1
    <3>4. Sliced!View("s2")[1] = 1 /\ Sliced!View("s2")[2] = 2
      BY <2>3, <3>3
    <3> QED
      BY <3>2, <3>4
  <2>6. Sliced!View("s3") = <<3, 99, 77, 6>>
    <3>1. "s3" \in DOMAIN v4 /\ v4["s3"].array = 1 /\ v4["s3"].off = 3 /\ v4["s3"].len = 4
      BY <2>4 DEF Win
    <3>2. Sliced!View("s3") \in Seq(Int) /\ Len(Sliced!View("s3")) = 4
      BY <1>3, <3>1
    <3>3. \A k \in 1..4 : Sliced!View("s3")[k] = v3[1][3 + k]
      BY <1>3, <3>1
    <3>4. Sliced!View("s3")[1] = 3 /\ Sliced!View("s3")[2] = 99 /\ Sliced!View("s3")[3] = 77 /\ Sliced!View("s3")[4] = 6
      BY <2>3, <3>3
    <3> QED
      BY <3>2, <3>4
  <2>7. Sliced!View("s4") = <<3, 99>>
    <3>1. "s4" \in DOMAIN v4 /\ v4["s4"].array = 1 /\ v4["s4"].off = 3 /\ v4["s4"].len = 2
      BY <2>4 DEF Win
    <3>2. Sliced!View("s4") \in Seq(Int) /\ Len(Sliced!View("s4")) = 2
      BY <1>3, <3>1
    <3>3. \A k \in 1..2 : Sliced!View("s4")[k] = v3[1][3 + k]
      BY <1>3, <3>1
    <3>4. Sliced!View("s4")[1] = 3 /\ Sliced!View("s4")[2] = 99
      BY <2>3, <3>3
    <3> QED
      BY <3>2, <3>4
  <2>8. Sliced!View("s5") = <<3, 99>>
    <3>1. "s5" \in DOMAIN v4 /\ v4["s5"].array = 1 /\ v4["s5"].off = 3 /\ v4["s5"].len = 2
      BY <2>4 DEF Win
    <3>2. Sliced!View("s5") \in Seq(Int) /\ Len(Sliced!View("s5")) = 2
      BY <1>3, <3>1
    <3>3. \A k \in 1..2 : Sliced!View("s5")[k] = v3[1][3 + k]
      BY <1>3, <3>1
    <3>4. Sliced!View("s5")[1] = 3 /\ Sliced!View("s5")[2] = 99
      BY <2>3, <3>3
    <3> QED
      BY <3>2, <3>4
  <2>9. Sliced!View("s6") = <<3, 99, 77>>
    <3>1. "s6" \in DOMAIN v4 /\ v4["s6"].array = 1 /\ v4["s6"].off = 3 /\ v4["s6"].len = 3
      BY <2>4 DEF Win
    <3>2. Sliced!View("s6") \in Seq(Int) /\ Len(Sliced!View("s6")) = 3
      BY <1>3, <3>1
    <3>3. \A k \in 1..3 : Sliced!View("s6")[k] = v3[1][3 + k]
      BY <1>3, <3>1
    <3>4. Sliced!View("s6")[1] = 3 /\ Sliced!View("s6")[2] = 99 /\ Sliced!View("s6")[3] = 77
      BY <2>3, <3>3
    <3> QED
      BY <3>2, <3>4
  <2>10. Sliced!View("s7") = <<3, 4, 88>>
    <3>1. /\ "s7" \in DOMAIN v4 /\ v4["s7"].len = 3
          /\ \A k \in 1..3 : v3[v4["s7"].array][v4["s7"].off + k] = <<3, 4, 88>>[k]
      BY <2>2 DEF Holds
    <3>2. Sliced!View("s7") \in Seq(Int) /\ Len(Sliced!View("s7")) = 3
      BY <1>3, <3>1
    <3>3. \A k \in 1..3 : Sliced!View("s7")[k] = v3[v4["s7"].array][v4["s7"].off + k]
      BY <1>3, <3>1
    <3>4. \A k \in 1..3 : Sliced!View("s7")[k] = <<3, 4, 88>>[k]
      BY <3>1, <3>3
    <3>5. Sliced!View("s7")[1] = 3 /\ Sliced!View("s7")[2] = 4 /\ Sliced!View("s7")[3] = 88
      BY <3>4
    <3> QED
      BY <3>2, <3>5
  <2>11. Sliced!View("s8") = <<3, 4, 88, 66>>
    <3>1. /\ "s8" \in DOMAIN v4 /\ v4["s8"].len = 4
          /\ \A k \in 1..4 : v3[v4["s8"].array][v4["s8"].off + k] = <<3, 4, 88, 66>>[k]
      BY <2>2 DEF Holds
    <3>2. Sliced!View("s8") \in Seq(Int) /\ Len(Sliced!View("s8")) = 4
      BY <1>3, <3>1
    <3>3. \A k \in 1..4 : Sliced!View("s8")[k] = v3[v4["s8"].array][v4["s8"].off + k]
      BY <1>3, <3>1
    <3>4. \A k \in 1..4 : Sliced!View("s8")[k] = <<3, 4, 88, 66>>[k]
      BY <3>1, <3>3
    <3>5. Sliced!View("s8")[1] = 3 /\ Sliced!View("s8")[2] = 4 /\ Sliced!View("s8")[3] = 88 /\ Sliced!View("s8")[4] = 66
      BY <3>4
    <3> QED
      BY <3>2, <3>5
  <2> QED
    BY <2>5, <2>6, <2>7, <2>8, <2>9, <2>10, <2>11
<1>5. Sliced!RangeSums
  <2> SUFFICES ASSUME Sliced!Finished, v1 \in {"numbers2", "numbers3"}
               PROVE  Sliced!View("numbers") = IF v1 = "numbers2" THEN <<7, 3, 5, 7, 9, 11>>
                                               ELSE <<1 + 21, 3, 6, 10, 15, 21>>
    BY DEF Sliced!RangeSums
  <2>1. v1 \in Loops /\ v1 # "numbers1" /\ v2 \in 1..3 /\ Len(Sliced!Programs[v1]) = 2
    BY <1>1, LoopCalls DEF LoopsInv, Loops
  <2>2. v2 = 3
    BY <2>1 DEF Sliced!Finished
  <2>3. /\ "numbers" \in DOMAIN v4 /\ v4["numbers"] = Win(1, 0, 6, 6) /\ v5 = 6
        /\ \A k \in 1..6 : v3[1][k] = Row(v5, k)
    BY <1>1, <2>1, <2>2 DEF LoopsInv
  <2>4. /\ Sliced!View("numbers") \in Seq(Int) /\ Len(Sliced!View("numbers")) = 6
        /\ \A k \in 1..6 : Sliced!View("numbers")[k] = v3[1][k]
    <3>1. v4["numbers"].array = 1 /\ v4["numbers"].off = 0 /\ v4["numbers"].len = 6
      BY <2>3 DEF Win
    <3>2. Sliced!View("numbers") \in Seq(Int) /\ Len(Sliced!View("numbers")) = 6
      BY <1>3, <2>3, <3>1
    <3>3. \A k \in 1..6 : Sliced!View("numbers")[k] = v3[1][0 + k]
      <4>1. \A k \in 1..v4["numbers"].len :
              Sliced!View("numbers")[k] = v3[v4["numbers"].array][v4["numbers"].off + k]
        BY <1>3, <2>3
      <4> QED
        BY <3>1, <4>1
    <3> QED
      BY <3>2, <3>3
  <2>n. \A k \in {1, 2, 3, 4, 5, 6} : Sliced!View("numbers")[k] = v3[1][k]
    BY <2>4
  <2>5. CASE v1 = "numbers2"
    <3>1. /\ v3[1][1] = 7 /\ v3[1][2] = 3 /\ v3[1][3] = 5 /\ v3[1][4] = 7 /\ v3[1][5] = 9
          /\ v3[1][6] = 11
      BY <2>3, <2>5 DEF Row
    <3>2. /\ Sliced!View("numbers")[1] = 7 /\ Sliced!View("numbers")[2] = 3
          /\ Sliced!View("numbers")[3] = 5 /\ Sliced!View("numbers")[4] = 7
          /\ Sliced!View("numbers")[5] = 9 /\ Sliced!View("numbers")[6] = 11
      BY <2>n, <3>1
    <3>3. Sliced!View("numbers") = <<7, 3, 5, 7, 9, 11>>
      BY <2>4, <3>2
    <3> QED
      BY <2>5, <3>3
  <2>6. CASE v1 = "numbers3"
    <3>1. /\ v3[1][1] = 22 /\ v3[1][2] = 3 /\ v3[1][3] = 6 /\ v3[1][4] = 10 /\ v3[1][5] = 15
          /\ v3[1][6] = 21
      BY <2>3, <2>6 DEF Row
    <3>2. /\ Sliced!View("numbers")[1] = 22 /\ Sliced!View("numbers")[2] = 3
          /\ Sliced!View("numbers")[3] = 6 /\ Sliced!View("numbers")[4] = 10
          /\ Sliced!View("numbers")[5] = 15 /\ Sliced!View("numbers")[6] = 21
      BY <2>n, <3>1
    <3>3. Sliced!View("numbers") = <<1 + 21, 3, 6, 10, 15, 21>>
      BY <2>4, <3>2
    <3> QED
      BY <2>6, <3>3
  <2> QED
    BY <2>5, <2>6
<1> QED
  BY <1>2, <1>4, <1>5

\* What TestInv says of the array a and of the windows on it is the same before
\* and after the appends to s5 and s7.
LEMMA SlicesAppend ==
  ASSUME SliceInv, Sliced!Next
  PROVE  Sliced!CutOffStaysApart
<1> SUFFICES ASSUME v1 = "test_slice", Sliced!At("append"), Sliced!Op.src # "s4",
                    NEW s \in Sliced!OnArray
             PROVE  Sliced!View(s)' = Sliced!View(s)
  BY DEF Sliced!CutOffStaysApart
<1>1. v2 \in 8..9
  <2>1. v2 \in 1..10
    <3>1. v2 \in 1..11 /\ Len(Sliced!Programs[v1]) = 10
      BY TestTypes, TestCalls
    <3> QED
      BY <3>1 DEF Sliced!At
  <2>2. /\ v2 = 1 => Sliced!Op.op = "make"
        /\ v2 \in 2..6 => Sliced!Op.op = "slice"
        /\ v2 = 7 => Sliced!Op.src = "s4"
        /\ v2 = 10 => Sliced!Op.op = "set"
    BY TestCalls DEF Sliced!Make, Sliced!Slice, Sliced!Append1, Sliced!Set
  <2> QED
    BY <2>1, <2>2 DEF Sliced!At
<1>2. SliceInv' /\ v1' = v1 /\ v2' = v2 + 1
  <2>1. Sliced!DoAppend
    BY <1>1, TestDoing
  <2> QED
    BY <2>1, TestNext DEF Sliced!DoAppend, Sliced!Next1
<1>3. PICK k \in 1..7 : Names[k] = s
  BY DEF Names, Sliced!OnArray
<1>4. v4[s] = TestWindows[s] /\ v4'[s] = TestWindows[s]
  <2>1. k < v2 /\ k < v2'
    BY <1>1, <1>2
  <2> QED
    BY <1>2, <1>3, <2>1 DEF SliceInv, TestInv
<1>5. ASSUME NEW n \in 1..7 PROVE v3'[1][n] = v3[1][n]
  <2>1. v3[1][n] = IF n = 6 THEN 77 ELSE n - 1
    BY <1>1 DEF SliceInv, TestInv
  <2>2. v3'[1][n] = IF n = 6 THEN 77 ELSE n - 1
    BY <1>1, <1>2 DEF SliceInv, TestInv
  <2> QED
    BY <2>1, <2>2
<1>6. /\ TestWindows[s].array = 1 /\ TestWindows[s].off \in Nat /\ TestWindows[s].len \in Nat
      /\ TestWindows[s].off + TestWindows[s].len <= 7
  BY DEF TestWindows, Win, Sliced!OnArray
<1>7. ASSUME NEW n \in 1..TestWindows[s].len
      PROVE  v3'[v4'[s].array][v4'[s].off + (n - 1) + 1] = v3[v4[s].array][v4[s].off + (n - 1) + 1]
  <2>1. TestWindows[s].off + (n - 1) + 1 \in 1..7
    BY <1>6
  <2> QED
    BY <1>4, <1>5, <1>6, <2>1
<1> QED
  BY <1>4, <1>7 DEF Sliced!View, Sliced!Elem

-----------------------------------------------------------------------------
(* The concatenations: v1 is method, v2 is n, v3 is i, v4 is second, v5 is   *)
(* len, v6 is cap and v7 is copied.                                          *)

\* The bytes copied more than once are paid for by the capacity: a text that
\* moves has used its capacity up, and gets a quarter more of it at least.
GrowInv == v1 \in Concat!Growing => v5 <= v6 /\ v7 - v5 <= 4 * v6 /\ v7 <= 6 * v5

RebuildInv == v1 \notin Concat!Growing => 14 * v7 >= v5 * v5

ConcatInv ==
  /\ v1 \in Concat!Growing \cup Concat!Rebuilding
  /\ v5 \in Nat /\ v6 \in Nat /\ v7 \in Nat
  /\ GrowInv /\ RebuildInv

ConcatsInv == running = "StrCat" => ConcatInv

LEMMA ConcatsStart == Init => ConcatsInv
<1> SUFFICES ASSUME Init, running = "StrCat" PROVE ConcatInv
  BY DEF ConcatsInv
<1>1. Concat!Init
  BY DEF Init
<1>2. /\ v5 = 0 /\ v6 = 0 /\ v7 = 0
      /\ v1 \in {"DemoBytesBuffer", "DemoWriteString", "DemoAppend"} \cup Concat!Rebuilding
  BY <1>1 DEF Concat!Init
<1> QED
  BY <1>2 DEF ConcatInv, GrowInv, RebuildInv, Concat!Growing, Concat!Rebuilding

LEMMA MaxOfTwo ==
  ASSUME NEW a \in Nat, NEW b \in Nat
  PROVE  Concat!Max({a, b}) \in Nat /\ Concat!Max({a, b}) >= a /\ Concat!Max({a, b}) >= b
<1>1. \E x \in {a, b} : \A y \in {a, b} : x >= y
  OBVIOUS
<1>2. Concat!Max({a, b}) \in {a, b} /\ \A y \in {a, b} : Concat!Max({a, b}) >= y
  BY <1>1, Zenon DEF Concat!Max
<1> QED
  BY <1>2

\* A capacity that the runtime gives has room for what is needed and is a
\* quarter more than the old one, at least.
LEMMA CapacityGrows ==
  ASSUME NEW c \in Nat, NEW m \in Nat, NEW d \in Concat!Capacities(c, m)
  PROVE  d \in Nat /\ d >= m /\ 4 * d >= 5 * c
<1>1. c + ((c + 3) \div 4) \in Nat /\ 4 * (c + ((c + 3) \div 4)) >= 5 * c
  OBVIOUS
<1>2. 2 * c \in Nat
  OBVIOUS
<1>3. d = Concat!Max({m, c + ((c + 3) \div 4)}) \/ d = Concat!Max({m, 2 * c})
  BY DEF Concat!Capacities
<1>4. CASE d = Concat!Max({m, c + ((c + 3) \div 4)})
  <2>1. d \in Nat /\ d >= m /\ d >= c + ((c + 3) \div 4)
    BY <1>1, <1>4, MaxOfTwo
  <2> QED
    BY <1>1, <2>1
<1>5. CASE d = Concat!Max({m, 2 * c})
  <2>1. d \in Nat /\ d >= m /\ d >= 2 * c
    BY <1>2, <1>5, MaxOfTwo
  <2> QED
    BY <2>1
<1> QED
  BY <1>3, <1>4, <1>5

LEMMA SquareGrows ==
  ASSUME NEW l \in Nat, NEW k \in Nat, NEW p \in {6, 7}, 14 * k >= l * l
  PROVE  14 * (k + (l + p)) >= (l + p) * (l + p)
<1>1. CASE p = 6
  <2>1. (l + 6) * (l + 6) = l * l + 12 * l + 36
    OBVIOUS
  <2> QED
    BY <1>1, <2>1
<1>2. CASE p = 7
  <2>1. (l + 7) * (l + 7) = l * l + 14 * l + 49
    OBVIOUS
  <2> QED
    BY <1>2, <2>1
<1> QED
  BY <1>1, <1>2

LEMMA ExtendKeeps ==
  ASSUME ConcatInv, Concat!Extend
  PROVE  ConcatInv'
<1> DEFINE p == Concat!Piece
<1>1. p \in {6, 7}
  BY DEF Concat!Piece
<1>2. /\ v1 \in Concat!Growing /\ v1' = v1 /\ v5' = v5 + p
      /\ IF v5' <= v6 THEN v7' = v7 + p /\ v6' = v6
         ELSE v7' = v7 + v5' /\ v6' \in Concat!Capacities(v6, v5')
  BY DEF Concat!Extend, Concat!Step
<1> HIDE DEF p
<1>3. /\ v5 \in Nat /\ v6 \in Nat /\ v7 \in Nat
      /\ v5 <= v6 /\ v7 - v5 <= 4 * v6 /\ v7 <= 6 * v5
  BY <1>2 DEF ConcatInv, GrowInv
<1>4. CASE v5' <= v6
  BY <1>1, <1>2, <1>3, <1>4 DEF ConcatInv, GrowInv, RebuildInv
<1>5. CASE ~(v5' <= v6)
  <2>1. v5' \in Nat /\ v5' > v6
    BY <1>1, <1>2, <1>3, <1>5
  <2>2. v7' = v7 + v5' /\ v6' \in Concat!Capacities(v6, v5')
    BY <1>2, <1>5
  <2>3. v6' \in Nat /\ v6' >= v5' /\ 4 * v6' >= 5 * v6
    BY <1>3, <2>1, <2>2, CapacityGrows
  <2>4. v7' = v7 + v5 + p /\ v5' = v5 + p /\ v7' \in Nat
    BY <1>1, <1>2, <1>3, <2>2
  <2>5. v7' - v5' <= 4 * v6'
    <3>1. v7' - v5' = v7
      BY <1>3, <2>1, <2>2, <2>4
    <3>2. v7 <= 5 * v6
      BY <1>3
    <3>3. v7 <= 4 * v6'
      <4> DEFINE d == v6'
      <4>1. v6 \in Nat /\ v7 \in Nat /\ d \in Nat /\ 4 * d >= 5 * v6
        BY <1>3, <2>3
      <4> HIDE DEF d
      <4>2. v7 <= 4 * d
        BY <3>2, <4>1
      <4> QED
        BY <4>2 DEF d
    <3> QED
      BY <3>1, <3>3
  <2>6. v7' <= 6 * v5'
    BY <1>1, <1>3, <2>1, <2>4
  <2> QED
    BY <1>2, <2>1, <2>3, <2>4, <2>5, <2>6 DEF ConcatInv, GrowInv, RebuildInv
<1> QED
  BY <1>4, <1>5

LEMMA RebuildKeeps ==
  ASSUME ConcatInv, Concat!Rebuild
  PROVE  ConcatInv'
<1> DEFINE p == Concat!Piece
<1>1. p \in {6, 7}
  BY DEF Concat!Piece
<1>2. /\ v1 \notin Concat!Growing /\ v1' = v1 /\ v5' = v5 + p /\ v6' = v5' /\ v7' = v7 + v5'
  BY DEF Concat!Rebuild, Concat!Step
<1> HIDE DEF p
<1>3. v5 \in Nat /\ v7 \in Nat /\ 14 * v7 >= v5 * v5
  BY <1>2 DEF ConcatInv, RebuildInv
<1>4. 14 * (v7 + (v5 + p)) >= (v5 + p) * (v5 + p)
  BY <1>1, <1>3, SquareGrows
<1>5. v5' \in Nat /\ v6' \in Nat /\ v7' \in Nat
  BY <1>1, <1>2, <1>3
<1>6. RebuildInv' /\ GrowInv'
  BY <1>2, <1>4 DEF RebuildInv, GrowInv
<1> QED
  BY <1>2, <1>5, <1>6 DEF ConcatInv

LEMMA ConcatsKept == ConcatsInv /\ [Next]_vars => ConcatsInv'
<1> SUFFICES ASSUME ConcatsInv, [Next]_vars, running' = "StrCat" PROVE ConcatInv'
  BY DEF ConcatsInv
<1>1. ASSUME UNCHANGED <<v1, v2, v3, v4, v5, v6, v7>>, ConcatInv PROVE ConcatInv'
  BY <1>1 DEF ConcatInv, GrowInv, RebuildInv
<1>2. CASE UNCHANGED vars
  BY <1>1, <1>2 DEF vars, ConcatsInv
<1>3. CASE Of("StrCat", Concat!Next, <<v8>>)
  <2>1. ConcatInv /\ Concat!Next
    BY <1>3 DEF Of, ConcatsInv
  <2> QED
    BY <1>1, <2>1, ExtendKeeps, RebuildKeeps DEF Concat!Next, Concat!Terminated, Concat!vars
<1> QED
  BY <1>2, <1>3 DEF Next, Of

LEMMA ConcatsInvariant == Spec => []ConcatsInv
<1>1. Init => ConcatsInv
  BY ConcatsStart
<1>2. ConcatsInv /\ [Next]_vars => ConcatsInv'
  BY ConcatsKept
<1> QED
  BY <1>1, <1>2, PTL DEF Spec

LEMMA ConcatsGood == ConcatInv => Concat!LinearWork /\ Concat!QuadraticWork
BY DEF ConcatInv, GrowInv, RebuildInv, Concat!LinearWork, Concat!QuadraticWork,
   Concat!Growing, Concat!Rebuilding

-----------------------------------------------------------------------------
(* The powers: v1 is exp, v2 is arg, v3 is i, v4 is base, v5 is result, v6   *)
(* is calls and v7 is pc. First, products in words of W values.              *)

LEMMA WordRest ==
  ASSUME NEW a \in Nat
  PROVE  a = W * (a \div W) + (a % W) /\ a % W \in 0..(W - 1) /\ a \div W \in Nat
BY DataDemosAssumption

LEMMA WordsApart ==
  ASSUME NEW p \in Int, NEW q \in Int, p < q
  PROVE  W * p + W <= W * q
<1>1. W \in Nat \ {0}
  BY DataDemosAssumption
<1>2. W * (p + 1) <= W * q
  BY <1>1
<1>3. W * (p + 1) = W * p + W
  BY <1>1
<1> QED
  BY <1>1, <1>2, <1>3

LEMMA WordUnique ==
  ASSUME NEW p \in Int, NEW q \in Int, NEW r \in 0..(W - 1), NEW s \in 0..(W - 1),
         W * p + r = W * q + s
  PROVE  r = s
<1>1. W \in Nat \ {0}
  BY DataDemosAssumption
<1>2. CASE p < q
  BY <1>1, <1>2, WordsApart
<1>3. CASE p > q
  BY <1>1, <1>3, WordsApart
<1>4. CASE p = q
  BY <1>1, <1>4
<1> QED
  BY <1>2, <1>3, <1>4

\* The factor may be cut to a word before a product is.
LEMMA WordProduct ==
  ASSUME NEW a \in Nat, NEW b \in Nat
  PROVE  ((a % W) * b) % W = (a * b) % W
<1> DEFINE q == a \div W
           r == a % W
           p == (r * b) \div W
           s == (r * b) % W
           t == (a * b) \div W
           u == (a * b) % W
<1>0. W \in Nat \ {0}
  BY DataDemosAssumption
<1>1. a = W * q + r /\ r \in Nat /\ q \in Nat
  BY <1>0, WordRest
<1>2. r * b \in Nat /\ a * b \in Nat
  BY <1>1
<1>3. r * b = W * p + s /\ s \in 0..(W - 1) /\ p \in Nat
  BY <1>2, WordRest
<1>4. a * b = W * t + u /\ u \in 0..(W - 1) /\ t \in Nat
  BY <1>2, WordRest
<1> HIDE DEF q, r, p, s, t, u
<1>5. a * b = W * (q * b) + r * b
  BY <1>0, <1>1
<1>6. W * (q * b) + W * p = W * (q * b + p) /\ q * b + p \in Nat
  BY <1>0, <1>1, <1>3
<1>7. q * b \in Nat
  BY <1>1
<1>8. W * (q * b + p) + s = W * t + u
  BY <1>0, <1>2, <1>3, <1>4, <1>5, <1>6, <1>7
<1>9. s = u
  BY <1>3, <1>4, <1>6, <1>8, WordUnique
<1> QED
  BY <1>9 DEF s, u, r

\* So may either of two factors.
LEMMA WordProducts ==
  ASSUME NEW a \in Nat, NEW b \in Nat
  PROVE  (a * (b % W)) % W = (a * b) % W
<1>1. b % W \in Nat
  BY WordRest, DataDemosAssumption
<1>2. a * (b % W) = (b % W) * a /\ a * b = b * a
  BY <1>1
<1> QED
  BY <1>2, WordProduct

-----------------------------------------------------------------------------
(* What the reference definition of a power computes, one factor at a time.  *)

PowerStep(b, p, k) == IF k = 0 THEN 1 % W ELSE (p[k - 1] * b) % W
IsPower(b, p, n) == p = [k \in 0..n |-> PowerStep(b, p, k)]
PowerFun(b, n) == CHOOSE p : IsPower(b, p, n)

LEMMA PowerIsFun ==
  ASSUME NEW b, NEW n
  PROVE  Power!Power(b, n) = PowerFun(b, n)[n]
BY DEF Power!Power, PowerFun, IsPower, PowerStep

LEMMA PowerExists ==
  ASSUME NEW b
  PROVE  \A n \in Nat : \E p : IsPower(b, p, n)
<1> SUFFICES ASSUME {n \in Nat : ~\E p : IsPower(b, p, n)} # {} PROVE FALSE
  OBVIOUS
<1> DEFINE T == {n \in Nat : ~\E p : IsPower(b, p, n)}
<1>1. PICK n \in T : \A m \in T : n <= m
  <2> HIDE DEF T
  <2>1. T \subseteq Nat
    BY DEF T
  <2>2. T # {}
    BY DEF T
  <2> QED
    BY <2>1, <2>2, NatMinimum
<1>2. n \in Nat /\ ~\E p : IsPower(b, p, n)
  OBVIOUS
<1>3. CASE n = 0
  <2> DEFINE p == [k \in 0..0 |-> 1 % W]
  <2>1. p = [k \in 0..0 |-> PowerStep(b, p, k)]
    BY DEF PowerStep
  <2>2. IsPower(b, p, n)
    BY <1>3, <2>1 DEF IsPower
  <2> QED
    BY <1>2, <2>2
<1>4. CASE n # 0
  <2>1. n - 1 \in Nat /\ ~(n <= n - 1)
    BY <1>2, <1>4
  <2>2. PICK q : IsPower(b, q, n - 1)
    BY <1>1, <2>1
  <2> DEFINE p == [k \in 0..n |-> IF k = n THEN (q[n - 1] * b) % W ELSE q[k]]
  <2>3. ASSUME NEW k \in 0..n PROVE p[k] = PowerStep(b, p, k)
    <3>1. CASE k = n
      <4>1. p[n - 1] = q[n - 1] /\ p[n] = (q[n - 1] * b) % W
        BY <1>2, <2>1
      <4> QED
        BY <1>4, <3>1, <4>1 DEF PowerStep
    <3>2. CASE k # n
      <4>1. k \in 0..(n - 1) /\ p[k] = q[k]
        BY <1>2, <3>2
      <4>2. q[k] = PowerStep(b, q, k)
        BY <2>2, <4>1 DEF IsPower
      <4>3. CASE k = 0
        BY <4>1, <4>2, <4>3 DEF PowerStep
      <4>4. CASE k # 0
        <5>1. k - 1 \in 0..n /\ k - 1 # n
          BY <1>2, <4>1, <4>4
        <5>2. p[k - 1] = q[k - 1]
          BY <5>1
        <5> QED
          BY <4>1, <4>2, <4>4, <5>2 DEF PowerStep
      <4> QED
        BY <4>3, <4>4
    <3> QED
      BY <3>1, <3>2
  <2>4. p = [k \in 0..n |-> PowerStep(b, p, k)]
    <3>1. DOMAIN p = 0..n /\ p = [k \in 0..n |-> p[k]]
      OBVIOUS
    <3> HIDE DEF p
    <3> QED
      BY <2>3, <3>1
  <2>5. IsPower(b, p, n)
    BY <2>4 DEF IsPower
  <2> QED
    BY <1>2, <2>5
<1> QED
  BY <1>3, <1>4

LEMMA PowerSteps ==
  ASSUME NEW b, NEW n \in Nat, NEW k \in 0..n
  PROVE  PowerFun(b, n)[k] = PowerStep(b, PowerFun(b, n), k)
<1>1. IsPower(b, PowerFun(b, n), n)
  BY PowerExists DEF PowerFun
<1> QED
  BY <1>1 DEF IsPower

\* Two such functions agree where both are defined: the least place where they do
\* not has a place before it.
LEMMA PowerAgrees ==
  ASSUME NEW b, NEW n \in Nat
  PROVE  \A k \in 0..n : PowerFun(b, n + 1)[k] = PowerFun(b, n)[k]
<1> DEFINE f == PowerFun(b, n + 1)
           g == PowerFun(b, n)
           T == {k \in 0..n : f[k] # g[k]}
<1> SUFFICES ASSUME T # {} PROVE FALSE
  OBVIOUS
<1>1. PICK k \in T : \A m \in T : k <= m
  <2>1. T \subseteq Nat
    OBVIOUS
  <2> HIDE DEF T
  <2> QED
    BY <2>1, NatMinimum
<1>2. k \in 0..n /\ f[k] # g[k]
  OBVIOUS
<1>3. f[k] = PowerStep(b, f, k) /\ g[k] = PowerStep(b, g, k)
  <2>1. n + 1 \in Nat /\ k \in 0..(n + 1)
    BY <1>2
  <2> QED
    BY <1>2, <2>1, PowerSteps
<1>4. k # 0
  <2> HIDE DEF f, g
  <2> QED
    BY <1>2, <1>3 DEF PowerStep
<1>5. k - 1 \in 0..n /\ ~(k <= k - 1)
  BY <1>2, <1>4
<1>6. f[k - 1] = g[k - 1]
  BY <1>1, <1>5
<1> HIDE DEF f, g
<1> QED
  BY <1>2, <1>3, <1>4, <1>6 DEF PowerStep

LEMMA PowerZero ==
  ASSUME NEW b
  PROVE  Power!Power(b, 0) = 1 % W
BY PowerIsFun, PowerSteps DEF PowerStep

LEMMA PowerNext ==
  ASSUME NEW b, NEW n \in Nat
  PROVE  Power!Power(b, n + 1) = (Power!Power(b, n) * b) % W
<1>1. n + 1 \in 0..(n + 1) /\ n \in 0..n /\ n + 1 \in Nat /\ n + 1 # 0 /\ (n + 1) - 1 = n
  OBVIOUS
<1>2. Power!Power(b, n + 1) = PowerStep(b, PowerFun(b, n + 1), n + 1)
  BY <1>1, PowerIsFun, PowerSteps
<1>3. Power!Power(b, n + 1) = (PowerFun(b, n + 1)[n] * b) % W
  BY <1>1, <1>2 DEF PowerStep
<1>4. PowerFun(b, n + 1)[n] = PowerFun(b, n)[n]
  BY <1>1, PowerAgrees
<1> QED
  BY <1>3, <1>4, PowerIsFun

LEMMA PowerType ==
  ASSUME NEW b \in Nat
  PROVE  \A n \in Nat : Power!Power(b, n) \in 0..(W - 1)
<1> DEFINE T == {n \in Nat : Power!Power(b, n) \notin 0..(W - 1)}
<1> SUFFICES ASSUME T # {} PROVE FALSE
  OBVIOUS
<1>1. PICK n \in T : \A m \in T : n <= m
  <2>1. T \subseteq Nat
    OBVIOUS
  <2> HIDE DEF T
  <2> QED
    BY <2>1, NatMinimum
<1>2. n \in Nat /\ Power!Power(b, n) \notin 0..(W - 1)
  OBVIOUS
<1>3. n # 0
  <2>1. 1 % W \in 0..(W - 1)
    BY WordRest
  <2> QED
    BY <1>2, <2>1, PowerZero
<1> DEFINE m == n - 1
<1>4. m \in Nat /\ n = m + 1 /\ ~(n <= m)
  BY <1>2, <1>3
<1>5. Power!Power(b, m) \in 0..(W - 1)
  BY <1>1, <1>4
<1> HIDE DEF m
<1>6. Power!Power(b, n) = (Power!Power(b, m) * b) % W
  BY <1>4, PowerNext
<1>7. Power!Power(b, m) * b \in Nat
  BY <1>5
<1> QED
  BY <1>2, <1>6, <1>7, WordRest

\* Twice as many factors are as many squares.
LEMMA PowerSquares ==
  ASSUME NEW b \in Nat
  PROVE  \A n \in Nat : Power!Power(b, 2 * n) = Power!Power((b * b) % W, n)
<1> DEFINE c == (b * b) % W
           T == {n \in Nat : Power!Power(b, 2 * n) # Power!Power(c, n)}
<1> SUFFICES ASSUME T # {} PROVE FALSE
  OBVIOUS
<1>1. PICK n \in T : \A m \in T : n <= m
  <2>1. T \subseteq Nat
    OBVIOUS
  <2> HIDE DEF T
  <2> QED
    BY <2>1, NatMinimum
<1>2. n \in Nat /\ Power!Power(b, 2 * n) # Power!Power(c, n)
  OBVIOUS
<1>3. n # 0
  BY <1>2, PowerZero
<1> DEFINE m == n - 1
           p == Power!Power(b, 2 * m)
<1>4. m \in Nat /\ n = m + 1 /\ ~(n <= m) /\ 2 * m \in Nat
      /\ 2 * m + 1 \in Nat /\ 2 * n = (2 * m + 1) + 1
  BY <1>2, <1>3
<1>5. p = Power!Power(c, m)
  BY <1>1, <1>4
<1> HIDE DEF m
<1>13. p \in 0..(W - 1)
  BY <1>4, PowerType
<1>6. b * b \in Nat /\ p \in Nat
  BY <1>13
<1>7. Power!Power(b, 2 * m + 1) = (p * b) % W
  BY <1>4, PowerNext
<1>8. Power!Power(b, 2 * n) = (((p * b) % W) * b) % W
  <2>1. Power!Power(b, (2 * m + 1) + 1) = (Power!Power(b, 2 * m + 1) * b) % W
    BY <1>4, PowerNext
  <2> QED
    BY <1>4, <1>7, <2>1
<1>9. Power!Power(c, n) = (p * c) % W
  BY <1>4, <1>5, PowerNext
<1> HIDE DEF p
<1>10. p * b \in Nat /\ (p * b) * b = p * (b * b)
  BY <1>6
<1>11. (((p * b) % W) * b) % W = ((p * b) * b) % W
  BY <1>10, WordProduct
<1>12. (p * c) % W = (p * (b * b)) % W
  BY <1>6, WordProducts
<1> QED
  BY <1>2, <1>8, <1>9, <1>10, <1>11, <1>12

-----------------------------------------------------------------------------
(* The calls of the closure                                                  *)

PowTypes ==
  /\ v1 \in Nat /\ v2 \in Nat /\ v3 \in Nat /\ v4 \in Nat /\ v5 \in Nat /\ v6 \in Nat
  /\ v7 \in {"called", "returned"}

PowInv == PowTypes /\ Power!LoopInvariant /\ Power!ReturnsPower

PowsInv == running = "NthPower" => PowInv

LEMMA PowsStart == Init => PowsInv
<1> SUFFICES ASSUME Init, running = "NthPower" PROVE PowInv
  BY DEF PowsInv
<1>1. Power!Init
  BY DEF Init
<1>2. v1 \in Nat
  BY <1>1, DataDemosAssumption DEF Power!Init
<1> QED
  BY <1>1, <1>2 DEF Power!Init, PowInv, PowTypes, Power!LoopInvariant, Power!ReturnsPower

LEMMA PowCallKeeps ==
  ASSUME PowInv, Power!Call
  PROVE  PowInv'
<1>1. /\ v7' = "called" /\ v2' \in Bases /\ v4' = v2' /\ v5' = 1 /\ v3' = v1 /\ v1' = v1
      /\ v6' = v6 + 1
  BY DEF Power!Call
<1>2. v2' \in Nat
  BY <1>1, DataDemosAssumption
<1>3. PowTypes'
  BY <1>1, <1>2 DEF PowInv, PowTypes
<1>4. Power!LoopInvariant'
  <2> DEFINE p == Power!Power(v2', v1)
  <2>1. p \in 0..(W - 1)
    BY <1>2, PowerType DEF PowInv, PowTypes
  <2> HIDE DEF p
  <2>2. (1 * p) % W = p
    BY <2>1, DataDemosAssumption
  <2> QED
    BY <1>1, <2>2 DEF Power!LoopInvariant, p
<1> QED
  BY <1>1, <1>3, <1>4 DEF PowInv, Power!ReturnsPower

LEMMA PowLoopKeeps ==
  ASSUME PowInv, Power!Loop
  PROVE  PowInv'
<1> DEFINE h == v3 \div 2
           c == (v4 * v4) % W
           p == Power!Power(v4, 2 * h)
<1>1. /\ v7 = "called" /\ v7' = "called" /\ v3 > 0 /\ v1' = v1 /\ v2' = v2 /\ v6' = v6
      /\ v3' = h /\ v4' = c /\ v5' = IF v3 % 2 # 0 THEN (v5 * v4) % W ELSE v5
  BY DEF Power!Loop, Power!Captured, Power!Halved, Power!Multiplied
<1>2. /\ v1 \in Nat /\ v2 \in Nat /\ v3 \in Nat /\ v4 \in Nat /\ v5 \in Nat /\ v6 \in Nat
      /\ (v5 * Power!Power(v4, v3)) % W = Power!Power(v2, v1)
  BY <1>1 DEF PowInv, PowTypes, Power!LoopInvariant
<1>3. /\ h \in Nat /\ 2 * h \in Nat /\ v4 * v4 \in Nat /\ v5 * v4 \in Nat
      /\ v3 = IF v3 % 2 # 0 THEN 2 * h + 1 ELSE 2 * h
  BY <1>2
<1>4. c \in Nat /\ (v5 * v4) % W \in Nat
  BY <1>3, WordRest
<1>5. p = Power!Power(c, h) /\ p \in Nat
  <2>1. p \in 0..(W - 1)
    BY <1>2, <1>3, PowerType
  <2> QED
    BY <1>2, <1>3, <2>1, PowerSquares
<1> HIDE DEF h, c, p
<1>6. PowTypes'
  BY <1>1, <1>2, <1>3, <1>4 DEF PowTypes
<1>7. (v5' * p) % W = Power!Power(v2, v1)
  <2>1. CASE v3 % 2 = 0
    BY <1>1, <1>2, <1>3, <2>1 DEF p
  <2>2. CASE v3 % 2 # 0
    <3>1. Power!Power(v4, v3) = (p * v4) % W
      BY <1>3, <2>2, PowerNext DEF p
    <3>2. p * v4 \in Nat /\ v5 * (p * v4) = (v5 * v4) * p
      BY <1>2, <1>5
    <3>3. (v5 * ((p * v4) % W)) % W = (v5 * (p * v4)) % W
      BY <1>2, <3>2, WordProducts
    <3>4. (((v5 * v4) % W) * p) % W = ((v5 * v4) * p) % W
      BY <1>3, <1>5, WordProduct
    <3> QED
      BY <1>1, <1>2, <2>2, <3>1, <3>2, <3>3, <3>4
  <2> QED
    BY <2>1, <2>2
<1>8. Power!LoopInvariant'
  BY <1>1, <1>5, <1>7 DEF Power!LoopInvariant
<1> QED
  BY <1>1, <1>6, <1>8 DEF PowInv, Power!ReturnsPower

LEMMA PowReturnKeeps ==
  ASSUME PowInv, Power!Return
  PROVE  PowInv'
<1>1. v7 = "called" /\ v7' = "returned" /\ v3 = 0 /\ UNCHANGED <<v1, v2, v3, v4, v5, v6>>
  BY DEF Power!Return
<1>2. PowTypes'
  BY <1>1 DEF PowInv, PowTypes
<1>3. v5 % W = Power!Power(v2, v1)
  <2>1. (v5 * (1 % W)) % W = Power!Power(v2, v1)
    BY <1>1, PowerZero DEF PowInv, Power!LoopInvariant
  <2>2. v5 \in Nat /\ v5 * 1 = v5
    BY DEF PowInv, PowTypes
  <2>3. (v5 * (1 % W)) % W = (v5 * 1) % W
    BY <2>2, WordProducts
  <2> QED
    BY <2>1, <2>2, <2>3
<1>4. Power!LoopInvariant'
  BY <1>1 DEF Power!LoopInvariant
<1>5. Power!ReturnsPower'
  <2>1. PICK n : n = Power!Power(v2, v1)
    OBVIOUS
  <2>2. v5' % W = n /\ (n = Power!Power(v2, v1))'
    BY <1>1, <1>3, <2>1
  <2> QED
    BY <2>2 DEF Power!ReturnsPower
<1> QED
  BY <1>2, <1>4, <1>5 DEF PowInv

LEMMA PowsKept == PowsInv /\ [Next]_vars => PowsInv'
<1> SUFFICES ASSUME PowsInv, [Next]_vars, running' = "NthPower" PROVE PowInv'
  BY DEF PowsInv
<1>1. ASSUME UNCHANGED <<v1, v2, v3, v4, v5, v6, v7>>, PowInv PROVE PowInv'
  BY <1>1 DEF PowInv, PowTypes, Power!LoopInvariant, Power!ReturnsPower
<1>2. CASE UNCHANGED vars
  BY <1>1, <1>2 DEF vars, PowsInv
<1>3. CASE Of("NthPower", Power!Next, <<v8>>)
  <2>1. PowInv /\ Power!Next
    BY <1>3 DEF Of, PowsInv
  <2> QED
    BY <1>1, <2>1, PowCallKeeps, PowLoopKeeps, PowReturnKeeps
    DEF Power!Next, Power!Goes, Power!Terminated, Power!vars
<1> QED
  BY <1>2, <1>3 DEF Next, Of

LEMMA PowsInvariant == Spec => []PowsInv
<1>1. Init => PowsInv
  BY PowsStart
<1>2. PowsInv /\ [Next]_vars => PowsInv'
  BY PowsKept
<1> QED
  BY <1>1, <1>2, PTL DEF Spec

-----------------------------------------------------------------------------
(* The integers: v1 is prog, v2 is delta, v3 is step, v4 is num, v5 is old   *)
(* and v6 is printed.                                                        *)

\* Before each call: the number, and what has been printed.
Numbers(a, b, c) ==
  /\ v3 = 1 => v4 = a /\ v6 = <<>>
  /\ v3 = 2 => v4 = b /\ v6 = <<b>>
  /\ v3 = 3 => v6 = <<b, c>>

IntInv ==
  /\ v1 \in {"demo1", "demo2", "addDemo", "CompareAndSwap"}
  /\ v2 \in Int /\ -v2 \in Subtracted /\ v3 \in 1..3
  /\ v1 = "demo1" => Numbers(20, 23, 20)
  /\ v1 = "demo2" => Numbers(20, 30, 60) /\ (v3 = 3 => v5 = 30)
  /\ v1 = "addDemo" => Numbers(18, Ints!Word(18 + v2), Ints!Word(18 + 2 * v2))
  /\ v1 = "CompareAndSwap" => Numbers(18, 18, 0)

IntsInv == running = "AtomicInts" => IntInv

\* Two numbers that differ by a multiple of W are one word.
LEMMA WordsAround ==
  ASSUME NEW a \in Int, NEW q \in Int
  PROVE  Ints!Word(a + W * q) = Ints!Word(a)
<1> DEFINE r == a % W
           p == a \div W
           s == (a + W * q) % W
           t == (a + W * q) \div W
<1>0. W \in Nat \ {0}
  BY DataDemosAssumption
<1>1. a = W * p + r /\ r \in 0..(W - 1) /\ p \in Int
  BY <1>0
<1>2. a + W * q \in Int
  BY <1>0
<1>3. a + W * q = W * t + s /\ s \in 0..(W - 1) /\ t \in Int
  BY <1>0, <1>2
<1> HIDE DEF r, p, s, t
<1>4. W * (p + q) = W * p + W * q /\ p + q \in Int
  BY <1>0, <1>1
<1>5. W * (p + q) + r = W * t + s
  BY <1>0, <1>1, <1>2, <1>3, <1>4
<1>6. r = s
  BY <1>1, <1>3, <1>4, <1>5, WordUnique
<1> QED
  BY <1>6 DEF r, s, Ints!Word

\* A term may be cut to a word before it is added.
LEMMA WordSum ==
  ASSUME NEW a \in Int, NEW b \in Int
  PROVE  Ints!Word(a + Ints!Word(b)) = Ints!Word(a + b)
<1>0. W \in Nat \ {0}
  BY DataDemosAssumption
<1> DEFINE q == b \div W
           r == b % W
<1>1. b = W * q + r /\ r \in Int /\ q \in Int
  BY <1>0
<1> HIDE DEF q, r
<1>2. a + b = (a + r) + W * q /\ a + r \in Int
  BY <1>0, <1>1
<1>3. Ints!Word(a + b) = Ints!Word(a + r)
  BY <1>1, <1>2, WordsAround
<1> QED
  BY <1>3 DEF r, Ints!Word

LEMMA IntCalls ==
  /\ v1 = "demo1" => /\ Len(Ints!Programs[v1]) = 2
                     /\ Ints!Programs[v1][1] = Ints!Call("add", Ints!Word(3), 0)
                     /\ Ints!Programs[v1][2] = Ints!Call("add", Ints!Word(-3), 0)
  /\ v1 = "demo2" => /\ Len(Ints!Programs[v1]) = 2
                     /\ Ints!Programs[v1][1] = Ints!Call("store", 30, 0)
                     /\ Ints!Programs[v1][2] = Ints!Call("swap", 60, 0)
  /\ v1 = "addDemo" =>
       /\ Len(Ints!Programs[v1]) = 2
       /\ Ints!Programs[v1][1] = Ints!Call("add", Ints!Word(v2), 0)
       /\ Ints!Programs[v1][2] = Ints!Call("add", Ints!Complement(Ints!Word(-v2 - 1)), 0)
  /\ v1 = "CompareAndSwap" => /\ Len(Ints!Programs[v1]) = 2
                              /\ Ints!Programs[v1][1] = Ints!Call("cas", 20, 0)
                              /\ Ints!Programs[v1][2] = Ints!Call("cas", 18, 0)
BY DEF Ints!Programs

LEMMA IntsStart == Init => IntsInv
<1> SUFFICES ASSUME Init, running = "AtomicInts" PROVE IntInv
  BY DEF IntsInv
<1>1. Ints!Init
  BY DEF Init
<1>2. v2 \in Int /\ -v2 \in Subtracted
  <2>1. PICK d \in Subtracted : v2 = -d
    BY <1>1 DEF Ints!Init
  <2>2. d \in Int
    BY <2>1, DataDemosAssumption
  <2>3. -(-d) = d
    BY <2>2
  <2> QED
    BY <2>1, <2>2, <2>3
<1> QED
  BY <1>1, <1>2 DEF Ints!Init, IntInv, Numbers

\* What is subtracted, as a word to add.
LEMMA Minus ==
  ASSUME NEW d \in Int, -d \in Subtracted
  PROVE  /\ Ints!Complement(Ints!Word(-d - 1)) = W + d
         /\ 18 + d \in Int /\ 18 + 2 * d \in Int
<1>1. W \in Nat /\ W > 23
  BY DataDemosAssumption
<1>2. -d \in Int /\ 1 <= -d /\ -d <= W
  <2>1. -d \in 1..(W \div 2)
    BY DataDemosAssumption
  <2> QED
    BY <1>1, <2>1
<1>3. -d - 1 \in 0..(W - 1)
  BY <1>1, <1>2
<1>4. Ints!Word(-d - 1) = -d - 1
  BY <1>1, <1>3 DEF Ints!Word
<1> QED
  BY <1>1, <1>2, <1>4 DEF Ints!Complement

\* A call prints the number it has made.
LEMMA IntPrints ==
  ASSUME IntInv, Ints!Step, NEW a, NEW b, NEW c, Numbers(a, b, c),
         v3 = 1 => Ints!After(Ints!Programs[v1][1]) = b,
         v3 = 2 => Ints!After(Ints!Programs[v1][2]) = c
  PROVE  Numbers(a, b, c)'
<1>1. v3 \in {1, 2} /\ v3' = v3 + 1
  <2>1. v3 \in 1..3 /\ v3 <= 2 /\ v3' = v3 + 1
    BY IntCalls DEF IntInv, Ints!Step
  <2> QED
    BY <2>1
<1>2. v4' = Ints!After(Ints!Programs[v1][v3]) /\ v6' = Append(v6, v4')
  BY DEF Ints!Step
<1>3. CASE v3 = 1
  <2>1. v6 = <<>> /\ v3' = 2 /\ v4' = b
    BY <1>1, <1>2, <1>3 DEF Numbers
  <2>2. v6' = <<b>>
    BY <1>2, <2>1
  <2> QED
    BY <2>1, <2>2 DEF Numbers
<1>4. CASE v3 = 2
  <2>1. v6 = <<b>> /\ v3' = 3 /\ v4' = c
    BY <1>1, <1>2, <1>4 DEF Numbers
  <2>3. v6' = Append(<<b>>, c)
    BY <1>2, <2>1
  <2>4. Append(<<b>>, c) = <<b, c>>
    <3> DEFINE s == Append(<<b>>, c)
    <3>1. <<b>> \in Seq({b, c}) /\ c \in {b, c} /\ Len(<<b>>) = 1 /\ <<b>>[1] = b
      OBVIOUS
    <3>2. s \in Seq({b, c}) /\ Len(s) = 2 /\ s[1] = b /\ s[2] = c
      BY <3>1, AppendProperties
    <3> HIDE DEF s
    <3>3. s = <<b, c>>
      BY <3>2
    <3> QED
      BY <3>3 DEF s
  <2>2. v6' = <<b, c>>
    BY <2>3, <2>4
  <2> QED
    BY <2>1, <2>2 DEF Numbers
<1> QED
  BY <1>1, <1>3, <1>4

LEMMA IntStepKeeps ==
  ASSUME IntInv, Ints!Step
  PROVE  IntInv'
<1>1. /\ v1' = v1 /\ v2' = v2 /\ v3' = v3 + 1 /\ v3 \in {1, 2}
      /\ v5' = IF Ints!Programs[v1][v3].op = "swap" THEN v4 ELSE v5
  <2>1. v1' = v1 /\ v2' = v2 /\ v3 \in 1..3 /\ v3 <= 2 /\ v3' = v3 + 1
    BY IntCalls DEF IntInv, Ints!Step
  <2>2. v5' = IF Ints!Programs[v1][v3].op = "swap" THEN v4 ELSE v5
    BY DEF Ints!Step
  <2> QED
    BY <2>1, <2>2
<1>2. W \in Nat /\ W > 23
  BY DataDemosAssumption
<1>3. v2 \in Int /\ -v2 \in Subtracted
  BY DEF IntInv
<1>4. ASSUME NEW x, NEW y PROVE Ints!After(Ints!Call("add", x, y)) = Ints!Word(v4 + x)
  BY DEF Ints!After, Ints!Call
<1>5. CASE v1 = "demo1"
  <2>1. Ints!Word(20 + Ints!Word(3)) = 23 /\ Ints!Word(23 + Ints!Word(-3)) = 20
    <3>1. Ints!Word(20 + 3) = 23 /\ Ints!Word(23 + (-3)) = 20
      BY <1>2 DEF Ints!Word
    <3>2. Ints!Word(20 + Ints!Word(3)) = Ints!Word(20 + 3)
      BY WordSum
    <3>3. Ints!Word(23 + Ints!Word(-3)) = Ints!Word(23 + (-3))
      BY WordSum
    <3> QED
      BY <3>1, <3>2, <3>3
  <2>2. Numbers(20, 23, 20)
    BY <1>5 DEF IntInv
  <2>3. v3 = 1 => Ints!After(Ints!Programs[v1][1]) = 23
    BY <1>4, <1>5, <2>1, <2>2, IntCalls DEF Numbers
  <2>4. v3 = 2 => Ints!After(Ints!Programs[v1][2]) = 20
    BY <1>4, <1>5, <2>1, <2>2, IntCalls DEF Numbers
  <2>5. Numbers(20, 23, 20)'
    BY <2>2, <2>3, <2>4, IntPrints
  <2> QED
    BY <1>1, <1>3, <1>5, <2>5 DEF IntInv
<1>6. CASE v1 = "demo2"
  <2>1. Numbers(20, 30, 60)
    BY <1>6 DEF IntInv
  <2>2. v3 = 1 => Ints!After(Ints!Programs[v1][1]) = 30
    BY <1>6, IntCalls DEF Ints!After, Ints!Call
  <2>3. v3 = 2 => Ints!After(Ints!Programs[v1][2]) = 60
    BY <1>6, IntCalls DEF Ints!After, Ints!Call
  <2>4. Numbers(20, 30, 60)'
    BY <2>1, <2>2, <2>3, IntPrints
  <2>5. v3 = 2 => v5' = 30
    BY <1>1, <1>6, <2>1, IntCalls DEF Numbers, Ints!Call
  <2>6. v3' = 3 => v5' = 30
    BY <1>1, <2>5
  <2> QED
    BY <1>1, <1>3, <1>6, <2>4, <2>6 DEF IntInv
<1>7. CASE v1 = "addDemo"
  <2>0. PICK b, c : b = Ints!Word(18 + v2) /\ c = Ints!Word(18 + 2 * v2)
    OBVIOUS
  <2>1. Ints!Word(18 + Ints!Word(v2)) = b
    BY <1>3, <2>0, WordSum
  <2>2. Ints!Word(b + (W + v2)) = c
    <3>1. W + v2 \in Int /\ 18 + v2 \in Int
      BY <1>2, <1>3
    <3>2. Ints!Word((W + v2) + b) = Ints!Word((W + v2) + (18 + v2))
      <4>1. PICK x, y : x = W + v2 /\ y = 18 + v2
        OBVIOUS
      <4>2. x \in Int /\ y \in Int
        BY <3>1, <4>1
      <4>3. Ints!Word(x + Ints!Word(y)) = Ints!Word(x + y)
        BY <4>2, WordSum
      <4> QED
        BY <2>0, <4>1, <4>3
    <3>3. (W + v2) + (18 + v2) = (18 + 2 * v2) + W * 1
      BY <1>2, <1>3
    <3>4. Ints!Word((18 + 2 * v2) + W * 1) = c
      BY <1>3, <2>0, WordsAround
    <3>5. b \in Int
      BY <1>2, <2>0, <3>1 DEF Ints!Word
    <3>6. b + (W + v2) = (W + v2) + b
      BY <3>1, <3>5
    <3> QED
      BY <2>0, <3>2, <3>3, <3>4, <3>6
  <2>3. Ints!Complement(Ints!Word(-v2 - 1)) = W + v2
    BY <1>3, Minus
  <2>4. Numbers(18, b, c)
    BY <1>7, <2>0 DEF IntInv
  <2>5. v3 = 1 => Ints!After(Ints!Programs[v1][1]) = b
    BY <1>4, <1>7, <2>1, <2>4, IntCalls DEF Numbers
  <2>6. v3 = 2 => Ints!After(Ints!Programs[v1][2]) = c
    BY <1>4, <1>7, <2>2, <2>3, <2>4, IntCalls DEF Numbers
  <2>7. Numbers(18, b, c)'
    BY <2>4, <2>5, <2>6, IntPrints
  <2>8. b = Ints!Word(18 + v2') /\ c = Ints!Word(18 + 2 * v2')
    BY <1>1, <2>0
  <2>9. Numbers(18, Ints!Word(18 + v2), Ints!Word(18 + 2 * v2))'
    BY <2>7, <2>8 DEF Numbers, Ints!Word
  <2> QED
    BY <1>1, <1>3, <1>7, <2>9 DEF IntInv
<1>8. CASE v1 = "CompareAndSwap"
  <2>1. Numbers(18, 18, 0)
    BY <1>8 DEF IntInv
  <2>2. v3 = 1 => Ints!After(Ints!Programs[v1][1]) = 18
    BY <1>8, <2>1, IntCalls DEF Numbers, Ints!After, Ints!Call, Ints!SwappedIfEqual
  <2>3. v3 = 2 => Ints!After(Ints!Programs[v1][2]) = 0
    BY <1>8, <2>1, IntCalls DEF Numbers, Ints!After, Ints!Call, Ints!SwappedIfEqual
  <2>4. Numbers(18, 18, 0)'
    BY <2>1, <2>2, <2>3, IntPrints
  <2> QED
    BY <1>1, <1>3, <1>8, <2>4 DEF IntInv
<1> QED
  BY <1>5, <1>6, <1>7, <1>8 DEF IntInv

LEMMA IntsKept == IntsInv /\ [Next]_vars => IntsInv'
<1> SUFFICES ASSUME IntsInv, [Next]_vars, running' = "AtomicInts" PROVE IntInv'
  BY DEF IntsInv
<1>1. ASSUME UNCHANGED <<v1, v2, v3, v4, v5, v6>>, IntInv PROVE IntInv'
  BY <1>1 DEF IntInv, Numbers
<1>2. CASE UNCHANGED vars
  BY <1>1, <1>2 DEF vars, IntsInv
<1>3. CASE Of("AtomicInts", Ints!Next, <<v7, v8>>)
  <2>1. IntInv /\ Ints!Next
    BY <1>3 DEF Of, IntsInv
  <2> QED
    BY <1>1, <2>1, IntStepKeeps DEF Ints!Next, Ints!Terminated, Ints!vars
<1> QED
  BY <1>2, <1>3 DEF Next, Of

LEMMA IntsInvariant == Spec => []IntsInv
<1>1. Init => IntsInv
  BY IntsStart
<1>2. IntsInv /\ [Next]_vars => IntsInv'
  BY IntsKept
<1> QED
  BY <1>1, <1>2, PTL DEF Spec

LEMMA IntsGood == IntInv => Ints!Prints
<1> SUFFICES ASSUME IntInv, Ints!Finished PROVE Ints!Prints
  BY DEF Ints!Prints
<1>1. v3 = 3
  <2>1. v3 \in 1..3 /\ v3 > 2
    BY IntCalls DEF IntInv, Ints!Finished
  <2> QED
    BY <2>1
<1> QED
  BY <1>1 DEF IntInv, Numbers, Ints!Prints

-----------------------------------------------------------------------------
(* The contexts: v1 is made, v2 is err, v3 is timer, v4 is found and v5 is   *)
(* pc.                                                                       *)

FoundInv ==
  /\ v4 \in Seq(Nat) /\ Len(v4) \in 0..4 /\ Tree!KnowsTheKeys
  /\ Len(v4) > 0 => v1 >= 3
  /\ Len(v4) > 2 => v1 = 4

\* Until the return only the timeout has ended a context, and no other than ctx4.
TreeErrInv ==
  /\ v2 \in [1..4 -> {"nil", "canceled", "exceeded"}]
  /\ v5 = "run" =>
       /\ \A c \in 1..3 : v2[c] = "nil"
       /\ v2[4] \in {"nil", "exceeded"} /\ (v1 < 4 => v2[4] = "nil")
       /\ v3 => v1 = 4 /\ v2[4] = "nil"
  /\ v5 = "returned" => ~v3 /\ \A c \in 1..4 : v2[c] # "nil"

TreeInv == v1 \in 0..4 /\ v5 \in {"run", "returned"} /\ FoundInv /\ TreeErrInv

TreesInv == running = "ContextTree" => TreeInv

LEMMA TreesStart == Init => TreesInv
<1> SUFFICES ASSUME Init, running = "ContextTree" PROVE TreeInv
  BY DEF TreesInv
<1>1. /\ v1 = 0 /\ v2 = [c \in 1..4 |-> "nil"] /\ v3 = FALSE /\ v4 = <<>> /\ v5 = "run"
  BY DEF Init, Tree!Init, Tree!Contexts
<1>2. TreeErrInv
  BY <1>1 DEF TreeErrInv
<1>3. FoundInv
  BY <1>1 DEF FoundInv, Tree!KnowsTheKeys
<1> QED
  BY <1>1, <1>2, <1>3 DEF TreeInv

\* The context that Value finds, from the Background up: none, then the one with
\* the key.
AboveStep(key, a, k) == IF k = 0 \/ Tree!Key[k] = key THEN k ELSE a[k - 1]
IsAbove(key, a) == a = [k \in 0..4 |-> AboveStep(key, a, k)]

LEMMA ValueFinds ==
  ASSUME NEW n \in {2, 3}, NEW c \in n..4, NEW key, key = Tree!Key[n]
  PROVE  Tree!Value(c, key) = n
<1> DEFINE w == [k \in 0..4 |-> IF k < n THEN 0 ELSE n]
           above == CHOOSE a : IsAbove(key, a)
<1>1. /\ key # "none" /\ Tree!Key[1] # key /\ Tree!Key[4] # key
      /\ \A k \in 2..3 : Tree!Key[k] = key <=> k = n
  BY DEF Tree!Key
<1>2. IsAbove(key, w)
  <2>1. ASSUME NEW k \in 0..4 PROVE w[k] = AboveStep(key, w, k)
    <3>1. k = 0 \/ Tree!Key[k] = key <=> k = 0 \/ k = n
      BY <1>1
    <3>2. CASE k = 0 \/ k = n
      BY <3>1, <3>2 DEF AboveStep
    <3>3. CASE ~(k = 0 \/ k = n)
      <4>1. k - 1 \in 0..4 /\ w[k - 1] = w[k]
        BY <3>3
      <4> QED
        BY <3>1, <3>3, <4>1 DEF AboveStep
    <3> QED
      BY <3>2, <3>3
  <2>2. w = [k \in 0..4 |-> w[k]]
    OBVIOUS
  <2> HIDE DEF w
  <2> QED
    BY <2>1, <2>2 DEF IsAbove
<1>3. IsAbove(key, above)
  BY <1>2
<1>4. Tree!Value(c, key) = above[c]
  BY <1>1 DEF Tree!Value, IsAbove, AboveStep
<1> HIDE DEF above
<1>5. \A k \in 0..4 : above[k] = AboveStep(key, above, k)
  BY <1>3 DEF IsAbove
<1>6. above[n] = n
  BY <1>1, <1>5 DEF AboveStep
<1>7. CASE n = 2
  <2>1. above[3] = above[3 - 1] /\ above[4] = above[4 - 1]
    BY <1>1, <1>5, <1>7 DEF AboveStep
  <2> QED
    BY <1>4, <1>6, <1>7, <2>1
<1>8. CASE n = 3
  <2>1. above[4] = above[4 - 1]
    BY <1>1, <1>5 DEF AboveStep
  <2> QED
    BY <1>4, <1>6, <1>8, <2>1
<1> QED
  BY <1>7, <1>8

LEMMA MakeKeeps ==
  ASSUME TreeInv, Tree!Make
  PROVE  TreeInv'
<1>1. /\ v5 = "run" /\ v1 < 4 /\ v1' = v1 + 1 /\ UNCHANGED <<v2, v4, v5>>
      /\ v1 = 3 => Len(v4) = 2
      /\ v3' = (v1' = 4)
  BY DEF Tree!Make, Tree!Kind, TreeInv
<1>2. v1 \in 0..4
  BY DEF TreeInv
<1>3. FoundInv'
  BY <1>1, <1>2 DEF TreeInv, FoundInv, Tree!KnowsTheKeys
<1>4. TreeErrInv'
  BY <1>1, <1>2 DEF TreeInv, TreeErrInv
<1> QED
  BY <1>1, <1>2, <1>3, <1>4 DEF TreeInv

LEMMA LookKeeps ==
  ASSUME TreeInv, Tree!Look
  PROVE  TreeInv'
<1> DEFINE n == Len(v4)
           x == Tree!Value(v1, Tree!Lookups[n + 1].key)
<1>1. /\ n < 4 /\ Tree!Lookups[n + 1].ctx = v1 /\ v4' = Append(v4, x)
      /\ UNCHANGED <<v1, v2, v3, v5>>
  BY DEF Tree!Look
<1>2. n \in 0..3 /\ v1 \in 0..4 /\ v4 \in Seq(Nat)
  BY <1>1 DEF TreeInv, FoundInv
<1>3. /\ v1 = IF n < 2 THEN 3 ELSE 4
      /\ Tree!Lookups[n + 1].key = IF n % 2 = 0 THEN "key2" ELSE "key3"
  <2>1. n = 0 \/ n = 1 \/ n = 2 \/ n = 3
    <3> HIDE DEF n
    <3> QED
      BY <1>2
  <2>2. /\ Tree!Lookups[1].ctx = 3 /\ Tree!Lookups[1].key = "key2"
        /\ Tree!Lookups[2].ctx = 3 /\ Tree!Lookups[2].key = "key3"
        /\ Tree!Lookups[3].ctx = 4 /\ Tree!Lookups[3].key = "key2"
        /\ Tree!Lookups[4].ctx = 4 /\ Tree!Lookups[4].key = "key3"
    BY DEF Tree!Lookups
  <2>3. Tree!Lookups[n + 1].ctx = v1
    BY <1>1
  <2> HIDE DEF n
  <2> QED
    BY <2>1, <2>2, <2>3
<1>4. x = IF n % 2 = 0 THEN 2 ELSE 3
  <2>1. Tree!Key[2] = "key2" /\ Tree!Key[3] = "key3" /\ v1 \in 2..4 /\ v1 \in 3..4
    BY <1>3 DEF Tree!Key
  <2> QED
    BY <1>3, <2>1, ValueFinds
<1> HIDE DEF x
<1>5. /\ v4' \in Seq(Nat) /\ Len(v4') = n + 1 /\ v4'[n + 1] = x
      /\ \A k \in 1..n : v4'[k] = v4[k]
  BY <1>1, <1>2, <1>4, AppendProperties
<1>6. \A k \in 1..n : v4[k] = IF k % 2 = 1 THEN 2 ELSE 3
  BY DEF TreeInv, FoundInv, Tree!KnowsTheKeys
<1> HIDE DEF n
<1>7. Tree!KnowsTheKeys'
  <2> SUFFICES ASSUME NEW k \in 1..(n + 1) PROVE v4'[k] = IF k % 2 = 1 THEN 2 ELSE 3
    BY <1>5 DEF Tree!KnowsTheKeys
  <2>1. CASE k = n + 1
    <3>1. k % 2 = 1 <=> n % 2 = 0
      BY <1>2, <2>1
    <3> QED
      BY <1>4, <1>5, <2>1, <3>1
  <2>2. CASE k \in 1..n
    BY <1>5, <1>6, <2>2
  <2> QED
    BY <1>2, <2>1, <2>2
<1>8. FoundInv'
  BY <1>1, <1>2, <1>3, <1>5, <1>7 DEF FoundInv
<1>9. TreeErrInv'
  BY <1>1 DEF TreeInv, TreeErrInv
<1> QED
  BY <1>1, <1>8, <1>9 DEF TreeInv

LEMMA ExpireKeeps ==
  ASSUME TreeInv, Tree!Expire
  PROVE  TreeInv'
<1>1. /\ v5 = "run" /\ v3 /\ v3' = FALSE /\ UNCHANGED <<v1, v4, v5>>
      /\ v2' = [d \in 1..4 |-> IF d \in 4..v1 /\ v2[d] = "nil" THEN "exceeded" ELSE v2[d]]
  BY DEF Tree!Expire, Tree!Ending, Tree!Below, Tree!Contexts
<1>2. v1 = 4 /\ v2[4] = "nil" /\ v2 \in [1..4 -> {"nil", "canceled", "exceeded"}]
  BY <1>1 DEF TreeInv, TreeErrInv
<1>3. v2' \in [1..4 -> {"nil", "canceled", "exceeded"}]
  BY <1>1, <1>2
<1>4. v2'[4] = "exceeded" /\ \A c \in 1..3 : v2'[c] = v2[c]
  BY <1>1, <1>2
<1>5. TreeErrInv'
  BY <1>1, <1>2, <1>3, <1>4 DEF TreeInv, TreeErrInv
<1>6. FoundInv'
  BY <1>1 DEF TreeInv, FoundInv, Tree!KnowsTheKeys
<1> QED
  BY <1>1, <1>5, <1>6 DEF TreeInv

LEMMA CancelKeeps ==
  ASSUME TreeInv, Tree!Return
  PROVE  TreeInv'
<1>1. /\ v5 = "run" /\ v5' = "returned" /\ Len(v4) = 4 /\ UNCHANGED <<v1, v4>>
      /\ v2' = [d \in 1..4 |-> IF d \in 1..v1 /\ v2[d] = "nil" THEN "canceled" ELSE v2[d]]
      /\ v3' = (v3 /\ v2'[4] = "nil")
  BY DEF Tree!Return, Tree!Ending, Tree!Below, Tree!Contexts
<1>2. v1 = 4 /\ v2 \in [1..4 -> {"nil", "canceled", "exceeded"}]
  BY <1>1 DEF TreeInv, FoundInv, TreeErrInv
<1>3. v2' \in [1..4 -> {"nil", "canceled", "exceeded"}] /\ \A c \in 1..4 : v2'[c] # "nil"
  BY <1>1, <1>2
<1>4. TreeErrInv'
  <2>1. v2'[4] # "nil"
    BY <1>3
  <2>2. ~v3'
    BY <1>1, <2>1, Zenon
  <2>3. v5' # "run"
    BY <1>1
  <2> QED
    BY <1>3, <2>2, <2>3, Zenon DEF TreeErrInv
<1>5. FoundInv'
  BY <1>1 DEF TreeInv, FoundInv, Tree!KnowsTheKeys
<1> QED
  BY <1>1, <1>4, <1>5 DEF TreeInv

LEMMA TreesKept == TreesInv /\ [Next]_vars => TreesInv'
<1> SUFFICES ASSUME TreesInv, [Next]_vars, running' = "ContextTree" PROVE TreeInv'
  BY DEF TreesInv
<1>1. ASSUME UNCHANGED <<v1, v2, v3, v4, v5>>, TreeInv PROVE TreeInv'
  BY <1>1 DEF TreeInv, FoundInv, TreeErrInv, Tree!KnowsTheKeys
<1>2. CASE UNCHANGED vars
  BY <1>1, <1>2 DEF vars, TreesInv
<1>3. CASE Of("ContextTree", Tree!Next, <<v6, v7, v8>>)
  <2>1. TreeInv /\ Tree!Next
    BY <1>3 DEF Of, TreesInv
  <2> QED
    BY <1>1, <2>1, MakeKeeps, LookKeeps, ExpireKeeps, CancelKeeps
    DEF Tree!Next, Tree!Terminated, Tree!vars
<1> QED
  BY <1>2, <1>3 DEF Next, Of

LEMMA TreesInvariant == Spec => []TreesInv
<1>1. Init => TreesInv
  BY TreesStart
<1>2. TreesInv /\ [Next]_vars => TreesInv'
  BY TreesKept
<1> QED
  BY <1>1, <1>2, PTL DEF Spec

LEMMA TreesGood == TreeInv => Tree!KnowsTheKeys /\ Tree!NothingLeft
<1> SUFFICES ASSUME TreeInv PROVE Tree!KnowsTheKeys /\ Tree!NothingLeft
  OBVIOUS
<1>1. Tree!KnowsTheKeys
  BY DEF TreeInv, FoundInv
<1>2. Tree!NothingLeft
  BY DEF TreeInv, TreeErrInv, Tree!NothingLeft, Tree!Contexts
<1> QED
  BY <1>1, <1>2

-----------------------------------------------------------------------------
(* The readers of strings: v1 is delta, v2 is example, v3 is i, v4 is rest,  *)
(* v5 is got and v6 is written.                                              *)

Intervals == Nat \X Nat

\* The buffer, and the first and the last byte that the reader delivers.
Wide == Strings!Buffer[v2] + v1
Foremost == <<1, 1, 57, 1, 1>>
Final == <<255, 7, 128, 255, 257>>

\* What example 5 has still to deliver after n reads.
Rest5(n) ==
  <<<<<<1, 92>>, <<93, 118>>, <<119, 174>>, <<175, 257>>>>,
    <<<<1 + Wide, 92>>, <<93, 118>>, <<119, 174>>, <<175, 257>>>>,
    <<<<93, 118>>, <<119, 174>>, <<175, 257>>>>,
    <<<<119, 174>>, <<175, 257>>>>,
    <<<<119 + Wide, 174>>, <<175, 257>>>>,
    <<<<175, 257>>>>,
    <<<<175 + Wide, 257>>>>,
    <<>>,
    <<>>>>[n + 1]

\* All is read after n reads.
Spent(n) == IF v2 = 5 THEN n >= 7 ELSE Foremost[v2] + Wide * n > Final[v2]

Rest(n) ==
  IF v2 = 5 THEN Rest5(n)
  ELSE IF Spent(n) THEN <<>> ELSE <<<<Foremost[v2] + Wide * n, Final[v2]>>>>

StringTypes ==
  /\ v1 \in 0..5 /\ v2 \in 1..5 /\ v3 \in 0..Strings!Times[v2]
  /\ v2 > 1 => v5 \in Seq(Intervals \cup {<<>>}) /\ Len(v5) = v3

\* A read that finds something goes on where the one before it ended, and the last
\* one that does ends with the last byte.
GoesOnInv ==
  /\ v3 > 0 => (v5[v3] = <<>> <=> Spent(v3 - 1))
  /\ v4 # <<>> => v4[1][1] = IF v3 = 0 THEN Foremost[v2] ELSE v5[v3][2] + 1
  /\ v4 # <<>> /\ v3 > 0 => v5[v3] # <<>>
  /\ v4 = <<>> =>
       \E k \in 1..v3 : /\ v5[k] # <<>> /\ (k < v3 => v5[k + 1] = <<>>)
                        /\ v5[k][2] = Final[v2]

StringInv ==
  /\ StringTypes
  /\ v2 > 1 => v4 = Rest(v3) /\ GoesOnInv
  /\ Strings!Contiguous
  /\ v2 = 4 => v6 \in Seq(Intervals)
  /\ Strings!TeeWritesWhatIsRead

StringsInv == running = "Readers" => StringInv

LEMMA StringsStart == Init => StringsInv
<1> SUFFICES ASSUME Init, running = "Readers" PROVE StringInv
  BY DEF StringsInv
<1>1. v1 \in Deltas /\ v2 = 1 /\ v3 = 0 /\ v5 = <<>> /\ v6 = <<>>
  BY DEF Init, Strings!Init
<1>2. v1 \in 0..5
  BY <1>1, DataDemosAssumption
<1> QED
  BY <1>1, <1>2 DEF StringInv, StringTypes, Strings!Times, Strings!Contiguous,
     Strings!TeeWritesWhatIsRead

LEMMA ExampleNumbers ==
  ASSUME v1 \in 0..5, v2 \in 1..5
  PROVE  /\ Wide \in Nat /\ Wide >= Strings!Buffer[v2] /\ Wide <= Strings!Buffer[v2] + 5
         /\ Strings!Buffer[v2] = IF v2 = 1 THEN 7 ELSE IF v2 = 2 THEN 10 ELSE IF v2 = 3 THEN 20
                                 ELSE IF v2 = 4 THEN 40 ELSE 50
         /\ Strings!Times[v2] = IF v2 = 1 THEN 2 ELSE IF v2 = 2 THEN 3 ELSE IF v2 = 3 THEN 5 ELSE 8
         /\ Foremost[v2] \in Nat /\ Final[v2] \in Nat
<1>1. v2 = 1 \/ v2 = 2 \/ v2 = 3 \/ v2 = 4 \/ v2 = 5
  OBVIOUS
<1>2. Strings!Buffer[v2] = IF v2 = 1 THEN 7 ELSE IF v2 = 2 THEN 10 ELSE IF v2 = 3 THEN 20
                           ELSE IF v2 = 4 THEN 40 ELSE 50
  BY <1>1 DEF Strings!Buffer
<1>3. Strings!Times[v2] = IF v2 = 1 THEN 2 ELSE IF v2 = 2 THEN 3 ELSE IF v2 = 3 THEN 5 ELSE 8
  BY <1>1 DEF Strings!Times
<1>4. Foremost[v2] \in Nat /\ Final[v2] \in Nat
  BY <1>1 DEF Foremost, Final
<1>5. /\ Wide \in Nat /\ Wide >= Strings!Buffer[v2] /\ Wide <= Strings!Buffer[v2] + 5
  BY <1>1, <1>2 DEF Wide
<1> QED
  BY <1>2, <1>3, <1>4, <1>5

LEMMA MinOfTwo ==
  ASSUME NEW a \in Int, NEW b \in Int
  PROVE  Strings!Min({a, b}) = IF a <= b THEN a ELSE b
<1>1. \E x \in {a, b} : \A y \in {a, b} : x <= y
  OBVIOUS
<1>2. Strings!Min({a, b}) \in {a, b} /\ \A y \in {a, b} : Strings!Min({a, b}) <= y
  BY <1>1, Zenon DEF Strings!Min
<1> QED
  BY <1>2

\* One read of examples 2 to 4, which read one string to its end.
LEMMA OneStringReads ==
  ASSUME v1 \in 0..5, v2 \in 2..4, v3 \in Nat, v4 = Rest(v3), v4 # <<>>,
         NEW b, b = Strings!LastOfOne(Wide)
  PROVE  /\ v4[1] = <<v4[1][1], v4[1][2]>> /\ v4[1][1] \in Nat /\ v4[1][2] = Final[v2]
         /\ b \in Nat /\ v4[1][1] <= b /\ b <= v4[1][2]
         /\ v4[1][1] >= Foremost[v2]
         /\ Strings!Left(b) = Rest(v3 + 1)
         /\ IF Spent(v3 + 1) THEN b = Final[v2]
            ELSE Strings!Left(b) # <<>> /\ Strings!Left(b)[1][1] = b + 1
<1> DEFINE a == Foremost[v2] + Wide * v3
           l == Final[v2]
<1>1. Wide \in Nat /\ Wide > 0 /\ Foremost[v2] \in Nat /\ l \in Nat
  BY ExampleNumbers
<1>2. /\ Wide * v3 \in Nat /\ Wide * (v3 + 1) = Wide * v3 + Wide
      /\ a \in Nat /\ Foremost[v2] + Wide * (v3 + 1) = a + Wide /\ a >= Foremost[v2]
  BY <1>1
<1>3. ~Spent(v3) /\ v4 = <<<<a, l>>>> /\ a <= l
  BY <1>1, <1>2 DEF Rest, Spent
<1>4. Spent(v3 + 1) <=> a + Wide > l
  BY <1>2 DEF Spent
<1>5. Rest(v3 + 1) = IF Spent(v3 + 1) THEN <<>> ELSE <<<<a + Wide, l>>>>
  BY <1>2 DEF Rest
<1> HIDE DEF a, l
<1>6. v4[1] = <<a, l>> /\ v4[1][1] = a /\ v4[1][2] = l
  BY <1>3
<1>7. b = IF a + Wide - 1 <= l THEN a + Wide - 1 ELSE l
  BY <1>1, <1>2, <1>6, MinOfTwo DEF Strings!LastOfOne
<1>8. b \in Nat /\ a <= b /\ b <= l
  BY <1>1, <1>2, <1>3, <1>7
<1>9. CASE Spent(v3 + 1)
  <2>1. b = l
    BY <1>1, <1>2, <1>4, <1>7, <1>9
  <2>2. Strings!Left(b) = Tail(v4)
    BY <1>1, <1>6, <2>1 DEF Strings!Left
  <2>3. Tail(<<<<a, l>>>>) = <<>>
    OBVIOUS
  <2> QED
    BY <1>2, <1>3, <1>5, <1>6, <1>8, <1>9, <2>1, <2>2, <2>3 DEF l
<1>10. CASE ~Spent(v3 + 1)
  <2>1. b = a + Wide - 1 /\ b + 1 = a + Wide /\ ~(b >= l)
    BY <1>1, <1>2, <1>4, <1>7, <1>10
  <2>2. Strings!Left(b) = [v4 EXCEPT ![1][1] = b + 1]
    BY <1>6, <2>1 DEF Strings!Left
  <2>3. [<<<<a, l>>>> EXCEPT ![1][1] = b + 1] = <<<<b + 1, l>>>>
    OBVIOUS
  <2>4. Strings!Left(b) = <<<<b + 1, l>>>>
    BY <1>3, <2>2, <2>3
  <2>5. Strings!Left(b) # <<>> /\ Strings!Left(b)[1][1] = b + 1
    BY <2>4
  <2>6. Strings!Left(b) = Rest(v3 + 1)
    BY <1>5, <1>10, <2>1, <2>4
  <2> QED
    BY <1>2, <1>6, <1>8, <1>10, <2>5, <2>6 DEF l
<1> QED
  BY <1>9, <1>10

\* One read of example 5, which takes two for a string longer than its buffer.
LEMMA FourStringsRead ==
  ASSUME v1 \in 0..5, v2 = 5, v3 \in 0..8, v4 = Rest(v3), v4 # <<>>,
         NEW b, b = Strings!LastOfOne(Wide)
  PROVE  /\ v4[1] = <<v4[1][1], v4[1][2]>> /\ v4[1][1] \in Nat /\ v4[1][2] \in Nat
         /\ b \in Nat /\ v4[1][1] <= b /\ b <= v4[1][2]
         /\ \E m \in 1..4 : /\ Strings!Strings5[m][1] <= v4[1][1]
                            /\ v4[1][2] = Strings!Strings5[m][2]
         /\ Strings!Left(b) = Rest(v3 + 1)
         /\ IF Spent(v3 + 1) THEN b = Final[v2]
            ELSE Strings!Left(b) # <<>> /\ Strings!Left(b)[1][1] = b + 1
<1>1. Wide \in Nat /\ Wide >= 50 /\ Wide <= 55
  BY ExampleNumbers
<1>2. v3 \in 0..6
  <2>1. v3 # 7 /\ v3 # 8
    BY DEF Rest, Rest5
  <2> QED
    BY <2>1
<1>3. Final[v2] = 257 /\ (Spent(v3 + 1) <=> v3 = 6)
  BY <1>2 DEF Spent, Final
<1>4. ASSUME NEW a \in Nat, NEW l \in Nat, v4[1] = <<a, l>>, a <= l
      PROVE  /\ b = IF a + Wide - 1 <= l THEN a + Wide - 1 ELSE l
             /\ b \in Nat /\ a <= b /\ b <= l
             /\ Strings!Left(b) = IF a + Wide - 1 >= l THEN Tail(v4)
                                  ELSE [v4 EXCEPT ![1][1] = (a + Wide - 1) + 1]
  <2>1. v4[1][1] = a /\ v4[1][2] = l
    BY <1>4
  <2>2. b = IF a + Wide - 1 <= l THEN a + Wide - 1 ELSE l
    BY <1>1, <1>4, <2>1, MinOfTwo DEF Strings!LastOfOne
  <2>3. b \in Nat /\ a <= b /\ b <= l
    BY <1>1, <1>4, <2>2
  <2>4. b >= l <=> a + Wide - 1 >= l
    BY <1>1, <1>4, <2>2
  <2>5. Strings!Left(b) = IF b >= l THEN Tail(v4) ELSE [v4 EXCEPT ![1][1] = b + 1]
    BY <2>1 DEF Strings!Left
  <2>6. ~(b >= l) => b = a + Wide - 1
    BY <1>1, <1>4, <2>2
  <2> QED
    BY <2>2, <2>3, <2>4, <2>5, <2>6
<1>5. CASE v3 = 0
  <2>1. v4 = <<<<1, 92>>, <<93, 118>>, <<119, 174>>, <<175, 257>>>>
    BY <1>5 DEF Rest, Rest5
  <2>2. Rest(v3 + 1) = <<<<1 + Wide, 92>>, <<93, 118>>, <<119, 174>>, <<175, 257>>>>
    BY <1>5 DEF Rest, Rest5
  <2> DEFINE a == 1
  <2>3. v4[1] = <<a, 92>> /\ v4[1][1] = a /\ v4[1][2] = 92
    BY <2>1
  <2>4. a \in Nat /\ a <= 92 /\ a >= 1 /\ a + Wide - 1 < 92
    BY <1>1
  <2> HIDE DEF a
  <2>5. b = a + Wide - 1 /\ Strings!Left(b) = [v4 EXCEPT ![1][1] = (a + Wide - 1) + 1]
    <3>1. 92 \in Nat
      OBVIOUS
    <3>2. /\ b = IF a + Wide - 1 <= 92 THEN a + Wide - 1 ELSE 92
          /\ Strings!Left(b) = IF a + Wide - 1 >= 92 THEN Tail(v4)
                               ELSE [v4 EXCEPT ![1][1] = (a + Wide - 1) + 1]
      BY <1>4, <2>3, <2>4, <3>1
    <3> QED
      BY <1>1, <2>4, <3>2
  <2>6. b \in Nat /\ a <= b /\ b <= 92
    BY <1>1, <2>4, <2>5
  <2>7. b + 1 = 1 + Wide
    BY <1>1, <2>5 DEF a
  <2>8. Strings!Left(b) = <<<<b + 1, 92>>, <<93, 118>>, <<119, 174>>, <<175, 257>>>>
    <3>1. Strings!Left(b) = [v4 EXCEPT ![1][1] = b + 1]
      BY <2>5
    <3> QED
      BY <2>1, <3>1
  <2>9. Strings!Left(b) # <<>> /\ Strings!Left(b)[1][1] = b + 1
    BY <2>8
  <2>10. Strings!Left(b) = Rest(v3 + 1)
    BY <2>2, <2>7, <2>8
  <2>11. Strings!Strings5[1][1] = 1 /\ Strings!Strings5[1][2] = 92 /\ 1 \in 1..4
    BY DEF Strings!Strings5
  <2>12. \E m \in 1..4 : Strings!Strings5[m][1] <= v4[1][1] /\ v4[1][2] = Strings!Strings5[m][2]
    <3>1. Strings!Strings5[1][1] <= v4[1][1] /\ v4[1][2] = Strings!Strings5[1][2]
      BY <2>3, <2>4, <2>11
    <3> QED
      BY <2>11, <3>1
  <2>13. v4[1] = <<v4[1][1], v4[1][2]>> /\ v4[1][1] \in Nat /\ v4[1][2] \in Nat
    BY <2>3, <2>4
  <2>14. v4[1][1] <= b /\ b <= v4[1][2]
    BY <2>3, <2>6
  <2>15. Spent(v3 + 1) <=> FALSE
    BY <1>3, <1>5
  <2> QED
    BY <2>6, <2>9, <2>10, <2>12, <2>13, <2>14, <2>15
<1>6. CASE v3 = 1
  <2>1. v4 = <<<<1 + Wide, 92>>, <<93, 118>>, <<119, 174>>, <<175, 257>>>>
    BY <1>6 DEF Rest, Rest5
  <2>2. Rest(v3 + 1) = <<<<93, 118>>, <<119, 174>>, <<175, 257>>>>
    BY <1>6 DEF Rest, Rest5
  <2> DEFINE a == 1 + Wide
  <2>3. v4[1] = <<a, 92>> /\ v4[1][1] = a /\ v4[1][2] = 92
    BY <2>1
  <2>4. a \in Nat /\ a <= 92 /\ a >= 1 /\ a + Wide - 1 >= 92
    BY <1>1
  <2> HIDE DEF a
  <2>5. b = 92 /\ Strings!Left(b) = Tail(v4)
    <3>1. 92 \in Nat
      OBVIOUS
    <3>2. /\ b = IF a + Wide - 1 <= 92 THEN a + Wide - 1 ELSE 92
          /\ Strings!Left(b) = IF a + Wide - 1 >= 92 THEN Tail(v4)
                               ELSE [v4 EXCEPT ![1][1] = (a + Wide - 1) + 1]
      BY <1>4, <2>3, <2>4, <3>1
    <3> QED
      BY <1>1, <2>4, <3>2
  <2>6. b \in Nat /\ a <= b /\ b <= 92
    BY <2>4, <2>5
  <2>8. Tail(v4) = <<<<93, 118>>, <<119, 174>>, <<175, 257>>>>
    BY <2>1
  <2>9. Strings!Left(b) # <<>> /\ Strings!Left(b)[1][1] = b + 1
    <3>1. Strings!Left(b) = <<<<93, 118>>, <<119, 174>>, <<175, 257>>>>
      BY <2>5, <2>8
    <3>2. Strings!Left(b) # <<>> /\ Strings!Left(b)[1][1] = 93
      BY <3>1
    <3>3. b + 1 = 93
      BY <2>5
    <3> QED
      BY <3>2, <3>3
  <2>10. Strings!Left(b) = Rest(v3 + 1)
    BY <2>2, <2>5, <2>8
  <2>11. Strings!Strings5[1][1] = 1 /\ Strings!Strings5[1][2] = 92 /\ 1 \in 1..4
    BY DEF Strings!Strings5
  <2>12. \E m \in 1..4 : Strings!Strings5[m][1] <= v4[1][1] /\ v4[1][2] = Strings!Strings5[m][2]
    <3>1. Strings!Strings5[1][1] <= v4[1][1] /\ v4[1][2] = Strings!Strings5[1][2]
      BY <2>3, <2>4, <2>11
    <3> QED
      BY <2>11, <3>1
  <2>13. v4[1] = <<v4[1][1], v4[1][2]>> /\ v4[1][1] \in Nat /\ v4[1][2] \in Nat
    BY <2>3, <2>4
  <2>14. v4[1][1] <= b /\ b <= v4[1][2]
    BY <2>3, <2>6
  <2>15. Spent(v3 + 1) <=> FALSE
    BY <1>3, <1>6
  <2> QED
    BY <2>6, <2>9, <2>10, <2>12, <2>13, <2>14, <2>15
<1>7. CASE v3 = 2
  <2>1. v4 = <<<<93, 118>>, <<119, 174>>, <<175, 257>>>>
    BY <1>7 DEF Rest, Rest5
  <2>2. Rest(v3 + 1) = <<<<119, 174>>, <<175, 257>>>>
    BY <1>7 DEF Rest, Rest5
  <2> DEFINE a == 93
  <2>3. v4[1] = <<a, 118>> /\ v4[1][1] = a /\ v4[1][2] = 118
    BY <2>1
  <2>4. a \in Nat /\ a <= 118 /\ a >= 93 /\ a + Wide - 1 >= 118
    BY <1>1
  <2> HIDE DEF a
  <2>5. b = 118 /\ Strings!Left(b) = Tail(v4)
    <3>1. 118 \in Nat
      OBVIOUS
    <3>2. /\ b = IF a + Wide - 1 <= 118 THEN a + Wide - 1 ELSE 118
          /\ Strings!Left(b) = IF a + Wide - 1 >= 118 THEN Tail(v4)
                               ELSE [v4 EXCEPT ![1][1] = (a + Wide - 1) + 1]
      BY <1>4, <2>3, <2>4, <3>1
    <3> QED
      BY <1>1, <2>4, <3>2
  <2>6. b \in Nat /\ a <= b /\ b <= 118
    BY <2>4, <2>5
  <2>8. Tail(v4) = <<<<119, 174>>, <<175, 257>>>>
    BY <2>1
  <2>9. Strings!Left(b) # <<>> /\ Strings!Left(b)[1][1] = b + 1
    <3>1. Strings!Left(b) = <<<<119, 174>>, <<175, 257>>>>
      BY <2>5, <2>8
    <3>2. Strings!Left(b) # <<>> /\ Strings!Left(b)[1][1] = 119
      BY <3>1
    <3>3. b + 1 = 119
      BY <2>5
    <3> QED
      BY <3>2, <3>3
  <2>10. Strings!Left(b) = Rest(v3 + 1)
    BY <2>2, <2>5, <2>8
  <2>11. Strings!Strings5[2][1] = 93 /\ Strings!Strings5[2][2] = 118 /\ 2 \in 1..4
    BY DEF Strings!Strings5
  <2>12. \E m \in 1..4 : Strings!Strings5[m][1] <= v4[1][1] /\ v4[1][2] = Strings!Strings5[m][2]
    <3>1. Strings!Strings5[2][1] <= v4[1][1] /\ v4[1][2] = Strings!Strings5[2][2]
      BY <2>3, <2>4, <2>11
    <3> QED
      BY <2>11, <3>1
  <2>13. v4[1] = <<v4[1][1], v4[1][2]>> /\ v4[1][1] \in Nat /\ v4[1][2] \in Nat
    BY <2>3, <2>4
  <2>14. v4[1][1] <= b /\ b <= v4[1][2]
    BY <2>3, <2>6
  <2>15. Spent(v3 + 1) <=> FALSE
    BY <1>3, <1>7
  <2> QED
    BY <2>6, <2>9, <2>10, <2>12, <2>13, <2>14, <2>15
<1>8. CASE v3 = 3
  <2>1. v4 = <<<<119, 174>>, <<175, 257>>>>
    BY <1>8 DEF Rest, Rest5
  <2>2. Rest(v3 + 1) = <<<<119 + Wide, 174>>, <<175, 257>>>>
    BY <1>8 DEF Rest, Rest5
  <2> DEFINE a == 119
  <2>3. v4[1] = <<a, 174>> /\ v4[1][1] = a /\ v4[1][2] = 174
    BY <2>1
  <2>4. a \in Nat /\ a <= 174 /\ a >= 119 /\ a + Wide - 1 < 174
    BY <1>1
  <2> HIDE DEF a
  <2>5. b = a + Wide - 1 /\ Strings!Left(b) = [v4 EXCEPT ![1][1] = (a + Wide - 1) + 1]
    <3>1. 174 \in Nat
      OBVIOUS
    <3>2. /\ b = IF a + Wide - 1 <= 174 THEN a + Wide - 1 ELSE 174
          /\ Strings!Left(b) = IF a + Wide - 1 >= 174 THEN Tail(v4)
                               ELSE [v4 EXCEPT ![1][1] = (a + Wide - 1) + 1]
      BY <1>4, <2>3, <2>4, <3>1
    <3> QED
      BY <1>1, <2>4, <3>2
  <2>6. b \in Nat /\ a <= b /\ b <= 174
    BY <1>1, <2>4, <2>5
  <2>7. b + 1 = 119 + Wide
    BY <1>1, <2>5 DEF a
  <2>8. Strings!Left(b) = <<<<b + 1, 174>>, <<175, 257>>>>
    <3>1. Strings!Left(b) = [v4 EXCEPT ![1][1] = b + 1]
      BY <2>5
    <3> QED
      BY <2>1, <3>1
  <2>9. Strings!Left(b) # <<>> /\ Strings!Left(b)[1][1] = b + 1
    BY <2>8
  <2>10. Strings!Left(b) = Rest(v3 + 1)
    BY <2>2, <2>7, <2>8
  <2>11. Strings!Strings5[3][1] = 119 /\ Strings!Strings5[3][2] = 174 /\ 3 \in 1..4
    BY DEF Strings!Strings5
  <2>12. \E m \in 1..4 : Strings!Strings5[m][1] <= v4[1][1] /\ v4[1][2] = Strings!Strings5[m][2]
    <3>1. Strings!Strings5[3][1] <= v4[1][1] /\ v4[1][2] = Strings!Strings5[3][2]
      BY <2>3, <2>4, <2>11
    <3> QED
      BY <2>11, <3>1
  <2>13. v4[1] = <<v4[1][1], v4[1][2]>> /\ v4[1][1] \in Nat /\ v4[1][2] \in Nat
    BY <2>3, <2>4
  <2>14. v4[1][1] <= b /\ b <= v4[1][2]
    BY <2>3, <2>6
  <2>15. Spent(v3 + 1) <=> FALSE
    BY <1>3, <1>8
  <2> QED
    BY <2>6, <2>9, <2>10, <2>12, <2>13, <2>14, <2>15
<1>9. CASE v3 = 4
  <2>1. v4 = <<<<119 + Wide, 174>>, <<175, 257>>>>
    BY <1>9 DEF Rest, Rest5
  <2>2. Rest(v3 + 1) = <<<<175, 257>>>>
    BY <1>9 DEF Rest, Rest5
  <2> DEFINE a == 119 + Wide
  <2>3. v4[1] = <<a, 174>> /\ v4[1][1] = a /\ v4[1][2] = 174
    BY <2>1
  <2>4. a \in Nat /\ a <= 174 /\ a >= 119 /\ a + Wide - 1 >= 174
    BY <1>1
  <2> HIDE DEF a
  <2>5. b = 174 /\ Strings!Left(b) = Tail(v4)
    <3>1. 174 \in Nat
      OBVIOUS
    <3>2. /\ b = IF a + Wide - 1 <= 174 THEN a + Wide - 1 ELSE 174
          /\ Strings!Left(b) = IF a + Wide - 1 >= 174 THEN Tail(v4)
                               ELSE [v4 EXCEPT ![1][1] = (a + Wide - 1) + 1]
      BY <1>4, <2>3, <2>4, <3>1
    <3> QED
      BY <1>1, <2>4, <3>2
  <2>6. b \in Nat /\ a <= b /\ b <= 174
    BY <2>4, <2>5
  <2>8. Tail(v4) = <<<<175, 257>>>>
    BY <2>1
  <2>9. Strings!Left(b) # <<>> /\ Strings!Left(b)[1][1] = b + 1
    <3>1. Strings!Left(b) = <<<<175, 257>>>>
      BY <2>5, <2>8
    <3>2. Strings!Left(b) # <<>> /\ Strings!Left(b)[1][1] = 175
      BY <3>1
    <3>3. b + 1 = 175
      BY <2>5
    <3> QED
      BY <3>2, <3>3
  <2>10. Strings!Left(b) = Rest(v3 + 1)
    BY <2>2, <2>5, <2>8
  <2>11. Strings!Strings5[3][1] = 119 /\ Strings!Strings5[3][2] = 174 /\ 3 \in 1..4
    BY DEF Strings!Strings5
  <2>12. \E m \in 1..4 : Strings!Strings5[m][1] <= v4[1][1] /\ v4[1][2] = Strings!Strings5[m][2]
    <3>1. Strings!Strings5[3][1] <= v4[1][1] /\ v4[1][2] = Strings!Strings5[3][2]
      BY <2>3, <2>4, <2>11
    <3> QED
      BY <2>11, <3>1
  <2>13. v4[1] = <<v4[1][1], v4[1][2]>> /\ v4[1][1] \in Nat /\ v4[1][2] \in Nat
    BY <2>3, <2>4
  <2>14. v4[1][1] <= b /\ b <= v4[1][2]
    BY <2>3, <2>6
  <2>15. Spent(v3 + 1) <=> FALSE
    BY <1>3, <1>9
  <2> QED
    BY <2>6, <2>9, <2>10, <2>12, <2>13, <2>14, <2>15
<1>10. CASE v3 = 5
  <2>1. v4 = <<<<175, 257>>>>
    BY <1>10 DEF Rest, Rest5
  <2>2. Rest(v3 + 1) = <<<<175 + Wide, 257>>>>
    BY <1>10 DEF Rest, Rest5
  <2> DEFINE a == 175
  <2>3. v4[1] = <<a, 257>> /\ v4[1][1] = a /\ v4[1][2] = 257
    BY <2>1
  <2>4. a \in Nat /\ a <= 257 /\ a >= 175 /\ a + Wide - 1 < 257
    BY <1>1
  <2> HIDE DEF a
  <2>5. b = a + Wide - 1 /\ Strings!Left(b) = [v4 EXCEPT ![1][1] = (a + Wide - 1) + 1]
    <3>1. 257 \in Nat
      OBVIOUS
    <3>2. /\ b = IF a + Wide - 1 <= 257 THEN a + Wide - 1 ELSE 257
          /\ Strings!Left(b) = IF a + Wide - 1 >= 257 THEN Tail(v4)
                               ELSE [v4 EXCEPT ![1][1] = (a + Wide - 1) + 1]
      BY <1>4, <2>3, <2>4, <3>1
    <3> QED
      BY <1>1, <2>4, <3>2
  <2>6. b \in Nat /\ a <= b /\ b <= 257
    BY <1>1, <2>4, <2>5
  <2>7. b + 1 = 175 + Wide
    BY <1>1, <2>5 DEF a
  <2>8. Strings!Left(b) = <<<<b + 1, 257>>>>
    <3>1. Strings!Left(b) = [v4 EXCEPT ![1][1] = b + 1]
      BY <2>5
    <3> QED
      BY <2>1, <3>1
  <2>9. Strings!Left(b) # <<>> /\ Strings!Left(b)[1][1] = b + 1
    BY <2>8
  <2>10. Strings!Left(b) = Rest(v3 + 1)
    BY <2>2, <2>7, <2>8
  <2>11. Strings!Strings5[4][1] = 175 /\ Strings!Strings5[4][2] = 257 /\ 4 \in 1..4
    BY DEF Strings!Strings5
  <2>12. \E m \in 1..4 : Strings!Strings5[m][1] <= v4[1][1] /\ v4[1][2] = Strings!Strings5[m][2]
    <3>1. Strings!Strings5[4][1] <= v4[1][1] /\ v4[1][2] = Strings!Strings5[4][2]
      BY <2>3, <2>4, <2>11
    <3> QED
      BY <2>11, <3>1
  <2>13. v4[1] = <<v4[1][1], v4[1][2]>> /\ v4[1][1] \in Nat /\ v4[1][2] \in Nat
    BY <2>3, <2>4
  <2>14. v4[1][1] <= b /\ b <= v4[1][2]
    BY <2>3, <2>6
  <2>15. Spent(v3 + 1) <=> FALSE
    BY <1>3, <1>10
  <2> QED
    BY <2>6, <2>9, <2>10, <2>12, <2>13, <2>14, <2>15
<1>11. CASE v3 = 6
  <2>1. v4 = <<<<175 + Wide, 257>>>>
    BY <1>11 DEF Rest, Rest5
  <2>2. Rest(v3 + 1) = <<>>
    BY <1>11 DEF Rest, Rest5
  <2> DEFINE a == 175 + Wide
  <2>3. v4[1] = <<a, 257>> /\ v4[1][1] = a /\ v4[1][2] = 257
    BY <2>1
  <2>4. a \in Nat /\ a <= 257 /\ a >= 175 /\ a + Wide - 1 >= 257
    BY <1>1
  <2> HIDE DEF a
  <2>5. b = 257 /\ Strings!Left(b) = Tail(v4)
    <3>1. 257 \in Nat
      OBVIOUS
    <3>2. /\ b = IF a + Wide - 1 <= 257 THEN a + Wide - 1 ELSE 257
          /\ Strings!Left(b) = IF a + Wide - 1 >= 257 THEN Tail(v4)
                               ELSE [v4 EXCEPT ![1][1] = (a + Wide - 1) + 1]
      BY <1>4, <2>3, <2>4, <3>1
    <3> QED
      BY <1>1, <2>4, <3>2
  <2>6. b \in Nat /\ a <= b /\ b <= 257
    BY <2>4, <2>5
  <2>8. Tail(v4) = <<>>
    BY <2>1
  <2>9. b = Final[v2]
    BY <1>3, <2>5
  <2>10. Strings!Left(b) = Rest(v3 + 1)
    BY <2>2, <2>5, <2>8
  <2>11. Strings!Strings5[4][1] = 175 /\ Strings!Strings5[4][2] = 257 /\ 4 \in 1..4
    BY DEF Strings!Strings5
  <2>12. \E m \in 1..4 : Strings!Strings5[m][1] <= v4[1][1] /\ v4[1][2] = Strings!Strings5[m][2]
    <3>1. Strings!Strings5[4][1] <= v4[1][1] /\ v4[1][2] = Strings!Strings5[4][2]
      BY <2>3, <2>4, <2>11
    <3> QED
      BY <2>11, <3>1
  <2>13. v4[1] = <<v4[1][1], v4[1][2]>> /\ v4[1][1] \in Nat /\ v4[1][2] \in Nat
    BY <2>3, <2>4
  <2>14. v4[1][1] <= b /\ b <= v4[1][2]
    BY <2>3, <2>6
  <2>15. Spent(v3 + 1) <=> TRUE
    BY <1>3, <1>11
  <2> QED
    BY <2>6, <2>9, <2>10, <2>12, <2>13, <2>14, <2>15
<1> QED
  BY <1>2, <1>5, <1>6, <1>7, <1>8, <1>9, <1>10, <1>11

LEMMA RestOrSpent ==
  ASSUME v1 \in 0..5, v2 \in 2..5, v3 \in 0..8
  PROVE  /\ Rest(v3) = <<>> <=> Spent(v3)
         /\ v3 < 8 => (Rest(v3 + 1) = <<>> <=> Spent(v3 + 1))
         /\ Spent(v3) => Spent(v3 + 1)
<1>1. Wide \in Nat /\ Foremost[v2] \in Nat /\ Final[v2] \in Nat
  BY ExampleNumbers
<1>2. CASE v2 # 5
  <2>1. Wide * (v3 + 1) = Wide * v3 + Wide /\ Wide * v3 \in Nat
    BY <1>1
  <2>2. Spent(v3) => Spent(v3 + 1)
    BY <1>1, <1>2, <2>1 DEF Spent
  <2> QED
    BY <1>2, <2>2 DEF Rest
<1>3. CASE v2 = 5
  <2>1. ASSUME NEW n \in 0..8 PROVE Rest5(n) = <<>> <=> n >= 7
    <3>1. n = 0 \/ n = 1 \/ n = 2 \/ n = 3 \/ n = 4 \/ n = 5 \/ n = 6 \/ n = 7 \/ n = 8
      OBVIOUS
    <3>2. CASE n = 0
      BY <3>2 DEF Rest5
    <3>3. CASE n = 1
      BY <3>3 DEF Rest5
    <3>4. CASE n = 2
      BY <3>4 DEF Rest5
    <3>5. CASE n = 3
      BY <3>5 DEF Rest5
    <3>6. CASE n = 4
      BY <3>6 DEF Rest5
    <3>7. CASE n = 5
      BY <3>7 DEF Rest5
    <3>8. CASE n = 6
      BY <3>8 DEF Rest5
    <3>9. CASE n = 7
      BY <3>9 DEF Rest5
    <3>10. CASE n = 8
      BY <3>10 DEF Rest5
    <3> QED
      BY <3>1, <3>2, <3>3, <3>4, <3>5, <3>6, <3>7, <3>8, <3>9, <3>10
  <2>2. v3 + 1 \in 0..8 \/ ~(v3 < 8)
    OBVIOUS
  <2> QED
    BY <1>3, <2>1, <2>2 DEF Rest, Spent
<1> QED
  BY <1>2, <1>3

LEMMA ReadFinds ==
  ASSUME StringInv, v2 > 1, v3 < Strings!Times[v2], v4 # <<>>,
         NEW b, b = Strings!LastOfOne(Wide)
  PROVE  /\ <<v4[1][1], b>> \in Intervals
         /\ \E s \in Strings!ToSet(Strings!Delivers[v2]) : s[1] <= v4[1][1] /\ b <= s[2]
         /\ Strings!Left(b) = Rest(v3 + 1)
         /\ IF Spent(v3 + 1) THEN b = Final[v2]
            ELSE Strings!Left(b) # <<>> /\ Strings!Left(b)[1][1] = b + 1
<1>1. v1 \in 0..5 /\ v2 \in 2..5 /\ v3 \in 0..8 /\ v4 = Rest(v3)
  <2>1. v1 \in 0..5 /\ v2 \in 1..5 /\ v3 \in 0..Strings!Times[v2] /\ v4 = Rest(v3)
    BY DEF StringInv, StringTypes
  <2>2. Strings!Times[v2] <= 8 /\ Strings!Times[v2] \in Nat
    BY <2>1, ExampleNumbers
  <2> QED
    BY <2>1, <2>2
<1>2. CASE v2 # 5
  <2>0. v2 \in 2..4 /\ v3 \in Nat
    BY <1>1, <1>2
  <2>1. /\ v4[1][1] \in Nat /\ v4[1][2] = Final[v2] /\ b \in Nat /\ v4[1][1] <= b /\ b <= v4[1][2]
        /\ v4[1][1] >= Foremost[v2]
        /\ Strings!Left(b) = Rest(v3 + 1)
        /\ IF Spent(v3 + 1) THEN b = Final[v2]
           ELSE Strings!Left(b) # <<>> /\ Strings!Left(b)[1][1] = b + 1
    BY <1>1, <2>0, OneStringReads
  <2>2. Strings!Delivers[v2] = <<<<Foremost[v2], Final[v2]>>>>
    <3>1. v2 = 2 \/ v2 = 3 \/ v2 = 4
      BY <2>0
    <3> QED
      BY <3>1 DEF Strings!Delivers, Strings!comment, Foremost, Final
  <2>3. <<Foremost[v2], Final[v2]>> \in Strings!ToSet(Strings!Delivers[v2])
    BY <2>2 DEF Strings!ToSet
  <2>4. Foremost[v2] \in Nat /\ Final[v2] \in Nat
    BY <1>1, ExampleNumbers
  <2>5. Foremost[v2] <= v4[1][1] /\ b <= Final[v2]
    BY <2>1, <2>4
  <2>6. \E s \in Strings!ToSet(Strings!Delivers[v2]) : s[1] <= v4[1][1] /\ b <= s[2]
    BY <2>3, <2>5
  <2> QED
    BY <2>1, <2>6 DEF Intervals
<1>3. CASE v2 = 5
  <2>1. /\ v4[1][1] \in Nat /\ v4[1][2] \in Nat /\ b \in Nat /\ v4[1][1] <= b /\ b <= v4[1][2]
        /\ \E m \in 1..4 : /\ Strings!Strings5[m][1] <= v4[1][1]
                           /\ v4[1][2] = Strings!Strings5[m][2]
        /\ Strings!Left(b) = Rest(v3 + 1)
        /\ IF Spent(v3 + 1) THEN b = Final[v2]
           ELSE Strings!Left(b) # <<>> /\ Strings!Left(b)[1][1] = b + 1
    BY <1>1, <1>3, FourStringsRead
  <2>2. PICK m \in 1..4 : /\ Strings!Strings5[m][1] <= v4[1][1]
                          /\ v4[1][2] = Strings!Strings5[m][2]
    BY <2>1
  <2>3. Strings!Delivers[v2] = Strings!Strings5 /\ DOMAIN Strings!Strings5 = 1..4
    BY <1>3 DEF Strings!Delivers, Strings!Strings5
  <2>4. Strings!Strings5[m] \in Strings!ToSet(Strings!Delivers[v2])
    BY <2>3 DEF Strings!ToSet
  <2>5. b <= Strings!Strings5[m][2]
    BY <2>1, <2>2
  <2>6. \E s \in Strings!ToSet(Strings!Delivers[v2]) : s[1] <= v4[1][1] /\ b <= s[2]
    BY <2>2, <2>4, <2>5
  <2> QED
    BY <2>1, <2>6 DEF Intervals
<1> QED
  BY <1>2, <1>3

LEMMA ReadKeeps ==
  ASSUME StringInv, Strings!Read
  PROVE  StringInv'
<1>1. /\ v3 < Strings!Times[v2] /\ v3' = v3 + 1 /\ v1' = v1 /\ v2' = v2
      /\ v1 \in 0..5 /\ v2 \in 1..5 /\ v3 \in 0..Strings!Times[v2]
  BY DEF StringInv, StringTypes, Strings!Read
<1>2. Strings!Times[v2] \in Nat /\ Strings!Times[v2] <= 8
  BY <1>1, ExampleNumbers
<1>3. v3' \in 0..Strings!Times[v2'] /\ v3 \in 0..7 /\ v3 + 1 \in 1..8
  BY <1>1, <1>2
<1>4. CASE v2 = 1
  BY <1>1, <1>3, <1>4 DEF StringInv, StringTypes, Strings!Contiguous,
     Strings!TeeWritesWhatIsRead
<1>5. CASE v2 > 1
  <2> DEFINE b == Strings!LastOfOne(Wide)
             x == IF v4 = <<>> THEN <<>> ELSE <<v4[1][1], b>>
  <2>1. /\ v5' = Append(v5, x)
        /\ v4' = IF v4 = <<>> THEN <<>> ELSE Strings!Left(b)
        /\ v2 = 4 => v6' = IF v4 = <<>> THEN v6 ELSE Append(v6, x)
    <3>1. CASE v4 = <<>>
      BY <1>5, <3>1 DEF Strings!Read
    <3>2. CASE v4 # <<>>
      BY <1>5, <3>2 DEF Strings!Read, Strings!Tee, Wide
    <3> QED
      BY <3>1, <3>2
  <2>2. /\ v5 \in Seq(Intervals \cup {<<>>}) /\ Len(v5) = v3
        /\ v4 = Rest(v3) /\ GoesOnInv
    BY <1>5 DEF StringInv, StringTypes
  <2>3. /\ v4 = <<>> <=> Spent(v3)
        /\ Rest(v3 + 1) = <<>> <=> Spent(v3 + 1)
        /\ Spent(v3) => Spent(v3 + 1)
    <3>1. v2 \in 2..5 /\ v3 \in 0..8 /\ v3 < 8
      BY <1>1, <1>3, <1>5
    <3> QED
      BY <1>1, <2>2, <3>1, RestOrSpent
  <2>4. ASSUME v4 # <<>>
        PROVE  /\ x = <<v4[1][1], b>> /\ x \in Intervals /\ x # <<>> /\ x[1] = v4[1][1] /\ x[2] = b
               /\ \E s \in Strings!ToSet(Strings!Delivers[v2]) : s[1] <= x[1] /\ x[2] <= s[2]
               /\ v4' = Rest(v3 + 1)
               /\ v4' = <<>> => b = Final[v2]
               /\ v4' # <<>> => v4'[1][1] = b + 1
    <3> HIDE DEF b
    <3>0. b = Strings!LastOfOne(Wide)
      BY DEF b
    <3>1. /\ <<v4[1][1], b>> \in Intervals
          /\ \E s \in Strings!ToSet(Strings!Delivers[v2]) : s[1] <= v4[1][1] /\ b <= s[2]
          /\ Strings!Left(b) = Rest(v3 + 1)
          /\ IF Spent(v3 + 1) THEN b = Final[v2]
             ELSE Strings!Left(b) # <<>> /\ Strings!Left(b)[1][1] = b + 1
      <4>1. PICK c : c = b
        OBVIOUS
      <4> QED
        BY <1>1, <1>5, <2>4, <3>0, <4>1, ReadFinds
    <3>2. x = <<v4[1][1], b>> /\ v4' = Strings!Left(b)
      BY <2>1, <2>4 DEF b
    <3>3. x # <<>> /\ x[1] = v4[1][1] /\ x[2] = b
      BY <3>2
    <3> HIDE DEF x
    <3>4. x \in Intervals
      BY <3>1, <3>2
    <3>5. \E s \in Strings!ToSet(Strings!Delivers[v2]) : s[1] <= x[1] /\ x[2] <= s[2]
      BY <3>1, <3>3
    <3>6. v4' = <<>> => b = Final[v2]
      BY <2>3, <3>1, <3>2
    <3>7. v4' # <<>> => v4'[1][1] = b + 1
      BY <2>3, <3>1, <3>2
    <3> QED
      BY <3>1, <3>2, <3>3, <3>4, <3>5, <3>6, <3>7
  <2>5. v4 = <<>> => x = <<>> /\ v4' = <<>>
    BY <2>1
  <2> HIDE DEF x, b
  <2>6. x \in Intervals \cup {<<>>} /\ (x = <<>> <=> v4 = <<>>)
    BY <2>4, <2>5
  <2>7. /\ v5' \in Seq(Intervals \cup {<<>>}) /\ Len(v5') = v3 + 1 /\ v5'[v3 + 1] = x
        /\ \A k \in 1..v3 : v5'[k] = v5[k]
    BY <2>1, <2>2, <2>6, AppendProperties
  <2>8. StringTypes'
    BY <1>1, <1>3, <2>7 DEF StringTypes
  <2>9. (v4 = Rest(v3))'
    <3>1. v4' = Rest(v3 + 1)
      BY <2>2, <2>3, <2>4, <2>5
    <3>2. Wide' = Wide
      BY <1>1 DEF Wide
    <3>3. Rest(v3)' = Rest(v3 + 1)
      <4>1. v2' = v2 /\ v3' = v3 + 1
        BY <1>1
      <4>2. Spent(v3)' <=> Spent(v3 + 1)
        BY <3>2, <4>1 DEF Spent
      <4>3. Rest5(v3)' = Rest5(v3 + 1)
        BY <3>2, <4>1 DEF Rest5
      <4> QED
        BY <3>2, <4>1, <4>2, <4>3 DEF Rest
    <3> QED
      BY <3>1, <3>3
  <2>10. GoesOnInv'
    <3>1. v3' > 0 => (v5'[v3'] = <<>> <=> Spent(v3 - 1)')
      <4>1. v3' - 1 = v3 /\ v5'[v3'] = x
        BY <1>1, <1>3, <2>7
      <4>2. Wide' = Wide
        BY <1>1 DEF Wide
      <4>3. Spent(v3 - 1)' <=> Spent(v3)
        BY <1>1, <4>1, <4>2 DEF Spent
      <4> QED
        BY <2>3, <2>6, <4>1, <4>3
    <3>2. v4' # <<>> => v4'[1][1] = v5'[v3'][2] + 1 /\ v5'[v3'] # <<>>
      BY <1>1, <2>4, <2>5, <2>7
    <3>3. ASSUME v4' = <<>>
          PROVE  \E k \in 1..v3' : /\ v5'[k] # <<>> /\ (k < v3' => v5'[k + 1] = <<>>)
                                   /\ v5'[k][2] = Final[v2']
      <4>1. CASE v4 # <<>>
        <5>1. v5'[v3 + 1] # <<>> /\ v5'[v3 + 1][2] = Final[v2'] /\ v3 + 1 \in 1..v3' /\ ~(v3 + 1 < v3')
          BY <1>1, <1>3, <2>4, <2>7, <3>3, <4>1
        <5> QED
          BY <5>1
      <4>2. CASE v4 = <<>>
        <5>1. PICK k \in 1..v3 : /\ v5[k] # <<>> /\ (k < v3 => v5[k + 1] = <<>>)
                                 /\ v5[k][2] = Final[v2]
          BY <2>2, <4>2 DEF GoesOnInv
        <5>2. v5'[k] # <<>> /\ v5'[k][2] = Final[v2'] /\ k \in 1..v3'
          BY <1>1, <1>3, <2>7, <5>1
        <5>3. v5'[k + 1] = <<>>
          <6>1. CASE k < v3
            <7>1. k + 1 \in 1..v3
              BY <1>3, <6>1
            <7> QED
              BY <2>7, <5>1, <6>1, <7>1
          <6>2. CASE k = v3
            BY <2>5, <2>7, <4>2, <6>2
          <6> QED
            BY <1>3, <6>1, <6>2
        <5> QED
          BY <5>2, <5>3
      <4> QED
        BY <4>1, <4>2
    <3> QED
      BY <1>1, <1>3, <3>1, <3>2, <3>3 DEF GoesOnInv
  <2>11. Strings!Contiguous'
    <3> SUFFICES ASSUME NEW k \in 1..(v3 + 1)
                 PROVE  IF v5'[k] = <<>> THEN \A l \in k..(v3 + 1) : v5'[l] = <<>>
                        ELSE /\ \E s \in Strings!ToSet(Strings!Delivers[v2]) :
                                  s[1] <= v5'[k][1] /\ v5'[k][2] <= s[2]
                             /\ v5'[k][1] = IF k = 1 THEN Strings!Delivers[v2][1][1]
                                            ELSE v5'[k - 1][2] + 1
      BY <1>1, <2>7 DEF Strings!Contiguous
    <3>1. ASSUME NEW m \in 1..v3
          PROVE  IF v5[m] = <<>> THEN \A l \in m..v3 : v5[l] = <<>>
                 ELSE /\ \E s \in Strings!ToSet(Strings!Delivers[v2]) :
                           s[1] <= v5[m][1] /\ v5[m][2] <= s[2]
                      /\ v5[m][1] = IF m = 1 THEN Strings!Delivers[v2][1][1]
                                    ELSE v5[m - 1][2] + 1
      BY <1>5, <2>2 DEF StringInv, Strings!Contiguous
    <3>2. Strings!Delivers[v2][1][1] = Foremost[v2]
      <4>1. v2 = 2 \/ v2 = 3 \/ v2 = 4 \/ v2 = 5
        BY <1>1, <1>5
      <4> QED
        BY <4>1 DEF Strings!Delivers, Strings!Strings5, Strings!comment, Foremost
    <3>3. CASE k \in 1..v3 /\ v5[k] = <<>>
      <4>1. v5[v3] = <<>>
        <5>1. v3 \in k..v3
          BY <1>3, <3>3
        <5> QED
          BY <3>1, <3>3, <5>1
      <4>2. v3 > 0
        BY <1>3, <3>3
      <4>3. v4 = <<>>
        BY <2>2, <4>1, <4>2 DEF GoesOnInv
      <4>4. v5'[k] = <<>> /\ v5'[v3 + 1] = <<>>
        BY <2>5, <2>7, <3>3, <4>3
      <4>5. ASSUME NEW l \in k..(v3 + 1) PROVE v5'[l] = <<>>
        <5>1. CASE l = v3 + 1
          BY <4>4, <5>1
        <5>2. CASE l # v3 + 1
          <6>1. l \in k..v3 /\ l \in 1..v3
            BY <1>3, <3>3, <5>2
          <6> QED
            BY <2>7, <3>1, <3>3, <6>1
        <5> QED
          BY <5>1, <5>2
      <4> QED
        BY <4>4, <4>5
    <3>4. CASE k \in 1..v3 /\ v5[k] # <<>>
      <4>1. v5'[k] = v5[k] /\ (k # 1 => v5'[k - 1] = v5[k - 1])
        <5>1. k # 1 => k - 1 \in 1..v3
          BY <1>3, <3>4
        <5> QED
          BY <2>7, <3>4, <5>1
      <4> QED
        BY <3>1, <3>4, <4>1
    <3>5. CASE k = v3 + 1 /\ v4 = <<>>
      <4>1. v5'[k] = <<>>
        BY <2>5, <2>7, <3>5
      <4>2. ASSUME NEW l \in k..(v3 + 1) PROVE l = k
        BY <1>3, <3>5
      <4> QED
        BY <4>1, <4>2
    <3>6. CASE k = v3 + 1 /\ v4 # <<>>
      <4>1. v5'[k] = x
        BY <2>7, <3>6
      <4>2. k # 1 => k - 1 \in 1..v3 /\ k - 1 = v3 /\ v3 # 0
        BY <1>3, <3>6
      <4>3. k = 1 => v3 = 0
        BY <1>3, <3>6
      <4>4. x[1] = IF v3 = 0 THEN Foremost[v2] ELSE v5[v3][2] + 1
        BY <2>2, <2>4, <3>6 DEF GoesOnInv
      <4>5. x[1] = IF k = 1 THEN Strings!Delivers[v2][1][1] ELSE v5'[k - 1][2] + 1
        BY <2>7, <3>2, <4>2, <4>3, <4>4
      <4> QED
        BY <2>4, <3>6, <4>1, <4>5
    <3>7. k \in 1..v3 \/ k = v3 + 1
      BY <1>3
    <3> QED
      BY <3>3, <3>4, <3>5, <3>6, <3>7
  <2>12. ASSUME v2 = 4 PROVE v6' \in Seq(Intervals) /\ Strings!TeeWritesWhatIsRead'
    <3>1. /\ v6 \in Seq(Intervals) /\ Len(v6) <= v3 /\ \A k \in 1..Len(v6) : v6[k] = v5[k]
          /\ \A k \in 1..v3 : v5[k] # <<>> <=> k <= Len(v6)
      BY <2>2, <2>12 DEF StringInv, Strings!TeeWritesWhatIsRead
    <3>2. PICK n \in Nat : n = Len(v6)
      BY <3>1
    <3>3. CASE v4 = <<>>
      <4>1. v6' = v6
        BY <2>1, <2>12, <3>3
      <4>2. n <= v3 + 1 /\ \A k \in 1..n : v6'[k] = v5'[k]
        BY <1>3, <2>7, <3>1, <3>2, <4>1
      <4>3. ASSUME NEW k \in 1..(v3 + 1) PROVE v5'[k] # <<>> <=> k <= n
        <5>1. CASE k = v3 + 1
          BY <1>3, <2>5, <2>7, <3>1, <3>2, <3>3, <5>1
        <5>2. CASE k # v3 + 1
          <6>1. k \in 1..v3
            BY <1>3, <5>2
          <6> QED
            BY <2>7, <3>1, <3>2, <6>1
        <5> QED
          BY <5>1, <5>2
      <4> QED
        BY <1>1, <2>7, <3>1, <3>2, <4>1, <4>2, <4>3 DEF Strings!TeeWritesWhatIsRead
    <3>4. CASE v4 # <<>>
      <4>1. v6' = Append(v6, x) /\ x \in Intervals
        BY <2>1, <2>4, <2>12, <3>4
      <4>2. n = v3
        <5>1. CASE v3 = 0
          BY <3>1, <3>2, <5>1
        <5>2. CASE v3 > 0
          <6>1. v5[v3] # <<>> /\ v3 \in 1..v3
            BY <1>3, <2>2, <3>4, <5>2 DEF GoesOnInv
          <6>2. v3 <= n
            BY <3>1, <3>2, <6>1
          <6> QED
            BY <1>3, <3>1, <3>2, <6>2
        <5> QED
          BY <1>3, <5>1, <5>2
      <4>3. /\ v6' \in Seq(Intervals) /\ Len(v6') = n + 1 /\ v6'[n + 1] = x
            /\ \A k \in 1..n : v6'[k] = v6[k]
        BY <3>1, <3>2, <4>1, AppendProperties
      <4>4. ASSUME NEW k \in 1..(v3 + 1) PROVE v6'[k] = v5'[k] /\ v5'[k] # <<>> /\ k <= n + 1
        <5>1. CASE k = v3 + 1
          BY <1>3, <2>4, <2>7, <3>4, <4>2, <4>3, <5>1
        <5>2. CASE k # v3 + 1
          <6>1. k \in 1..v3 /\ k <= n + 1
            BY <1>3, <4>2, <5>2
          <6>2. v5[k] # <<>>
            BY <3>1, <3>2, <4>2, <6>1
          <6> QED
            BY <2>7, <3>1, <3>2, <4>2, <4>3, <6>1, <6>2
        <5> QED
          BY <5>1, <5>2
      <4> QED
        BY <1>1, <2>7, <4>2, <4>3, <4>4 DEF Strings!TeeWritesWhatIsRead
    <3> QED
      BY <3>3, <3>4
  <2>13. v2' # 4 => Strings!TeeWritesWhatIsRead'
    BY DEF Strings!TeeWritesWhatIsRead
  <2> QED
    BY <1>1, <2>8, <2>9, <2>10, <2>11, <2>12, <2>13 DEF StringInv
<1> QED
  BY <1>1, <1>4, <1>5

LEMMA NextExampleKeeps ==
  ASSUME StringInv, Strings!NextExample
  PROVE  StringInv'
<1>1. /\ v2 \in 1..5 /\ v2 < 5 /\ v2' = v2 + 1 /\ v3' = 0 /\ v4' = Strings!Delivers[v2 + 1]
      /\ v5' = <<>> /\ v6' = <<>> /\ v1' = v1 /\ v1 \in 0..5
  BY DEF Strings!NextExample, Strings!Begin, StringInv, StringTypes
<1>2. v2' \in 2..5
  BY <1>1
<1>3. StringTypes'
  <2>1. v2' = 2 \/ v2' = 3 \/ v2' = 4 \/ v2' = 5
    BY <1>2
  <2>2. Strings!Times[v2'] \in Nat
    BY <2>1 DEF Strings!Times
  <2> QED
    BY <1>1, <1>2, <2>2 DEF StringTypes
<1>4. (v4 = Rest(v3))' /\ v4' # <<>> /\ v4'[1][1] = Foremost[v2']
  <2>0. v4' = Strings!Delivers[v2'] /\ v3' = 0
    BY <1>1
  <2>1. Wide' * 0 = 0 /\ Wide' \in Nat
    <3>1. v2' = 2 \/ v2' = 3 \/ v2' = 4 \/ v2' = 5
      BY <1>2
    <3>2. Strings!Buffer[v2'] \in Nat
      BY <3>1 DEF Strings!Buffer
    <3>3. PICK w : w = Wide'
      OBVIOUS
    <3>4. w \in Nat
      BY <1>1, <3>2, <3>3 DEF Wide
    <3>5. w * 0 = 0
      BY <3>4
    <3> QED
      BY <3>3, <3>4, <3>5
  <2>2. CASE v2' = 5
    <3>1. v4' = <<<<1, 92>>, <<93, 118>>, <<119, 174>>, <<175, 257>>>>
      BY <2>0, <2>2 DEF Strings!Delivers, Strings!Strings5
    <3>2. Rest(v3)' = <<<<1, 92>>, <<93, 118>>, <<119, 174>>, <<175, 257>>>>
      BY <2>0, <2>2 DEF Rest, Rest5
    <3>3. v4' # <<>> /\ v4'[1][1] = Foremost[v2']
      BY <2>2, <3>1 DEF Foremost
    <3> QED
      BY <3>1, <3>2, <3>3
  <2>3. CASE v2' \in 2..4
    <3>1. v2' = 2 \/ v2' = 3 \/ v2' = 4
      BY <2>3
    <3>2. v4' = <<<<Foremost[v2'], Final[v2']>>>>
      BY <2>0, <3>1 DEF Strings!Delivers, Strings!comment, Foremost, Final
    <3>3. Foremost[v2'] \in Nat /\ Final[v2'] \in Nat /\ Foremost[v2'] <= Final[v2']
      BY <3>1 DEF Foremost, Final
    <3>4. Foremost[v2'] + Wide' * 0 = Foremost[v2']
      BY <2>1, <3>3
    <3>5. v2' # 5
      BY <3>1
    <3>6. ~Spent(v3)'
      BY <2>0, <3>3, <3>4, <3>5 DEF Spent
    <3>7. Rest(v3)' = <<<<Foremost[v2'], Final[v2']>>>>
      BY <2>0, <3>4, <3>5, <3>6 DEF Rest
    <3>8. v4' # <<>> /\ v4'[1][1] = Foremost[v2']
      BY <3>2
    <3> QED
      BY <3>2, <3>7, <3>8
  <2> QED
    BY <1>2, <2>2, <2>3
<1>5. GoesOnInv'
  BY <1>1, <1>4 DEF GoesOnInv
<1>6. Strings!Contiguous' /\ Strings!TeeWritesWhatIsRead' /\ v6' \in Seq(Intervals)
  BY <1>1 DEF Strings!Contiguous, Strings!TeeWritesWhatIsRead
<1> QED
  BY <1>3, <1>4, <1>5, <1>6 DEF StringInv

LEMMA StringsKept == StringsInv /\ [Next]_vars => StringsInv'
<1> SUFFICES ASSUME StringsInv, [Next]_vars, running' = "Readers" PROVE StringInv'
  BY DEF StringsInv
<1>1. ASSUME UNCHANGED <<v1, v2, v3, v4, v5, v6>>, StringInv PROVE StringInv'
  BY <1>1 DEF StringInv, StringTypes, GoesOnInv, Rest, Rest5, Spent, Wide,
     Strings!Contiguous, Strings!TeeWritesWhatIsRead
<1>2. CASE UNCHANGED vars
  BY <1>1, <1>2 DEF vars, StringsInv
<1>3. CASE Of("Readers", Strings!Next, <<v7, v8>>)
  <2>1. StringInv /\ Strings!Next
    BY <1>3 DEF Of, StringsInv
  <2> QED
    BY <1>1, <2>1, ReadKeeps, NextExampleKeeps
    DEF Strings!Next, Strings!Terminated, Strings!vars
<1> QED
  BY <1>2, <1>3 DEF Next, Of

LEMMA StringsInvariant == Spec => []StringsInv
<1>1. Init => StringsInv
  BY StringsStart
<1>2. StringsInv /\ [Next]_vars => StringsInv'
  BY StringsKept
<1> QED
  BY <1>1, <1>2, PTL DEF Spec

\* The reads are enough: each takes a buffer, or the rest of a string.
LEMMA StringsGood ==
  StringInv => Strings!Contiguous /\ Strings!TeeWritesWhatIsRead /\ Strings!ReadsAll
<1> SUFFICES ASSUME StringInv, v3 = Strings!Times[v2], v2 > 1
             PROVE  /\ v4 = <<>> /\ v5[v3] = <<>>
                    /\ \E k \in 1..(v3 - 1) :
                         /\ v5[k] # <<>> /\ v5[k + 1] = <<>>
                         /\ v5[k][2] = Strings!Delivers[v2][Len(Strings!Delivers[v2])][2]
  BY DEF StringInv, Strings!ReadsAll
<1>1. /\ v1 \in 0..5 /\ v2 \in 2..5 /\ v4 = Rest(v3) /\ GoesOnInv
      /\ v3 = IF v2 = 2 THEN 3 ELSE IF v2 = 3 THEN 5 ELSE 8
  <2>1. v1 \in 0..5 /\ v2 \in 1..5 /\ v4 = Rest(v3) /\ GoesOnInv
    BY DEF StringInv, StringTypes
  <2> QED
    BY <2>1, ExampleNumbers
<1>2. Spent(v3 - 1)
  <2>1. /\ Wide \in Nat /\ Wide >= Strings!Buffer[v2]
        /\ Strings!Buffer[v2] = IF v2 = 2 THEN 10 ELSE IF v2 = 3 THEN 20
                                ELSE IF v2 = 4 THEN 40 ELSE 50
    BY <1>1, ExampleNumbers
  <2>2. CASE v2 = 2
    BY <1>1, <2>1, <2>2 DEF Spent, Foremost, Final
  <2>3. CASE v2 = 3
    BY <1>1, <2>1, <2>3 DEF Spent, Foremost, Final
  <2>4. CASE v2 = 4
    BY <1>1, <2>1, <2>4 DEF Spent, Foremost, Final
  <2>5. CASE v2 = 5
    BY <1>1, <2>5 DEF Spent
  <2> QED
    BY <1>1, <2>2, <2>3, <2>4, <2>5
<1>3. v3 \in 3..8 /\ v5[v3] = <<>>
  BY <1>1, <1>2 DEF GoesOnInv
<1>4. v4 = <<>>
  BY <1>1, <1>3 DEF GoesOnInv
<1>5. PICK k \in 1..v3 : /\ v5[k] # <<>> /\ (k < v3 => v5[k + 1] = <<>>)
                         /\ v5[k][2] = Final[v2]
  BY <1>1, <1>4 DEF GoesOnInv
<1>6. k \in 1..(v3 - 1) /\ v5[k + 1] = <<>>
  BY <1>3, <1>5
<1>7. Strings!Delivers[v2][Len(Strings!Delivers[v2])][2] = Final[v2]
  <2>1. v2 = 2 \/ v2 = 3 \/ v2 = 4 \/ v2 = 5
    BY <1>1
  <2>2. CASE v2 = 5
    <3>1. Strings!Delivers[v2] = <<<<1, 92>>, <<93, 118>>, <<119, 174>>, <<175, 257>>>>
      BY <2>2 DEF Strings!Delivers, Strings!Strings5
    <3> QED
      BY <2>2, <3>1 DEF Final
  <2>3. CASE v2 # 5
    <3>1. Strings!Delivers[v2] = <<<<Foremost[v2], Final[v2]>>>>
      BY <2>1, <2>3 DEF Strings!Delivers, Strings!comment, Foremost, Final
    <3> QED
      BY <3>1
  <2> QED
    BY <2>2, <2>3
<1> QED
  BY <1>3, <1>4, <1>5, <1>6, <1>7

-----------------------------------------------------------------------------
(* error/: deferred calls and panics                                         *)

\* A frame at statement p of f, which has still to run the calls in d; and one
\* of the deferred function, called while a panic goes through.
At(f, p, d) == [f |-> f, pc |-> p, defers |-> d, by |-> FALSE]
Rescue(p) == [f |-> "func", pc |-> p, defers |-> <<>>, by |-> TRUE]

\* The frame a at its next statement, at statement p, and with the calls in d.
Ahead(a) == [a EXCEPT !.pc = @ + 1]
Gone(a, p) == [a EXCEPT !.pc = p]
With(a, d) == [a EXCEPT !.defers = d]

\* Statement p of f is op with the argument x.
Does(op, x, f, p) ==
  /\ p \in Nat /\ p < Unwound!End(f)
  /\ Unwound!Bodies[f][p] = [op |-> op, x |-> x]

LEMMA FrameFields ==
  ASSUME NEW f, NEW p, NEW d, NEW a, a = At(f, p, d)
  PROVE  a.f = f /\ a.pc = p /\ a.defers = d
  BY DEF At

LEMMA FrameBy ==
  /\ \A f, p, d : At(f, p, d).by = FALSE
  /\ \A p : Rescue(p).by = TRUE
<1>1. ASSUME NEW f, NEW p, NEW d PROVE At(f, p, d).by = FALSE
  BY DEF At
<1>2. ASSUME NEW p PROVE Rescue(p).by = TRUE
  BY DEF Rescue
<1> QED
  BY <1>1, <1>2

LEMMA FrameChanges ==
  ASSUME NEW f, NEW d, NEW p \in Nat, NEW a, a = At(f, p, d)
  PROVE  /\ Ahead(a) = At(f, p + 1, d)
         /\ \A q : Gone(a, q) = At(f, q, d)
         /\ \A e : With(a, e) = At(f, p, e)
<1>1. PICK by : by = FALSE
  OBVIOUS
<1>2. \A q, e : At(f, q, e) = [f |-> f, pc |-> q, defers |-> e, by |-> by]
  BY <1>1 DEF At
<1>3. a = [f |-> f, pc |-> p, defers |-> d, by |-> by]
  BY <1>2
<1>4. Ahead(a) = At(f, p + 1, d)
  BY <1>2, <1>3 DEF Ahead
<1>5. ASSUME NEW q PROVE Gone(a, q) = At(f, q, d)
  BY <1>2, <1>3 DEF Gone
<1>6. ASSUME NEW e PROVE With(a, e) = At(f, p, e)
  BY <1>2, <1>3 DEF With
<1> QED
  BY <1>4, <1>5, <1>6

LEMMA RescueFields ==
  ASSUME NEW p \in Nat, NEW a, a = Rescue(p)
  PROVE  a.f = "func" /\ a.pc = p /\ a.defers = <<>> /\ Ahead(a) = Rescue(p + 1)
<1>1. a.f = "func" /\ a.pc = p /\ a.defers = <<>>
  BY DEF Rescue
<1>2. PICK f, d, by : f = "func" /\ d = <<>> /\ by = TRUE
  OBVIOUS
<1>3. /\ Rescue(p) = [f |-> f, pc |-> p, defers |-> d, by |-> by]
      /\ Rescue(p + 1) = [f |-> f, pc |-> p + 1, defers |-> d, by |-> by]
  BY <1>2 DEF Rescue
<1>4. Ahead(a) = Rescue(p + 1)
  BY <1>3 DEF Ahead
<1> QED
  BY <1>1, <1>4

LEMMA TupleAppend ==
  /\ \A x : Append(<<>>, x) = <<x>>
  /\ \A x, y : Append(<<x>>, y) = <<x, y>>
  /\ \A x, y, z : Append(<<x, y>>, z) = <<x, y, z>>
  /\ \A x, y, z, u : Append(<<x, y, z>>, u) = <<x, y, z, u>>
  /\ \A x, y, z, u, w : Append(<<x, y, z, u>>, w) = <<x, y, z, u, w>>
<1>1. ASSUME NEW x PROVE Append(<<>>, x) = <<x>>
  OBVIOUS
<1>2. ASSUME NEW x, NEW y
      PROVE  Append(<<x>>, y) = <<x, y>>
  <2>1. PICK S, s, t, r :
          S = {x, y} /\ s = <<x>> /\ t = <<x, y>> /\ r = Append(s, y)
    OBVIOUS
  <2>2. Len(s) = 1 /\ Len(t) = 2 /\ t \in Seq(S)
    BY <2>1
  <2>3. s \in Seq(S) /\ y \in S /\ r = Append(s, y)
    BY <2>1
  <2>4. r \in Seq(S) /\ Len(r) = Len(s) + 1 /\ r[Len(s) + 1] = y
        /\ \A k \in 1..Len(s) : r[k] = s[k]
    BY <2>3, AppendProperties
  <2>5. \A k \in 1..2 : r[k] = t[k]
    BY <2>1, <2>2, <2>4
  <2>6. r = t
    BY <2>2, <2>4, <2>5, SeqEqual
  <2> QED
    BY <2>1, <2>6
<1>3. ASSUME NEW x, NEW y, NEW z
      PROVE  Append(<<x, y>>, z) = <<x, y, z>>
  <2>1. PICK S, s, t, r :
          S = {x, y, z} /\ s = <<x, y>> /\ t = <<x, y, z>> /\ r = Append(s, z)
    OBVIOUS
  <2>2. Len(s) = 2 /\ Len(t) = 3 /\ t \in Seq(S)
    BY <2>1
  <2>3. s \in Seq(S) /\ z \in S /\ r = Append(s, z)
    BY <2>1
  <2>4. r \in Seq(S) /\ Len(r) = Len(s) + 1 /\ r[Len(s) + 1] = z
        /\ \A k \in 1..Len(s) : r[k] = s[k]
    BY <2>3, AppendProperties
  <2>5. \A k \in 1..3 : r[k] = t[k]
    BY <2>1, <2>2, <2>4
  <2>6. r = t
    BY <2>2, <2>4, <2>5, SeqEqual
  <2> QED
    BY <2>1, <2>6
<1>4. ASSUME NEW x, NEW y, NEW z, NEW u
      PROVE  Append(<<x, y, z>>, u) = <<x, y, z, u>>
  <2>1. PICK S, s, t, r :
          S = {x, y, z, u} /\ s = <<x, y, z>> /\ t = <<x, y, z, u>> /\ r = Append(s, u)
    OBVIOUS
  <2>2. Len(s) = 3 /\ Len(t) = 4 /\ t \in Seq(S)
    BY <2>1
  <2>3. s \in Seq(S) /\ u \in S /\ r = Append(s, u)
    BY <2>1
  <2>4. r \in Seq(S) /\ Len(r) = Len(s) + 1 /\ r[Len(s) + 1] = u
        /\ \A k \in 1..Len(s) : r[k] = s[k]
    BY <2>3, AppendProperties
  <2>5. \A k \in 1..4 : r[k] = t[k]
    BY <2>1, <2>2, <2>4
  <2>6. r = t
    BY <2>2, <2>4, <2>5, SeqEqual
  <2> QED
    BY <2>1, <2>6
<1>5. ASSUME NEW x, NEW y, NEW z, NEW u, NEW w
      PROVE  Append(<<x, y, z, u>>, w) = <<x, y, z, u, w>>
  <2>1. PICK S, s, t, r :
          S = {x, y, z, u, w} /\ s = <<x, y, z, u>> /\ t = <<x, y, z, u, w>> /\ r = Append(s, w)
    OBVIOUS
  <2>2. Len(s) = 4 /\ Len(t) = 5 /\ t \in Seq(S)
    BY <2>1
  <2>3. s \in Seq(S) /\ w \in S /\ r = Append(s, w)
    BY <2>1
  <2>4. r \in Seq(S) /\ Len(r) = Len(s) + 1 /\ r[Len(s) + 1] = w
        /\ \A k \in 1..Len(s) : r[k] = s[k]
    BY <2>3, AppendProperties
  <2>5. \A k \in 1..5 : r[k] = t[k]
    BY <2>1, <2>2, <2>4
  <2>6. r = t
    BY <2>2, <2>4, <2>5, SeqEqual
  <2> QED
    BY <2>1, <2>6
<1> QED
  BY <1>1, <1>2, <1>3, <1>4, <1>5

\* What is left of a sequence without its last element.
LEMMA WithoutLast ==
  ASSUME NEW S, NEW s \in Seq(S), NEW t \in Seq(S), Len(s) = Len(t) + 1,
         \A k \in 1..Len(t) : s[k] = t[k]
  PROVE  Unwound!Front(s) = t /\ Unwound!RemoveAt(s, Len(s)) = t
<1>1. PICK m : m = Len(t)
  OBVIOUS
<1>2. m \in Nat /\ Len(s) = m + 1 /\ (m + 1) - 1 = m
  BY <1>1
<1> DEFINE r == SubSeq(s, 1, m)
<1>3. r \in Seq(S) /\ Len(r) = m /\ \A k \in 1..m : r[k] = s[k]
  <2>1. \A k \in 1..m : s[k] \in S
    BY <1>2
  <2>2. /\ r \in Seq(S) /\ Len(r) = IF 1 <= m THEN m - 1 + 1 ELSE 0
        /\ \A k \in 1..(m - 1 + 1) : r[k] = s[1 + k - 1]
    BY <1>2, <2>1, SubSeqProperties
  <2>3. m - 1 + 1 = m /\ (\A k \in 1..m : 1 + k - 1 = k) /\ (~(1 <= m) => m = 0)
    BY <1>2
  <2> QED
    BY <2>2, <2>3
<1>4. r = t
  BY <1>1, <1>3, SeqEqual
<1>5. Unwound!Front(s) = t
  BY <1>2, <1>4 DEF Unwound!Front
<1>6. SubSeq(s, (m + 1) + 1, m + 1) = <<>>
  BY <1>2, SubSeqEmpty
<1>7. t \o <<>> = t
  BY ConcatEmptySeq
<1>8. Unwound!RemoveAt(s, Len(s)) = t
  BY <1>2, <1>4, <1>6, <1>7 DEF Unwound!RemoveAt
<1> QED
  BY <1>5, <1>8

\* The top frame of a stack, the stack with that frame at its next statement, and
\* the stack without it.
LEMMA OneFrame ==
  ASSUME NEW a, v2 = <<a>>
  PROVE  /\ v2 # <<>> /\ Unwound!Top = a /\ Len(v2) = 1
         /\ Unwound!Stepped = <<Ahead(a)>>
         /\ \A p : [v2 EXCEPT ![Len(v2)].pc = p] = <<Gone(a, p)>>
         /\ \A d : [v2 EXCEPT ![Len(v2)].defers = d] = <<With(a, d)>>
         /\ Unwound!Front(v2) = <<>>
<1>1. Len(v2) = 1 /\ v2 # <<>> /\ v2[1] = a
  OBVIOUS
<1>2. Unwound!Top = a
  BY <1>1 DEF Unwound!Top
<1>3. [v2 EXCEPT ![1].pc = @ + 1] = <<Ahead(a)>>
  BY DEF Ahead
<1>4. Unwound!Front(v2) = <<>>
  <2>1. <<a>> \in Seq({a}) /\ <<>> \in Seq({a})
    OBVIOUS
  <2>2. /\ Len(<<a>>) = Len(<<>>) + 1
        /\ \A k \in 1..Len(<<>>) : <<a>>[k] = <<>>[k]
    OBVIOUS
  <2> QED
    BY <2>1, <2>2, WithoutLast
<1>5. ASSUME NEW p PROVE [v2 EXCEPT ![1].pc = p] = <<Gone(a, p)>>
  BY DEF Gone
<1>6. ASSUME NEW d PROVE [v2 EXCEPT ![1].defers = d] = <<With(a, d)>>
  BY DEF With
<1> QED
  BY <1>1, <1>2, <1>3, <1>4, <1>5, <1>6 DEF Unwound!Stepped

LEMMA TwoFrames ==
  ASSUME NEW b, NEW a, v2 = <<b, a>>
  PROVE  /\ v2 # <<>> /\ Unwound!Top = a /\ Len(v2) = 2
         /\ Unwound!Stepped = <<b, Ahead(a)>>
         /\ \A p : [v2 EXCEPT ![Len(v2)].pc = p] = <<b, Gone(a, p)>>
         /\ \A d : [v2 EXCEPT ![Len(v2)].defers = d] = <<b, With(a, d)>>
         /\ Unwound!Front(v2) = <<b>>
<1>1. Len(v2) = 2 /\ v2 # <<>> /\ v2[2] = a
  OBVIOUS
<1>2. Unwound!Top = a
  BY <1>1 DEF Unwound!Top
<1>3. [v2 EXCEPT ![2].pc = @ + 1] = <<b, Ahead(a)>>
  BY DEF Ahead
<1>4. Unwound!Front(v2) = <<b>>
  <2>1. <<b, a>> \in Seq({b, a}) /\ <<b>> \in Seq({b, a})
    OBVIOUS
  <2>2. /\ Len(<<b, a>>) = Len(<<b>>) + 1
        /\ \A k \in 1..Len(<<b>>) : <<b, a>>[k] = <<b>>[k]
    OBVIOUS
  <2> QED
    BY <2>1, <2>2, WithoutLast
<1>5. ASSUME NEW p PROVE [v2 EXCEPT ![2].pc = p] = <<b, Gone(a, p)>>
  BY DEF Gone
<1>6. ASSUME NEW d PROVE [v2 EXCEPT ![2].defers = d] = <<b, With(a, d)>>
  BY DEF With
<1> QED
  BY <1>1, <1>2, <1>3, <1>4, <1>5, <1>6 DEF Unwound!Stepped

LEMMA ThreeFrames ==
  ASSUME NEW c, NEW b, NEW a, v2 = <<c, b, a>>
  PROVE  /\ v2 # <<>> /\ Unwound!Top = a /\ Len(v2) = 3
         /\ Unwound!Stepped = <<c, b, Ahead(a)>>
         /\ \A p : [v2 EXCEPT ![Len(v2)].pc = p] = <<c, b, Gone(a, p)>>
         /\ \A d : [v2 EXCEPT ![Len(v2)].defers = d] = <<c, b, With(a, d)>>
         /\ Unwound!Front(v2) = <<c, b>>
<1>1. Len(v2) = 3 /\ v2 # <<>> /\ v2[3] = a
  OBVIOUS
<1>2. Unwound!Top = a
  BY <1>1 DEF Unwound!Top
<1>3. [v2 EXCEPT ![3].pc = @ + 1] = <<c, b, Ahead(a)>>
  BY DEF Ahead
<1>4. Unwound!Front(v2) = <<c, b>>
  <2>1. <<c, b, a>> \in Seq({c, b, a}) /\ <<c, b>> \in Seq({c, b, a})
    OBVIOUS
  <2>2. /\ Len(<<c, b, a>>) = Len(<<c, b>>) + 1
        /\ \A k \in 1..Len(<<c, b>>) : <<c, b, a>>[k] = <<c, b>>[k]
    OBVIOUS
  <2> QED
    BY <2>1, <2>2, WithoutLast
<1>5. ASSUME NEW p PROVE [v2 EXCEPT ![3].pc = p] = <<c, b, Gone(a, p)>>
  BY DEF Gone
<1>6. ASSUME NEW d PROVE [v2 EXCEPT ![3].defers = d] = <<c, b, With(a, d)>>
  BY DEF With
<1> QED
  BY <1>1, <1>2, <1>3, <1>4, <1>5, <1>6 DEF Unwound!Stepped

\* A frame that has not come to its end takes the step of its statement.
LEMMA TheStatement ==
  ASSUME Unwound!Next, v2 # <<>>, NEW a, Unwound!Top = a,
         NEW op, NEW x, Does(op, x, a.f, a.pc)
  PROVE  /\ op = "print" => Unwound!Say
         /\ op = "defer" => Unwound!Defer
         /\ op = "inc" => Unwound!Increment
         /\ op = "call" => Unwound!Call
         /\ op = "panic" => Unwound!Panic
         /\ op = "recover" => Unwound!Recover
         /\ Unwound!Arg = x
<1>1. PICK f, p : f = a.f /\ p = a.pc /\ f = Unwound!Top.f /\ p = Unwound!Top.pc
  OBVIOUS
<1>2. /\ Unwound!Bodies[Unwound!Top.f][Unwound!Top.pc] = [op |-> op, x |-> x]
      /\ Unwound!Top.pc < Unwound!End(Unwound!Top.f)
  BY <1>1 DEF Does
<1>3. \A o : Unwound!At(o) => o = op
  BY <1>2 DEF Unwound!At
<1>4. Unwound!Top.pc # Unwound!End(Unwound!Top.f)
  <2>1. PICK e : e = Unwound!End(f)
    OBVIOUS
  <2>2. p \in Nat /\ p < e
    BY <1>1, <2>1 DEF Does
  <2>3. p # e
    BY <2>2
  <2> QED
    BY <1>1, <2>1, <2>3
<1>5. ~Unwound!RunDeferred /\ ~Unwound!Leave /\ ~Unwound!Terminated
  BY <1>4 DEF Unwound!RunDeferred, Unwound!Leave, Unwound!Terminated, Unwound!Exited
<1>6. /\ Unwound!Say => op = "print"
      /\ Unwound!Defer => op = "defer"
      /\ Unwound!Increment => op = "inc"
      /\ Unwound!Call => op = "call"
      /\ Unwound!Panic => op = "panic"
      /\ Unwound!Recover => op = "recover"
  BY <1>3 DEF Unwound!Say, Unwound!Defer, Unwound!Increment, Unwound!Call, Unwound!Panic,
     Unwound!Recover
<1>7. Unwound!Arg = x
  BY <1>2 DEF Unwound!Arg
<1> QED
  BY <1>5, <1>6, <1>7 DEF Unwound!Next

\* A frame at its end runs a deferred call, or is left.
LEMMA TheEnd ==
  ASSUME Unwound!Next, v2 # <<>>, NEW a, Unwound!Top = a,
         a.pc \in Nat, a.pc = Unwound!End(a.f)
  PROVE  /\ a.defers # <<>> => Unwound!RunDeferred
         /\ a.defers = <<>> => Unwound!Leave
<1>1. PICK f, p : f = a.f /\ p = a.pc /\ f = Unwound!Top.f /\ p = Unwound!Top.pc
                /\ p = Unwound!End(f) /\ p \in Nat
  OBVIOUS
<1>2. \A o : ~Unwound!At(o)
  <2>1. ~(p < p)
    BY <1>1
  <2> QED
    BY <1>1, <2>1 DEF Unwound!At
<1>3. /\ ~Unwound!Say /\ ~Unwound!Defer /\ ~Unwound!Increment
      /\ ~Unwound!Call /\ ~Unwound!Panic /\ ~Unwound!Recover
  BY <1>2 DEF Unwound!Say, Unwound!Defer, Unwound!Increment, Unwound!Call, Unwound!Panic,
     Unwound!Recover
<1>4. ~Unwound!Terminated
  BY DEF Unwound!Terminated, Unwound!Exited
<1>5. (Unwound!RunDeferred => a.defers # <<>>) /\ (Unwound!Leave => a.defers = <<>>)
  BY <1>1 DEF Unwound!RunDeferred, Unwound!Leave
<1> QED
  BY <1>3, <1>4, <1>5 DEF Unwound!Next

\* Nothing happens after main has been left.
LEMMA Exit ==
  ASSUME Unwound!Next, v2 = <<>>
  PROVE  v1' = v1 /\ v2' = v2 /\ v3' = v3 /\ v4' = v4 /\ v5' = v5
<1>1. \A o : ~Unwound!At(o)
  BY DEF Unwound!At
<1>2. Unwound!Terminated
  BY <1>1 DEF Unwound!Next, Unwound!Say, Unwound!Defer, Unwound!Increment, Unwound!Call,
     Unwound!Panic, Unwound!Recover, Unwound!RunDeferred, Unwound!Leave
<1>3. UNCHANGED <<v1, v2, v3, v4, v5>>
  BY <1>2 DEF Unwound!Terminated, Unwound!vars
<1> QED
  BY <1>3

\* What each statement does to a stack with the frame a on top.
LEMMA Prints ==
  ASSUME Unwound!Next, v2 # <<>>, NEW a, Unwound!Top = a, NEW x, Does("print", x, a.f, a.pc)
  PROVE  /\ v1' = v1 /\ v3' = v3 /\ v4' = v4 /\ v5' = Append(v5, x)
         /\ v2' = Unwound!Stepped
<1>1. PICK op, arg : op = "print" /\ arg = Unwound!Arg
  OBVIOUS
<1>2. Unwound!Say /\ arg = x
  BY <1>1, TheStatement
<1> QED
  BY <1>1, <1>2 DEF Unwound!Say

\* A call is deferred with its argument.
LEMMA Defers ==
  ASSUME Unwound!Next, NEW a, v2 = <<a>>, NEW x, Does("defer", x, a.f, a.pc)
  PROVE  /\ v1' = v1 /\ v3' = v3 /\ v4' = v4 /\ v5' = v5
         /\ v2' = <<With(Ahead(a), Append(a.defers, Unwound!Argument(x)))>>
<1>1. PICK op, arg : op = "defer" /\ arg = Unwound!Arg
  OBVIOUS
<1>2. v2 # <<>> /\ Unwound!Top = a /\ Len(v2) = 1 /\ Unwound!Stepped = <<Ahead(a)>>
  BY OneFrame
<1>3. Unwound!Defer /\ arg = x
  BY <1>1, <1>2, TheStatement
<1>4. /\ v1' = v1 /\ v3' = v3 /\ v4' = v4 /\ v5' = v5
      /\ v2' = [<<Ahead(a)>> EXCEPT ![1].defers = Append(@, Unwound!Argument(x))]
  BY <1>1, <1>2, <1>3 DEF Unwound!Defer
<1>5. Ahead(a).defers = a.defers
  BY DEF Ahead
<1>6. PICK b : b = Ahead(a)
  OBVIOUS
<1>7. [<<b>> EXCEPT ![1].defers = Append(@, Unwound!Argument(x))]
        = <<With(b, Append(b.defers, Unwound!Argument(x)))>>
  BY DEF With
<1> QED
  BY <1>4, <1>5, <1>6, <1>7

\* The loop goes on.
LEMMA Increments ==
  ASSUME Unwound!Next, v2 # <<>>, NEW a, Unwound!Top = a, NEW x, Does("inc", x, a.f, a.pc)
  PROVE  /\ v1' = v1 /\ v3' = v3 + 1 /\ v4' = v4 /\ v5' = v5
         /\ v2' = Unwound!Stepped
<1>1. PICK op, arg : op = "inc" /\ arg = Unwound!Arg
  OBVIOUS
<1>2. Unwound!Increment /\ arg = x
  BY <1>1, TheStatement
<1> QED
  BY <1>1, <1>2 DEF Unwound!Increment

\* A function is called.
LEMMA Calls ==
  ASSUME Unwound!Next, v2 # <<>>, NEW a, Unwound!Top = a, NEW x, Does("call", x, a.f, a.pc)
  PROVE  /\ v1' = v1 /\ v3' = v3 /\ v4' = v4 /\ v5' = v5
         /\ v2' = Append(Unwound!Stepped, At(x, 1, <<>>))
<1>1. PICK op, arg : op = "call" /\ arg = Unwound!Arg
  OBVIOUS
<1>2. Unwound!Call /\ arg = x
  BY <1>1, TheStatement
<1>3. At(x, 1, <<>>) = Unwound!Frame(x, FALSE)
  BY DEF At, Unwound!Frame
<1> QED
  BY <1>1, <1>2, <1>3 DEF Unwound!Call

\* A panic takes the frame to its end.
LEMMA Panics ==
  ASSUME Unwound!Next, v2 # <<>>, NEW a, Unwound!Top = a, NEW x, Does("panic", x, a.f, a.pc)
  PROVE  /\ v1' = v1 /\ v3' = v3 /\ v4' = TRUE /\ v5' = v5
         /\ v2' = [v2 EXCEPT ![Len(v2)].pc = Unwound!End(Unwound!Top.f)]
<1>1. PICK op, arg : op = "panic" /\ arg = Unwound!Arg
  OBVIOUS
<1>2. Unwound!Panic /\ arg = x
  BY <1>1, TheStatement
<1> QED
  BY <1>1, <1>2 DEF Unwound!Panic

\* A recover finds the panic in a deferred function only.
LEMMA RecoverFinds ==
  ASSUME Unwound!Next, v2 # <<>>, NEW a, Unwound!Top = a,
         NEW x, Does("recover", x, a.f, a.pc), v4 \in BOOLEAN
  PROVE  /\ v1' = v1 /\ v2' = Unwound!Stepped
         /\ a.by = FALSE => v4' = v4 /\ v5' = Append(v5, "no_panic")
         /\ a.by = TRUE /\ v4 = TRUE => v4' = FALSE /\ v5' = Append(v5, "panic")
<1>1. Unwound!Recover
  BY TheStatement
<1>2. v1' = v1 /\ v2' = Unwound!Stepped
  BY <1>1 DEF Unwound!Recover
<1>3. ASSUME a.by = FALSE
      PROVE  v4' = v4 /\ v5' = Append(v5, "no_panic")
  BY <1>1, <1>3 DEF Unwound!Recover
<1>4. ASSUME a.by = TRUE, v4 = TRUE
      PROVE  v4' = FALSE /\ v5' = Append(v5, "panic")
  BY <1>1, <1>4 DEF Unwound!Recover
<1> QED
  BY <1>2, <1>3, <1>4

\* A deferred call is a print, or the function, which sees the panic.
LEMMA DeferredRuns ==
  ASSUME Unwound!Next, v2 # <<>>, NEW a, Unwound!Top = a,
         a.pc \in Nat, a.pc = Unwound!End(a.f),
         NEW d, a.defers = d, d # <<>>,
         NEW left, Unwound!RemoveAt(d, Len(d)) = left, NEW x, d[Len(d)] = x
  PROVE  /\ v1' = v1 /\ v3' = v3 /\ v4' = v4
         /\ x # "func" =>
              v2' = [v2 EXCEPT ![Len(v2)].defers = left] /\ v5' = Append(v5, x)
         /\ x = "func" =>
              /\ v2' = Append([v2 EXCEPT ![Len(v2)].defers = left], Unwound!Frame("func", v4))
              /\ v5' = v5
<1>1. Unwound!RunDeferred
  BY TheEnd
<1>2. d = Unwound!Top.defers
  OBVIOUS
<1>4. Unwound!LastDeferred(d) = Len(d)
  BY DEF Unwound!LastDeferred
<1>5. [v2 EXCEPT ![Len(v2)].defers = Unwound!RemoveAt(@, Len(d))]
        = [v2 EXCEPT ![Len(v2)].defers = left]
  BY <1>2 DEF Unwound!Top
<1>6. v1' = v1 /\ v3' = v3 /\ v4' = v4
  BY <1>1 DEF Unwound!RunDeferred
<1>7. /\ x # "func" =>
           v2' = [v2 EXCEPT ![Len(v2)].defers = Unwound!RemoveAt(@, Len(d))] /\ v5' = Append(v5, x)
      /\ x = "func" =>
           /\ v2' = Append([v2 EXCEPT ![Len(v2)].defers = Unwound!RemoveAt(@, Len(d))],
                           Unwound!Frame("func", v4))
           /\ v5' = v5
  BY <1>1, <1>2, <1>4 DEF Unwound!RunDeferred
<1> QED
  BY <1>5, <1>6, <1>7

\* A frame without a deferred call is left; a panic ends the one below.
LEMMA FrameIsLeft ==
  ASSUME Unwound!Next, v2 # <<>>, NEW a, Unwound!Top = a,
         a.pc \in Nat, a.pc = Unwound!End(a.f), a.defers = <<>>
  PROVE  /\ v1' = v1 /\ v3' = v3 /\ v4' = v4 /\ v5' = v5
         /\ v4 = FALSE \/ Len(v2) = 1 => v2' = Unwound!Front(v2)
         /\ \A m : v4 = TRUE /\ m = Len(v2) - 1 /\ m > 0 =>
              v2' = [Unwound!Front(v2) EXCEPT ![m].pc = Unwound!End(v2[m].f)]
<1>1. Unwound!Leave
  BY TheEnd
<1>2. v1' = v1 /\ v3' = v3 /\ v4' = v4 /\ v5' = v5
  BY <1>1 DEF Unwound!Leave
<1>3. ASSUME v4 = FALSE \/ Len(v2) = 1 PROVE v2' = Unwound!Front(v2)
  <2>1. ~(v4 /\ Len(v2) - 1 > 0)
    <3>1. PICK n : n = Len(v2)
      OBVIOUS
    <3>2. n = 1 => ~(n - 1 > 0)
      OBVIOUS
    <3> QED
      BY <1>3, <3>1, <3>2
  <2> QED
    BY <1>1, <2>1 DEF Unwound!Leave
<1>4. ASSUME NEW m, v4 = TRUE, m = Len(v2) - 1, m > 0
      PROVE  v2' = [Unwound!Front(v2) EXCEPT ![m].pc = Unwound!End(v2[m].f)]
  BY <1>1, <1>4 DEF Unwound!Leave
<1> QED
  BY <1>2, <1>3, <1>4

\* The calls kept when x is deferred, too.
Keeps(x, d, kept) == kept = Append(d, Unwound!Argument(x))

\* What a step does to the other variables.
Silent == v1' = v1 /\ v3' = v3 /\ v4' = v4 /\ v5' = v5
Outputs(x) == v1' = v1 /\ v3' = v3 /\ v4' = v4 /\ v5' = Append(v5, x)
Panicked == v1' = v1 /\ v3' = v3 /\ v4' = TRUE /\ v5' = v5
Recovered(x) == v1' = v1 /\ v4' = FALSE /\ v5' = Append(v5, x)

\* A print, a print in the deferred function, and a call.
LEMMA PrintAt ==
  ASSUME Unwound!Next, NEW f, NEW d, NEW p \in Nat, NEW x, Does("print", x, f, p)
  PROVE  /\ v2 = <<At(f, p, d)>> => v2' = <<At(f, p + 1, d)>> /\ Outputs(x)
         /\ \A b : v2 = <<b, At(f, p, d)>> => v2' = <<b, At(f, p + 1, d)>> /\ Outputs(x)
         /\ \A c, b : v2 = <<c, b, At(f, p, d)>> => v2' = <<c, b, At(f, p + 1, d)>> /\ Outputs(x)
<1>1. PICK a : a = At(f, p, d)
  OBVIOUS
<1>2. Ahead(a) = At(f, p + 1, d)
  BY <1>1, FrameChanges
<1>3. Does("print", x, a.f, a.pc)
  BY <1>1, FrameFields
<1>4. ASSUME v2 = <<At(f, p, d)>>
      PROVE  v2' = <<At(f, p + 1, d)>> /\ Outputs(x)
  <2>1. v2 = <<a>>
    BY <1>1, <1>4
  <2>2. v2 # <<>> /\ Unwound!Top = a /\ Unwound!Stepped = <<Ahead(a)>>
    BY <2>1, OneFrame
  <2> QED
    BY <1>2, <1>3, <2>2, Prints DEF Outputs
<1>5. ASSUME NEW b, v2 = <<b, At(f, p, d)>>
      PROVE  v2' = <<b, At(f, p + 1, d)>> /\ Outputs(x)
  <2>1. v2 = <<b, a>>
    BY <1>1, <1>5
  <2>2. v2 # <<>> /\ Unwound!Top = a /\ Unwound!Stepped = <<b, Ahead(a)>>
    BY <2>1, TwoFrames
  <2> QED
    BY <1>2, <1>3, <2>2, Prints DEF Outputs
<1>6. ASSUME NEW c, NEW b, v2 = <<c, b, At(f, p, d)>>
      PROVE  v2' = <<c, b, At(f, p + 1, d)>> /\ Outputs(x)
  <2>1. v2 = <<c, b, a>>
    BY <1>1, <1>6
  <2>2. v2 # <<>> /\ Unwound!Top = a /\ Unwound!Stepped = <<c, b, Ahead(a)>>
    BY <2>1, ThreeFrames
  <2> QED
    BY <1>2, <1>3, <2>2, Prints DEF Outputs
<1> QED
  BY <1>4, <1>5, <1>6

LEMMA PrintRescue ==
  ASSUME Unwound!Next, NEW p \in Nat, NEW x, Does("print", x, "func", p)
  PROVE  /\ \A b : v2 = <<b, Rescue(p)>> => v2' = <<b, Rescue(p + 1)>> /\ Outputs(x)
<1>1. PICK a : a = Rescue(p)
  OBVIOUS
<1>2. Ahead(a) = Rescue(p + 1)
  BY <1>1, RescueFields
<1>3. Does("print", x, a.f, a.pc)
  BY <1>1, RescueFields
<1>4. ASSUME NEW b, v2 = <<b, Rescue(p)>>
      PROVE  v2' = <<b, Rescue(p + 1)>> /\ Outputs(x)
  <2>1. v2 = <<b, a>>
    BY <1>1, <1>4
  <2>2. v2 # <<>> /\ Unwound!Top = a /\ Unwound!Stepped = <<b, Ahead(a)>>
    BY <2>1, TwoFrames
  <2> QED
    BY <1>2, <1>3, <2>2, Prints DEF Outputs
<1> QED
  BY <1>4

\* The loop goes on.
LEMMA IncrementAt ==
  ASSUME Unwound!Next, NEW f, NEW d, NEW p \in Nat, NEW x, Does("inc", x, f, p)
  PROVE  /\ v2 = <<At(f, p, d)>> =>
              v2' = <<At(f, p + 1, d)>> /\ v1' = v1 /\ v3' = v3 + 1 /\ v4' = v4 /\ v5' = v5
<1>1. PICK a : a = At(f, p, d)
  OBVIOUS
<1>2. Ahead(a) = At(f, p + 1, d)
  BY <1>1, FrameChanges
<1>3. Does("inc", x, a.f, a.pc)
  BY <1>1, FrameFields
<1>4. ASSUME v2 = <<At(f, p, d)>>
      PROVE  v2' = <<At(f, p + 1, d)>> /\ v1' = v1 /\ v3' = v3 + 1 /\ v4' = v4 /\ v5' = v5
  <2>1. v2 = <<a>>
    BY <1>1, <1>4
  <2>2. v2 # <<>> /\ Unwound!Top = a /\ Unwound!Stepped = <<Ahead(a)>>
    BY <2>1, OneFrame
  <2> QED
    BY <1>2, <1>3, <2>2, Increments
<1> QED
  BY <1>4

\* A call.
LEMMA CallAt ==
  ASSUME Unwound!Next, NEW f, NEW d, NEW p \in Nat, NEW x, Does("call", x, f, p)
  PROVE  /\ v2 = <<At(f, p, d)>> => v2' = <<At(f, p + 1, d), At(x, 1, <<>>)>> /\ Silent
         /\ \A b : v2 = <<b, At(f, p, d)>> => v2' = <<b, At(f, p + 1, d), At(x, 1, <<>>)>> /\ Silent
<1>1. PICK a : a = At(f, p, d)
  OBVIOUS
<1>2. Ahead(a) = At(f, p + 1, d)
  BY <1>1, FrameChanges
<1>3. Does("call", x, a.f, a.pc)
  BY <1>1, FrameFields
<1>4. ASSUME v2 = <<At(f, p, d)>>
      PROVE  v2' = <<At(f, p + 1, d), At(x, 1, <<>>)>> /\ Silent
  <2>1. v2 = <<a>>
    BY <1>1, <1>4
  <2>2. v2 # <<>> /\ Unwound!Top = a /\ Unwound!Stepped = <<Ahead(a)>>
    BY <2>1, OneFrame
  <2>3. v2' = Append(<<At(f, p + 1, d)>>, At(x, 1, <<>>)) /\ Silent
    BY <1>2, <1>3, <2>2, Calls DEF Silent
  <2> QED
    BY <2>3, TupleAppend
<1>5. ASSUME NEW b, v2 = <<b, At(f, p, d)>>
      PROVE  v2' = <<b, At(f, p + 1, d), At(x, 1, <<>>)>> /\ Silent
  <2>1. v2 = <<b, a>>
    BY <1>1, <1>5
  <2>2. v2 # <<>> /\ Unwound!Top = a /\ Unwound!Stepped = <<b, Ahead(a)>>
    BY <2>1, TwoFrames
  <2>3. v2' = Append(<<b, At(f, p + 1, d)>>, At(x, 1, <<>>)) /\ Silent
    BY <1>2, <1>3, <2>2, Calls DEF Silent
  <2> QED
    BY <2>3, TupleAppend
<1> QED
  BY <1>4, <1>5

\* A panic takes its function to the end.
LEMMA PanicAt ==
  ASSUME Unwound!Next, NEW f, NEW d, NEW p \in Nat, NEW e \in Nat, Unwound!End(f) = e, NEW x,
         Does("panic", x, f, p)
  PROVE  /\ v2 = <<At(f, p, d)>> => v2' = <<At(f, e, d)>> /\ Panicked
         /\ \A c, b : v2 = <<c, b, At(f, p, d)>> => v2' = <<c, b, At(f, e, d)>> /\ Panicked
<1>1. PICK a : a = At(f, p, d)
  OBVIOUS
<1>2. Gone(a, e) = At(f, e, d)
  BY <1>1, FrameChanges
<1>3. a.f = f /\ Does("panic", x, a.f, a.pc)
  <2>1. a.f = f /\ a.pc = p
    BY <1>1, FrameFields
  <2> QED
    BY <2>1
<1>4. ASSUME v2 = <<At(f, p, d)>>
      PROVE  v2' = <<At(f, e, d)>> /\ Panicked
  <2>1. v2 = <<a>>
    BY <1>1, <1>4
  <2>2. /\ v2 # <<>> /\ Unwound!Top = a
        /\ [v2 EXCEPT ![Len(v2)].pc = e] = <<At(f, e, d)>>
    BY <1>2, <2>1, OneFrame
  <2>3. Unwound!End(Unwound!Top.f) = e
    BY <1>3, <2>2
  <2> QED
    BY <1>3, <2>2, <2>3, Panics DEF Panicked
<1>5. ASSUME NEW c, NEW b, v2 = <<c, b, At(f, p, d)>>
      PROVE  v2' = <<c, b, At(f, e, d)>> /\ Panicked
  <2>1. v2 = <<c, b, a>>
    BY <1>1, <1>5
  <2>2. /\ v2 # <<>> /\ Unwound!Top = a
        /\ [v2 EXCEPT ![Len(v2)].pc = e] = <<c, b, At(f, e, d)>>
    BY <1>2, <2>1, ThreeFrames
  <2>3. Unwound!End(Unwound!Top.f) = e
    BY <1>3, <2>2
  <2> QED
    BY <1>3, <2>2, <2>3, Panics DEF Panicked
<1> QED
  BY <1>4, <1>5

\* A recover in the function that panics finds no panic; in the deferred function it
\* ends the panic.
LEMMA RecoverAt ==
  ASSUME Unwound!Next, NEW f, NEW d, NEW p \in Nat, NEW x, Does("recover", x, f, p)
  PROVE  v4 = FALSE /\ v2 = <<At(f, p, d)>> =>
           v2' = <<At(f, p + 1, d)>> /\ Recovered("no_panic")
<1> SUFFICES ASSUME v4 = FALSE, v2 = <<At(f, p, d)>>
             PROVE  v2' = <<At(f, p + 1, d)>> /\ Recovered("no_panic")
  OBVIOUS
<1>1. PICK a : a = At(f, p, d)
  OBVIOUS
<1>2. Ahead(a) = At(f, p + 1, d) /\ a.by = FALSE
  BY <1>1, FrameChanges, FrameBy
<1>3. Does("recover", x, a.f, a.pc)
  BY <1>1, FrameFields
<1>4. v2 = <<a>>
  BY <1>1
<1>5. v2 # <<>> /\ Unwound!Top = a /\ Unwound!Stepped = <<Ahead(a)>>
  BY <1>4, OneFrame
<1>6. v4 \in BOOLEAN
  OBVIOUS
<1> QED
  BY <1>2, <1>3, <1>5, <1>6, RecoverFinds DEF Recovered

LEMMA RecoverRescue ==
  ASSUME Unwound!Next, NEW p \in Nat, NEW x, Does("recover", x, "func", p),
         NEW b, v2 = <<b, Rescue(p)>>, v4 = TRUE
  PROVE  v2' = <<b, Rescue(p + 1)>> /\ Recovered("panic")
<1>1. PICK a : a = Rescue(p)
  OBVIOUS
<1>2. Ahead(a) = Rescue(p + 1) /\ a.by = TRUE
  BY <1>1, RescueFields, FrameBy
<1>3. Does("recover", x, a.f, a.pc)
  BY <1>1, RescueFields
<1>4. v2 = <<b, a>>
  BY <1>1
<1>5. v2 # <<>> /\ Unwound!Top = a /\ Unwound!Stepped = <<b, Ahead(a)>>
  BY <1>4, TwoFrames
<1>6. v4 \in BOOLEAN
  OBVIOUS
<1> QED
  BY <1>2, <1>3, <1>5, <1>6, RecoverFinds DEF Recovered

\* A call is deferred with the argument as it is now.
LEMMA DeferAt ==
  ASSUME Unwound!Next, NEW f, NEW d, NEW p \in Nat, NEW x, Does("defer", x, f, p),
         NEW kept, Keeps(x, d, kept)
  PROVE  v2 = <<At(f, p, d)>> => v2' = <<At(f, p + 1, kept)>> /\ Silent
<1> SUFFICES ASSUME v2 = <<At(f, p, d)>>
             PROVE  v2' = <<At(f, p + 1, kept)>> /\ Silent
  OBVIOUS
<1>1. PICK a, b : a = At(f, p, d) /\ b = At(f, p + 1, d)
  OBVIOUS
<1>2. a.defers = d /\ a.f = f /\ a.pc = p
  BY <1>1, FrameFields
<1>3. Ahead(a) = b /\ With(b, kept) = At(f, p + 1, kept)
  <2>1. a = At(f, p, d) /\ b = At(f, p + 1, d) /\ p + 1 \in Nat
    BY <1>1
  <2>2. Ahead(a) = b
    BY <2>1, FrameChanges
  <2>3. With(b, kept) = At(f, p + 1, kept)
    BY <2>1, FrameChanges
  <2> QED
    BY <2>2, <2>3
<1>4. v2 = <<a>> /\ Does("defer", x, a.f, a.pc)
  BY <1>1, <1>2
<1>5. v2' = <<With(Ahead(a), Append(a.defers, Unwound!Argument(x)))>> /\ Silent
  BY <1>4, Defers DEF Silent
<1> QED
  BY <1>2, <1>3, <1>5 DEF Keeps

\* What is left of the calls to run.
Deferrable == {"first", "0", "1", "2", "last", "func"}
Remains(d, left, x) ==
  /\ d # <<>> /\ d[Len(d)] = x
  /\ Unwound!RemoveAt(d, Len(d)) = left

LEMMA RunAt ==
  ASSUME Unwound!Next, NEW f, NEW d, NEW p \in Nat, Unwound!End(f) = p, v2 = <<At(f, p, d)>>,
         NEW left, NEW x, Remains(d, left, x)
  PROVE  /\ x # "func" => v2' = <<At(f, p, left)>> /\ Outputs(x)
         /\ x = "func" => v2' = <<At(f, p, left), Unwound!Frame("func", v4)>> /\ Silent
<1>1. PICK a : a = At(f, p, d)
  OBVIOUS
<1>2. a.defers = d /\ a.pc = Unwound!End(a.f) /\ a.pc \in Nat
  BY <1>1, FrameFields
<1>3. With(a, left) = At(f, p, left)
  BY <1>1, FrameChanges
<1>4. v2 = <<a>>
  BY <1>1
<1>5. v2 # <<>> /\ Unwound!Top = a /\ [v2 EXCEPT ![Len(v2)].defers = left] = <<At(f, p, left)>>
  BY <1>3, <1>4, OneFrame
<1>6. ASSUME x # "func" PROVE v2' = <<At(f, p, left)>> /\ Outputs(x)
  BY <1>2, <1>5, <1>6, DeferredRuns DEF Remains, Outputs
<1>7. ASSUME x = "func" PROVE v2' = <<At(f, p, left), Unwound!Frame("func", v4)>> /\ Silent
  <2>1. v2' = Append(<<At(f, p, left)>>, Unwound!Frame("func", v4)) /\ Silent
    BY <1>2, <1>5, <1>7, DeferredRuns DEF Remains, Silent
  <2> QED
    BY <2>1, TupleAppend
<1> QED
  BY <1>6, <1>7

\* A frame is left without a panic, or it is the last one.
LEMMA LeaveAt ==
  ASSUME Unwound!Next, NEW f, NEW p \in Nat, Unwound!End(f) = p, v2 = <<At(f, p, <<>>)>>
  PROVE  v2' = <<>> /\ Silent
<1>1. PICK a : a = At(f, p, <<>>)
  OBVIOUS
<1>2. a.defers = <<>> /\ a.pc = Unwound!End(a.f) /\ a.pc \in Nat
  BY <1>1, FrameFields
<1>3. v2 = <<a>>
  BY <1>1
<1>4. v2 # <<>> /\ Unwound!Top = a /\ Len(v2) = 1 /\ Unwound!Front(v2) = <<>>
  BY <1>3, OneFrame
<1> QED
  BY <1>2, <1>4, FrameIsLeft DEF Silent

LEMMA LeaveRescue ==
  ASSUME Unwound!Next, NEW p \in Nat, Unwound!End("func") = p, v4 = FALSE,
         NEW b, v2 = <<b, Rescue(p)>>
  PROVE  v2' = <<b>> /\ Silent
<1>1. PICK a : a = Rescue(p)
  OBVIOUS
<1>2. a.defers = <<>> /\ a.pc = Unwound!End(a.f) /\ a.pc \in Nat
  BY <1>1, RescueFields
<1>3. v2 = <<b, a>>
  BY <1>1
<1>4. v2 # <<>> /\ Unwound!Top = a /\ Unwound!Front(v2) = <<b>>
  BY <1>3, TwoFrames
<1> QED
  BY <1>2, <1>4, FrameIsLeft DEF Silent

\* The panic takes the frame below to its end.
LEMMA LeavePanicking ==
  ASSUME Unwound!Next, v4 = TRUE, NEW f, NEW p \in Nat, Unwound!End(f) = p,
         NEW g, NEW q \in Nat, NEW d, NEW e \in Nat, Unwound!End(g) = e
  PROVE  /\ v2 = <<At(g, q, d), At(f, p, <<>>)>> => v2' = <<At(g, e, d)>> /\ Silent
         /\ \A c : v2 = <<c, At(g, q, d), At(f, p, <<>>)>> => v2' = <<c, At(g, e, d)>> /\ Silent
<1>1. PICK a, b : a = At(f, p, <<>>) /\ b = At(g, q, d)
  OBVIOUS
<1>2. a.defers = <<>> /\ a.pc = Unwound!End(a.f) /\ a.pc \in Nat
  <2>1. a = At(f, p, <<>>)
    BY <1>1
  <2>2. a.defers = <<>> /\ a.pc = p /\ a.f = f
    BY <2>1, FrameFields
  <2> QED
    BY <2>2
<1>3. b.f = g /\ Gone(b, e) = At(g, e, d)
  <2>1. b = At(g, q, d)
    BY <1>1
  <2>2. b.f = g
    BY <2>1, FrameFields
  <2>3. Gone(b, e) = At(g, e, d)
    BY <2>1, FrameChanges
  <2> QED
    BY <2>2, <2>3
<1>4. ASSUME v2 = <<At(g, q, d), At(f, p, <<>>)>>
      PROVE  v2' = <<At(g, e, d)>> /\ Silent
  <2>1. v2 = <<b, a>>
    BY <1>1, <1>4
  <2>2. v2 # <<>> /\ Unwound!Top = a /\ Len(v2) = 2 /\ Unwound!Front(v2) = <<b>> /\ v2[1] = b
    BY <2>1, TwoFrames
  <2>3. PICK m : m = 1
    OBVIOUS
  <2>4. m = Len(v2) - 1 /\ m > 0
    BY <2>2, <2>3
  <2>5. v2' = [Unwound!Front(v2) EXCEPT ![m].pc = Unwound!End(v2[m].f)] /\ Silent
    BY <1>2, <2>2, <2>4, FrameIsLeft DEF Silent
  <2>6. v2' = [<<b>> EXCEPT ![1].pc = e]
    BY <1>3, <2>2, <2>3, <2>5
  <2>7. v2' = <<Gone(b, e)>>
    BY <2>6 DEF Gone
  <2> QED
    BY <1>3, <2>5, <2>7
<1>5. ASSUME NEW c, v2 = <<c, At(g, q, d), At(f, p, <<>>)>>
      PROVE  v2' = <<c, At(g, e, d)>> /\ Silent
  <2>1. v2 = <<c, b, a>>
    BY <1>1, <1>5
  <2>2. v2 # <<>> /\ Unwound!Top = a /\ Len(v2) = 3 /\ Unwound!Front(v2) = <<c, b>> /\ v2[2] = b
    BY <2>1, ThreeFrames
  <2>3. PICK m : m = 2
    OBVIOUS
  <2>4. m = Len(v2) - 1 /\ m > 0
    BY <2>2, <2>3
  <2>5. v2' = [Unwound!Front(v2) EXCEPT ![m].pc = Unwound!End(v2[m].f)] /\ Silent
    BY <1>2, <2>2, <2>4, FrameIsLeft DEF Silent
  <2>6. v2' = [<<c, b>> EXCEPT ![2].pc = e]
    BY <1>3, <2>2, <2>3, <2>5
  <2>7. v2' = <<c, Gone(b, e)>>
    BY <2>6 DEF Gone
  <2> QED
    BY <1>3, <2>5, <2>7
<1> QED
  BY <1>4, <1>5

LEMMA Remaining ==
  /\ Remains(<<"func">>, <<>>, "func")
  /\ Remains(<<"first">>, <<>>, "first")
  /\ Remains(<<"first", "0">>, <<"first">>, "0")
  /\ Remains(<<"first", "0", "1">>, <<"first", "0">>, "1")
  /\ Remains(<<"first", "0", "1", "2">>, <<"first", "0", "1">>, "2")
  /\ Remains(<<"first", "0", "1", "2", "last">>, <<"first", "0", "1", "2">>, "last")
<1>1. Remains(<<"func">>, <<>>, "func")
  <2>1. PICK d, left : d = <<"func">> /\ left = <<>>
    OBVIOUS
  <2>2. /\ d \in Seq(Deferrable) /\ left \in Seq(Deferrable)
        /\ Len(d) = Len(left) + 1 /\ d # <<>>
    BY <2>1 DEF Deferrable
  <2>3. (\A k \in 1..Len(left) : d[k] = left[k]) /\ d[Len(d)] = "func"
    BY <2>1
  <2>4. Unwound!RemoveAt(d, Len(d)) = left
    BY <2>2, <2>3, WithoutLast
  <2> QED
    BY <2>1, <2>2, <2>3, <2>4 DEF Remains
<1>2. Remains(<<"first">>, <<>>, "first")
  <2>1. PICK d, left : d = <<"first">> /\ left = <<>>
    OBVIOUS
  <2>2. /\ d \in Seq(Deferrable) /\ left \in Seq(Deferrable)
        /\ Len(d) = Len(left) + 1 /\ d # <<>>
    BY <2>1 DEF Deferrable
  <2>3. (\A k \in 1..Len(left) : d[k] = left[k]) /\ d[Len(d)] = "first"
    BY <2>1
  <2>4. Unwound!RemoveAt(d, Len(d)) = left
    BY <2>2, <2>3, WithoutLast
  <2> QED
    BY <2>1, <2>2, <2>3, <2>4 DEF Remains
<1>3. Remains(<<"first", "0">>, <<"first">>, "0")
  <2>1. PICK d, left : d = <<"first", "0">> /\ left = <<"first">>
    OBVIOUS
  <2>2. /\ d \in Seq(Deferrable) /\ left \in Seq(Deferrable)
        /\ Len(d) = Len(left) + 1 /\ d # <<>>
    BY <2>1 DEF Deferrable
  <2>3. (\A k \in 1..Len(left) : d[k] = left[k]) /\ d[Len(d)] = "0"
    BY <2>1
  <2>4. Unwound!RemoveAt(d, Len(d)) = left
    BY <2>2, <2>3, WithoutLast
  <2> QED
    BY <2>1, <2>2, <2>3, <2>4 DEF Remains
<1>4. Remains(<<"first", "0", "1">>, <<"first", "0">>, "1")
  <2>1. PICK d, left : d = <<"first", "0", "1">> /\ left = <<"first", "0">>
    OBVIOUS
  <2>2. /\ d \in Seq(Deferrable) /\ left \in Seq(Deferrable)
        /\ Len(d) = Len(left) + 1 /\ d # <<>>
    BY <2>1 DEF Deferrable
  <2>3. (\A k \in 1..Len(left) : d[k] = left[k]) /\ d[Len(d)] = "1"
    BY <2>1
  <2>4. Unwound!RemoveAt(d, Len(d)) = left
    BY <2>2, <2>3, WithoutLast
  <2> QED
    BY <2>1, <2>2, <2>3, <2>4 DEF Remains
<1>5. Remains(<<"first", "0", "1", "2">>, <<"first", "0", "1">>, "2")
  <2>1. PICK d, left : d = <<"first", "0", "1", "2">> /\ left = <<"first", "0", "1">>
    OBVIOUS
  <2>2. /\ d \in Seq(Deferrable) /\ left \in Seq(Deferrable)
        /\ Len(d) = Len(left) + 1 /\ d # <<>>
    BY <2>1 DEF Deferrable
  <2>3. (\A k \in 1..Len(left) : d[k] = left[k]) /\ d[Len(d)] = "2"
    BY <2>1
  <2>4. Unwound!RemoveAt(d, Len(d)) = left
    BY <2>2, <2>3, WithoutLast
  <2> QED
    BY <2>1, <2>2, <2>3, <2>4 DEF Remains
<1>6. Remains(<<"first", "0", "1", "2", "last">>, <<"first", "0", "1", "2">>, "last")
  <2>1. PICK d, left : d = <<"first", "0", "1", "2", "last">> /\ left = <<"first", "0", "1", "2">>
    OBVIOUS
  <2>2. /\ d \in Seq(Deferrable) /\ left \in Seq(Deferrable)
        /\ Len(d) = Len(left) + 1 /\ d # <<>>
    BY <2>1 DEF Deferrable
  <2>3. (\A k \in 1..Len(left) : d[k] = left[k]) /\ d[Len(d)] = "last"
    BY <2>1
  <2>4. Unwound!RemoveAt(d, Len(d)) = left
    BY <2>2, <2>3, WithoutLast
  <2> QED
    BY <2>1, <2>2, <2>3, <2>4 DEF Remains
<1> QED
  BY <1>1, <1>2, <1>3, <1>4, <1>5, <1>6

LEMMA BodyTestDefer ==
  /\ Unwound!End("test_defer") = 9
  /\ Does("defer", "first", "test_defer", 1)
  /\ Does("defer", "i", "test_defer", 2)
  /\ Does("inc", "i", "test_defer", 3)
  /\ Does("defer", "i", "test_defer", 4)
  /\ Does("inc", "i", "test_defer", 5)
  /\ Does("defer", "i", "test_defer", 6)
  /\ Does("inc", "i", "test_defer", 7)
  /\ Does("defer", "last", "test_defer", 8)
<1>1. PICK body : body = Unwound!Bodies["test_defer"]
  OBVIOUS
<1>2. body = <<Unwound!Do("defer", "first"),
               Unwound!Do("defer", "i"),
               Unwound!Do("inc", "i"),
               Unwound!Do("defer", "i"),
               Unwound!Do("inc", "i"),
               Unwound!Do("defer", "i"),
               Unwound!Do("inc", "i"),
               Unwound!Do("defer", "last")>>
  BY <1>1 DEF Unwound!Bodies
<1>3. Len(body) = 8
  BY <1>2
<1>4. Unwound!End("test_defer") = 9
  BY <1>1, <1>3 DEF Unwound!End
<1>5. Does("defer", "first", "test_defer", 1)
  <2>1. body[1] = [op |-> "defer", x |-> "first"]
    BY <1>2 DEF Unwound!Do
  <2> QED
    BY <1>1, <1>4, <2>1 DEF Does
<1>6. Does("defer", "i", "test_defer", 2)
  <2>1. body[2] = [op |-> "defer", x |-> "i"]
    BY <1>2 DEF Unwound!Do
  <2> QED
    BY <1>1, <1>4, <2>1 DEF Does
<1>7. Does("inc", "i", "test_defer", 3)
  <2>1. body[3] = [op |-> "inc", x |-> "i"]
    BY <1>2 DEF Unwound!Do
  <2> QED
    BY <1>1, <1>4, <2>1 DEF Does
<1>8. Does("defer", "i", "test_defer", 4)
  <2>1. body[4] = [op |-> "defer", x |-> "i"]
    BY <1>2 DEF Unwound!Do
  <2> QED
    BY <1>1, <1>4, <2>1 DEF Does
<1>9. Does("inc", "i", "test_defer", 5)
  <2>1. body[5] = [op |-> "inc", x |-> "i"]
    BY <1>2 DEF Unwound!Do
  <2> QED
    BY <1>1, <1>4, <2>1 DEF Does
<1>10. Does("defer", "i", "test_defer", 6)
  <2>1. body[6] = [op |-> "defer", x |-> "i"]
    BY <1>2 DEF Unwound!Do
  <2> QED
    BY <1>1, <1>4, <2>1 DEF Does
<1>11. Does("inc", "i", "test_defer", 7)
  <2>1. body[7] = [op |-> "inc", x |-> "i"]
    BY <1>2 DEF Unwound!Do
  <2> QED
    BY <1>1, <1>4, <2>1 DEF Does
<1>12. Does("defer", "last", "test_defer", 8)
  <2>1. body[8] = [op |-> "defer", x |-> "last"]
    BY <1>2 DEF Unwound!Do
  <2> QED
    BY <1>1, <1>4, <2>1 DEF Does
<1> QED
  BY <1>4, <1>5, <1>6, <1>7, <1>8, <1>9, <1>10, <1>11, <1>12

LEMMA BodyTestPanic ==
  /\ Unwound!End("test_panic") = 4
  /\ Does("print", "enter_main", "test_panic", 1)
  /\ Does("call", "caller1", "test_panic", 2)
  /\ Does("print", "exit_main", "test_panic", 3)
<1>1. PICK body : body = Unwound!Bodies["test_panic"]
  OBVIOUS
<1>2. body = <<Unwound!Do("print", "enter_main"),
               Unwound!Do("call", "caller1"),
               Unwound!Do("print", "exit_main")>>
  BY <1>1 DEF Unwound!Bodies
<1>3. Len(body) = 3
  BY <1>2
<1>4. Unwound!End("test_panic") = 4
  BY <1>1, <1>3 DEF Unwound!End
<1>5. Does("print", "enter_main", "test_panic", 1)
  <2>1. body[1] = [op |-> "print", x |-> "enter_main"]
    BY <1>2 DEF Unwound!Do
  <2> QED
    BY <1>1, <1>4, <2>1 DEF Does
<1>6. Does("call", "caller1", "test_panic", 2)
  <2>1. body[2] = [op |-> "call", x |-> "caller1"]
    BY <1>2 DEF Unwound!Do
  <2> QED
    BY <1>1, <1>4, <2>1 DEF Does
<1>7. Does("print", "exit_main", "test_panic", 3)
  <2>1. body[3] = [op |-> "print", x |-> "exit_main"]
    BY <1>2 DEF Unwound!Do
  <2> QED
    BY <1>1, <1>4, <2>1 DEF Does
<1> QED
  BY <1>4, <1>5, <1>6, <1>7

LEMMA BodyCaller1 ==
  /\ Unwound!End("caller1") = 4
  /\ Does("print", "enter_1", "caller1", 1)
  /\ Does("call", "caller2", "caller1", 2)
  /\ Does("print", "exit_1", "caller1", 3)
<1>1. PICK body : body = Unwound!Bodies["caller1"]
  OBVIOUS
<1>2. body = <<Unwound!Do("print", "enter_1"),
               Unwound!Do("call", "caller2"),
               Unwound!Do("print", "exit_1")>>
  BY <1>1 DEF Unwound!Bodies
<1>3. Len(body) = 3
  BY <1>2
<1>4. Unwound!End("caller1") = 4
  BY <1>1, <1>3 DEF Unwound!End
<1>5. Does("print", "enter_1", "caller1", 1)
  <2>1. body[1] = [op |-> "print", x |-> "enter_1"]
    BY <1>2 DEF Unwound!Do
  <2> QED
    BY <1>1, <1>4, <2>1 DEF Does
<1>6. Does("call", "caller2", "caller1", 2)
  <2>1. body[2] = [op |-> "call", x |-> "caller2"]
    BY <1>2 DEF Unwound!Do
  <2> QED
    BY <1>1, <1>4, <2>1 DEF Does
<1>7. Does("print", "exit_1", "caller1", 3)
  <2>1. body[3] = [op |-> "print", x |-> "exit_1"]
    BY <1>2 DEF Unwound!Do
  <2> QED
    BY <1>1, <1>4, <2>1 DEF Does
<1> QED
  BY <1>4, <1>5, <1>6, <1>7

LEMMA BodyCaller2 ==
  /\ Unwound!End("caller2") = 4
  /\ Does("print", "enter_2", "caller2", 1)
  /\ Does("panic", "err", "caller2", 2)
  /\ Does("print", "exit_2", "caller2", 3)
<1>1. PICK body : body = Unwound!Bodies["caller2"]
  OBVIOUS
<1>2. body = <<Unwound!Do("print", "enter_2"),
               Unwound!Do("panic", "err"),
               Unwound!Do("print", "exit_2")>>
  BY <1>1 DEF Unwound!Bodies
<1>3. Len(body) = 3
  BY <1>2
<1>4. Unwound!End("caller2") = 4
  BY <1>1, <1>3 DEF Unwound!End
<1>5. Does("print", "enter_2", "caller2", 1)
  <2>1. body[1] = [op |-> "print", x |-> "enter_2"]
    BY <1>2 DEF Unwound!Do
  <2> QED
    BY <1>1, <1>4, <2>1 DEF Does
<1>6. Does("panic", "err", "caller2", 2)
  <2>1. body[2] = [op |-> "panic", x |-> "err"]
    BY <1>2 DEF Unwound!Do
  <2> QED
    BY <1>1, <1>4, <2>1 DEF Does
<1>7. Does("print", "exit_2", "caller2", 3)
  <2>1. body[3] = [op |-> "print", x |-> "exit_2"]
    BY <1>2 DEF Unwound!Do
  <2> QED
    BY <1>1, <1>4, <2>1 DEF Does
<1> QED
  BY <1>4, <1>5, <1>6, <1>7

LEMMA BodyTestPanic2 ==
  /\ Unwound!End("test_panic2") = 7
  /\ Does("print", "enter_main", "test_panic2", 1)
  /\ Does("defer", "func", "test_panic2", 2)
  /\ Does("recover", "p", "test_panic2", 3)
  /\ Does("panic", "err", "test_panic2", 4)
  /\ Does("recover", "p", "test_panic2", 5)
  /\ Does("print", "exit_main", "test_panic2", 6)
<1>1. PICK body : body = Unwound!Bodies["test_panic2"]
  OBVIOUS
<1>2. body = <<Unwound!Do("print", "enter_main"),
               Unwound!Do("defer", "func"),
               Unwound!Do("recover", "p"),
               Unwound!Do("panic", "err"),
               Unwound!Do("recover", "p"),
               Unwound!Do("print", "exit_main")>>
  BY <1>1 DEF Unwound!Bodies
<1>3. Len(body) = 6
  BY <1>2
<1>4. Unwound!End("test_panic2") = 7
  BY <1>1, <1>3 DEF Unwound!End
<1>5. Does("print", "enter_main", "test_panic2", 1)
  <2>1. body[1] = [op |-> "print", x |-> "enter_main"]
    BY <1>2 DEF Unwound!Do
  <2> QED
    BY <1>1, <1>4, <2>1 DEF Does
<1>6. Does("defer", "func", "test_panic2", 2)
  <2>1. body[2] = [op |-> "defer", x |-> "func"]
    BY <1>2 DEF Unwound!Do
  <2> QED
    BY <1>1, <1>4, <2>1 DEF Does
<1>7. Does("recover", "p", "test_panic2", 3)
  <2>1. body[3] = [op |-> "recover", x |-> "p"]
    BY <1>2 DEF Unwound!Do
  <2> QED
    BY <1>1, <1>4, <2>1 DEF Does
<1>8. Does("panic", "err", "test_panic2", 4)
  <2>1. body[4] = [op |-> "panic", x |-> "err"]
    BY <1>2 DEF Unwound!Do
  <2> QED
    BY <1>1, <1>4, <2>1 DEF Does
<1>9. Does("recover", "p", "test_panic2", 5)
  <2>1. body[5] = [op |-> "recover", x |-> "p"]
    BY <1>2 DEF Unwound!Do
  <2> QED
    BY <1>1, <1>4, <2>1 DEF Does
<1>10. Does("print", "exit_main", "test_panic2", 6)
  <2>1. body[6] = [op |-> "print", x |-> "exit_main"]
    BY <1>2 DEF Unwound!Do
  <2> QED
    BY <1>1, <1>4, <2>1 DEF Does
<1> QED
  BY <1>4, <1>5, <1>6, <1>7, <1>8, <1>9, <1>10

LEMMA BodyFunc ==
  /\ Unwound!End("func") = 4
  /\ Does("print", "enter_func", "func", 1)
  /\ Does("recover", "p", "func", 2)
  /\ Does("print", "exit_func", "func", 3)
<1>1. PICK body : body = Unwound!Bodies["func"]
  OBVIOUS
<1>2. body = <<Unwound!Do("print", "enter_func"),
               Unwound!Do("recover", "p"),
               Unwound!Do("print", "exit_func")>>
  BY <1>1 DEF Unwound!Bodies
<1>3. Len(body) = 3
  BY <1>2
<1>4. Unwound!End("func") = 4
  BY <1>1, <1>3 DEF Unwound!End
<1>5. Does("print", "enter_func", "func", 1)
  <2>1. body[1] = [op |-> "print", x |-> "enter_func"]
    BY <1>2 DEF Unwound!Do
  <2> QED
    BY <1>1, <1>4, <2>1 DEF Does
<1>6. Does("recover", "p", "func", 2)
  <2>1. body[2] = [op |-> "recover", x |-> "p"]
    BY <1>2 DEF Unwound!Do
  <2> QED
    BY <1>1, <1>4, <2>1 DEF Does
<1>7. Does("print", "exit_func", "func", 3)
  <2>1. body[3] = [op |-> "print", x |-> "exit_func"]
    BY <1>2 DEF Unwound!Do
  <2> QED
    BY <1>1, <1>4, <2>1 DEF Does
<1> QED
  BY <1>4, <1>5, <1>6, <1>7

\* The states of test_defer: the calls its defer statements keep, the last one on
\* the right, and then what they print.
DefersRun ==
  \/ v2 = <<At("test_defer", 1, <<>>)>> /\ v3 = 0 /\ v4 = FALSE /\ v5 = <<>>
  \/ v2 = <<At("test_defer", 2, <<"first">>)>> /\ v3 = 0 /\ v4 = FALSE /\ v5 = <<>>
  \/ v2 = <<At("test_defer", 3, <<"first", "0">>)>> /\ v3 = 0 /\ v4 = FALSE /\ v5 = <<>>
  \/ v2 = <<At("test_defer", 4, <<"first", "0">>)>> /\ v3 = 1 /\ v4 = FALSE /\ v5 = <<>>
  \/ v2 = <<At("test_defer", 5, <<"first", "0", "1">>)>> /\ v3 = 1 /\ v4 = FALSE /\ v5 = <<>>
  \/ v2 = <<At("test_defer", 6, <<"first", "0", "1">>)>> /\ v3 = 2 /\ v4 = FALSE /\ v5 = <<>>
  \/ /\ v2 = <<At("test_defer", 7, <<"first", "0", "1", "2">>)>>
     /\ v3 = 2
     /\ v4 = FALSE
     /\ v5 = <<>>
  \/ /\ v2 = <<At("test_defer", 8, <<"first", "0", "1", "2">>)>>
     /\ v3 = 3
     /\ v4 = FALSE
     /\ v5 = <<>>
  \/ /\ v2 = <<At("test_defer", 9, <<"first", "0", "1", "2", "last">>)>>
     /\ v3 = 3
     /\ v4 = FALSE
     /\ v5 = <<>>
  \/ /\ v2 = <<At("test_defer", 9, <<"first", "0", "1", "2">>)>>
     /\ v3 = 3
     /\ v4 = FALSE
     /\ v5 = <<"last">>
  \/ /\ v2 = <<At("test_defer", 9, <<"first", "0", "1">>)>>
     /\ v3 = 3
     /\ v4 = FALSE
     /\ v5 = <<"last", "2">>
  \/ /\ v2 = <<At("test_defer", 9, <<"first", "0">>)>>
     /\ v3 = 3
     /\ v4 = FALSE
     /\ v5 = <<"last", "2", "1">>
  \/ /\ v2 = <<At("test_defer", 9, <<"first">>)>>
     /\ v3 = 3
     /\ v4 = FALSE
     /\ v5 = <<"last", "2", "1", "0">>
  \/ /\ v2 = <<At("test_defer", 9, <<>>)>>
     /\ v3 = 3
     /\ v4 = FALSE
     /\ v5 = <<"last", "2", "1", "0", "first">>
  \/ v2 = <<>> /\ v3 = 3 /\ v4 = FALSE /\ v5 = <<"last", "2", "1", "0", "first">>

LEMMA DefersKeep ==
  ASSUME DefersRun, Unwound!Next
  PROVE  DefersRun' /\ v1' = v1
<1>1. CASE v2 = <<At("test_defer", 1, <<>>)>> /\ v3 = 0 /\ v4 = FALSE /\ v5 = <<>>
  <2>1. Does("defer", "first", "test_defer", 1)
    BY BodyTestDefer
  <2>2. Keeps("first", <<>>, <<"first">>)
    <3>1. Append(<<>>, "first") = <<"first">>
      BY TupleAppend
    <3> QED
      BY <3>1 DEF Keeps, Unwound!Argument
  <2>3. v2' = <<At("test_defer", 2, <<"first">>)>> /\ Silent
    BY <1>1, <2>1, <2>2, DeferAt
  <2> QED
    BY <1>1, <2>3 DEF Silent, DefersRun
<1>2. CASE v2 = <<At("test_defer", 2, <<"first">>)>> /\ v3 = 0 /\ v4 = FALSE /\ v5 = <<>>
  <2>1. Does("defer", "i", "test_defer", 2)
    BY BodyTestDefer
  <2>2. Keeps("i", <<"first">>, <<"first", "0">>)
    <3>1. Append(<<"first">>, "0") = <<"first", "0">>
      BY TupleAppend
    <3>2. PICK n : n = v3 + 1 /\ n = 1
      BY <1>2
    <3>3. <<"0", "1", "2">>[n] = "0"
      BY <3>2
    <3> QED
      BY <3>1, <3>2, <3>3 DEF Keeps, Unwound!Argument
  <2>3. v2' = <<At("test_defer", 3, <<"first", "0">>)>> /\ Silent
    BY <1>2, <2>1, <2>2, DeferAt
  <2> QED
    BY <1>2, <2>3 DEF Silent, DefersRun
<1>3. CASE v2 = <<At("test_defer", 3, <<"first", "0">>)>> /\ v3 = 0 /\ v4 = FALSE /\ v5 = <<>>
  <2>1. Does("inc", "i", "test_defer", 3)
    BY BodyTestDefer
  <2>2. /\ v2' = <<At("test_defer", 4, <<"first", "0">>)>>
        /\ v1' = v1
        /\ v3' = v3 + 1
        /\ v4' = v4
        /\ v5' = v5
    BY <1>3, <2>1, IncrementAt
  <2> QED
    BY <1>3, <2>2 DEF DefersRun
<1>4. CASE v2 = <<At("test_defer", 4, <<"first", "0">>)>> /\ v3 = 1 /\ v4 = FALSE /\ v5 = <<>>
  <2>1. Does("defer", "i", "test_defer", 4)
    BY BodyTestDefer
  <2>2. Keeps("i", <<"first", "0">>, <<"first", "0", "1">>)
    <3>1. Append(<<"first", "0">>, "1") = <<"first", "0", "1">>
      BY TupleAppend
    <3>2. PICK n : n = v3 + 1 /\ n = 2
      BY <1>4
    <3>3. <<"0", "1", "2">>[n] = "1"
      BY <3>2
    <3> QED
      BY <3>1, <3>2, <3>3 DEF Keeps, Unwound!Argument
  <2>3. v2' = <<At("test_defer", 5, <<"first", "0", "1">>)>> /\ Silent
    BY <1>4, <2>1, <2>2, DeferAt
  <2> QED
    BY <1>4, <2>3 DEF Silent, DefersRun
<1>5. CASE /\ v2 = <<At("test_defer", 5, <<"first", "0", "1">>)>>
           /\ v3 = 1
           /\ v4 = FALSE
           /\ v5 = <<>>
  <2>1. Does("inc", "i", "test_defer", 5)
    BY BodyTestDefer
  <2>2. /\ v2' = <<At("test_defer", 6, <<"first", "0", "1">>)>>
        /\ v1' = v1
        /\ v3' = v3 + 1
        /\ v4' = v4
        /\ v5' = v5
    BY <1>5, <2>1, IncrementAt
  <2> QED
    BY <1>5, <2>2 DEF DefersRun
<1>6. CASE /\ v2 = <<At("test_defer", 6, <<"first", "0", "1">>)>>
           /\ v3 = 2
           /\ v4 = FALSE
           /\ v5 = <<>>
  <2>1. Does("defer", "i", "test_defer", 6)
    BY BodyTestDefer
  <2>2. Keeps("i", <<"first", "0", "1">>, <<"first", "0", "1", "2">>)
    <3>1. Append(<<"first", "0", "1">>, "2") = <<"first", "0", "1", "2">>
      BY TupleAppend
    <3>2. PICK n : n = v3 + 1 /\ n = 3
      BY <1>6
    <3>3. <<"0", "1", "2">>[n] = "2"
      BY <3>2
    <3> QED
      BY <3>1, <3>2, <3>3 DEF Keeps, Unwound!Argument
  <2>3. v2' = <<At("test_defer", 7, <<"first", "0", "1", "2">>)>> /\ Silent
    BY <1>6, <2>1, <2>2, DeferAt
  <2> QED
    BY <1>6, <2>3 DEF Silent, DefersRun
<1>7. CASE /\ v2 = <<At("test_defer", 7, <<"first", "0", "1", "2">>)>>
           /\ v3 = 2
           /\ v4 = FALSE
           /\ v5 = <<>>
  <2>1. Does("inc", "i", "test_defer", 7)
    BY BodyTestDefer
  <2>2. /\ v2' = <<At("test_defer", 8, <<"first", "0", "1", "2">>)>>
        /\ v1' = v1
        /\ v3' = v3 + 1
        /\ v4' = v4
        /\ v5' = v5
    BY <1>7, <2>1, IncrementAt
  <2> QED
    BY <1>7, <2>2 DEF DefersRun
<1>8. CASE /\ v2 = <<At("test_defer", 8, <<"first", "0", "1", "2">>)>>
           /\ v3 = 3
           /\ v4 = FALSE
           /\ v5 = <<>>
  <2>1. Does("defer", "last", "test_defer", 8)
    BY BodyTestDefer
  <2>2. Keeps("last", <<"first", "0", "1", "2">>, <<"first", "0", "1", "2", "last">>)
    <3>1. Append(<<"first", "0", "1", "2">>, "last") = <<"first", "0", "1", "2", "last">>
      BY TupleAppend
    <3> QED
      BY <3>1 DEF Keeps, Unwound!Argument
  <2>3. v2' = <<At("test_defer", 9, <<"first", "0", "1", "2", "last">>)>> /\ Silent
    BY <1>8, <2>1, <2>2, DeferAt
  <2> QED
    BY <1>8, <2>3 DEF Silent, DefersRun
<1>9. CASE /\ v2 = <<At("test_defer", 9, <<"first", "0", "1", "2", "last">>)>>
           /\ v3 = 3
           /\ v4 = FALSE
           /\ v5 = <<>>
  <2>1. Unwound!End("test_defer") = 9
    BY BodyTestDefer
  <2>2. Remains(<<"first", "0", "1", "2", "last">>, <<"first", "0", "1", "2">>, "last")
    BY Remaining
  <2>3. v2' = <<At("test_defer", 9, <<"first", "0", "1", "2">>)>> /\ Outputs("last")
    BY <1>9, <2>1, <2>2, RunAt
  <2>4. v5' = <<"last">>
    BY <1>9, <2>3, TupleAppend DEF Outputs
  <2> QED
    BY <1>9, <2>3, <2>4 DEF Outputs, DefersRun
<1>10. CASE /\ v2 = <<At("test_defer", 9, <<"first", "0", "1", "2">>)>>
            /\ v3 = 3
            /\ v4 = FALSE
            /\ v5 = <<"last">>
  <2>1. Unwound!End("test_defer") = 9
    BY BodyTestDefer
  <2>2. Remains(<<"first", "0", "1", "2">>, <<"first", "0", "1">>, "2")
    BY Remaining
  <2>3. v2' = <<At("test_defer", 9, <<"first", "0", "1">>)>> /\ Outputs("2")
    BY <1>10, <2>1, <2>2, RunAt
  <2>4. v5' = <<"last", "2">>
    BY <1>10, <2>3, TupleAppend DEF Outputs
  <2> QED
    BY <1>10, <2>3, <2>4 DEF Outputs, DefersRun
<1>11. CASE /\ v2 = <<At("test_defer", 9, <<"first", "0", "1">>)>>
            /\ v3 = 3
            /\ v4 = FALSE
            /\ v5 = <<"last", "2">>
  <2>1. Unwound!End("test_defer") = 9
    BY BodyTestDefer
  <2>2. Remains(<<"first", "0", "1">>, <<"first", "0">>, "1")
    BY Remaining
  <2>3. v2' = <<At("test_defer", 9, <<"first", "0">>)>> /\ Outputs("1")
    BY <1>11, <2>1, <2>2, RunAt
  <2>4. v5' = <<"last", "2", "1">>
    BY <1>11, <2>3, TupleAppend DEF Outputs
  <2> QED
    BY <1>11, <2>3, <2>4 DEF Outputs, DefersRun
<1>12. CASE /\ v2 = <<At("test_defer", 9, <<"first", "0">>)>>
            /\ v3 = 3
            /\ v4 = FALSE
            /\ v5 = <<"last", "2", "1">>
  <2>1. Unwound!End("test_defer") = 9
    BY BodyTestDefer
  <2>2. Remains(<<"first", "0">>, <<"first">>, "0")
    BY Remaining
  <2>3. v2' = <<At("test_defer", 9, <<"first">>)>> /\ Outputs("0")
    BY <1>12, <2>1, <2>2, RunAt
  <2>4. v5' = <<"last", "2", "1", "0">>
    BY <1>12, <2>3, TupleAppend DEF Outputs
  <2> QED
    BY <1>12, <2>3, <2>4 DEF Outputs, DefersRun
<1>13. CASE /\ v2 = <<At("test_defer", 9, <<"first">>)>>
            /\ v3 = 3
            /\ v4 = FALSE
            /\ v5 = <<"last", "2", "1", "0">>
  <2>1. Unwound!End("test_defer") = 9
    BY BodyTestDefer
  <2>2. Remains(<<"first">>, <<>>, "first")
    BY Remaining
  <2>3. v2' = <<At("test_defer", 9, <<>>)>> /\ Outputs("first")
    BY <1>13, <2>1, <2>2, RunAt
  <2>4. v5' = <<"last", "2", "1", "0", "first">>
    BY <1>13, <2>3, TupleAppend DEF Outputs
  <2> QED
    BY <1>13, <2>3, <2>4 DEF Outputs, DefersRun
<1>14. CASE /\ v2 = <<At("test_defer", 9, <<>>)>>
            /\ v3 = 3
            /\ v4 = FALSE
            /\ v5 = <<"last", "2", "1", "0", "first">>
  <2>1. Unwound!End("test_defer") = 9
    BY BodyTestDefer
  <2>2. v2' = <<>> /\ Silent
    BY <1>14, <2>1, LeaveAt
  <2> QED
    BY <1>14, <2>2 DEF Silent, DefersRun
<1>15. CASE v2 = <<>> /\ v3 = 3 /\ v4 = FALSE /\ v5 = <<"last", "2", "1", "0", "first">>
  <2>1. v2 = <<>>
    BY <1>15
  <2>2. v1' = v1 /\ v2' = v2 /\ v3' = v3 /\ v4' = v4 /\ v5' = v5
    BY <2>1, Exit
  <2>3. v2' = <<>> /\ v5' = <<"last", "2", "1", "0", "first">>
    BY <1>15, <2>2
  <2> QED
    BY <1>15, <2>2, <2>3 DEF DefersRun
<1> QED
  BY <1>1, <1>2, <1>3, <1>4, <1>5, <1>6, <1>7, <1>8, <1>9, <1>10, <1>11, <1>12, <1>13,
     <1>14, <1>15 DEF DefersRun

\* The states of test_panic: the panic of caller2 takes each frame to its end.
PanicsRun ==
  \/ v2 = <<At("test_panic", 1, <<>>)>> /\ v4 = FALSE /\ v5 = <<>>
  \/ v2 = <<At("test_panic", 2, <<>>)>> /\ v4 = FALSE /\ v5 = <<"enter_main">>
  \/ /\ v2 = <<At("test_panic", 3, <<>>), At("caller1", 1, <<>>)>>
     /\ v4 = FALSE
     /\ v5 = <<"enter_main">>
  \/ /\ v2 = <<At("test_panic", 3, <<>>), At("caller1", 2, <<>>)>>
     /\ v4 = FALSE
     /\ v5 = <<"enter_main", "enter_1">>
  \/ /\ v2 = <<At("test_panic", 3, <<>>), At("caller1", 3, <<>>), At("caller2", 1, <<>>)>>
     /\ v4 = FALSE
     /\ v5 = <<"enter_main", "enter_1">>
  \/ /\ v2 = <<At("test_panic", 3, <<>>), At("caller1", 3, <<>>), At("caller2", 2, <<>>)>>
     /\ v4 = FALSE
     /\ v5 = <<"enter_main", "enter_1", "enter_2">>
  \/ /\ v2 = <<At("test_panic", 3, <<>>), At("caller1", 3, <<>>), At("caller2", 4, <<>>)>>
     /\ v4 = TRUE
     /\ v5 = <<"enter_main", "enter_1", "enter_2">>
  \/ /\ v2 = <<At("test_panic", 3, <<>>), At("caller1", 4, <<>>)>>
     /\ v4 = TRUE
     /\ v5 = <<"enter_main", "enter_1", "enter_2">>
  \/ /\ v2 = <<At("test_panic", 4, <<>>)>>
     /\ v4 = TRUE
     /\ v5 = <<"enter_main", "enter_1", "enter_2">>
  \/ v2 = <<>> /\ v4 = TRUE /\ v5 = <<"enter_main", "enter_1", "enter_2">>

LEMMA PanicsKeep ==
  ASSUME PanicsRun, Unwound!Next
  PROVE  PanicsRun' /\ v1' = v1
<1>1. CASE v2 = <<At("test_panic", 1, <<>>)>> /\ v4 = FALSE /\ v5 = <<>>
  <2>1. Does("print", "enter_main", "test_panic", 1)
    BY BodyTestPanic
  <2>2. v2' = <<At("test_panic", 2, <<>>)>> /\ Outputs("enter_main")
    BY <1>1, <2>1, PrintAt
  <2>3. v5' = <<"enter_main">>
    BY <1>1, <2>2, TupleAppend DEF Outputs
  <2> QED
    BY <1>1, <2>2, <2>3 DEF Outputs, PanicsRun
<1>2. CASE v2 = <<At("test_panic", 2, <<>>)>> /\ v4 = FALSE /\ v5 = <<"enter_main">>
  <2>1. Does("call", "caller1", "test_panic", 2)
    BY BodyTestPanic
  <2>2. v2' = <<At("test_panic", 3, <<>>), At("caller1", 1, <<>>)>> /\ Silent
    BY <1>2, <2>1, CallAt
  <2> QED
    BY <1>2, <2>2 DEF Silent, PanicsRun
<1>3. CASE /\ v2 = <<At("test_panic", 3, <<>>), At("caller1", 1, <<>>)>>
           /\ v4 = FALSE
           /\ v5 = <<"enter_main">>
  <2>1. Does("print", "enter_1", "caller1", 1)
    BY BodyCaller1
  <2>2. v2' = <<At("test_panic", 3, <<>>), At("caller1", 2, <<>>)>> /\ Outputs("enter_1")
    BY <1>3, <2>1, PrintAt
  <2>3. v5' = <<"enter_main", "enter_1">>
    BY <1>3, <2>2, TupleAppend DEF Outputs
  <2> QED
    BY <1>3, <2>2, <2>3 DEF Outputs, PanicsRun
<1>4. CASE /\ v2 = <<At("test_panic", 3, <<>>), At("caller1", 2, <<>>)>>
           /\ v4 = FALSE
           /\ v5 = <<"enter_main", "enter_1">>
  <2>1. Does("call", "caller2", "caller1", 2)
    BY BodyCaller1
  <2>2. /\ v2' = <<At("test_panic", 3, <<>>), At("caller1", 3, <<>>), At("caller2", 1, <<>>)>>
        /\ Silent
    BY <1>4, <2>1, CallAt
  <2> QED
    BY <1>4, <2>2 DEF Silent, PanicsRun
<1>5. CASE /\ v2 = <<At("test_panic", 3, <<>>), At("caller1", 3, <<>>), At("caller2", 1, <<>>)>>
           /\ v4 = FALSE
           /\ v5 = <<"enter_main", "enter_1">>
  <2>1. Does("print", "enter_2", "caller2", 1)
    BY BodyCaller2
  <2>2. /\ v2' = <<At("test_panic", 3, <<>>), At("caller1", 3, <<>>), At("caller2", 2, <<>>)>>
        /\ Outputs("enter_2")
    BY <1>5, <2>1, PrintAt
  <2>3. v5' = <<"enter_main", "enter_1", "enter_2">>
    BY <1>5, <2>2, TupleAppend DEF Outputs
  <2> QED
    BY <1>5, <2>2, <2>3 DEF Outputs, PanicsRun
<1>6. CASE /\ v2 = <<At("test_panic", 3, <<>>), At("caller1", 3, <<>>), At("caller2", 2, <<>>)>>
           /\ v4 = FALSE
           /\ v5 = <<"enter_main", "enter_1", "enter_2">>
  <2>1. Does("panic", "err", "caller2", 2) /\ Unwound!End("caller2") = 4
    BY BodyCaller2
  <2>2. /\ v2' = <<At("test_panic", 3, <<>>), At("caller1", 3, <<>>), At("caller2", 4, <<>>)>>
        /\ Panicked
    BY <1>6, <2>1, PanicAt
  <2> QED
    BY <1>6, <2>2 DEF Panicked, PanicsRun
<1>7. CASE /\ v2 = <<At("test_panic", 3, <<>>), At("caller1", 3, <<>>), At("caller2", 4, <<>>)>>
           /\ v4 = TRUE
           /\ v5 = <<"enter_main", "enter_1", "enter_2">>
  <2>1. Unwound!End("caller2") = 4 /\ Unwound!End("caller1") = 4
    BY BodyCaller2, BodyCaller1
  <2>2. v2' = <<At("test_panic", 3, <<>>), At("caller1", 4, <<>>)>> /\ Silent
    BY <1>7, <2>1, LeavePanicking
  <2> QED
    BY <1>7, <2>2 DEF Silent, PanicsRun
<1>8. CASE /\ v2 = <<At("test_panic", 3, <<>>), At("caller1", 4, <<>>)>>
           /\ v4 = TRUE
           /\ v5 = <<"enter_main", "enter_1", "enter_2">>
  <2>1. Unwound!End("caller1") = 4 /\ Unwound!End("test_panic") = 4
    BY BodyCaller1, BodyTestPanic
  <2>2. v2' = <<At("test_panic", 4, <<>>)>> /\ Silent
    BY <1>8, <2>1, LeavePanicking
  <2> QED
    BY <1>8, <2>2 DEF Silent, PanicsRun
<1>9. CASE /\ v2 = <<At("test_panic", 4, <<>>)>>
           /\ v4 = TRUE
           /\ v5 = <<"enter_main", "enter_1", "enter_2">>
  <2>1. Unwound!End("test_panic") = 4
    BY BodyTestPanic
  <2>2. v2' = <<>> /\ Silent
    BY <1>9, <2>1, LeaveAt
  <2> QED
    BY <1>9, <2>2 DEF Silent, PanicsRun
<1>10. CASE v2 = <<>> /\ v4 = TRUE /\ v5 = <<"enter_main", "enter_1", "enter_2">>
  <2>1. v2 = <<>>
    BY <1>10
  <2>2. v1' = v1 /\ v2' = v2 /\ v3' = v3 /\ v4' = v4 /\ v5' = v5
    BY <2>1, Exit
  <2>3. v2' = <<>> /\ v5' = <<"enter_main", "enter_1", "enter_2">>
    BY <1>10, <2>2
  <2> QED
    BY <1>10, <2>2, <2>3 DEF PanicsRun
<1> QED
  BY <1>1, <1>2, <1>3, <1>4, <1>5, <1>6, <1>7, <1>8, <1>9, <1>10 DEF PanicsRun

\* The states of test_panic2: the deferred function is called through the panic
\* and ends it.
RecoversRun ==
  \/ v2 = <<At("test_panic2", 1, <<>>)>> /\ v4 = FALSE /\ v5 = <<>>
  \/ v2 = <<At("test_panic2", 2, <<>>)>> /\ v4 = FALSE /\ v5 = <<"enter_main">>
  \/ v2 = <<At("test_panic2", 3, <<"func">>)>> /\ v4 = FALSE /\ v5 = <<"enter_main">>
  \/ /\ v2 = <<At("test_panic2", 4, <<"func">>)>>
     /\ v4 = FALSE
     /\ v5 = <<"enter_main", "no_panic">>
  \/ v2 = <<At("test_panic2", 7, <<"func">>)>> /\ v4 = TRUE /\ v5 = <<"enter_main", "no_panic">>
  \/ /\ v2 = <<At("test_panic2", 7, <<>>), Rescue(1)>>
     /\ v4 = TRUE
     /\ v5 = <<"enter_main", "no_panic">>
  \/ /\ v2 = <<At("test_panic2", 7, <<>>), Rescue(2)>>
     /\ v4 = TRUE
     /\ v5 = <<"enter_main", "no_panic", "enter_func">>
  \/ /\ v2 = <<At("test_panic2", 7, <<>>), Rescue(3)>>
     /\ v4 = FALSE
     /\ v5 = <<"enter_main", "no_panic", "enter_func", "panic">>
  \/ /\ v2 = <<At("test_panic2", 7, <<>>), Rescue(4)>>
     /\ v4 = FALSE
     /\ v5 = <<"enter_main", "no_panic", "enter_func", "panic", "exit_func">>
  \/ /\ v2 = <<At("test_panic2", 7, <<>>)>>
     /\ v4 = FALSE
     /\ v5 = <<"enter_main", "no_panic", "enter_func", "panic", "exit_func">>
  \/ /\ v2 = <<>>
     /\ v4 = FALSE
     /\ v5 = <<"enter_main", "no_panic", "enter_func", "panic", "exit_func">>

LEMMA RecoversKeep ==
  ASSUME RecoversRun, Unwound!Next
  PROVE  RecoversRun' /\ v1' = v1
<1>1. CASE v2 = <<At("test_panic2", 1, <<>>)>> /\ v4 = FALSE /\ v5 = <<>>
  <2>1. Does("print", "enter_main", "test_panic2", 1)
    BY BodyTestPanic2
  <2>2. v2' = <<At("test_panic2", 2, <<>>)>> /\ Outputs("enter_main")
    BY <1>1, <2>1, PrintAt
  <2>3. v5' = <<"enter_main">>
    BY <1>1, <2>2, TupleAppend DEF Outputs
  <2> QED
    BY <1>1, <2>2, <2>3 DEF Outputs, RecoversRun
<1>2. CASE v2 = <<At("test_panic2", 2, <<>>)>> /\ v4 = FALSE /\ v5 = <<"enter_main">>
  <2>1. Does("defer", "func", "test_panic2", 2)
    BY BodyTestPanic2
  <2>2. Keeps("func", <<>>, <<"func">>)
    <3>1. Append(<<>>, "func") = <<"func">>
      BY TupleAppend
    <3> QED
      BY <3>1 DEF Keeps, Unwound!Argument
  <2>3. v2' = <<At("test_panic2", 3, <<"func">>)>> /\ Silent
    BY <1>2, <2>1, <2>2, DeferAt
  <2> QED
    BY <1>2, <2>3 DEF Silent, RecoversRun
<1>3. CASE v2 = <<At("test_panic2", 3, <<"func">>)>> /\ v4 = FALSE /\ v5 = <<"enter_main">>
  <2>1. Does("recover", "p", "test_panic2", 3)
    BY BodyTestPanic2
  <2>2. v2' = <<At("test_panic2", 3 + 1, <<"func">>)>> /\ Recovered("no_panic")
    BY <1>3, <2>1, RecoverAt
  <2>3. v2' = <<At("test_panic2", 4, <<"func">>)>>
    BY <2>2
  <2>4. v5' = <<"enter_main", "no_panic">>
    BY <1>3, <2>2, TupleAppend DEF Recovered
  <2> QED
    BY <1>3, <2>2, <2>3, <2>4 DEF Recovered, RecoversRun
<1>4. CASE /\ v2 = <<At("test_panic2", 4, <<"func">>)>>
           /\ v4 = FALSE
           /\ v5 = <<"enter_main", "no_panic">>
  <2>1. Does("panic", "err", "test_panic2", 4) /\ Unwound!End("test_panic2") = 7
    BY BodyTestPanic2
  <2>2. v2' = <<At("test_panic2", 7, <<"func">>)>> /\ Panicked
    BY <1>4, <2>1, PanicAt
  <2> QED
    BY <1>4, <2>2 DEF Panicked, RecoversRun
<1>5. CASE /\ v2 = <<At("test_panic2", 7, <<"func">>)>>
           /\ v4 = TRUE
           /\ v5 = <<"enter_main", "no_panic">>
  <2>1. Unwound!End("test_panic2") = 7
    BY BodyTestPanic2
  <2>2. Remains(<<"func">>, <<>>, "func")
    BY Remaining
  <2>3. Unwound!Frame("func", v4) = Rescue(1)
    BY <1>5 DEF Rescue, Unwound!Frame
  <2>4. v2' = <<At("test_panic2", 7, <<>>), Rescue(1)>> /\ Silent
    BY <1>5, <2>1, <2>2, <2>3, RunAt
  <2> QED
    BY <1>5, <2>4 DEF Silent, RecoversRun
<1>6. CASE /\ v2 = <<At("test_panic2", 7, <<>>), Rescue(1)>>
           /\ v4 = TRUE
           /\ v5 = <<"enter_main", "no_panic">>
  <2>1. Does("print", "enter_func", "func", 1)
    BY BodyFunc
  <2>2. v2' = <<At("test_panic2", 7, <<>>), Rescue(2)>> /\ Outputs("enter_func")
    BY <1>6, <2>1, PrintRescue
  <2>3. v5' = <<"enter_main", "no_panic", "enter_func">>
    BY <1>6, <2>2, TupleAppend DEF Outputs
  <2> QED
    BY <1>6, <2>2, <2>3 DEF Outputs, RecoversRun
<1>7. CASE /\ v2 = <<At("test_panic2", 7, <<>>), Rescue(2)>>
           /\ v4 = TRUE
           /\ v5 = <<"enter_main", "no_panic", "enter_func">>
  <2>1. Does("recover", "p", "func", 2)
    BY BodyFunc
  <2>2. v2' = <<At("test_panic2", 7, <<>>), Rescue(3)>> /\ Recovered("panic")
    BY <1>7, <2>1, RecoverRescue
  <2>3. v5' = <<"enter_main", "no_panic", "enter_func", "panic">>
    BY <1>7, <2>2, TupleAppend DEF Recovered
  <2> QED
    BY <1>7, <2>2, <2>3 DEF Recovered, RecoversRun
<1>8. CASE /\ v2 = <<At("test_panic2", 7, <<>>), Rescue(3)>>
           /\ v4 = FALSE
           /\ v5 = <<"enter_main", "no_panic", "enter_func", "panic">>
  <2>1. Does("print", "exit_func", "func", 3)
    BY BodyFunc
  <2>2. v2' = <<At("test_panic2", 7, <<>>), Rescue(4)>> /\ Outputs("exit_func")
    BY <1>8, <2>1, PrintRescue
  <2>3. v5' = <<"enter_main", "no_panic", "enter_func", "panic", "exit_func">>
    BY <1>8, <2>2, TupleAppend DEF Outputs
  <2> QED
    BY <1>8, <2>2, <2>3 DEF Outputs, RecoversRun
<1>9. CASE /\ v2 = <<At("test_panic2", 7, <<>>), Rescue(4)>>
           /\ v4 = FALSE
           /\ v5 = <<"enter_main", "no_panic", "enter_func", "panic", "exit_func">>
  <2>1. Unwound!End("func") = 4
    BY BodyFunc
  <2>2. v2' = <<At("test_panic2", 7, <<>>)>> /\ Silent
    BY <1>9, <2>1, LeaveRescue
  <2> QED
    BY <1>9, <2>2 DEF Silent, RecoversRun
<1>10. CASE /\ v2 = <<At("test_panic2", 7, <<>>)>>
            /\ v4 = FALSE
            /\ v5 = <<"enter_main", "no_panic", "enter_func", "panic", "exit_func">>
  <2>1. Unwound!End("test_panic2") = 7
    BY BodyTestPanic2
  <2>2. v2' = <<>> /\ Silent
    BY <1>10, <2>1, LeaveAt
  <2> QED
    BY <1>10, <2>2 DEF Silent, RecoversRun
<1>11. CASE /\ v2 = <<>>
            /\ v4 = FALSE
            /\ v5 = <<"enter_main", "no_panic", "enter_func", "panic", "exit_func">>
  <2>1. v2 = <<>>
    BY <1>11
  <2>2. v1' = v1 /\ v2' = v2 /\ v3' = v3 /\ v4' = v4 /\ v5' = v5
    BY <2>1, Exit
  <2>3. v2' = <<>> /\ v5' = <<"enter_main", "no_panic", "enter_func", "panic", "exit_func">>
    BY <1>11, <2>2
  <2> QED
    BY <1>11, <2>2, <2>3 DEF RecoversRun
<1> QED
  BY <1>1, <1>2, <1>3, <1>4, <1>5, <1>6, <1>7, <1>8, <1>9, <1>10, <1>11 DEF RecoversRun

UnwindInv ==
  \/ v1 = "test_defer" /\ DefersRun
  \/ v1 = "test_panic" /\ PanicsRun
  \/ v1 = "test_panic2" /\ RecoversRun

UnwindsInv == running = "Unwinding" => UnwindInv

LEMMA UnwindsStart == Init => UnwindsInv
<1> SUFFICES ASSUME Init, running = "Unwinding" PROVE UnwindInv
  BY DEF UnwindsInv
<1>1. /\ v1 \in {"test_defer", "test_panic", "test_panic2"}
      /\ v2 = <<Unwound!Frame(v1, FALSE)>> /\ v3 = 0 /\ v4 = FALSE /\ v5 = <<>>
  BY DEF Init, Unwound!Init
<1>2. v2 = <<At(v1, 1, <<>>)>>
  BY <1>1 DEF At, Unwound!Frame
<1>3. CASE v1 = "test_defer"
  BY <1>1, <1>2, <1>3 DEF UnwindInv, DefersRun
<1>4. CASE v1 = "test_panic"
  BY <1>1, <1>2, <1>4 DEF UnwindInv, PanicsRun
<1>5. CASE v1 = "test_panic2"
  BY <1>1, <1>2, <1>5 DEF UnwindInv, RecoversRun
<1> QED
  BY <1>1, <1>3, <1>4, <1>5

LEMMA UnwindsKept == UnwindsInv /\ [Next]_vars => UnwindsInv'
<1> SUFFICES ASSUME UnwindsInv, [Next]_vars, running' = "Unwinding" PROVE UnwindInv'
  BY DEF UnwindsInv
<1>1. CASE UNCHANGED vars
  <2>1. UnwindInv
    BY <1>1 DEF vars, UnwindsInv
  <2> QED
    BY <1>1, <2>1 DEF vars, UnwindInv, DefersRun, PanicsRun, RecoversRun
<1>2. CASE Of("Unwinding", Unwound!Next, <<v6, v7, v8>>)
  <2>1. UnwindInv /\ Unwound!Next
    BY <1>2 DEF Of, UnwindsInv
  <2>2. CASE v1 = "test_defer" /\ DefersRun
    BY <2>1, <2>2, DefersKeep DEF UnwindInv
  <2>3. CASE v1 = "test_panic" /\ PanicsRun
    BY <2>1, <2>3, PanicsKeep DEF UnwindInv
  <2>4. CASE v1 = "test_panic2" /\ RecoversRun
    BY <2>1, <2>4, RecoversKeep DEF UnwindInv
  <2> QED
    BY <2>1, <2>2, <2>3, <2>4 DEF UnwindInv
<1> QED
  BY <1>1, <1>2 DEF Next, Of

LEMMA UnwindsInvariant == Spec => []UnwindsInv
<1>1. Init => UnwindsInv
  BY UnwindsStart
<1>2. UnwindsInv /\ [Next]_vars => UnwindsInv'
  BY UnwindsKept
<1> QED
  BY <1>1, <1>2, PTL DEF Spec

LEMMA UnwindsGood == UnwindInv => Unwound!RunsDeferred
<1> SUFFICES ASSUME UnwindInv, v2 = <<>>
             PROVE  /\ v4 = (v1 = "test_panic")
                    /\ v1 = "test_defer" => v5 = <<"last", "2", "1", "0", "first">>
                    /\ v1 = "test_panic" => v5 = <<"enter_main", "enter_1", "enter_2">>
                    /\ v1 = "test_panic2" =>
                         v5 = <<"enter_main", "no_panic", "enter_func", "panic", "exit_func">>
  BY DEF Unwound!RunsDeferred, Unwound!Exited
<1>1. CASE v1 = "test_defer" /\ DefersRun
  <2>1. v4 = FALSE /\ v5 = <<"last", "2", "1", "0", "first">>
    BY <1>1 DEF DefersRun
  <2> QED
    BY <1>1, <2>1
<1>2. CASE v1 = "test_panic" /\ PanicsRun
  <2>1. v4 = TRUE /\ v5 = <<"enter_main", "enter_1", "enter_2">>
    BY <1>2 DEF PanicsRun
  <2> QED
    BY <1>2, <2>1
<1>3. CASE v1 = "test_panic2" /\ RecoversRun
  <2>1. v4 = FALSE /\ v5 = <<"enter_main", "no_panic", "enter_func", "panic", "exit_func">>
    BY <1>3 DEF RecoversRun
  <2> QED
    BY <1>3, <2>1
<1> QED
  BY <1>1, <1>2, <1>3 DEF UnwindInv

-----------------------------------------------------------------------------
(* The programs together                                                     *)

\* Whatever is asked of the programs: each address of a card fits its tables
\* (test_coroutine.go:75-116), each digit of a length its byte (demo.go:19-43),
\* and every slice is a window within its array (slice/test_slice.go).
THEOREM TypeCorrect == Spec => []TypeOK
<1>1. CardsInv /\ LengthsInv /\ SlicesInv => TypeOK
  BY CardsTyped, LengthsGood, SlicesGood DEF CardsInv, LengthsInv, SlicesInv, TypeOK
<1> QED
  BY <1>1, CardsInvariant, LengthsInvariant, SlicesInvariant, PTL

\* However many cards are asked for, one on file is replaced at a seam of two
\* blocks only (test_coroutine.go:113); whatever room append gives a new array, what
\* is appended to s5, cut off with its capacity, and to s7 made of it shows in none
\* of the slices on the array a (test_slice.go:13-16).
THEOREM KeepsTheOthers == Spec => KeepsOthers
<1>1. CardsInv /\ SlicesInv /\ [Next]_vars =>
        [/\ running = "VirtualCards" => Cards!KeepsCards
         /\ running = "Slices" => Sliced!CutOffStaysApart]_vars
  <2> SUFFICES ASSUME CardsInv, SlicesInv, Next
               PROVE  /\ running = "VirtualCards" => Cards!KeepsCards
                      /\ running = "Slices" => Sliced!CutOffStaysApart
    OBVIOUS
  <2>1. ASSUME running = "VirtualCards" PROVE Cards!KeepsCards
    <3>1. CardInv /\ Cards!Next
      BY <2>1 DEF CardsInv, Next, Of
    <3> QED
      BY <3>1, CardsStay
  <2>2. ASSUME running = "Slices" PROVE Sliced!CutOffStaysApart
    <3>1. SliceInv /\ Sliced!Next
      BY <2>2 DEF SlicesInv, Next, Of
    <3> QED
      BY <3>1, SlicesAppend
  <2> QED
    BY <2>1, <2>2
<1> QED
  BY <1>1, CardsInvariant, SlicesInvariant, PTL DEF Spec, KeepsOthers

\* Whatever the lengths, the numbers, the words and the strings: what is computed or
\* printed is what the definition or the comment says (demo.go:19-43,
\* test_closure2.go:9-20, demo_atomic0.go:29-50, slice/, demo_strcat.go,
\* io/demo.go:13-100, error/, demo_context.go:101-119).
THEOREM ComputesRight == Spec => []Computes
<1>1. /\ LengthsInv /\ PowsInv /\ IntsInv /\ SlicesInv
      /\ ConcatsInv /\ StringsInv /\ UnwindsInv /\ TreesInv
      => Computes
  <2> SUFFICES ASSUME LengthsInv, PowsInv, IntsInv, SlicesInv,
                      ConcatsInv, StringsInv, UnwindsInv, TreesInv
               PROVE  Computes
    OBVIOUS
  <2>1. running = "TlvLength" => Length!Encodes /\ Length!OutcomeFits
    BY LengthsGood DEF LengthsInv
  <2>2. running = "NthPower" => Power!LoopInvariant /\ Power!ReturnsPower
    BY DEF PowsInv, PowInv
  <2>3. running = "AtomicInts" => Ints!Prints
    BY IntsGood DEF IntsInv
  <2>4. running = "Slices" => Sliced!ShowsWhatCommentsSay /\ Sliced!RangeSums
    BY SlicesGood DEF SlicesInv
  <2>5. running = "StrCat" => Concat!LinearWork /\ Concat!QuadraticWork
    BY ConcatsGood DEF ConcatsInv
  <2>6. running = "Readers" =>
          Strings!Contiguous /\ Strings!TeeWritesWhatIsRead /\ Strings!ReadsAll
    BY StringsGood DEF StringsInv
  <2>7. running = "Unwinding" => Unwound!RunsDeferred
    BY UnwindsGood DEF UnwindsInv
  <2>8. running = "ContextTree" => Tree!KnowsTheKeys /\ Tree!NothingLeft
    BY TreesGood DEF TreesInv
  <2> QED
    BY <2>1, <2>2, <2>3, <2>4, <2>5, <2>6, <2>7, <2>8 DEF Computes
<1> QED
  BY <1>1, LengthsInvariant, PowsInvariant, IntsInvariant, SlicesInvariant, ConcatsInvariant,
     StringsInvariant, UnwindsInvariant, TreesInvariant, PTL
=============================================================================
