------------------------------ MODULE Readers -------------------------------
(***************************************************************************)
(* Examples 1 to 5 of io/demo.go: readers over strings, read into a buffer *)
(* a fixed number of times. What a reader has still to deliver is a        *)
(* sequence of intervals <<first, last>> of the bytes of its strings; the  *)
(* readers of package io differ only in these intervals, and in that a     *)
(* TeeReader also writes what it reads. A string is the number of its      *)
(* bytes. The buffers are those of the code, or longer by one of Deltas. *)
(***************************************************************************)
EXTENDS Integers, Sequences, FiniteSetsExt, SequencesExt

CONSTANT Deltas

VARIABLES delta, example,
          i,           \* the loop over the reads
          rest,        \* what the reader has still to deliver
          got,         \* the intervals the reads have returned; <<>> for an io.EOF
          written      \* what writer1 of example 4 has been given

vars == <<delta, example, i, rest, got, written>>

comment == 255
\* The strings of example 5, of 92, 26, 56 and 83 bytes, one after the other.
Strings5 == <<<<1, 92>>, <<93, 118>>, <<119, 174>>, <<175, 257>>>>

\* A LimitReader of 7 bytes, a section of 72 bytes from 56, a MultiReader.
Delivers ==
  <<<<<<1, comment>>>>, <<<<1, 7>>>>, <<<<57, 128>>>>, <<<<1, comment>>>>, Strings5>>
Buffer == <<7, 10, 20, 40, 50>>
TimesOneLess == <<2, 2, 4, 7, 7>>            \* mistake: without the io.EOF
Times == <<2, 3, 5, 8, 8>>

Begin(k) == example' = k /\ i' = 0 /\ rest' = Delivers[k] /\ got' = <<>> /\ written' = <<>>

Init ==
  /\ delta \in Deltas
  /\ example = 1 /\ i = 0 /\ rest = Delivers[1] /\ got = <<>> /\ written = <<>>

\* A read takes from the string the reader is at; the mistake fills the buffer
\* across the strings and forgets what is left of the last one.
LastAcross(n) == rest[Len(rest)][2]
LastOfOne(n) == Min({rest[1][1] + n - 1, rest[1][2]})

\* What is left when the bytes up to b have been read.
Left(b) == IF b >= rest[1][2] THEN Tail(rest) ELSE [rest EXCEPT ![1][1] = b + 1]

\* The TeeReader; the mistake writes the bytes of the whole buffer.
TeeWhole(a, b) == <<a, a + Buffer[example] + delta - 1>>
Tee(a, b) == <<a, b>>

Read ==
  /\ i < Times[example]
  /\ i' = i + 1
  /\ IF rest = <<>>
       THEN got' = Append(got, <<>>) /\ UNCHANGED <<rest, written>>
       ELSE LET a == rest[1][1]  b == LastOfOne(Buffer[example] + delta) IN
            /\ got' = Append(got, <<a, b>>)
            \* Example 1 seeks 53 bytes on from where its first read ended.
            /\ rest' = IF example = 1 /\ i = 0 THEN <<<<b + 54, comment>>>> ELSE Left(b)
            /\ written' = IF example = 4 THEN Append(written, Tee(a, b)) ELSE written
  /\ UNCHANGED <<delta, example>>

NextExample ==
  /\ i = Times[example] /\ example < 5
  /\ Begin(example + 1)
  /\ UNCHANGED delta

Terminated == i = Times[example] /\ example = 5 /\ UNCHANGED vars

Next == Read \/ NextExample \/ Terminated

Spec == Init /\ [][Next]_vars

-----------------------------------------------------------------------------
(* Properties *)

\* Each read goes on where the one before it ended, in one string: a section
\* or a limit is not left, a MultiReader never mixes two strings (95). After an
\* io.EOF there is nothing but io.EOF.
Contiguous ==
  example > 1 =>
    \A k \in 1..Len(got) :
      IF got[k] = <<>> THEN \A l \in k..Len(got) : got[l] = <<>>
      ELSE /\ \E s \in ToSet(Delivers[example]) : s[1] <= got[k][1] /\ got[k][2] <= s[2]
           /\ got[k][1] = IF k = 1 THEN Delivers[example][1][1] ELSE got[k - 1][2] + 1

\* writer1 has exactly the bytes the reads have returned, a short last read
\* included (72-79).
TeeWritesWhatIsRead ==
  example = 4 =>
    /\ Len(written) <= Len(got) /\ \A k \in 1..Len(written) : written[k] = got[k]
    /\ \A k \in 1..Len(got) : got[k] # <<>> <=> k <= Len(written)

\* The fixed numbers of reads are enough: every loop of examples 2 to 5 has
\* read everything and met io.EOF (45, 60, 74 and 94).
ReadsAll ==
  i = Times[example] /\ example > 1 =>
    /\ rest = <<>> /\ got[i] = <<>>
    /\ \E k \in 1..(i - 1) :
         /\ got[k] # <<>> /\ got[k + 1] = <<>>
         /\ got[k][2] = Delivers[example][Len(Delivers[example])][2]
=============================================================================
