----------------------------- MODULE TlvLength ------------------------------
(***************************************************************************)
(* tlv_length of demo.go: a length as two bytes, by way of its hexadecimal *)
(* text. A text is the sequence of its digits, -1 standing for the sign;   *)
(* the bytes of hex.DecodeString are the value of a text of two digits,    *)
(* and none for any other text of at most two characters: its error is     *)
(* dropped, and indexing the empty result panics.                          *)
(***************************************************************************)
EXTENDS Integers, Sequences

CONSTANT Lengths       \* the arguments; any int64

VARIABLES data_len, s1, s2, data,
          pc           \* "split", "decode", "returned", "panic" or "fatal"

vars == <<data_len, s1, s2, data, pc>>

Minus == -1

\* strconv.FormatInt(n, 16), cut at five digits: nothing tells longer texts apart.
Places == <<1, 16, 256, 4096, 65536>>
Magnitude(n) == IF n < 0 THEN -n ELSE n
Width(n) ==
  IF n < 16 THEN 1 ELSE IF n < 256 THEN 2 ELSE IF n < 4096 THEN 3 ELSE IF n < 65536 THEN 4 ELSE 5
Digits(n) == [k \in 1..Width(n) |-> (n \div Places[Width(n) + 1 - k]) % 16]
FormatInt(n) == IF n < 0 THEN <<Minus>> \o Digits(Magnitude(n)) ELSE Digits(n)

\* hex.DecodeString of at most two characters.
Decodes(s) == Len(s) = 2 /\ s[1] # Minus /\ s[2] # Minus
Byte(s) == 16 * s[1] + s[2]

\* The texts of the two bytes, lines 23 to 34.
FirstLeft(s) == CASE Len(s) > 2 -> SubSeq(s, 1, 2) [] OTHER -> <<0, 0>>      \* mistake
First(s) == CASE Len(s) = 4 -> SubSeq(s, 1, 2) [] Len(s) = 3 -> <<0, s[1]>> [] OTHER -> <<0, 0>>

SecondLong(s) == CASE Len(s) > 2 -> SubSeq(s, Len(s) - 2, Len(s)) [] OTHER -> s  \* mistake
Second(s) == CASE Len(s) > 2 -> SubSeq(s, Len(s) - 1, Len(s)) [] OTHER -> s

AcceptedLonger(s) == Len(s) <= 5                                             \* mistake
Accepted(s) == Len(s) <= 4

Init ==
  /\ data_len \in Lengths
  /\ s1 = <<>> /\ s2 = <<>> /\ data = <<>>
  /\ pc = "split"

\* log.Fatalf ends the program on a text that is too long.
Split ==
  LET s == FormatInt(data_len) IN
  /\ pc = "split"
  /\ IF Accepted(s)
       THEN s1' = First(s) /\ s2' = Second(s) /\ pc' = "decode"
       ELSE pc' = "fatal" /\ UNCHANGED <<s1, s2>>
  /\ UNCHANGED <<data_len, data>>

Decode ==
  /\ pc = "decode"
  /\ IF Decodes(s1) /\ Decodes(s2)
       THEN data' = <<Byte(s1), Byte(s2)>> /\ pc' = "returned"
       ELSE pc' = "panic" /\ UNCHANGED data
  /\ UNCHANGED <<data_len, s1, s2>>

Terminated == pc \in {"returned", "panic", "fatal"} /\ UNCHANGED vars

Next == Split \/ Decode \/ Terminated

Spec == Init /\ [][Next]_vars

-----------------------------------------------------------------------------
(* Properties *)

\* Every variable has its type; the texts cut off have at most two digits.
TypeOK ==
  /\ data_len \in Lengths
  /\ s1 \in Seq(-1..15) /\ s2 \in Seq(-1..15) /\ Len(s1) <= 2 /\ Len(s2) <= 2
  /\ data \in {<<>>} \cup (0..255) \X (0..255)
  /\ pc \in {"split", "decode", "returned", "panic", "fatal"}

\* The two bytes returned are the length, the high byte first (lines 23-41).
Encodes == pc = "returned" => data = <<data_len \div 256, data_len % 256>>

\* Exactly the lengths of two to four digits come back as bytes: one digit,
\* or a sign, makes hex.DecodeString fail and d1[0] or d2[0] panic (39-41),
\* and more than four characters end the program (36).
OutcomeFits ==
  /\ pc = "returned" => data_len >= 16 /\ data_len <= 65535
  /\ pc = "panic" => data_len >= -4095 /\ data_len < 16
  /\ pc = "fatal" => data_len > 65535 \/ data_len < -4095
=============================================================================
