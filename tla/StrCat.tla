------------------------------- MODULE StrCat -------------------------------
(***************************************************************************)
(* The six ways of string/demo_strcat.go and benchmark/strcat_test.go to   *)
(* write "hello " and "world !" n times. A text is its length, and what    *)
(* the notes compare is the work: the bytes that are copied. A bytes.      *)
(* Buffer, a strings.Builder and append copy the text only when its        *)
(* capacity is used up, and then make room for a quarter more at least;    *)
(* +, strings.Join and Sprintf make a new text each time.                  *)
(***************************************************************************)
EXTENDS Integers, FiniteSetsExt

CONSTANT MaxN          \* bound: n; 10000 in the benchmarks

VARIABLES method, n,
          i,           \* the loop
          second,      \* the next write is that of str2
          len, cap,    \* of the text
          copied       \* the bytes copied so far

vars == <<method, n, i, second, len, cap, copied>>

\* Mistake: with + the old text is extended.
GrowingTooMany == {"DemoBytesBuffer", "DemoWriteString", "DemoAppend", "DemoPlus"}
Growing == {"DemoBytesBuffer", "DemoWriteString", "DemoAppend"}
Rebuilding == {"DemoPlus", "DemoStringsJoin", "DemoSprintf"}

Init ==
  /\ method \in {"DemoBytesBuffer", "DemoWriteString", "DemoAppend"} \cup Rebuilding
  /\ n = MaxN /\ i = 0 /\ second = FALSE
  /\ len = 0 /\ cap = 0 /\ copied = 0

Piece == IF second THEN 7 ELSE 6

\* The capacities a text of c bytes of room may get when it needs m.
CapacitiesExact(c, m) == {m}                 \* mistake: no room to spare
Capacities(c, m) == {Max({m, c + ((c + 3) \div 4)}), Max({m, 2 * c})}

Step ==
  /\ second' = ~second /\ i' = IF second THEN i + 1 ELSE i
  /\ len' = len + Piece
  /\ UNCHANGED <<method, n>>

Extend ==
  /\ i < n /\ method \in Growing /\ Step
  /\ IF len' <= cap
       THEN copied' = copied + Piece /\ UNCHANGED cap
       ELSE copied' = copied + len' /\ cap' \in Capacities(cap, len')

Rebuild ==
  /\ i < n /\ method \notin Growing /\ Step
  /\ cap' = len' /\ copied' = copied + len'

Terminated == i = n /\ UNCHANGED vars

Next == Extend \/ Rebuild \/ Terminated

Spec == Init /\ [][Next]_vars

-----------------------------------------------------------------------------
(* Properties *)

\* The three ways that keep their capacity copy each byte at most six times
\* on the average, however unluckily the text grows.
LinearWork == method \notin Rebuilding => copied <= 6 * len

\* The other three copy in proportion to the square of the length, which is
\* why the notes warn of + for many concatenations.
QuadraticWork == method \in Rebuilding => 14 * copied >= len * len
=============================================================================
