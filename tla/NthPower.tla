------------------------------ MODULE NthPower ------------------------------
(***************************************************************************)
(* nth_power of function/test_closure2.go: a closure over exp that raises  *)
(* its argument to that power by squaring. main makes two closures and     *)
(* calls each once; here one closure is called up to MaxCalls times. The   *)
(* arithmetic is that of uint64, with words of W values.                   *)
(***************************************************************************)
EXTENDS Integers

CONSTANTS W,           \* the number of words; 2^64 in the code
          Exps, Bases, \* the arguments of nth_power and of the closure
          MaxCalls     \* bound: the calls of one closure

VARIABLES exp,         \* the captured variable
          arg,         \* the argument of the call under way, for the properties
          i, base, result,
          calls,
          pc           \* "called" or "returned"

vars == <<exp, arg, i, base, result, calls, pc>>

Init ==
  /\ exp \in Exps
  /\ arg = 1 /\ i = 0 /\ base = 1 /\ result = 1
  /\ calls = 0
  /\ pc = "returned"

\* A call of the closure: the loop runs on a copy of exp.
Call ==
  /\ pc = "returned" /\ calls < MaxCalls
  /\ arg' \in Bases
  /\ base' = arg'
  /\ result' = 1 /\ i' = exp
  /\ calls' = calls + 1
  /\ pc' = "called"
  /\ UNCHANGED exp

HalvedUp(n) == (n + 1) \div 2          \* mistake: rounded up
Halved(n) == n \div 2

MultipliedLate(r, b, n) == IF n % 2 # 0 THEN (r * b * b) % W ELSE r   \* mistake: base squared first
Multiplied(r, b, n) == IF n % 2 # 0 THEN (r * b) % W ELSE r

\* The captured variable after an iteration; the mistake is to loop on it.
CapturedShared(n) == n
Captured(n) == exp

Loop ==
  /\ pc = "called" /\ i > 0
  /\ result' = Multiplied(result, base, i)
  /\ base' = (base * base) % W
  /\ i' = Halved(i)
  /\ exp' = Captured(Halved(i))
  /\ UNCHANGED <<arg, calls, pc>>

Return ==
  /\ pc = "called" /\ i = 0
  /\ pc' = "returned"
  /\ UNCHANGED <<exp, arg, i, base, result, calls>>

Terminated == pc = "returned" /\ calls = MaxCalls /\ UNCHANGED vars

Goes == Loop \/ Return

Next == Call \/ Goes \/ Terminated

Spec == Init /\ [][Next]_vars /\ WF_vars(Goes)

-----------------------------------------------------------------------------
(* Properties *)

\* The reference definition: n factors b, in words.
Power(b, n) ==
  LET p[k \in 0..n] == IF k = 0 THEN 1 % W ELSE (p[k - 1] * b) % W IN p[n]

\* The invariant of the loop at lines 12-17: what has been multiplied, times
\* what is left of the base to the power of what is left of the exponent.
LoopInvariant ==
  pc = "called" => (result * Power(base, i)) % W = Power(arg, exp)

\* Each call of the closure, the second one too, returns the power of its own
\* argument, overflow included: the calls share exp and must leave it alone.
ReturnsPower ==
  pc = "returned" /\ calls > 0 => result % W = Power(arg, exp)

Called == pc = "called"
=============================================================================
