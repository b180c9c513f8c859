--------------------------- MODULE ConcurrentMap ---------------------------
(***************************************************************************)
(* map/sync_map.go: two dictionaries for concurrent use built on sync.Map. *)
(* IntStrMap fixes its types at compile time; ConcurrentMap keeps a key    *)
(* and a value type, tests every argument against them with reflect, and   *)
(* on a wrong type either does nothing (Load, Delete) or panics (Store,    *)
(* LoadOrStore). A client is a goroutine that makes a list of calls.       *)
(*                                                                         *)
(* A sync.Map holds interface values: <<type, value>>, or nil. An argument *)
(* is written as the interface value that reaches the sync.Map. What comes *)
(* out of it a ConcurrentMap returns as it is, and an IntStrMap as an int  *)
(* or a string, which it takes out of the interface value.                 *)
(*                                                                         *)
(* An operation of sync.Map on one key is atomic. Its Range takes the keys *)
(* at its start and looks each of them up as it comes to it.               *)
(***************************************************************************)
EXTENDS Integers, Sequences, FiniteSets, Functions

CONSTANTS KeyType, ValueType,   \* of the ConcurrentMap: sets of <<type, value>>
          Programs,   \* sequence of programs: client -> sequence of calls,
                      \* [op, map, k, v]; k and v are Nothing where op has none
          Nothing     \* nil

Map == {"iMap", "cMap"}

VARIABLES program,    \* the index of the program that runs
          m,          \* m[d]: the contents of dictionary d
          pc,         \* of each client: the index of its next call
          pending,    \* of each client: the keys its Range has still to look up
          ranging,    \* of each client: whether it is inside Range
          answers,    \* of each client: what its calls have returned, or printed
          agreed,     \* <<d, k, v>>: v is what a LoadOrStore has returned for k
                      \* since the last Store or Delete of k in d
          panicked

vars == <<program, m, pc, pending, ranging, answers, agreed, panicked>>
rangeVars == <<pending, ranging>>

Clients == DOMAIN Programs[program]

Init ==
  /\ program \in 1..Len(Programs)
  /\ m = [d \in Map |-> [k \in {} |-> Nothing]]
  /\ pc = [c \in Clients |-> 1]
  /\ pending = [c \in Clients |-> {}] /\ ranging = [c \in Clients |-> FALSE]
  /\ answers = [c \in Clients |-> <<>>]
  /\ agreed = {}
  /\ panicked = FALSE

More(c) == ~panicked /\ c \in Clients /\ pc[c] <= Len(Programs[program][c])

Call(c) == Programs[program][c][pc[c]]

Calls(c, op) == More(c) /\ Call(c).op = op

Advance(c) == pc' = [pc EXCEPT ![c] = @ + 1]

Answer(c, a) == answers' = [answers EXCEPT ![c] = Append(@, a)]

\* reflect.TypeOf(x) is the declared type. An IntStrMap has no such test.
KeyFits(x) == x.map = "iMap" \/ x.k \in KeyType
ValueFits(x) == x.map = "iMap" \/ x.v \in ValueType

With(f, k, v) == [l \in DOMAIN f \cup {k} |-> IF l = k THEN v ELSE f[l]]

\* The value d returns when its sync.Map returns v: v.(string) from an IntStrMap,
\* whose result stays "" when v is nil.
Returned(d, v) == IF d = "cMap" THEN v ELSE IF v = Nothing THEN "" ELSE v[2]

\* The pair that the function given to Range of d is called with.
Iterated(d, k, v) == IF d = "cMap" THEN <<k, v>> ELSE <<k[2], v[2]>>

Forgotten(d, k) == {a \in agreed : a[1] # d \/ a[2] # k}

Panic(c) == panicked' = TRUE /\ UNCHANGED <<m, pc, answers, agreed>>

-----------------------------------------------------------------------------

StoreUntested(c) ==
  /\ Calls(c, "Store")
  /\ LET x == Call(c) IN
       IF ~KeyFits(x) THEN Panic(c)
       ELSE /\ m' = [m EXCEPT ![x.map] = With(@, x.k, x.v)]
            /\ agreed' = Forgotten(x.map, x.k)
            /\ Advance(c)
            /\ UNCHANGED <<answers, panicked>>
  /\ UNCHANGED <<program, rangeVars>>

Store(c) ==
  /\ Calls(c, "Store")
  /\ LET x == Call(c) IN
       IF ~KeyFits(x) \/ ~ValueFits(x) THEN Panic(c)
       ELSE /\ m' = [m EXCEPT ![x.map] = With(@, x.k, x.v)]
            /\ agreed' = Forgotten(x.map, x.k)
            /\ Advance(c)
            /\ UNCHANGED <<answers, panicked>>
  /\ UNCHANGED <<program, rangeVars>>

\* The value and whether there was one.
LoadAsserting(c) ==
  /\ Calls(c, "Load")
  /\ LET x == Call(c)
         ok == KeyFits(x) /\ x.k \in DOMAIN m[x.map]
         v == IF ok THEN m[x.map][x.k] ELSE Nothing
     IN IF x.map = "iMap" /\ v = Nothing THEN Panic(c)
        ELSE /\ Answer(c, [op |-> "Load", value |-> Returned(x.map, v), found |-> ok])
             /\ Advance(c)
             /\ UNCHANGED <<m, agreed, panicked>>
  /\ UNCHANGED <<program, rangeVars>>

Load(c) ==
  /\ Calls(c, "Load")
  /\ LET x == Call(c)
         ok == KeyFits(x) /\ x.k \in DOMAIN m[x.map]
         v == IF ok THEN m[x.map][x.k] ELSE Nothing
     IN Answer(c, [op |-> "Load", value |-> Returned(x.map, v), found |-> ok])
  /\ Advance(c)
  /\ UNCHANGED <<program, m, rangeVars, agreed, panicked>>

\* The value that is there afterwards, and whether it was there before.
LoadOrStoreLosingLoaded(c) ==
  /\ Calls(c, "LoadOrStore")
  /\ LET x == Call(c)
         loaded == x.k \in DOMAIN m[x.map]
         actual == IF loaded THEN m[x.map][x.k] ELSE x.v
     IN IF ~KeyFits(x) \/ ~ValueFits(x) THEN Panic(c)
        ELSE /\ m' = [m EXCEPT ![x.map] = With(@, x.k, actual)]
             /\ Answer(c, [op |-> "LoadOrStore", value |-> Returned(x.map, actual),
                           found |-> loaded /\ x.map = "iMap"])
             /\ agreed' = agreed \cup {<<x.map, x.k, actual>>}
             /\ Advance(c)
             /\ UNCHANGED panicked
  /\ UNCHANGED <<program, rangeVars>>

LoadOrStore(c) ==
  /\ Calls(c, "LoadOrStore")
  /\ LET x == Call(c)
         loaded == x.k \in DOMAIN m[x.map]
         actual == IF loaded THEN m[x.map][x.k] ELSE x.v
     IN IF ~KeyFits(x) \/ ~ValueFits(x) THEN Panic(c)
        ELSE /\ m' = [m EXCEPT ![x.map] = With(@, x.k, actual)]
             /\ Answer(c, [op |-> "LoadOrStore", value |-> Returned(x.map, actual),
                           found |-> loaded])
             /\ agreed' = agreed \cup {<<x.map, x.k, actual>>}
             /\ Advance(c)
             /\ UNCHANGED panicked
  /\ UNCHANGED <<program, rangeVars>>

Delete(c) ==
  /\ Calls(c, "Delete")
  /\ LET x == Call(c) IN
       IF KeyFits(x)
         THEN /\ m' = [m EXCEPT ![x.map] = Restrict(m[x.map], DOMAIN m[x.map] \ {x.k})]
              /\ agreed' = Forgotten(x.map, x.k)
         ELSE UNCHANGED <<m, agreed>>
  /\ Advance(c)
  /\ UNCHANGED <<program, rangeVars, answers, panicked>>

-----------------------------------------------------------------------------
(* Range, with a function that prints the pair and returns true *)

RangeStart(c) ==
  /\ Calls(c, "Range") /\ ~ranging[c]
  /\ ranging' = [ranging EXCEPT ![c] = TRUE]
  /\ pending' = [pending EXCEPT ![c] = DOMAIN m[Call(c).map]]
  /\ Answer(c, [op |-> "Range", pairs |-> {}])
  /\ UNCHANGED <<program, m, pc, agreed, panicked>>

\* A key that has been deleted in the meantime is passed over.
RangeVisit(c) ==
  /\ Calls(c, "Range") /\ ranging[c]
  /\ \E k \in pending[c] :
       /\ pending' = [pending EXCEPT ![c] = @ \ {k}]
       /\ LET d == Call(c).map IN
            answers' = IF k \in DOMAIN m[d]
                         THEN [answers EXCEPT ![c][Len(answers[c])].pairs =
                                                 @ \cup {Iterated(d, k, m[d][k])}]
                         ELSE answers
  /\ UNCHANGED <<program, m, pc, ranging, agreed, panicked>>

RangeEnd(c) ==
  /\ Calls(c, "Range") /\ ranging[c] /\ pending[c] = {}
  /\ ranging' = [ranging EXCEPT ![c] = FALSE]
  /\ Advance(c)
  /\ UNCHANGED <<program, m, pending, answers, agreed, panicked>>

Step(c) ==
  \/ Store(c) \/ Load(c) \/ LoadOrStore(c) \/ Delete(c)
  \/ RangeStart(c) \/ RangeVisit(c) \/ RangeEnd(c)

Exited == panicked \/ \A c \in Clients : ~More(c)

Terminated == Exited /\ UNCHANGED vars

Next == (\E c \in Clients : Step(c)) \/ Terminated

Spec == Init /\ [][Next]_vars

-----------------------------------------------------------------------------
(* Properties *)

\* Whatever is called with whatever arguments, a ConcurrentMap holds only keys
\* and values of its types: both writers test both arguments before they write.
TypeOK ==
  /\ \A k \in DOMAIN m["cMap"] : k \in KeyType /\ m["cMap"][k] \in ValueType
  /\ \A c \in Clients : pending[c] # {} => ranging[c]

\* Everybody who has called LoadOrStore for a key holds the value that is in the
\* dictionary, until somebody stores or deletes it: there is one winner.
LoadOrStoreAgree ==
  \A a \in agreed : a[2] \in DOMAIN m[a[1]] /\ m[a[1]][a[2]] = a[3]

\* A client alone that makes the same calls first on an IntStrMap and then on a
\* ConcurrentMap of its types: nothing panics, and each call on the one reports
\* what that on the other does. A value of the IntStrMap is the string inside the
\* other's interface value, and "" stands for the nil of a missing key.
Repeats(c) ==
  LET calls == Programs[program][c]
      n == Len(calls) \div 2
  IN /\ Clients = {c} /\ Len(calls) = 2 * n
     /\ \A i \in 1..n : /\ calls[i].map = "iMap"
                        /\ calls[n + i] = [calls[i] EXCEPT !.map = "cMap"]

Boxed(p) == << <<"int", p[1]>>, <<"string", p[2]>> >>

Corresponds(a, b) ==
  /\ a.op = b.op
  /\ IF a.op = "Range" THEN b.pairs = {Boxed(p) : p \in a.pairs}
     ELSE /\ a.found = b.found
          /\ IF a.op = "Load" /\ ~a.found THEN a.value = "" /\ b.value = Nothing
             ELSE b.value = <<"string", a.value>>

AnswersCorrespond ==
  \A c \in Clients :
    LET n == Len(answers[c]) \div 2 IN
    (Repeats(c) /\ Exited) =>
      /\ ~panicked /\ Len(answers[c]) = 2 * n
      /\ \A i \in 1..n : Corresponds(answers[c][i], answers[c][n + i])
=============================================================================
