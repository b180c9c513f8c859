----------------------------- MODULE AtomicBox ------------------------------
(***************************************************************************)
(* goroutine/demo_atomic.go without demo4: the programs demo1, demo2,      *)
(* demo3 and demo, which store values of several types in an atomic.Value, *)
(* and the type atomicValue, which refuses a value of another type with an *)
(* error where atomic.Value panics. In the program "clients" several       *)
(* goroutines share one atomicValue, as it is meant for.                   *)
(*                                                                         *)
(* Store and Load of atomic.Value are one step. "nil" stands for the       *)
(* interface without a value, and for a box nothing was stored in.         *)
(***************************************************************************)
EXTENDS Integers, Sequences

CONSTANTS Clients,     \* the goroutines of the program "clients"
          MaxStores    \* bound: the calls of Store each of them makes

VARIABLES prog, step,
          boxes,       \* name -> the value in that atomic.Value
          t,           \* the type an atomicValue was made for; "nil" if there is none
          arg,         \* client -> the value of the Store that has passed its tests, or "none"
          calls,       \* client -> its calls of Store
          succeeded,   \* some Store of the atomicValue has returned without error
          panicked

vars == <<prog, step, boxes, t, arg, calls, succeeded, panicked>>

\* The dynamic types of the values of the programs; v4 and v41 are errors.
TypeOf ==
  [v1 |-> "[3]int", text |-> "string", number |-> "int",
   v4 |-> "*errorString", v41 |-> "*errorString", v42 |-> "*PathError", nil |-> "nil"]
Values == DOMAIN TypeOf
Boxes == {"box", "box2", "box4", "box5"}   \* box5 is the v of an atomicValue

Op(op, box, v) == [op |-> op, box |-> box, v |-> v]
demo1 == <<Op("copy", "box", "nil"), Op("store", "box", "v1"), Op("store", "box2", "text")>>
demo2 == <<Op("store", "box", "text"), Op("store", "box", "number")>>
demo3 == <<Op("store", "box", "nil")>>
demo == <<Op("store", "box4", "v4"), Op("store", "box4", "v41"), Op("new", "box5", "v4"),
          Op("try", "box5", "v41"), Op("try", "box5", "v42")>>
clients == <<Op("new", "box5", "v4")>>
Programs == [demo1 |-> demo1, demo2 |-> demo2, demo3 |-> demo3, demo |-> demo, clients |-> clients]

Init ==
  /\ prog \in DOMAIN Programs /\ step = 1
  /\ boxes = [b \in Boxes |-> "nil"]
  /\ t = "nil"
  /\ arg = [c \in Clients |-> "none"] /\ calls = [c \in Clients |-> 0]
  /\ succeeded = FALSE
  /\ panicked = FALSE

Script == Programs[prog]
At(op) == ~panicked /\ step <= Len(Script) /\ Script[step].op = op

\* atomic.Value.Store
Store(b, v) ==
  IF v = "nil" \/ (boxes[b] # "nil" /\ TypeOf[boxes[b]] # TypeOf[v])
    THEN panicked' = TRUE /\ UNCHANGED boxes
    ELSE boxes' = [boxes EXCEPT ![b] = v] /\ UNCHANGED panicked

\* The tests of atomicValue.Store, lines 133 to 139.
AcceptedAny(v) == v # "nil"                  \* mistake: the type is not compared
Accepted(v) == v # "nil" /\ TypeOf[v] = t

\* box2 := box
Copy ==
  /\ At("copy")
  /\ boxes' = [boxes EXCEPT !["box2"] = boxes["box"]]
  /\ step' = step + 1
  /\ UNCHANGED <<prog, t, arg, calls, succeeded, panicked>>

StoreRaw ==
  /\ At("store")
  /\ Store(Script[step].box, Script[step].v)
  /\ step' = step + 1
  /\ UNCHANGED <<prog, t, arg, calls, succeeded>>

\* What the new value is tested against; the mistake keeps the example itself.
ExampleOnly(v) == v
Example(v) == TypeOf[v]

\* The clients' example is anything; for nil there is an error and no value.
NewAtomicValue ==
  /\ At("new")
  /\ \E v \in IF prog = "clients" THEN Values ELSE {Script[step].v} : t' = Example(v)
  /\ step' = step + 1
  /\ UNCHANGED <<prog, boxes, arg, calls, succeeded, panicked>>

\* atomicValue.Store of the one goroutine of demo.
StoreChecked ==
  /\ At("try")
  /\ IF Accepted(Script[step].v)
       THEN Store("box5", Script[step].v) /\ succeeded' = TRUE
       ELSE UNCHANGED <<boxes, panicked, succeeded>>
  /\ step' = step + 1
  /\ UNCHANGED <<prog, t, arg, calls>>

\* atomicValue.Store of a client: its tests, then the Store inside.
Check(c) ==
  /\ prog = "clients" /\ step > Len(Script) /\ t # "nil" /\ ~panicked
  /\ arg[c] = "none" /\ calls[c] < MaxStores
  /\ calls' = [calls EXCEPT ![c] = @ + 1]
  /\ \E v \in Values : arg' = IF Accepted(v) THEN [arg EXCEPT ![c] = v] ELSE arg
  /\ UNCHANGED <<prog, step, boxes, t, succeeded, panicked>>

StoreAccepted(c) ==
  /\ ~panicked /\ arg[c] # "none"
  /\ Store("box5", arg[c])
  /\ arg' = [arg EXCEPT ![c] = "none"]
  /\ succeeded' = (succeeded \/ ~panicked')
  /\ UNCHANGED <<prog, step, t, calls>>

Finished == step > Len(Script) /\ \A c \in Clients : arg[c] = "none"
Terminated == (panicked \/ Finished) /\ UNCHANGED vars

Next ==
  \/ Copy \/ StoreRaw \/ NewAtomicValue \/ StoreChecked
  \/ \E c \in Clients : Check(c) \/ StoreAccepted(c)
  \/ Terminated

Spec == Init /\ [][Next]_vars

-----------------------------------------------------------------------------
(* Properties *)

\* Every variable has its type.
TypeOK ==
  /\ prog \in DOMAIN Programs /\ step \in 1..6
  /\ boxes \in [Boxes -> Values] /\ t \in {TypeOf[v] : v \in Values}
  /\ arg \in [Clients -> Values \cup {"none"}] /\ calls \in [Clients -> 0..MaxStores]
  /\ succeeded \in BOOLEAN /\ panicked \in BOOLEAN

\* A Store panics in demo2, as line 41 announces, and in demo3, which stores
\* nil (47), and in no other program: a copied box takes another type (line 30), and no mixture
\* of concurrent stores makes an atomicValue panic.
PanicsWhereAnnounced ==
  /\ panicked => prog \in {"demo2", "demo3"}
  /\ Finished => panicked = (prog \in {"demo2", "demo3"})

\* What Load of an atomicValue returns has the type it was made for, and is
\* something once one Store has succeeded, whatever else was refused.
LoadIsTyped ==
  /\ boxes["box5"] # "nil" => TypeOf[boxes["box5"]] = t
  /\ succeeded => boxes["box5"] # "nil"
=============================================================================
