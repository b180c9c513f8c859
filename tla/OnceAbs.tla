------------------------------ MODULE OnceAbs ------------------------------
(***************************************************************************)
(* What a sync.Once promises to the phases of a program that gives each    *)
(* phase a Once of its own: one of the functions that its callers pass to  *)
(* their first Do is chosen and run (to its end or to its panic), no Do    *)
(* returns before that, and the phase ends when every caller has come back *)
(* from Do.                                                                *)
(***************************************************************************)
EXTENDS Naturals

CONSTANTS Function(_),   \* Function(k): the functions callers of phase k first pass to Do
          Caller(_),     \* Caller(k): the callers of phase k
          Phases,        \* number of phases
          NoFunction

VARIABLES phase, chosen, ran,
          returned       \* the callers that have come back from a Do

Init == phase = 1 /\ chosen = NoFunction /\ ran = FALSE /\ returned = {}

Choose ==
  /\ chosen = NoFunction
  /\ chosen' \in Function(phase)
  /\ UNCHANGED <<phase, ran, returned>>

Run ==
  /\ chosen # NoFunction /\ ~ran
  /\ ran' = TRUE
  /\ UNCHANGED <<phase, chosen, returned>>

Return ==
  /\ ran
  /\ \E c \in Caller(phase) : returned' = returned \cup {c}
  /\ UNCHANGED <<phase, chosen, ran>>

NextPhase ==
  /\ returned = Caller(phase) /\ phase < Phases
  /\ phase' = phase + 1 /\ chosen' = NoFunction /\ ran' = FALSE /\ returned' = {}

Next == Choose \/ Run \/ Return \/ NextPhase

Safe == Init /\ [][Next]_<<phase, chosen, ran, returned>>

Completes == <>[](phase = Phases /\ returned = Caller(phase))

Spec == Safe /\ Completes
=============================================================================
