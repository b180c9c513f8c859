-------------------------------- MODULE Slot --------------------------------
(***************************************************************************)
(* What a mailbox with room for one letter promises: letters are posted    *)
(* and taken strictly in turn, and in the end all of them are.             *)
(***************************************************************************)
EXTENDS Naturals

CONSTANT Letters        \* how many letters are to go through

VARIABLES sent, taken

Init == sent = 0 /\ taken = 0

Post == sent = taken /\ sent' = sent + 1 /\ taken' = taken

Take == sent = taken + 1 /\ taken' = taken + 1 /\ sent' = sent

Next == Post \/ Take

Safe == Init /\ [][Next]_<<sent, taken>>

Delivered == <>[](taken = Letters)

Spec == Safe /\ Delivered
=============================================================================
