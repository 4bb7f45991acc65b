------------------------------ MODULE PackPointer ------------------------------
(***************************************************************************)
(* What a lesson pack's activation promises to whoever renders the lesson: *)
(* the pack shown is always a whole one, it is replaced in one step, and a *)
(* device that once had a pack is never left without one.                  *)
(***************************************************************************)
CONSTANTS Packs, NoPack

VARIABLES
    shown,    \* the pack the lesson's pointer names
    whole     \* the packs whose every asset is on the card

Init == shown = NoPack /\ whole = {}

Complete(k) == whole' = whole \cup {k} /\ UNCHANGED shown

\* A pack in use loses no file.
Drop(k) == k # shown /\ whole' = whole \ {k} /\ UNCHANGED shown

Switch(k) == k \in whole /\ shown' = k /\ UNCHANGED whole

Next == \E k \in Packs : Complete(k) \/ Drop(k) \/ Switch(k)

Spec == Init /\ [][Next]_<<shown, whole>>
=============================================================================
