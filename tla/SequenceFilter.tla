----------------------------- MODULE SequenceFilter -----------------------------
(***************************************************************************)
(* The elements of a sequence that are in a set, in their order.  This is  *)
(* SelectSeq with a set for its test: the provers know nothing of          *)
(* SelectSeq, and what follows from this definition is proved in           *)
(* SequenceFilterProofs.                                                   *)
(***************************************************************************)
EXTENDS Integers, Sequences

Only(q, S) ==
    LET kept[n \in 0..Len(q)] ==
            IF n = 0 THEN << >>
            ELSE IF q[n] \in S THEN Append(kept[n - 1], q[n]) ELSE kept[n - 1]
    IN  kept[Len(q)]
=============================================================================
