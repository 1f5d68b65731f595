------------------------------ MODULE Selections ------------------------------
(***************************************************************************)
(* The elements of a sequence that stand at some of its indices, in their  *)
(* order: what a loop that copies some entries of a vector makes.  (The    *)
(* SelectSeq of the standard modules is a RECURSIVE operator.)             *)
(***************************************************************************)
EXTENDS Naturals, Sequences

(* What the loop has copied after i elements, for every i. *)
PickedUpTo(s, keep) ==
  LET picked[i \in 0 .. Len(s)] ==
        IF i = 0 THEN << >>
        ELSE IF i \in keep THEN Append(picked[i - 1], s[i])
        ELSE picked[i - 1]
  IN  picked

Picked(s, keep) == PickedUpTo(s, keep)[Len(s)]
=============================================================================
