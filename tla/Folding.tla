------------------------------ MODULE Folding ------------------------------
(***************************************************************************)
(* A loop as a function: what is left of a first value when a step was     *)
(* made for every element of a sequence.  The step is a function of the    *)
(* value and of the element, so that a proof can speak of every step.      *)
(***************************************************************************)
EXTENDS Naturals, Sequences

(* What the step f makes of the elements one after the other.              *)
Results(f, first, elements) ==
  LET result[n \in 0..Len(elements)] == IF n = 0 THEN first ELSE f[result[n - 1]][elements[n]]
  IN result
Fold(f, first, elements) == Results(f, first, elements)[Len(elements)]
=============================================================================
