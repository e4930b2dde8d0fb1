------------------------------ MODULE Iterate ------------------------------
(***************************************************************************)
(* A for loop: Step is what the loop's body makes of d for one element, c  *)
(* what the body reads and does not change.                                *)
(***************************************************************************)
EXTENDS Naturals, Sequences

CONSTANT Step(_, _, _)

\* What d has become when the body has run for every element of seq in turn.
Over(c, d, seq) ==
    LET after[i \in 0 .. Len(seq)] == IF i = 0 THEN d ELSE Step(c, after[i - 1], seq[i])
    IN  after[Len(seq)]
=============================================================================
