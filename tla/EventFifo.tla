----------------------------- MODULE EventFifo -----------------------------
(***************************************************************************)
(* What the ring of the partial body download thread promises its users:   *)
(* a queue of bounded length, worked off one event at a time in the order  *)
(* of insertion, that can be emptied at any time, with two flags that      *)
(* always say whether it is empty and whether it is full.                  *)
(***************************************************************************)
EXTENDS Sequences, Naturals

CONSTANTS Event, Nothing, Capacity

VARIABLES pending, current, saysEmpty, saysFull

vars == <<pending, current, saysEmpty, saysFull>>

FlagsFollow ==
    /\ saysEmpty' = (pending' = <<>>)
    /\ saysFull' = (Len(pending') = Capacity)

Init ==
    /\ pending = <<>> /\ current = Nothing
    /\ saysEmpty = TRUE /\ saysFull = FALSE

\* The event at the end of pending' is any event: there are infinitely many.
Put ==
    /\ Len(pending) < Capacity /\ pending' # <<>>
    /\ LET e == pending'[Len(pending')] IN
          e \in Event /\ pending' = Append(pending, e)
    /\ FlagsFollow
    /\ UNCHANGED current

Take ==
    /\ current = Nothing /\ pending # <<>>
    /\ current' = Head(pending) /\ pending' = Tail(pending)
    /\ FlagsFollow

Finish ==
    /\ current # Nothing
    /\ current' = Nothing
    /\ UNCHANGED <<pending, saysEmpty, saysFull>>

Clear ==
    /\ pending' = <<>>
    /\ FlagsFollow
    /\ UNCHANGED current

Next == Put \/ Take \/ Finish \/ Clear

Spec == Init /\ [][Next]_vars
=============================================================================
