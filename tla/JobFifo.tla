------------------------------ MODULE JobFifo ------------------------------
(***************************************************************************)
(* What an event loop promises its callers, without rings and indices:     *)
(* jobs are put at the end of a queue of bounded length and one thread     *)
(* runs them one at a time, in the order in which they were accepted.      *)
(***************************************************************************)
EXTENDS Sequences, Naturals

CONSTANTS Jobs, NoJob, Capacity

VARIABLES
    pending,   \* the accepted jobs, oldest first
    running,   \* the job that is being run, or NoJob
    open       \* the loop is not being stopped

vars == <<pending, running, open>>

Init == pending = <<>> /\ running = NoJob /\ open = TRUE

Put(e) ==
    /\ open /\ Len(pending) < Capacity
    /\ pending' = Append(pending, e)
    /\ UNCHANGED <<running, open>>

Take ==
    /\ open /\ running = NoJob /\ pending # <<>>
    /\ running' = Head(pending)
    /\ pending' = Tail(pending)
    /\ UNCHANGED open

Finish ==
    /\ open /\ running # NoJob
    /\ running' = NoJob
    /\ UNCHANGED <<pending, open>>

\* Once the loop is being stopped nothing is promised any more.
Close ==
    /\ open
    /\ open' = FALSE /\ pending' = <<>> /\ running' = NoJob

Next == (\E e \in Jobs : Put(e)) \/ Take \/ Finish \/ Close

Spec == Init /\ [][Next]_vars
=============================================================================
