---------------------------- MODULE MCEventQueue ----------------------------
(* Instances of EventQueue for TLC.                                        *)
EXTENDS EventQueue, TLC

CONSTANTS e1, e2, e3, e4, c1, c2

\* Every event raises and lowers the receiving counter.
AllSyncHeader == [e \in Events |-> "SYNC_HEADER"]

\* One event raises and lowers the sending counter, the others only raise the
\* receiving counter: where the order of the events is the question, the steps
\* of the counters only multiply the states.
SendAndUpdates ==
    [e \in Events |-> IF e = e1 THEN "SEND_MAIL" ELSE "UPDATE_MAIL"]

NoCancel == {}
CancelAny == Statuses

Symmetry == Permutations(Clients) \cup Permutations(Events)
=============================================================================
