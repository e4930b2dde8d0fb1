------------------------------- MODULE MCIpc ------------------------------
(* Two processes, one of them with two threads, for TLC. *)
EXTENDS Ipc

CONSTANTS a1, a2, t1, t2, t3, c1, c2

MCAppOf == [t \in Threads |-> IF t = t3 THEN a2 ELSE a1]
MCMaxCalls == [t \in Threads |-> 1]
\* Short requests and a fault, or long ones or large answers of both processes.
MCWorks ==
    {[long |-> {}, large |-> {}, faults |-> 1], [long |-> {t1, t3}, large |-> {}, faults |-> 0],
     [long |-> {}, large |-> {t1, t3}, faults |-> 0]}
=============================================================================
