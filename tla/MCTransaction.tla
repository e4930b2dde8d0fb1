--------------------------- MODULE MCTransaction ---------------------------
(* Instances of Transaction: three or four jobs of two or three threads.   *)
EXTENDS Transaction, TLC

CONSTANTS t1, t2, t3, j1, j2, j3, j4

\* The functions that take the authority and give it back exactly once.
PairedKinds == (j1 :> "storage") @@ (j2 :> "core") @@ (j3 :> "storage") @@ (j4 :> "core")
\* BEGIN may be refused where it is looked at, and any statement may fail.
PairedFaults ==
    [k \in Kinds |-> IF k \in ByMacro THEN {"busy", "sql"} ELSE {"sql"}]

\* The functions that look at the result of END.
CheckedKinds == (j1 :> "move") @@ (j2 :> "core") @@ (j3 :> "delete") @@ (j4 :> "storage")
AllFaults == [k \in Kinds |-> FaultKinds]
=============================================================================
