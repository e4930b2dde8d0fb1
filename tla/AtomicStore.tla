---------------------------- MODULE AtomicStore ----------------------------
(***************************************************************************)
(* What a transaction of the mail store promises its caller: the job takes *)
(* place whole and in one step and succeeds, or leaves nothing behind and  *)
(* fails.                                                                  *)
(***************************************************************************)
CONSTANT Jobs

VARIABLES
    stored,     \* the jobs of which there is anything in the store
    whole,      \* the jobs that are there entirely
    answered    \* what each caller was told

vars == <<stored, whole, answered>>

Init ==
    /\ stored = {} /\ whole = {}
    /\ answered = [j \in Jobs |-> "nothing"]

Succeed(j) ==
    /\ answered[j] = "nothing" /\ j \notin stored
    /\ stored' = stored \cup {j} /\ whole' = whole \cup {j}
    /\ answered' = [answered EXCEPT ![j] = "ok"]

Fail(j) ==
    /\ answered[j] = "nothing"
    /\ answered' = [answered EXCEPT ![j] = "failed"]
    /\ UNCHANGED <<stored, whole>>

Next == \E j \in Jobs : Succeed(j) \/ Fail(j)

Spec == Init /\ [][Next]_vars
=============================================================================
