------------------------------ MODULE SlotRing ------------------------------
(***************************************************************************)
(* The slot arithmetic shared by the two event queues of                   *)
(* email-core-event.c, g_event_que and g_send_event_que.  Both are arrays  *)
(* of EVENT_QUEUE_MAX slots whose slot 0 is never used, because handle 0   *)
(* means "no job"; both are read at one index that wraps to 1, and both    *)
(* are filled at the first free slot found from that index on.             *)
(***************************************************************************)
EXTENDS Integers

CONSTANT QueueMax              \* EVENT_QUEUE_MAX, 32 in the source

ASSUME QueueMaxAssumption == QueueMax \in Nat /\ QueueMax >= 3

Slots == 1 .. (QueueMax - 1)

\* Mutant: the index does not move.
NextSlotStuck(i) == i

\* `if (++g_event_que_idx >= EVENT_QUEUE_MAX) g_event_que_idx = 1;`
NextSlot(i) == IF i + 1 >= QueueMax THEN 1 ELSE i + 1

\* How many slots a search that starts at slot `from` and wraps to 1 passes
\* before it looks at slot j.
Distance(from, j) == IF j >= from THEN j - from ELSE j - from + (QueueMax - 1)

\* Mutants: the search does not test the slot; it starts behind the read index;
\* it starts at slot 1.
IsInsertSlotUntested(free, from, j) == j = from
IsInsertSlotBehind(free, from, j) ==
    /\ j \in free
    /\ \A k \in free : Distance(NextSlot(from), j) <= Distance(NextSlot(from), k)
IsInsertSlotLowest(free, from, j) == j \in free /\ \A k \in free : j <= k

\* The slot an insertion takes: the slot at the read index if it is free,
\* otherwise the first free one after it.  False for every j when none is free.
IsInsertSlot(free, from, j) ==
    /\ j \in free
    /\ \A k \in free : Distance(from, j) <= Distance(from, k)
=============================================================================
