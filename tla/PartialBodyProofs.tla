------------------------- MODULE PartialBodyProofs -------------------------
(***************************************************************************)
(* Proofs about PartialBody, for every ring and batch size, all mails,     *)
(* mailboxes and accounts, and any choice of the faults that may occur.    *)
(***************************************************************************)
EXTENDS PartialBody, FiniteSetTheorems, TLAPS

(***************************************************************************)
(* The inductive invariant.  The flags tell what is in the ring because    *)
(* the used cells follow each other from the index on.  The batch is of    *)
(* one mailbox, and empty during a local activity sync, because what the   *)
(* download thread holds at each of its places is known.                   *)
(***************************************************************************)
Rows == [mail : Mails, id : Nat \ {0}]

\* A thread is in one of its places and holds what its place needs.
Holdings ==
    /\ pc[Pbd] \in PbdPlaces /\ pc[Syncer] \in SyncerPlaces
    /\ pc[Stub] \in StubPlaces /\ pc[Caller] \in CallerPlaces
    /\ ev # NoEvent <=> pc[Pbd] \in Working
    /\ pc[Pbd] = "append" => ev.type = "bulk"
    /\ pc[Pbd] \in {"local", "accounts", "cycle"} => ev.type = "local"
    /\ pc[Syncer] \in {"ask_full", "insert"} => row \in Rows

Contiguous ==
    \A c, d \in Cells : Used(c) /\ Passed(next, d) < Passed(next, c) => Used(d)

IInv ==
    /\ TypeOK /\ Holdings /\ Contiguous /\ FlagsTellTheQueue
    /\ BatchIsOneBox /\ LocalSyncHasNoBatch

USE SizesAssumption, NamesAssumption
USE DEF Procs, Cells, Goto, EventDone, CycleStop, ring, syncVars,
        Events, Rows, NoEvent, LocalSync, NoRow

-----------------------------------------------------------------------------
(* The search order: Passed numbers the cells from 0 to Total - 1.         *)

LEMMA PassedRange ==
  ASSUME NEW a \in Cells, NEW c \in Cells
  PROVE  /\ Passed(a, c) \in 0 .. Total - 1
         /\ Passed(a, c) = 0 <=> c = a
         /\ \A d \in Cells : Passed(a, d) = Passed(a, c) => d = c
  BY DEF Passed

LEMMA PassedWitness ==
  ASSUME NEW a \in Cells, NEW c \in Cells, Passed(a, c) # Total - 1
  PROVE  \E d \in Cells : Passed(a, d) = Passed(a, c) + 1
<1>1. NextCell(c) \in Cells /\ Passed(a, NextCell(c)) = Passed(a, c) + 1
  BY DEF Passed, NextCell
<1> QED  BY <1>1

LEMMA PassedShift ==
  ASSUME NEW a \in Cells, NEW c \in Cells
  PROVE  /\ NextCell(a) \in Cells
         /\ Passed(NextCell(a), c) = IF c = a THEN Total - 1 ELSE Passed(a, c) - 1
  BY DEF Passed, NextCell

-----------------------------------------------------------------------------
(* What the operations of the ring do to the ring.                         *)

\* An empty cell at the index means an empty ring.
LEMMA EmptyAtIndex ==
  ASSUME TypeOK, Contiguous, ~Used(next) PROVE \A c \in Cells : ~Used(c)
<1> SUFFICES ASSUME NEW c \in Cells, Used(c) PROVE FALSE
  OBVIOUS
<1>1. next \in Cells /\ c # next
  BY DEF TypeOK
<1>2. Passed(next, next) < Passed(next, c)
  BY <1>1, PassedRange
<1> QED  BY <1>1, <1>2 DEF Contiguous

LEMMA RingUnchanged ==
  ASSUME Contiguous, FlagsTellTheQueue, UNCHANGED ring
  PROVE  Contiguous' /\ FlagsTellTheQueue'
  BY DEF Contiguous, FlagsTellTheQueue, Used

LEMMA ClearQueueRing ==
  ASSUME TypeOK, Contiguous, FlagsTellTheQueue, ClearQueue
  PROVE  /\ que' \in [Cells -> Events] /\ next' \in Cells
         /\ emptyFlag' \in BOOLEAN /\ fullFlag' \in BOOLEAN
         /\ Contiguous' /\ FlagsTellTheQueue'
<1>1. next \in Cells
  BY DEF TypeOK
<1>2. CASE emptyFlag
  BY <1>2 DEF ClearQueue, TypeOK, Contiguous, FlagsTellTheQueue, Used
<1>3. CASE ~emptyFlag
  <2>1. /\ que' = [c \in Cells |-> NoEvent] /\ emptyFlag' = TRUE
        /\ fullFlag' = FALSE /\ next' = next
    BY <1>3 DEF ClearQueue
  <2>2. \A c \in Cells : que'[c] = NoEvent
    BY <2>1
  <2>3. Contiguous'
    BY <2>2 DEF Contiguous, Used
  <2>4. FlagsTellTheQueue'
    BY <1>1, <2>1, <2>2 DEF FlagsTellTheQueue, Used
  <2> QED  BY <1>1, <2>1, <2>2, <2>3, <2>4
<1> QED  BY <1>2, <1>3

LEMMA InsertRing ==
  ASSUME TypeOK, Contiguous, FlagsTellTheQueue,
         NEW p \in Procs, NEW e \in Events, NEW l, e # NoEvent, Insert(p, e, l)
  PROVE  /\ que' \in [Cells -> Events] /\ next' \in Cells
         /\ emptyFlag' \in BOOLEAN /\ fullFlag' \in BOOLEAN
         /\ Contiguous' /\ FlagsTellTheQueue'
<1>1. PICK c \in Cells :
        /\ IsEmptyCell(c) /\ que' = [que EXCEPT ![c] = e] /\ emptyFlag' = FALSE
        /\ fullFlag' = IF Passed(next, c) = Total - 1 THEN TRUE ELSE fullFlag
        /\ next' = next
  BY DEF Insert
<1>2. /\ next \in Cells /\ que \in [Cells -> Events] /\ fullFlag \in BOOLEAN
      /\ ~Used(c)
  BY <1>1 DEF TypeOK, IsEmptyCell
<1>3. \A d \in Cells : Used(d)' <=> d = c \/ Used(d)
  BY <1>1, <1>2 DEF Used
<1>4. Contiguous'
  <2> SUFFICES ASSUME NEW a \in Cells, NEW b \in Cells,
                      Used(a)', Passed(next, b) < Passed(next, a)
               PROVE  Used(b)'
    BY <1>1 DEF Contiguous
  <2>1. CASE a = c
    BY <1>1, <1>3, <2>1 DEF IsEmptyCell
  <2>2. CASE a # c
    BY <1>3, <2>2 DEF Contiguous
  <2> QED  BY <2>1, <2>2
<1>5. fullFlag' <=> \A d \in Cells : Used(d)'
  <2>1. CASE Passed(next, c) = Total - 1
    <3>1. \A d \in Cells : d # c => Passed(next, d) < Passed(next, c)
      <4> SUFFICES ASSUME NEW d \in Cells, d # c PROVE Passed(next, d) < Passed(next, c)
        OBVIOUS
      <4>1. Passed(next, d) \in 0 .. Total - 1 /\ Passed(next, d) # Passed(next, c)
        BY <1>1, <1>2, PassedRange
      <4> QED  BY <2>1, <4>1
    <3>2. \A d \in Cells : Used(d)'
      BY <1>1, <1>3, <3>1 DEF IsEmptyCell
    <3> QED  BY <1>1, <2>1, <3>2
  <2>2. CASE Passed(next, c) # Total - 1
    <3>1. PICK d \in Cells : Passed(next, d) = Passed(next, c) + 1
      BY <1>1, <1>2, <2>2, PassedWitness
    <3>2. Passed(next, c) \in Int /\ Passed(next, d) \in Int
      BY <1>1, <1>2, <3>1, PassedRange
    <3>3. d # c /\ Passed(next, c) < Passed(next, d)
      BY <3>1, <3>2
    <3>4. ~Used(d)'
      BY <1>2, <1>3, <3>3 DEF Contiguous
    <3>5. fullFlag' = fullFlag /\ ~fullFlag
      BY <1>1, <1>2, <2>2 DEF FlagsTellTheQueue
    <3> QED  BY <3>4, <3>5
  <2> QED  BY <2>1, <2>2
<1>6. FlagsTellTheQueue'
  <2>1. emptyFlag' = FALSE /\ ~(\A d \in Cells : ~Used(d)')
    BY <1>1, <1>3
  <2> QED  BY <1>5, <2>1 DEF FlagsTellTheQueue
<1>7. fullFlag' \in BOOLEAN
  BY <1>1, <1>2
<1> QED  BY <1>1, <1>2, <1>4, <1>6, <1>7

LEMMA InsertFailsRing ==
  ASSUME TypeOK, Contiguous, FlagsTellTheQueue, NEW p \in Procs, NEW l, InsertFails(p, l)
  PROVE  /\ que' = que /\ next' = next
         /\ emptyFlag' \in BOOLEAN /\ fullFlag' \in BOOLEAN
         /\ Contiguous' /\ FlagsTellTheQueue'
<1>1. /\ que' = que /\ next' = next /\ fullFlag' = TRUE /\ emptyFlag' = FALSE
      /\ \A c \in Cells : Used(c)
  BY DEF InsertFails
<1>2. next \in Cells
  BY DEF TypeOK
<1> QED  BY <1>1, <1>2 DEF Contiguous, FlagsTellTheQueue, Used

LEMMA RetrieveRing ==
  ASSUME TypeOK, Contiguous, FlagsTellTheQueue, Retrieve
  PROVE  /\ que' \in [Cells -> Events] /\ next' \in Cells
         /\ emptyFlag' \in BOOLEAN /\ fullFlag' \in BOOLEAN
         /\ Contiguous' /\ FlagsTellTheQueue'
<1>1. next \in Cells /\ que \in [Cells -> Events]
  BY DEF TypeOK
<1>2. CASE ~Used(next)
  <2>1. \A c \in Cells : ~Used(c)
    BY <1>2, EmptyAtIndex
  <2>2. que' = que /\ next' = next /\ emptyFlag' = TRUE /\ fullFlag' = FALSE
    BY <1>2 DEF Retrieve
  <2>3. \A c \in Cells : ~Used(c)'
    BY <2>1, <2>2 DEF Used
  <2> QED  BY <1>1, <2>2, <2>3 DEF Contiguous, FlagsTellTheQueue
<1>3. CASE Used(next)
  <2>1. /\ que' = [que EXCEPT ![next] = NoEvent] /\ next' = NextCell(next)
        /\ fullFlag' = FALSE
        /\ emptyFlag' = IF que'[next'] = NoEvent THEN TRUE ELSE emptyFlag
    BY <1>3 DEF Retrieve
  <2>2. next' \in Cells /\ que' \in [Cells -> Events]
    BY <1>1, <2>1, PassedShift
  <2>3. \A d \in Cells : Used(d)' <=> d # next /\ Used(d)
    BY <1>1, <2>1 DEF Used
  <2>4. Contiguous'
    <3> SUFFICES ASSUME NEW a \in Cells, NEW b \in Cells,
                        Used(a)', Passed(next', b) < Passed(next', a)
                 PROVE  Used(b)'
      BY DEF Contiguous
    <3>1. a # next /\ Used(a)
      BY <2>3
    <3>2. /\ Passed(next', a) = Passed(next, a) - 1
          /\ Passed(next', b) = IF b = next THEN Total - 1 ELSE Passed(next, b) - 1
      BY <1>1, <2>1, <3>1, PassedShift
    <3>3. Passed(next, a) \in 0 .. Total - 1 /\ Passed(next, b) \in 0 .. Total - 1
      BY <1>1, PassedRange
    <3>4. b # next /\ Passed(next, b) < Passed(next, a)
      BY <3>2, <3>3
    <3> QED  BY <2>3, <3>1, <3>4 DEF Contiguous
  <2>5. emptyFlag' <=> \A d \in Cells : ~Used(d)'
    <3>1. CASE que'[next'] = NoEvent
      <4>1. ~Used(next)'
        BY <3>1 DEF Used
      <4>2. \A d \in Cells : ~Used(d)'
        <5> SUFFICES ASSUME NEW d \in Cells, Used(d)' PROVE FALSE
          OBVIOUS
        <5>1. d # next'
          BY <4>1
        <5>2. Passed(next', next') < Passed(next', d)
          BY <2>2, <5>1, PassedRange
        <5> QED  BY <2>2, <2>4, <4>1, <5>2 DEF Contiguous
      <4> QED  BY <2>1, <3>1, <4>2
    <3>2. CASE que'[next'] # NoEvent
      <4>1. emptyFlag' = emptyFlag /\ ~emptyFlag
        BY <1>1, <1>3, <2>1, <3>2 DEF FlagsTellTheQueue
      <4> QED  BY <2>2, <3>2, <4>1 DEF Used
    <3> QED  BY <3>1, <3>2
  <2>6. FlagsTellTheQueue'
    BY <1>1, <2>1, <2>3, <2>5 DEF FlagsTellTheQueue
  <2>7. emptyFlag' \in BOOLEAN
    BY <2>1 DEF TypeOK
  <2> QED  BY <2>1, <2>2, <2>4, <2>6, <2>7
<1> QED  BY <1>2, <1>3

-----------------------------------------------------------------------------
(* Every step preserves the invariant.                                     *)

LEMMA SyncBeginInv == ASSUME IInv, NEW b \in Boxes, SyncBegin(b) PROVE IInv'
<1>1. /\ que' \in [Cells -> Events] /\ next' \in Cells
      /\ emptyFlag' \in BOOLEAN /\ fullFlag' \in BOOLEAN
      /\ Contiguous' /\ FlagsTellTheQueue'
  BY ClearQueueRing DEF SyncBegin, IInv
<1>2. TypeOK'
  BY <1>1 DEF SyncBegin, IInv, TypeOK, Holdings, PbdPlaces, SyncerPlaces, StubPlaces, CallerPlaces, Working
<1>3. Holdings'
  BY DEF SyncBegin, IInv, TypeOK, Holdings, PbdPlaces, SyncerPlaces, StubPlaces, CallerPlaces, Working
<1>4. BatchIsOneBox' /\ LocalSyncHasNoBatch'
  BY DEF SyncBegin, IInv, TypeOK, BatchIsOneBox, LocalSyncHasNoBatch
<1> QED  BY <1>1, <1>2, <1>3, <1>4 DEF IInv

LEMMA NextIdsType == TypeOK => NextIds \subseteq Nat \ {0}
  BY DEF TypeOK, NextIds

LEMMA AddActivityInv == ASSUME IInv, NEW m \in Mails, AddActivity(m) PROVE IInv'
<1>1. row' \in Rows
  <2>1. PICK i \in NextIds : row' = [mail |-> m, id |-> i]
    BY DEF AddActivity
  <2> QED  BY <2>1, NextIdsType DEF IInv
<1>2. TypeOK'
  BY <1>1 DEF AddActivity, IInv, TypeOK, Holdings, SyncerPlaces
<1>3. Holdings'
  BY <1>1 DEF AddActivity, IInv, TypeOK, Holdings, PbdPlaces, SyncerPlaces, StubPlaces, CallerPlaces, Working
<1>4. Contiguous' /\ FlagsTellTheQueue'
  BY RingUnchanged DEF AddActivity, IInv
<1>5. BatchIsOneBox' /\ LocalSyncHasNoBatch'
  BY DEF AddActivity, IInv, TypeOK, BatchIsOneBox, LocalSyncHasNoBatch
<1> QED  BY <1>2, <1>3, <1>4, <1>5 DEF IInv

LEMMA AskFullInv == ASSUME IInv, AskFull PROVE IInv'
<1>1. TypeOK'
  BY DEF AskFull, IInv, TypeOK, Holdings, PbdPlaces, SyncerPlaces, StubPlaces, CallerPlaces, Working
<1>2. Holdings'
  BY DEF AskFull, IInv, TypeOK, Holdings, PbdPlaces, SyncerPlaces, StubPlaces, CallerPlaces, Working
<1>3. Contiguous' /\ FlagsTellTheQueue'
  BY RingUnchanged DEF AskFull, IInv
<1>4. BatchIsOneBox' /\ LocalSyncHasNoBatch'
  BY DEF AskFull, IInv, TypeOK, Holdings, BatchIsOneBox, LocalSyncHasNoBatch, PbdPlaces, SyncerPlaces, StubPlaces, CallerPlaces, Working
<1> QED  BY <1>1, <1>2, <1>3, <1>4 DEF IInv

LEMMA InsertEventInv == ASSUME IInv, InsertEvent PROVE IInv'
<1>1. /\ row \in Rows /\ Download(row) \in Events
      /\ Download(row) # NoEvent /\ Download(row).type = "bulk"
  BY DEF InsertEvent, IInv, Holdings, Download
<1>2. CASE Insert(Syncer, Download(row), "sync")
  <2>1. /\ que' \in [Cells -> Events] /\ next' \in Cells
        /\ emptyFlag' \in BOOLEAN /\ fullFlag' \in BOOLEAN
        /\ Contiguous' /\ FlagsTellTheQueue'
    BY <1>1, <1>2, InsertRing DEF IInv
  <2>2. pc' = [q \in Procs |-> IF q = Syncer THEN "sync"
                               ELSE IF q = Pbd /\ pc[q] = "asleep" THEN "loop" ELSE pc[q]]
    BY <1>2 DEF Insert
  <2>3. TypeOK'
    BY <2>1, <2>2 DEF InsertEvent, IInv, TypeOK, PbdPlaces, SyncerPlaces, StubPlaces, CallerPlaces, Working
  <2>4. Holdings'
    BY <2>2 DEF InsertEvent, IInv, TypeOK, Holdings, PbdPlaces, SyncerPlaces, StubPlaces, CallerPlaces, Working
  <2>5. BatchIsOneBox'
    BY DEF InsertEvent, IInv, BatchIsOneBox
  <2>6. LocalSyncHasNoBatch'
    BY <2>2 DEF InsertEvent, IInv, TypeOK, LocalSyncHasNoBatch
  <2> QED  BY <2>1, <2>3, <2>4, <2>5, <2>6 DEF IInv
<1>3. CASE InsertFails(Syncer, "sync")
  <2>1. /\ que' = que /\ next' = next
        /\ emptyFlag' \in BOOLEAN /\ fullFlag' \in BOOLEAN
        /\ Contiguous' /\ FlagsTellTheQueue'
    BY <1>3, InsertFailsRing DEF IInv
  <2>2. TypeOK' /\ Holdings'
    BY <1>3, <2>1 DEF InsertEvent, InsertFails, IInv, TypeOK, Holdings, PbdPlaces, SyncerPlaces, StubPlaces, CallerPlaces, Working
  <2>3. BatchIsOneBox' /\ LocalSyncHasNoBatch'
    BY <1>3, <2>1 DEF InsertEvent, InsertFails, IInv, TypeOK, BatchIsOneBox, LocalSyncHasNoBatch
  <2> QED  BY <2>1, <2>2, <2>3 DEF IInv
<1> QED  BY <1>2, <1>3 DEF InsertEvent

LEMMA SyncEndInv == ASSUME IInv, SyncEnd PROVE IInv'
<1>1. TypeOK'
  BY DEF SyncEnd, IInv, TypeOK, Holdings, PbdPlaces, SyncerPlaces, StubPlaces, CallerPlaces, Working
<1>2. Holdings'
  BY DEF SyncEnd, IInv, TypeOK, Holdings, PbdPlaces, SyncerPlaces, StubPlaces, CallerPlaces, Working
<1>3. Contiguous' /\ FlagsTellTheQueue'
  BY RingUnchanged DEF SyncEnd, IInv
<1>4. BatchIsOneBox' /\ LocalSyncHasNoBatch'
  BY DEF SyncEnd, IInv, TypeOK, Holdings, BatchIsOneBox, LocalSyncHasNoBatch, PbdPlaces, SyncerPlaces, StubPlaces, CallerPlaces, Working
<1> QED  BY <1>1, <1>2, <1>3, <1>4 DEF IInv

LEMMA DeleteBeginInv == ASSUME IInv, NEW a \in Accounts, DeleteBegin(a) PROVE IInv'
<1>1. /\ que' \in [Cells -> Events] /\ next' \in Cells
      /\ emptyFlag' \in BOOLEAN /\ fullFlag' \in BOOLEAN
      /\ Contiguous' /\ FlagsTellTheQueue'
  BY ClearQueueRing DEF DeleteBegin, IInv
<1>2. TypeOK'
  BY <1>1 DEF DeleteBegin, IInv, TypeOK, Holdings, PbdPlaces, SyncerPlaces, StubPlaces, CallerPlaces, Working
<1>3. Holdings'
  BY DEF DeleteBegin, IInv, TypeOK, Holdings, PbdPlaces, SyncerPlaces, StubPlaces, CallerPlaces, Working
<1>4. BatchIsOneBox' /\ LocalSyncHasNoBatch'
  BY DEF DeleteBegin, IInv, TypeOK, BatchIsOneBox, LocalSyncHasNoBatch
<1> QED  BY <1>1, <1>2, <1>3, <1>4 DEF IInv

LEMMA DeleteRowsInv == ASSUME IInv, DeleteRows PROVE IInv'
<1>1. TypeOK'
  BY DEF DeleteRows, IInv, TypeOK, Holdings, PbdPlaces, SyncerPlaces, StubPlaces, CallerPlaces, Working
<1>2. Holdings'
  BY DEF DeleteRows, IInv, TypeOK, Holdings, PbdPlaces, SyncerPlaces, StubPlaces, CallerPlaces, Working
<1>3. Contiguous' /\ FlagsTellTheQueue'
  BY RingUnchanged DEF DeleteRows, IInv
<1>4. BatchIsOneBox' /\ LocalSyncHasNoBatch'
  BY DEF DeleteRows, IInv, TypeOK, Holdings, BatchIsOneBox, LocalSyncHasNoBatch, PbdPlaces, SyncerPlaces, StubPlaces, CallerPlaces, Working
<1> QED  BY <1>1, <1>2, <1>3, <1>4 DEF IInv

LEMMA CancelThreadsInv == ASSUME IInv, CancelThreads PROVE IInv'
<1>1. TypeOK'
  BY DEF CancelThreads, IInv, TypeOK, Holdings, PbdPlaces, SyncerPlaces, StubPlaces, CallerPlaces, Working
<1>2. Holdings'
  BY DEF CancelThreads, IInv, TypeOK, Holdings, PbdPlaces, SyncerPlaces, StubPlaces, CallerPlaces, Working
<1>3. Contiguous' /\ FlagsTellTheQueue'
  BY RingUnchanged DEF CancelThreads, IInv
<1>4. BatchIsOneBox' /\ LocalSyncHasNoBatch'
  BY DEF CancelThreads, IInv, TypeOK, Holdings, BatchIsOneBox, LocalSyncHasNoBatch, PbdPlaces, SyncerPlaces, StubPlaces, CallerPlaces, Working
<1> QED  BY <1>1, <1>2, <1>3, <1>4 DEF IInv

LEMMA DeleteAccountInv == ASSUME IInv, DeleteAccount PROVE IInv'
<1>1. TypeOK'
  BY DEF DeleteAccount, IInv, TypeOK, Holdings, PbdPlaces, SyncerPlaces, StubPlaces, CallerPlaces, Working
<1>2. Holdings'
  BY DEF DeleteAccount, IInv, TypeOK, Holdings, PbdPlaces, SyncerPlaces, StubPlaces, CallerPlaces, Working
<1>3. Contiguous' /\ FlagsTellTheQueue'
  BY RingUnchanged DEF DeleteAccount, IInv
<1>4. BatchIsOneBox' /\ LocalSyncHasNoBatch'
  BY DEF DeleteAccount, IInv, TypeOK, Holdings, BatchIsOneBox, LocalSyncHasNoBatch, PbdPlaces, SyncerPlaces, StubPlaces, CallerPlaces, Working
<1> QED  BY <1>1, <1>2, <1>3, <1>4 DEF IInv

LEMMA RetrieveInv == ASSUME IInv, Retrieve PROVE IInv'
<1>1. /\ que' \in [Cells -> Events] /\ next' \in Cells
      /\ emptyFlag' \in BOOLEAN /\ fullFlag' \in BOOLEAN
      /\ Contiguous' /\ FlagsTellTheQueue'
  BY RetrieveRing DEF IInv
<1>2. CASE ~Used(next)
  <2>1. \A c \in Cells : ~Used(c)
    BY <1>2, EmptyAtIndex DEF IInv
  <2>2. /\ que' = que /\ ev' = ev
        /\ \E l \in {"consider", "flush_check"} : pc' = [pc EXCEPT ![Pbd] = l]
    BY <1>2 DEF Retrieve
  <2>3. TypeOK'
    BY <1>1, <2>2 DEF Retrieve, IInv, TypeOK, PbdPlaces
  <2>4. Holdings'
    BY <2>2 DEF Retrieve, IInv, TypeOK, Holdings, PbdPlaces, Working
  <2>5. BatchIsOneBox'
    BY DEF Retrieve, IInv, BatchIsOneBox
  <2>6. LocalSyncHasNoBatch'
    BY <2>2 DEF IInv, TypeOK, LocalSyncHasNoBatch
  <2> QED  BY <1>1, <2>3, <2>4, <2>5, <2>6 DEF IInv
<1>3. CASE Used(next)
  <2>1. /\ ev' = que[next] /\ que' = [que EXCEPT ![next] = NoEvent]
        /\ pc' = [pc EXCEPT ![Pbd] = "run"]
    BY <1>3 DEF Retrieve
  <2>2. ev' \in Events /\ ev' # NoEvent
    BY <1>3, <2>1 DEF IInv, TypeOK, Used
  <2>3. TypeOK'
    BY <1>1, <2>1, <2>2 DEF Retrieve, IInv, TypeOK, PbdPlaces, SyncerPlaces, StubPlaces, CallerPlaces, Working
  <2>4. Holdings'
    BY <2>1, <2>2 DEF Retrieve, IInv, TypeOK, Holdings, PbdPlaces, SyncerPlaces, StubPlaces, CallerPlaces, Working
  <2>5. BatchIsOneBox'
    BY DEF Retrieve, IInv, BatchIsOneBox
  <2>6. LocalSyncHasNoBatch'
    BY <2>1 DEF IInv, TypeOK, LocalSyncHasNoBatch
  <2> QED  BY <1>1, <2>3, <2>4, <2>5, <2>6 DEF IInv
<1> QED  BY <1>2, <1>3

LEMMA FetchType ==
  ASSUME TypeOK, NEW done, \A i \in done : i.mail \in Mails, Fetch(done)
  PROVE  fetched' \subseteq Mails /\ rows' \subseteq Rows
  BY DEF Fetch, TypeOK

LEMMA FlushType ==
  ASSUME TypeOK, BatchIsOneBox, NEW r, Flush(r)
  PROVE  bulk' = <<>> /\ fetched' \subseteq Mails /\ rows' \subseteq Rows
<1>1. \A i \in Items : i.mail \in Mails
  BY DEF Items, TypeOK, BatchIsOneBox
<1>2. CASE \E done \in SUBSET Items : Fetch(done)
  BY <1>1, <1>2, FetchType DEF Flush
<1>3. CASE UNCHANGED <<rows, fetched>>
  BY <1>3 DEF Flush, TypeOK
<1> QED  BY <1>2, <1>3 DEF Flush

LEMMA FlushCheckInv == ASSUME IInv, FlushCheck PROVE IInv'
<1>1. TypeOK'
  BY DEF FlushCheck, IInv, TypeOK, Holdings, PbdPlaces, SyncerPlaces, StubPlaces, CallerPlaces, Working
<1>2. Holdings'
  BY DEF FlushCheck, IInv, TypeOK, Holdings, PbdPlaces, SyncerPlaces, StubPlaces, CallerPlaces, Working
<1>3. Contiguous' /\ FlagsTellTheQueue'
  BY RingUnchanged DEF FlushCheck, IInv
<1>4. BatchIsOneBox' /\ LocalSyncHasNoBatch'
  BY DEF FlushCheck, IInv, TypeOK, Holdings, BatchIsOneBox, LocalSyncHasNoBatch, PbdPlaces, SyncerPlaces, StubPlaces, CallerPlaces, Working
<1> QED  BY <1>1, <1>2, <1>3, <1>4 DEF IInv

LEMMA FlushIdleInv == ASSUME IInv, FlushIdle PROVE IInv'
<1>1. bulk' = <<>> /\ fetched' \subseteq Mails /\ rows' \subseteq Rows
  BY FlushType DEF FlushIdle, IInv
<1>2. TypeOK'
  BY <1>1 DEF FlushIdle, IInv, TypeOK, PbdPlaces, SyncerPlaces, StubPlaces, CallerPlaces, Working
<1>3. Holdings'
  BY DEF FlushIdle, IInv, TypeOK, Holdings, PbdPlaces, SyncerPlaces, StubPlaces, CallerPlaces, Working
<1>4. Contiguous' /\ FlagsTellTheQueue'
  BY RingUnchanged DEF FlushIdle, IInv
<1>5. BatchIsOneBox'
  BY <1>1 DEF BatchIsOneBox
<1>6. LocalSyncHasNoBatch'
  BY DEF FlushIdle, IInv, TypeOK, Holdings, LocalSyncHasNoBatch,
     Working
<1> QED  BY <1>2, <1>3, <1>4, <1>5, <1>6 DEF IInv

LEMMA ResumeInv == ASSUME IInv, Resume PROVE IInv'
<1>1. TypeOK'
  BY DEF Resume, IInv, TypeOK, Holdings, PbdPlaces, SyncerPlaces, StubPlaces, CallerPlaces, Working
<1>2. Holdings'
  BY DEF Resume, IInv, TypeOK, Holdings, PbdPlaces, SyncerPlaces, StubPlaces, CallerPlaces, Working
<1>3. Contiguous' /\ FlagsTellTheQueue'
  BY RingUnchanged DEF Resume, IInv
<1>4. BatchIsOneBox' /\ LocalSyncHasNoBatch'
  BY DEF Resume, IInv, TypeOK, Holdings, BatchIsOneBox, LocalSyncHasNoBatch, PbdPlaces, SyncerPlaces, StubPlaces, CallerPlaces, Working
<1> QED  BY <1>1, <1>2, <1>3, <1>4 DEF IInv

LEMMA ConsiderInv == ASSUME IInv, Consider PROVE IInv'
<1>1. TypeOK'
  BY DEF Consider, IInv, TypeOK, Holdings, PbdPlaces, SyncerPlaces, StubPlaces, CallerPlaces, Working
<1>2. Holdings'
  BY DEF Consider, IInv, TypeOK, Holdings, PbdPlaces, SyncerPlaces, StubPlaces, CallerPlaces, Working
<1>3. Contiguous' /\ FlagsTellTheQueue'
  BY RingUnchanged DEF Consider, IInv
<1>4. BatchIsOneBox' /\ LocalSyncHasNoBatch'
  BY DEF Consider, IInv, TypeOK, Holdings, BatchIsOneBox, LocalSyncHasNoBatch, PbdPlaces, SyncerPlaces, StubPlaces, CallerPlaces, Working
<1> QED  BY <1>1, <1>2, <1>3, <1>4 DEF IInv

LEMMA CountInv == ASSUME IInv, NEW p \in {Pbd, Caller}, Count(p) PROVE IInv'
<1>1. TypeOK'
  BY DEF Count, Asks, AskedInVain, IInv, TypeOK, Holdings, PbdPlaces, SyncerPlaces, StubPlaces, CallerPlaces, Working
<1>2. Holdings'
  BY DEF Count, Asks, AskedInVain, IInv, TypeOK, Holdings, PbdPlaces, SyncerPlaces, StubPlaces, CallerPlaces, Working
<1>3. Contiguous' /\ FlagsTellTheQueue'
  BY RingUnchanged DEF Count, Asks, AskedInVain, IInv
<1>4. BatchIsOneBox' /\ LocalSyncHasNoBatch'
  BY DEF Count, Asks, AskedInVain, IInv, TypeOK, Holdings, BatchIsOneBox, LocalSyncHasNoBatch, PbdPlaces, SyncerPlaces, StubPlaces, CallerPlaces, Working
<1> QED  BY <1>1, <1>2, <1>3, <1>4 DEF IInv

LEMMA InsertLocalInv == ASSUME IInv, NEW p \in {Pbd, Caller}, InsertLocal(p) PROVE IInv'
<1>1. CASE Insert(p, LocalSync, "pause")
  <2>1. /\ que' \in [Cells -> Events] /\ next' \in Cells
        /\ emptyFlag' \in BOOLEAN /\ fullFlag' \in BOOLEAN
        /\ Contiguous' /\ FlagsTellTheQueue'
    BY <1>1, InsertRing DEF IInv
  <2>2. pc' = [q \in Procs |-> IF q = p THEN "pause"
                               ELSE IF q = Pbd /\ pc[q] = "asleep" THEN "loop" ELSE pc[q]]
    BY <1>1 DEF Insert
  <2>3. TypeOK'
    BY <2>1, <2>2 DEF InsertLocal, IInv, TypeOK, PbdPlaces, SyncerPlaces, StubPlaces, CallerPlaces, Working
  <2>4. Holdings'
    BY <2>2 DEF InsertLocal, IInv, TypeOK, Holdings, PbdPlaces, SyncerPlaces, StubPlaces, CallerPlaces, Working
  <2>5. BatchIsOneBox' /\ LocalSyncHasNoBatch'
    BY <2>2 DEF InsertLocal, IInv, BatchIsOneBox, LocalSyncHasNoBatch
  <2> QED  BY <2>1, <2>3, <2>4, <2>5 DEF IInv
<1>2. CASE InsertFails(p, AskedInVain(p))
  <2>1. /\ que' = que /\ next' = next
        /\ emptyFlag' \in BOOLEAN /\ fullFlag' \in BOOLEAN
        /\ Contiguous' /\ FlagsTellTheQueue'
    BY <1>2, InsertFailsRing DEF IInv
  <2>2. pc' = [pc EXCEPT ![p] = AskedInVain(p)]
    BY <1>2 DEF InsertFails
  <2>3. TypeOK' /\ Holdings'
    BY <2>1, <2>2 DEF InsertLocal, AskedInVain, IInv, TypeOK, Holdings, PbdPlaces, SyncerPlaces, StubPlaces, CallerPlaces, Working
  <2>4. BatchIsOneBox' /\ LocalSyncHasNoBatch'
    BY <2>2 DEF InsertLocal, AskedInVain, IInv, TypeOK, BatchIsOneBox, LocalSyncHasNoBatch
  <2> QED  BY <2>1, <2>3, <2>4 DEF IInv
<1> QED  BY <1>1, <1>2 DEF InsertLocal

LEMMA PauseInv == ASSUME IInv, NEW p \in {Pbd, Caller}, Pause(p) PROVE IInv'
<1>1. TypeOK'
  BY DEF Pause, HasAsked, IInv, TypeOK, Holdings, PbdPlaces, SyncerPlaces, StubPlaces, CallerPlaces, Working
<1>2. Holdings'
  BY DEF Pause, HasAsked, IInv, TypeOK, Holdings, PbdPlaces, SyncerPlaces, StubPlaces, CallerPlaces, Working
<1>3. Contiguous' /\ FlagsTellTheQueue'
  BY RingUnchanged DEF Pause, HasAsked, IInv
<1>4. BatchIsOneBox' /\ LocalSyncHasNoBatch'
  BY DEF Pause, HasAsked, IInv, TypeOK, Holdings, BatchIsOneBox, LocalSyncHasNoBatch, PbdPlaces, SyncerPlaces, StubPlaces, CallerPlaces, Working
<1> QED  BY <1>1, <1>2, <1>3, <1>4 DEF IInv

LEMMA SleepInv == ASSUME IInv, Sleep PROVE IInv'
<1>1. TypeOK'
  BY DEF Sleep, IInv, TypeOK, Holdings, PbdPlaces, SyncerPlaces, StubPlaces, CallerPlaces, Working
<1>2. Holdings'
  BY DEF Sleep, IInv, TypeOK, Holdings, PbdPlaces, SyncerPlaces, StubPlaces, CallerPlaces, Working
<1>3. Contiguous' /\ FlagsTellTheQueue'
  BY RingUnchanged DEF Sleep, IInv
<1>4. BatchIsOneBox' /\ LocalSyncHasNoBatch'
  BY DEF Sleep, IInv, TypeOK, Holdings, BatchIsOneBox, LocalSyncHasNoBatch, PbdPlaces, SyncerPlaces, StubPlaces, CallerPlaces, Working
<1> QED  BY <1>1, <1>2, <1>3, <1>4 DEF IInv

LEMMA SpuriousWakeInv == ASSUME IInv, SpuriousWake PROVE IInv'
<1>1. TypeOK'
  BY DEF SpuriousWake, IInv, TypeOK, Holdings, PbdPlaces, SyncerPlaces, StubPlaces, CallerPlaces, Working
<1>2. Holdings'
  BY DEF SpuriousWake, IInv, TypeOK, Holdings, PbdPlaces, SyncerPlaces, StubPlaces, CallerPlaces, Working
<1>3. Contiguous' /\ FlagsTellTheQueue'
  BY RingUnchanged DEF SpuriousWake, IInv
<1>4. BatchIsOneBox' /\ LocalSyncHasNoBatch'
  BY DEF SpuriousWake, IInv, TypeOK, Holdings, BatchIsOneBox, LocalSyncHasNoBatch, PbdPlaces, SyncerPlaces, StubPlaces, CallerPlaces, Working
<1> QED  BY <1>1, <1>2, <1>3, <1>4 DEF IInv

LEMMA CheckNetworkInv == ASSUME IInv, CheckNetwork PROVE IInv'
<1>1. TypeOK'
  BY DEF CheckNetwork, IInv, TypeOK, Holdings, PbdPlaces, SyncerPlaces, StubPlaces, CallerPlaces, Working
<1>2. Holdings'
  BY DEF CheckNetwork, IInv, TypeOK, Holdings, PbdPlaces, SyncerPlaces, StubPlaces, CallerPlaces, Working
<1>3. Contiguous' /\ FlagsTellTheQueue'
  BY RingUnchanged DEF CheckNetwork, IInv
<1>4. BatchIsOneBox' /\ LocalSyncHasNoBatch'
  BY DEF CheckNetwork, IInv, TypeOK, Holdings, BatchIsOneBox, LocalSyncHasNoBatch, PbdPlaces, SyncerPlaces, StubPlaces, CallerPlaces, Working
<1> QED  BY <1>1, <1>2, <1>3, <1>4 DEF IInv

LEMMA FlushFirstInv == ASSUME IInv, FlushFirst PROVE IInv'
<1>1. bulk' = <<>> /\ fetched' \subseteq Mails /\ rows' \subseteq Rows
  <2>1. Flush(TRUE) \/ Flush(FALSE)
    BY DEF FlushFirst
  <2> QED  BY <2>1, FlushType DEF IInv
<1>2. Contiguous' /\ FlagsTellTheQueue'
  BY RingUnchanged DEF FlushFirst, IInv
<1>3. BatchIsOneBox'
  BY <1>1 DEF BatchIsOneBox
<1>4. CASE UNCHANGED <<pc, ev>>
  <2>1. TypeOK' /\ Holdings'
    BY <1>1, <1>4 DEF FlushFirst, IInv, TypeOK, Holdings
  <2>2. LocalSyncHasNoBatch'
    BY <1>4 DEF FlushFirst, IInv, LocalSyncHasNoBatch
  <2> QED  BY <1>2, <1>3, <2>1, <2>2 DEF IInv
<1>5. CASE EventDone
  <2>1. TypeOK'
    BY <1>1, <1>5 DEF FlushFirst, IInv, TypeOK, PbdPlaces
  <2>2. Holdings'
    BY <1>5 DEF FlushFirst, IInv, TypeOK, Holdings, PbdPlaces, SyncerPlaces, StubPlaces, CallerPlaces, Working
  <2>3. LocalSyncHasNoBatch'
    BY <1>5 DEF FlushFirst, IInv, TypeOK, LocalSyncHasNoBatch
  <2> QED  BY <1>2, <1>3, <2>1, <2>2, <2>3 DEF IInv
<1> QED  BY <1>4, <1>5 DEF FlushFirst

LEMMA AppendEventInv == ASSUME IInv, AppendEvent PROVE IInv'
<1>1. /\ ev \in Events /\ ev.type = "bulk" /\ bulk \in Seq(Events)
      /\ bulk' = Append(bulk, ev)
  BY DEF AppendEvent, IInv, TypeOK, Holdings
<1>2. TypeOK'
  BY <1>1 DEF AppendEvent, IInv, TypeOK, PbdPlaces, SyncerPlaces, StubPlaces, CallerPlaces, Working
<1>3. Holdings'
  BY DEF AppendEvent, IInv, TypeOK, Holdings, PbdPlaces, SyncerPlaces, StubPlaces, CallerPlaces, Working
<1>4. Contiguous' /\ FlagsTellTheQueue'
  BY RingUnchanged DEF AppendEvent, IInv
<1>5. BatchIsOneBox'
  <2>1. Len(bulk) \in Nat /\ Len(bulk) <= BulkMax
    BY <1>1 DEF IInv, BatchIsOneBox
  <2>2. /\ Len(bulk') = Len(bulk) + 1
        /\ \A i \in 1 .. Len(bulk) : bulk'[i] = bulk[i]
        /\ bulk'[Len(bulk) + 1] = ev
    BY <1>1
  <2>3. CASE Len(bulk) = 0
    <3>1. Len(bulk') = 1 /\ bulk'[1] = ev
      BY <2>2, <2>3
    <3> QED  BY <1>1, <3>1 DEF BatchIsOneBox
  <2>4. CASE Len(bulk) # 0
    <3>1. bulk # <<>>
      BY <2>4
    <3>2. BoxOf[bulk[1].mail] = BoxOf[ev.mail] /\ Len(bulk) < BulkMax
      BY <2>1, <3>1 DEF AppendEvent, MustFlush
    <3>3. \A i \in 1 .. Len(bulk') : i \in 1 .. Len(bulk) \/ i = Len(bulk) + 1
      BY <2>1, <2>2
    <3>4. bulk'[1] = bulk[1]
      BY <2>1, <2>2, <2>4
    <3> QED  BY <1>1, <2>1, <2>2, <3>2, <3>3, <3>4 DEF IInv, BatchIsOneBox
  <2> QED  BY <2>3, <2>4
<1>6. LocalSyncHasNoBatch'
  BY DEF AppendEvent, IInv, TypeOK, LocalSyncHasNoBatch
<1> QED  BY <1>2, <1>3, <1>4, <1>5, <1>6 DEF IInv

LEMMA LocalCheckInv == ASSUME IInv, LocalCheck PROVE IInv'
<1>1. TypeOK'
  BY DEF LocalCheck, IInv, TypeOK, Holdings, PbdPlaces, SyncerPlaces, StubPlaces, CallerPlaces, Working
<1>2. Holdings'
  BY DEF LocalCheck, IInv, TypeOK, Holdings, PbdPlaces, SyncerPlaces, StubPlaces, CallerPlaces, Working
<1>3. Contiguous' /\ FlagsTellTheQueue'
  BY RingUnchanged DEF LocalCheck, IInv
<1>4. BatchIsOneBox' /\ LocalSyncHasNoBatch'
  BY DEF LocalCheck, IInv, TypeOK, Holdings, BatchIsOneBox, LocalSyncHasNoBatch, PbdPlaces, SyncerPlaces, StubPlaces, CallerPlaces, Working
<1> QED  BY <1>1, <1>2, <1>3, <1>4 DEF IInv

LEMMA CycleBeginInv == ASSUME IInv, CycleBegin PROVE IInv'
<1>0. cycle' \in [first : Accounts \cup {NoAccount}, accounts : SUBSET Accounts,
                 boxes : SUBSET Boxes, owed : SUBSET Rows]
  <2>1. PICK a \in Accounts \cup {NoAccount} :
          cycle' = [first |-> a, accounts |-> {AccountOfMail(r.mail) : r \in rows},
                    boxes |-> {}, owed |-> rows]
    BY DEF CycleBegin
  <2>2. {AccountOfMail(r.mail) : r \in rows} \subseteq Accounts
    BY DEF IInv, TypeOK, AccountOfMail
  <2> QED  BY <2>1, <2>2 DEF IInv, TypeOK
<1>1. TypeOK'
  BY <1>0 DEF CycleBegin, IInv, TypeOK, PbdPlaces, Working
<1>2. Holdings'
  BY DEF CycleBegin, IInv, TypeOK, Holdings, PbdPlaces, SyncerPlaces, StubPlaces, CallerPlaces, Working
<1>3. Contiguous' /\ FlagsTellTheQueue'
  BY RingUnchanged DEF CycleBegin, IInv
<1>4. BatchIsOneBox' /\ LocalSyncHasNoBatch'
  BY DEF CycleBegin, IInv, TypeOK, BatchIsOneBox, LocalSyncHasNoBatch
<1> QED  BY <1>1, <1>2, <1>3, <1>4 DEF IInv

LEMMA CycleAccountInv == ASSUME IInv, NEW a \in Accounts, CycleAccount(a) PROVE IInv'
<1>0. cycle' \in [first : Accounts \cup {NoAccount}, accounts : SUBSET Accounts,
                 boxes : SUBSET Boxes, owed : SUBSET Rows]
  <2>1. {BoxOf[r.mail] : r \in {s \in rows : AccountOfMail(s.mail) = a}} \subseteq Boxes
    BY DEF IInv, TypeOK
  <2> QED  BY <2>1 DEF CycleAccount, IInv, TypeOK
<1>1. TypeOK'
  BY <1>0 DEF CycleAccount, IInv, TypeOK, PbdPlaces, Working
<1>2. Holdings'
  BY DEF CycleAccount, IInv, TypeOK, Holdings, PbdPlaces, SyncerPlaces, StubPlaces, CallerPlaces, Working
<1>3. Contiguous' /\ FlagsTellTheQueue'
  BY RingUnchanged DEF CycleAccount, IInv
<1>4. BatchIsOneBox' /\ LocalSyncHasNoBatch'
  BY DEF CycleAccount, IInv, TypeOK, BatchIsOneBox, LocalSyncHasNoBatch
<1> QED  BY <1>1, <1>2, <1>3, <1>4 DEF IInv

LEMMA CycleEndInv == ASSUME IInv, CycleEnd PROVE IInv'
<1>1. TypeOK'
  BY DEF CycleEnd, NoCycle, IInv, TypeOK, Holdings, PbdPlaces, SyncerPlaces, StubPlaces, CallerPlaces, Working
<1>2. Holdings'
  BY DEF CycleEnd, NoCycle, IInv, TypeOK, Holdings, PbdPlaces, SyncerPlaces, StubPlaces, CallerPlaces, Working
<1>3. Contiguous' /\ FlagsTellTheQueue'
  BY RingUnchanged DEF CycleEnd, NoCycle, IInv
<1>4. BatchIsOneBox' /\ LocalSyncHasNoBatch'
  BY DEF CycleEnd, NoCycle, IInv, TypeOK, Holdings, BatchIsOneBox, LocalSyncHasNoBatch, PbdPlaces, SyncerPlaces, StubPlaces, CallerPlaces, Working
<1> QED  BY <1>1, <1>2, <1>3, <1>4 DEF IInv

LEMMA CycleBoxInv == ASSUME IInv, NEW b \in Boxes, CycleBox(b) PROVE IInv'
<1>1. fetched' \subseteq Mails /\ rows' \subseteq Rows
  <2>1. \A i \in CycleRows(b) : i.mail \in Mails
    BY DEF CycleRows, IInv, TypeOK
  <2>2. CASE \E done \in SUBSET CycleRows(b) : Fetch(done)
    BY <2>1, <2>2, FetchType DEF IInv
  <2>3. CASE UNCHANGED <<rows, fetched>>
    BY <2>3 DEF IInv, TypeOK
  <2> QED  BY <2>2, <2>3 DEF CycleBox
<1>2. \/ CycleGoesOn(b)
      \/ CycleStop
  BY DEF CycleBox
<1>3. cycle' \in [first : Accounts \cup {NoAccount}, accounts : SUBSET Accounts,
                 boxes : SUBSET Boxes, owed : SUBSET Rows]
  <2>1. CASE CycleGoesOn(b)
    BY <2>1 DEF CycleGoesOn, IInv, TypeOK
  <2>2. CASE CycleStop
    BY <2>2 DEF NoCycle
  <2> QED  BY <1>2, <2>1, <2>2
<1>4. TypeOK'
  BY <1>1, <1>2, <1>3 DEF CycleBox, CycleGoesOn, IInv, TypeOK, PbdPlaces
<1>5. Holdings'
  BY <1>2 DEF CycleBox, CycleGoesOn, IInv, TypeOK, Holdings, PbdPlaces, SyncerPlaces, StubPlaces, CallerPlaces, Working
<1>6. Contiguous' /\ FlagsTellTheQueue'
  BY RingUnchanged DEF CycleBox, IInv
<1>7. BatchIsOneBox' /\ LocalSyncHasNoBatch'
  BY <1>2 DEF CycleBox, CycleGoesOn, IInv, TypeOK, BatchIsOneBox, LocalSyncHasNoBatch
<1> QED  BY <1>4, <1>5, <1>6, <1>7 DEF IInv

-----------------------------------------------------------------------------
LEMMA InitInv == Init => IInv
<1> SUFFICES ASSUME Init PROVE IInv
  OBVIOUS
<1>1. TypeOK
  <2>1. pc \in [Procs -> PbdPlaces \cup SyncerPlaces \cup StubPlaces \cup CallerPlaces]
    BY DEF Init, PbdPlaces, SyncerPlaces
  <2>2. /\ que \in [Cells -> Events] /\ next \in Cells
        /\ bulk \in Seq(Events) /\ ev \in Events
    BY DEF Init
  <2>3. cycle \in [first : Accounts \cup {NoAccount}, accounts : SUBSET Accounts,
                  boxes : SUBSET Boxes, owed : SUBSET Rows]
    BY DEF Init, NoCycle
  <2> QED  BY <2>1, <2>2, <2>3 DEF Init, TypeOK
<1>2. Holdings
  BY DEF Init, Holdings, PbdPlaces, SyncerPlaces, StubPlaces, CallerPlaces, Working
<1>3. Contiguous /\ FlagsTellTheQueue
  BY DEF Init, Contiguous, FlagsTellTheQueue, Used
<1>4. BatchIsOneBox /\ LocalSyncHasNoBatch
  BY DEF Init, BatchIsOneBox, LocalSyncHasNoBatch
<1> QED  BY <1>1, <1>2, <1>3, <1>4 DEF IInv

LEMMA StutterInv == ASSUME IInv, UNCHANGED vars PROVE IInv'
  BY DEF vars, IInv, TypeOK, Holdings, Contiguous, FlagsTellTheQueue, BatchIsOneBox,
     LocalSyncHasNoBatch, Used

LEMMA NextInv == IInv /\ [Next]_vars => IInv'
<1> SUFFICES ASSUME IInv, [Next]_vars PROVE IInv'
  OBVIOUS
<1>1. CASE PbdStep
  BY <1>1, RetrieveInv, FlushCheckInv, FlushIdleInv, ResumeInv, ConsiderInv, CountInv,
     InsertLocalInv, PauseInv, SleepInv, CheckNetworkInv, FlushFirstInv, AppendEventInv,
     LocalCheckInv, CycleBeginInv, CycleEndInv, CycleAccountInv, CycleBoxInv DEF PbdStep
<1>2. CASE SpuriousWake
  BY <1>2, SpuriousWakeInv
<1>3. CASE SyncStep
  BY <1>3, AskFullInv, InsertEventInv, SyncEndInv, SyncBeginInv, AddActivityInv DEF SyncStep
<1>4. CASE DeleteStep
  BY <1>4, DeleteRowsInv, CancelThreadsInv, DeleteAccountInv, DeleteBeginInv DEF DeleteStep
<1>5. CASE CallerStep
  BY <1>5, CountInv, InsertLocalInv, PauseInv DEF CallerStep
<1>6. CASE UNCHANGED vars
  BY <1>6, StutterInv
<1> QED  BY <1>1, <1>2, <1>3, <1>4, <1>5, <1>6 DEF Next

\* The inductive invariant holds in every behaviour of the download thread,
\* its clients and the account deletion.
THEOREM Invariance == Spec => []IInv
<1> QED  BY InitInv, NextInv, PTL DEF Spec

\* Every variable keeps its type.
THEOREM TypeCorrect == Spec => []TypeOK
<1>1. IInv => TypeOK
  BY DEF IInv
<1> QED  BY <1>1, Invariance, PTL

\* The empty flag and the full flag always say what is in the ring, whoever
\* inserts, clears or retrieves.
THEOREM FlagsAreExact == Spec => []FlagsTellTheQueue
<1>1. IInv => FlagsTellTheQueue
  BY DEF IInv
<1> QED  BY <1>1, Invariance, PTL

\* The batch stays within its array and within one mailbox.
THEOREM BatchStaysInBox == Spec => []BatchIsOneBox
<1>1. IInv => BatchIsOneBox
  BY DEF IInv
<1> QED  BY <1>1, Invariance, PTL

\* While the rows are worked off the batch is empty.
THEOREM LocalSyncAlone == Spec => []LocalSyncHasNoBatch
<1>1. IInv => LocalSyncHasNoBatch
  BY DEF IInv
<1> QED  BY <1>1, Invariance, PTL

-----------------------------------------------------------------------------
(***************************************************************************)
(* The ring is the queue of EventFifo.  The used cells are the first n in  *)
(* the order of the search that starts at the index, so an insertion adds  *)
(* behind the last, a retrieval takes the first, and n tells the flags.    *)
(***************************************************************************)

\* The cell the search from a comes to after d others.
CellAt(a, d) == IF a + d < Total THEN a + d ELSE a + d - Total

LEMMA PassedInverse ==
  ASSUME NEW a \in Cells
  PROVE  /\ \A c \in Cells : CellAt(a, Passed(a, c)) = c
         /\ \A d \in 0 .. Total - 1 : CellAt(a, d) \in Cells /\ Passed(a, CellAt(a, d)) = d
  BY DEF Passed, CellAt

LEMMA CellAtShift ==
  ASSUME NEW a \in Cells
  PROVE  /\ CellAt(a, 0) = a
         /\ \A d \in 0 .. Total - 2 : CellAt(NextCell(a), d) = CellAt(a, d + 1)
  BY DEF NextCell, CellAt

\* There are n cells that are come to before the n-th.
LEMMA CountPassed ==
  ASSUME NEW a \in Cells, NEW n \in 0 .. Total
  PROVE  Cardinality({c \in Cells : Passed(a, c) < n}) = n
<1> DEFINE S == {c \in Cells : Passed(a, c) < n}
           f == [k \in 1 .. n |-> CellAt(a, k - 1)]
<1>1. \A k \in 1 .. n : f[k] \in Cells /\ Passed(a, f[k]) = k - 1
  BY PassedInverse
<1>2. f \in [1 .. n -> S]
  BY <1>1
<1>3. \A k, l \in 1 .. n : f[k] = f[l] => k = l
  BY <1>1
<1>4. \A c \in S : \E k \in 1 .. n : f[k] = c
  <2> SUFFICES ASSUME NEW c \in S PROVE \E k \in 1 .. n : f[k] = c
    OBVIOUS
  <2> DEFINE k == Passed(a, c) + 1
  <2>1. Passed(a, c) \in 0 .. Total - 1 /\ Passed(a, c) < n /\ CellAt(a, Passed(a, c)) = c
    BY PassedRange, PassedInverse
  <2>2. k \in 1 .. n /\ k - 1 = Passed(a, c)
    BY <2>1
  <2>3. f[k] = c
    BY <2>1, <2>2
  <2> QED  BY <2>2, <2>3
<1> HIDE DEF f
<1>5. f \in Bijection(1 .. n, S)
  BY <1>2, <1>3, <1>4 DEF Bijection, Injection, Surjection, IsInjective
<1>6. ExistsBijection(1 .. n, S)
  BY <1>5 DEF ExistsBijection
<1>7. n \in Nat
  OBVIOUS
<1> HIDE DEF S
<1>8. Cardinality(S) = n
  BY <1>6, <1>7, FS_CountingElements
<1> QED  BY <1>8 DEF S

\* The events of the ring q whose index is a, as Pending counts them.
RingEvents(q, a) ==
    LET U == {c \in Cells : q[c] # NoEvent}
    IN  [k \in 1 .. Cardinality(U) |->
           q[CHOOSE c \in U :
               Cardinality({d \in U : Passed(a, d) < Passed(a, c)}) = k - 1]]

\* The n cells from a on are used, and no other.
UsedBelow(q, a, n) == \A c \in Cells : q[c] # NoEvent <=> Passed(a, c) < n

LEMMA RingEventsAre ==
  ASSUME NEW q, NEW a \in Cells, NEW n \in 0 .. Total, UsedBelow(q, a, n)
  PROVE  RingEvents(q, a) = [k \in 1 .. n |-> q[CellAt(a, k - 1)]]
<1> DEFINE U == {c \in Cells : q[c] # NoEvent}
           Before(c) == {d \in U : Passed(a, d) < Passed(a, c)}
<1>1. U = {c \in Cells : Passed(a, c) < n}
  BY DEF UsedBelow
<1>2. Cardinality(U) = n
  BY <1>1, CountPassed
<1>3. \A c \in U : Cardinality(Before(c)) = Passed(a, c)
  <2> SUFFICES ASSUME NEW c \in U PROVE Cardinality(Before(c)) = Passed(a, c)
    OBVIOUS
  <2>1. Passed(a, c) \in 0 .. Total /\ Passed(a, c) < n
    <3>1. Passed(a, c) \in 0 .. Total - 1
      BY PassedRange
    <3> QED  BY <1>1, <3>1
  <2>2. \A d \in Cells : Passed(a, d) \in Int
    BY PassedRange
  <2>3. Before(c) = {d \in Cells : Passed(a, d) < Passed(a, c)}
    BY <1>1, <2>1, <2>2
  <2> QED  BY <2>1, <2>3, CountPassed
<1>4. ASSUME NEW k \in 1 .. n
      PROVE  (CHOOSE c \in U : Cardinality(Before(c)) = k - 1) = CellAt(a, k - 1)
  <2>1. CellAt(a, k - 1) \in U /\ Passed(a, CellAt(a, k - 1)) = k - 1
    <3>1. k - 1 \in 0 .. Total - 1 /\ k - 1 < n
      OBVIOUS
    <3>2. CellAt(a, k - 1) \in Cells /\ Passed(a, CellAt(a, k - 1)) = k - 1
      BY <3>1, PassedInverse
    <3> QED  BY <1>1, <3>1, <3>2
  <2>2. \A c \in U : Passed(a, c) = k - 1 => c = CellAt(a, k - 1)
    BY PassedInverse
  <2> HIDE DEF U, Before
  <2> QED  BY <1>3, <2>1, <2>2
<1>5. RingEvents(q, a) = [k \in 1 .. Cardinality(U) |->
                            q[CHOOSE c \in U : Cardinality(Before(c)) = k - 1]]
  BY DEF RingEvents
<1> HIDE DEF U, Before
<1> QED  BY <1>2, <1>4, <1>5

-----------------------------------------------------------------------------
NInv == IInv /\ \E n \in 0 .. Total : UsedBelow(que, next, n)

FifoStep == [Fifo!Next]_(Fifo!vars)

LEMMA PendingIs ==
  ASSUME NEW n \in 0 .. Total
  PROVE  /\ next \in Cells /\ UsedBelow(que, next, n) =>
              Pending = [k \in 1 .. n |-> que[CellAt(next, k - 1)]]
         /\ next' \in Cells /\ UsedBelow(que', next', n) =>
              Pending' = [k \in 1 .. n |-> que'[CellAt(next', k - 1)]]
<1>1. Pending = RingEvents(que, next) /\ Pending' = RingEvents(que', next')
  BY DEF Pending, NthUsed, UsedCells, Used, RingEvents
<1> QED  BY <1>1, RingEventsAre

\* The flags in terms of the number of events, in this state and in the next.
LEMMA FlagsCount ==
  ASSUME NEW n \in 0 .. Total
  PROVE  /\ TypeOK /\ FlagsTellTheQueue /\ UsedBelow(que, next, n) =>
              emptyFlag = (n = 0) /\ fullFlag = (n = Total)
         /\ TypeOK' /\ FlagsTellTheQueue' /\ UsedBelow(que', next', n) =>
              emptyFlag' = (n = 0) /\ fullFlag' = (n = Total)
<1>1. ASSUME NEW q, NEW a \in Cells, UsedBelow(q, a, n)
      PROVE  /\ (\A c \in Cells : ~(q[c] # NoEvent)) <=> n = 0
             /\ (\A c \in Cells : q[c] # NoEvent) <=> n = Total
  <2>1. \A c \in Cells : Passed(a, c) \in 0 .. Total - 1
    BY PassedRange
  <2>2. CellAt(a, 0) \in Cells /\ Passed(a, CellAt(a, 0)) = 0
    BY PassedInverse
  <2>3. CellAt(a, Total - 1) \in Cells /\ Passed(a, CellAt(a, Total - 1)) = Total - 1
    BY PassedInverse
  <2> QED  BY <1>1, <2>1, <2>2, <2>3 DEF UsedBelow
<1> QED  BY <1>1 DEF TypeOK, FlagsTellTheQueue, Used

\* A step the queue does not see: the ring and the event at hand stay.
LEMMA Unseen ==
  ASSUME UNCHANGED ring, ev' = ev
  PROVE  FifoStep
  BY DEF FifoStep, Fifo!vars, Pending, NthUsed, UsedCells, Used

LEMMA LevelStays ==
  ASSUME NInv, UNCHANGED ring
  PROVE  \E n \in 0 .. Total : UsedBelow(que', next', n)
  BY DEF NInv, UsedBelow

LEMMA InsertQueue ==
  ASSUME NInv, IInv', NEW p \in Procs, NEW e \in Events, NEW l, e # NoEvent, Insert(p, e, l),
         ev' = ev
  PROVE  FifoStep /\ \E n \in 0 .. Total : UsedBelow(que', next', n)
<1>1. PICK n \in 0 .. Total : UsedBelow(que, next, n)
  BY DEF NInv
<1>2. PICK c \in Cells :
        /\ ~Used(c) /\ \A d \in Cells : Passed(next, d) < Passed(next, c) => Used(d)
        /\ que' = [que EXCEPT ![c] = e] /\ next' = next
  BY DEF Insert, IsEmptyCell
<1>3. next \in Cells /\ que \in [Cells -> Events]
  BY DEF NInv, IInv, TypeOK
<1>4. Passed(next, c) \in 0 .. Total - 1
  BY <1>3, PassedRange
<1>5. Passed(next, c) = n
  <2>1. ~(Passed(next, c) < n)
    BY <1>1, <1>2 DEF UsedBelow, Used
  <2>2. SUFFICES ASSUME n < Passed(next, c) PROVE FALSE
    BY <1>4, <2>1
  <2>3. n \in 0 .. Total - 1
    BY <1>4, <2>2
  <2>4. CellAt(next, n) \in Cells /\ Passed(next, CellAt(next, n)) = n
    BY <1>3, <2>3, PassedInverse
  <2>5. Used(CellAt(next, n))
    BY <1>2, <2>2, <2>4
  <2> QED  BY <1>1, <2>4, <2>5 DEF UsedBelow, Used
<1>6. n + 1 \in 0 .. Total /\ UsedBelow(que', next', n + 1)
  <2>1. n + 1 \in 0 .. Total
    BY <1>4, <1>5
  <2>2. ASSUME NEW d \in Cells
        PROVE  que'[d] # NoEvent <=> Passed(next, d) < n + 1
    <3>1. CASE d = c
      BY <1>2, <1>3, <1>5, <3>1
    <3>2. CASE d # c
      <4>1. Passed(next, d) # n /\ Passed(next, d) \in 0 .. Total - 1
        BY <1>3, <1>5, <3>2, PassedRange
      <4>2. que'[d] = que[d]
        BY <1>2, <1>3, <3>2
      <4> QED  BY <1>1, <4>1, <4>2 DEF UsedBelow
    <3> QED  BY <3>1, <3>2
  <2> QED  BY <1>2, <2>1, <2>2 DEF UsedBelow
<1>7. Pending = [k \in 1 .. n |-> que[CellAt(next, k - 1)]]
  BY <1>1, <1>3, PendingIs
<1>8. Pending' = [k \in 1 .. (n + 1) |-> que'[CellAt(next, k - 1)]]
  <2> DEFINE m == n + 1
  <2>1. m \in 0 .. Total /\ UsedBelow(que', next', m) /\ next' \in Cells
    BY <1>2, <1>3, <1>6
  <2> HIDE DEF m
  <2>2. Pending' = [k \in 1 .. m |-> que'[CellAt(next', k - 1)]]
    BY <2>1, PendingIs
  <2> QED  BY <1>2, <2>2 DEF m
<1>9. \A k \in 1 .. n : que'[CellAt(next, k - 1)] = que[CellAt(next, k - 1)]
  <2> SUFFICES ASSUME NEW k \in 1 .. n
               PROVE  que'[CellAt(next, k - 1)] = que[CellAt(next, k - 1)]
    OBVIOUS
  <2>1. k - 1 \in 0 .. Total - 1 /\ k - 1 # n
    BY <1>6
  <2>2. CellAt(next, k - 1) \in Cells /\ CellAt(next, k - 1) # c
    <3>1. CellAt(next, k - 1) \in Cells /\ Passed(next, CellAt(next, k - 1)) = k - 1
      BY <1>3, <2>1, PassedInverse
    <3> QED  BY <1>5, <2>1, <3>1
  <2> QED  BY <1>2, <1>3, <2>2
<1>10. CellAt(next, n) = c
  BY <1>3, <1>5, PassedInverse
<1>11. Pending' = Append(Pending, e) /\ Len(Pending) = n /\ Len(Pending') = n + 1
       /\ Pending' # <<>> /\ Pending'[n + 1] = e
  <2>1. que'[CellAt(next, (n + 1) - 1)] = e
    <3>1. (n + 1) - 1 = n
      OBVIOUS
    <3> QED  BY <1>2, <1>3, <1>10, <3>1
  <2>2. /\ Len(Pending) = n /\ Len(Pending') = n + 1
        /\ \A k \in 1 .. n : Pending'[k] = Pending[k]
        /\ Pending'[n + 1] = e
    BY <1>7, <1>8, <1>9, <2>1
  <2>3. Pending' # <<>>
    BY <2>2
  <2>4. Append(Pending, e) = [k \in 1 .. (n + 1) |-> IF k = n + 1 THEN e ELSE Pending[k]]
    BY <1>7, <2>2
  <2>5. Pending' = [k \in 1 .. (n + 1) |-> IF k = n + 1 THEN e ELSE Pending[k]]
    <3>1. ASSUME NEW k \in 1 .. (n + 1)
          PROVE  que'[CellAt(next, k - 1)] = IF k = n + 1 THEN e ELSE Pending[k]
      <4>1. CASE k = n + 1
        BY <2>1, <4>1
      <4>2. CASE k # n + 1
        <5>1. k \in 1 .. n
          BY <4>2
        <5>2. Pending[k] = que[CellAt(next, k - 1)]
          BY <1>7, <5>1
        <5> QED  BY <1>9, <4>2, <5>1, <5>2
      <4> QED  BY <4>1, <4>2
    <3> QED  BY <1>8, <3>1
  <2> QED  BY <2>2, <2>3, <2>4, <2>5
<1>12. emptyFlag' = (Pending' = <<>>) /\ fullFlag' = (Len(Pending') = Total)
  <2> DEFINE m == n + 1
  <2>1. m \in 0 .. Total /\ UsedBelow(que', next', m)
    BY <1>6
  <2> HIDE DEF m
  <2>2. emptyFlag' = (m = 0) /\ fullFlag' = (m = Total)
    BY <2>1, FlagsCount DEF IInv
  <2> QED  BY <1>11, <2>2 DEF m
<1>13. Fifo!Put
  <2>1. n < Total
    BY <1>6
  <2> QED  BY <1>11, <1>12, <2>1 DEF Fifo!Put, Fifo!FlagsFollow
<1> QED  BY <1>6, <1>13 DEF FifoStep, Fifo!Next

\* An operation that leaves the cells alone leaves the flags alone, because they
\* are exact before and after it.
LEMMA CellsStay ==
  ASSUME NInv, IInv', que' = que, next' = next, ev' = ev
  PROVE  FifoStep /\ \E n \in 0 .. Total : UsedBelow(que', next', n)
<1>1. UNCHANGED ring
  BY DEF NInv, IInv, TypeOK, FlagsTellTheQueue, Used
<1> QED  BY <1>1, Unseen, LevelStays

LEMMA InsertFailsQueue ==
  ASSUME NInv, IInv', NEW p \in Procs, NEW l, InsertFails(p, l), ev' = ev
  PROVE  FifoStep /\ \E n \in 0 .. Total : UsedBelow(que', next', n)
  BY CellsStay DEF InsertFails

LEMMA ClearQueueQueue ==
  ASSUME NInv, IInv', ClearQueue, ev' = ev
  PROVE  FifoStep /\ \E n \in 0 .. Total : UsedBelow(que', next', n)
<1>1. CASE emptyFlag
  BY <1>1, CellsStay DEF ClearQueue
<1>2. CASE ~emptyFlag
  <2>1. que' = [c \in Cells |-> NoEvent] /\ next' = next /\ next' \in Cells
    BY <1>2 DEF ClearQueue, IInv, TypeOK
  <2>2. 0 \in 0 .. Total /\ UsedBelow(que', next', 0)
    <3>1. \A c \in Cells : Passed(next', c) \in 0 .. Total - 1
      BY <2>1, PassedRange
    <3> QED  BY <2>1, <3>1 DEF UsedBelow
  <2>3. Pending' = <<>>
    <3>1. Pending' = [k \in 1 .. 0 |-> que'[CellAt(next', k - 1)]]
      BY <2>1, <2>2, PendingIs
    <3> QED  BY <3>1
  <2>4. emptyFlag' = TRUE /\ fullFlag' = FALSE
    BY <1>2 DEF ClearQueue
  <2>5. Len(Pending') = 0
    BY <2>3
  <2>6. Fifo!Clear
    BY <2>3, <2>4, <2>5 DEF Fifo!Clear, Fifo!FlagsFollow
  <2> QED  BY <2>2, <2>6 DEF FifoStep, Fifo!Next
<1> QED  BY <1>1, <1>2

LEMMA RetrieveQueue ==
  ASSUME NInv, IInv', Retrieve
  PROVE  FifoStep /\ \E n \in 0 .. Total : UsedBelow(que', next', n)
<1>1. PICK n \in 0 .. Total : UsedBelow(que, next, n)
  BY DEF NInv
<1>2. next \in Cells /\ que \in [Cells -> Events] /\ ev = NoEvent
  BY DEF NInv, IInv, TypeOK, Holdings, Retrieve, Working
<1>3. CASE ~Used(next)
  BY <1>3, CellsStay DEF Retrieve
<1>4. CASE Used(next)
  <2>1. /\ ev' = que[next] /\ que' = [que EXCEPT ![next] = NoEvent] /\ next' = NextCell(next)
        /\ next' \in Cells /\ ev' # NoEvent
    BY <1>2, <1>4, PassedShift DEF Retrieve, Used
  <2>2. Passed(next, next) = 0 /\ 0 < n
    <3>1. Passed(next, next) = 0
      BY <1>2, PassedRange
    <3> QED  BY <1>1, <1>2, <1>4, <3>1 DEF UsedBelow, Used
  <2> DEFINE m == n - 1
  <2>3. m \in 0 .. Total /\ m \in 0 .. Total - 1
    BY <2>2
  <2>4. UsedBelow(que', next', m)
    <3> SUFFICES ASSUME NEW c \in Cells
                 PROVE  que'[c] # NoEvent <=> Passed(NextCell(next), c) < n - 1
      BY <2>1 DEF UsedBelow
    <3>1. Passed(NextCell(next), c) = IF c = next THEN Total - 1 ELSE Passed(next, c) - 1
      BY <1>2, PassedShift
    <3>2. Passed(next, c) \in 0 .. Total - 1
      BY <1>2, PassedRange
    <3>3. CASE c = next
      BY <1>2, <2>1, <3>1, <3>3
    <3>4. CASE c # next
      <4>1. que'[c] = que[c]
        BY <1>2, <2>1, <3>4
      <4> QED  BY <1>1, <3>1, <3>2, <3>4, <4>1 DEF UsedBelow
    <3> QED  BY <3>3, <3>4
  <2>5. Pending = [k \in 1 .. n |-> que[CellAt(next, k - 1)]]
    BY <1>1, <1>2, PendingIs
  <2> HIDE DEF m
  <2>6. Pending' = [k \in 1 .. m |-> que'[CellAt(next', k - 1)]]
    BY <2>1, <2>3, <2>4, PendingIs
  <2>7. emptyFlag' = (m = 0) /\ fullFlag' = (m = Total)
    BY <2>3, <2>4, FlagsCount DEF IInv
  <2> USE DEF m
  <2>8. \A k \in 1 .. (n - 1) : que'[CellAt(NextCell(next), k - 1)] = que[CellAt(next, k)]
    <3> SUFFICES ASSUME NEW k \in 1 .. (n - 1)
                 PROVE  que'[CellAt(NextCell(next), k - 1)] = que[CellAt(next, k)]
      OBVIOUS
    <3>1. k - 1 \in 0 .. Total - 2 /\ k \in 0 .. Total - 1 /\ (k - 1) + 1 = k /\ k # 0
      BY <2>3
    <3>2. CellAt(NextCell(next), k - 1) = CellAt(next, (k - 1) + 1)
      BY <1>2, <3>1, CellAtShift
    <3>3. CellAt(next, k) \in Cells /\ Passed(next, CellAt(next, k)) = k
      BY <1>2, <3>1, PassedInverse
    <3>4. CellAt(next, k) # next
      BY <2>2, <3>1, <3>3
    <3> QED  BY <1>2, <2>1, <3>1, <3>2, <3>3, <3>4
  <2>9. Pending # <<>> /\ Head(Pending) = que[next] /\ Pending' = Tail(Pending)
        /\ (Pending' = <<>> <=> n - 1 = 0) /\ Len(Pending') = n - 1
    <3>1. CellAt(next, 0) = next
      BY <1>2, CellAtShift
    <3>2. Pending' = [k \in 1 .. (n - 1) |-> que[CellAt(next, k)]]
      BY <2>1, <2>6, <2>8
    <3>3. Pending # <<>> /\ Head(Pending) = que[next]
      <4>1. 1 \in 1 .. n /\ 1 - 1 = 0
        BY <2>2
      <4>2. Pending[1] = que[next]
        BY <2>5, <3>1, <4>1
      <4>3. Len(Pending) = n
        BY <2>5
      <4> QED  BY <2>2, <4>2, <4>3
    <3>4. Pending' = Tail(Pending)
      BY <2>2, <2>3, <2>5, <3>2
    <3>5. (Pending' = <<>> <=> n - 1 = 0) /\ Len(Pending') = n - 1
      BY <2>3, <3>2
    <3> QED  BY <3>3, <3>4, <3>5
  <2>10. Fifo!Take
    BY <1>2, <2>1, <2>7, <2>9 DEF Fifo!Take, Fifo!FlagsFollow
  <2> QED  BY <2>3, <2>4, <2>10 DEF FifoStep, Fifo!Next
<1> QED  BY <1>3, <1>4

\* The thread has done with its event.
LEMMA DoneQueue ==
  ASSUME NInv, UNCHANGED ring, ev # NoEvent, ev' = NoEvent
  PROVE  FifoStep /\ \E n \in 0 .. Total : UsedBelow(que', next', n)
<1>1. Pending' = Pending
  BY DEF Pending, NthUsed, UsedCells, Used
<1>2. Fifo!Finish
  BY <1>1 DEF Fifo!Finish
<1> QED  BY <1>2, LevelStays DEF FifoStep, Fifo!Next

LEMMA NextQueue ==
  ASSUME NInv, [Next]_vars
  PROVE  FifoStep /\ \E n \in 0 .. Total : UsedBelow(que', next', n)
<1>0. IInv /\ IInv'
  BY NextInv DEF NInv
<1>1. CASE UNCHANGED ring /\ ev' = ev
  BY <1>1, Unseen, LevelStays
<1>2. CASE Retrieve
  BY <1>0, <1>2, RetrieveQueue
<1>3. ASSUME NEW p \in {Pbd, Caller}, InsertLocal(p)
      PROVE  FifoStep /\ \E n \in 0 .. Total : UsedBelow(que', next', n)
  BY <1>0, <1>3, InsertQueue, InsertFailsQueue DEF InsertLocal
<1>4. CASE InsertEvent
  <2>1. Download(row) \in Events /\ Download(row) # NoEvent
    BY <1>0, <1>4 DEF InsertEvent, IInv, Holdings, Download
  <2> QED  BY <1>0, <1>4, <2>1, InsertQueue, InsertFailsQueue DEF InsertEvent
<1>5. ASSUME ClearQueue, ev' = ev
      PROVE  FifoStep /\ \E n \in 0 .. Total : UsedBelow(que', next', n)
  BY <1>0, <1>5, ClearQueueQueue
<1>6. ASSUME UNCHANGED ring, pc[Pbd] \in Working, ev' \in {ev, NoEvent}
      PROVE  FifoStep /\ \E n \in 0 .. Total : UsedBelow(que', next', n)
  BY <1>0, <1>1, <1>6, DoneQueue DEF IInv, Holdings
<1>7. CASE PbdStep \/ SpuriousWake
  <2>1. CASE FlushCheck \/ FlushIdle \/ Resume \/ Consider \/ Count(Pbd) \/ Pause(Pbd) \/ Sleep
             \/ SpuriousWake \/ CycleBegin \/ \E a \in Accounts : CycleAccount(a)
    BY <1>1, <2>1 DEF FlushCheck, FlushIdle, Resume, Consider, Count, Pause, Sleep,
       SpuriousWake, CycleBegin, CycleAccount
  <2>2. CASE CheckNetwork \/ FlushFirst \/ AppendEvent \/ LocalCheck \/ CycleEnd
    BY <1>6, <2>2 DEF CheckNetwork, FlushFirst, AppendEvent, LocalCheck, CycleEnd, Working
  <2>3. CASE \E b \in Boxes : CycleBox(b)
    BY <1>6, <2>3 DEF CycleBox, CycleGoesOn, Working
  <2> QED  BY <1>2, <1>3, <1>7, <2>1, <2>2, <2>3 DEF PbdStep
<1>8. CASE SyncStep
  <2>1. CASE AskFull \/ SyncEnd \/ \E m \in Mails : AddActivity(m)
    BY <1>1, <2>1 DEF AskFull, SyncEnd, AddActivity
  <2>2. CASE \E b \in Boxes : SyncBegin(b)
    BY <1>5, <2>2 DEF SyncBegin
  <2> QED  BY <1>4, <1>8, <2>1, <2>2 DEF SyncStep
<1>9. CASE DeleteStep
  <2>1. CASE DeleteRows \/ CancelThreads \/ DeleteAccount
    BY <1>1, <2>1 DEF DeleteRows, CancelThreads, DeleteAccount
  <2>2. CASE \E a \in Accounts : DeleteBegin(a)
    BY <1>5, <2>2 DEF DeleteBegin
  <2> QED  BY <1>9, <2>1, <2>2 DEF DeleteStep
<1>10. CASE CallerStep
  <2>1. CASE Count(Caller) \/ Pause(Caller)
    BY <1>1, <2>1 DEF Count, Pause
  <2> QED  BY <1>3, <1>10, <2>1 DEF CallerStep
<1>11. CASE UNCHANGED vars
  BY <1>1, <1>11 DEF vars
<1> QED  BY <1>7, <1>8, <1>9, <1>10, <1>11 DEF Next

\* The ring, its index and its flags, with any users inserting, clearing and
\* retrieving in any order, are a first-in first-out queue of
\* TOTAL_PARTIAL_BODY_EVENTS events whose flags are always right.
THEOREM RingIsFifo == Spec => ImplementsFifo
<1>1. Init => NInv /\ Fifo!Init
  <2> SUFFICES ASSUME Init PROVE NInv /\ Fifo!Init
    OBVIOUS
  <2>1. next \in Cells /\ 0 \in 0 .. Total /\ \A c \in Cells : que[c] = NoEvent
    BY DEF Init
  <2>2. UsedBelow(que, next, 0)
    <3>1. \A c \in Cells : Passed(next, c) \in 0 .. Total - 1
      BY <2>1, PassedRange
    <3> QED  BY <2>1, <3>1 DEF UsedBelow
  <2>3. Pending = <<>>
    <3>1. Pending = [k \in 1 .. 0 |-> que[CellAt(next, k - 1)]]
      BY <2>1, <2>2, PendingIs
    <3> QED  BY <3>1
  <2> QED  BY <2>1, <2>2, <2>3, InitInv DEF Init, NInv, Fifo!Init
<1>2. NInv /\ [Next]_vars => NInv' /\ [Fifo!Next]_(Fifo!vars)
  BY NextInv, NextQueue DEF NInv, FifoStep
<1> QED  BY <1>1, <1>2, PTL DEF Spec, ImplementsFifo, Fifo!Spec
=============================================================================
