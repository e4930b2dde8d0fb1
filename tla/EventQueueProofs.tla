-------------------------- MODULE EventQueueProofs --------------------------
(***************************************************************************)
(* Proofs about EventQueue, for every ring size, every set of events, any  *)
(* number of clients and any choice of the slots they cancel.              *)
(***************************************************************************)
EXTENDS EventQueue, FiniteSetTheorems, SequenceTheorems, TLAPS

(***************************************************************************)
(* The inductive invariant.  StartedIsActive needs to know where the       *)
(* service thread is when a slot is STARTED; that no event is run twice    *)
(* needs the fate of the event in every slot, and while a canceller is     *)
(* between its two steps that fate is already that of a cancelled event.   *)
(***************************************************************************)
Places ==
    /\ pc[Worker] \in WorkerPlaces /\ pc[Main] \in MainPlaces
    /\ \A c \in Clients : pc[c] \in ClientPlaces

\* type is 0 exactly in the slots that are UNUSED or CANCELED.
SlotShape ==
    \A s \in Slots : que[s].ev = NoEvent <=> que[s].status \in {"UNUSED", "CANCELED"}

\* A thread has the event, the slot and the lock its place needs.
Holdings ==
    /\ pc[Worker] \in WorkerBusy => active \in Slots /\ mine[Worker] \in Events
    /\ pc[Main] \in {"stop_cancel", "stop_cancel_end"} => target[Main] \in Slots
    /\ queLock # NoProc => target[queLock] \in Slots
    /\ queLock # Worker
    /\ queLock = Main => pc[Main] = "stop_cancel_end"
    /\ \A c \in Clients :
         /\ pc[c] \in {"enqueue", "ref", "ref_store", "signal"} => mine[c] \in Events
         /\ queLock = c => pc[c] = "cancel"

\* An event that is being inserted is in no slot and in one client's hands.
Inserting ==
    \A c \in Clients : pc[c] = "enqueue" =>
        /\ fate[mine[c]] = "inserting"
        /\ \A d \in Clients : pc[d] = "enqueue" /\ mine[d] = mine[c] => d = c

SlotFates ==
    \A s \in Slots :
        /\ que[s].ev # NoEvent =>
             /\ fate[que[s].ev] \notin {"new", "inserting", "refused"}
             /\ \A t \in Slots : que[t].ev = que[s].ev => t = s
        /\ que[s].status = "WAIT" =>
             fate[que[s].ev] = IF queLock # NoProc /\ target[queLock] = s
                               THEN "cancelled" ELSE "waiting"

RunFate ==
    pc[Worker] = "run" =>
        /\ fate[mine[Worker]] \in {"running", "stopping"}
        /\ fate[mine[Worker]] = "running" =>
             /\ que[active].status = "STARTED"
             /\ ~(queLock # NoProc /\ target[queLock] = active)
        /\ fate[mine[Worker]] = "stopping" /\ que[active].status = "STARTED" =>
             queLock # NoProc /\ target[queLock] = active

IInv ==
    /\ TypeOK /\ Places /\ SlotShape /\ Holdings
    /\ StartedIsActive /\ Inserting /\ SlotFates /\ RunFate

USE QueueMaxAssumption, EventsAssumption, ProcsAssumption
USE DEF Procs, Slots, Statuses, Counters, EmptySlot, CanceledSlot,
        Goto, LockFree, queVars, ctrlVars

-----------------------------------------------------------------------------
(* What the steps have in common.                                          *)

LEMMA CounterType == TypeOK => \A t : busy[RefCounter(t)] \in Int
  BY DEF TypeOK, RefCounter

LEMMA CancelBeginType ==
  ASSUME TypeOK, SlotShape, NEW p \in Procs, NEW h \in Slots, CancelBegin(p, h)
  PROVE  fate' \in [Events -> Fates] /\ loaded' \in [Procs -> Int]
<1>1. CASE que[h].status = "WAIT"
  <2>1. que[h].ev \in Events
    BY <1>1 DEF TypeOK, SlotShape
  <2>2. fate' = [fate EXCEPT ![que[h].ev] = "cancelled"]
    BY <1>1 DEF CancelBegin
  <2>3. loaded' \in [Procs -> Int]
    <3>1. loaded' = [loaded EXCEPT ![p] =
             IF Counted(TypeOf[que[h].ev]) THEN busy[RefCounter(TypeOf[que[h].ev])] ELSE 0]
      BY <1>1 DEF CancelBegin
    <3>2. busy[RefCounter(TypeOf[que[h].ev])] \in Int
      BY CounterType
    <3> QED  BY <3>1, <3>2 DEF TypeOK
  <2> QED  BY <2>1, <2>2, <2>3 DEF TypeOK, Fates
<1>2. CASE que[h].status = "STARTED"
  <2>1. que[h].ev \in Events
    BY <1>2 DEF TypeOK, SlotShape
  <2>2. \E f \in Fates : fate' = [fate EXCEPT ![que[h].ev] = f]
    BY <1>2, <2>1 DEF CancelBegin, TypeOK, Fates
  <2> QED  BY <1>2, <2>1, <2>2 DEF CancelBegin, TypeOK
<1>3. CASE que[h].status \in {"UNUSED", "CANCELED"}
  BY <1>3 DEF CancelBegin, TypeOK
<1> QED  BY <1>1, <1>2, <1>3 DEF TypeOK

LEMMA NextSlotType == \A i \in Slots : NextSlot(i) \in Slots
  BY DEF NextSlot

-----------------------------------------------------------------------------
(* Every step of every thread preserves the invariant.                    *)

LEMMA StartEventLoopInv == ASSUME IInv, StartEventLoop PROVE IInv'
<1>1. TypeOK'
  BY DEF StartEventLoop, IInv, TypeOK, Holdings, Fates, WorkerPlaces, ClientPlaces, MainPlaces, WorkerBusy, RefCounter
<1>2. Places'
  BY DEF StartEventLoop, IInv, TypeOK, Places, WorkerPlaces, ClientPlaces, MainPlaces, WorkerBusy
<1>3. SlotShape'
  BY DEF StartEventLoop, IInv, TypeOK, SlotShape, Holdings
<1>4. Holdings'
  BY DEF StartEventLoop, IInv, TypeOK, Places, SlotShape, Holdings, WorkerBusy
<1>5. StartedIsActive'
  BY DEF StartEventLoop, IInv, TypeOK, SlotShape, Holdings, StartedIsActive, WorkerBusy
<1>6. Inserting'
  BY DEF StartEventLoop, IInv, TypeOK, SlotShape, Holdings, Inserting, SlotFates, RunFate
<1>7. SlotFates'
  BY DEF StartEventLoop, IInv, TypeOK, SlotShape, Holdings, StartedIsActive, Inserting, SlotFates, RunFate
<1>8. RunFate'
  BY DEF StartEventLoop, IInv, TypeOK, SlotShape, Holdings, StartedIsActive, Inserting, SlotFates, RunFate, WorkerBusy, CheckThreadStatus
<1> QED  BY <1>1, <1>2, <1>3, <1>4, <1>5, <1>6, <1>7, <1>8 DEF IInv

LEMMA StopLoopInv == ASSUME IInv, StopLoop PROVE IInv'
<1>1. TypeOK'
  BY DEF StopLoop, IInv, TypeOK, Holdings, WorkerPlaces, ClientPlaces, MainPlaces, WorkerBusy
<1>2. Places' /\ Holdings'
  BY DEF StopLoop, IInv, TypeOK, Places, Holdings, WorkerPlaces, ClientPlaces, MainPlaces, WorkerBusy
<1>3. SlotShape' /\ StartedIsActive' /\ Inserting' /\ SlotFates' /\ RunFate'
  BY DEF StopLoop, IInv, TypeOK, SlotShape, Holdings, StartedIsActive, Inserting, SlotFates, RunFate, WorkerBusy
<1> QED  BY <1>1, <1>2, <1>3 DEF IInv

LEMMA StopArgInv == ASSUME IInv, StopArg PROVE IInv'
<1>1. TypeOK'
  BY DEF StopArg, IInv, TypeOK, Holdings, WorkerPlaces, ClientPlaces, MainPlaces, WorkerBusy
<1>2. Places' /\ Holdings'
  BY DEF StopArg, IInv, TypeOK, Places, Holdings, WorkerPlaces, ClientPlaces, MainPlaces, WorkerBusy
<1>3. SlotShape' /\ StartedIsActive' /\ Inserting' /\ SlotFates' /\ RunFate'
  BY DEF StopArg, IInv, TypeOK, SlotShape, Holdings, StartedIsActive, Inserting, SlotFates, RunFate, WorkerBusy
<1> QED  BY <1>1, <1>2, <1>3 DEF IInv

LEMMA StopCancelInv == ASSUME IInv, StopCancel PROVE IInv'
<1>1. TypeOK'
  <2>1. CancelBegin(Main, target[Main]) /\ target[Main] \in Slots
    BY DEF StopCancel, IInv, Holdings
  <2>2. fate' \in [Events -> Fates] /\ loaded' \in [Procs -> Int]
    BY <2>1, CancelBeginType DEF IInv
  <2> QED  BY <2>1, <2>2 DEF StopCancel, CancelBegin, IInv, TypeOK, MainPlaces
<1>2. Places'
  BY DEF StopCancel, CancelBegin, IInv, TypeOK, Places, WorkerPlaces, ClientPlaces, MainPlaces, WorkerBusy
<1>3. SlotShape'
  BY DEF StopCancel, CancelBegin, IInv, TypeOK, SlotShape, Holdings
<1>4. Holdings'
  BY DEF StopCancel, CancelBegin, IInv, TypeOK, Places, SlotShape, Holdings, WorkerBusy
<1>5. StartedIsActive'
  BY DEF StopCancel, CancelBegin, IInv, TypeOK, SlotShape, Holdings, StartedIsActive, WorkerBusy
<1>6. Inserting'
  BY DEF StopCancel, CancelBegin, IInv, TypeOK, SlotShape, Holdings, Inserting, SlotFates, RunFate
<1>7. SlotFates'
  BY DEF StopCancel, CancelBegin, IInv, TypeOK, SlotShape, Holdings, StartedIsActive, Inserting, SlotFates, RunFate
<1>8. RunFate'
  BY DEF StopCancel, CancelBegin, IInv, TypeOK, SlotShape, Holdings, StartedIsActive, Inserting, SlotFates, RunFate, WorkerBusy, CheckThreadStatus
<1> QED  BY <1>1, <1>2, <1>3, <1>4, <1>5, <1>6, <1>7, <1>8 DEF IInv

LEMMA StopCancelEndInv == ASSUME IInv, StopCancelEnd PROVE IInv'
<1>1. TypeOK'
  BY DEF StopCancelEnd, CancelEnd, IInv, TypeOK, Holdings, Fates, WorkerPlaces, ClientPlaces, MainPlaces, WorkerBusy, RefCounter
<1>2. Places'
  BY DEF StopCancelEnd, CancelEnd, IInv, TypeOK, Places, WorkerPlaces, ClientPlaces, MainPlaces, WorkerBusy
<1>3. SlotShape'
  BY DEF StopCancelEnd, CancelEnd, IInv, TypeOK, SlotShape, Holdings
<1>4. Holdings'
  BY DEF StopCancelEnd, CancelEnd, IInv, TypeOK, Places, SlotShape, Holdings, WorkerBusy
<1>5. StartedIsActive'
  BY DEF StopCancelEnd, CancelEnd, IInv, TypeOK, SlotShape, Holdings, StartedIsActive, WorkerBusy
<1>6. Inserting'
  BY DEF StopCancelEnd, CancelEnd, IInv, TypeOK, SlotShape, Holdings, Inserting, SlotFates, RunFate
<1>7. SlotFates'
  BY DEF StopCancelEnd, CancelEnd, IInv, TypeOK, SlotShape, Holdings, StartedIsActive, Inserting, SlotFates, RunFate
<1>8. RunFate'
  BY DEF StopCancelEnd, CancelEnd, IInv, TypeOK, SlotShape, Holdings, StartedIsActive, Inserting, SlotFates, RunFate, WorkerBusy, CheckThreadStatus
<1> QED  BY <1>1, <1>2, <1>3, <1>4, <1>5, <1>6, <1>7, <1>8 DEF IInv

LEMMA StopSignalInv == ASSUME IInv, StopSignal PROVE IInv'
<1>1. TypeOK'
  BY DEF StopSignal, Wake, IInv, TypeOK, Holdings, WorkerPlaces, ClientPlaces, MainPlaces, WorkerBusy
<1>2. Places' /\ Holdings'
  BY DEF StopSignal, Wake, IInv, TypeOK, Places, Holdings, WorkerPlaces, ClientPlaces, MainPlaces, WorkerBusy
<1>3. SlotShape' /\ StartedIsActive' /\ Inserting' /\ SlotFates' /\ RunFate'
  BY DEF StopSignal, Wake, IInv, TypeOK, SlotShape, Holdings, StartedIsActive, Inserting, SlotFates, RunFate, WorkerBusy
<1> QED  BY <1>1, <1>2, <1>3 DEF IInv

LEMMA JoinInv == ASSUME IInv, Join PROVE IInv'
<1>1. TypeOK'
  <2>1. idx' \in Slots /\ active' \in Slots \cup {0}
    <3>1. idx' = 1 /\ active' = 0
      BY DEF Join
    <3>2. 1 \in Slots
      OBVIOUS
    <3> QED  BY <3>1, <3>2
  <2>2. pc' \in [Procs -> WorkerPlaces \cup ClientPlaces \cup MainPlaces]
    BY DEF Join, IInv, TypeOK, MainPlaces
  <2> QED  BY <2>1, <2>2 DEF Join, IInv, TypeOK
<1>2. Places'
  BY DEF Join, IInv, TypeOK, Places, WorkerPlaces, ClientPlaces, MainPlaces, WorkerBusy
<1>3. SlotShape'
  BY DEF Join, IInv, TypeOK, SlotShape, Holdings
<1>4. Holdings'
  BY DEF Join, IInv, TypeOK, Places, SlotShape, Holdings, WorkerBusy
<1>5. StartedIsActive'
  BY DEF Join, IInv, TypeOK, SlotShape, Holdings, StartedIsActive, WorkerBusy
<1>6. Inserting'
  BY DEF Join, IInv, TypeOK, SlotShape, Holdings, Inserting, SlotFates, RunFate
<1>7. SlotFates'
  BY DEF Join, IInv, TypeOK, SlotShape, Holdings, StartedIsActive, Inserting, SlotFates, RunFate
<1>8. RunFate'
  BY DEF Join, IInv, TypeOK, SlotShape, Holdings, StartedIsActive, Inserting, SlotFates, RunFate, WorkerBusy, CheckThreadStatus
<1> QED  BY <1>1, <1>2, <1>3, <1>4, <1>5, <1>6, <1>7, <1>8 DEF IInv

LEMMA WorkerLoopInv == ASSUME IInv, WorkerLoop PROVE IInv'
<1>1. TypeOK'
  BY DEF WorkerLoop, IInv, TypeOK, Holdings, WorkerPlaces, ClientPlaces, MainPlaces, WorkerBusy
<1>2. Places' /\ Holdings'
  BY DEF WorkerLoop, IInv, TypeOK, Places, Holdings, WorkerPlaces, ClientPlaces, MainPlaces, WorkerBusy
<1>3. SlotShape' /\ StartedIsActive' /\ Inserting' /\ SlotFates' /\ RunFate'
  BY DEF WorkerLoop, IInv, TypeOK, SlotShape, Holdings, StartedIsActive, Inserting, SlotFates, RunFate, WorkerBusy
<1> QED  BY <1>1, <1>2, <1>3 DEF IInv

LEMMA RetrieveInv == ASSUME IInv, Retrieve PROVE IInv'
<1>0. /\ idx \in Slots /\ NextSlot(idx) \in Slots /\ que[idx] \in [ev : Events \cup {NoEvent}, status : Statuses]
      /\ \A s \in Slots : que[s].status # "STARTED"
  BY NextSlotType DEF Retrieve, TakeEvent, FindNothing, IInv, TypeOK, StartedIsActive, WorkerBusy
<1>1. CASE que[idx].ev # NoEvent /\ que[idx].status = "WAIT"
  <2>0. /\ que' = [que EXCEPT ![idx].status = "STARTED"]
        /\ active' = idx /\ idx' = NextSlot(idx)
        /\ mine' = [mine EXCEPT ![Worker] = que[idx].ev]
        /\ fate' = [fate EXCEPT ![que[idx].ev] = "running"]
        /\ pc' = [pc EXCEPT ![Worker] = "run"]
        /\ pc[Worker] = "retrieve" /\ queLock = NoProc
        /\ UNCHANGED <<loop, srvThread, busy, queLock, target, loaded>>
    BY <1>1 DEF Retrieve, TakeEvent, FindNothing
  <2>a. /\ que' \in [Slots -> [ev : Events \cup {NoEvent}, status : Statuses]]
        /\ \A s \in Slots : que'[s].ev = que[s].ev
        /\ \A s \in Slots : que'[s].status = IF s = idx THEN "STARTED" ELSE que[s].status
    BY <1>0, <2>0 DEF IInv, TypeOK
  <2>b. fate[que[idx].ev] = "waiting"
    BY <1>0, <1>1, <2>0 DEF IInv, SlotFates
  <2>1. TypeOK'
    BY <1>0, <1>1, <2>0, <2>a DEF IInv, TypeOK, Fates, WorkerPlaces, WorkerBusy
  <2>2. Places'
    BY <2>0 DEF IInv, TypeOK, Places, WorkerPlaces, WorkerBusy
  <2>3. SlotShape'
    BY <1>0, <1>1, <2>0, <2>a DEF IInv, SlotShape
  <2>4. Holdings'
    BY <1>0, <1>1, <2>0 DEF IInv, TypeOK, Holdings, WorkerBusy
  <2>5. StartedIsActive'
    BY <1>0, <2>0, <2>a DEF IInv, TypeOK, StartedIsActive, WorkerBusy
  <2>6. Inserting'
    BY <2>0, <2>b DEF IInv, TypeOK, Holdings, Inserting
  <2>7. SlotFates'
    BY <1>0, <1>1, <2>0, <2>a, <2>b DEF IInv, TypeOK, SlotShape, SlotFates
  <2>8. RunFate'
    BY <1>0, <1>1, <2>0, <2>a DEF IInv, TypeOK, RunFate
  <2> QED  BY <2>1, <2>2, <2>3, <2>4, <2>5, <2>6, <2>7, <2>8 DEF IInv
<1>2. CASE que[idx].ev # NoEvent /\ que[idx].status # "WAIT"
  BY <1>0, <1>2 DEF IInv, SlotShape
<1>3. CASE que[idx].ev = NoEvent
  <2>0. /\ active' = 0 /\ pc' = [pc EXCEPT ![Worker] = "sleep"]
        /\ UNCHANGED <<que, idx, loop, srvThread, busy, queLock, target, mine, loaded, fate>>
        /\ queLock = NoProc
    BY <1>3 DEF Retrieve, TakeEvent, FindNothing
  <2>1. TypeOK' /\ Places'
    BY <2>0 DEF IInv, TypeOK, Places, WorkerPlaces
  <2>2. SlotShape' /\ Holdings' /\ StartedIsActive'
    BY <1>0, <2>0 DEF IInv, TypeOK, SlotShape, Holdings, StartedIsActive, WorkerBusy
  <2>3. Inserting' /\ SlotFates' /\ RunFate'
    BY <2>0 DEF IInv, TypeOK, Inserting, SlotFates, RunFate
  <2> QED  BY <2>1, <2>2, <2>3 DEF IInv
<1> QED  BY <1>1, <1>2, <1>3

LEMMA SleepInv == ASSUME IInv, Sleep PROVE IInv'
<1>1. TypeOK'
  BY DEF Sleep, IInv, TypeOK, Holdings, WorkerPlaces, ClientPlaces, MainPlaces, WorkerBusy
<1>2. Places' /\ Holdings'
  BY DEF Sleep, IInv, TypeOK, Places, Holdings, WorkerPlaces, ClientPlaces, MainPlaces, WorkerBusy
<1>3. SlotShape' /\ StartedIsActive' /\ Inserting' /\ SlotFates' /\ RunFate'
  BY DEF Sleep, IInv, TypeOK, SlotShape, Holdings, StartedIsActive, Inserting, SlotFates, RunFate, WorkerBusy
<1> QED  BY <1>1, <1>2, <1>3 DEF IInv

LEMMA SpuriousWakeInv == ASSUME IInv, SpuriousWake PROVE IInv'
<1>1. TypeOK'
  BY DEF SpuriousWake, IInv, TypeOK, Holdings, WorkerPlaces, ClientPlaces, MainPlaces, WorkerBusy
<1>2. Places' /\ Holdings'
  BY DEF SpuriousWake, IInv, TypeOK, Places, Holdings, WorkerPlaces, ClientPlaces, MainPlaces, WorkerBusy
<1>3. SlotShape' /\ StartedIsActive' /\ Inserting' /\ SlotFates' /\ RunFate'
  BY DEF SpuriousWake, IInv, TypeOK, SlotShape, Holdings, StartedIsActive, Inserting, SlotFates, RunFate, WorkerBusy
<1> QED  BY <1>1, <1>2, <1>3 DEF IInv

LEMMA RunHandlerInv == ASSUME IInv, RunHandler PROVE IInv'
<1>1. TypeOK'
  BY DEF RunHandler, IInv, TypeOK, Holdings, Fates, WorkerPlaces, ClientPlaces, MainPlaces, WorkerBusy, RefCounter
<1>2. Places'
  BY DEF RunHandler, IInv, TypeOK, Places, WorkerPlaces, ClientPlaces, MainPlaces, WorkerBusy
<1>3. SlotShape'
  BY DEF RunHandler, IInv, TypeOK, SlotShape, Holdings
<1>4. Holdings'
  BY DEF RunHandler, IInv, TypeOK, Places, SlotShape, Holdings, WorkerBusy
<1>5. StartedIsActive'
  BY DEF RunHandler, IInv, TypeOK, SlotShape, Holdings, StartedIsActive, WorkerBusy
<1>6. Inserting'
  BY DEF RunHandler, IInv, TypeOK, SlotShape, Holdings, Inserting, SlotFates, RunFate
<1>7. SlotFates'
  BY DEF RunHandler, IInv, TypeOK, SlotShape, Holdings, StartedIsActive, Inserting, SlotFates, RunFate
<1>8. RunFate'
  BY DEF RunHandler, IInv, TypeOK, SlotShape, Holdings, StartedIsActive, Inserting, SlotFates, RunFate, WorkerBusy, CheckThreadStatus
<1> QED  BY <1>1, <1>2, <1>3, <1>4, <1>5, <1>6, <1>7, <1>8 DEF IInv

LEMMA UnrefLoadInv == ASSUME IInv, UnrefLoad PROVE IInv'
<1>1. TypeOK'
  BY DEF UnrefLoad, IInv, TypeOK, Holdings, WorkerPlaces, ClientPlaces, MainPlaces, WorkerBusy, RefCounter
<1>2. Places' /\ Holdings'
  BY DEF UnrefLoad, IInv, TypeOK, Places, Holdings, WorkerPlaces, ClientPlaces, MainPlaces, WorkerBusy
<1>3. SlotShape' /\ StartedIsActive' /\ Inserting' /\ SlotFates' /\ RunFate'
  BY DEF UnrefLoad, IInv, TypeOK, SlotShape, Holdings, StartedIsActive, Inserting, SlotFates, RunFate, WorkerBusy
<1> QED  BY <1>1, <1>2, <1>3 DEF IInv

LEMMA UnrefStoreInv == ASSUME IInv, UnrefStore PROVE IInv'
<1>1. TypeOK'
  BY DEF UnrefStore, IInv, TypeOK, Holdings, WorkerPlaces, ClientPlaces, MainPlaces, WorkerBusy, RefCounter
<1>2. Places' /\ Holdings'
  BY DEF UnrefStore, IInv, TypeOK, Places, Holdings, WorkerPlaces, ClientPlaces, MainPlaces, WorkerBusy
<1>3. SlotShape' /\ StartedIsActive' /\ Inserting' /\ SlotFates' /\ RunFate'
  BY DEF UnrefStore, IInv, TypeOK, SlotShape, Holdings, StartedIsActive, Inserting, SlotFates, RunFate, WorkerBusy
<1> QED  BY <1>1, <1>2, <1>3 DEF IInv

LEMMA ClearSlotInv == ASSUME IInv, ClearSlot PROVE IInv'
<1>1. TypeOK'
  BY DEF ClearSlot, IInv, TypeOK, Holdings, Fates, WorkerPlaces, ClientPlaces, MainPlaces, WorkerBusy, RefCounter
<1>2. Places'
  BY DEF ClearSlot, IInv, TypeOK, Places, WorkerPlaces, ClientPlaces, MainPlaces, WorkerBusy
<1>3. SlotShape'
  BY DEF ClearSlot, IInv, TypeOK, SlotShape, Holdings
<1>4. Holdings'
  BY DEF ClearSlot, IInv, TypeOK, Places, SlotShape, Holdings, WorkerBusy
<1>5. StartedIsActive'
  BY DEF ClearSlot, IInv, TypeOK, SlotShape, Holdings, StartedIsActive, WorkerBusy
<1>6. Inserting'
  BY DEF ClearSlot, IInv, TypeOK, SlotShape, Holdings, Inserting, SlotFates, RunFate
<1>7. SlotFates'
  BY DEF ClearSlot, IInv, TypeOK, SlotShape, Holdings, StartedIsActive, Inserting, SlotFates, RunFate
<1>8. RunFate'
  BY DEF ClearSlot, IInv, TypeOK, SlotShape, Holdings, StartedIsActive, Inserting, SlotFates, RunFate, WorkerBusy, CheckThreadStatus
<1> QED  BY <1>1, <1>2, <1>3, <1>4, <1>5, <1>6, <1>7, <1>8 DEF IInv

LEMMA InsertCheckInv == ASSUME IInv, NEW c \in Clients, NEW e \in Events, InsertCheck(c, e) PROVE IInv'
<1>0. /\ pc[c] = "idle" /\ fate[e] = "new" /\ c \in Procs
      /\ UNCHANGED <<que, idx, active, loop, srvThread, busy, queLock, target, loaded>>
  BY DEF InsertCheck
<1>a. \A s \in Slots : que[s].ev # e
  BY <1>0 DEF IInv, SlotFates
<1>b. pc[Worker] = "run" => mine[Worker] \in Events /\ mine[Worker] # e
  BY <1>0 DEF IInv, RunFate, Holdings, WorkerBusy
<1>c. \A d \in Clients : pc[d] = "enqueue" => mine[d] \in Events /\ mine[d] # e
  BY <1>0 DEF IInv, Inserting, Holdings
<1>1. CASE srvThread
  <2>0. /\ mine' = [mine EXCEPT ![c] = e] /\ pc' = [pc EXCEPT ![c] = "enqueue"]
        /\ fate' = [fate EXCEPT ![e] = "inserting"]
    BY <1>1 DEF InsertCheck
  <2>1. TypeOK'
    BY <1>0, <2>0 DEF IInv, TypeOK, Fates, ClientPlaces
  <2>2. Places'
    BY <2>0 DEF IInv, TypeOK, Places, ClientPlaces
  <2>3. SlotShape' /\ StartedIsActive'
    BY <1>0, <2>0 DEF IInv, TypeOK, SlotShape, StartedIsActive
  <2>4. Holdings'
    BY <1>0, <2>0 DEF IInv, TypeOK, Holdings
  <2>5. Inserting'
    BY <1>0, <1>c, <2>0 DEF IInv, TypeOK, Inserting
  <2>6. SlotFates'
    BY <1>0, <1>a, <2>0 DEF IInv, TypeOK, SlotShape, SlotFates
  <2>7. RunFate'
    BY <1>0, <1>b, <2>0 DEF IInv, TypeOK, RunFate
  <2> QED  BY <2>1, <2>2, <2>3, <2>4, <2>5, <2>6, <2>7 DEF IInv
<1>2. CASE ~srvThread
  <2>0. /\ fate' = [fate EXCEPT ![e] = "refused"] /\ UNCHANGED <<pc, mine>>
    BY <1>2 DEF InsertCheck
  <2>1. TypeOK' /\ Places' /\ SlotShape' /\ StartedIsActive' /\ Holdings'
    BY <1>0, <2>0 DEF IInv, TypeOK, Places, SlotShape, StartedIsActive, Holdings, Fates
  <2>2. Inserting'
    BY <1>0, <1>c, <2>0 DEF IInv, TypeOK, Inserting
  <2>3. SlotFates'
    BY <1>0, <1>a, <2>0 DEF IInv, TypeOK, SlotShape, SlotFates
  <2>4. RunFate'
    BY <1>0, <1>b, <2>0 DEF IInv, TypeOK, RunFate
  <2> QED  BY <2>1, <2>2, <2>3, <2>4 DEF IInv
<1> QED  BY <1>1, <1>2

LEMMA EnqueueInv == ASSUME IInv, NEW c \in Clients, Enqueue(c) PROVE IInv'
<1> DEFINE e == mine[c]
<1>0. /\ pc[c] = "enqueue" /\ queLock = NoProc /\ e \in Events /\ fate[e] = "inserting"
      /\ UNCHANGED <<idx, active, loop, srvThread, busy, queLock, target, loaded>>
      /\ c \in Procs
  BY DEF Enqueue, IInv, Holdings, Inserting
<1>a. \A s \in Slots : que[s].ev # e
  BY <1>0 DEF IInv, SlotFates
<1>b. pc[Worker] = "run" => mine[Worker] \in Events /\ mine[Worker] # e
  BY <1>0 DEF IInv, RunFate, Holdings, WorkerBusy
<1>1. ASSUME NEW j \in Slots, j \in FreeSlots,
             que' = [que EXCEPT ![j] = [ev |-> e, status |-> "WAIT"]],
             fate' = [fate EXCEPT ![e] = "waiting"],
             pc' = [pc EXCEPT ![c] = "ref"], UNCHANGED mine
      PROVE  IInv'
  <2>0. que[j].ev = NoEvent
    BY <1>1 DEF FreeSlots
  <2>a. /\ que' \in [Slots -> [ev : Events \cup {NoEvent}, status : Statuses]]
        /\ que'[j].ev = e /\ que'[j].status = "WAIT"
        /\ \A s \in Slots : s # j => que'[s] = que[s]
    BY <1>0, <1>1 DEF IInv, TypeOK
  <2>1. TypeOK'
    BY <1>0, <1>1, <2>a DEF IInv, TypeOK, Fates, ClientPlaces
  <2>2. Places'
    BY <1>1 DEF IInv, TypeOK, Places, ClientPlaces
  <2>3. SlotShape'
    BY <1>0, <2>a DEF IInv, TypeOK, SlotShape
  <2>4. Holdings'
    BY <1>0, <1>1 DEF IInv, TypeOK, Holdings
  <2>5. StartedIsActive'
    BY <1>0, <1>1, <2>a DEF IInv, TypeOK, StartedIsActive
  <2>6. Inserting'
    BY <1>0, <1>1 DEF IInv, TypeOK, Holdings, Inserting
  <2>7. SlotFates'
    <3> SUFFICES ASSUME NEW s \in Slots PROVE
             /\ que'[s].ev # NoEvent =>
                  /\ fate'[que'[s].ev] \notin {"new", "inserting", "refused"}
                  /\ \A t \in Slots : que'[t].ev = que'[s].ev => t = s
             /\ que'[s].status = "WAIT" => fate'[que'[s].ev] = "waiting"
      BY <1>0 DEF SlotFates
    <3>1. CASE s = j
      BY <1>0, <1>1, <1>a, <2>a, <3>1 DEF IInv, TypeOK
    <3>2. CASE s # j
      BY <1>0, <1>1, <1>a, <2>a, <3>2 DEF IInv, TypeOK, SlotShape, SlotFates
    <3> QED  BY <3>1, <3>2
  <2>8. RunFate'
    BY <1>0, <1>1, <1>b, <2>0, <2>a DEF IInv, TypeOK, RunFate, SlotShape, Holdings, WorkerBusy
  <2> QED  BY <2>1, <2>2, <2>3, <2>4, <2>5, <2>6, <2>7, <2>8 DEF IInv
<1>2. ASSUME fate' = [fate EXCEPT ![e] = "refused"],
             mine' = [mine EXCEPT ![c] = NoEvent],
             pc' = [pc EXCEPT ![c] = "idle"], UNCHANGED que
      PROVE  IInv'
  <2>1. TypeOK' /\ Places'
    BY <1>0, <1>2 DEF IInv, TypeOK, Places, Fates, ClientPlaces
  <2>2. SlotShape' /\ StartedIsActive' /\ Holdings'
    BY <1>0, <1>2 DEF IInv, TypeOK, SlotShape, StartedIsActive, Holdings
  <2>3. Inserting'
    BY <1>0, <1>2 DEF IInv, TypeOK, Holdings, Inserting
  <2>4. SlotFates'
    BY <1>0, <1>2, <1>a DEF IInv, TypeOK, SlotShape, SlotFates
  <2>5. RunFate'
    BY <1>0, <1>2, <1>b DEF IInv, TypeOK, RunFate
  <2> QED  BY <2>1, <2>2, <2>3, <2>4, <2>5 DEF IInv
<1> QED  BY <1>1, <1>2 DEF Enqueue, IsInsertSlot

LEMMA RefLoadInv == ASSUME IInv, NEW c \in Clients, RefLoad(c) PROVE IInv'
<1>1. TypeOK'
  BY DEF RefLoad, IInv, TypeOK, Holdings, WorkerPlaces, ClientPlaces, MainPlaces, WorkerBusy, RefCounter
<1>2. Places' /\ Holdings'
  BY DEF RefLoad, IInv, TypeOK, Places, Holdings, WorkerPlaces, ClientPlaces, MainPlaces, WorkerBusy
<1>3. SlotShape' /\ StartedIsActive' /\ Inserting' /\ SlotFates' /\ RunFate'
  BY DEF RefLoad, IInv, TypeOK, SlotShape, Holdings, StartedIsActive, Inserting, SlotFates, RunFate, WorkerBusy
<1> QED  BY <1>1, <1>2, <1>3 DEF IInv

LEMMA RefStoreInv == ASSUME IInv, NEW c \in Clients, RefStore(c) PROVE IInv'
<1>1. TypeOK'
  BY DEF RefStore, IInv, TypeOK, Holdings, WorkerPlaces, ClientPlaces, MainPlaces, WorkerBusy, RefCounter
<1>2. Places' /\ Holdings'
  BY DEF RefStore, IInv, TypeOK, Places, Holdings, WorkerPlaces, ClientPlaces, MainPlaces, WorkerBusy
<1>3. SlotShape' /\ StartedIsActive' /\ Inserting' /\ SlotFates' /\ RunFate'
  BY DEF RefStore, IInv, TypeOK, SlotShape, Holdings, StartedIsActive, Inserting, SlotFates, RunFate, WorkerBusy
<1> QED  BY <1>1, <1>2, <1>3 DEF IInv

LEMMA InsertSignalInv == ASSUME IInv, NEW c \in Clients, InsertSignal(c) PROVE IInv'
<1>1. TypeOK'
  BY DEF InsertSignal, Wake, IInv, TypeOK, Holdings, WorkerPlaces, ClientPlaces, MainPlaces, WorkerBusy
<1>2. Places' /\ Holdings'
  BY DEF InsertSignal, Wake, IInv, TypeOK, Places, Holdings, WorkerPlaces, ClientPlaces, MainPlaces, WorkerBusy
<1>3. SlotShape' /\ StartedIsActive' /\ Inserting' /\ SlotFates' /\ RunFate'
  BY DEF InsertSignal, Wake, IInv, TypeOK, SlotShape, Holdings, StartedIsActive, Inserting, SlotFates, RunFate, WorkerBusy
<1> QED  BY <1>1, <1>2, <1>3 DEF IInv

LEMMA ClientCancelInv ==
  ASSUME IInv, NEW c \in Clients, NEW h \in Slots, ClientCancel(c, h) PROVE IInv'
<1>1. TypeOK'
  <2>1. CancelBegin(c, h)
    BY DEF ClientCancel
  <2>2. fate' \in [Events -> Fates] /\ loaded' \in [Procs -> Int]
    BY <2>1, CancelBeginType DEF IInv
  <2> QED  BY <2>1, <2>2 DEF ClientCancel, CancelBegin, IInv, TypeOK, ClientPlaces
<1>2. Places'
  BY DEF ClientCancel, CancelBegin, IInv, TypeOK, Places, WorkerPlaces, ClientPlaces, MainPlaces, WorkerBusy
<1>3. SlotShape'
  BY DEF ClientCancel, CancelBegin, IInv, TypeOK, SlotShape, Holdings
<1>4. Holdings'
  BY DEF ClientCancel, CancelBegin, IInv, TypeOK, Places, SlotShape, Holdings, WorkerBusy
<1>5. StartedIsActive'
  BY DEF ClientCancel, CancelBegin, IInv, TypeOK, SlotShape, Holdings, StartedIsActive, WorkerBusy
<1>6. Inserting'
  BY DEF ClientCancel, CancelBegin, IInv, TypeOK, SlotShape, Holdings, Inserting, SlotFates, RunFate
<1>7. SlotFates'
  BY DEF ClientCancel, CancelBegin, IInv, TypeOK, SlotShape, Holdings, StartedIsActive, Inserting, SlotFates, RunFate
<1>8. RunFate'
  BY DEF ClientCancel, CancelBegin, IInv, TypeOK, SlotShape, Holdings, StartedIsActive, Inserting, SlotFates, RunFate, WorkerBusy, CheckThreadStatus
<1> QED  BY <1>1, <1>2, <1>3, <1>4, <1>5, <1>6, <1>7, <1>8 DEF IInv

LEMMA ClientCancelEndInv == ASSUME IInv, NEW c \in Clients, ClientCancelEnd(c) PROVE IInv'
<1>1. TypeOK'
  BY DEF ClientCancelEnd, CancelEnd, IInv, TypeOK, Holdings, Fates, WorkerPlaces, ClientPlaces, MainPlaces, WorkerBusy, RefCounter
<1>2. Places'
  BY DEF ClientCancelEnd, CancelEnd, IInv, TypeOK, Places, WorkerPlaces, ClientPlaces, MainPlaces, WorkerBusy
<1>3. SlotShape'
  BY DEF ClientCancelEnd, CancelEnd, IInv, TypeOK, SlotShape, Holdings
<1>4. Holdings'
  BY DEF ClientCancelEnd, CancelEnd, IInv, TypeOK, Places, SlotShape, Holdings, WorkerBusy
<1>5. StartedIsActive'
  BY DEF ClientCancelEnd, CancelEnd, IInv, TypeOK, SlotShape, Holdings, StartedIsActive, WorkerBusy
<1>6. Inserting'
  BY DEF ClientCancelEnd, CancelEnd, IInv, TypeOK, SlotShape, Holdings, Inserting, SlotFates, RunFate
<1>7. SlotFates'
  BY DEF ClientCancelEnd, CancelEnd, IInv, TypeOK, SlotShape, Holdings, StartedIsActive, Inserting, SlotFates, RunFate
<1>8. RunFate'
  BY DEF ClientCancelEnd, CancelEnd, IInv, TypeOK, SlotShape, Holdings, StartedIsActive, Inserting, SlotFates, RunFate, WorkerBusy, CheckThreadStatus
<1> QED  BY <1>1, <1>2, <1>3, <1>4, <1>5, <1>6, <1>7, <1>8 DEF IInv

LEMMA StutterInv == IInv /\ UNCHANGED vars => IInv'
  BY DEF vars, IInv, TypeOK, Places, SlotShape, Holdings, StartedIsActive,
         Inserting, SlotFates, RunFate, CheckThreadStatus

-----------------------------------------------------------------------------
LEMMA InitInv == Init => IInv
<1> SUFFICES ASSUME Init PROVE IInv
  OBVIOUS
<1>1. TypeOK
  <2>1. 1 \in Slots
    OBVIOUS
  <2>2. /\ que \in [Slots -> [ev : Events \cup {NoEvent}, status : Statuses]]
        /\ busy \in [Counters -> Int] /\ loaded \in [Procs -> Int]
    BY DEF Init
  <2>3. pc \in [Procs -> WorkerPlaces \cup ClientPlaces \cup MainPlaces]
    BY DEF Init, WorkerPlaces, MainPlaces
  <2>4. /\ target \in [Procs -> Slots \cup {0}]
        /\ mine \in [Procs -> Events \cup {NoEvent}]
        /\ fate \in [Events -> Fates]
    BY DEF Init, Fates
  <2>5. loop \in BOOLEAN /\ srvThread \in BOOLEAN
    BY DEF Init
  <2> QED  BY <2>1, <2>2, <2>3, <2>4, <2>5 DEF Init, TypeOK
<1>2. Places /\ SlotShape /\ Holdings
  BY DEF Init, Places, SlotShape, Holdings, WorkerPlaces, ClientPlaces, MainPlaces, WorkerBusy
<1>3. StartedIsActive /\ Inserting /\ SlotFates /\ RunFate
  BY DEF Init, StartedIsActive, Inserting, SlotFates, RunFate
<1> QED  BY <1>1, <1>2, <1>3 DEF IInv

LEMMA NextInv == IInv /\ [Next]_vars => IInv'
<1> SUFFICES ASSUME IInv, [Next]_vars PROVE IInv'
  OBVIOUS
<1>1. CASE StartEventLoop \/ StopLoop \/ StopStep
  BY <1>1, StartEventLoopInv, StopLoopInv, StopArgInv, StopCancelInv,
     StopCancelEndInv, StopSignalInv, JoinInv DEF StopStep
<1>2. CASE WorkerStep \/ SpuriousWake
  BY <1>2, WorkerLoopInv, RetrieveInv, SleepInv, RunHandlerInv, UnrefLoadInv,
     UnrefStoreInv, ClearSlotInv, SpuriousWakeInv DEF WorkerStep
<1>3. ASSUME NEW c \in Clients,
             \/ ClientStep(c)
             \/ \E e \in Events : InsertCheck(c, e)
             \/ \E h \in Slots : ClientCancel(c, h)
      PROVE  IInv'
  <2>1. CASE ClientStep(c)
    BY <2>1, EnqueueInv, RefLoadInv, RefStoreInv, InsertSignalInv, ClientCancelEndInv
    DEF ClientStep
  <2>2. CASE \E e \in Events : InsertCheck(c, e)
    BY <2>2, InsertCheckInv
  <2>3. CASE \E h \in Slots : ClientCancel(c, h)
    BY <2>3, ClientCancelInv
  <2> QED  BY <1>3, <2>1, <2>2, <2>3
<1>4. CASE UNCHANGED vars
  BY <1>4, StutterInv
<1> QED  BY <1>1, <1>2, <1>3, <1>4 DEF Next

\* The invariant holds in every reachable state.
THEOREM Invariance == Spec => []IInv
<1>1. Init => IInv
  BY InitInv
<1>2. IInv /\ [Next]_vars => IInv'
  BY NextInv
<1> QED  BY <1>1, <1>2, PTL DEF Spec

\* Every variable keeps its type.
THEOREM TypeCorrect == Spec => []TypeOK
<1>1. IInv => TypeOK
  BY DEF IInv
<1> QED  BY <1>1, Invariance, PTL

\* At most one slot is STARTED, it is the one g_active_que names, and the
\* service thread is at work on the event in it.
THEOREM OneJobAtATime == Spec => []StartedIsActive
<1>1. IInv => StartedIsActive
  BY DEF IInv
<1> QED  BY <1>1, Invariance, PTL

\* A running job whose slot was cancelled learns it from emcore_check_thread_status.
THEOREM CancelReachesTheJob == Spec => []StopIsSeen
<1>1. IInv => StopIsSeen
  BY DEF IInv, RunFate, Holdings, WorkerBusy, StopIsSeen, CheckThreadStatus
<1> QED  BY <1>1, Invariance, PTL

\* No event is queued twice, and what is queued has neither run nor been cancelled.
THEOREM NothingQueuedTwice == Spec => []WaitingSlotsAreWaitingEvents
<1>1. IInv => WaitingSlotsAreWaitingEvents
  BY DEF IInv, SlotShape, SlotFates, WaitingSlotsAreWaitingEvents
<1> QED  BY <1>1, Invariance, PTL

-----------------------------------------------------------------------------
(* The fate of an event.                                                   *)

\* Only an insertion, the start of a cancellation, a retrieve and the end of
\* a handler touch a fate, each that of one event that has not ended yet.
FateStep ==
    \/ UNCHANGED fate
    \/ \E e \in Events, f \in Fates :
         /\ fate' = [fate EXCEPT ![e] = f]
         /\ fate[e] \notin FinalFates
         /\ f = "aborted" => fate[e] = "stopping"

LEMMA CancelFate ==
  ASSUME IInv, NEW p \in Procs, NEW h \in Slots, CancelBegin(p, h) PROVE FateStep
<1>0. que[h].status \in {"WAIT", "STARTED"} => que[h].ev \in Events
  BY DEF IInv, TypeOK, SlotShape
<1>1. CASE que[h].status = "WAIT"
  BY <1>0, <1>1 DEF CancelBegin, IInv, SlotFates, FateStep, Fates, FinalFates
<1>2. CASE que[h].status = "STARTED" /\ fate[que[h].ev] = "running"
  BY <1>0, <1>2 DEF CancelBegin, IInv, FateStep, Fates, FinalFates
<1>3. CASE que[h].status = "STARTED" /\ fate[que[h].ev] # "running"
  BY <1>0, <1>3 DEF CancelBegin, IInv, TypeOK, FateStep
<1>4. CASE que[h].status \in {"UNUSED", "CANCELED"}
  BY <1>4 DEF CancelBegin, FateStep
<1> QED  BY <1>1, <1>2, <1>3, <1>4 DEF CancelBegin

LEMMA EnqueueFate == ASSUME IInv, NEW c \in Clients, Enqueue(c) PROVE FateStep
<1>1. mine[c] \in Events /\ fate[mine[c]] = "inserting"
  BY DEF Enqueue, IInv, Holdings, Inserting
<1>2. \E f \in {"waiting", "refused"} : fate' = [fate EXCEPT ![mine[c]] = f]
  BY DEF Enqueue
<1> QED  BY <1>1, <1>2 DEF FateStep, Fates, FinalFates

LEMMA RetrieveFate == ASSUME IInv, Retrieve PROVE FateStep
<1>1. CASE que[idx].ev # NoEvent /\ que[idx].status = "WAIT"
  <2>1. que[idx].ev \in Events /\ fate[que[idx].ev] = "waiting"
    BY <1>1 DEF Retrieve, TakeEvent, FindNothing, IInv, TypeOK, SlotFates
  <2> QED  BY <1>1, <2>1 DEF Retrieve, TakeEvent, FindNothing, FateStep, Fates, FinalFates
<1>2. CASE ~(que[idx].ev # NoEvent /\ que[idx].status = "WAIT")
  BY <1>2 DEF Retrieve, TakeEvent, FindNothing, FateStep
<1> QED  BY <1>1, <1>2

LEMMA RunHandlerFate == ASSUME IInv, RunHandler PROVE FateStep
<1>1. /\ mine[Worker] \in Events
      /\ fate[mine[Worker]] \in {"running", "stopping"}
      /\ fate[mine[Worker]] = "running" => CheckThreadStatus
  BY DEF RunHandler, IInv, Holdings, RunFate, WorkerBusy, CheckThreadStatus
<1>2. \E f \in {"done", "aborted"} :
        (f = "aborted" => ~CheckThreadStatus) /\ fate' = [fate EXCEPT ![mine[Worker]] = f]
  BY DEF RunHandler
<1> QED  BY <1>1, <1>2 DEF FateStep, Fates, FinalFates

LEMMA NextFate == IInv /\ [Next]_vars => FateStep
<1> SUFFICES ASSUME IInv, [Next]_vars PROVE FateStep
  OBVIOUS
<1>1. CASE StartEventLoop \/ StopLoop \/ StopStep
  <2>1. CASE StopCancel
    BY <2>1, CancelFate DEF StopCancel, IInv, Holdings
  <2> QED  BY <1>1, <2>1 DEF StartEventLoop, StopLoop, StopStep, StopArg, StopCancelEnd,
              CancelEnd, StopSignal, Join, FateStep
<1>2. CASE WorkerStep \/ SpuriousWake
  BY <1>2, RetrieveFate, RunHandlerFate DEF WorkerStep, SpuriousWake, WorkerLoop, Sleep,
     UnrefLoad, UnrefStore, ClearSlot, FateStep
<1>3. ASSUME NEW c \in Clients, ClientStep(c) PROVE FateStep
  BY <1>3, EnqueueFate DEF ClientStep, RefLoad, RefStore, InsertSignal, ClientCancelEnd,
     CancelEnd, FateStep
<1>4. ASSUME NEW c \in Clients, NEW e \in Events, InsertCheck(c, e) PROVE FateStep
  <2>1. \E f \in {"inserting", "refused"} : fate' = [fate EXCEPT ![e] = f]
    BY <1>4 DEF InsertCheck
  <2>2. fate[e] = "new"
    BY <1>4 DEF InsertCheck
  <2> QED  BY <2>1, <2>2 DEF FateStep, Fates, FinalFates
<1>5. ASSUME NEW c \in Clients, NEW h \in Slots, ClientCancel(c, h) PROVE FateStep
  BY <1>5, CancelFate DEF ClientCancel
<1>6. CASE UNCHANGED vars
  BY <1>6 DEF vars, FateStep
<1> QED  BY <1>1, <1>2, <1>3, <1>4, <1>5, <1>6 DEF Next

\* An event that was cancelled, refused, run or aborted keeps that fate.
THEOREM EndedStaysEnded == Spec => FatesAreFinal
<1>1. IInv /\ [Next]_vars =>
        \A e \in Events : fate[e] \in FinalFates => fate'[e] = fate[e]
  BY NextFate DEF FateStep, IInv, TypeOK
<1> QED  BY <1>1, Invariance, PTL DEF Spec, FatesAreFinal

\* A handler gives up only after its own slot was cancelled.
THEOREM NoStrayAbort == Spec => AbortedOnlyIfStopped
<1>1. IInv /\ [Next]_vars =>
        \A e \in Events : fate[e] = "running" => fate'[e] # "aborted"
  BY NextFate DEF FateStep, IInv, TypeOK
<1> QED  BY <1>1, Invariance, PTL DEF Spec, AbortedOnlyIfStopped

-----------------------------------------------------------------------------
(***************************************************************************)
(* How an accepted event can leave the ring.  Two more facts are needed:   *)
(* the event of a job that is being tidied up has ended, so clearing its   *)
(* own slot drops nothing that waits; and emcore_start_event_loop, which   *)
(* wipes the ring, runs before any event was accepted.                     *)
(***************************************************************************)
EndedFate ==
    pc[Worker] \in {"unref", "unref_store", "clear"} =>
        fate[mine[Worker]] \in {"done", "aborted"}

NotStarted ==
    pc[Main] = "idle" =>
        /\ ~srvThread
        /\ \A c \in Clients : pc[c] \in {"idle", "cancel"}
        /\ \A e \in Events : fate[e] # "waiting"

RInv == IInv /\ EndedFate /\ NotStarted

\* emcore_cancel_thread never makes an event wait.
LEMMA CancelQueues ==
  ASSUME IInv, NEW p \in Procs, NEW h \in Slots, CancelBegin(p, h)
  PROVE  \A e \in Events : fate'[e] = "waiting" => fate[e] = "waiting"
  BY DEF CancelBegin, IInv, TypeOK

LEMMA EndedFateInv == ASSUME RInv, [Next]_vars PROVE EndedFate'
<1>1. FateStep
  BY NextFate DEF RInv
<1>2. TypeOK /\ IInv /\ EndedFate
  BY DEF RInv, IInv
<1>3. CASE RunHandler
  BY <1>2, <1>3 DEF RunHandler, EndedFate, TypeOK, IInv, Holdings, WorkerBusy
<1>4. CASE /\ pc'[Worker] \in {"unref", "unref_store", "clear"}
              => pc[Worker] \in {"unref", "unref_store", "clear"}
           /\ pc[Worker] \in {"unref", "unref_store", "clear"} =>
                 mine'[Worker] = mine[Worker] \/ pc'[Worker] = "loop"
  <2>1. pc[Worker] \in {"unref", "unref_store", "clear"} => mine[Worker] \in Events
    BY <1>2 DEF IInv, Holdings, WorkerBusy
  <2> QED  BY <1>1, <1>2, <1>4, <2>1 DEF FateStep, FinalFates, EndedFate, TypeOK
<1>5. CASE StartEventLoop \/ StopLoop \/ StopStep
  BY <1>2, <1>4, <1>5 DEF StartEventLoop, StopLoop, StopStep, StopArg, StopCancel, StopCancelEnd,
     CancelBegin, CancelEnd, StopSignal, Join, Wake, TypeOK
<1>6. CASE WorkerStep \/ SpuriousWake
  BY <1>2, <1>3, <1>4, <1>6 DEF WorkerStep, SpuriousWake, WorkerLoop, Retrieve, TakeEvent,
     FindNothing, Sleep, UnrefLoad, UnrefStore, ClearSlot, TypeOK
<1>7. ASSUME NEW c \in Clients,
             \/ ClientStep(c)
             \/ \E e \in Events : InsertCheck(c, e)
             \/ \E h \in Slots : ClientCancel(c, h)
      PROVE  EndedFate'
  BY <1>2, <1>4, <1>7 DEF ClientStep, Enqueue, RefLoad, RefStore, InsertSignal, Wake,
     ClientCancelEnd, CancelEnd, InsertCheck, ClientCancel, CancelBegin, TypeOK
<1>8. CASE UNCHANGED vars
  BY <1>4, <1>8 DEF vars
<1> QED  BY <1>5, <1>6, <1>7, <1>8 DEF Next

LEMMA NotStartedInv == ASSUME RInv, [Next]_vars PROVE NotStarted'
<1>1. TypeOK /\ IInv /\ NotStarted
  BY DEF RInv, IInv
<1>2. CASE StartEventLoop \/ StopLoop \/ StopStep
  BY <1>1, <1>2 DEF StartEventLoop, StopLoop, StopStep, StopArg, StopCancel, StopCancelEnd,
     CancelBegin, CancelEnd, StopSignal, Join, Wake, TypeOK, NotStarted
<1>3. CASE WorkerStep \/ SpuriousWake
  BY <1>1, <1>3 DEF WorkerStep, SpuriousWake, WorkerLoop, Retrieve, TakeEvent, FindNothing,
     Sleep, RunHandler, UnrefLoad, UnrefStore, ClearSlot, TypeOK, NotStarted
<1>4. ASSUME NEW c \in Clients, ClientStep(c) PROVE NotStarted'
  BY <1>1, <1>4 DEF ClientStep, Enqueue, RefLoad, RefStore, InsertSignal, Wake,
     ClientCancelEnd, CancelEnd, TypeOK, NotStarted
<1>5. ASSUME NEW c \in Clients, NEW e \in Events, InsertCheck(c, e) PROVE NotStarted'
  BY <1>1, <1>5 DEF InsertCheck, TypeOK, NotStarted
<1>6. ASSUME NEW c \in Clients, NEW h \in Slots, ClientCancel(c, h) PROVE NotStarted'
  BY <1>1, <1>6, CancelQueues DEF ClientCancel, CancelBegin, TypeOK, NotStarted
<1>7. CASE UNCHANGED vars
  BY <1>1, <1>7 DEF vars, NotStarted
<1> QED  BY <1>2, <1>3, <1>4, <1>5, <1>6, <1>7 DEF Next

\* What one step may do to the ring: an accepted event stays in it.
Kept ==
    \A e \in Events :
        (fate'[e] = "waiting" /\ loop' /\ (fate[e] = "waiting" => Queued(e)))
            => Queued(e)' \/ ClearsAnother

LEMMA EnqueueKeeps == ASSUME RInv, NEW c \in Clients, Enqueue(c) PROVE Kept
<1>1. TypeOK /\ mine[c] \in Events
  BY DEF RInv, IInv, Enqueue, Holdings
<1>2. CASE FreeSlots = {} /\ fate' = [fate EXCEPT ![mine[c]] = "refused"] /\ UNCHANGED que
  BY <1>1, <1>2 DEF TypeOK, Kept, Queued
<1>3. ASSUME NEW j \in Slots, que[j].ev = NoEvent,
             que' = [que EXCEPT ![j] = [ev |-> mine[c], status |-> "WAIT"]],
             fate' = [fate EXCEPT ![mine[c]] = "waiting"]
      PROVE  Kept
  <2> SUFFICES ASSUME NEW e \in Events, fate[e] = "waiting" => Queued(e), fate'[e] = "waiting"
               PROVE  Queued(e)'
    BY DEF Kept
  <2>1. CASE e = mine[c]
    BY <1>1, <1>3, <2>1 DEF TypeOK, Queued
  <2>2. CASE e # mine[c]
    BY <1>1, <1>3, <2>2 DEF TypeOK, Queued
  <2> QED  BY <2>1, <2>2
<1> QED  BY <1>2, <1>3 DEF Enqueue, IsInsertSlot, FreeSlots

LEMMA RetrieveKeeps == ASSUME RInv, Retrieve PROVE Kept
<1>1. TypeOK
  BY DEF RInv, IInv
<1>2. CASE TakeEvent("STARTED", idx)
  <2> SUFFICES ASSUME NEW e \in Events, fate[e] = "waiting" => Queued(e), fate'[e] = "waiting"
               PROVE  Queued(e)'
    BY DEF Kept
  <2>1. que[idx].ev \in Events /\ e # que[idx].ev
    BY <1>1, <1>2 DEF TakeEvent, TypeOK
  <2>2. fate[e] = "waiting"
    BY <1>1, <1>2, <2>1 DEF TakeEvent, TypeOK
  <2> QED  BY <1>1, <1>2, <2>1, <2>2 DEF TakeEvent, TypeOK, Queued
<1>3. CASE /\ que[idx].ev # NoEvent /\ que[idx].status # "WAIT"
           /\ que' = [que EXCEPT ![idx] = EmptySlot] /\ UNCHANGED fate
  BY <1>1, <1>3 DEF TypeOK, Kept, Queued
<1>4. CASE FindNothing
  BY <1>4 DEF FindNothing, Kept, Queued
<1> QED  BY <1>2, <1>3, <1>4 DEF Retrieve

LEMMA CancelEndKeeps == ASSUME RInv, NEW p \in Procs, CancelEnd(p) PROVE Kept
<1>1. TypeOK /\ target[p] \in Slots /\ queLock = p /\ p # NoProc
  BY DEF RInv, IInv, CancelEnd, Holdings
<1>2. que[target[p]].status = "WAIT" => fate[que[target[p]].ev] = "cancelled"
  BY <1>1 DEF RInv, IInv, SlotFates
<1> QED  BY <1>1, <1>2 DEF CancelEnd, TypeOK, Kept, Queued

LEMMA ClearSlotKeeps == ASSUME RInv, ClearSlot PROVE Kept
<1>1. TypeOK /\ active \in Slots /\ fate[mine[Worker]] \in {"done", "aborted"}
  BY DEF RInv, IInv, ClearSlot, Holdings, WorkerBusy, EndedFate
<1>2. CASE ClearsAnother
  BY <1>2 DEF Kept
<1>3. CASE que[active].ev = mine[Worker]
  BY <1>1, <1>3 DEF ClearSlot, TypeOK, Kept, Queued
<1> QED  BY <1>2, <1>3 DEF ClearSlot, ClearsAnother

LEMMA NextKeeps == RInv /\ [Next]_vars => Kept
<1> SUFFICES ASSUME RInv, [Next]_vars PROVE Kept
  OBVIOUS
<1>1. CASE UNCHANGED que /\ \A e \in Events : fate'[e] = "waiting" => fate[e] = "waiting"
  BY <1>1 DEF Kept, Queued
<1>2. CASE StartEventLoop
  BY <1>2 DEF StartEventLoop, RInv, NotStarted, Kept
<1>3. CASE StopLoop \/ StopStep
  <2>1. CASE StopCancel
    BY <1>1, <2>1, CancelQueues DEF StopCancel, CancelBegin, RInv, IInv, Holdings
  <2>2. CASE StopCancelEnd
    BY <2>2, CancelEndKeeps DEF StopCancelEnd
  <2> QED  BY <1>1, <1>3, <2>1, <2>2 DEF StopLoop, StopStep, StopArg, StopSignal, Join
<1>4. CASE WorkerStep \/ SpuriousWake
  <2>1. CASE RunHandler
    BY <1>1, <2>1 DEF RunHandler, RInv, IInv, TypeOK
  <2> QED  BY <1>1, <1>4, <2>1, RetrieveKeeps, ClearSlotKeeps DEF WorkerStep, SpuriousWake,
              WorkerLoop, Sleep, UnrefLoad, UnrefStore
<1>5. ASSUME NEW c \in Clients, ClientStep(c) PROVE Kept
  BY <1>1, <1>5, EnqueueKeeps, CancelEndKeeps DEF ClientStep, RefLoad, RefStore, InsertSignal,
     ClientCancelEnd
<1>6. ASSUME NEW c \in Clients, NEW e \in Events, InsertCheck(c, e) PROVE Kept
  BY <1>1, <1>6 DEF InsertCheck, RInv, IInv, TypeOK
<1>7. ASSUME NEW c \in Clients, NEW h \in Slots, ClientCancel(c, h) PROVE Kept
  BY <1>1, <1>7, CancelQueues DEF ClientCancel, CancelBegin, RInv, IInv
<1>8. CASE UNCHANGED vars
  BY <1>1, <1>8 DEF vars
<1> QED  BY <1>2, <1>3, <1>4, <1>5, <1>6, <1>7, <1>8 DEF Next

\* An accepted event leaves the ring unrun and uncancelled only when the
\* service thread clears a slot that was given to another event meanwhile.
THEOREM OnlyReuseDrops == Spec => DroppedOnlyByReuse
<1>1. Init => RInv
  BY InitInv DEF Init, RInv, EndedFate, NotStarted
<1>2. RInv /\ [Next]_vars => RInv'
  BY NextInv, EndedFateInv, NotStartedInv DEF RInv
<1>3. RInv /\ [Next]_vars => Kept
  BY NextKeeps
<1> QED  BY <1>1, <1>2, <1>3, PTL DEF Spec, DroppedOnlyByReuse, Kept

-----------------------------------------------------------------------------
(***************************************************************************)
(* Where no client cancels a job, the ring is a first-in first-out queue.  *)
(* The waiting slots follow the read index without a gap, and while a job  *)
(* runs its slot is the one just before the index, so that the first free  *)
(* slot is the one behind the last waiting slot.  That stays true until    *)
(* the service thread has seen the loop's flag lowered, although           *)
(* emcore_stop_event_loop may cancel a slot before that: it is the slot    *)
(* before the index, the last of the waiting ones if it waits at all.      *)
(***************************************************************************)

\* The slot a walk from slot i comes to after d steps.
SlotAt(i, d) == IF i + d < QueueMax THEN i + d ELSE i + d - (QueueMax - 1)

LEMMA Walk ==
  ASSUME NEW i \in Slots
  PROVE  /\ \A s \in Slots : Distance(i, s) \in 0 .. (QueueMax - 2) /\ SlotAt(i, Distance(i, s)) = s
         /\ \A d \in 0 .. (QueueMax - 2) : SlotAt(i, d) \in Slots /\ Distance(i, SlotAt(i, d)) = d
  BY DEF SlotAt, Distance

LEMMA WalkOn ==
  ASSUME NEW i \in Slots
  PROVE  /\ Distance(i, i) = 0 /\ SlotAt(i, 0) = i
         /\ Distance(NextSlot(i), i) = QueueMax - 2
         /\ \A s \in Slots : s # i => Distance(NextSlot(i), s) = Distance(i, s) - 1
         /\ \A d \in 0 .. (QueueMax - 3) : SlotAt(NextSlot(i), d) = SlotAt(i, d + 1)
  BY DEF SlotAt, Distance, NextSlot

\* A sequence of n elements as its first and the others.
LEMMA FirstAndRest ==
  ASSUME NEW S, NEW n \in Nat, n >= 1, NEW e \in [1 .. n -> S], NEW f,
         f \in [1 .. (n - 1) -> S], \A k \in 1 .. (n - 1) : f[k] = e[k + 1]
  PROVE  e # <<>> /\ Head(e) = e[1] /\ Tail(e) = f
<1>1. e \in Seq(S) /\ Len(e) = n
  OBVIOUS
<1>2. e # <<>> /\ Head(e) = e[1]
  BY <1>1
<1>3. Tail(e) \in Seq(S) /\ Len(Tail(e)) = n - 1
  BY <1>1, <1>2
<1>4. \A k \in 1 .. (n - 1) : Tail(e)[k] = e[k + 1]
  BY <1>1, <1>2
<1>5. Tail(e) \in [1 .. (n - 1) -> S]
  BY <1>3, LenProperties
<1> QED  BY <1>2, <1>4, <1>5

\* There are n slots less than n steps away.
LEMMA CountBelow ==
  ASSUME NEW i \in Slots, NEW n \in 0 .. (QueueMax - 1)
  PROVE  Cardinality({t \in Slots : Distance(i, t) < n}) = n
<1> DEFINE S == {t \in Slots : Distance(i, t) < n}
<1> DEFINE f == [k \in 1 .. n |-> SlotAt(i, k - 1)]
<1>1. \A k \in 1 .. n : f[k] \in Slots /\ Distance(i, f[k]) = k - 1
  BY Walk
<1>2. f \in [1 .. n -> S]
  BY <1>1
<1>3. \A k, l \in 1 .. n : f[k] = f[l] => k = l
  BY <1>1
<1>4. \A t \in S : \E k \in 1 .. n : f[k] = t
  <2> SUFFICES ASSUME NEW t \in S PROVE \E k \in 1 .. n : f[k] = t
    OBVIOUS
  <2> DEFINE k == Distance(i, t) + 1
  <2>1. Distance(i, t) \in 0 .. (QueueMax - 2) /\ Distance(i, t) < n /\ SlotAt(i, Distance(i, t)) = t
    BY Walk
  <2>2. k \in 1 .. n /\ k - 1 = Distance(i, t)
    BY <2>1
  <2>3. f[k] = t
    BY <2>1, <2>2
  <2> QED  BY <2>2, <2>3
<1> HIDE DEF f
<1>5. f \in Bijection(1 .. n, S)
  BY <1>2, <1>3, <1>4 DEF Bijection, Injection, Surjection, IsInjective
<1>6. ExistsBijection(1 .. n, S)
  BY <1>5 DEF ExistsBijection
<1>7. n \in Nat
  OBVIOUS
<1> HIDE DEF S
<1>8. Cardinality(S) = n
  BY <1>6, <1>7, FS_CountingElements
<1> QED  BY <1>8 DEF S

\* The jobs in the ring q whose read index is i, as Pending counts them.
RingJobs(q, i) ==
    LET W == {s \in Slots : q[s].status = "WAIT"}
    IN  [k \in 1 .. Cardinality(W) |->
           q[CHOOSE s \in W :
               Cardinality({t \in W : Distance(i, t) < Distance(i, s)}) = k - 1].ev]

\* The n slots from i on wait, and no other.
WaitBelow(q, i, n) == \A s \in Slots : q[s].status = "WAIT" <=> Distance(i, s) < n

LEMMA RingJobsAre ==
  ASSUME NEW q, NEW i \in Slots, NEW n \in 0 .. (QueueMax - 1), WaitBelow(q, i, n)
  PROVE  RingJobs(q, i) = [k \in 1 .. n |-> q[SlotAt(i, k - 1)].ev]
<1> DEFINE W == {s \in Slots : q[s].status = "WAIT"}
           Before(s) == {t \in W : Distance(i, t) < Distance(i, s)}
<1>1. W = {t \in Slots : Distance(i, t) < n}
  BY DEF WaitBelow
<1>2. Cardinality(W) = n
  BY <1>1, CountBelow
<1>3. \A s \in W : Cardinality(Before(s)) = Distance(i, s)
  <2> SUFFICES ASSUME NEW s \in W PROVE Cardinality(Before(s)) = Distance(i, s)
    OBVIOUS
  <2>1. Distance(i, s) \in 0 .. (QueueMax - 1) /\ Distance(i, s) < n
    BY <1>1, Walk
  <2>2. \A t \in Slots : Distance(i, t) \in Int
    BY Walk
  <2>3. Before(s) = {t \in Slots : Distance(i, t) < Distance(i, s)}
    BY <1>1, <2>1, <2>2
  <2> QED  BY <2>1, <2>3, CountBelow
<1>4. ASSUME NEW k \in 1 .. n
      PROVE  (CHOOSE s \in W : Cardinality(Before(s)) = k - 1) = SlotAt(i, k - 1)
  <2>1. SlotAt(i, k - 1) \in W /\ Distance(i, SlotAt(i, k - 1)) = k - 1
    BY <1>1, Walk
  <2>2. \A s \in W : Distance(i, s) = k - 1 => s = SlotAt(i, k - 1)
    BY Walk
  <2> HIDE DEF W, Before
  <2> QED  BY <1>3, <2>1, <2>2
<1>5. RingJobs(q, i) = [k \in 1 .. Cardinality(W) |->
                          q[CHOOSE s \in W : Cardinality(Before(s)) = k - 1].ev]
  BY DEF RingJobs
<1> HIDE DEF W, Before
<1> QED  BY <1>2, <1>4, <1>5

-----------------------------------------------------------------------------
Contiguous == \E n \in 0 .. (QueueMax - 1) : WaitBelow(que, idx, n)

QInv ==
    /\ pc[Main] = "idle" => pc[Worker] = "absent" /\ \A s \in Slots : que[s] = EmptySlot
    /\ loop <=> pc[Main] \in {"idle", "up"}
    /\ \A c \in Clients : pc[c] # "cancel"
    /\ loop \/ pc[Worker] = "retrieve" =>
          Contiguous /\ (active # 0 => idx = NextSlot(active))
    /\ pc[Worker] = "retrieve" /\ pc[Main] \in {"stop_cancel", "stop_cancel_end"} =>
          idx = NextSlot(target[Main])
    /\ loop /\ pc[Worker] \in WorkerBusy => que[active].status = "STARTED"
    /\ pc[Worker] \notin WorkerBusy => mine[Worker] = NoEvent

NInv == RInv /\ QInv

\* What a step does to the queue of waiting jobs.
Waits(n) == n \in 0 .. (QueueMax - 1) /\ WaitBelow(que, idx, n)

\* The slot an insertion takes is the one behind the last waiting slot.
LEMMA InsertsBehind ==
  ASSUME NInv, loop \/ pc[Worker] = "retrieve", NEW n, Waits(n),
         NEW j \in Slots, IsInsertSlot(FreeSlots, idx, j)
  PROVE  Distance(idx, j) = n
<1>1. /\ idx \in Slots /\ que[j].ev = NoEvent
      /\ \A k \in Slots : que[k].ev = NoEvent => Distance(idx, j) =< Distance(idx, k)
  BY DEF IsInsertSlot, FreeSlots, NInv, RInv, IInv, TypeOK
<1>2. que[j].status # "WAIT" /\ que[j].status # "STARTED"
  BY <1>1 DEF NInv, RInv, IInv, SlotShape
<1>3. Distance(idx, j) \in 0 .. (QueueMax - 2) /\ ~(Distance(idx, j) < n)
  BY <1>1, <1>2, Walk DEF Waits, WaitBelow
<1>4. SUFFICES ASSUME n < Distance(idx, j) PROVE FALSE
  BY <1>3 DEF Waits
<1> DEFINE k == SlotAt(idx, n)
<1>5. k \in Slots /\ Distance(idx, k) = n
  BY <1>1, <1>3, <1>4, Walk DEF Waits
<1>6. que[k].status # "WAIT"
  BY <1>5 DEF Waits, WaitBelow
<1>7. que[k].status # "STARTED"
  <2> SUFFICES ASSUME que[k].status = "STARTED" PROVE FALSE
    OBVIOUS
  <2>1. k = active /\ pc[Worker] \in WorkerBusy
    BY <1>5 DEF NInv, RInv, IInv, StartedIsActive
  <2>2. idx = NextSlot(k)
    BY <1>5, <2>1 DEF NInv, QInv, WorkerBusy
  <2>3. Distance(idx, k) = QueueMax - 2
    BY <1>5, <2>2, WalkOn
  <2> QED  BY <1>3, <1>4, <1>5, <2>3
<1>8. que[k].ev = NoEvent
  BY <1>5, <1>6, <1>7 DEF NInv, RInv, IInv, TypeOK, SlotShape
<1>9. Distance(idx, j) =< Distance(idx, k)
  BY <1>1, <1>5, <1>8
<1> QED  BY <1>3, <1>4, <1>5, <1>9 DEF Waits

-----------------------------------------------------------------------------
\* What JobFifo sees of a step, and what the service thread may not overlook.
FifoStep == [Fifo!Next]_(Fifo!vars)
SleepStep ==
    pc[Worker] = "retrieve" /\ pc'[Worker] = "sleep"
        => \A s \in Slots : que[s].status # "WAIT"

LEMMA PendingIs ==
  ASSUME NEW n \in 0 .. (QueueMax - 1)
  PROVE  /\ idx \in Slots /\ WaitBelow(que, idx, n) =>
              Pending = [k \in 1 .. n |-> que[SlotAt(idx, k - 1)].ev]
         /\ idx' \in Slots /\ WaitBelow(que', idx', n) =>
              Pending' = [k \in 1 .. n |-> que'[SlotAt(idx', k - 1)].ev]
<1>1. Pending = RingJobs(que, idx) /\ Pending' = RingJobs(que', idx')
  BY DEF Pending, NthWaiting, WaitingSlots, RingJobs
<1> QED  BY <1>1, RingJobsAre

\* A step the queue of JobFifo does not see.
LEMMA Unseen ==
  ASSUME loop' = loop, loop => UNCHANGED <<que, idx>> /\ mine'[Worker] = mine[Worker]
  PROVE  FifoStep
<1>1. loop => Pending' = Pending
  BY DEF Pending, NthWaiting, WaitingSlots
<1> QED  BY <1>1 DEF FifoStep, Fifo!vars

LEMMA WorkerLoopQueue == ASSUME NInv, WorkerLoop PROVE QInv' /\ FifoStep /\ SleepStep
<1>1. QInv'
  BY DEF WorkerLoop, NInv, QInv, RInv, IInv, TypeOK, Contiguous, WaitBelow, WorkerBusy
<1> QED  BY <1>1, Unseen DEF WorkerLoop, SleepStep, NInv, RInv, IInv, TypeOK

LEMMA SleepQueue == ASSUME NInv, Sleep PROVE QInv' /\ FifoStep /\ SleepStep
<1>1. QInv'
  BY DEF Sleep, NInv, QInv, RInv, IInv, TypeOK, Contiguous, WaitBelow, WorkerBusy
<1> QED  BY <1>1, Unseen DEF Sleep, SleepStep, NInv, RInv, IInv, TypeOK

LEMMA SpuriousWakeQueue == ASSUME NInv, SpuriousWake PROVE QInv' /\ FifoStep /\ SleepStep
<1>1. QInv'
  BY DEF SpuriousWake, NInv, QInv, RInv, IInv, TypeOK, Contiguous, WaitBelow, WorkerBusy
<1> QED  BY <1>1, Unseen DEF SpuriousWake, SleepStep, NInv, RInv, IInv, TypeOK

LEMMA RunHandlerQueue == ASSUME NInv, RunHandler PROVE QInv' /\ FifoStep /\ SleepStep
<1>1. QInv'
  BY DEF RunHandler, NInv, QInv, RInv, IInv, TypeOK, Contiguous, WaitBelow, WorkerBusy
<1> QED  BY <1>1, Unseen DEF RunHandler, SleepStep, NInv, RInv, IInv, TypeOK

LEMMA UnrefLoadQueue == ASSUME NInv, UnrefLoad PROVE QInv' /\ FifoStep /\ SleepStep
<1>1. QInv'
  BY DEF UnrefLoad, NInv, QInv, RInv, IInv, TypeOK, Contiguous, WaitBelow, WorkerBusy
<1> QED  BY <1>1, Unseen DEF UnrefLoad, SleepStep, NInv, RInv, IInv, TypeOK

LEMMA UnrefStoreQueue == ASSUME NInv, UnrefStore PROVE QInv' /\ FifoStep /\ SleepStep
<1>1. QInv'
  BY DEF UnrefStore, NInv, QInv, RInv, IInv, TypeOK, Contiguous, WaitBelow, WorkerBusy
<1> QED  BY <1>1, Unseen DEF UnrefStore, SleepStep, NInv, RInv, IInv, TypeOK

LEMMA StopArgQueue == ASSUME NInv, StopArg PROVE QInv' /\ FifoStep /\ SleepStep
<1>1. QInv'
  BY DEF StopArg, NInv, QInv, RInv, IInv, TypeOK, Contiguous, WaitBelow, WorkerBusy, Wake, Places
<1> QED  BY <1>1, Unseen DEF StopArg, SleepStep, NInv, RInv, IInv, TypeOK, Wake, Places

LEMMA StopSignalQueue == ASSUME NInv, StopSignal PROVE QInv' /\ FifoStep /\ SleepStep
<1>1. QInv'
  BY DEF StopSignal, NInv, QInv, RInv, IInv, TypeOK, Contiguous, WaitBelow, WorkerBusy, Wake, Places
<1> QED  BY <1>1, Unseen DEF StopSignal, SleepStep, NInv, RInv, IInv, TypeOK, Wake, Places

LEMMA JoinQueue == ASSUME NInv, Join PROVE QInv' /\ FifoStep /\ SleepStep
<1>1. QInv'
  BY DEF Join, NInv, QInv, RInv, IInv, TypeOK, Contiguous, WaitBelow, WorkerBusy, Wake, Places
<1> QED  BY <1>1, Unseen DEF Join, SleepStep, NInv, QInv, RInv, IInv, TypeOK, Wake, Places

LEMMA StopCancelQueue == ASSUME NInv, StopCancel PROVE QInv' /\ FifoStep /\ SleepStep
<1>1. QInv'
  BY DEF StopCancel, NInv, QInv, RInv, IInv, TypeOK, Contiguous, WaitBelow, WorkerBusy, CancelBegin
<1> QED  BY <1>1, Unseen DEF StopCancel, SleepStep, NInv, RInv, IInv, TypeOK, CancelBegin

LEMMA RefLoadQueue == ASSUME NInv, NEW c \in Clients, RefLoad(c) PROVE QInv' /\ FifoStep /\ SleepStep
<1>1. QInv'
  BY DEF RefLoad, NInv, QInv, RInv, IInv, TypeOK, Contiguous, WaitBelow, WorkerBusy, Wake
<1> QED  BY <1>1, Unseen DEF RefLoad, SleepStep, NInv, RInv, IInv, TypeOK, Wake

LEMMA RefStoreQueue == ASSUME NInv, NEW c \in Clients, RefStore(c) PROVE QInv' /\ FifoStep /\ SleepStep
<1>1. QInv'
  BY DEF RefStore, NInv, QInv, RInv, IInv, TypeOK, Contiguous, WaitBelow, WorkerBusy, Wake
<1> QED  BY <1>1, Unseen DEF RefStore, SleepStep, NInv, RInv, IInv, TypeOK, Wake

LEMMA InsertSignalQueue == ASSUME NInv, NEW c \in Clients, InsertSignal(c) PROVE QInv' /\ FifoStep /\ SleepStep
<1>1. QInv'
  BY DEF InsertSignal, NInv, QInv, RInv, IInv, TypeOK, Contiguous, WaitBelow, WorkerBusy, Wake
<1> QED  BY <1>1, Unseen DEF InsertSignal, SleepStep, NInv, RInv, IInv, TypeOK, Wake

LEMMA InsertCheckQueue == ASSUME NInv, NEW c \in Clients, NEW e \in Events, InsertCheck(c, e) PROVE QInv' /\ FifoStep /\ SleepStep
<1>1. QInv'
  BY DEF InsertCheck, NInv, QInv, RInv, IInv, TypeOK, Contiguous, WaitBelow, WorkerBusy
<1> QED  BY <1>1, Unseen DEF InsertCheck, SleepStep, NInv, RInv, IInv, TypeOK

LEMMA RetrieveQueue ==
  ASSUME NInv, Retrieve PROVE QInv' /\ FifoStep /\ SleepStep
<1>1. PICK n \in 0 .. (QueueMax - 1) : WaitBelow(que, idx, n)
  BY DEF Retrieve, NInv, QInv, Contiguous
<1>2. /\ idx \in Slots /\ NextSlot(idx) \in Slots /\ pc[Worker] = "retrieve" /\ loop' = loop
      /\ que \in [Slots -> [ev : Events \cup {NoEvent}, status : Statuses]]
      /\ pc[Worker] \notin WorkerBusy /\ mine[Worker] = NoEvent /\ pc[Main] # "idle"
  BY NextSlotType DEF Retrieve, NInv, QInv, RInv, IInv, TypeOK, WorkerBusy
<1>3. que[idx].ev # NoEvent => que[idx].status = "WAIT"
  BY <1>2 DEF NInv, RInv, IInv, SlotShape, StartedIsActive
<1>4. que[idx].status = "WAIT" <=> 0 < n
  BY <1>1, <1>2, WalkOn DEF WaitBelow
<1>5. CASE que[idx].status = "WAIT"
  <2>1. /\ que' = [que EXCEPT ![idx].status = "STARTED"]
        /\ active' = idx /\ idx' = NextSlot(idx)
        /\ mine' = [mine EXCEPT ![Worker] = que[idx].ev]
        /\ pc' = [pc EXCEPT ![Worker] = "run"]
        /\ que[idx].ev # NoEvent /\ que[idx].ev \in Events
    BY <1>2, <1>5 DEF Retrieve, TakeEvent, FindNothing, NInv, RInv, IInv, SlotShape
  <2>2. n - 1 \in 0 .. (QueueMax - 1) /\ n - 1 \in 0 .. (QueueMax - 2)
    BY <1>4, <1>5
  <2>3. WaitBelow(que', idx', n - 1)
    <3> SUFFICES ASSUME NEW s \in Slots
                 PROVE  que'[s].status = "WAIT" <=> Distance(NextSlot(idx), s) < n - 1
      BY <2>1 DEF WaitBelow
    <3>1. CASE s = idx
      BY <1>2, <2>1, <2>2, <3>1, WalkOn
    <3>2. CASE s # idx
      <4>1. que'[s] = que[s] /\ Distance(NextSlot(idx), s) = Distance(idx, s) - 1
        BY <1>2, <2>1, <3>2, WalkOn
      <4>2. Distance(idx, s) \in Int
        BY <1>2, Walk
      <4> QED  BY <1>1, <2>2, <4>1, <4>2 DEF WaitBelow
    <3> QED  BY <3>1, <3>2
  <2>4. QInv'
    BY <1>2, <2>1, <2>2, <2>3 DEF Retrieve, NInv, QInv, RInv, IInv, TypeOK, Contiguous, WorkerBusy
  <2>5. ASSUME loop PROVE Fifo!Take
    <3>1. Pending = [k \in 1 .. n |-> que[SlotAt(idx, k - 1)].ev]
      BY <1>1, <1>2, PendingIs
    <3>2. Pending' = [k \in 1 .. (n - 1) |-> que'[SlotAt(NextSlot(idx), k - 1)].ev]
      <4> DEFINE m == n - 1
      <4>1. m \in 0 .. (QueueMax - 1) /\ WaitBelow(que', idx', m) /\ idx' \in Slots
        BY <1>2, <2>1, <2>2, <2>3
      <4> HIDE DEF m
      <4>2. Pending' = [k \in 1 .. m |-> que'[SlotAt(idx', k - 1)].ev]
        BY <4>1, PendingIs
      <4> QED  BY <2>1, <4>2 DEF m
    <3>3. \A k \in 1 .. (n - 1) : que'[SlotAt(NextSlot(idx), k - 1)].ev = que[SlotAt(idx, k)].ev
      <4> SUFFICES ASSUME NEW k \in 1 .. (n - 1)
                   PROVE  que'[SlotAt(NextSlot(idx), k - 1)].ev = que[SlotAt(idx, k)].ev
        OBVIOUS
      <4>1. SlotAt(NextSlot(idx), k - 1) = SlotAt(idx, k) /\ SlotAt(idx, k) \in Slots
        <5>1. k - 1 \in 0 .. (QueueMax - 3) /\ k \in 0 .. (QueueMax - 2) /\ (k - 1) + 1 = k
          BY <2>2
        <5>2. SlotAt(NextSlot(idx), k - 1) = SlotAt(idx, (k - 1) + 1)
          BY <1>2, <5>1, WalkOn
        <5> QED  BY <1>2, <5>1, <5>2, Walk
      <4> QED  BY <1>2, <2>1, <4>1
    <3>4. Pending # <<>> /\ Head(Pending) = que[idx].ev /\ Pending' = Tail(Pending)
      <4> DEFINE Ev(k) == que[SlotAt(idx, k - 1)].ev
      <4>1. n \in Nat /\ n >= 1 /\ Ev(1) = que[idx].ev
        BY <1>2, <2>2, WalkOn
      <4>2. \A k \in 1 .. (n - 1) : que'[SlotAt(NextSlot(idx), k - 1)].ev = Ev(k + 1)
        BY <3>3, <4>1
      <4>3. Pending = [k \in 1 .. n |-> Ev(k)]
        BY <3>1
      <4>4. Pending' = [k \in 1 .. (n - 1) |-> Ev(k + 1)]
        BY <3>2, <4>2
      <4> HIDE DEF Ev
      <4>5. PICK e, f, S : /\ e = Pending /\ f = Pending'
                           /\ e \in [1 .. n -> S] /\ f \in [1 .. (n - 1) -> S]
                           /\ e[1] = Ev(1) /\ \A k \in 1 .. (n - 1) : f[k] = e[k + 1]
        <5>1. \A k \in 1 .. (n - 1) : k \in 1 .. n /\ k + 1 \in 1 .. n
          BY <4>1
        <5> DEFINE T == {Ev(k) : k \in 1 .. n}
        <5>2. Pending \in [1 .. n -> T] /\ Pending' \in [1 .. (n - 1) -> T]
          BY <4>1, <4>3, <4>4, <5>1
        <5>3. Pending[1] = Ev(1) /\ \A k \in 1 .. (n - 1) : Pending'[k] = Pending[k + 1]
          BY <4>1, <4>3, <4>4, <5>1
        <5> QED  BY <5>2, <5>3
      <4>6. e # <<>> /\ Head(e) = e[1] /\ Tail(e) = f
        BY <4>1, <4>5, FirstAndRest
      <4> QED  BY <4>1, <4>5, <4>6
    <3> QED  BY <1>2, <2>1, <2>5, <3>4 DEF Fifo!Take, NInv, RInv, IInv, TypeOK
  <2>6. FifoStep
    BY <1>2, <2>5, Unseen DEF FifoStep, Fifo!Next
  <2> QED  BY <2>1, <2>4, <2>6, <1>2 DEF SleepStep, NInv, RInv, IInv, TypeOK
<1>6. CASE que[idx].status # "WAIT"
  <2>1. /\ que' = que /\ idx' = idx /\ active' = 0 /\ mine' = mine
        /\ pc' = [pc EXCEPT ![Worker] = "sleep"]
    BY <1>3, <1>6 DEF Retrieve, TakeEvent, FindNothing
  <2>2. QInv'
    BY <1>2, <2>1 DEF Retrieve, NInv, QInv, RInv, IInv, TypeOK, Contiguous, WaitBelow, WorkerBusy
  <2>3. FifoStep
    BY <1>2, <2>1, Unseen
  <2>4. \A s \in Slots : que[s].status # "WAIT"
    <3>1. n = 0
      BY <1>4, <1>6
    <3> QED  BY <1>1, <1>2, <3>1, Walk DEF WaitBelow
  <2> QED  BY <2>2, <2>3, <2>4 DEF SleepStep
<1> QED  BY <1>5, <1>6

LEMMA EnqueueQueue ==
  ASSUME NInv, NEW c \in Clients, Enqueue(c) PROVE QInv' /\ FifoStep /\ SleepStep
<1>1. /\ idx \in Slots /\ pc[c] = "enqueue" /\ mine[c] \in Events
      /\ que \in [Slots -> [ev : Events \cup {NoEvent}, status : Statuses]]
      /\ pc'[Worker] = pc[Worker] /\ pc'[Main] = pc[Main] /\ mine'[Worker] = mine[Worker]
      /\ \A d \in Clients : pc'[d] = pc[d] \/ pc'[d] \in {"ref", "idle"}
      /\ UNCHANGED <<idx, active, loop, target>>
      /\ pc[Main] # "idle"
  BY DEF Enqueue, NInv, QInv, RInv, NotStarted, IInv, Holdings, TypeOK
<1>2. CASE que' = que
  <2>1. QInv'
    BY <1>1, <1>2 DEF NInv, QInv, Contiguous, WaitBelow
  <2> QED  BY <1>1, <1>2, <2>1, Unseen DEF SleepStep
<1>3. ASSUME NEW j \in Slots, IsInsertSlot(FreeSlots, idx, j),
             que' = [que EXCEPT ![j] = [ev |-> mine[c], status |-> "WAIT"]]
      PROVE  QInv' /\ FifoStep /\ SleepStep
  <2>1. ASSUME NEW n \in 0 .. (QueueMax - 1), WaitBelow(que, idx, n),
               loop \/ pc[Worker] = "retrieve"
        PROVE  /\ Distance(idx, j) = n /\ n + 1 \in 0 .. (QueueMax - 1)
               /\ WaitBelow(que', idx', n + 1)
    <3>1. Distance(idx, j) = n
      BY <1>3, <2>1, InsertsBehind DEF Waits
    <3>2. n + 1 \in 0 .. (QueueMax - 1)
      BY <1>1, <3>1, Walk
    <3>3. ASSUME NEW s \in Slots
          PROVE  que'[s].status = "WAIT" <=> Distance(idx, s) < n + 1
      <4>1. CASE s = j
        BY <1>1, <1>3, <3>1, <4>1
      <4>2. CASE s # j
        <5>1. que'[s] = que[s] /\ Distance(idx, s) \in Int
          <6>1. Distance(idx, s) \in 0 .. (QueueMax - 2)
            BY <1>1, Walk
          <6> QED  BY <1>1, <1>3, <4>2, <6>1
        <5>2. Distance(idx, s) # Distance(idx, j)
          <6>1. SlotAt(idx, Distance(idx, s)) = s /\ SlotAt(idx, Distance(idx, j)) = j
            BY <1>1, Walk
          <6> QED  BY <4>2, <6>1
        <5> QED  BY <2>1, <3>1, <5>1, <5>2 DEF WaitBelow
      <4> QED  BY <4>1, <4>2
    <3> QED  BY <1>1, <3>1, <3>2, <3>3 DEF WaitBelow
  <2>2. QInv'
    <3>1. loop \/ pc[Worker] = "retrieve" => Contiguous'
      BY <2>1 DEF NInv, QInv, Contiguous
    <3>2. loop /\ pc[Worker] \in WorkerBusy => j # active
      <4>1. que[j].status # "STARTED"
        BY <1>3 DEF IsInsertSlot, FreeSlots, NInv, RInv, IInv, SlotShape
      <4> QED  BY <4>1 DEF NInv, QInv
    <3>3. loop /\ pc[Worker] \in WorkerBusy => que'[active].status = "STARTED"
      <4>1. pc[Worker] \in WorkerBusy => active \in Slots
        BY DEF NInv, RInv, IInv, Holdings
      <4> QED  BY <1>1, <1>3, <3>2, <4>1 DEF NInv, QInv
    <3> QED  BY <1>1, <3>1, <3>3 DEF NInv, QInv
  <2>3. ASSUME loop PROVE Fifo!Put(mine[c])
    <3>1. PICK n \in 0 .. (QueueMax - 1) : WaitBelow(que, idx, n)
      BY <2>3 DEF NInv, QInv, Contiguous
    <3>2. Pending = [k \in 1 .. n |-> que[SlotAt(idx, k - 1)].ev]
      BY <1>1, <3>1, PendingIs
    <3>3. Pending' = [k \in 1 .. (n + 1) |-> que'[SlotAt(idx, k - 1)].ev]
      BY <1>1, <2>1, <2>3, <3>1, PendingIs
    <3>4. /\ \A k \in 1 .. n : que'[SlotAt(idx, k - 1)].ev = que[SlotAt(idx, k - 1)].ev
          /\ que'[SlotAt(idx, n)].ev = mine[c]
      <4>1. Distance(idx, j) = n /\ n + 1 \in 0 .. (QueueMax - 1)
        BY <2>1, <2>3, <3>1
      <4>2. SlotAt(idx, n) = j
        BY <1>1, <4>1, Walk
      <4>3. ASSUME NEW k \in 1 .. n PROVE SlotAt(idx, k - 1) \in Slots /\ SlotAt(idx, k - 1) # j
        <5>1. k - 1 \in 0 .. (QueueMax - 2) /\ k - 1 # n
          BY <4>1
        <5>2. SlotAt(idx, k - 1) \in Slots /\ Distance(idx, SlotAt(idx, k - 1)) = k - 1
          BY <1>1, <5>1, Walk
        <5> QED  BY <4>1, <5>1, <5>2
      <4> QED  BY <1>1, <1>3, <4>2, <4>3
    <3>5. Pending' = Append(Pending, mine[c]) /\ Len(Pending) < QueueMax - 1
      <4>1. n + 1 \in 0 .. (QueueMax - 1)
        BY <2>1, <2>3, <3>1
      <4> QED  BY <3>2, <3>3, <3>4, <4>1
    <3> QED  BY <1>1, <2>3, <3>5 DEF Fifo!Put
  <2>4. FifoStep
    BY <1>1, <2>3, Unseen DEF FifoStep, Fifo!Next
  <2> QED  BY <1>1, <2>2, <2>4 DEF SleepStep
<1> QED  BY <1>2, <1>3 DEF Enqueue

LEMMA ClearSlotQueue ==
  ASSUME NInv, ClearSlot PROVE QInv' /\ FifoStep /\ SleepStep
<1>1. /\ active \in Slots /\ idx \in Slots /\ mine[Worker] \in Events
      /\ que \in [Slots -> [ev : Events \cup {NoEvent}, status : Statuses]]
      /\ que' = [que EXCEPT ![active] = EmptySlot]
      /\ pc[Worker] = "clear" /\ pc' = [pc EXCEPT ![Worker] = "loop"]
      /\ mine' = [mine EXCEPT ![Worker] = NoEvent]
      /\ UNCHANGED <<idx, active, loop, target>>
      /\ loop => que[active].status = "STARTED"
  BY DEF ClearSlot, NInv, QInv, RInv, IInv, Holdings, TypeOK, WorkerBusy
<1>2. ASSUME NEW n, WaitBelow(que, idx, n), loop
      PROVE  WaitBelow(que', idx', n)
  BY <1>1, <1>2 DEF WaitBelow
<1>3. QInv'
  <2>1. loop => Contiguous'
    BY <1>2 DEF NInv, QInv, Contiguous
  <2> QED  BY <1>1, <2>1 DEF NInv, QInv, RInv, IInv, TypeOK, WorkerBusy
<1>4. ASSUME loop PROVE Fifo!Finish
  <2>1. PICK n \in 0 .. (QueueMax - 1) : WaitBelow(que, idx, n)
    BY <1>4 DEF NInv, QInv, Contiguous
  <2>2. Pending = [k \in 1 .. n |-> que[SlotAt(idx, k - 1)].ev]
    BY <1>1, <2>1, PendingIs
  <2>3. Pending' = [k \in 1 .. n |-> que'[SlotAt(idx, k - 1)].ev]
    <3>1. WaitBelow(que', idx', n) /\ idx' \in Slots /\ idx' = idx
      BY <1>1, <1>2, <1>4, <2>1
    <3>2. Pending' = [k \in 1 .. n |-> que'[SlotAt(idx', k - 1)].ev]
      BY <3>1, PendingIs
    <3> QED  BY <3>1, <3>2
  <2>4. \A k \in 1 .. n : que'[SlotAt(idx, k - 1)] = que[SlotAt(idx, k - 1)]
    <3> SUFFICES ASSUME NEW k \in 1 .. n
                 PROVE  que'[SlotAt(idx, k - 1)] = que[SlotAt(idx, k - 1)]
      OBVIOUS
    <3>1. SlotAt(idx, k - 1) \in Slots /\ que[SlotAt(idx, k - 1)].status = "WAIT"
      <4>1. k - 1 \in 0 .. (QueueMax - 2) /\ k - 1 < n
        OBVIOUS
      <4>2. SlotAt(idx, k - 1) \in Slots /\ Distance(idx, SlotAt(idx, k - 1)) = k - 1
        BY <1>1, <4>1, Walk
      <4> QED  BY <2>1, <4>1, <4>2 DEF WaitBelow
    <3> QED  BY <1>1, <1>4, <3>1
  <2>5. Pending' = Pending
    BY <2>2, <2>3, <2>4
  <2> QED  BY <1>1, <1>4, <2>5 DEF Fifo!Finish, NInv, RInv, IInv, TypeOK
<1>5. FifoStep
  BY <1>1, <1>4, Unseen DEF FifoStep, Fifo!Next
<1> QED  BY <1>1, <1>3, <1>5 DEF SleepStep

LEMMA StopLoopQueue ==
  ASSUME NInv, StopLoop PROVE QInv' /\ FifoStep /\ SleepStep
<1>1. QInv'
  BY DEF StopLoop, NInv, QInv, RInv, IInv, TypeOK, Contiguous, WaitBelow, WorkerBusy
<1>2. loop /\ ~loop' /\ pc'[Worker] = pc[Worker]
  BY DEF StopLoop, NInv, QInv, RInv, IInv, TypeOK
<1>3. Fifo!Close
  BY <1>2 DEF Fifo!Close
<1> QED  BY <1>1, <1>2, <1>3 DEF FifoStep, Fifo!Next, SleepStep

LEMMA StartEventLoopQueue ==
  ASSUME NInv, StartEventLoop PROVE QInv' /\ FifoStep /\ SleepStep
<1>1. /\ pc[Main] = "idle" /\ pc[Worker] = "absent" /\ \A s \in Slots : que[s] = EmptySlot
      /\ que' = [s \in Slots |-> EmptySlot] /\ idx' = 1 /\ active' = 0 /\ loop /\ loop' /\ idx \in Slots
      /\ pc' = [pc EXCEPT ![Main] = "up", ![Worker] = "loop"] /\ mine' = mine
  BY DEF StartEventLoop, NInv, QInv, RInv, IInv, TypeOK
<1>2. WaitBelow(que, idx, 0) /\ WaitBelow(que', idx', 0) /\ idx' \in Slots
  <2>1. 1 \in Slots
    OBVIOUS
  <2>2. \A s \in Slots : /\ Distance(idx, s) \in 0 .. (QueueMax - 2)
                         /\ Distance(1, s) \in 0 .. (QueueMax - 2)
    BY <1>1, <2>1, Walk
  <2> QED  BY <1>1, <2>1, <2>2 DEF WaitBelow
<1>3. Pending = <<>> /\ Pending' = <<>>
  <2>1. 0 \in 0 .. (QueueMax - 1)
    OBVIOUS
  <2>2. /\ Pending = [k \in 1 .. 0 |-> que[SlotAt(idx, k - 1)].ev]
        /\ Pending' = [k \in 1 .. 0 |-> que'[SlotAt(idx', k - 1)].ev]
    BY <1>1, <1>2, <2>1, PendingIs
  <2> QED  BY <2>2
<1>4. QInv'
  BY <1>1, <1>2 DEF NInv, QInv, RInv, IInv, TypeOK, Contiguous, WorkerBusy
<1>5. FifoStep
  BY <1>1, <1>3 DEF FifoStep, Fifo!vars
<1> QED  BY <1>1, <1>4, <1>5 DEF SleepStep

LEMMA StopCancelEndQueue ==
  ASSUME NInv, StopCancelEnd PROVE QInv' /\ FifoStep /\ SleepStep
<1>1. /\ target[Main] \in Slots /\ ~loop /\ ~loop' /\ idx \in Slots /\ pc[Main] = "stop_cancel_end"
      /\ que \in [Slots -> [ev : Events \cup {NoEvent}, status : Statuses]]
      /\ que' = [que EXCEPT ![target[Main]] = CanceledSlot]
      /\ pc' = [pc EXCEPT ![Main] = "stop_signal"]
      /\ UNCHANGED <<idx, active, mine, loop>>
  BY DEF StopCancelEnd, CancelEnd, NInv, QInv, RInv, IInv, Holdings, TypeOK
<1>2. ASSUME pc[Worker] = "retrieve" PROVE Contiguous'
  <2> DEFINE h == target[Main]
  <2>1. PICK n \in 0 .. (QueueMax - 1) : WaitBelow(que, idx, n)
    BY <1>2 DEF NInv, QInv, Contiguous
  <2>2. Distance(idx, h) = QueueMax - 2
    BY <1>1, <1>2, WalkOn DEF NInv, QInv
  <2>3. \A s \in Slots : s # h => que'[s] = que[s] /\ Distance(idx, s) \in 0 .. (QueueMax - 3)
    <3>1. \A s \in Slots : Distance(idx, s) \in 0 .. (QueueMax - 2) /\ SlotAt(idx, Distance(idx, s)) = s
      BY <1>1, Walk
    <3>2. \A s \in Slots : s # h => Distance(idx, s) # QueueMax - 2
      BY <1>1, <2>2, <3>1
    <3> QED  BY <1>1, <3>1, <3>2
  <2>4. que'[h].status # "WAIT"
    BY <1>1
  <2>5. CASE n = QueueMax - 1
    <3>1. WaitBelow(que', idx', n - 1)
      BY <1>1, <2>1, <2>2, <2>3, <2>4, <2>5 DEF WaitBelow
    <3> QED  BY <2>5, <3>1 DEF Contiguous
  <2>6. CASE n # QueueMax - 1
    <3>1. WaitBelow(que', idx', n)
      BY <1>1, <2>1, <2>2, <2>3, <2>4, <2>6 DEF WaitBelow
    <3> QED  BY <3>1 DEF Contiguous
  <2> QED  BY <2>5, <2>6
<1>3. QInv'
  BY <1>1, <1>2 DEF NInv, QInv, RInv, IInv, TypeOK
<1> QED  BY <1>1, <1>3, Unseen DEF SleepStep, RInv, NInv, IInv, TypeOK

LEMMA NextQueue ==
  ASSUME NInv, Cancels = {}, [Next]_vars
  PROVE  QInv' /\ FifoStep /\ SleepStep
<1>1. CASE StartEventLoop \/ StopLoop \/ StopStep
  BY <1>1, StartEventLoopQueue, StopLoopQueue, StopArgQueue, StopCancelQueue,
     StopCancelEndQueue, StopSignalQueue, JoinQueue DEF StopStep
<1>2. CASE WorkerStep \/ SpuriousWake
  BY <1>2, WorkerLoopQueue, RetrieveQueue, SleepQueue, RunHandlerQueue, UnrefLoadQueue,
     UnrefStoreQueue, ClearSlotQueue, SpuriousWakeQueue DEF WorkerStep
<1>3. ASSUME NEW c \in Clients, ClientStep(c)
      PROVE  QInv' /\ FifoStep /\ SleepStep
  <2>1. ~ClientCancelEnd(c)
    BY DEF ClientCancelEnd, NInv, QInv
  <2> QED  BY <1>3, <2>1, EnqueueQueue, RefLoadQueue, RefStoreQueue, InsertSignalQueue
           DEF ClientStep
<1>4. ASSUME NEW c \in Clients, NEW h \in Slots, ClientCancel(c, h) PROVE FALSE
  BY <1>4 DEF ClientCancel
<1>5. CASE UNCHANGED vars
  <2>1. QInv'
    BY <1>5 DEF vars, NInv, QInv, Contiguous, WaitBelow
  <2> QED  BY <1>5, <2>1, Unseen DEF vars, SleepStep
<1> QED  BY <1>1, <1>2, <1>3, <1>4, <1>5, InsertCheckQueue DEF Next

LEMMA QueueInit == Init => NInv /\ Fifo!Init
<1> SUFFICES ASSUME Init PROVE NInv /\ Fifo!Init
  OBVIOUS
<1>1. RInv
  BY InitInv DEF Init, RInv, EndedFate, NotStarted
<1>2. WaitBelow(que, idx, 0) /\ idx \in Slots
  <2>1. idx \in Slots
    BY DEF Init
  <2>2. \A s \in Slots : ~(Distance(idx, s) < 0)
    BY <2>1, Walk
  <2> QED  BY <2>1, <2>2 DEF Init, WaitBelow
<1>3. Pending = <<>>
  <2>1. Pending = [k \in 1 .. 0 |-> que[SlotAt(idx, k - 1)].ev]
    BY <1>2, PendingIs
  <2> QED  BY <2>1
<1>4. QInv
  BY <1>2 DEF Init, QInv, Contiguous, WorkerBusy
<1> QED  BY <1>1, <1>3, <1>4 DEF Init, NInv, Fifo!Init

LEMMA NInvStep == ASSUME Cancels = {} PROVE NInv /\ [Next]_vars => NInv'
  BY NextInv, EndedFateInv, NotStartedInv, NextQueue DEF NInv, RInv

\* Where no client cancels a job, inserting, retrieving and running events, with
\* every interleaving of the clients, the service thread and the stopping of the
\* loop, implement a first-in first-out queue of EVENT_QUEUE_MAX - 1 jobs.
THEOREM RingIsFifo == Cancels = {} => (Spec => ImplementsFifo)
<1>1. CASE Cancels = {}
  <2>1. NInv /\ [Next]_vars => NInv'
    BY <1>1, NInvStep
  <2>2. NInv /\ [Next]_vars => [Fifo!Next]_(Fifo!vars)
    BY <1>1, NextQueue DEF FifoStep
  <2> QED  BY <2>1, <2>2, QueueInit, PTL DEF Spec, ImplementsFifo, Fifo!Spec
<1> QED  BY <1>1

\* Where no client cancels a job, the service thread goes to sleep only when no
\* event waits in any slot of the ring.
THEOREM SleepsWhenNothingWaits == Cancels = {} => (Spec => SleepsOnlyWhenEmpty)
<1>1. CASE Cancels = {}
  <2>1. NInv /\ [Next]_vars => NInv'
    BY <1>1, NInvStep
  <2>2. NInv /\ [Next]_vars => SleepStep
    BY <1>1, NextQueue
  <2> QED  BY <2>1, <2>2, QueueInit, PTL DEF Spec, SleepsOnlyWhenEmpty, SleepStep
<1> QED  BY <1>1
=============================================================================
