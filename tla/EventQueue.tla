----------------------------- MODULE EventQueue -----------------------------
(***************************************************************************)
(* The receive event queue of email-core-event.c: the ring g_event_que,    *)
(* the service thread thread_func_branch_command that runs one event at a  *)
(* time, and the threads of the daemon that insert events                  *)
(* (emcore_insert_event), cancel them (emcore_cancel_thread) and stop the  *)
(* loop (emcore_stop_event_loop).                                          *)
(*                                                                         *)
(* One action is one stretch of code between two points where another      *)
(* thread can interfere: a section under _event_queue_lock, a section      *)
(* under _event_available_lock, or an unlocked read or write.  The busy    *)
(* counters are written with no lock, so an update is a load and a store.  *)
(*                                                                         *)
(* An event is a member of Events: it is inserted at most once, and        *)
(* TypeOf gives its email_event_type_t.  `fate` is a history variable: the *)
(* code has no such state, it records what became of each event.           *)
(***************************************************************************)
EXTENDS SlotRing, FiniteSets

CONSTANTS
    Events,        \* the events the daemon may insert
    NoEvent,       \* a slot whose type is 0
    Clients,       \* the daemon's threads that insert and cancel
    Worker, Main,  \* the service thread, and the thread that starts and stops it
    NoProc,        \* nobody: the queue lock is free
    TypeOf,        \* email_event_t.type of each event
    Cancels        \* which slots this instance's clients cancel: a set of
                   \* statuses ("WAIT", "STARTED", "UNUSED", "CANCELED")

Procs == Clients \cup {Worker, Main}
Counters == {"sending", "receiving"}
Statuses == {"UNUSED", "WAIT", "STARTED", "CANCELED"}

\* The event types that occur in the source's switches, without the prefix.
SendTypes == {"SEND_MAIL", "SEND_MAIL_SAVED"}

\* Types whose end, normal or cancelled while waiting, lowers the receiving
\* counter: the switch at the end of the service thread and the one of
\* emcore_cancel_thread name the same types.
UnrefTypes ==
    {"SYNC_HEADER", "SYNC_HEADER_OMA", "DOWNLOAD_BODY", "DOWNLOAD_ATTACHMENT",
     "SYNC_MAIL_FLAG_TO_SERVER", "SYNC_FLAGS_FIELD_TO_SERVER", "DELETE_MAIL",
     "DELETE_MAIL_ALL", "VALIDATE_ACCOUNT", "SYNC_IMAP_MAILBOX", "MOVE_MAIL",
     "CREATE_MAILBOX", "DELETE_MAILBOX", "SET_MAIL_SLOT_SIZE",
     "SEARCH_ON_SERVER", "RENAME_MAILBOX_ON_IMAP_SERVER"}

\* Types whose insertion raises it.
RefTypes ==
    UnrefTypes \cup {"ISSUE_IDLE", "VALIDATE_AND_CREATE_ACCOUNT",
                     "VALIDATE_AND_UPDATE_ACCOUNT", "UPDATE_MAIL",
                     "EXPUNGE_MAILS_DELETED_FLAGGED"}

EventTypes == SendTypes \cup RefTypes

ASSUME EventsAssumption ==
    /\ NoEvent \notin Events
    /\ TypeOf \in [Events -> EventTypes]
    /\ Cancels \subseteq Statuses

ASSUME ProcsAssumption ==
    /\ Worker \notin Clients /\ Main \notin Clients /\ Worker # Main
    /\ NoProc \notin Procs

VARIABLES
    que,        \* g_event_que: the event and the status of every slot
    idx,        \* g_event_que_idx
    active,     \* g_active_que
    loop,       \* g_event_loop
    srvThread,  \* g_srv_thread # 0
    busy,       \* g_sending_busy_cnt and g_receiving_busy_cnt
    queLock,    \* the holder of _event_queue_lock, where a section has more than one step
    pc,         \* where each thread is
    target,     \* the slot a canceller works on
    mine,       \* the event a client inserts; the service thread's event_data
    loaded,     \* the value of a busy counter a thread has read and not yet written
    fate        \* history: what became of each event

queVars == <<que, idx, active>>
ctrlVars == <<loop, srvThread>>
vars == <<que, idx, active, loop, srvThread, busy, queLock, pc, target, mine, loaded, fate>>

-----------------------------------------------------------------------------
EmptySlot == [ev |-> NoEvent, status |-> "UNUSED"]
CanceledSlot == [ev |-> NoEvent, status |-> "CANCELED"]

FreeSlots == {s \in Slots : que[s].ev = NoEvent}

Goto(p, l) == pc' = [pc EXCEPT ![p] = l]
\* A section under the queue lock that is one step: nobody is inside one.
LockFree == queLock = NoProc

Init ==
    /\ que = [s \in Slots |-> EmptySlot]
    /\ idx = 1
    /\ active = 0
    /\ loop = TRUE
    /\ srvThread = FALSE
    /\ busy = [c \in Counters |-> 0]
    /\ queLock = NoProc
    /\ pc = [p \in Procs |-> IF p = Worker THEN "absent" ELSE "idle"]
    /\ target = [p \in Procs |-> 0]
    /\ mine = [p \in Procs |-> NoEvent]
    /\ loaded = [p \in Procs |-> 0]
    /\ fate = [e \in Events |-> "new"]

-----------------------------------------------------------------------------
(* emcore_start_event_loop.  It clears the queue before it looks whether   *)
(* the thread already runs.                                                *)
StartEventLoop ==
    /\ pc[Main] = "idle" /\ ~srvThread
    /\ que' = [s \in Slots |-> EmptySlot]
    /\ idx' = 1 /\ active' = 0
    /\ loop' = TRUE /\ srvThread' = TRUE
    /\ pc' = [pc EXCEPT ![Main] = "up", ![Worker] = "loop"]
    /\ UNCHANGED <<busy, queLock, target, mine, loaded, fate>>

(* emcore_insert_event, its test of g_srv_thread: not under a lock.        *)
InsertCheck(c, e) ==
    /\ pc[c] = "idle" /\ fate[e] = "new"
    /\ IF srvThread
       THEN /\ mine' = [mine EXCEPT ![c] = e]
            /\ Goto(c, "enqueue")
            /\ fate' = [fate EXCEPT ![e] = "inserting"]
       ELSE /\ fate' = [fate EXCEPT ![e] = "refused"]   \* LOAD_ENGINE_FAILURE
            /\ UNCHANGED <<pc, mine>>
    /\ UNCHANGED <<queVars, ctrlVars, busy, queLock, target, loaded>>

(* Its section under the queue lock.                                       *)
Enqueue(c) ==
    /\ pc[c] = "enqueue" /\ LockFree
    /\ \/ \E j \in Slots :
            /\ IsInsertSlot(FreeSlots, idx, j)
            /\ que' = [que EXCEPT ![j] = [ev |-> mine[c], status |-> "WAIT"]]
            /\ fate' = [fate EXCEPT ![mine[c]] = "waiting"]
            /\ Goto(c, "ref")
            /\ UNCHANGED mine
       \/ /\ FreeSlots = {}                               \* EVENT_QUEUE_FULL
          /\ fate' = [fate EXCEPT ![mine[c]] = "refused"]
          /\ mine' = [mine EXCEPT ![c] = NoEvent]
          /\ Goto(c, "idle")
          /\ UNCHANGED que
    /\ UNCHANGED <<idx, active, ctrlVars, busy, queLock, target, loaded>>

RefCounter(t) == IF t \in SendTypes THEN "sending" ELSE "receiving"

(* _sending_busy_ref and _receiving_busy_ref: cnt++ with no lock held.     *)
RefLoad(c) ==
    /\ pc[c] = "ref"
    /\ loaded' = [loaded EXCEPT ![c] = busy[RefCounter(TypeOf[mine[c]])]]
    /\ Goto(c, "ref_store")
    /\ UNCHANGED <<queVars, ctrlVars, busy, queLock, target, mine, fate>>

RefStore(c) ==
    /\ pc[c] = "ref_store"
    /\ busy' = [busy EXCEPT ![RefCounter(TypeOf[mine[c]])] = loaded[c] + 1]
    /\ loaded' = [loaded EXCEPT ![c] = 0]
    /\ Goto(c, "signal")
    /\ UNCHANGED <<queVars, ctrlVars, queLock, target, mine, fate>>

\* pthread_cond_signal on _event_available_signal: it wakes the service
\* thread if that is waiting, and is forgotten otherwise.
Wake(p, l) == pc' = [pc EXCEPT ![p] = l,
                               ![Worker] = IF @ = "asleep" THEN "loop" ELSE @]

(* The end of emcore_insert_event: signal under _event_available_lock.     *)
InsertSignal(c) ==
    /\ pc[c] = "signal"
    /\ Wake(c, "idle")
    /\ mine' = [mine EXCEPT ![c] = NoEvent]
    /\ UNCHANGED <<queVars, ctrlVars, busy, queLock, target, loaded, fate>>

(* emcore_cancel_thread: p cancels whatever slot h holds.  The section     *)
(* under the queue lock loads and stores a busy counter, so it is two      *)
(* steps.  A waiting event is reported cancelled; a running one is left to *)
(* notice it (emcore_check_thread_status); the slot is free either way.    *)
Counted(t) == t \in SendTypes \cup UnrefTypes

CancelBegin(p, h) ==
    /\ LockFree
    /\ queLock' = p
    /\ target' = [target EXCEPT ![p] = h]
    /\ LET e == que[h].ev IN
       \/ /\ que[h].status = "WAIT"                          \* fail_status_notify
          /\ fate' = [fate EXCEPT ![e] = "cancelled"]
          /\ loaded' = [loaded EXCEPT ![p] =
                 IF Counted(TypeOf[e]) THEN busy[RefCounter(TypeOf[e])] ELSE 0]
       \/ /\ que[h].status = "STARTED"
          /\ fate' = [fate EXCEPT ![e] = IF @ = "running" THEN "stopping" ELSE @]
          /\ UNCHANGED loaded
       \/ /\ que[h].status \in {"UNUSED", "CANCELED"}
          /\ UNCHANGED <<fate, loaded>>
    /\ UNCHANGED <<queVars, ctrlVars, busy, mine>>

\* Mutant: the slot is reported cancelled but not emptied.
CancelEndKeepsSlot(p) ==
    /\ queLock = p
    /\ loaded' = [loaded EXCEPT ![p] = 0]
    /\ target' = [target EXCEPT ![p] = 0]
    /\ queLock' = NoProc
    /\ UNCHANGED <<queVars, ctrlVars, busy, mine, fate>>

CancelEnd(p) ==
    /\ queLock = p
    /\ LET h == target[p] IN
       /\ busy' = IF que[h].status = "WAIT" /\ Counted(TypeOf[que[h].ev])
                   THEN [busy EXCEPT ![RefCounter(TypeOf[que[h].ev])] = loaded[p] - 1]
                   ELSE busy
       /\ que' = [que EXCEPT ![h] = CanceledSlot]
    /\ loaded' = [loaded EXCEPT ![p] = 0]
    /\ target' = [target EXCEPT ![p] = 0]
    /\ queLock' = NoProc
    /\ UNCHANGED <<idx, active, ctrlVars, mine, fate>>

(* emdaemon_cancel_job, with a handle in the range the code accepts.       *)
ClientCancel(c, h) ==
    /\ pc[c] = "idle" /\ que[h].status \in Cancels
    /\ CancelBegin(c, h)
    /\ Goto(c, "cancel")

ClientCancelEnd(c) ==
    /\ pc[c] = "cancel"
    /\ CancelEnd(c)
    /\ Goto(c, "idle")

-----------------------------------------------------------------------------
(* thread_func_branch_command.  The test of the while loop.                *)
WorkerLoop ==
    /\ pc[Worker] = "loop"
    /\ Goto(Worker, IF loop THEN "retrieve" ELSE "exited")
    /\ UNCHANGED <<queVars, ctrlVars, busy, queLock, target, mine, loaded, fate>>

\* The slot at the index holds a waiting event: mark it, note it, move on.
TakeEvent(st, act) ==
    /\ que[idx].ev # NoEvent /\ que[idx].status = "WAIT"
    /\ que' = [que EXCEPT ![idx].status = st]
    /\ active' = act /\ idx' = NextSlot(idx)
    /\ mine' = [mine EXCEPT ![Worker] = que[idx].ev]
    /\ fate' = [fate EXCEPT ![que[idx].ev] = "running"]
    /\ Goto(Worker, "run")

\* It holds none: g_event_que_idx stays.
FindNothing ==
    /\ que[idx].ev = NoEvent /\ active' = 0
    /\ Goto(Worker, "sleep") /\ UNCHANGED <<que, idx, mine, fate>>

\* Mutant: the slot is not marked STARTED.
RetrieveUnmarked ==
    /\ pc[Worker] = "retrieve" /\ LockFree
    /\ TakeEvent("WAIT", idx) \/ FindNothing
    /\ UNCHANGED <<ctrlVars, busy, queLock, target, loaded>>

(* emcore_retrieve_event, under the queue lock.                            *)
Retrieve ==
    /\ pc[Worker] = "retrieve" /\ LockFree
    /\ \/ TakeEvent("STARTED", idx)
       \/ /\ que[idx].ev # NoEvent /\ que[idx].status # "WAIT"
          /\ que' = [que EXCEPT ![idx] = EmptySlot]
          /\ active' = 0 /\ idx' = NextSlot(idx)
          /\ Goto(Worker, "sleep")
          /\ UNCHANGED <<mine, fate>>
       \/ FindNothing                                       \* EVENT_QUEUE_EMPTY
    /\ UNCHANGED <<ctrlVars, busy, queLock, target, loaded>>

(* After an unsuccessful retrieve: pthread_cond_wait, without looking at   *)
(* the queue again under _event_available_lock.                            *)
Sleep ==
    /\ pc[Worker] = "sleep"
    /\ Goto(Worker, "asleep")
    /\ UNCHANGED <<queVars, ctrlVars, busy, queLock, target, mine, loaded, fate>>

\* pthread_cond_wait may return without a signal; nothing tests a predicate.
SpuriousWake ==
    /\ pc[Worker] = "asleep"
    /\ Goto(Worker, "loop")
    /\ UNCHANGED <<queVars, ctrlVars, busy, queLock, target, mine, loaded, fate>>

\* Mutant: asks whether the slot is CANCELED, not whether it is still STARTED.
CheckNotCanceled == active <= 0 \/ que[active].status # "CANCELED"

\* emcore_check_thread_status, what a handler asks between two network calls.
CheckThreadStatus == active <= 0 \/ que[active].status = "STARTED"

(* The event's handler and emstorage_notify_response_to_api.  A handler    *)
(* gives up only where CheckThreadStatus told it to.                       *)
RunHandler ==
    /\ pc[Worker] = "run"
    /\ \E outcome \in {"done", "aborted"} :
          /\ outcome = "aborted" => ~CheckThreadStatus
          /\ fate' = [fate EXCEPT ![mine[Worker]] = outcome]
    /\ Goto(Worker, IF Counted(TypeOf[mine[Worker]]) THEN "unref" ELSE "clear")
    /\ UNCHANGED <<queVars, ctrlVars, busy, queLock, target, mine, loaded>>

(* _sending_busy_unref and _receiving_busy_unref.                          *)
UnrefLoad ==
    /\ pc[Worker] = "unref"
    /\ loaded' = [loaded EXCEPT ![Worker] = busy[RefCounter(TypeOf[mine[Worker]])]]
    /\ Goto(Worker, "unref_store")
    /\ UNCHANGED <<queVars, ctrlVars, busy, queLock, target, mine, fate>>

UnrefStore ==
    /\ pc[Worker] = "unref_store"
    /\ busy' = [busy EXCEPT ![RefCounter(TypeOf[mine[Worker]])] = loaded[Worker] - 1]
    /\ loaded' = [loaded EXCEPT ![Worker] = 0]
    /\ Goto(Worker, "clear")
    /\ UNCHANGED <<queVars, ctrlVars, queLock, target, mine, fate>>

(* memset(g_event_que+g_active_que): whatever that slot holds by now.      *)
ClearSlot ==
    /\ pc[Worker] = "clear" /\ LockFree
    /\ que' = [que EXCEPT ![active] = EmptySlot]
    /\ mine' = [mine EXCEPT ![Worker] = NoEvent]
    /\ Goto(Worker, "loop")
    /\ UNCHANGED <<idx, active, ctrlVars, busy, queLock, target, loaded, fate>>

-----------------------------------------------------------------------------
(* emcore_stop_event_loop: lower the flag, cancel the slot g_active_que    *)
(* names (read with no lock; 0 is refused), signal, join the thread.       *)
StopLoop ==
    /\ pc[Main] = "up" /\ srvThread
    /\ loop' = FALSE
    /\ Goto(Main, "stop_arg")
    /\ UNCHANGED <<queVars, srvThread, busy, queLock, target, mine, loaded, fate>>

StopArg ==
    /\ pc[Main] = "stop_arg"
    /\ target' = [target EXCEPT ![Main] = active]
    /\ Goto(Main, IF active = 0 THEN "stop_signal" ELSE "stop_cancel")
    /\ UNCHANGED <<queVars, ctrlVars, busy, queLock, mine, loaded, fate>>

StopCancel ==
    /\ pc[Main] = "stop_cancel"
    /\ CancelBegin(Main, target[Main])
    /\ Goto(Main, "stop_cancel_end")

StopCancelEnd ==
    /\ pc[Main] = "stop_cancel_end"
    /\ CancelEnd(Main)
    /\ Goto(Main, "stop_signal")

StopSignal ==
    /\ pc[Main] = "stop_signal"
    /\ Wake(Main, "join")
    /\ UNCHANGED <<queVars, ctrlVars, busy, queLock, target, mine, loaded, fate>>

Join ==
    /\ pc[Main] = "join" /\ pc[Worker] = "exited"
    /\ srvThread' = FALSE
    /\ idx' = 1 /\ active' = 0
    /\ Goto(Main, "down")
    /\ UNCHANGED <<que, loop, busy, queLock, target, mine, loaded, fate>>

-----------------------------------------------------------------------------
WorkerStep ==
    \/ WorkerLoop \/ Retrieve \/ Sleep \/ RunHandler
    \/ UnrefLoad \/ UnrefStore \/ ClearSlot

\* What a client does once it has begun an insertion or a cancellation.
ClientStep(c) ==
    \/ Enqueue(c) \/ RefLoad(c) \/ RefStore(c) \/ InsertSignal(c)
    \/ ClientCancelEnd(c)

StopStep == StopArg \/ StopCancel \/ StopCancelEnd \/ StopSignal \/ Join

Next ==
    \/ StartEventLoop \/ StopLoop \/ StopStep
    \/ WorkerStep \/ SpuriousWake
    \/ \E c \in Clients :
          \/ ClientStep(c)
          \/ \E e \in Events : InsertCheck(c, e)
          \/ \E h \in Slots : ClientCancel(c, h)

Spec == Init /\ [][Next]_vars

\* The threads that have work to do are scheduled.  Nobody owes an insertion,
\* a cancellation, a stop or a spurious wake-up.
Fairness ==
    /\ WF_vars(WorkerStep) /\ WF_vars(StopStep)
    /\ \A c \in Clients : WF_vars(ClientStep(c))

FairSpec == Spec /\ Fairness

-----------------------------------------------------------------------------
(* Properties                                                              *)

Fates == {"new", "inserting", "refused", "waiting", "cancelled",
          "running", "stopping", "done", "aborted"}
WorkerBusy == {"run", "unref", "unref_store", "clear"}
WorkerPlaces == {"absent", "loop", "retrieve", "sleep", "asleep", "exited"} \cup WorkerBusy
ClientPlaces == {"idle", "enqueue", "ref", "ref_store", "signal", "cancel"}
MainPlaces == {"idle", "up", "stop_arg", "stop_cancel", "stop_cancel_end",
               "stop_signal", "join", "down"}

\* The type invariant.
TypeOK ==
    /\ que \in [Slots -> [ev : Events \cup {NoEvent}, status : Statuses]]
    /\ idx \in Slots /\ active \in Slots \cup {0}
    /\ loop \in BOOLEAN /\ srvThread \in BOOLEAN
    /\ busy \in [Counters -> Int]
    /\ queLock \in Procs \cup {NoProc}
    /\ pc \in [Procs -> WorkerPlaces \cup ClientPlaces \cup MainPlaces]
    /\ target \in [Procs -> Slots \cup {0}]
    /\ mine \in [Procs -> Events \cup {NoEvent}]
    /\ loaded \in [Procs -> Int]
    /\ fate \in [Events -> Fates]

\* One job at a time: a slot marked STARTED is the one g_active_que names,
\* the service thread is at work on exactly the event in it, and so the
\* branch of emcore_retrieve_event for a slot that is not WAIT is dead.
StartedIsActive ==
    \A s \in Slots : que[s].status = "STARTED" =>
        /\ s = active /\ pc[Worker] \in WorkerBusy
        /\ que[s].ev = mine[Worker]

\* A job whose slot was cancelled while it runs is told so by
\* emcore_check_thread_status, whatever has been put into the slot since.
StopIsSeen ==
    (pc[Worker] = "run" /\ fate[mine[Worker]] = "stopping" /\ LockFree)
        => ~CheckThreadStatus

\* A waiting slot holds an event that waits, and no event is in two slots:
\* an event is never run twice and never run after it was cancelled.
WaitingSlotsAreWaitingEvents ==
    LockFree =>
      \A s \in Slots : que[s].status = "WAIT" =>
        /\ fate[que[s].ev] = "waiting"
        /\ \A t \in Slots : que[t].ev = que[s].ev => t = s

\* emcore_insert_event said yes, so the event is in the queue until it runs,
\* is cancelled, or the loop is stopped.
Queued(e) == \E s \in Slots : que[s] = [ev |-> e, status |-> "WAIT"]
AcceptedIsQueued ==
    \A e \in Events : fate[e] = "waiting" /\ loop => Queued(e)

\* What keeps the code from that promise is one thing only: the service thread
\* clears the slot of the job it has ended although the slot was cancelled and
\* given to another event meanwhile.  No insertion, retrieval, cancellation or
\* other clearing drops an accepted event from the ring.
ClearsAnother == pc[Worker] = "clear" /\ que[active].ev # mine[Worker]
DroppedOnlyByReuse ==
    [][\A e \in Events :
          (fate'[e] = "waiting" /\ loop' /\ (fate[e] = "waiting" => Queued(e)))
              => Queued(e)' \/ ClearsAnother]_vars

\* An event reported cancelled, refused or finished keeps that fate: it never
\* reaches a handler afterwards.
FinalFates == {"cancelled", "refused", "done", "aborted"}
FatesAreFinal ==
    [][\A e \in Events : fate[e] \in FinalFates => fate'[e] = fate[e]]_vars

\* A handler is told to give up only if its own slot was cancelled.
AbortedOnlyIfStopped ==
    [][\A e \in Events : fate[e] = "running" => fate'[e] # "aborted"]_vars

\* `if (!emcore_retrieve_event(..)) { /* no event_data pending */`: the service
\* thread goes to sleep only when no event waits.
SleepsOnlyWhenEmpty ==
    [][pc[Worker] = "retrieve" /\ pc'[Worker] = "sleep"
         => \A s \in Slots : que[s].status # "WAIT"]_vars

\* While the service thread works off its backlog it does not stop in the
\* middle: an event that waits behind a running one is run.
BacklogIsDrained ==
    \A e \in Events :
        (pc[Worker] \in WorkerBusy /\ fate[e] = "waiting")
            ~> (fate[e] # "waiting" \/ ~loop)

\* An accepted event is eventually run, cancelled, or left over by a stop.
AcceptedIsHandled ==
    \A e \in Events : fate[e] = "waiting" ~> (fate[e] # "waiting" \/ ~loop)

\* "wait for thread finished": a stop that has begun comes to an end.
StopCompletes == pc[Main] = "stop_arg" ~> pc[Main] = "down"

\* "on_receiving: True if receiving is in progress": once nothing is queued
\* or running and no thread is inside a call, the counter is back at 0.
Quiet ==
    /\ \A c \in Clients : pc[c] = "idle"
    /\ pc[Main] = "up" /\ pc[Worker] \in {"loop", "retrieve", "sleep", "asleep"}
    /\ \A s \in Slots : que[s].ev = NoEvent
ReceivingOnlyWhenBusy == Quiet => busy["receiving"] = 0

\* Where no job is cancelled the ring is a first-in first-out queue: the
\* pending jobs are the waiting slots in the order the read index meets them.
WaitingSlots == {s \in Slots : que[s].status = "WAIT"}
NthWaiting(k) ==
    CHOOSE s \in WaitingSlots :
        Cardinality({t \in WaitingSlots : Distance(idx, t) < Distance(idx, s)}) = k - 1
Pending == [k \in 1 .. Cardinality(WaitingSlots) |-> que[NthWaiting(k)].ev]

Fifo == INSTANCE JobFifo WITH
    Jobs <- Events, NoJob <- NoEvent, Capacity <- QueueMax - 1,
    pending <- IF loop THEN Pending ELSE <<>>,
    running <- IF loop THEN mine[Worker] ELSE NoEvent,
    open <- loop

\* emcore_insert_event, emcore_retrieve_event and the service thread together
\* implement the queue of JobFifo.
ImplementsFifo == Fifo!Spec
=============================================================================
