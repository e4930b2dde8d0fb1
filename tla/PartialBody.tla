----------------------------- MODULE PartialBody -----------------------------
(***************************************************************************)
(* The partial body download thread of email-core-event.c.  When a header  *)
(* sync has added a mail of an IMAP account it records that the body is    *)
(* still to be fetched twice: as a row of mail_partial_body_activity_tbl,  *)
(* which survives, and as an event of the ring g_partial_body_thd_event_   *)
(* que, which does not.  The thread collects the events of one mailbox in  *)
(* a batch, fetches them together, and deletes their rows.  When the ring  *)
(* is empty it flushes the batch and then reads the rows ("local activity  *)
(* sync").  A header sync and the deletion of an account clear the ring.   *)
(*                                                                         *)
(* One action is one section under _partial_body_thd_event_queue_lock, one *)
(* database transaction, or one conversation with the server.  The batch   *)
(* is the thread's own.  The mail server is external: it sends what is     *)
(* asked for, or part of it, or cannot be reached.                         *)
(***************************************************************************)
EXTENDS Integers, Sequences, FiniteSets

CONSTANTS
    Total,         \* TOTAL_PARTIAL_BODY_EVENTS
    BulkMax,       \* BULK_PARTIAL_BODY_DOWNLOAD_COUNT
    Mails, NoMail, BoxOf,
    Boxes, NoBox, AccountOf,
    Accounts, NoAccount,
    Pbd,           \* partial_body_download_thread
    Syncer,        \* the service thread, when it runs emcore_sync_header
    Stub,          \* the stub's task thread, when it runs emcore_delete_account
    Caller,        \* a thread that queues any job with emcore_insert_event
    Faults,        \* what may fail in this instance: a subset of FaultKinds
    Doomed         \* the accounts the user may delete in this instance

FaultKinds == {"network", "connect", "server"}
Procs == {Pbd, Syncer, Stub, Caller}
Cells == 0 .. Total - 1

ASSUME SizesAssumption ==
    /\ Total \in Nat \ {0} /\ BulkMax \in Nat \ {0}
ASSUME NamesAssumption ==
    /\ NoMail \notin Mails /\ NoBox \notin Boxes /\ NoAccount \notin Accounts
    /\ BoxOf \in [Mails -> Boxes] /\ AccountOf \in [Boxes -> Accounts]
    /\ Pbd \notin {Syncer, Stub, Caller} /\ Syncer \notin {Stub, Caller} /\ Stub # Caller
    /\ Faults \subseteq FaultKinds /\ Doomed \subseteq Accounts

VARIABLES
    que, next,     \* g_partial_body_thd_event_que, g_partial_body_thd_next_event_idx
    emptyFlag,     \* g_partial_body_thd_queue_empty
    fullFlag,      \* g_partial_body_thd_queue_full
    cont,          \* g_pb_thd_local_activity_continue
    bulk,          \* g_partial_body_bulk_dwd_que up to g_partial_body_bulk_dwd_next_event_idx
    rows,          \* mail_partial_body_activity_tbl
    live,          \* the accounts that exist
    pc,            \* where each thread is
    ev,            \* the event the download thread has retrieved
    cycle,         \* what a local activity sync has left to do
    box, row,      \* the mailbox the header sync works on, the row it has just added
    victim,        \* the account that is being deleted
    added, fetched \* history: the mails whose row was added; whose body was fetched

ring == <<que, next, emptyFlag, fullFlag>>
syncVars == <<box, row, added>>
vars == <<que, next, emptyFlag, fullFlag, cont, bulk, rows, live, pc, ev, cycle,
          box, row, victim, added, fetched>>

-----------------------------------------------------------------------------
NoEvent == [type |-> "none", mail |-> NoMail, id |-> 0]
LocalSync == [type |-> "local", mail |-> NoMail, id |-> 0]
Download(r) == [type |-> "bulk", mail |-> r.mail, id |-> r.id]

NoRow == [mail |-> NoMail, id |-> 0]
NoCycle == [first |-> NoAccount, accounts |-> {}, boxes |-> {}, owed |-> {}]

AccountOfMail(m) == AccountOf[BoxOf[m]]
Used(c) == que[c] # NoEvent

\* Mutant: the index stays where it is.
NextCellStuck(c) == c
NextCell(c) == IF c + 1 = Total THEN 0 ELSE c + 1
\* How many cells the search from a passes before it comes to c.
Passed(a, c) == IF c >= a THEN c - a ELSE c - a + Total

Goto(p, l) == pc' = [pc EXCEPT ![p] = l]

Init ==
    /\ que = [c \in Cells |-> NoEvent] /\ next = 0
    /\ emptyFlag = TRUE /\ fullFlag = FALSE /\ cont = TRUE
    /\ bulk = <<>> /\ rows = {} /\ live = Accounts
    /\ pc = [p \in Procs |-> IF p = Pbd THEN "loop" ELSE "idle"]
    /\ ev = NoEvent /\ cycle = NoCycle
    /\ box = NoBox /\ row = NoRow /\ victim = NoAccount
    /\ added = {} /\ fetched = {}

-----------------------------------------------------------------------------
(* The ring, each operation under its lock.                                *)

\* Mutant: any empty cell will do.
IsEmptyCellAnywhere(c) == ~Used(c)
IsEmptyCell(c) ==
    ~Used(c) /\ \A d \in Cells : Passed(next, d) < Passed(next, c) => Used(d)

\* emcore_insert_partial_body_thread_event, by p, who goes on to l.  The
\* condition variable is signalled inside the section.
Insert(p, e, l) ==
    \E c \in Cells :
        /\ IsEmptyCell(c)
        /\ que' = [que EXCEPT ![c] = e]
        /\ emptyFlag' = FALSE
        /\ fullFlag' = IF Passed(next, c) = Total - 1 THEN TRUE ELSE fullFlag
        /\ pc' = [q \in Procs |-> IF q = p THEN l
                               ELSE IF q = Pbd /\ pc[q] = "asleep" THEN "loop" ELSE pc[q]]
        /\ UNCHANGED next

InsertFails(p, l) ==                                  \* EVENT_QUEUE_FULL
    /\ \A c \in Cells : Used(c)
    /\ fullFlag' = TRUE /\ emptyFlag' = FALSE
    /\ Goto(p, l)
    /\ UNCHANGED <<que, next>>

\* Mutant: the ring is emptied and still said to be full.
ClearQueueStillFull ==
    /\ IF emptyFlag THEN UNCHANGED <<que, emptyFlag>>
       ELSE que' = [c \in Cells |-> NoEvent] /\ emptyFlag' = TRUE
    /\ UNCHANGED <<next, fullFlag>>
\* emcore_clear_partial_body_thd_event_que
ClearQueue ==
    /\ IF emptyFlag THEN UNCHANGED <<que, emptyFlag, fullFlag>>
       ELSE /\ que' = [c \in Cells |-> NoEvent]
            /\ emptyFlag' = TRUE /\ fullFlag' = FALSE
    /\ UNCHANGED next

-----------------------------------------------------------------------------
(* emcore_sync_header of an IMAP account, in the service thread.  Before   *)
(* the first header it clears the ring.                                    *)
SyncBegin(b) ==
    /\ pc[Syncer] = "idle" /\ AccountOf[b] \in live
    /\ ClearQueue
    /\ box' = b
    /\ Goto(Syncer, "sync")
    /\ UNCHANGED <<cont, bulk, rows, live, ev, cycle, row, victim, added, fetched>>

\* emstorage_add_pbd_activity: max(rowid) + 1, so an id is used again when the
\* last row is gone.
NextIds == {i \in {1} \cup {r.id + 1 : r \in rows} : \A r \in rows : r.id < i}

(* emcore_initiate_pbd for a mail just added: first the row, then a look   *)
(* whether the ring is full, then the event.                               *)
AddActivity(m) ==
    /\ pc[Syncer] = "sync" /\ BoxOf[m] = box /\ m \notin added
    /\ \E i \in NextIds : row' = [mail |-> m, id |-> i]
    /\ rows' = rows \cup {row'}
    /\ added' = added \cup {m}
    /\ Goto(Syncer, "ask_full")
    /\ UNCHANGED <<ring, cont, bulk, live, ev, cycle, box, victim, fetched>>

AskFull ==
    /\ pc[Syncer] = "ask_full"
    /\ Goto(Syncer, IF fullFlag THEN "sync" ELSE "insert")
    /\ UNCHANGED <<ring, cont, bulk, rows, live, ev, cycle, syncVars, victim, fetched>>

InsertEvent ==
    /\ pc[Syncer] = "insert"
    /\ Insert(Syncer, Download(row), "sync") \/ InsertFails(Syncer, "sync")
    /\ UNCHANGED <<cont, bulk, rows, live, ev, cycle, syncVars, victim, fetched>>

\* The last header, a failure, or a cancellation.
SyncEnd ==
    /\ pc[Syncer] = "sync"
    /\ box' = NoBox /\ row' = NoRow
    /\ Goto(Syncer, "idle")
    /\ UNCHANGED <<ring, cont, bulk, rows, live, ev, cycle, victim, added, fetched>>

-----------------------------------------------------------------------------
(* emcore_delete_account: the ring and the rows first, then the account's  *)
(* jobs are cancelled, and given up on after three seconds; then the       *)
(* account itself.                                                         *)
DeleteBegin(a) ==
    /\ pc[Stub] = "idle" /\ a \in Doomed \cap live
    /\ ClearQueue
    /\ victim' = a
    /\ Goto(Stub, "rows")
    /\ UNCHANGED <<cont, bulk, rows, live, ev, cycle, syncVars, fetched>>

DeleteRows ==
    /\ pc[Stub] = "rows"
    /\ rows' = {r \in rows : AccountOfMail(r.mail) # victim}
    /\ Goto(Stub, "cancel")
    /\ UNCHANGED <<ring, cont, bulk, live, ev, cycle, syncVars, victim, fetched>>

CancelThreads ==
    /\ pc[Stub] = "cancel"
    /\ \/ /\ box # NoBox => AccountOf[box] # victim
          /\ Goto(Stub, "account")
          /\ UNCHANGED victim
       \/ Goto(Stub, "idle") /\ victim' = NoAccount   \* CANNOT_STOP_THREAD
    /\ UNCHANGED <<ring, cont, bulk, rows, live, ev, cycle, syncVars, fetched>>

DeleteAccount ==
    /\ pc[Stub] = "account"
    /\ live' = live \ {victim} /\ victim' = NoAccount
    /\ Goto(Stub, "idle")
    /\ UNCHANGED <<ring, cont, bulk, rows, ev, cycle, syncVars, fetched>>

-----------------------------------------------------------------------------
(* emcore_partial_body_thd_local_activity_sync: if there are rows, an event *)
(* that makes the thread read them; then the flag that would let the       *)
(* thread ask for this itself is lowered.  Called by the thread before it  *)
(* sleeps, and by emcore_insert_event whenever anybody queues a job.       *)
Asks(p) == IF p = Pbd THEN "count" ELSE "idle"
AskedInVain(p) == IF p = Pbd THEN "sleep" ELSE "idle"
HasAsked(p) == IF p = Pbd THEN "loop" ELSE "idle"

Count(p) ==
    /\ pc[p] = Asks(p) /\ (p = Pbd \/ rows # {})
    /\ Goto(p, IF rows = {} THEN AskedInVain(p) ELSE "insert_local")
    /\ UNCHANGED <<ring, cont, bulk, rows, live, ev, cycle, syncVars, victim, fetched>>

InsertLocal(p) ==
    /\ pc[p] = "insert_local"
    /\ Insert(p, LocalSync, "pause") \/ InsertFails(p, AskedInVain(p))
    /\ UNCHANGED <<cont, bulk, rows, live, ev, cycle, syncVars, victim, fetched>>

Pause(p) ==
    /\ pc[p] = "pause"
    /\ cont' = FALSE
    /\ Goto(p, HasAsked(p))
    /\ UNCHANGED <<ring, bulk, rows, live, ev, cycle, syncVars, victim, fetched>>

-----------------------------------------------------------------------------
(* partial_body_download_thread.                                           *)

\* emcore_retrieve_partial_body_thread_event; an empty ring is looked into
\* further: first the batch, then the rows.
Retrieve ==
    /\ pc[Pbd] = "loop"
    /\ \/ /\ ~Used(next)                              \* EVENT_QUEUE_EMPTY
          /\ emptyFlag' = TRUE /\ fullFlag' = FALSE
          /\ Goto(Pbd, IF bulk = <<>> THEN "consider" ELSE "flush_check")
          /\ UNCHANGED <<que, next, ev>>
       \/ /\ Used(next)
          /\ ev' = que[next]
          /\ que' = [que EXCEPT ![next] = NoEvent]
          /\ next' = NextCell(next) /\ fullFlag' = FALSE
          /\ emptyFlag' = IF que'[next'] = NoEvent THEN TRUE ELSE emptyFlag
          /\ Goto(Pbd, "run")
    /\ UNCHANGED <<cont, bulk, rows, live, cycle, syncVars, victim, fetched>>

\* The body of every mail in done is stored and the row of its activity id
\* deleted: "WHERE account_id = %d AND activity_id = %d".
Fetch(done) ==
    /\ fetched' = fetched \cup {i.mail : i \in done}
    /\ rows' = {r \in rows : \A i \in done :
                   ~(AccountOfMail(r.mail) = AccountOfMail(i.mail) /\ r.id = i.id)}

Items == {bulk[i] : i \in 1 .. Len(bulk)}

\* emcore_partial_body_bulk_flush.  The batch is forgotten in any case, and
\* the result says only whether the account could be connected to.
Flush(reached) ==
    /\ bulk' = <<>>
    /\ LET a == AccountOfMail(bulk[1].mail) IN
       \/ /\ reached /\ a \in live
          /\ \E done \in SUBSET Items :
                /\ "server" \notin Faults => done = Items
                /\ Fetch(done)
       \/ /\ ~reached /\ (a \notin live \/ "connect" \in Faults)
          /\ UNCHANGED <<rows, fetched>>

\* emcore_mail_partial_body_download with event_type 0: not when an event has
\* arrived meanwhile.
FlushCheck ==
    /\ pc[Pbd] = "flush_check"
    /\ Goto(Pbd, IF emptyFlag THEN "flush" ELSE "resume")
    /\ UNCHANGED <<ring, cont, bulk, rows, live, ev, cycle, syncVars, victim, fetched>>

FlushIdle ==
    /\ pc[Pbd] = "flush"
    /\ Flush(TRUE) \/ Flush(FALSE)
    /\ Goto(Pbd, "resume")
    /\ UNCHANGED <<ring, cont, live, ev, cycle, syncVars, victim>>

\* emcore_pb_thd_set_local_activity_continue(true)
Resume ==
    /\ pc[Pbd] = "resume"
    /\ cont' = TRUE
    /\ Goto(Pbd, "consider")
    /\ UNCHANGED <<ring, bulk, rows, live, ev, cycle, syncVars, victim, fetched>>

\* emcore_pb_thd_can_local_activity_continue
Consider ==
    /\ pc[Pbd] = "consider"
    /\ Goto(Pbd, IF cont THEN "count" ELSE "sleep")
    /\ UNCHANGED <<ring, cont, bulk, rows, live, ev, cycle, syncVars, victim, fetched>>

\* pthread_cond_wait, without another look at the ring under its lock.
Sleep ==
    /\ pc[Pbd] = "sleep"
    /\ Goto(Pbd, "asleep")
    /\ UNCHANGED <<ring, cont, bulk, rows, live, ev, cycle, syncVars, victim, fetched>>

SpuriousWake ==
    /\ pc[Pbd] = "asleep"
    /\ Goto(Pbd, "loop")
    /\ UNCHANGED <<ring, cont, bulk, rows, live, ev, cycle, syncVars, victim, fetched>>

\* The thread has done with its event.
EventDone == ev' = NoEvent /\ Goto(Pbd, "loop")

\* emnetwork_check_network_status; without a network the event is dropped.
CheckNetwork ==
    /\ pc[Pbd] = "run"
    /\ \/ /\ Goto(Pbd, IF ev.type = "bulk" THEN "append" ELSE "local")
          /\ UNCHANGED ev
       \/ "network" \in Faults /\ EventDone
    /\ UNCHANGED <<ring, cont, bulk, rows, live, cycle, syncVars, victim, fetched>>

(* EMAIL_EVENT_BULK_PARTIAL_BODY_DOWNLOAD: the batch is one mailbox's, and *)
(* is flushed when it is full or the event is of another mailbox.  When    *)
(* that flush fails the event is lost with the batch.                      *)
MustFlush ==
    bulk # <<>> /\ (\/ BoxOf[bulk[1].mail] # BoxOf[ev.mail]
                    \/ Len(bulk) = BulkMax)

FlushFirst ==
    /\ pc[Pbd] = "append" /\ MustFlush
    /\ \/ Flush(TRUE) /\ UNCHANGED <<pc, ev>>
       \/ Flush(FALSE) /\ EventDone
    /\ UNCHANGED <<ring, cont, live, cycle, syncVars, victim>>

AppendEvent ==
    /\ pc[Pbd] = "append" /\ ~MustFlush
    /\ bulk' = Append(bulk, ev)
    /\ EventDone
    /\ UNCHANGED <<ring, cont, rows, live, cycle, syncVars, victim, fetched>>

(* EMAIL_EVENT_LOCAL_ACTIVITY_SYNC_BULK_PBD: dropped if there is anything  *)
(* else to do, else the accounts and mailboxes that have rows one by one.  *)
LocalCheck ==
    /\ pc[Pbd] = "local"
    /\ IF emptyFlag /\ bulk = <<>>
       THEN Goto(Pbd, "accounts") /\ UNCHANGED ev
       ELSE EventDone
    /\ UNCHANGED <<ring, cont, bulk, rows, live, cycle, syncVars, victim, fetched>>

\* emstorage_get_pbd_account_list; account_list[0] is the account of the row
\* with the least id.
CycleBegin ==
    /\ pc[Pbd] = "accounts"
    /\ \E a \in Accounts \cup {NoAccount} :
          /\ IF rows = {} THEN a = NoAccount
             ELSE \E r \in rows : /\ a = AccountOfMail(r.mail)
                                  /\ \A s \in rows : r.id <= s.id
          /\ cycle' = [first    |-> a,
                       accounts |-> {AccountOfMail(r.mail) : r \in rows},
                       boxes    |-> {},
                       owed     |-> rows]
    /\ Goto(Pbd, "cycle")
    /\ UNCHANGED <<ring, cont, bulk, rows, live, ev, syncVars, victim, fetched>>

\* emstorage_get_pbd_mailbox_list
CycleAccount(a) ==
    /\ pc[Pbd] = "cycle" /\ cycle.boxes = {} /\ a \in cycle.accounts
    /\ cycle' = [cycle EXCEPT
                    !.accounts = @ \ {a},
                    !.boxes = {BoxOf[r.mail] : r \in {s \in rows : AccountOfMail(s.mail) = a}}]
    /\ UNCHANGED <<ring, cont, bulk, rows, live, pc, ev, syncVars, victim, fetched>>

CycleStop == cycle' = NoCycle /\ EventDone
CycleGoesOn(b) == cycle' = [cycle EXCEPT !.boxes = @ \ {b}] /\ UNCHANGED <<pc, ev>>

\* Its rows are read with the id account_list[j], j = 0, whatever the account;
\* an event in the ring stops the cycle after the chunk it is at, and so does
\* a failing connection before the mailbox.
CycleRows(b) == {r \in rows : BoxOf[r.mail] = b /\ AccountOf[b] = cycle.first}

CycleBox(b) ==
    /\ pc[Pbd] = "cycle" /\ b \in cycle.boxes
    /\ \/ /\ AccountOf[b] \in live /\ CycleRows(b) = {}
          /\ CycleGoesOn(b)
          /\ UNCHANGED <<rows, fetched>>
       \/ /\ AccountOf[b] \in live /\ CycleRows(b) # {}
          /\ \E done \in SUBSET CycleRows(b) :
                /\ ("server" \notin Faults /\ emptyFlag) => done = CycleRows(b)
                /\ Fetch(done)
          /\ IF emptyFlag THEN CycleGoesOn(b) ELSE CycleStop
       \/ /\ AccountOf[b] \notin live \/ "connect" \in Faults
          /\ CycleStop
          /\ UNCHANGED <<rows, fetched>>
    /\ UNCHANGED <<ring, cont, bulk, live, syncVars, victim>>

CycleEnd ==
    /\ pc[Pbd] = "cycle" /\ cycle.boxes = {} /\ cycle.accounts = {}
    /\ cont' = FALSE
    /\ CycleStop
    /\ UNCHANGED <<ring, bulk, rows, live, syncVars, victim, fetched>>

-----------------------------------------------------------------------------
PbdStep ==
    \/ Retrieve \/ FlushCheck \/ FlushIdle \/ Resume \/ Consider
    \/ Count(Pbd) \/ InsertLocal(Pbd) \/ Pause(Pbd)
    \/ Sleep \/ CheckNetwork \/ FlushFirst \/ AppendEvent
    \/ LocalCheck \/ CycleBegin \/ CycleEnd
    \/ \E a \in Accounts : CycleAccount(a)
    \/ \E b \in Boxes : CycleBox(b)

SyncStep ==
    \/ AskFull \/ InsertEvent \/ SyncEnd
    \/ \E b \in Boxes : SyncBegin(b)
    \/ \E m \in Mails : AddActivity(m)

DeleteStep ==
    \/ DeleteRows \/ CancelThreads \/ DeleteAccount
    \/ \E a \in Accounts : DeleteBegin(a)

CallerStep == Count(Caller) \/ InsertLocal(Caller) \/ Pause(Caller)

Next == PbdStep \/ SpuriousWake \/ SyncStep \/ DeleteStep \/ CallerStep

Spec == Init /\ [][Next]_vars

\* The download thread is scheduled.  Nobody owes a header sync, the deletion
\* of an account, a job or a spurious wake-up.
FairSpec == Spec /\ WF_vars(PbdStep)

-----------------------------------------------------------------------------
(* Properties                                                              *)

Events ==
    {NoEvent, LocalSync} \cup [type : {"bulk"}, mail : Mails, id : Nat \ {0}]
Working == {"run", "append", "local", "accounts", "cycle"}
PbdPlaces ==
    {"loop", "flush_check", "flush", "resume", "consider", "count",
     "insert_local", "pause", "sleep", "asleep"} \cup Working
SyncerPlaces == {"idle", "sync", "ask_full", "insert"}
StubPlaces == {"idle", "rows", "cancel", "account"}
CallerPlaces == {"idle", "insert_local", "pause"}

\* The type invariant.
TypeOK ==
    /\ que \in [Cells -> Events] /\ next \in Cells
    /\ emptyFlag \in BOOLEAN /\ fullFlag \in BOOLEAN /\ cont \in BOOLEAN
    /\ bulk \in Seq(Events) /\ ev \in Events
    /\ rows \subseteq [mail : Mails, id : Nat \ {0}]
    /\ live \subseteq Accounts
    /\ pc \in [Procs -> PbdPlaces \cup SyncerPlaces \cup StubPlaces \cup CallerPlaces]
    /\ cycle \in [first : Accounts \cup {NoAccount}, accounts : SUBSET Accounts,
                  boxes : SUBSET Boxes, owed : SUBSET [mail : Mails, id : Nat \ {0}]]
    /\ box \in Boxes \cup {NoBox} /\ row \in [mail : Mails, id : Nat \ {0}] \cup {NoRow}
    /\ victim \in Accounts \cup {NoAccount}
    /\ added \subseteq Mails /\ fetched \subseteq Mails

\* The two flags, which other threads and the thread itself read instead of
\* the ring, say what is in the ring, although a clear does not set the index
\* back, an insertion does not count and a retrieval looks at one cell.
FlagsTellTheQueue ==
    /\ emptyFlag <=> \A c \in Cells : ~Used(c)
    /\ fullFlag <=> \A c \in Cells : Used(c)

\* The batch never grows past its array, and everything in it is of the
\* mailbox of its first event, the one emcore_partial_body_bulk_flush opens.
BatchIsOneBox ==
    /\ Len(bulk) <= BulkMax
    /\ \A i \in 1 .. Len(bulk) : bulk[i].type = "bulk"
                                 /\ BoxOf[bulk[i].mail] = BoxOf[bulk[1].mail]

\* "Both the checks below make sure that before starting local activity there
\* is no new/pending event_data": while the rows are worked off no mail waits in
\* the batch as well, although anybody may ask for a local sync at any time.
LocalSyncHasNoBatch == pc[Pbd] \in {"accounts", "cycle"} => bulk = <<>>

\* The events in the ring in the order in which the thread comes to them.
UsedCells == {c \in Cells : Used(c)}
NthUsed(k) ==
    CHOOSE c \in UsedCells :
        Cardinality({d \in UsedCells : Passed(next, d) < Passed(next, c)}) = k - 1
Pending == [k \in 1 .. Cardinality(UsedCells) |-> que[NthUsed(k)]]

Fifo == INSTANCE EventFifo WITH
    Event <- Events \ {NoEvent}, Nothing <- NoEvent, Capacity <- Total,
    pending <- Pending, current <- ev, saysEmpty <- emptyFlag, saysFull <- fullFlag

\* The array with its index that a clear leaves where it is, the flags that are
\* set from what one operation has seen, and the users who insert, clear and
\* retrieve in any order are the queue of EventFifo.
ImplementsFifo == Fifo!Spec

\* While the thread works off an event it comes to the events behind it: the
\* index never strands an event in the ring.
InRing(m) == \E c \in Cells : que[c].mail = m
BacklogIsDrained ==
    \A m \in Mails : (pc[Pbd] \in Working /\ InRing(m)) ~> ~InRing(m)

\* "bulk partial body fetch for mails in each mailbox of accounts one by one":
\* a local activity sync that ran to its end, with no fault, has fetched every
\* mail it found in the table.
CycleCoversAccounts ==
    [][pc[Pbd] = "cycle" /\ pc'[Pbd] = "loop" /\ cycle.boxes = {}
         => \A r \in cycle.owed : r.mail \in fetched]_vars

\* An account that was deleted leaves no activity behind.
NoRowOfDeletedAccount == \A r \in rows : AccountOfMail(r.mail) \in live

=============================================================================
