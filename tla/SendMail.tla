------------------------------ MODULE SendMail ------------------------------
(***************************************************************************)
(* Sending a mail, from the client's request to the mail server: the ring  *)
(* g_send_event_que and its thread (email-core-event.c), the requests      *)
(* emdaemon_send_mail and emdaemon_cancel_sending_mail_job, the handler    *)
(* emcore_send_mail (email-core-smtp.c), the list that says which handle   *)
(* a mail was queued under (email-core-utils.c), and what of all this the  *)
(* mail table keeps when the daemon dies.                                  *)
(*                                                                         *)
(* A member of Sends is one event for the send thread: MailOf gives its    *)
(* mail, TypeOf its email_event_type_t.  Two sends may be of one mail: the *)
(* code does not look at the mail's save_status before it queues it again. *)
(* The mail server is external: it takes a message or does not.            *)
(***************************************************************************)
EXTENDS SlotRing, SequencesExt

CONSTANTS
    Mails, Sends, NoSend,
    MailOf,        \* the mail of each send
    TypeOf,        \* SEND_MAIL, or SAVE_MAIL of emdaemon_add_mail
    Stub, Timer,   \* the threads that request: task thread, retry timer
    Sender,        \* thread_func_branch_command_for_sending_mails
    NoMail,        \* the request at hand is no cancellation
    Faults,        \* what may fail in this instance: a subset of FaultKinds
    Cancelling,    \* whether clients cancel
    MaxCrashes     \* bound: how often the daemon dies and is started again

\* "lookup": the account, the mail or its attachments cannot be read;
\* "update": an UPDATE, a DELETE or a COMMIT of the mail table fails.
FaultKinds == {"network", "outbox", "sentbox", "lookup", "update"}
Requesters == {Stub, Timer}
Procs == Requesters \cup {Sender}

ASSUME SendsAssumption ==
    /\ NoSend \notin Sends /\ NoMail \notin Mails
    /\ MailOf \in [Sends -> Mails]
    /\ TypeOf \in [Sends -> {"SEND_MAIL", "SAVE_MAIL"}]
    /\ Stub # Timer /\ Sender \notin Requesters
    /\ Faults \subseteq FaultKinds /\ Cancelling \in BOOLEAN
    /\ MaxCrashes \in Nat

VARIABLES
    saveStatus,    \* mail_tbl.save_status
    mailbox,       \* mail_tbl.mailbox_id; "GONE" when the row is deleted
    que, idx, active,  \* g_send_event_que, g_send_event_que_idx, g_send_active_que
    busy,          \* g_sending_busy_cnt
    trans,         \* g_transaction_info_list
    pc,            \* where each thread is
    job,           \* the send each thread works on
    slot,          \* the handle a requester was given or has looked up
    cancels,       \* the mail the stub's task thread is cancelling
    crashes,       \* the number of restarts so far
    fate,          \* history: what became of each send
    delivered,     \* history: the sends whose message the server took
    missed         \* history: the mails whose latest status was not written

statusVars == <<saveStatus, missed>>
mailVars == <<saveStatus, mailbox, missed>>
ringVars == <<que, idx, active>>
reqVars == <<slot, cancels>>
histVars == <<fate, delivered>>
vars == <<saveStatus, mailbox, que, idx, active, busy, trans, pc, job, slot,
          cancels, crashes, fate, delivered, missed>>

-----------------------------------------------------------------------------
EmptySlot == [send |-> NoSend, status |-> "UNUSED"]
CanceledSlot == [send |-> NoSend, status |-> "CANCELED"]
FreeSlots == {s \in Slots : que[s].send = NoSend}

Goto(p, l) == pc' = [pc EXCEPT ![p] = l]

\* The request is answered.
Answer(r) ==
    /\ Goto(r, "idle")
    /\ job' = [job EXCEPT ![r] = NoSend] /\ slot' = [slot EXCEPT ![r] = 0]

\* emstorage_set_field_of_mails_with_integer_value(.., "save_status", st): an
\* UPDATE, which does nothing when the row is gone.
SetStatus(m, st) ==
    IF mailbox[m] = "GONE" THEN UNCHANGED statusVars
    ELSE /\ saveStatus' = [saveStatus EXCEPT ![m] = st]
         /\ missed' = missed \ {m}

\* A status that is due and does not get into the table.
MissStatus(m) == missed' = missed \cup {m} /\ UNCHANGED saveStatus

\* The callers log a failing UPDATE and go on.
WriteStatus(m, st) == SetStatus(m, st) \/ ("update" \in Faults /\ MissStatus(m))

\* What a freshly started daemon has in memory.
FreshMemory ==
    /\ que' = [s \in Slots |-> EmptySlot]
    /\ idx' = 1 /\ active' = 0 /\ busy' = 0 /\ trans' = <<>>
    /\ pc' = [p \in Procs |-> IF p = Sender THEN "loop" ELSE "idle"]
    /\ job' = [p \in Procs |-> NoSend]
    /\ slot' = [p \in Requesters |-> 0]
    /\ cancels' = NoMail

Init ==
    /\ saveStatus = [m \in Mails |-> "SAVED"]
    /\ mailbox = [m \in Mails |-> "DRAFT"]
    /\ que = [s \in Slots |-> EmptySlot]
    /\ idx = 1 /\ active = 0 /\ busy = 0 /\ trans = <<>>
    /\ pc = [p \in Procs |-> IF p = Sender THEN "loop" ELSE "idle"]
    /\ job = [p \in Procs |-> NoSend]
    /\ slot = [p \in Requesters |-> 0]
    /\ cancels = NoMail
    /\ crashes = 0
    /\ fate = [s \in Sends |-> "new"]
    /\ delivered = {} /\ missed = {}

-----------------------------------------------------------------------------
(* emdaemon_send_mail, on the stub's task thread or in the retry timer's   *)
(* callback.  First the mail is moved to the OUTBOX; on any failure the    *)
(* code goes to its FINISH_OFF, where it also frees a field of an event it *)
(* has not filled yet (a crash that Crash covers).  When the mail cannot   *)
(* be read its account is not known and FINISH_OFF writes no status.       *)
BeginSend(r, s) ==
    /\ pc[r] = "idle" /\ fate[s] = "new" /\ TypeOf[s] = "SEND_MAIL"
    /\ LET m == MailOf[s] IN
       \/ /\ mailbox[m] # "GONE"
          /\ mailbox' = [mailbox EXCEPT ![m] = "OUTBOX"]
          /\ Goto(r, "set_wait")
          /\ fate' = [fate EXCEPT ![s] = "requested"]
       \/ /\ "outbox" \in Faults
          /\ Goto(r, "reject")
          /\ fate' = [fate EXCEPT ![s] = "requested"]
          /\ UNCHANGED mailbox
       \/ /\ mailbox[m] = "GONE" \/ "lookup" \in Faults
          /\ Goto(r, "record")
          /\ fate' = [fate EXCEPT ![s] = "refused"]
          /\ UNCHANGED mailbox
    /\ job' = [job EXCEPT ![r] = s]
    /\ UNCHANGED <<statusVars, ringVars, busy, trans, reqVars, crashes, delivered>>

(* The one status whose failing UPDATE (or COMMIT) ends the request.       *)
SetWait(r) ==
    /\ pc[r] = "set_wait"
    /\ \/ SetStatus(MailOf[job[r]], "SEND_WAIT") /\ Goto(r, "insert")
       \/ "update" \in Faults /\ Goto(r, "reject") /\ UNCHANGED statusVars
    /\ UNCHANGED <<mailbox, ringVars, busy, trans, job, reqVars, crashes, histVars>>

(* emdaemon_add_mail has stored the mail and queues a SAVE_MAIL event.     *)
BeginAddMail(r, s) ==
    /\ pc[r] = "idle" /\ fate[s] = "new" /\ TypeOf[s] = "SAVE_MAIL"
    /\ job' = [job EXCEPT ![r] = s]
    /\ fate' = [fate EXCEPT ![s] = "requested"]
    /\ Goto(r, "insert")
    /\ UNCHANGED <<mailVars, ringVars, busy, trans, reqVars, crashes, delivered>>

(* emcore_insert_event_for_sending_mails, under _send_event_queue_lock.    *)
Insert(r) ==
    /\ pc[r] = "insert"
    /\ \/ \E j \in Slots :
            /\ IsInsertSlot(FreeSlots, idx, j)
            /\ que' = [que EXCEPT ![j] = [send |-> job[r], status |-> "WAIT"]]
            /\ slot' = [slot EXCEPT ![r] = j]
            /\ fate' = [fate EXCEPT ![job[r]] = "waiting"]
            /\ Goto(r, "signal")
            /\ UNCHANGED job
       \/ /\ FreeSlots = {}                            \* EVENT_QUEUE_FULL
          /\ IF TypeOf[job[r]] = "SEND_MAIL"
             THEN Goto(r, "reject") /\ UNCHANGED <<job, slot>>
             ELSE Answer(r)
          /\ fate' = [fate EXCEPT ![job[r]] = "refused"]
          /\ UNCHANGED que
    /\ UNCHANGED <<mailVars, idx, active, busy, trans, cancels, crashes, delivered>>

\* The signal wakes the send thread if that is waiting, and is lost otherwise.
Signal(r) ==
    /\ pc[r] = "signal"
    /\ LET mail == TypeOf[job[r]] = "SEND_MAIL" IN
       /\ pc' = [pc EXCEPT ![r] = IF mail THEN "record" ELSE "idle",
                           ![Sender] = IF @ = "asleep" THEN "loop" ELSE @]
       /\ job' = IF mail THEN job ELSE [job EXCEPT ![r] = NoSend]
       /\ slot' = IF mail THEN slot ELSE [slot EXCEPT ![r] = 0]
    /\ UNCHANGED <<mailVars, ringVars, busy, trans, cancels, crashes, histVars>>

\* Mutant: the status of a request that failed is left as it is.
RejectKeepsStatus(r) ==
    /\ pc[r] = "reject"
    /\ fate' = [fate EXCEPT ![job[r]] = "refused"]
    /\ Goto(r, "record")
    /\ UNCHANGED <<mailVars, ringVars, busy, trans, job, reqVars, crashes, delivered>>

(* FINISH_OFF of a request that failed.                                    *)
Reject(r) ==
    /\ pc[r] = "reject"
    /\ WriteStatus(MailOf[job[r]], "SAVED")
    /\ fate' = [fate EXCEPT ![job[r]] = "refused"]
    /\ Goto(r, "record")
    /\ UNCHANGED <<mailbox, ringVars, busy, trans, job, reqVars, crashes, delivered>>

(* emcore_add_transaction_info, after the event is queued, and with handle *)
(* 0 after a failure.                                                      *)
Record(r) ==
    /\ pc[r] = "record"
    /\ trans' = Append(trans, [mail |-> MailOf[job[r]], handle |-> slot[r]])
    /\ Answer(r)
    /\ UNCHANGED <<mailVars, ringVars, busy, cancels, crashes, histVars>>

-----------------------------------------------------------------------------
\* emcore_get_handle_by_mailId_from_transaction_info: the first entry counts.
EntryOf(m) == SelectInSeq(trans, LAMBDA t : t.mail = m)

\* emcore_delete_transaction_info_by_mailId.  The last node of the list cannot
\* be unlinked, so the whole list is forgotten with it.
Without(m) ==
    CASE EntryOf(m) = 0          -> trans
      [] EntryOf(m) = Len(trans) -> <<>>
      [] OTHER                   -> RemoveAt(trans, EntryOf(m))

(* emdaemon_cancel_sending_mail_job: look the handle up; without an entry  *)
(* nothing happens.                                                        *)
CancelLookup(m) ==
    /\ Cancelling /\ pc[Stub] = "idle" /\ EntryOf(m) # 0
    /\ slot' = [slot EXCEPT ![Stub] = trans[EntryOf(m)].handle]
    /\ cancels' = m
    /\ Goto(Stub, "cancel")
    /\ UNCHANGED <<mailVars, ringVars, busy, trans, job, crashes, histVars>>

(* emcore_cancel_send_mail_thread: whatever the slot holds by now.         *)
CancelSlot ==
    /\ pc[Stub] = "cancel"
    /\ LET h == slot[Stub] IN
       \/ /\ h = 0                                     \* INVALID_PARAM
          /\ Answer(Stub) /\ cancels' = NoMail
          /\ UNCHANGED <<que, busy, fate>>
       \/ /\ h # 0
          /\ que' = [que EXCEPT ![h] = CanceledSlot]
          /\ busy' = IF que[h].status = "WAIT" /\ TypeOf[que[h].send] = "SEND_MAIL"
                     THEN busy - 1 ELSE busy
          /\ fate' = CASE que[h].status = "WAIT" ->
                              [fate EXCEPT ![que[h].send] = "cancelled"]
                       [] que[h].status = "STARTED" ->
                              [fate EXCEPT ![que[h].send] =
                                  IF @ = "sending" THEN "stopping" ELSE @]
                       [] OTHER -> fate
          /\ Goto(Stub, "forget")
          /\ UNCHANGED <<job, slot, cancels>>
    /\ UNCHANGED <<mailVars, idx, active, trans, crashes, delivered>>

CancelForget ==
    /\ pc[Stub] = "forget"
    /\ trans' = Without(cancels)
    /\ cancels' = NoMail
    /\ Answer(Stub)
    /\ UNCHANGED <<mailVars, ringVars, busy, crashes, histVars>>

-----------------------------------------------------------------------------
(* The send thread.  emcore_retrieve_send_event, under the queue lock.     *)
Retrieve ==
    /\ pc[Sender] = "loop"
    /\ \/ /\ que[idx].send # NoSend /\ que[idx].status = "WAIT"
          /\ que' = [que EXCEPT ![idx].status = "STARTED"]
          /\ active' = idx /\ idx' = NextSlot(idx)
          /\ job' = [job EXCEPT ![Sender] = que[idx].send]
          /\ fate' = [fate EXCEPT ![que[idx].send] = "sending"]
          /\ Goto(Sender, "network")
       \/ /\ que[idx].send # NoSend /\ que[idx].status # "WAIT"
          /\ que' = [que EXCEPT ![idx] = EmptySlot]
          /\ active' = 0 /\ idx' = NextSlot(idx)
          /\ Goto(Sender, "sleep")
          /\ UNCHANGED <<job, fate>>
       \/ /\ que[idx].send = NoSend                    \* EVENT_QUEUE_EMPTY
          /\ active' = 0
          /\ Goto(Sender, "sleep")
          /\ UNCHANGED <<que, idx, job, fate>>
    /\ UNCHANGED <<mailVars, busy, trans, reqVars, crashes, delivered>>

\* pthread_cond_wait without another look at the queue; it may also return
\* without a signal.
Sleep ==
    /\ pc[Sender] = "sleep"
    /\ Goto(Sender, "asleep")
    /\ UNCHANGED <<mailVars, ringVars, busy, trans, job, reqVars, crashes, histVars>>

SpuriousWake ==
    /\ pc[Sender] = "asleep"
    /\ Goto(Sender, "loop")
    /\ UNCHANGED <<mailVars, ringVars, busy, trans, job, reqVars, crashes, histVars>>

(* emnetwork_check_network_status.  When it fails the code jumps over the  *)
(* memset that frees the slot.  SAVE_MAIL is "not supported by Send        *)
(* Thread".                                                                *)
CheckNetwork ==
    /\ pc[Sender] = "network"
    /\ \/ /\ Goto(Sender, IF TypeOf[job[Sender]] = "SEND_MAIL"
                          THEN "prepare" ELSE "clear")
          /\ UNCHANGED <<job, fate>>
       \/ /\ "network" \in Faults                      \* NOTI_SEND_FAIL
          /\ fate' = [fate EXCEPT ![job[Sender]] = "skipped"]
          /\ job' = [job EXCEPT ![Sender] = NoSend]
          /\ Goto(Sender, "loop")
    /\ UNCHANGED <<mailVars, ringVars, busy, trans, reqVars, crashes, delivered>>

CurrentMail == MailOf[job[Sender]]

\* emcore_check_send_mail_thread_status
CheckStatus == active <= 0 \/ que[active].status = "STARTED"

(* emcore_send_mail up to the connection: the mail is read from the table, *)
(* the cancel check is made between the parts, an address, a temporary     *)
(* file or the connection may fail, and a connection that breaks counts as *)
(* a cancellation.  FINISH_OFF writes no status when the account or the    *)
(* mail could not be read (mail_tbl_data is NULL) or a part refuses its    *)
(* parameters (INVALID_PARAM).                                             *)
Prepare ==
    /\ pc[Sender] = "prepare"
    /\ IF mailbox[CurrentMail] = "GONE"
       THEN Goto(Sender, "clear") /\ UNCHANGED statusVars
       ELSE \/ ~CheckStatus /\ Goto(Sender, "cancelled") /\ UNCHANGED statusVars
            \/ /\ \E l \in {"mark", "failed", "cancelled"} : Goto(Sender, l)
               /\ UNCHANGED statusVars
            \/ /\ "lookup" \in Faults
               /\ Goto(Sender, "clear") /\ MissStatus(CurrentMail)
    /\ UNCHANGED <<mailbox, ringVars, busy, trans, job, reqVars, crashes, histVars>>

\* Mutant: the cancel check after the connection is forgotten.
MarkSendingUnchecked ==
    /\ pc[Sender] = "mark"
    /\ WriteStatus(CurrentMail, "SENDING") /\ Goto(Sender, "transmit")
    /\ UNCHANGED <<mailbox, ringVars, busy, trans, job, reqVars, crashes, histVars>>

(* Its last cancel check, and save_status SENDING.                         *)
MarkSending ==
    /\ pc[Sender] = "mark"
    /\ IF CheckStatus
       THEN WriteStatus(CurrentMail, "SENDING") /\ Goto(Sender, "transmit")
       ELSE UNCHANGED statusVars /\ Goto(Sender, "cancelled")
    /\ UNCHANGED <<mailbox, ringVars, busy, trans, job, reqVars, crashes, histVars>>

(* emcore_send_mail_smtp.  The server takes the message or refuses it; the *)
(* `goto FINISH_OFF` for a refusal is not compiled, because                *)
(* __FEATURE_MOVE_TO_OUTBOX_FIRST__ is defined, so both go on alike.       *)
Transmit ==
    /\ pc[Sender] = "transmit"
    /\ \E accepted \in BOOLEAN :
          delivered' = IF accepted THEN delivered \cup {job[Sender]} ELSE delivered
    /\ Goto(Sender, "file")
    /\ UNCHANGED <<mailVars, ringVars, busy, trans, job, reqVars, crashes, fate>>

(* To the SENTBOX, or deleted, as opt->keep_local_copy says.  A move or a  *)
(* deletion that fails is only logged.                                     *)
FileMail ==
    /\ pc[Sender] = "file"
    /\ \/ /\ Goto(Sender, "mark_sent")
          /\ mailbox' = [mailbox EXCEPT ![CurrentMail] =
                            IF @ = "GONE" THEN @ ELSE "SENTBOX"]
          /\ UNCHANGED statusVars
       \/ /\ Goto(Sender, "mark_sent")                 \* not kept: no row, no status
          /\ mailbox' = [mailbox EXCEPT ![CurrentMail] = "GONE"]
          /\ saveStatus' = [saveStatus EXCEPT ![CurrentMail] = "NONE"]
          /\ UNCHANGED missed
       \/ /\ "update" \in Faults
          /\ Goto(Sender, "mark_sent")
          /\ UNCHANGED mailVars
       \/ /\ "sentbox" \in Faults                      \* no SENTBOX to be found
          /\ Goto(Sender, "failed")
          /\ UNCHANGED mailVars
    /\ UNCHANGED <<ringVars, busy, trans, job, reqVars, crashes, histVars>>

\* Mutant: the status is not written after the mail was filed.
MarkSentSkipped ==
    /\ pc[Sender] = "mark_sent"
    /\ Goto(Sender, "forget_sent")
    /\ UNCHANGED <<mailVars, ringVars, busy, trans, job, reqVars, crashes, histVars>>

MarkSent ==
    /\ pc[Sender] = "mark_sent"
    /\ WriteStatus(CurrentMail, "SENT")
    /\ Goto(Sender, "forget_sent")
    /\ UNCHANGED <<mailbox, ringVars, busy, trans, job, reqVars, crashes, histVars>>

ForgetSent ==
    /\ pc[Sender] = "forget_sent"
    /\ trans' = Without(CurrentMail)
    /\ Goto(Sender, "clear")
    /\ UNCHANGED <<mailVars, ringVars, busy, job, reqVars, crashes, histVars>>

(* FINISH_OFF of emcore_send_mail; it leaves g_transaction_info_list alone. *)
FinishFailed ==
    /\ pc[Sender] \in {"failed", "cancelled"}
    /\ WriteStatus(CurrentMail,
           IF pc[Sender] = "failed" THEN "SEND_FAILURE" ELSE "SEND_CANCELED")
    /\ Goto(Sender, "clear")
    /\ UNCHANGED <<mailbox, ringVars, busy, trans, job, reqVars, crashes, histVars>>

\* memset(g_send_event_que+g_send_active_que)
ClearSlot ==
    /\ pc[Sender] = "clear"
    /\ que' = [que EXCEPT ![active] = EmptySlot]
    /\ fate' = [fate EXCEPT ![job[Sender]] = "ended"]
    /\ job' = [job EXCEPT ![Sender] = NoSend]
    /\ Goto(Sender, "loop")
    /\ UNCHANGED <<mailVars, idx, active, busy, trans, reqVars, crashes, delivered>>

-----------------------------------------------------------------------------
InFlight == {"requested", "waiting", "sending", "stopping"}

\* Mutant: the start-up does not look at the mails.
CleanSaveStatusNot(st) == st

\* emstorage_clean_save_status(EMAIL_MAIL_STATUS_SAVED), for one mail.
CleanSaveStatus(st) == IF st = "SENDING" THEN "SAVED" ELSE st

(* The daemon dies between any two steps and is started again:             *)
(* emdaemon_initialize cleans the mail table before the threads start, and *)
(* starts them too when that UPDATE fails.                                 *)
Crash ==
    /\ crashes < MaxCrashes
    /\ crashes' = crashes + 1
    /\ FreshMemory
    /\ LET sending == {m \in Mails : saveStatus[m] = "SENDING"} IN
       \/ /\ saveStatus' = [m \in Mails |-> CleanSaveStatus(saveStatus[m])]
          /\ missed' = missed \ sending
       \/ /\ "update" \in Faults
          /\ missed' = missed \cup sending /\ UNCHANGED saveStatus
    /\ fate' = [s \in Sends |-> IF fate[s] \in InFlight THEN "lost" ELSE fate[s]]
    /\ UNCHANGED <<mailbox, delivered>>

SenderStep ==
    \/ Retrieve \/ Sleep \/ CheckNetwork \/ Prepare \/ MarkSending \/ Transmit
    \/ FileMail \/ MarkSent \/ ForgetSent \/ FinishFailed \/ ClearSlot

RequestStep(r) == SetWait(r) \/ Insert(r) \/ Signal(r) \/ Reject(r) \/ Record(r)

CancelStep == CancelSlot \/ CancelForget

Next ==
    \/ \E r \in Requesters :
          \/ RequestStep(r)
          \/ \E s \in Sends : BeginSend(r, s) \/ BeginAddMail(r, s)
    \/ (\E m \in Mails : CancelLookup(m)) \/ CancelStep
    \/ SenderStep \/ SpuriousWake \/ Crash

Spec == Init /\ [][Next]_vars

\* The threads run on.  Nobody owes a request, a cancellation, a spurious
\* wake-up or a crash.
Fairness ==
    /\ WF_vars(SenderStep) /\ WF_vars(CancelStep)
    /\ \A r \in Requesters : WF_vars(RequestStep(r))

FairSpec == Spec /\ Fairness

-----------------------------------------------------------------------------
(* Properties                                                              *)

SaveStatuses == {"NONE", "SAVED", "SEND_WAIT", "SENDING", "SENT",
                 "SEND_FAILURE", "SEND_CANCELED"}
Boxes == {"DRAFT", "OUTBOX", "SENTBOX", "GONE"}
RequesterPlaces == {"idle", "set_wait", "insert", "signal", "reject", "record",
                    "cancel", "forget"}
\* From the write of SENDING to the write of what became of the mail.
Transmitting == {"transmit", "file", "mark_sent", "failed"}
SenderPlaces == {"loop", "sleep", "asleep", "network", "prepare", "mark",
                 "cancelled", "forget_sent", "clear"} \cup Transmitting
SendFates == InFlight \cup {"new", "refused", "cancelled", "skipped", "ended", "lost"}

\* The type invariant.
TypeOK ==
    /\ saveStatus \in [Mails -> SaveStatuses]
    /\ mailbox \in [Mails -> Boxes]
    /\ que \in [Slots -> [send : Sends \cup {NoSend},
                          status : {"UNUSED", "WAIT", "STARTED", "CANCELED"}]]
    /\ idx \in Slots /\ active \in Slots \cup {0}
    /\ busy \in Int
    /\ trans \in Seq([mail : Mails, handle : Slots \cup {0}])
    /\ pc \in [Procs -> RequesterPlaces \cup SenderPlaces]
    /\ job \in [Procs -> Sends \cup {NoSend}]
    /\ slot \in [Requesters -> Slots \cup {0}]
    /\ cancels \in Mails \cup {NoMail}
    /\ crashes \in 0 .. MaxCrashes
    /\ fate \in [Sends -> SendFates]
    /\ delivered \subseteq Sends
    /\ missed \subseteq Mails

\* "The mail is being sent": save_status SENDING is on the mail the send thread
\* has on the wire and on no other, through requests for the same mail, through
\* cancellations and through restarts.  The exception is a mail whose later
\* status could not be written: nothing tries again.
SendingIsBeingSent ==
    \A m \in Mails : saveStatus[m] = "SENDING" =>
        \/ pc[Sender] \in Transmitting /\ CurrentMail = m
        \/ m \in missed

\* A mail cancelled before its last check (emcore_check_send_mail_thread_status
\* after the connection is made) does not go to the server, even if the slot it
\* had has been given to another mail.
StoppedIsNotTransmitted ==
    [][(pc[Sender] = "mark" /\ pc'[Sender] = "transmit")
          => fate[job[Sender]] = "sending"]_vars

\* A send reported cancelled, refused or failed, or lost in a restart, never
\* starts later: nothing that was given up is delivered afterwards.
GivenUp == {"cancelled", "refused", "skipped", "ended", "lost"}
GivenUpStaysGivenUp ==
    [][\A s \in Sends : fate[s] \in GivenUp => fate'[s] = fate[s]]_vars

\* "The mail is being sent" does not stay: the send thread takes the status away
\* again, unless the UPDATE that should fails.
SendingEnds ==
    \A m \in Mails : saveStatus[m] = "SENDING" ~>
        (saveStatus[m] # "SENDING" \/ m \in missed)

\* "The mail is a mail to be send": a mail in SEND_WAIT has a send that is about
\* to be queued, waits in the ring, or has reached the send thread.  The exception
\* is again a mail whose later status was not written, for a failing UPDATE or
\* because the send thread could not read the account or the mail.
HasSend(m) ==
    \/ \E s \in Slots : que[s].send # NoSend /\ que[s].status = "WAIT"
                        /\ MailOf[que[s].send] = m
    \/ \E p \in Procs : job[p] # NoSend /\ MailOf[job[p]] = m
WaitingMailHasSend ==
    \A m \in Mails : saveStatus[m] = "SEND_WAIT" => HasSend(m) \/ m \in missed

\* "The mail is a sent mail": the server took its message.
SentWasDelivered ==
    \A m \in Mails : saveStatus[m] = "SENT" =>
        \E s \in delivered : MailOf[s] = m

\* "The mail is a mail to been failed to send": no message of it was taken.
FailedWasNotDelivered ==
    \A m \in Mails : saveStatus[m] = "SEND_FAILURE" =>
        ~ \E s \in delivered : MailOf[s] = m

\* emdaemon_cancel_sending_mail_job cancels the mail it was called for.
CancelHitsItsMail ==
    [][(pc[Stub] = "cancel" /\ cancels # NoMail /\ slot[Stub] # 0) =>
          \/ que[slot[Stub]].send = NoSend
          \/ MailOf[que[slot[Stub]].send] = cancels
          \/ UNCHANGED que]_vars

\* A mail that waits in the ring can be found and cancelled, once the request
\* that queued it has been answered.
WaitingSendIsCancellable ==
    \A s \in Slots :
        (/\ que[s].status = "WAIT" /\ TypeOf[que[s].send] = "SEND_MAIL"
         /\ \A r \in Requesters : pc[r] = "idle")
        => EntryOf(MailOf[que[s].send]) # 0

\* "We set the status as EMAIL_MAIL_STATUS_SEND_CANCELED."
CancelledIsMarked ==
    \A s \in Sends : (fate[s] = "cancelled" /\ pc[Stub] = "idle") =>
        saveStatus[MailOf[s]] = "SEND_CANCELED"
=============================================================================
