-------------------------------- MODULE Mail --------------------------------
(***************************************************************************)
(* The mail operations of the email service: the calls of email-daemon     *)
(* that change mails and mailboxes, the detached threads that delete and   *)
(* move, the events of the receive thread that carry the changes to the    *)
(* server, the synchronisation of mailboxes and the download of bodies,    *)
(* over the tables of MailStore and the servers of MailServer.             *)
(*                                                                         *)
(* A call, a thread's work and an event that is not a synchronisation or   *)
(* a download are a step each.  A synchronisation takes a step for every   *)
(* mailbox it begins, every message it fetches and every mailbox it ends;  *)
(* a download reads the message in one and stores it in another.  Other    *)
(* clients change the server between the steps, the network may not        *)
(* answer, and the daemon may be restarted: its queue, its threads and     *)
(* what it was doing are lost, the database and the server stay.           *)
(*                                                                         *)
(* work bounds a behaviour: the calls it has, how many of them, how many   *)
(* changes from outside and how many faults.  ghost only records: what the *)
(* users asked to be deleted, and which mails one of the known ways of     *)
(* going astray has reached.                                               *)
(***************************************************************************)
EXTENDS MailServer

CONSTANTS NewNames,      \* names for mailboxes that are created or renamed
          Rules,         \* the rules that may be added: [type, value]
          Slots,         \* slot sizes that are asked for
          Attached,      \* the messages that have an attachment
          Drafts,        \* the messages that an application writes
          Incoming,      \* the messages that may arrive while the program runs
          Garbled,       \* the messages with a name or an encoding in the header that cannot be decoded
          Starts         \* what a behaviour begins with: [db, server, work]

VARIABLES db, server,
          queue,         \* the events of the receive thread
          threads,       \* the detached threads, as the events they carry
          run,           \* what the receive thread is in the middle of
          work, ghost,
          undisturbed    \* nothing else has happened since the sync of this mailbox began

vars == <<db, server, queue, threads, run, work, ghost, undisturbed>>

Idle == [op |-> "idle"]
NoGhost == [mails |-> {}, msgs |-> {}, single |-> {}, boxes |-> {}, accounts |-> {},
            moved |-> {}, filed |-> {}, strays |-> {}, headless |-> {}, wiped |-> {}]

\* The mailbox of a mail is there, of its account, with the name and type the mail has.
Housed(d, strays) ==
    \A m \in d.mail : m.id \notin strays =>
        \E b \in d.box : b.id = m.box /\ b.acc = m.acc /\ b.name = m.name /\ b.type = m.type

Flags == SUBSET {"syncing", "new"}
\* Rows name rows that were there, ids are not shared.
Typed(d, users) ==
    /\ \A a \in d.account : a.user \in users /\ a.kind \in {"imap", "pop3"} /\ a.slot \in Nat /\ a.sync \in Flags
    /\ \A b \in d.box : b.type \in DOMAIN TypeOrder /\ b.local \in BOOLEAN /\ b.slot \in Nat /\ b.total \in Nat
    /\ \A m \in d.mail : m.id \in 1..(d.next - 1) /\ m.items \in Nat
    /\ \A rows \in {d.account, d.box, d.mail, d.att, d.rule} : \A r, q \in rows : r.id = q.id => r = q

\* A thread has the id of a mail that was there, and mails of one account.
Strung(d) ==
    \A m \in d.mail : /\ m.thread \in 1..(d.next - 1)
                       /\ \A k \in d.mail : k.thread = m.thread => k.acc = m.acc
\* Of the mails that a thread lists the latest has their number, the others 0.
ListedIn(d, t) == {m \in d.mail : m.thread = t /\ m.type \notin Unlisted}
Headed(d, t) ==
    LET listed == ListedIn(d, t)
    IN  \A m \in listed : m.items = IF IsLatest(m, listed) THEN Cardinality(listed) ELSE 0

\* A slot is never negative: email_set_mail_slot_size refuses it.
ASSUME SlotsAssumption == Slots \subseteq Nat /\ DefaultSlot \in Nat /\ SlotUnit \in Nat
\* A name that is given to a folder has a type; a message has a date.
ASSUME NamesAssumption == NewNames \subseteq DOMAIN FolderType
ASSUME DatesAssumption == Drafts \subseteq Nat /\ Incoming \subseteq Nat
\* A rule compares with something.
ASSUME RulesAssumption == \A r \in Rules : r.value # NoName
\* The databases that synchronised accounts leave.
ASSUME StartsAssumption ==
    \A st \in Starts : /\ Tables(st.db) /\ Filed(st.db) /\ Typed(st.db, DOMAIN st.server)
                       /\ Housed(st.db, {}) /\ Servers(st.server)
                       /\ Strung(st.db) /\ \A m \in st.db.mail : Headed(st.db, m.thread)

Init == /\ \E st \in Starts : db = st.db /\ server = st.server /\ work = st.work
        /\ queue = <<>> /\ threads = {} /\ run = Idle /\ ghost = NoGhost /\ undisturbed = FALSE

-----------------------------------------------------------------------------
(* what the calls share *)

Calls(name) == /\ name \in work.calls /\ work.ncalls > 0
               /\ work' = [work EXCEPT !.ncalls = @ - 1]
Boxes == {b.id : b \in db.box}
Mails == {m.id : m \in db.mail}
Batches == {<<i>> : i \in Mails} \cup {<<p[1], p[2]>> : p \in {p \in Mails \X Mails : p[1] # p[2]}}
emcore_insert_event(e) == queue' = Append(queue, e)
Detach(e) == threads' = threads \cup {e}

MsgsOf(ids) == {m.msg : m \in {m \in db.mail : m.id \in ids}}
\* The messages that a move concerns, those of mails that are gone already too.
MovedMsgs(ids) == MsgsOf(ids) \cup {e.msg : e \in {e \in ghost.single : e.id \in ids}}
\* A thread keeps the count it had when of its mails only others than the head
\* go; and a batch with a mail that is gone takes the files of the account.
Gone(d) == {m \in db.mail : \A k \in d.mail : k.id # m.id}
Remains(d, t) == \E k \in d.mail : k.thread = t
Headless(d) ==
    {m.thread : m \in {m \in Gone(d) : /\ \A k \in Gone(d) : k.thread = m.thread => k.items <= 1
                                       /\ Remains(d, m.thread)}}
\* Where mails go one after the other, whenever one goes that is not the head.
Beheaded(d) ==
    {m.thread : m \in {m \in Gone(d) : m.items <= 1 /\ m.type \notin Unlisted /\ Remains(d, m.thread)}}
\* Of a mail that is added and a mailbox that is trimmed in one step.
Trimmed(g, d) == [g EXCEPT !.headless = IF Mails \cup {db.next} \subseteq {m.id : m \in d.mail} THEN @
                                        ELSE @ \cup {m.thread : m \in db.mail \ d.mail}]
Noted(g, d) == [g EXCEPT !.headless = @ \cup Headless(d)]
NotedEach(g, d) == [g EXCEPT !.headless = @ \cup Beheaded(d)]
\* The threads of a batch with mails of another account than the one whose
\* threads get their heads.
Mixed(acc, ids) ==
    LET some == {m \in db.mail : m.id \in ids}
    IN  IF \A m \in some : m.acc = acc THEN {} ELSE {m.thread : m \in some}
Wiped(g, t, ids) == [g EXCEPT !.wiped = IF ids \subseteq Mails THEN @ ELSE @ \cup {t.acc},
                              !.headless = @ \cup Mixed(t.acc, ids)]
\* What is marked deleted in a mailbox may be of another account than it.
Expunging(g, box) ==
    [g EXCEPT !.headless = @ \cup UNION {Mixed(b.acc, DeletedFlagged(db, box)) : b \in emstorage_get_mailbox_by_id(db, box)}]

-----------------------------------------------------------------------------
(* email-daemon-mail.c *)

\* The threads and the server work are the account's of the mailbox given.
emdaemon_delete_mail(box, ids, from_server) ==
    \E b \in emstorage_get_mailbox_by_id(db, box) :
        /\ Detach([op |-> "delete", acc |-> b.acc, ids |-> ids, server |-> from_server])
        /\ ghost' = [ghost EXCEPT !.mails = @ \cup Range(ids),
                                  !.msgs = IF from_server THEN @ \cup MsgsOf(Range(ids)) ELSE @,
                                  !.single = IF from_server /\ Len(ids) = 1
                                             THEN @ \cup {[id |-> ids[1], msg |-> msg] : msg \in MsgsOf(Range(ids))}
                                             ELSE @]
        /\ UNCHANGED <<db, server, queue, run>>
DeleteMail == /\ Calls("delete")
              /\ \E ids \in Batches, on \in BOOLEAN :
                    emdaemon_delete_mail((The(emstorage_get_mail_by_id(db, ids[1]))).box, ids, on)
DeleteMailThread ==
    /\ Calls("delete_thread")
    /\ \E t \in {m.thread : m \in db.mail} :
        LET found == emstorage_get_mail_list(db, 0, 0, t) IN
        found # <<>> /\ emdaemon_delete_mail(found[1].box, IdsOf(found), FALSE)

thread_func_to_delete_mail(t) ==
    /\ t.op = "delete"
    /\ threads' = threads \ {t}
    /\ db' = emcore_delete_mail(db, t.acc, Range(t.ids))
    /\ ghost' = IF Known(db, t.acc) THEN Noted(Wiped(ghost, t, Range(t.ids)), db') ELSE ghost
    /\ IF t.server /\ Known(db, t.acc) THEN emcore_insert_event(t) ELSE UNCHANGED queue
    /\ UNCHANGED <<server, run, work>>

\* The mails are gone here before the event that deletes them there is run.
DeleteMailAll ==
    /\ Calls("delete_all")
    /\ \E b \in db.box, on \in BOOLEAN :
        /\ db' = emcore_delete_all_mails_of_mailbox(db, b.id)
        /\ IF on THEN emcore_insert_event([op |-> "delete_all", box |-> b.id]) ELSE UNCHANGED queue
        /\ ghost' = Noted([ghost EXCEPT !.mails = @ \cup {m.id : m \in MailsByName(db, b)},
                                        !.boxes = IF on THEN @ \cup {b.id} ELSE @], db')
    /\ UNCHANGED <<server, threads, run>>

\* The source is the mailbox the first mail is in when the call is made.
emdaemon_move_mail(ids, dst) ==
    \E to \in emstorage_get_mailbox_by_id(db, dst), m \in emstorage_get_mail_by_id(db, ids[1]) :
        /\ Known(db, to.acc)
        /\ Detach([op |-> "move", acc |-> to.acc, ids |-> ids, dst |-> dst, src |-> m.box])
        /\ UNCHANGED <<db, server, queue, run, ghost>>
MoveMail == /\ Calls("move")
            /\ \E ids \in Batches, dst \in Boxes : emdaemon_move_mail(ids, dst)
MoveMailAll ==
    /\ Calls("move_all")
    /\ \E b \in db.box, dst \in Boxes :
        LET found == emstorage_get_mail_list(db, b.acc, b.id, 0) IN
        found # <<>> /\ emdaemon_move_mail(IdsOf(found), dst)
MoveMailThread ==
    /\ Calls("move_thread")
    /\ \E t \in {m.thread : m \in db.mail}, to \in db.box :
        LET found == emstorage_get_mail_list(db, 0, 0, t) IN
        found # <<>> /\ found[1].acc = to.acc /\ emdaemon_move_mail(IdsOf(found), to.id)

\* Of mails of another account only the mailbox is changed.
thread_func_to_move_mail(t) ==
    LET to == emstorage_get_mailbox_by_id(db, t.dst) IN
    /\ t.op = "move"
    /\ threads' = threads \ {t}
    /\ IF to = {} THEN UNCHANGED <<db, queue, ghost>>
       ELSE /\ db' = emcore_move_mail(db, Range(t.ids), The(to))
            /\ emcore_insert_event(t)
            /\ ghost' = [ghost EXCEPT !.moved = @ \cup MovedMsgs(Range(t.ids)),
                                      !.strays = @ \cup {m.id : m \in {m \in db.mail : m.id \in Range(t.ids) /\ m.acc # The(to).acc}},
                                      !.headless = @ \cup Mixed(t.acc, Range(t.ids))]
    /\ UNCHANGED <<server, run, work>>

ModifyFlag ==
    /\ Calls("flag")
    /\ \E id \in Mails, seen \in BOOLEAN, on \in BOOLEAN :
        /\ db' = emcore_modify_flag(db, id, seen)
        /\ IF on THEN emcore_insert_event([op |-> "flag", id |-> id]) ELSE UNCHANGED queue
    /\ UNCHANGED <<server, threads, run, ghost>>

emdaemon_set_flags_field(acc, ids, field, value, on) ==
    /\ Known(db, acc)
    /\ db' = emcore_set_flags_field(db, acc, Range(ids), field, value)
    /\ IF on /\ Kind(db, acc) = "imap"
       THEN emcore_insert_event([op |-> "flags", ids |-> ids, field |-> field, value |-> value])
       ELSE UNCHANGED queue
    /\ UNCHANGED <<server, threads, run, ghost>>
SetFlagsField ==
    /\ Calls("flags")
    /\ \E a \in db.account, ids \in Batches, field \in {"seen", "deleted"}, value \in BOOLEAN, on \in BOOLEAN :
        emdaemon_set_flags_field(a.id, ids, field, value, on)
ModifySeenFlagOfThread ==
    /\ Calls("seen_thread")
    /\ \E t \in {m.thread : m \in db.mail}, value \in BOOLEAN, on \in BOOLEAN :
        LET found == emstorage_get_mail_list(db, 0, 0, t) IN
        found # <<>> /\ emdaemon_set_flags_field(found[1].acc, IdsOf(found), "seen", value, on)

ExpungeMails ==
    /\ Calls("expunge")
    /\ \E b \in db.box, on \in BOOLEAN :
        /\ Known(db, b.acc)
        /\ IF on THEN emcore_insert_event([op |-> "expunge", acc |-> b.acc, box |-> b.id]) /\ UNCHANGED <<db, ghost>>
           ELSE /\ db' = emcore_expunge_mails_deleted_flagged_from_local_storage(db, b.id)
                /\ ghost' = Noted(Expunging(ghost, b.id), db')
                /\ UNCHANGED queue
    /\ UNCHANGED <<server, threads, run>>

\* An application saves a mail, edits one, or changes what is attached to one.
AddMail ==
    /\ Calls("add")
    /\ \E b \in db.box, msg \in Drafts, meeting \in BOOLEAN :
        /\ db' = emcore_add_mail(db, b.acc, b.id, msg, msg \in Attached, meeting)
        /\ ghost' = Trimmed(ghost, db')
    /\ UNCHANGED <<server, queue, threads, run>>
UpdateMail ==
    /\ Calls("update")
    /\ \E m \in db.mail, body \in Drafts, meeting \in BOOLEAN :
        \E atts \in {<<>>, <<0>>, IdsOf(emstorage_get_attachment_list(db, m.id))} :
            db' = emcore_update_mail(db, m.acc, m.id, body, atts, meeting)
    /\ UNCHANGED <<server, queue, threads, run, ghost>>
ChangeAttachments ==
    /\ Calls("attach")
    /\ \/ \E id \in Mails : db' = emcore_mail_add_attachment_data(db, id)
       \/ \E a \in db.att : db' = emcore_delete_mail_attachment(db, a.id)
    /\ UNCHANGED <<server, queue, threads, run, ghost>>
DownloadBody ==
    /\ Calls("body")
    /\ \E id \in Mails : emcore_insert_event([op |-> "body", id |-> id])
    /\ UNCHANGED <<db, server, threads, run, ghost>>

-----------------------------------------------------------------------------
(* email-daemon-mailbox.c and email-daemon-account.c *)

Ask(e) == emcore_insert_event(e) /\ UNCHANGED <<db, server, threads, run, ghost>>
SyncHeader ==
    /\ Calls("sync")
    /\ \/ \E b \in db.box : Ask([op |-> "sync", acc |-> b.acc, box |-> b.id])
       \/ \E acc \in {0} \cup {a.id : a \in db.account} : Ask([op |-> "sync", acc |-> acc, box |-> 0])
GetImapMailboxList == Calls("list") /\ \E a \in db.account : Ask([op |-> "list", acc |-> a.id])
SetMailSlotSize ==
    /\ Calls("slot")
    /\ \E a \in db.account, box \in {0} \cup Boxes, size \in Slots :
        /\ box # 0 => \E b \in db.box : b.id = box /\ b.acc = a.id
        /\ Ask([op |-> "slot", acc |-> a.id, box |-> box, size |-> size])

AddMailbox ==
    /\ Calls("add_box")
    /\ \E a \in db.account, name \in NewNames, on \in BOOLEAN :
        IF on THEN Ask([op |-> "create_box", acc |-> a.id, name |-> name])
        ELSE /\ db' = emcore_create_mailbox(db, a.id, name, "user", TRUE)
             /\ UNCHANGED <<server, queue, threads, run, ghost>>
DeleteMailbox ==
    /\ Calls("delete_box")
    /\ \E b \in db.box, on \in BOOLEAN :
        /\ Known(db, b.acc)
        /\ IF on THEN emcore_insert_event([op |-> "delete_box", box |-> b.id]) /\ UNCHANGED db
           ELSE db' = (emcore_delete_mailbox(db, server, b.id, FALSE, FALSE)).d /\ UNCHANGED queue
        /\ ghost' = Noted([ghost EXCEPT !.boxes = @ \cup {b.id},
                                        !.mails = IF on THEN @ ELSE @ \cup {m.id : m \in MailsByName(db, b)}], db')
    /\ UNCHANGED <<server, threads, run>>
\* The new name must be free; the row is renamed before the folder is.
RenameMailbox ==
    /\ Calls("rename_box")
    /\ \E b \in db.box, name \in NewNames, on \in BOOLEAN :
        /\ ~Taken(db, b.acc, b.local, name)
        /\ db' = emstorage_rename_mailbox(db, b.id, name)
        /\ IF on /\ Known(db, b.acc) /\ Kind(db, b.acc) = "imap"
           THEN emcore_insert_event([op |-> "rename_box", acc |-> b.acc, old |-> b.name, new |-> name])
           ELSE UNCHANGED queue
    /\ UNCHANGED <<server, threads, run, ghost>>
SetMailboxType ==
    /\ Calls("box_type")
    /\ \E b \in db.box, type \in {"trash", "spam", "user"} :
        /\ db' = emstorage_update_mailbox_type(db, b.acc, Both, b.name, type)
        /\ ghost' = [ghost EXCEPT !.headless = @ \cup {m.thread : m \in db'.mail \ db.mail}]
    /\ UNCHANGED <<server, queue, threads, run>>

CreateAccount ==
    /\ Calls("create_account")
    /\ \E user \in DOMAIN server, kind \in {"imap", "pop3"} :
        Ask([op |-> "create_account", user |-> user, kind |-> kind])
DeleteAccount ==
    /\ Calls("delete_account")
    /\ \E a \in db.account :
        /\ db' = emcore_delete_account(db, a.id)
        /\ ghost' = [ghost EXCEPT !.accounts = @ \cup {a.id}]
    /\ UNCHANGED <<server, queue, threads, run>>
\* The rule is applied to the mails that are there.
AddRule ==
    /\ Calls("rule")
    /\ \E rule \in Rules :
        LET added == emcore_mail_filter_by_rule(emstorage_add_rule(db, 0, rule), rule) IN
        /\ ~emstorage_find_rule(db, rule)
        /\ db' = added
        /\ ghost' = [ghost EXCEPT !.strays = @ \cup {m.id : m \in added.mail \ db.mail},
                                  !.headless = @ \cup {m.thread : m \in added.mail \ db.mail}]
    /\ UNCHANGED <<server, queue, threads, run>>

\* A rule that is changed or deleted moves nothing.
UpdateRule ==
    /\ Calls("rule")
    /\ \E r \in db.rule, rule \in Rules : db' = emstorage_change_rule(db, 0, r.id, rule)
    /\ UNCHANGED <<server, queue, threads, run, ghost>>
DeleteRule ==
    /\ Calls("rule")
    /\ \E r \in db.rule : db' = emstorage_delete_rule(db, 0, r.id)
    /\ UNCHANGED <<server, queue, threads, run, ghost>>
UpdateAccount ==
    /\ Calls("update_account")
    /\ \E a \in db.account, slot \in Slots : db' = emstorage_update_account(db, a.id, slot)
    /\ UNCHANGED <<server, queue, threads, run, ghost>>

-----------------------------------------------------------------------------
(* email-core-event.c: the events of the receive thread *)

\* Whether the network answers: only the faults of the behaviour fail.
Net(net) == /\ net \/ work.faults > 0
            /\ work' = IF net THEN work ELSE [work EXCEPT !.faults = @ - 1, !.faulted = TRUE]
Next1(op) == queue # <<>> /\ run = Idle /\ Head(queue).op = op /\ queue' = Tail(queue)
Leaves(r) == db' = r.d /\ server' = r.s

DeleteMailOnServer ==
    \E net \in BOOLEAN :
        /\ Next1("delete") /\ Net(net)
        /\ Leaves(emcore_delete_mails_from_remote_server(db, server, Head(queue).acc, Head(queue).ids, net))
        /\ UNCHANGED <<threads, run, ghost>>
\* Of the mails that have come to the mailbox since.
DeleteMailAllOnServer ==
    \E net \in BOOLEAN :
        LET found == emstorage_get_mailbox_by_id(db, Head(queue).box) IN
        /\ Next1("delete_all") /\ Net(net)
        /\ Leaves(IF found = {} THEN Failed(db, server)
                  ELSE emcore_delete_mails_from_remote_server(
                          db, server, (The(found)).acc, IdsOf(ById(MailsByName(db, The(found)))), net))
        /\ UNCHANGED <<threads, run, ghost>>
MoveMailOnServer ==
    \E net \in BOOLEAN :
        LET e == Head(queue) IN
        /\ Next1("move") /\ Net(net)
        /\ Leaves(IF ~Known(db, e.acc) \/ Kind(db, e.acc) # "imap" THEN Failed(db, server)
                  ELSE emcore_move_mail_on_server_ex(db, server, e.acc, e.src, e.ids, e.dst, net))
        /\ UNCHANGED <<threads, run, ghost>>
SyncFlagOnServer ==
    \E net \in BOOLEAN :
        /\ Next1("flag") /\ Net(net)
        /\ Leaves(emcore_sync_flag_with_server(db, server, Head(queue).id, net))
        /\ UNCHANGED <<threads, run, ghost>>
SyncFlagsFieldOnServer ==
    \E net \in BOOLEAN :
        LET e == Head(queue) IN
        /\ Next1("flags") /\ Net(net)
        /\ Leaves(emcore_sync_flags_field_with_server(db, server, e.ids, e.field, e.value, net))
        /\ UNCHANGED <<threads, run, ghost>>
\* The mails that are marked deleted go there, then here, and here even when
\* the server could not be asked.
ExpungeOnServer ==
    \E net \in BOOLEAN :
        LET box == Head(queue).box
            r == emcore_expunge_mails_deleted_flagged_from_remote_server(db, server, Head(queue).acc, box, net)
        IN  /\ Next1("expunge") /\ Net(net)
            /\ server' = r.s
            /\ IF r.ok
               THEN /\ db' = emcore_expunge_mails_deleted_flagged_from_local_storage(r.d, box)
                    /\ ghost' = Noted(Expunging(ghost, box), db')
               ELSE UNCHANGED <<db, ghost>>
            /\ UNCHANGED <<threads, run>>

SyncMailboxList ==
    \E net \in BOOLEAN :
        /\ Next1("list") /\ Net(net)
        /\ Leaves(emcore_sync_mailbox_list(db, server, Head(queue).acc, net))
        /\ ghost' = NotedEach(ghost, db')
        /\ UNCHANGED <<threads, run>>
CreateMailbox ==
    \E net \in BOOLEAN :
        /\ Next1("create_box") /\ Net(net)
        /\ Leaves(emcore_create_mailbox_on_server(db, server, Head(queue).acc, Head(queue).name, "user", net))
        /\ UNCHANGED <<threads, run, ghost>>
\* Mails that are left without a mailbox are noted.
DeleteMailboxOnServer ==
    \E net \in BOOLEAN :
        LET box == Head(queue).box
            r == IF net THEN emcore_delete_mailbox(db, server, box, TRUE, net) ELSE Failed(db, server)
        IN  /\ Next1("delete_box") /\ Net(net)
            /\ Leaves(r)
            /\ ghost' = [ghost EXCEPT !.strays = @ \cup {m.id : m \in {m \in r.d.mail : r.ok /\ m.box = box}}]
            /\ UNCHANGED <<threads, run>>
RenameMailboxOnServer ==
    \E net \in BOOLEAN :
        LET e == Head(queue) IN
        /\ Next1("rename_box") /\ Net(net)
        /\ Leaves(emcore_move_mailbox_on_imap_server(db, server, e.acc, e.old, e.new, net))
        /\ UNCHANGED <<threads, run, ghost>>
SetSlotSize ==
    LET e == Head(queue) IN
    /\ Next1("slot")
    /\ db' = emcore_set_mail_slot_size(db, e.acc, e.box, e.size)
    /\ ghost' = NotedEach(ghost, db')
    /\ UNCHANGED <<server, threads, run, work>>
\* An account whose mailboxes cannot be listed is deleted again.
ValidateAndCreateAccount ==
    \E net \in BOOLEAN :
        LET e == Head(queue)
            acc == NextId(db.account)
            made == emcore_create_account(db, e.user, e.kind)
            listed == IF e.kind = "imap" THEN emcore_sync_mailbox_list(made, server, acc, net) ELSE Done(made, server)
        IN  /\ Next1("create_account") /\ Net(net)
            /\ db' = IF ~net THEN db ELSE IF listed.ok THEN listed.d ELSE emcore_delete_account(listed.d, acc)
            /\ ghost' = NotedEach(ghost, db')
            /\ UNCHANGED <<server, threads, run>>

-----------------------------------------------------------------------------
(* email-core-event.c, email-core-mailbox-sync.c: SYNC_HEADER *)

AccountOf(acc) == The(emstorage_get_account_by_id(db, acc))
Unsynced == {"all", "trash"}
ListOf(acc) == ByType({b \in Range(emstorage_get_mailbox_list(db, acc, {FALSE})) : b.type \notin Unsynced})
\* The rows of the mailboxes, that of the spam mailbox too, are read once; the
\* rules are read for each mailbox.  new tells of unread messages in the
\* mailboxes that are over, unread in the one that is begun.
Syncing(accounts, boxes, new, whole) ==
    [op |-> "sync", accounts |-> accounts, boxes |-> boxes, new |-> new, whole |-> whole, unread |-> FALSE,
     todo |-> <<>>, sel |-> {}, rules |-> {},
     spam |-> emstorage_get_mailbox_by_mailbox_type(db, accounts[1], "spam")]

\* One mailbox; or, with box = 0, those of one or all accounts.
BeginSync ==
    \E net \in BOOLEAN :
        LET e == Head(queue)
            found == emstorage_get_mailbox_by_id(db, e.box)
            accounts == IF e.acc = 0 THEN IdsOf(emstorage_get_account_list(db)) ELSE <<e.acc>>
        IN  /\ Next1("sync") /\ Net(net)
            /\ IF \/ ~net \/ accounts = <<>> \/ (e.box # 0 /\ found = {})
                  \/ (e.box = 0 /\ e.acc # 0 /\ ~Known(db, e.acc))
               THEN UNCHANGED <<db, run>>
               ELSE /\ db' = emstorage_update_sync_status_of_account(db, e.acc, "set", {"syncing"})
                    /\ run' = Syncing(accounts, IF e.box = 0 THEN ListOf(accounts[1]) ELSE <<The(found)>>,
                                      FALSE, e.box = 0)
            /\ UNCHANGED <<server, threads, ghost>>

InSync == run.op = "sync"
Selected == run.sel # {}
\* emcore_sync_header up to the first message: what the server has not any
\* more is deleted, what is new is listed.
BeginMailbox ==
    \E net \in BOOLEAN :
        LET b == Head(run.boxes)
            sel == emcore_connect_to_remote_mailbox(db, server, b.acc, b.id, net)
            at == The(sel)
            a == AccountOf(b.acc)
            counted == emstorage_update_mailbox_total_count(db, b.acc, b.id, Cardinality(FolderOf(server, at).msgs))
        IN  /\ InSync /\ ~Selected /\ run.boxes # <<>>
            /\ Net(net)
            /\ IF sel = {} \/ (b.local /\ Kind(db, b.acc) = "imap")
               THEN /\ run' = [run EXCEPT !.boxes = <<>>]
                    /\ db' = emcore_remove_overflowed_mails(db, b.acc, b.id, b.slot)
                    /\ ghost' = Noted(ghost, db')
                    /\ UNCHANGED server
               ELSE /\ db' = DeleteMissing(counted, server, at, a, b)
                    /\ ghost' = NotedEach(ghost, db')
                    /\ server' = MarkRead(counted, server, at, a, b)
                    /\ run' = [run EXCEPT !.sel = sel, !.rules = emstorage_get_rule(db, 0),
                                   !.todo = emcore_get_uids_to_download(counted, server, at, a, b)]
            /\ UNCHANGED <<queue, threads>>

\* A message that cannot be read or checked ends the synchronisation of its
\* mailbox, and of the mailboxes behind; of all mailboxes together then those
\* messages are not told that came before it.
Unreadable(msg) == msg \in Garbled \/ Checked(run.rules, run.spam, msg) = "failed"
Ended == [run EXCEPT !.todo = <<>>, !.boxes = <<Head(@)>>, !.unread = @ /\ ~run.whole]
\* A message that is gone, or does not come, is skipped, unless its envelope came
\* and its header does not; one that a rule files in the spam mailbox is moved
\* there on the server, and if it cannot be the synchronisation ends.
FetchMessage ==
    \E net, envelope \in BOOLEAN :
        LET x == Head(run.todo)
            b == Head(run.boxes)
            there == net /\ MessagesOf(server, The(run.sel), {x.uid}) # {}
            spam == IF Checked(run.rules, run.spam, x.msg) = "matched" THEN run.spam ELSE {}
            to == IF spam = {} THEN b ELSE The(spam)
            added == emcore_add_mail_to_mailbox(db, to, x.msg, x.uid, x.seen)
            r == IF spam # {} /\ Kind(db, b.acc) = "imap"
                 THEN emcore_move_mail_on_server(added, server, b.acc, b.id, db.next, to.name, net)
                 ELSE Done(added, server)
        IN  /\ InSync /\ Selected /\ run.todo # <<>>
            /\ Net(net)
            /\ IF ~Known(db, b.acc) \/ ~there \/ Unreadable(x.msg)
               THEN /\ run' = IF Known(db, b.acc) /\ ~there /\ ~envelope THEN [run EXCEPT !.todo = Tail(@)] ELSE Ended
                    /\ UNCHANGED <<db, server, ghost>>
               ELSE /\ Leaves(r)
                    /\ run' = IF r.ok THEN [run EXCEPT !.todo = Tail(@), !.unread = @ \/ (spam = {} /\ ~x.seen)]
                              ELSE Ended
                    /\ ghost' = [ghost EXCEPT !.strays = IF to \in db.box THEN @ ELSE @ \cup {db.next},
                                              !.filed = IF spam = {} THEN @ ELSE @ \cup {x.msg}]
            /\ UNCHANGED <<queue, threads>>

\* The mailbox is trimmed to the slot it had when its row was read.
EndMailbox ==
    LET b == Head(run.boxes) IN
    /\ InSync /\ Selected /\ run.todo = <<>>
    /\ db' = emcore_remove_overflowed_mails(db, b.acc, b.id, b.slot)
    /\ run' = [run EXCEPT !.sel = {}, !.boxes = Tail(@), !.new = @ \/ run.unread, !.unread = FALSE, !.rules = {}]
    /\ ghost' = Noted(ghost, db')
    /\ UNCHANGED <<server, queue, threads, work>>

\* The account's turn is over; of the next the mailboxes are listed now.
EndAccount ==
    LET acc == Head(run.accounts)
        rest == Tail(run.accounts)
        told == IF run.new THEN emstorage_update_sync_status_of_account(db, acc, "union", {"new"}) ELSE db
    IN  /\ InSync /\ ~Selected /\ run.boxes = <<>>
        /\ db' = emcore_finalize_sync(told, acc)
        /\ run' = IF rest = <<>> THEN Idle ELSE Syncing(rest, ListOf(rest[1]), run.new, run.whole)
        /\ UNCHANGED <<server, queue, threads, work, ghost>>

-----------------------------------------------------------------------------
(* email-core-mail.c: emcore_download_body_multi_sections_bulk *)

\* The message is found by the mail's uid in the folder of its mailbox.
BeginBody ==
    \E net \in BOOLEAN :
        LET found == emstorage_get_mail_by_id(db, Head(queue).id)
            at == Located(db, server, The(found), net)
            x == The(MessagesOf(server, The(at), {(The(found)).suid}))
        IN  /\ Next1("body") /\ Net(net)
            /\ run' = IF found = {} \/ (The(found)).body # 0 \/ at = {} THEN Idle
                      ELSE [op |-> "body", acc |-> (The(found)).acc, id |-> Head(queue).id, msg |-> x.msg]
            /\ UNCHANGED <<db, server, threads, ghost>>
\* The mail is read again; the directory is made and the row is updated.
StoreBody ==
    LET found == emstorage_get_mail_by_id(db, run.id)
        m == The(found)
        made == emstorage_create_dir(db, run.acc, run.id)
        attached == IF run.msg \in Attached /\ emstorage_get_attachment_count(db, run.id) = 0
                    THEN emstorage_add_attachment(made, run.acc, m.box, run.id) ELSE made
    IN  /\ run.op = "body"
        /\ db' = IF found = {} THEN db
                 ELSE emstorage_change_mail_field(attached, run.id, "body", run.msg)
        /\ run' = Idle
        /\ UNCHANGED <<server, queue, threads, work, ghost>>

-----------------------------------------------------------------------------
(* other clients, and the end of the daemon *)

Outside == /\ work.outside > 0 /\ work' = [work EXCEPT !.outside = @ - 1]
           /\ UNCHANGED <<db, queue, threads, run, ghost>>
Selections == UNION {{[user |-> u, folder |-> f] : f \in Folders(server, u)} : u \in DOMAIN server}
AllMessages(s) == UNION {UNION {s[u][f].msgs : f \in DOMAIN s[u]} : u \in DOMAIN s}
Arrive == /\ Outside
          /\ \E sel \in Selections, msg \in Incoming :
                LET f == FolderOf(server, sel) IN
                /\ sel.folder = "INBOX" /\ \A x \in AllMessages(server) : x.msg # msg
                /\ server' = SetFolder(server, sel, [next |-> f.next + 1,
                        msgs |-> f.msgs \cup {[uid |-> f.next, msg |-> msg, seen |-> FALSE, del |-> FALSE]}])
ChangedElsewhere == /\ Outside
                    /\ \E sel \in Selections : \E x \in FolderOf(server, sel).msgs :
                        \/ server' = Store(server, sel, {x.uid}, "deleted", TRUE)
                        \/ server' = SetMessages(server, sel, FolderOf(server, sel).msgs \ {x})

\* mail and mailbox ids, the flags of a synchronisation and the uids stay.
Restart == /\ work.faults > 0 /\ work' = [work EXCEPT !.faults = @ - 1, !.faulted = TRUE]
           /\ queue # <<>> \/ threads # {} \/ run # Idle
           /\ queue' = <<>> /\ threads' = {} /\ run' = Idle
           /\ UNCHANGED <<db, server, ghost>>

-----------------------------------------------------------------------------
UserCall == \/ DeleteMail \/ DeleteMailThread \/ DeleteMailAll \/ MoveMail \/ MoveMailAll
            \/ MoveMailThread \/ ModifyFlag \/ SetFlagsField \/ ModifySeenFlagOfThread
            \/ ExpungeMails \/ AddMail \/ UpdateMail \/ ChangeAttachments \/ DownloadBody
            \/ SyncHeader \/ GetImapMailboxList \/ SetMailSlotSize \/ AddMailbox \/ DeleteMailbox
            \/ RenameMailbox \/ SetMailboxType \/ CreateAccount \/ DeleteAccount
            \/ UpdateAccount \/ AddRule \/ UpdateRule \/ DeleteRule
Thread == \E t \in threads : thread_func_to_delete_mail(t) \/ thread_func_to_move_mail(t)
Receive == \/ DeleteMailOnServer \/ DeleteMailAllOnServer \/ MoveMailOnServer \/ SyncFlagOnServer
           \/ SyncFlagsFieldOnServer \/ ExpungeOnServer \/ SyncMailboxList \/ CreateMailbox
           \/ DeleteMailboxOnServer \/ RenameMailboxOnServer \/ SetSlotSize \/ ValidateAndCreateAccount
           \/ BeginSync \/ BeginMailbox \/ FetchMessage \/ EndMailbox \/ EndAccount
           \/ BeginBody \/ StoreBody
Environment == Arrive \/ ChangedElsewhere \/ Restart
Next == \/ (UserCall \/ Thread \/ Environment) /\ undisturbed' = FALSE
        \/ Receive /\ undisturbed' = (/\ run'.op = "sync" /\ run'.sel # {} /\ work' = work
                                      /\ run.sel = {} \/ (undisturbed /\ server' = server))

Spec == Init /\ [][Next]_vars

-----------------------------------------------------------------------------
(* properties *)

\* The type invariant: rows name rows that were there, ids are not shared.
TypeOK == Typed(db, DOMAIN server) /\ run.op \in {"idle", "sync", "body"}

SlotsOf(box) == {b.slot : b \in emstorage_get_mailbox_by_id(db, box) \cup emstorage_get_mailbox_by_id(db', box)}
                \cup (IF run.op = "sync" THEN {b.slot : b \in {b \in Range(run.boxes) : b.id = box}} ELSE {})
OverSlot(m) ==
    LET later == {k \in db.mail \cup db'.mail : k.box = m.box /\ (k.msg > m.msg \/ (k.msg = m.msg /\ k.id < m.id))}
    IN  \E n \in SlotsOf(m.box) : Cardinality({k.id : k \in later}) >= n
\* A folder that an account has a mailbox for shows the message among its newest.
Shown(msg) ==
    \E a \in db.account, b \in db.box :
        /\ b.acc = a.id /\ b.name \in Folders(server, a.user)
        /\ \E x \in Range(Newest(server, [user |-> a.user, folder |-> b.name], b.slot)) : x.msg = msg
\* A mail leaves the database only when it was asked for, is marked deleted,
\* is beyond the slot of its mailbox, or the server has its message no more.
MailsAreKept ==
    [][\A m \in db.mail :
          \/ \E k \in db'.mail : k.id = m.id
          \/ m.id \in ghost'.mails \/ m.acc \in ghost'.accounts \/ m.deleted
          \/ OverSlot(m) \/ (m.suid # 0 /\ ~Shown(m.msg)) \/ m.msg \in ghost.moved \cup ghost.filed]_vars

\* The mails of this mailbox that are marked deleted here go on the server with an expunge.
ExpungedWith(x) ==
    /\ queue # <<>> /\ Head(queue).op = "expunge"
    /\ \E m \in db.mail : m.deleted /\ m.box = Head(queue).box /\ m.msg = x.msg
\* A message leaves the server only when its mail or mailbox was to be
\* deleted there, when it was marked deleted there or, before an expunge,
\* here, or by another client.
MessagesAreKept ==
    [][\A u \in DOMAIN server : \A f \in Folders(server, u) : \A x \in server[u][f].msgs :
          \/ \E y \in AllMessages(server') : y.msg = x.msg
          \/ x.msg \in ghost.msgs \/ x.del \/ ExpungedWith(x) \/ work'.outside # work.outside
          \/ \E b \in db.box : b.id \in ghost.boxes /\ b.name = f
          \/ ghost.boxes # {} /\ x.msg \in ghost.moved]_vars

\* At such a message the synchronisation of mailbox b ends: it cannot be read
\* or checked, or a rule has it filed where the server has no folder.
Stops(msg, b) ==
    \/ Unreadable(msg)
    \/ /\ Checked(run.rules, run.spam, msg) = "matched" /\ Kind(db, b.acc) = "imap"
       /\ (The(run.spam)).name \notin Folders(server, (AccountOf(b.acc)).user)
\* A synchronisation that nothing disturbed leaves a row for every message it
\* was shown, from the newest to the first that stops it, and, on IMAP, no mail
\* that the mailbox does not show.
SyncMirrors ==
    InSync /\ Selected /\ run.todo = <<>> /\ undisturbed =>
        LET b == Head(run.boxes)
            imap == Kind(db, b.acc) = "imap"
            listed == Range(Newest(server, The(run.sel), b.slot))
            shown == {x.uid : x \in listed}
            HasRow(x) == \E r \in db.uid : r.acc = b.acc /\ (imap => r.box = b.id) /\ r.suid = x.uid
            Apart(m) == m.msg \in ghost.moved \cup ghost.filed \/ m.id \in ghost.strays
        IN  /\ \A x \in listed : HasRow(x) \/ \E y \in listed : y.uid >= x.uid /\ ~HasRow(y) /\ Stops(y.msg, b)
            /\ imap => \A m \in db.mail : m.acc = b.acc /\ m.box = b.id /\ m.suid # 0 /\ ~Apart(m) => m.suid \in shown

\* The row of a mail has the uid that the mail has, and says where it is.
RowsTellTheUid ==
    \A m \in {m \in db.mail : m.msg \notin ghost.filed} : m.suid # 0 /\ Known(db, m.acc) /\ Kind(db, m.acc) = "imap" =>
        \E r \in db.uid : /\ r.luid = m.id /\ r.suid = m.suid
                          /\ r.acc = m.acc /\ (m.msg \notin ghost.moved /\ m.id \notin ghost.strays => r.box = m.box)

\* A thread shows one mail, the latest it lists, with the number of those.
ThreadHasOneHead ==
    \A t \in {m.thread : m \in db.mail} \ ghost.headless :
        LET listed == ListedIn(db, t) IN
        listed # {} => \E h \in listed : /\ IsLatest(h, listed) /\ h.items = Cardinality(listed)
                                         /\ \A m \in listed \ {h} : m.items = 0

\* Deleting a mail takes no file and no meeting of another that stays.
FilesStay ==
    [][\A m \in db.mail :
          \/ m.acc \in ghost'.wiped \/ ~\E k \in db'.mail : k.id = m.id
          \/ /\ \A f \in db.dir : f.mail = m.id => f \in db'.dir
             /\ \A a \in db.meet : a.mail = m.id => \E b \in db'.meet : b.mail = m.id]_vars

\* The mailbox of a mail is there, of its account, with the name and type the mail has.
MailsHaveTheirMailbox == Housed(db, ghost.strays)

\* When the daemon has nothing left to do, a message whose mail alone was
\* to be deleted on the server is not shown by it any more.
AtRest == queue = <<>> /\ threads = {} /\ run = Idle
DeletionReachesServer ==
    AtRest /\ ~work.faulted =>
        \A e \in ghost.single :
            e.msg \notin ghost.moved \cup ghost.filed /\ e.id \notin ghost.strays => ~Shown(e.msg)
=============================================================================
