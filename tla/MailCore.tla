------------------------------ MODULE MailCore ------------------------------
(***************************************************************************)
(* What the functions of email-core do to the tables of MailStore without  *)
(* a server: deleting, moving, filing and flagging mails, mailboxes,       *)
(* slots, rules and accounts.  An operator gives the database that its     *)
(* function leaves; a function that fails half way leaves what it did.     *)
(***************************************************************************)
EXTENDS MailStore

\* The accounts in memory are read again after every change of the table.
emcore_get_account_reference(d, acc) == emstorage_get_account_by_id(d, acc)
Known(d, acc) == emcore_get_account_reference(d, acc) # {}
Kind(d, acc) == (CHOOSE a \in emcore_get_account_reference(d, acc) : TRUE).kind
The(rows) == CHOOSE r \in rows : TRUE

-----------------------------------------------------------------------------
(* email-core-mail.c *)

\* What goes with the mails: attachments, directories, meetings.
Clean(d, acc, mails) ==
    emstorage_delete_meeting_request(
        emstorage_delete_dir(emstorage_delete_all_attachments_of_mail(d, mails), acc, mails), acc, mails)
\* Mutant: the thread of a mail that goes gets no new head.
DeleteWithoutHead(d, acc, ids) ==
    Clean(emstorage_delete_multiple_mails(d, ids), acc,
          {m.id : m \in emstorage_get_mail_field_by_multiple_mail_id(d, ids)})
\* The records are read first.  A mail that is gone has a zero record, whose
\* id then stands for every directory and every meeting of the account.
emcore_delete_mails_from_local_storage(d, acc, ids) ==
    LET records == emstorage_get_mail_field_by_multiple_mail_id(d, ids)
        heads == {m \in records : m.items > 1}
    IN  Clean(emstorage_update_latest_thread_mail(emstorage_delete_multiple_mails(d, ids), acc,
                                                  {m.thread : m \in heads}),
              acc, {m.id : m \in records})

\* emcore_delete_mail with EMAIL_DELETE_LOCALLY.
emcore_delete_mail(d, acc, ids) ==
    IF ids = {} \/ ~Known(d, acc) THEN d ELSE emcore_delete_mails_from_local_storage(d, acc, ids)

\* The mails of a mailbox are searched by its name.
MailsByName(d, b) == {m \in d.mail : m.acc = b.acc /\ m.name = b.name}
emcore_delete_all_mails_of_mailbox(d, box) ==
    LET found == emstorage_get_mailbox_by_id(d, box)
    IN  IF found = {} THEN d
        ELSE emcore_delete_mail(d, The(found).acc, {m.id : m \in MailsByName(d, The(found))})

\* Every record's thread gets a head again, all in the account of the first.
emcore_move_mail(d, ids, target) ==
    LET records == {m \in d.mail : m.id \in ids}
        moved == emstorage_move_multiple_mails(d, target, ids)
    IN  IF records = {} THEN moved
        ELSE emstorage_update_latest_thread_mail(moved, The(FirstOf(records)).acc, {m.thread : m \in records})

DeletedFlagged(d, box) == {m.id : m \in {m \in d.mail : m.box = box /\ m.deleted}}
emcore_expunge_mails_deleted_flagged_from_local_storage(d, box) ==
    LET found == emstorage_get_mailbox_by_id(d, box) IN
    IF found = {} \/ DeletedFlagged(d, box) = {} THEN d
    ELSE emcore_delete_mails_from_local_storage(d, The(found).acc, DeletedFlagged(d, box))

emcore_set_flags_field(d, acc, ids, field, value) ==
    emstorage_set_field_of_mails_with_integer_value(d, acc, ids, field, value)
emcore_modify_flag(d, id, seen) == emstorage_change_mail_field(d, id, "seen", seen)

emcore_mail_add_attachment_data(d, id) ==
    LET found == emstorage_get_mail_by_id(d, id) IN
    IF found = {} THEN d
    ELSE emstorage_create_dir(emstorage_add_attachment(d, The(found).acc, The(found).box, id),
                              The(found).acc, id)
emcore_delete_mail_attachment(d, att) == emstorage_delete_attachment_on_db(d, att)

\* An edited mail: the file of the new body, the attachments, the row, a
\* meeting that is new.  An attachment whose file has another name than its row
\* is deleted and added; 0 is a new one.  The subject and the date, which
\* threads are made of, are taken to stay.
Attach(id, d, a) ==
    emcore_mail_add_attachment_data(IF a = 0 THEN d ELSE emcore_delete_mail_attachment(d, a), id)
Attaching == INSTANCE Iterate WITH Step <- Attach
emcore_update_mail(d, acc, id, body, atts, meeting) ==
    LET found == emstorage_get_mail_by_id(d, id)
        filed == emstorage_change_mail_field(Attaching!Over(id, emstorage_create_dir(d, acc, id), atts), id,
                                             "body", body)
    IN  IF ~Known(d, acc) THEN d
        ELSE IF ~meeting \/ found = {} \/ emstorage_get_meeting_request(d, id) # {} THEN filed
        ELSE emstorage_add_meeting_request(filed, acc, The(found).box, id)

FilterAccount(rule, d, a) ==
    LET spam == emstorage_get_mailbox_by_mailbox_type(d, a.id, "spam") IN
    IF spam = {} THEN d ELSE emstorage_filter_mails_by_rule(d, a.id, The(spam).id, rule)
Filtering == INSTANCE Iterate WITH Step <- FilterAccount
emcore_mail_filter_by_rule(d, rule) == Filtering!Over(rule, d, emstorage_get_account_list(d))

-----------------------------------------------------------------------------
(* email-core-mailbox-sync.c and email-core-smtp.c: a new mail *)

\* The rules are compared ordered by their type, those for the body last, and
\* the first that is for the body is an error.
emcore_check_rule(rules, msg) ==
    CASE Sender[msg] = NoName \/ Subject[msg] = NoName -> "failed"
      [] OTHER -> IF \E r \in rules : RuleHits(r, msg) THEN "matched"
                  ELSE IF \E r \in rules : r.type = "body" THEN "failed" ELSE "none"
\* It is called only where there are rules and a spam mailbox.
Checked(rules, spam, msg) == IF rules = {} \/ spam = {} THEN "none" ELSE emcore_check_rule(rules, msg)

NewMail(d, b, msg, suid, seen) ==
    [NoMail EXCEPT !.id = emstorage_increase_mail_id(d), !.acc = b.acc, !.box = b.id, !.name = b.name,
                   !.type = b.type, !.suid = suid, !.seen = seen, !.msg = msg]
\* In the thread it belongs to, or in a thread of its own.
Threaded(d, row) ==
    LET found == emstorage_get_thread_id_of_thread_mails(d, row)
        alone == found.thread = -1
        added == emstorage_add_mail(d, [row EXCEPT !.thread = IF alone THEN row.id ELSE found.thread,
                                                   !.items = IF alone THEN 1 ELSE 0])
    IN  IF alone THEN added
        ELSE emstorage_update_latest_thread_mail(added, row.acc, {found.thread})
\* b is the row of the mailbox as the caller read it.
emcore_add_mail_to_mailbox(d, b, msg, suid, seen) ==
    LET row == NewMail(d, b, msg, suid, seen)
    IN  emstorage_add_downloaded_mail(Threaded(d, row), b.acc, b.id, b.name, row.id, suid)

emcore_remove_overflowed_mails(d, acc, box, slot) ==
    emcore_delete_mail(d, acc, emstorage_get_overflowed_mail_id_list(d, acc, box, slot))

\* A mail that an application saves; it has a body at once.
emcore_add_mail(d, acc, box, msg, attached, meeting) ==
    LET spam == emstorage_get_mailbox_id_by_mailbox_type(d, acc, "spam")
        checked == Checked(emstorage_get_rule(d, 0), spam, msg)
        target == IF checked = "matched" THEN The(spam) ELSE box
        b == The(emstorage_get_mailbox_by_id(d, target))
        row == [NewMail(d, b, msg, 0, TRUE) EXCEPT !.body = msg]
        added == Threaded(emstorage_create_dir(d, acc, row.id), row)
        filed == IF attached THEN emstorage_add_attachment(added, acc, b.id, row.id) ELSE added
        met == IF meeting THEN emstorage_add_meeting_request(filed, acc, b.id, row.id) ELSE filed
    IN  IF ~Known(d, acc) \/ checked = "failed" \/ emstorage_get_mailbox_by_id(d, target) = {} THEN d
        ELSE emcore_remove_overflowed_mails(met, b.acc, b.id, b.slot)

-----------------------------------------------------------------------------
(* email-core-imap-mailbox.c and email-core-mailbox.c *)

\* Mailbox 0 sets the default of the account and every mailbox of it; size 0
\* grows the mailboxes by SlotUnit.
Trim(acc, d, b) == emcore_remove_overflowed_mails(d, acc, b.id, b.slot)
Trimming == INSTANCE Iterate WITH Step <- Trim
emcore_set_mail_slot_size(d, acc, box, size) ==
    LET named == IF box # 0 THEN d
                 ELSE emstorage_set_field_of_accounts_with_integer_value(d, acc, size)
        sized == emstorage_set_mail_slot_size(named, acc, box, size)
        rows == IF box # 0 THEN emstorage_get_mailbox_by_id(sized, box)
                ELSE {b \in sized.box : b.acc = acc}
    IN  IF ~Known(d, acc) THEN d ELSE Trimming!Over(acc, sized, ById(rows))

Fixed == {"INBOX", "Draft", "Outbox", "Sentbox"}
emcore_create_mailbox(d, acc, name, type, local) ==
    emstorage_add_mailbox(d, acc, name, type, local, name \notin Fixed)
emcore_delete_mailbox_all(d, b) ==
    emstorage_delete_mailbox(emcore_delete_all_mails_of_mailbox(d, b.id), b.acc, Both, b.id)

-----------------------------------------------------------------------------
(* email-core-account.c *)

DefaultMailboxes == <<[name |-> "INBOX", type |-> "inbox"], [name |-> "Draft", type |-> "draft"],
                      [name |-> "Outbox", type |-> "outbox"], [name |-> "Sentbox", type |-> "sentbox"],
                      [name |-> "Trash", type |-> "trash"], [name |-> "Spambox", type |-> "spam"]>>
CreateDefault(acc, d, b) == emcore_create_mailbox(d, acc, b.name, b.type, b.name # "INBOX")
Creating == INSTANCE Iterate WITH Step <- CreateDefault
\* An IMAP account gets its mailboxes from the server.
emcore_create_account(d, user, kind) ==
    LET added == emstorage_add_account(d, user, kind, DefaultSlot)
    IN  IF kind = "imap" THEN added ELSE Creating!Over(NextId(d.account), added, DefaultMailboxes)

\* The flags of all accounts together tell whether there is new mail to alert of.
emcore_finalize_sync(d, acc) ==
    LET over == emstorage_update_sync_status_of_account(d, acc, "minus", {"syncing"}) IN
    IF emstorage_get_sync_status_of_account(over, 0) # {"new"} THEN over
    ELSE emstorage_update_sync_status_of_account(over, acc, "minus", {"new"})

emcore_delete_all_mails_of_acount(d, acc) ==
    emstorage_delete_meeting_request(
        emstorage_delete_dir(
            emstorage_delete_attachment_all_on_db(emstorage_delete_mail_by_account(d, acc), acc), acc, {0}),
        acc, {0})
\* The rules and the certificates stay.
emcore_delete_account(d, acc) ==
    LET gone == emstorage_delete_mailbox(
                    emcore_delete_all_mails_of_acount(emstorage_delete_account(d, acc), acc), acc, Both, 0)
    IN  [gone EXCEPT !.uid = {u \in @ : u.acc # acc}]
=============================================================================
