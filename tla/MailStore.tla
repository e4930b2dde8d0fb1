----------------------------- MODULE MailStore -----------------------------
(***************************************************************************)
(* The tables of email-storage.c that hold the accounts, mailboxes and     *)
(* mails, and the directory tree beside them.  A database d is a record of *)
(* sets of rows; a function of email-storage.c is an operator that reads   *)
(* d, or gives the d that its statement leaves.  A row is found by what    *)
(* the WHERE clause of the function compares, and by nothing else: whether *)
(* it compares the mailbox's id, its name, or neither, is what the         *)
(* properties of Mail are about.  A mail carries msg, the message it is a  *)
(* copy of; a greater msg is a message of a later date.                    *)
(***************************************************************************)
EXTENDS Integers, Sequences, FiniteSets, SequencesExt, FiniteSetsExt

CONSTANTS Subject,       \* the subject of each message, without "Re:"
          Sender,        \* the sender of each message, NoName if it has none, or none that can be parsed
          DefaultSlot,   \* mails kept of a mailbox
          SlotUnit       \* EMAIL_SLOT_UNIT, what a slot grows by

NoName == ""
\* A row that was calloc'ed and never filled.
NoMail == [id |-> 0, acc |-> 0, box |-> 0, name |-> NoName, type |-> "none", suid |-> 0,
           seen |-> FALSE, deleted |-> FALSE, body |-> 0, thread |-> 0, items |-> 0, msg |-> 0]
NoDownloaded == [acc |-> 0, box |-> 0, name |-> NoName, luid |-> 0, suid |-> 0]
\* mailbox_id of a downloaded row that was set to the text of a name: no number finds it.
NameForId == 0

\* What the tables hold: rows with these columns, each with an id of its own.
HasFields(r, fields) == DOMAIN r = fields /\ r = [f \in fields |-> r[f]]
Table(rows, fields) ==
    /\ IsFiniteSet(rows)
    /\ \A r \in rows : HasFields(r, fields) /\ r.id \in Nat \ {0}
    /\ \A r, q \in rows : r.id = q.id => r = q
Tables(d) ==
    /\ HasFields(d, {"account", "box", "mail", "uid", "att", "meet", "rule", "dir", "next"})
    /\ Table(d.account, {"id", "user", "kind", "slot", "sync"})
    /\ Table(d.box, {"id", "acc", "name", "type", "local", "modifiable", "slot", "total"})
    /\ Table(d.mail, DOMAIN NoMail)
    /\ Table(d.att, {"id", "mail", "acc", "box"})
    /\ Table(d.rule, {"id", "acc", "type", "value"})
    /\ IsFiniteSet(d.uid) /\ \A u \in d.uid : HasFields(u, DOMAIN NoDownloaded)
    /\ \A t \in d.meet : HasFields(t, {"mail", "acc", "box"})
    /\ \A f \in d.dir : HasFields(f, {"acc", "mail"})
    /\ d.next \in Nat \ {0} /\ \A m \in d.mail : m.id < d.next /\ m.msg \in Nat
\* The files and the meeting of a mail are its account's.
Filed(d) ==
    \A f \in d.dir \cup d.meet : /\ f.mail \in Nat /\ f.mail < d.next
                               /\ \A m \in d.mail : m.id = f.mail => m.acc = f.acc

NotThreaded == {"trash", "spam", "all", "search"}   \* NOT IN (3, 5, 7, 8)
Unlisted == {"trash", "spam", "all"}                \* NOT IN (3, 5, 7), where threads get their heads

Update(rows, Where(_), Set(_)) == {IF Where(r) THEN Set(r) ELSE r : r \in rows}
\* ORDER BY: the place of a row is the number of rows before it.
Sorted(rows, Before(_, _)) ==
    [i \in 1..Cardinality(rows) |-> CHOOSE r \in rows : Cardinality({q \in rows : Before(q, r)}) = i - 1]
\* Mutant: the new id is the number of rows and one.
CountedId(rows) == 1 + Cardinality(rows)
NextId(rows) == 1 + Max({0} \cup {r.id : r \in rows})       \* max(rowid) + 1
ById(rows) == Sorted(rows, LAMBDA a, b : a.id < b.id)
ByDate(rows) == Sorted(rows, LAMBDA a, b : a.msg > b.msg \/ (a.msg = b.msg /\ a.id < b.id))
IdsOf(seq) == [i \in DOMAIN seq |-> seq[i].id]
FirstOf(rows) == {r \in rows : \A q \in rows : r.id <= q.id}

-----------------------------------------------------------------------------
(* mail_account_tbl *)

emstorage_get_account_by_id(d, acc) == {a \in d.account : a.id = acc}
emstorage_get_account_list(d) == ById(d.account)
emstorage_add_account(d, user, kind, slot) ==
    [d EXCEPT !.account = @ \cup {[id |-> NextId(@), user |-> user, kind |-> kind,
                                   slot |-> slot, sync |-> {}]}]
\* The mailboxes keep the slots they have.
emstorage_update_account(d, acc, slot) ==
    [d EXCEPT !.account = Update(@, LAMBDA a : a.id = acc, LAMBDA a : [a EXCEPT !.slot = slot])]
\* The account's default slot is the only integer field that is set alone.
emstorage_set_field_of_accounts_with_integer_value(d, acc, slot) ==
    [d EXCEPT !.account = Update(@, LAMBDA a : a.id = acc, LAMBDA a : [a EXCEPT !.slot = slot])]
emstorage_delete_account(d, acc) == [d EXCEPT !.account = {a \in @ : a.id # acc}]

emstorage_get_sync_status_of_account(d, acc) == UNION {a.sync : a \in {a \in d.account : acc \in {0, a.id}}}
\* SET_TYPE_SET, _UNION and _MINUS; acc = 0 is every account.
emstorage_update_sync_status_of_account(d, acc, operator, flags) ==
    LET was == emstorage_get_sync_status_of_account(d, acc)
        now == CASE operator = "set" -> flags
                 [] operator = "union" -> was \cup flags
                 [] operator = "minus" -> was \ flags
    IN  [d EXCEPT !.account = Update(@, LAMBDA a : acc \in {0, a.id},
                                     LAMBDA a : [a EXCEPT !.sync = now])]

-----------------------------------------------------------------------------
(* mail_box_tbl; local_yn = -1 is Both *)

Both == BOOLEAN
emstorage_get_mailbox_by_id(d, box) == {b \in d.box : b.id = box}
emstorage_get_mailbox_by_name(d, acc, locals, name) ==
    FirstOf({b \in d.box : b.acc = acc /\ b.local \in locals /\ b.name = name})
emstorage_get_mailbox_by_mailbox_type(d, acc, type) ==
    FirstOf({b \in d.box : b.acc = acc /\ b.type = type})
emstorage_get_mailbox_id_by_mailbox_type(d, acc, type) ==
    {b.id : b \in emstorage_get_mailbox_by_mailbox_type(d, acc, type)}
TypeOrder == [none |-> 0, inbox |-> 1, sentbox |-> 2, trash |-> 3, draft |-> 4, spam |-> 5,
              outbox |-> 6, all |-> 7, search |-> 8, user |-> 255]
\* The list of an account, sorted by type.
ByType(rows) == Sorted(rows, LAMBDA a, b : TypeOrder[a.type] < TypeOrder[b.type]
                                           \/ (a.type = b.type /\ a.id < b.id))
emstorage_get_mailbox_list(d, acc, locals) == ByType({b \in d.box : b.acc = acc /\ b.local \in locals})
emstorage_get_mailbox_by_modifiable_yn(d, acc) ==
    ById({b \in d.box : b.acc = acc /\ ~b.modifiable})

\* The unique index of the table: account, kind and name.
Taken(d, acc, local, name) == \E b \in d.box : b.acc = acc /\ b.local = local /\ b.name = name
emstorage_add_mailbox(d, acc, name, type, local, modifiable) ==
    IF Taken(d, acc, local, name) THEN d
    ELSE [d EXCEPT !.box = @ \cup {[id |-> NextId(@), acc |-> acc, name |-> name, type |-> type,
                                    local |-> local, modifiable |-> modifiable,
                                    slot |-> DefaultSlot, total |-> 0]}]
emstorage_update_mailbox_modifiable_yn(d, acc, name, modifiable) ==
    [d EXCEPT !.box = Update(@, LAMBDA b : b.acc = acc /\ ~b.local /\ b.name = name,
                             LAMBDA b : [b EXCEPT !.modifiable = modifiable])]
emstorage_set_all_mailbox_modifiable_yn(d, acc, modifiable) ==
    [d EXCEPT !.box = Update(@, LAMBDA b : b.acc = acc, LAMBDA b : [b EXCEPT !.modifiable = modifiable])]
emstorage_update_mailbox_total_count(d, acc, box, total) ==
    [d EXCEPT !.box = Update(@, LAMBDA b : b.acc = acc /\ b.id = box,
                             LAMBDA b : [b EXCEPT !.total = total])]
emstorage_update_mailbox_type(d, acc, locals, name, type) ==
    [d EXCEPT !.box = Update(@, LAMBDA b : b.acc = acc /\ b.local \in locals /\ b.name = name,
                             LAMBDA b : [b EXCEPT !.type = type]),
              !.mail = Update(@, LAMBDA m : m.acc = acc /\ m.name = name,
                              LAMBDA m : [m EXCEPT !.type = type])]
\* The rows of mail_read_mail_uid_tbl keep the old name.
emstorage_rename_mailbox(d, box, name) ==
    [d EXCEPT !.box = Update(@, LAMBDA b : b.id = box, LAMBDA b : [b EXCEPT !.name = name]),
              !.mail = Update(@, LAMBDA m : m.box = box, LAMBDA m : [m EXCEPT !.name = name])]
\* box = 0 deletes every mailbox of the account.
emstorage_delete_mailbox(d, acc, locals, box) ==
    [d EXCEPT !.box = {b \in @ : ~(b.acc = acc /\ b.local \in locals /\ box \in {0, b.id})}]
\* A size above 0 is set; 0 grows the mailboxes the server has more mails of.
emstorage_set_mail_slot_size(d, acc, box, size) ==
    LET Found(b) == acc = 0 \/ (IF box # 0 THEN b.id = box ELSE b.acc = acc)
    IN  [d EXCEPT !.box =
            IF size > 0
            THEN Update(@, Found, LAMBDA b : [b EXCEPT !.slot = size])
            ELSE Update(@, LAMBDA b : Found(b) /\ (size = 0 => b.total > b.slot),
                        LAMBDA b : [b EXCEPT !.slot = @ + (IF size = 0 THEN SlotUnit ELSE -size)])]

-----------------------------------------------------------------------------
(* mail_tbl *)

emstorage_get_mail_by_id(d, id) == {m \in d.mail : m.id = id}
\* The mailbox is not compared, and the first row is taken.
emstorage_get_maildata_by_servermailid(d, acc, suid) ==
    FirstOf({m \in d.mail : m.acc = acc /\ m.suid = suid})
\* One record per id; where no row exists the record stays zero.
emstorage_get_mail_field_by_multiple_mail_id(d, ids) ==
    {m \in d.mail : m.id \in ids} \cup (IF ids \subseteq {m.id : m \in d.mail} THEN {} ELSE {NoMail})

emstorage_increase_mail_id(d) == d.next
\* row.id is d.next; ids are not used again.
emstorage_add_mail(d, row) == [d EXCEPT !.mail = @ \cup {row}, !.next = @ + 1]
\* UPDATE_MAIL, APPEND_BODY and UPDATE_FLAG, each for the one column that differs.
emstorage_change_mail_field(d, id, field, value) ==
    [d EXCEPT !.mail = Update(@, LAMBDA m : m.id = id, LAMBDA m : [m EXCEPT ![field] = value])]
emstorage_set_field_of_mails_with_integer_value(d, acc, ids, field, value) ==
    [d EXCEPT !.mail = Update(@, LAMBDA m : m.id \in ids /\ m.acc = acc,
                              LAMBDA m : [m EXCEPT ![field] = value])]
emstorage_delete_multiple_mails(d, ids) == [d EXCEPT !.mail = {m \in @ : m.id \notin ids}]
emstorage_delete_mail_by_account(d, acc) ==
    [d EXCEPT !.mail = {m \in @ : m.acc # acc}, !.uid = {u \in @ : u.acc # acc}]
\* Mutant: the mails keep the type of the mailbox they came from.
MoveWithoutType(d, target, ids) ==
    [d EXCEPT !.mail = Update(@, LAMBDA m : m.id \in ids,
                              LAMBDA m : [m EXCEPT !.name = target.name, !.box = target.id]),
              !.att = Update(@, LAMBDA a : a.mail \in ids, LAMBDA a : [a EXCEPT !.box = target.id]),
              !.meet = Update(@, LAMBDA t : t.mail \in ids, LAMBDA t : [t EXCEPT !.box = target.id]),
              !.uid = Update(@, LAMBDA u : u.luid \in ids,
                             LAMBDA u : [u EXCEPT !.name = target.name, !.box = target.id])]
\* The account is not compared in any of the four statements.
emstorage_move_multiple_mails(d, target, ids) ==
    [d EXCEPT !.mail = Update(@, LAMBDA m : m.id \in ids,
                              LAMBDA m : [m EXCEPT !.name = target.name, !.type = target.type,
                                                   !.box = target.id]),
              !.att = Update(@, LAMBDA a : a.mail \in ids, LAMBDA a : [a EXCEPT !.box = target.id]),
              !.meet = Update(@, LAMBDA t : t.mail \in ids, LAMBDA t : [t EXCEPT !.box = target.id]),
              !.uid = Update(@, LAMBDA u : u.luid \in ids,
                             LAMBDA u : [u EXCEPT !.name = target.name, !.box = target.id])]
\* Neither the account nor the mailbox is compared.
emstorage_update_server_uid(d, old, new) ==
    [d EXCEPT !.mail = Update(@, LAMBDA m : m.suid = old, LAMBDA m : [m EXCEPT !.suid = new])]

\* Mutant: the last mail that fits is beyond the slot.
FromLast(seq, n) == {seq[i].id : i \in Max({n, 1})..Len(seq)}
Beyond(seq, n) == {seq[i].id : i \in (n + 1)..Len(seq)}
emstorage_get_overflowed_mail_id_list(d, acc, box, slot) ==
    Beyond(ByDate({m \in d.mail : m.acc = acc /\ m.box = box}), slot)
\* What a rule that is for a message compares; one for the body is for none.
RuleHits(rule, msg) == rule.type # "body" /\ rule.value = (IF rule.type = "from" THEN Sender ELSE Subject)[msg]
\* The mails a rule is for; they get the id and the type of the mailbox, not its name.
emstorage_filter_mails_by_rule(d, acc, box, rule) ==
    LET Hit(m) == m.acc = acc /\ m.type \notin {"trash", "spam"} /\ RuleHits(rule, m.msg)
    IN  [d EXCEPT !.mail = Update(@, Hit, LAMBDA m : [m EXCEPT !.box = box, !.type = "spam"])]

-----------------------------------------------------------------------------
(* threads: the newest mail of a thread is its head and has the count *)

\* What emcore_add_mail_to_mailbox asks of a mail it has not added yet.
emstorage_get_thread_id_of_thread_mails(d, row) ==
    LET like == {m \in d.mail : /\ m.acc = row.acc /\ m.type \notin NotThreaded
                                /\ Subject[m.msg] = Subject[row.msg]}
    IN  IF row.type \in NotThreaded \ {"search"} \/ Subject[row.msg] = NoName \/ like = {}
        THEN [thread |-> -1, latest |-> -1, count |-> 0]
        ELSE LET head == ByDate(like)[1]
             IN  [thread |-> head.thread, count |-> Cardinality(like),
                  latest |-> IF head.msg < row.msg THEN head.id ELSE row.id]

InThread(d, acc, thread) == {m \in d.mail : m.acc = acc /\ m.thread = thread}
\* The last row of ORDER BY date_time, rows of one date as they are stored.
IsLatest(m, rows) == \A k \in rows : k.msg < m.msg \/ (k.msg = m.msg /\ k.id <= m.id)
\* latest and count are 0 in every call: they are looked up.  It is called for
\* each of the threads, which share no mail.
ThreadItems(d, acc, threads, m) ==
    LET listed == {k \in InThread(d, acc, m.thread) : k.type \notin Unlisted}
    IN  IF m.thread \notin threads \ {0} \/ m.acc # acc THEN m.items
        ELSE IF m \in listed /\ IsLatest(m, listed) THEN Cardinality(listed) ELSE 0
emstorage_update_latest_thread_mail(d, acc, threads) ==
    [d EXCEPT !.mail = {[m EXCEPT !.items = ThreadItems(d, acc, threads, m)] : m \in @}]

-----------------------------------------------------------------------------
(* mail_read_mail_uid_tbl: which message of the server each mail was made from *)

\* No row is no error: the record is zero.
emstorage_get_downloaded_mail(d, id) ==
    IF \E u \in d.uid : u.luid = id THEN CHOOSE u \in d.uid : u.luid = id ELSE NoDownloaded
\* box = 0 is the whole account, newest row first.
emstorage_get_downloaded_list(d, acc, box) ==
    Sorted({u \in d.uid : u.acc = acc /\ box \in {0, u.box}}, LAMBDA a, b : a.luid < b.luid)
emstorage_add_downloaded_mail(d, acc, box, name, luid, suid) ==
    [d EXCEPT !.uid = @ \cup {[acc |-> acc, box |-> box, name |-> name, luid |-> luid, suid |-> suid]}]
emstorage_remove_downloaded_mail(d, acc, names, suids) ==
    [d EXCEPT !.uid = {u \in @ : ~(u.acc = acc /\ u.name \in names /\ u.suid \in suids)}]
\* The rows of every account and mailbox with that uid.
emstorage_update_read_mail_uid_by_server_uid(d, old, new, name) ==
    [d EXCEPT !.uid = Update(@, LAMBDA u : u.suid = old,
                             LAMBDA u : [u EXCEPT !.suid = new, !.box = NameForId, !.name = name])]
\* The row of one mail, after it was moved to the spam mailbox.
emstorage_update_read_mail_uid(d, id, new, name) ==
    [d EXCEPT !.uid = Update(@, LAMBDA u : u.luid = id,
                             LAMBDA u : [u EXCEPT !.suid = new, !.box = NameForId, !.name = name])]
emstorage_get_id_set_from_mail_ids(d, ids) == {u \in d.uid : u.luid \in ids}

-----------------------------------------------------------------------------
(* mail_attachment_tbl, mail_meeting_tbl and mail_rule_tbl *)

emstorage_get_attachment_list(d, mail) == ById({a \in d.att : a.mail = mail})
emstorage_get_attachment_count(d, mail) == Len(emstorage_get_attachment_list(d, mail))
emstorage_add_attachment(d, acc, box, mail) ==
    [d EXCEPT !.att = @ \cup {[id |-> NextId(@), mail |-> mail, acc |-> acc, box |-> box]}]
emstorage_delete_attachment_on_db(d, att) == [d EXCEPT !.att = {a \in @ : a.id # att}]
emstorage_delete_all_attachments_of_mail(d, mails) == [d EXCEPT !.att = {a \in @ : a.mail \notin mails}]
emstorage_delete_attachment_all_on_db(d, acc) == [d EXCEPT !.att = {a \in @ : a.acc # acc}]

emstorage_add_meeting_request(d, acc, box, mail) ==
    [d EXCEPT !.meet = @ \cup {[mail |-> mail, acc |-> acc, box |-> box]}]
emstorage_get_meeting_request(d, mail) == {t \in d.meet : t.mail = mail}
\* Mutant: the mail is not compared.
DeleteMeetings(d, acc, mails) == [d EXCEPT !.meet = {t \in @ : t.acc # acc}]
\* Called for each of the mails; mail 0 is every meeting of the account.
emstorage_delete_meeting_request(d, acc, mails) ==
    [d EXCEPT !.meet = {t \in @ : ~(t.acc = acc /\ mails \cap {0, t.mail} # {})}]

emstorage_get_rule(d, acc) == {r \in d.rule : r.acc = acc}
emstorage_find_rule(d, rule) == \E r \in d.rule : r.type = rule.type /\ r.value = rule.value
emstorage_add_rule(d, acc, rule) ==
    [d EXCEPT !.rule = @ \cup {[id |-> NextId(@), acc |-> acc, type |-> rule.type, value |-> rule.value]}]
emstorage_change_rule(d, acc, id, rule) ==
    [d EXCEPT !.rule = Update(@, LAMBDA r : r.acc = acc /\ r.id = id,
                              LAMBDA r : [r EXCEPT !.type = rule.type, !.value = rule.value])]
emstorage_delete_rule(d, acc, id) == [d EXCEPT !.rule = {r \in @ : ~(r.acc = acc /\ r.id = id)}]

-----------------------------------------------------------------------------
(* the directories account/mail; mail 0 is the account's, with all below it *)

emstorage_create_dir(d, acc, mail) == [d EXCEPT !.dir = @ \cup {[acc |-> acc, mail |-> mail]}]
emstorage_delete_dir(d, acc, mails) ==
    [d EXCEPT !.dir = {f \in @ : ~(f.acc = acc /\ mails \cap {0, f.mail} # {})}]

-----------------------------------------------------------------------------
(* emstorage_get_mail_list *)

\* The list is of a mailbox, by its id, or of a thread of any account, and
\* leaves out what is marked deleted.
emstorage_get_mail_list(d, acc, box, thread) ==
    ByDate({m \in d.mail : /\ acc \in {0, m.acc} /\ box \in {0, m.box} /\ thread \in {0, m.thread}
                           /\ (0 \in {acc, box} => m.type \notin NotThreaded)
                           /\ ~m.deleted})
=============================================================================
