----------------------------- MODULE MailServer -----------------------------
(***************************************************************************)
(* The mail servers, as the c-client library shows them, and the functions *)
(* of email-core that talk to them.  A server s maps a user to folders; a  *)
(* folder has the next uid and a set of messages; a POP3 user has only an  *)
(* INBOX.  The messages say whose mails they are by their uid alone, which *)
(* is unique in its folder and, on IMAP, not beyond it.  A function here   *)
(* gives [d, s, ok]: the database and server it leaves and whether it      *)
(* succeeded.  net is false when the network does not answer it.           *)
(***************************************************************************)
EXTENDS MailCore

CONSTANTS FolderType     \* the type that a folder's name, or XLIST, says it has

ASSUME FolderTypeAssumption == \A f \in DOMAIN FolderType : FolderType[f] \in DOMAIN TypeOrder

-----------------------------------------------------------------------------
(* c-client and the server behind it *)

Folders(s, user) == DOMAIN s[user]
FolderOf(s, sel) == s[sel.user][sel.folder]
SetFolder(s, sel, f) ==
    [s EXCEPT ![sel.user] = [g \in DOMAIN @ \cup {sel.folder} |-> IF g = sel.folder THEN f ELSE @[g]]]
SetMessages(s, sel, messages) == SetFolder(s, sel, [FolderOf(s, sel) EXCEPT !.msgs = messages])
MessagesOf(s, sel, uids) == {x \in FolderOf(s, sel).msgs : x.uid \in uids}
EmptyFolder(first) == [next |-> first, msgs |-> {}]

Store(s, sel, uids, field, value) ==
    SetMessages(s, sel, Update(FolderOf(s, sel).msgs, LAMBDA x : x.uid \in uids,
                               LAMBDA x : IF field = "seen" THEN [x EXCEPT !.seen = value]
                                          ELSE [x EXCEPT !.del = value]))
\* EXPUNGE takes every message that is marked, UID EXPUNGE those of uids.
Expunge(s, sel) == SetMessages(s, sel, {x \in FolderOf(s, sel).msgs : ~x.del})
UidExpunge(s, sel, uids) ==
    SetMessages(s, sel, {x \in FolderOf(s, sel).msgs : ~(x.del /\ x.uid \in uids)})
\* The uids of the copies follow the order of the originals.
CopyUids(s, sel, dst, uids) ==
    LET sorted == Sorted({x.uid : x \in MessagesOf(s, sel, uids)}, LAMBDA a, b : a < b)
    IN  [i \in DOMAIN sorted |-> [old |-> sorted[i], new |-> FolderOf(s, dst).next + i - 1]]
Copy(s, sel, dst, uids) ==
    LET pairs == CopyUids(s, sel, dst, uids)
        copies == UNION {{[x EXCEPT !.uid = p.new] : p \in {p \in Range(pairs) : p.old = x.uid}} :
                         x \in MessagesOf(s, sel, uids)}
        to == FolderOf(s, dst)
    IN  SetFolder(s, dst, [next |-> to.next + Len(pairs), msgs |-> to.msgs \cup copies])

\* The undeleted messages, newest first.
NewestFirst(messages) == Sorted(messages, LAMBDA a, b : a.uid > b.uid)
mailbox_get_uids(s, sel) == NewestFirst({x \in FolderOf(s, sel).msgs : ~x.del})
Newest(s, sel, n) == SubSeq(mailbox_get_uids(s, sel), 1, Min({n, Len(mailbox_get_uids(s, sel))}))

\* The folders of every user; a uid is of one message of its folder.
Folder(f) ==
    /\ HasFields(f, {"next", "msgs"}) /\ f.next \in Nat /\ IsFiniteSet(f.msgs)
    /\ \A x \in f.msgs : HasFields(x, {"uid", "msg", "seen", "del"}) /\ x.uid \in Nat /\ x.uid < f.next /\ x.msg \in Nat
    /\ \A x, y \in f.msgs : x.uid = y.uid => x = y
Servers(s) ==
    \A u \in DOMAIN s : /\ IsFiniteSet(DOMAIN s[u]) /\ DOMAIN s[u] \subseteq DOMAIN FolderType
                        /\ \A f \in DOMAIN s[u] : Folder(s[u][f])

-----------------------------------------------------------------------------
(* email-core-mailbox.c, email-core-imap-mailbox.c *)

\* What is selected: nothing when the account, the mailbox or its folder is
\* unknown; mailbox 0 is the server's default, INBOX.
emcore_connect_to_remote_mailbox(d, s, acc, box, net) ==
    LET named == IF box = 0 THEN {"INBOX"} ELSE {b.name : b \in emstorage_get_mailbox_by_id(d, box)}
    IN  {[user |-> a.user, folder |-> f] :
            a \in {a \in emcore_get_account_reference(d, acc) : net},
            f \in {f \in named : \E a \in emcore_get_account_reference(d, acc) : f \in Folders(s, a.user)}}

Failed(d, s) == [d |-> d, s |-> s, ok |-> FALSE]
Done(d, s) == [d |-> d, s |-> s, ok |-> TRUE]

emcore_create_mailbox_on_server(d, s, acc, name, type, net) ==
    LET sel == emcore_connect_to_remote_mailbox(d, s, acc, 0, net) IN
    IF sel = {} \/ name \in Folders(s, The(sel).user) THEN Failed(d, s)
    ELSE Done(emcore_create_mailbox(d, acc, name, type, FALSE),
              SetFolder(s, [The(sel) EXCEPT !.folder = name], EmptyFolder(1)))

emcore_delete_imap_mailbox(d, s, box, net) ==
    LET found == emstorage_get_mailbox_by_id(d, box)
        sel == emcore_connect_to_remote_mailbox(d, s, The(found).acc, 0, net)
        user == The(sel).user
    IN  IF \/ found = {} \/ ~Known(d, The(found).acc) \/ Kind(d, The(found).acc) # "imap"
           \/ sel = {} \/ The(found).name \notin Folders(s, user) \ {"INBOX"}
        THEN Failed(d, s)
        ELSE Done(emstorage_delete_mailbox(d, The(found).acc, {FALSE}, box),
                  [s EXCEPT ![user] = [f \in DOMAIN @ \ {The(found).name} |-> @[f]]])

emcore_move_mailbox_on_imap_server(d, s, acc, old, new, net) ==
    LET sel == emcore_connect_to_remote_mailbox(d, s, acc, 0, net)
        folders == s[The(sel).user]
    IN  IF \/ ~Known(d, acc) \/ Kind(d, acc) # "imap" \/ sel = {}
           \/ old \notin DOMAIN folders \/ new \in DOMAIN folders
        THEN Failed(d, s)
        ELSE Done(d, [s EXCEPT ![The(sel).user] = [f \in (DOMAIN @ \ {old}) \cup {new} |->
                                                     IF f = new THEN @[old] ELSE @[f]]])

\* A folder that is known is marked, one that is new gets a mailbox.
emcore_set_sync_imap_mailbox(d, acc, name, type) ==
    IF emstorage_get_mailbox_by_name(d, acc, {FALSE}, name) # {}
    THEN emstorage_update_mailbox_modifiable_yn(d, acc, name, TRUE)
    ELSE emstorage_add_mailbox(d, acc, name, type, FALSE, TRUE)
DefaultTypes == <<"inbox", "sentbox", "trash", "draft", "spam", "outbox">>
DefaultName == [inbox |-> "INBOX", sentbox |-> "Sentbox", trash |-> "Trash", draft |-> "Draft",
                spam |-> "Spambox", outbox |-> "Outbox"]
MarkFolder(acc, d, name) == emcore_set_sync_imap_mailbox(d, acc, name, FolderType[name])
Marking == INSTANCE Iterate WITH Step <- MarkFolder
\* A default mailbox for a type that no folder has; one of that name ends it.
AddMissing(c, r, type) ==
    IF ~r.ok \/ \E f \in c.folders : FolderType[f] = type THEN r
    ELSE IF Taken(r.d, c.acc, TRUE, DefaultName[type]) THEN [r EXCEPT !.ok = FALSE]
    ELSE [r EXCEPT !.d = emstorage_add_mailbox(@, c.acc, DefaultName[type], type, TRUE, TRUE)]
Adding == INSTANCE Iterate WITH Step <- AddMissing
Sweep(acc, d, b) == emcore_delete_mailbox_all(d, b)
Sweeping == INSTANCE Iterate WITH Step <- Sweep
\* The mailboxes that no folder is there for any more are the last to be
\* deleted: once a default mailbox is there, adding it fails, and nothing is.
emcore_sync_mailbox_list(d, s, acc, net) ==
    LET sel == emcore_connect_to_remote_mailbox(d, s, acc, 0, net)
        folders == Folders(s, The(sel).user)
        filled == Adding!Over([acc |-> acc, folders |-> folders],
                              Done(Marking!Over(acc, d, SetToSeq(folders)), s), DefaultTypes)
        swept == Sweeping!Over(acc, filled.d, emstorage_get_mailbox_by_modifiable_yn(filled.d, acc))
    IN  IF ~Known(d, acc) \/ Kind(d, acc) # "imap" \/ sel = {} THEN Failed(d, s)
        ELSE IF ~filled.ok THEN Failed(filled.d, s)
        ELSE Done(emstorage_set_all_mailbox_modifiable_yn(swept, acc, FALSE), s)

-----------------------------------------------------------------------------
(* email-core-mail.c: deleting *)

\* Mutant: the uids are looked up in mail_tbl, which has the mails no more.
DeleteByMailTable(d, s, ids, net) ==
    LET mails == {m \in d.mail : m.id \in Range(ids)}
        sel == emcore_connect_to_remote_mailbox(d, s, (The(mails)).acc, (The(mails)).box, net)
    IN  IF mails = {} \/ sel = {} THEN Failed(d, s)
        ELSE Done(d, Expunge(Store(s, The(sel), {m.suid : m \in mails}, "del", TRUE), The(sel)))

\* One connection, to the mailbox of the last mail's row, for the uids of all.
emcore_delete_mails_from_imap4_server(d, s, ids, net) ==
    LET last == emstorage_get_downloaded_mail(d, ids[Len(ids)])
        sel == emcore_connect_to_remote_mailbox(d, s, last.acc, last.box, net)
        uids == {u.suid : u \in emstorage_get_id_set_from_mail_ids(d, Range(ids))}
    IN  IF sel = {} \/ uids = {} THEN Failed(d, s)
        ELSE Done(d, Expunge(Store(s, The(sel), uids, "del", TRUE), The(sel)))

\* Mail by mail; a mail without a row ends it, one that the server has not is skipped.
DeletePop3(c, r, id) ==
    LET row == emstorage_get_downloaded_mail(r.d, id)
        hit == MessagesOf(r.s, c.sel, {row.suid})
    IN  IF ~r.ok THEN r
        ELSE IF row = NoDownloaded THEN Failed(r.d, r.s)
        ELSE IF hit = {} THEN r
        ELSE Done(emstorage_remove_downloaded_mail(r.d, c.acc, {row.name}, {row.suid}),
                  SetMessages(r.s, c.sel, FolderOf(r.s, c.sel).msgs \ hit))
Deleting == INSTANCE Iterate WITH Step <- DeletePop3
emcore_delete_mails_from_pop3_server(d, s, acc, ids, net) ==
    LET first == emstorage_get_downloaded_mail(d, ids[1])
        sel == emcore_connect_to_remote_mailbox(d, s, acc, first.box, net)
    IN  IF first = NoDownloaded \/ sel = {} THEN Failed(d, s)
        ELSE Deleting!Over([acc |-> acc, sel |-> The(sel)], Done(d, s), ids)

emcore_delete_mails_from_remote_server(d, s, acc, ids, net) ==
    IF ~Known(d, acc) \/ ids = <<>> \/ ~net THEN Failed(d, s)
    ELSE IF Kind(d, acc) = "imap" THEN emcore_delete_mails_from_imap4_server(d, s, ids, net)
    ELSE emcore_delete_mails_from_pop3_server(d, s, acc, ids, net)

\* emcore_delete_mailbox: on the server the mails of the mailbox are deleted
\* there only; a folder that could not be deleted is no error.
emcore_delete_mailbox(d, s, box, on_server, net) ==
    LET found == emstorage_get_mailbox_by_id(d, box)
        b == The(found)
        emptied == IF on_server THEN emcore_delete_mails_from_remote_server(d, s, b.acc, IdsOf(ById(MailsByName(d, b))), net)
                   ELSE Done(emcore_delete_all_mails_of_mailbox(d, box), s)
        gone == IF on_server THEN emcore_delete_imap_mailbox(emptied.d, emptied.s, box, net) ELSE emptied
    IN  IF found = {} THEN Failed(d, s)
        ELSE Done(emstorage_delete_mailbox(gone.d, b.acc, Both, box), gone.s)

\* What is marked deleted here is deleted there, and emcore_delete_mail does
\* not tell whether that succeeded; no such mail, or no account, is an error.
emcore_expunge_mails_deleted_flagged_from_remote_server(d, s, acc, box, net) ==
    LET ids == IdsOf(ById({m \in d.mail : m.id \in DeletedFlagged(d, box)}))
        r == emcore_delete_mails_from_remote_server(d, s, acc, ids, net)
    IN  IF ids = <<>> \/ ~Known(d, acc) THEN Failed(d, s) ELSE Done(r.d, r.s)

-----------------------------------------------------------------------------
(* email-core-mail.c: moving and flags *)

\* mail_copyuid_ex is called for the pairs one after the other, and each
\* changes the mails and rows that have the old uid by then.
CopyUid(name, d, pair) ==
    emstorage_update_read_mail_uid_by_server_uid(emstorage_update_server_uid(d, pair.old, pair.new),
                                                 pair.old, pair.new, name)
Copying == INSTANCE Iterate WITH Step <- CopyUid
\* Mutant: only the mails get the new uids.
CopyUidsOfMails(d, pairs, name) == FoldLeft(LAMBDA e, p : emstorage_update_server_uid(e, p.old, p.new), d, pairs)
mail_copyuid_ex(d, pairs, name) == Copying!Over(name, d, pairs)
\* Mutant: the messages are marked and expunged before they are copied.
ExpungeThenCopy(s, sel, dst, uids) == Copy(UidExpunge(Store(s, sel, uids, "del", TRUE), sel, uids), sel, dst, uids)
MoveMessages(s, sel, dst, uids) == UidExpunge(Store(Copy(s, sel, dst, uids), sel, uids, "del", TRUE), sel, uids)
emcore_move_mail_on_server_ex(d, s, acc, src, ids, dst, net) ==
    LET sel == emcore_connect_to_remote_mailbox(d, s, acc, src, net)
        target == emstorage_get_mailbox_by_id(d, dst)
        to == [The(sel) EXCEPT !.folder = The(target).name]
        uids == {u.suid : u \in emstorage_get_id_set_from_mail_ids(d, Range(ids))}
    IN  IF sel = {} \/ target = {} \/ uids = {} THEN Failed(d, s)
        ELSE IF to.folder \notin Folders(s, to.user) THEN Done(d, s)
        ELSE Done(mail_copyuid_ex(d, CopyUids(s, The(sel), to, uids), to.folder), MoveMessages(s, The(sel), to, uids))

\* A mail that a rule files in the spam mailbox during a sync.
emcore_move_mail_on_server(d, s, acc, src, id, folder, net) ==
    LET sel == emcore_connect_to_remote_mailbox(d, s, acc, src, net)
        to == [The(sel) EXCEPT !.folder = folder]
        m == The(emstorage_get_mail_by_id(d, id))
        new == CopyUids(s, The(sel), to, {m.suid})[1].new
    IN  IF sel = {} \/ folder \notin Folders(s, The(sel).user) \/ MessagesOf(s, The(sel), {m.suid}) = {}
        THEN Failed(d, s)
        ELSE Done(emstorage_update_read_mail_uid(emstorage_update_server_uid(d, m.suid, new), id, new, m.name),
                  Expunge(Store(Copy(s, The(sel), to, {m.suid}), The(sel), {m.suid}, "del", TRUE), The(sel)))

\* The mail's own uid, in the mailbox it is filed in now.
Located(d, s, m, net) ==
    {sel \in emcore_connect_to_remote_mailbox(d, s, m.acc, m.box, net) :
        \E x \in FolderOf(s, sel).msgs : x.uid = m.suid /\ ~x.del}
emcore_sync_flag_with_server(d, s, id, net) ==
    LET m == The(emstorage_get_mail_by_id(d, id)) IN
    IF emstorage_get_mail_by_id(d, id) = {} \/ Located(d, s, m, net) = {} THEN Failed(d, s)
    ELSE Done(d, Store(s, The(Located(d, s, m, net)), {m.suid}, "seen", m.seen))

\* The flags of all are set in the mailbox of the first.
emcore_sync_flags_field_with_server(d, s, ids, field, value, net) ==
    LET m == The(emstorage_get_mail_by_id(d, ids[1]))
        sel == emcore_connect_to_remote_mailbox(d, s, m.acc, m.box, net)
        uids == {u.suid : u \in emstorage_get_id_set_from_mail_ids(d, Range(ids))}
    IN  IF \/ emstorage_get_mail_by_id(d, ids[1]) = {} \/ Kind(d, m.acc) # "imap"
           \/ sel = {} \/ uids = {}
        THEN Failed(d, s)
        ELSE Done(d, Store(s, The(sel), uids, field, value))

-----------------------------------------------------------------------------
(* email-core-mailbox-sync.c: emcore_sync_header, up to the first message *)

Downloaded(d, a, b) == emstorage_get_downloaded_list(d, a.id, IF a.kind = "pop3" THEN 0 ELSE b.id)
\* What is among the newest slot messages and has no row.
emcore_get_uids_to_download(d, s, sel, a, b) ==
    LET listed == Newest(s, sel, b.slot)
        rows == {u.suid : u \in Range(Downloaded(d, a, b))}
    IN  NewestFirst({x \in Range(listed) : x.uid \notin rows})
\* A row that no listed message has: the account's first mail with that uid
\* goes, and the rows of this mailbox's name.
Forget(c, d, u) ==
    LET mail == emstorage_get_maildata_by_servermailid(d, c.a.id, u.suid) IN
    IF u.suid \in c.listed \/ mail = {} THEN d
    ELSE emstorage_remove_downloaded_mail(
            IF c.a.kind = "imap" THEN emcore_delete_mails_from_local_storage(d, c.a.id, {The(mail).id}) ELSE d,
            c.a.id, {c.b.name}, {u.suid})
Forgetting == INSTANCE Iterate WITH Step <- Forget
\* Mutant: only the rows are forgotten.
ForgetMissing(d, s, sel, a, b) ==
    LET listed == {x.uid : x \in Range(Newest(s, sel, b.slot))}
        missing == {u.suid : u \in {u \in Range(Downloaded(d, a, b)) : u.suid \notin listed}}
    IN  emstorage_remove_downloaded_mail(d, a.id, {b.name}, missing)
DeleteMissing(d, s, sel, a, b) ==
    LET listed == {x.uid : x \in Range(Newest(s, sel, b.slot))}
    IN  Forgetting!Over([a |-> a, b |-> b, listed |-> listed], d, Downloaded(d, a, b))
\* A mail that was read here with its body is marked there.
MarkRead(d, s, sel, a, b) ==
    LET unseen == {x.uid : x \in {x \in Range(Newest(s, sel, b.slot)) : ~x.seen}}
        read == {u.suid : u \in {u \in Range(Downloaded(d, a, b)) :
                    \E m \in emstorage_get_mail_by_id(d, u.luid) : m.body # 0 /\ m.seen}}
    IN  IF a.kind = "imap" THEN Store(s, sel, unseen \cap read, "seen", TRUE) ELSE s
=============================================================================
