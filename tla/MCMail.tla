------------------------------- MODULE MCMail -------------------------------
(* An IMAP and a POP3 account of a few messages, for TLC. *)
EXTENDS Mail

Msg(uid, msg) == [uid |-> uid, msg |-> msg, seen |-> FALSE, del |-> FALSE]
MCFolderType == [INBOX |-> "inbox", Work |-> "user", Spambox |-> "spam", New |-> "user"]
\* Message 6 has no subject; 7 cannot be decoded.
MCSubject == <<"a", "b", "a", "b", "c", NoName, "a">>
MCSender == <<"x", "y", "x", "y", "x", "x", "x">>
MCRules == {[type |-> "from", value |-> "y"], [type |-> "subject", value |-> "c"], [type |-> "body", value |-> "x"]}

\* The uids of the folders are apart.
Imap == [INBOX |-> [next |-> 3, msgs |-> {Msg(1, 1), Msg(2, 2)}],
         Work |-> [next |-> 12, msgs |-> {Msg(11, 3)}],
         Spambox |-> [next |-> 21, msgs |-> {}]]
Pop3 == [INBOX |-> [next |-> 3, msgs |-> {Msg(1, 1), Msg(2, 2)}]]

Empty == [account |-> {}, box |-> {}, mail |-> {}, uid |-> {}, att |-> {}, meet |-> {}, rule |-> {},
          dir |-> {}, next |-> 1]
\* The account was made, its mailboxes were listed and each was synchronised.
Synced(d, s, user, b) ==
    LET sel == [user |-> user, folder |-> b.name] IN
    IF b.local /\ b.name # "INBOX" THEN d
    ELSE FoldLeft(LAMBDA e, x : emcore_add_mail_to_mailbox(e, b, x.msg, x.uid, x.seen),
                  d, mailbox_get_uids(s, sel))
Made(s, user, kind) ==
    LET created == emcore_create_account(Empty, user, kind)
        listed == IF kind = "pop3" THEN created ELSE (emcore_sync_mailbox_list(created, s, 1, TRUE)).d
    IN  FoldLeft(LAMBDA d, b : Synced(d, s, user, b), listed, emstorage_get_mailbox_list(listed, 1, {FALSE}))

Work(calls, n, outside, faults) ==
    [calls |-> calls, ncalls |-> n, outside |-> outside, faults |-> faults, faulted |-> FALSE]
Start(s, kind, w) == [db |-> Made(s, "u", kind), server |-> s, work |-> w]

\* Calls that disturb each other, beside other clients or a fault.
ImapWork ==
    { Work({"delete", "sync"}, 2, 1, 0),
      Work({"move"}, 2, 1, 0),
      Work({"delete", "move", "sync"}, 2, 0, 1),
      Work({"delete_all", "delete_thread", "delete_box", "move_thread", "move_all"}, 2, 0, 1),
      Work({"flags", "expunge", "sync"}, 2, 1, 0),
      Work({"flag", "seen_thread", "body", "update", "attach", "delete"}, 2, 0, 1),
      Work({"add_box", "delete_box", "rename_box", "box_type", "list", "sync"}, 2, 0, 0),
      Work({"slot", "rule", "sync", "add"}, 2, 1, 0),
      Work({"rule", "sync"}, 2, 2, 0),
      Work({"create_account", "update_account", "delete_account", "sync"}, 2, 0, 1) }
Pop3Work == { Work({"delete", "sync", "body"}, 2, 1, 1), Work({"flags", "expunge"}, 2, 0, 1), Work({"rule", "sync"}, 2, 2, 0) }
MCStarts == {Start([u |-> Imap], "imap", w) : w \in ImapWork} \cup {Start([u |-> Pop3], "pop3", w) : w \in Pop3Work}
=============================================================================
