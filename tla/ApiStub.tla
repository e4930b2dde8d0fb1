----------------------------- MODULE ApiStub ------------------------------
(***************************************************************************)
(* The handlers of email-daemon/main.c.  Each takes the IN list p of a     *)
(* request apart, gives what it read to a function of the daemon and       *)
(* writes an OUT list.  A handler is the set of what can come of it:       *)
(*   args   what it gave the function of the daemon, by meaning;           *)
(*   end    whether that function did what it was asked for;               *)
(*   out    the OUT list, NoAnswer when it returns without sending one.    *)
(***************************************************************************)
EXTENDS ApiWire

CONSTANT MemoryFails      \* whether a malloc of a handler may fail

NoAnswer == <<"no_answer">>
NoArgs == [nothing |-> Unset]
Done == "done"
Undone == "undone"

Outcome(args, end, out) == [args |-> args, end |-> end, out |-> out]
Tries(args, done, failed) == {Outcome(args, Done, done), Outcome(args, Undone, failed)}
Reports(args) == Tries(args, <<None>>, <<Failed>>)
ReportsWith(args, more) == Tries(args, <<None>> \o more, <<Failed>> \o more)
Needs(stream, refusal, outcomes) ==
    IF stream = Empty THEN {Outcome(NoArgs, Undone, refusal)} ELSE outcomes
\* Mutant: a handler always returns before it has answered.
SilentAlways == {Outcome(NoArgs, Undone, NoAnswer)}

\* A handler that returns where its malloc fails answers nothing.
Silent == IF MemoryFails THEN {Outcome(NoArgs, Undone, NoAnswer)} ELSE {}

I(p, i) == Int(p, i, Unset)
S(p, i) == Stream(p, i)

-----------------------------------------------------------------------------
(* accounts: local_result comes first *)

stb_create_account(p) ==
    Needs(S(p, 0), <<Zero, Failed>>,
          Tries([account_data |-> S(p, 0)], <<None, "account">>, <<Zero, Failed>>))

stb_delete_account(p) == Tries([account |-> I(p, 0)], <<None>>, <<Zero, Failed>>)

\* With validation the daemon only asks for one, and answers success
\* whether or not the request could be queued.
stb_update_account(p) ==
    IF I(p, 2) = "validate"
    THEN LET args == [account |-> I(p, 0), account_data |-> S(p, 1), validate |-> I(p, 2)]
         IN  Tries(args, <<None, "handle">>, <<None, "handle">>)
                 \cup {Outcome(args, Undone, <<Zero, Failed>>)}
    ELSE Tries([account |-> I(p, 0), account_data |-> S(p, 1), no_validation |-> I(p, 2)],
               <<None>>, <<Zero, Failed>>)

stb_validate_account(p) ==
    Tries([account |-> I(p, 0)], <<None, None, "handle">>, <<Zero, Failed, "handle">>)

stb_create_account_with_validation(p) ==
    Needs(S(p, 0), <<Zero, Failed>>,
          Tries([account_data |-> S(p, 0)], <<None, "handle">>, <<Zero, Failed>>))

stb_backup_account(p) ==
    Needs(S(p, 0), <<Zero, Zero, Zero>>,
          Tries([path |-> S(p, 0)], <<None, None, Zero>>, <<Zero, Failed, Zero>>))

\* emcore_restore_accounts returns an error code where it fails, not 0, and
\* never sets the error it is given.
stb_restore_account(p) ==
    Needs(S(p, 0), <<Zero, Zero, Zero>>,
          Tries([path |-> S(p, 0)], <<None, Zero, Zero>>, <<Failed, Zero, Zero>>))

stb_get_password_length(p) ==
    Tries([account |-> I(p, 0)], <<None, None, "length">>, <<Zero, Failed, "length">>)

stb_update_notification_bar_for_unread_mail(p) == Reports([account |-> I(p, 0)])

-----------------------------------------------------------------------------
(* mailboxes *)

stb_create_mailbox(p) ==
    Needs(S(p, 0), <<Failed, "handle", "mailbox">>,
          ReportsWith([mailbox_data |-> S(p, 0), on_server |-> I(p, 1)], <<"handle", "mailbox">>))

\* Mutant: the error is replaced by NONE.
stb_delete_mailbox_none(p) ==
    Tries([mailbox |-> I(p, 0), on_server |-> I(p, 1)], <<None, "handle">>, <<None, "handle">>)

stb_delete_mailbox(p) ==
    ReportsWith([mailbox |-> I(p, 0), on_server |-> I(p, 1)], <<"handle">>)

\* The error of emdaemon_set_mailbox_type is replaced by EMAIL_ERROR_NONE.
stb_set_mailbox_type(p) == Tries([mailbox |-> I(p, 0), type |-> I(p, 1)], <<None>>, <<None>>)

stb_set_mail_slot_size_of_mailbox(p) ==
    ReportsWith([account |-> I(p, 0), mailbox |-> I(p, 1), size |-> I(p, 2)], <<"handle">>)

stb_rename_mailbox(p) ==
    ReportsWith([mailbox |-> I(p, 0), name |-> S(p, 1), alias |-> S(p, 2), on_server |-> I(p, 3)],
                <<"handle">>)

stb_get_imap_mailbox_list(p) == ReportsWith([account |-> I(p, 0)], <<"handle">>)

-----------------------------------------------------------------------------
(* mails *)

\* Mutant: the meeting request is never stepped over.
MailArgumentsInPlace(p) ==
    LET last == 2
    IN  IF S(p, 0) = "meeting_mail"
        THEN [meeting_mail |-> S(p, 0), attachments |-> S(p, 1), meeting |-> S(p, 2),
              sync_server |-> I(p, last)]
        ELSE [mail |-> S(p, 0), attachments |-> S(p, 1), sync_server |-> I(p, last)]

\* The place of every parameter behind the mail depends on whether the
\* streams before it are empty, and the one of the meeting request on what
\* the mail says of itself.
MailArguments(p) ==
    LET i == IF S(p, 0) = Empty THEN 0 ELSE 1
        meeting == S(p, 0) = "meeting_mail"
        last == IF meeting /\ S(p, i + 1) # Empty THEN i + 2 ELSE i + 1
    IN  IF meeting
        THEN [meeting_mail |-> S(p, 0), attachments |-> S(p, i), meeting |-> S(p, i + 1),
              sync_server |-> I(p, last)]
        ELSE [mail |-> S(p, 0), attachments |-> S(p, i), sync_server |-> I(p, last)]

\* A list of attachments that cannot be unpacked is an error of its own.
Unpacked(p, outcomes) ==
    outcomes \cup IF MemoryFails THEN {Outcome(NoArgs, Undone, <<Failed>>)} ELSE {}

stb_add_mail(p) ==
    Unpacked(p, Tries(MailArguments(p), <<None, "mail_id", "thread_id">>, <<Failed>>))

\* Without the last parameter the mail is not updated and NONE is answered.
stb_update_mail(p) ==
    IF MailArguments(p).sync_server = Unset
    THEN {Outcome(NoArgs, Undone, <<None>>)}
    ELSE Unpacked(p, Tries(MailArguments(p), <<None, "mail_id", "thread_id">>, <<Failed>>))

stb_add_read_receipt(p) == Tries([mail_id |-> I(p, 0)], <<None, "receipt_id">>, <<Failed>>)

stb_clear_mail_data(p) == Reports(<<>>)

stb_delete_all_mails(p) == Reports([mailbox |-> I(p, 0), from_server |-> I(p, 1)])

stb_delete_mail(p) ==
    Reports([mailbox |-> I(p, 0), num |-> I(p, 1), mails |-> S(p, 2), from_server |-> I(p, 3)])

stb_move_mail(p) == Reports([num |-> I(p, 0), mails |-> S(p, 1), mailbox |-> I(p, 2)])

stb_move_all_mails(p) == Reports([source |-> I(p, 0), mailbox |-> I(p, 1)])

stb_set_flags_field(p) ==
    Reports([account |-> I(p, 0), num |-> I(p, 1), mails |-> S(p, 2), field |-> I(p, 3),
             value |-> I(p, 4), on_server |-> I(p, 5)])

stb_move_thread_to_mailbox(p) ==
    Reports([thread_id |-> I(p, 0), mailbox |-> I(p, 1), always |-> I(p, 2)])

stb_delete_thread(p) == Reports([thread_id |-> I(p, 0), always |-> I(p, 1)])

stb_modify_seen_flag_of_thread(p) ==
    Reports([thread_id |-> I(p, 0), value |-> I(p, 1), on_server |-> I(p, 2)])

stb_expunge_mails_deleted_flagged(p) ==
    ReportsWith([mailbox |-> I(p, 0), on_server |-> I(p, 1)], <<"handle">>)

stb_add_attachment(p) ==
    Silent \cup Tries([mail_id |-> I(p, 0), attachment |-> S(p, 1)],
                      <<None, "attachment_id">>, <<Failed>>)

stb_get_attachment(p) ==
    Silent \cup Tries([attachment_id |-> I(p, 0)], <<None, "attachment">>, <<Failed>>)

stb_delete_attachment(p) == Reports([attachment_id |-> I(p, 0)])

-----------------------------------------------------------------------------
(* jobs *)

stb_send_mail(p) ==
    Silent \cup Tries([mail_id |-> I(p, 0), option |-> S(p, 1)], <<None, "handle">>, <<Failed>>)

stb_mail_send_saved(p) == Silent \cup Reports([account |-> I(p, 0), option |-> S(p, 1)])

stb_retry_sending_mail(p) == Reports([mail_id |-> I(p, 0), timeout |-> I(p, 1)])

stb_cancel_send_mail_job(p) == Reports([account |-> I(p, 0), mail_id |-> I(p, 1)])

stb_sync_header(p) == ReportsWith([account |-> I(p, 0), mailbox |-> I(p, 1)], <<"handle">>)

stb_download_body(p) ==
    ReportsWith([account |-> I(p, 0), mail_id |-> I(p, 1), with_attachment |-> I(p, 2)],
                <<"handle">>)

stb_download_attachment(p) ==
    ReportsWith([account |-> I(p, 0), mail_id |-> I(p, 1), nth |-> I(p, 2)], <<"handle">>)

stb_cancel_job(p) == Reports([account |-> I(p, 0), handle |-> I(p, 1)])

stb_get_pending_job(p) ==
    ReportsWith([action |-> I(p, 0), account |-> I(p, 1), mail_id |-> I(p, 2)], <<"status">>)

stb_get_event_queue_status(p) == {Outcome(<<>>, Done, <<"on_sending", "on_receiving">>)}

stb_search_mail_on_server(p) ==
    Silent \cup ReportsWith([account |-> I(p, 0), mailbox |-> I(p, 1), filters |-> S(p, 2)],
                            <<"handle">>)

\* The account whose search result is to be cleared: the place holds the id
\* of a mailbox (email_clear_result_of_search_mail_on_server).
stb_clear_result_of_search_mail_on_server(p) == Reports([account |-> I(p, 0)])

-----------------------------------------------------------------------------
(* rules, certificates and the rest *)

stb_add_rule(p) == Needs(S(p, 0), <<Failed>>, Reports([rule |-> S(p, 0)]))

stb_update_rule(p) ==
    Needs(S(p, 1), <<Failed>>, Reports([filter |-> I(p, 0), rule |-> S(p, 1)]))

stb_delete_rule(p) == Reports([filter |-> I(p, 0)])

stb_add_certificate(p) == Reports([certificate |-> S(p, 0), address |-> S(p, 1)])

stb_delete_certificate(p) == Reports([address |-> S(p, 0)])

\* Whether it was verified is all that is answered: a verification that
\* could not be made reads like one that failed.
Verifies(args) ==
    {Outcome(args, Done, <<v>>) : v \in {"verified", Zero}} \cup {Outcome(args, Undone, <<Zero>>)}

stb_verify_signature(p) == Verifies([certificate |-> S(p, 0), mail_id |-> I(p, 1)])

stb_verify_certificate(p) == Verifies([certificate |-> S(p, 0)])

stb_ping_service(p) == {Outcome(<<>>, Done, <<None>>)}

stb_show_user_message(p) ==
    Reports([id |-> I(p, 0), action |-> I(p, 1), error |-> I(p, 2)])
=============================================================================
