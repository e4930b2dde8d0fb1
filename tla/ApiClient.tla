---------------------------- MODULE ApiClient -----------------------------
(***************************************************************************)
(* The functions of the client library (email-api) that have the daemon do *)
(* something.  Each is a record:                                           *)
(*   api      the request it sends;                                        *)
(*   in       the parameters it adds, in order;                            *)
(*   verdict  how its result comes out of the OUT list (see Result);       *)
(*   fills    the outputs of the caller, with the place each is read from; *)
(*   other    who serves the call instead of the daemon when the account   *)
(*            is one of ActiveSync ("engine") or the caller is the engine  *)
(*            itself ("caller"); "before" and "after": the engine is       *)
(*            notified as well, before or after the daemon;                *)
(*   checked  whether it may refuse before it sends anything;              *)
(*   noticed  whether it notices that the exchange failed.                 *)
(***************************************************************************)
EXTENDS ApiWire

Asks(name, api, in, verdict, fills) ==
    [name |-> name, api |-> api, in |-> in, verdict |-> verdict, fills |-> fills,
     other |-> "nobody", checked |-> TRUE, noticed |-> TRUE]

NoOutputs == <<>>
Handle == [handle |-> 1]
OrEngine(f) == [f EXCEPT !.other = "engine"]
OrCaller(f) == [f EXCEPT !.other = "caller"]
EngineFirst(f) == [f EXCEPT !.other = "before"]
EngineLast(f) == [f EXCEPT !.other = "after"]
Unchecked(f) == [f EXCEPT !.checked = FALSE]

-----------------------------------------------------------------------------
(* How the result and the outputs come out of the OUT list *)

\* The verdicts: "error" reads the error and then the outputs if it is NONE;
\* "all" reads the outputs whatever the error; "flag" reads a flag and then
\* the error or the outputs; "both" takes the error of the second place;
\* "zero" reads the error only if the flag is 0; "data" wants the data as
\* well; "none" reads no error; "freed" loses the error it has read when
\* it frees what it looked up before.
Result(verdict, out) ==
    LET error == Int(out, 0, None)
        second == Int(out, 1, None)
    IN  CASE verdict \in {"error", "all"} -> error
          [] verdict = "flag" -> IF Int(out, 0, Zero) = None THEN None ELSE second
          [] verdict = "both" -> second
          [] verdict = "zero" -> IF Int(out, 0, Zero) = Zero THEN second ELSE None
          [] verdict = "data" ->
                IF error = None /\ Stream(out, 1) = Empty THEN Failed ELSE error
          [] verdict \in {"none", "freed"} -> None

ReadsOutputs(verdict, out) ==
    \/ verdict \in {"all", "both", "none"}
    \/ verdict \in {"error", "flag", "data", "freed"} /\ Int(out, 0, Zero) = None

Outputs(f, out) ==
    [r \in DOMAIN f.fills |->
        IF ~ReadsOutputs(f.verdict, out) THEN Unset
        ELSE IF r \in Streams THEN Stream(out, f.fills[r])
        ELSE Int(out, f.fills[r], Unset)]

-----------------------------------------------------------------------------
(* email-api-account.c *)

email_add_account ==
    Asks("email_add_account", "ADD_ACCOUNT", <<"account_data">>, "flag", [account |-> 1])
email_delete_account ==
    Asks("email_delete_account", "DELETE_ACCOUNT", <<"account">>, "flag", NoOutputs)
email_update_account ==
    Asks("email_update_account", "UPDATE_ACCOUNT", <<"account", "account_data", "no_validation">>, "flag",
         NoOutputs)
email_update_account_with_validation ==
    Asks("email_update_account_with_validation", "UPDATE_ACCOUNT",
         <<"account", "account_data", "validate">>, "flag", NoOutputs)
\* Mutant: the handle is read from the place of the error.
email_validate_account_short ==
    Asks("email_validate_account", "VALIDATE_ACCOUNT", <<"account">>, "both", [handle |-> 1])
email_validate_account ==
    Asks("email_validate_account", "VALIDATE_ACCOUNT", <<"account">>, "both", [handle |-> 2])
email_add_account_with_validation ==
    Asks("email_add_account_with_validation", "ADD_ACCOUNT_WITH_VALIDATION", <<"account_data">>,
         "flag", Handle)
email_backup_accounts_into_secure_storage ==
    Asks("email_backup_accounts_into_secure_storage", "BACKUP_ACCOUNTS", <<"path">>, "zero",
         NoOutputs)
email_restore_accounts_from_secure_storage ==
    Asks("email_restore_accounts_from_secure_storage", "RESTORE_ACCOUNTS", <<"path">>, "zero",
         NoOutputs)
email_get_password_length_of_account ==
    Asks("email_get_password_length_of_account", "GET_PASSWORD_LENGTH_OF_ACCOUNT", <<"account">>,
         "both", [length |-> 2])
email_update_notification_bar ==
    Asks("email_update_notification_bar", "UPDATE_NOTIFICATION_BAR_FOR_UNREAD_MAIL",
         <<"account">>, "error", NoOutputs)

AccountFunctions ==
    {email_add_account, email_delete_account, email_update_account,
     email_update_account_with_validation, email_validate_account,
     email_add_account_with_validation, email_backup_accounts_into_secure_storage,
     email_restore_accounts_from_secure_storage, email_get_password_length_of_account,
     email_update_notification_bar}

(* email-api-mailbox.c *)

email_add_mailbox ==
    OrEngine(Asks("email_add_mailbox", "ADD_MAILBOX", <<"mailbox_data", "on_server">>, "all",
                  [handle |-> 1, mailbox |-> 2]))
email_rename_mailbox ==
    OrEngine(Asks("email_rename_mailbox", "RENAME_MAILBOX",
                  <<"mailbox", "name", "alias", "on_server">>, "error", NoOutputs))
email_delete_mailbox ==
    OrEngine(Asks("email_delete_mailbox", "DELETE_MAILBOX", <<"mailbox", "on_server">>, "all",
                  Handle))
email_set_mailbox_type ==
    Asks("email_set_mailbox_type", "SET_MAILBOX_TYPE", <<"mailbox", "type">>, "error", NoOutputs)
email_set_mail_slot_size ==
    Asks("email_set_mail_slot_size", "SET_MAIL_SLOT_SIZE", <<"account", "mailbox", "size">>,
         "error", NoOutputs)

MailboxFunctions ==
    {email_add_mailbox, email_rename_mailbox, email_delete_mailbox, email_set_mailbox_type,
     email_set_mail_slot_size}

(* email-api-mail.c *)

NewMail == [mail_id |-> 1, thread_id |-> 2]

\* The four shapes of a mail handed over: with attachments or none, a
\* meeting or not.  A list of no attachments is a parameter of length 0.
MailShapes ==
    {<<"mail", a, "sync_server">> : a \in {"attachments", Empty}} \cup
    {<<"meeting_mail", a, "meeting", "sync_server">> : a \in {"attachments", Empty}}

email_add_mail(shape) ==
    OrCaller(Asks("email_add_mail", "ADD_MAIL", shape, "error", NewMail))
email_update_mail(shape) ==
    OrCaller(Asks("email_update_mail", "UPDATE_MAIL", shape, "error", NewMail))
email_add_read_receipt ==
    Asks("email_add_read_receipt", "ADD_READ_RECEIPT", <<"mail_id">>, "error",
         [receipt_id |-> 1])
email_clear_mail_data ==
    Unchecked(Asks("email_clear_mail_data", "CLEAR_DATA", <<>>, "error", NoOutputs))
email_delete_mail ==
    Asks("email_delete_mail", "DELETE_MAIL", <<"mailbox", "num", "mails", "from_server">>,
         "error", NoOutputs)
email_delete_all_mails_in_mailbox ==
    Asks("email_delete_all_mails_in_mailbox", "DELETE_ALL_MAIL", <<"mailbox", "from_server">>,
         "error", NoOutputs)
email_add_attachment ==
    Asks("email_add_attachment", "ADD_ATTACHMENT", <<"mail_id", "attachment">>, "error",
         [attachment_id |-> 1])
email_delete_attachment ==
    Asks("email_delete_attachment", "DELETE_ATTACHMENT", <<"attachment_id">>, "error", NoOutputs)
email_get_attachment_data ==
    Asks("email_get_attachment_data", "GET_ATTACHMENT", <<"attachment_id">>, "data",
         [attachment |-> 1])
email_set_flags_field ==
    Asks("email_set_flags_field", "SET_FLAGS_FIELD",
         <<"account", "num", "mails", "field", "value", "on_server">>, "error", NoOutputs)
email_move_mail_to_mailbox ==
    Asks("email_move_mail_to_mailbox", "MOVE_MAIL", <<"num", "mails", "mailbox">>, "error",
         NoOutputs)
email_move_all_mails_to_mailbox ==
    Asks("email_move_all_mails_to_mailbox", "MOVE_ALL_MAIL", <<"source", "mailbox">>, "error",
         NoOutputs)
email_cancel_sending_mail ==
    Asks("email_cancel_sending_mail", "SEND_MAIL_CANCEL_JOB", <<"account", "mail_id">>, "error",
         NoOutputs)
email_retry_sending_mail ==
    Asks("email_retry_sending_mail", "SEND_RETRY", <<"mail_id", "timeout">>, "error", NoOutputs)
email_move_thread_to_mailbox ==
    Asks("email_move_thread_to_mailbox", "MOVE_THREAD_TO_MAILBOX",
         <<"thread_id", "mailbox", "always">>, "error", NoOutputs)
email_delete_thread ==
    Unchecked(Asks("email_delete_thread", "DELETE_THREAD", <<"thread_id", "always">>, "error",
                   NoOutputs))
email_modify_seen_flag_of_thread ==
    Unchecked(Asks("email_modify_seen_flag_of_thread", "MODIFY_SEEN_FLAG_OF_THREAD",
                   <<"thread_id", "value", "on_server">>, "error", NoOutputs))
email_expunge_mails_deleted_flagged ==
    OrEngine(Asks("email_expunge_mails_deleted_flagged", "EXPUNGE_MAILS_DELETED_FLAGGED",
                  <<"mailbox", "on_server">>, "error", Handle))

MailFunctions ==
    {email_add_read_receipt, email_clear_mail_data, email_delete_mail,
     email_delete_all_mails_in_mailbox, email_add_attachment, email_delete_attachment,
     email_get_attachment_data, email_set_flags_field, email_move_mail_to_mailbox,
     email_move_all_mails_to_mailbox, email_cancel_sending_mail, email_retry_sending_mail,
     email_move_thread_to_mailbox, email_delete_thread, email_modify_seen_flag_of_thread,
     email_expunge_mails_deleted_flagged}
    \cup {email_add_mail(shape) : shape \in MailShapes}
    \cup {email_update_mail(shape) : shape \in MailShapes}

(* email-api-network.c *)

email_send_mail ==
    OrEngine(Asks("email_send_mail", "SEND_MAIL", <<"mail_id", "option">>, "error", Handle))
email_send_saved ==
    Asks("email_send_saved", "SEND_SAVED", <<"account", "option">>, "error", NoOutputs)
email_sync_header ==
    OrEngine(Asks("email_sync_header", "SYNC_HEADER", <<"account", "mailbox">>, "error", Handle))
\* Of all accounts the daemon is asked first; the engine is notified of its
\* accounts with the handle of the daemon.
email_sync_header_for_all_account ==
    EngineLast(Unchecked(Asks("email_sync_header_for_all_account", "SYNC_HEADER",
                              <<"account", "mailbox">>, "error", Handle)))
\* The mail that was looked up is freed with &err, which makes it NONE.
email_download_body ==
    OrEngine(Asks("email_download_body", "DOWNLOAD_BODY",
                  <<"account", "mail_id", "with_attachment">>, "freed", Handle))
email_download_attachment ==
    OrEngine(Asks("email_download_attachment", "DOWNLOAD_ATTACHMENT",
                  <<"account", "mail_id", "nth">>, "freed", Handle))
email_cancel_job(all) ==
    LET f == Asks("email_cancel_job", "CANCEL_JOB", <<"account", "handle">>, "error", NoOutputs)
    IN  IF all THEN EngineFirst(f) ELSE OrEngine(f)
email_get_pending_job ==
    Asks("email_get_pending_job", "GET_PENDING_JOB", <<"action", "account", "mail_id">>, "all",
         [status |-> 1])
email_get_network_status ==
    Unchecked(Asks("email_get_network_status", "NETWORK_GET_STATUS", <<>>, "none",
                   [on_sending |-> 0, on_receiving |-> 1]))
\* The failure of the exchange is looked for as a 0, which no error is.
email_sync_imap_mailbox_list ==
    [Asks("email_sync_imap_mailbox_list", "GET_IMAP_MAILBOX_LIST", <<"account">>, "all", Handle)
        EXCEPT !.noticed = FALSE]
email_search_mail_on_server ==
    OrEngine(Asks("email_search_mail_on_server", "SEARCH_MAIL_ON_SERVER",
                  <<"account", "mailbox", "filters">>, "error", Handle))
\* What is sent is the mailbox of the search result, and that mailbox is
\* freed with &err.
email_clear_result_of_search_mail_on_server ==
    OrEngine(Asks("email_clear_result_of_search_mail_on_server",
                  "CLEAR_RESULT_OF_SEARCH_MAIL_ON_SERVER", <<"mailbox">>, "freed", NoOutputs))

NetworkFunctions ==
    {email_send_mail, email_send_saved, email_sync_header,
     email_sync_header_for_all_account, email_download_body, email_download_attachment,
     email_get_pending_job, email_get_network_status, email_sync_imap_mailbox_list,
     email_search_mail_on_server, email_clear_result_of_search_mail_on_server}
    \cup {email_cancel_job(all) : all \in BOOLEAN}

(* email-api-rule.c, email-api-smime.c, email-api-etc.c, email-api-init.c *)

email_add_rule == Asks("email_add_rule", "ADD_RULE", <<"rule">>, "error", NoOutputs)
email_update_rule ==
    Asks("email_update_rule", "UPDATE_RULE", <<"filter", "rule">>, "error", NoOutputs)
email_delete_rule == Asks("email_delete_rule", "DELETE_RULE", <<"filter">>, "error", NoOutputs)
email_add_certificate ==
    Asks("email_add_certificate", "ADD_CERTIFICATE", <<"certificate", "address">>, "error",
         NoOutputs)
email_delete_certificate ==
    Asks("email_delete_certificate", "DELETE_CERTIFICATE", <<"address">>, "error", NoOutputs)
\* The result says nothing of the verification, which is an output.
email_verify_signature ==
    Asks("email_verify_signature", "VERIFY_SIGNATURE", <<"certificate", "mail_id">>, "none",
         [verified |-> 0])
email_verify_certificate ==
    Asks("email_verify_certificate", "VERIFY_CERTIFICATE", <<"certificate">>, "none",
         [verified |-> 0])
email_show_user_message ==
    [Asks("email_show_user_message", "SHOW_USER_MESSAGE", <<"id", "action", "error">>, "error",
          NoOutputs) EXCEPT !.noticed = FALSE]
email_ping_service == Unchecked(Asks("email_ping_service", "PING_SERVICE", <<>>, "error", NoOutputs))

OtherFunctions ==
    {email_add_rule, email_update_rule, email_delete_rule, email_add_certificate,
     email_delete_certificate, email_verify_signature, email_verify_certificate,
     email_show_user_message, email_ping_service}

-----------------------------------------------------------------------------
\* Every function of the client library that sends a request.
ClientFunctions ==
    AccountFunctions \cup MailboxFunctions \cup MailFunctions \cup NetworkFunctions
    \cup OtherFunctions
=============================================================================
