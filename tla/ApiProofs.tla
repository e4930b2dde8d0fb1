----------------------------- MODULE ApiProofs ----------------------------
(***************************************************************************)
(* What the exchange of module Api promises the application, for every set *)
(* of calls it may make.  The promise rests on a contract between each     *)
(* function of the client library and the handler of the daemon that takes *)
(* its request (Fits), which is computed function by function; that the    *)
(* call keeps to it through losses and silences is the invariant IInv.     *)
(***************************************************************************)
EXTENDS Api, TLAPS

KnownMisread == {"email_clear_result_of_search_mail_on_server"}
KnownUntold ==
    {"email_clear_result_of_search_mail_on_server", "email_download_body",
     "email_download_attachment", "email_restore_accounts_from_secure_storage",
     "email_set_mailbox_type", "email_update_account_with_validation",
     "email_verify_signature", "email_verify_certificate",
     "email_sync_imap_mailbox_list", "email_show_user_message"}
KnownUnfilled ==
    {"email_download_body", "email_download_attachment", "email_sync_imap_mailbox_list",
     "email_sync_header_for_all_account"}

-----------------------------------------------------------------------------
(* The contract of a function f with an outcome o of its handler *)

ArgumentsFit(f, o) ==
    o.args # NoArgs =>
        /\ \A r \in DOMAIN o.args : o.args[r] \in {r, Empty}
        /\ Values(o.args) \ {Empty} = {f.in[i] : i \in DOMAIN f.in} \ {Empty}

ResultFits(f, o) ==
    o.out # NoAnswer =>
        /\ Result(f.verdict, o.out) = None => o.end = Done
        /\ Result(f.verdict, o.out) # None => o.end = Undone

Filled(f, outs) ==
    \A r \in DOMAIN f.fills : outs[r] \in {r} \cup (IF r = "verified" THEN {Zero} ELSE {})

OutputsFit(f, o) ==
    o.out # NoAnswer /\ Result(f.verdict, o.out) = None => Filled(f, Outputs(f, o.out))

Exchange(f, o) ==
    /\ f.name \notin KnownMisread => ArgumentsFit(f, o)
    /\ f.name \notin KnownUntold => ResultFits(f, o)
    /\ f.name \notin KnownUnfilled => OutputsFit(f, o)

Fits(f) ==
    /\ \A o \in stb_API_mapper(f.api, f.in) : Exchange(f, o)
    /\ f.name \notin KnownUntold => f.noticed
    /\ f.name \notin KnownUnfilled =>
        (f.noticed \/ DOMAIN f.fills = {}) /\ (f.other = "after" => DOMAIN f.fills = {})

\* Each request has a handler of its own.
LEMMA MapperIs ==
  ASSUME NEW p
  PROVE  /\ stb_API_mapper("ADD_ACCOUNT", p) = stb_create_account(p)
         /\ stb_API_mapper("DELETE_ACCOUNT", p) = stb_delete_account(p)
         /\ stb_API_mapper("UPDATE_ACCOUNT", p) = stb_update_account(p)
         /\ stb_API_mapper("VALIDATE_ACCOUNT", p) = stb_validate_account(p)
         /\ stb_API_mapper("ADD_ACCOUNT_WITH_VALIDATION", p) =
                stb_create_account_with_validation(p)
         /\ stb_API_mapper("BACKUP_ACCOUNTS", p) = stb_backup_account(p)
         /\ stb_API_mapper("RESTORE_ACCOUNTS", p) = stb_restore_account(p)
         /\ stb_API_mapper("GET_PASSWORD_LENGTH_OF_ACCOUNT", p) = stb_get_password_length(p)
         /\ stb_API_mapper("UPDATE_NOTIFICATION_BAR_FOR_UNREAD_MAIL", p) =
                stb_update_notification_bar_for_unread_mail(p)
         /\ stb_API_mapper("ADD_MAILBOX", p) = stb_create_mailbox(p)
         /\ stb_API_mapper("DELETE_MAILBOX", p) = stb_delete_mailbox(p)
         /\ stb_API_mapper("SET_MAILBOX_TYPE", p) = stb_set_mailbox_type(p)
         /\ stb_API_mapper("SET_MAIL_SLOT_SIZE", p) = stb_set_mail_slot_size_of_mailbox(p)
         /\ stb_API_mapper("RENAME_MAILBOX", p) = stb_rename_mailbox(p)
         /\ stb_API_mapper("GET_IMAP_MAILBOX_LIST", p) = stb_get_imap_mailbox_list(p)
         /\ stb_API_mapper("ADD_MAIL", p) = stb_add_mail(p)
         /\ stb_API_mapper("UPDATE_MAIL", p) = stb_update_mail(p)
         /\ stb_API_mapper("ADD_READ_RECEIPT", p) = stb_add_read_receipt(p)
         /\ stb_API_mapper("CLEAR_DATA", p) = stb_clear_mail_data(p)
         /\ stb_API_mapper("DELETE_ALL_MAIL", p) = stb_delete_all_mails(p)
         /\ stb_API_mapper("DELETE_MAIL", p) = stb_delete_mail(p)
         /\ stb_API_mapper("MOVE_MAIL", p) = stb_move_mail(p)
         /\ stb_API_mapper("MOVE_ALL_MAIL", p) = stb_move_all_mails(p)
         /\ stb_API_mapper("SET_FLAGS_FIELD", p) = stb_set_flags_field(p)
         /\ stb_API_mapper("MOVE_THREAD_TO_MAILBOX", p) = stb_move_thread_to_mailbox(p)
         /\ stb_API_mapper("DELETE_THREAD", p) = stb_delete_thread(p)
         /\ stb_API_mapper("MODIFY_SEEN_FLAG_OF_THREAD", p) = stb_modify_seen_flag_of_thread(p)
         /\ stb_API_mapper("EXPUNGE_MAILS_DELETED_FLAGGED", p) =
                stb_expunge_mails_deleted_flagged(p)
         /\ stb_API_mapper("ADD_ATTACHMENT", p) = stb_add_attachment(p)
         /\ stb_API_mapper("GET_ATTACHMENT", p) = stb_get_attachment(p)
         /\ stb_API_mapper("DELETE_ATTACHMENT", p) = stb_delete_attachment(p)
         /\ stb_API_mapper("SEND_MAIL", p) = stb_send_mail(p)
         /\ stb_API_mapper("SEND_SAVED", p) = stb_mail_send_saved(p)
         /\ stb_API_mapper("SEND_RETRY", p) = stb_retry_sending_mail(p)
         /\ stb_API_mapper("SEND_MAIL_CANCEL_JOB", p) = stb_cancel_send_mail_job(p)
         /\ stb_API_mapper("SYNC_HEADER", p) = stb_sync_header(p)
         /\ stb_API_mapper("DOWNLOAD_BODY", p) = stb_download_body(p)
         /\ stb_API_mapper("DOWNLOAD_ATTACHMENT", p) = stb_download_attachment(p)
         /\ stb_API_mapper("CANCEL_JOB", p) = stb_cancel_job(p)
         /\ stb_API_mapper("GET_PENDING_JOB", p) = stb_get_pending_job(p)
         /\ stb_API_mapper("NETWORK_GET_STATUS", p) = stb_get_event_queue_status(p)
         /\ stb_API_mapper("SEARCH_MAIL_ON_SERVER", p) = stb_search_mail_on_server(p)
         /\ stb_API_mapper("CLEAR_RESULT_OF_SEARCH_MAIL_ON_SERVER", p) =
                stb_clear_result_of_search_mail_on_server(p)
         /\ stb_API_mapper("ADD_RULE", p) = stb_add_rule(p)
         /\ stb_API_mapper("UPDATE_RULE", p) = stb_update_rule(p)
         /\ stb_API_mapper("DELETE_RULE", p) = stb_delete_rule(p)
         /\ stb_API_mapper("ADD_CERTIFICATE", p) = stb_add_certificate(p)
         /\ stb_API_mapper("DELETE_CERTIFICATE", p) = stb_delete_certificate(p)
         /\ stb_API_mapper("VERIFY_SIGNATURE", p) = stb_verify_signature(p)
         /\ stb_API_mapper("VERIFY_CERTIFICATE", p) = stb_verify_certificate(p)
         /\ stb_API_mapper("PING_SERVICE", p) = stb_ping_service(p)
         /\ stb_API_mapper("SHOW_USER_MESSAGE", p) = stb_show_user_message(p)
  BY DEF stb_API_mapper

\* Whatever streams of a mail are empty, those behind them are found in their places.
LEMMA MailArgumentsFit ==
  ASSUME NEW shape \in MailShapes
  PROVE  LET args == MailArguments(shape)
         IN  /\ \A r \in DOMAIN args : args[r] \in {r, Empty}
             /\ Values(args) \ {Empty} = {shape[i] : i \in DOMAIN shape} \ {Empty}
             /\ args.sync_server # Unset
<1> DEFINE args == MailArguments(shape)
<1> USE DEF Empty
<1>1. CASE shape = <<"mail", "attachments", "sync_server">>
  <2>1. MailArguments(shape) =
          [mail |-> "mail", attachments |-> "attachments", sync_server |-> "sync_server"]
    BY <1>1 DEF MailArguments, I, S, Int, Stream, Present, Unset, Streams
  <2>2. \A r \in DOMAIN args : args[r] \in {r, Empty}
    BY <2>1
  <2>3. Values(args) \ {Empty} = {shape[i] : i \in DOMAIN shape} \ {Empty}
    BY <1>1, <2>1 DEF Values
  <2>4. args.sync_server # Unset
    BY <2>1 DEF Unset
  <2> QED  BY <2>2, <2>3, <2>4
<1>2. CASE shape = <<"mail", Empty, "sync_server">>
  <2>1. MailArguments(shape) =
          [mail |-> "mail", attachments |-> Empty, sync_server |-> "sync_server"]
    BY <1>2 DEF MailArguments, I, S, Int, Stream, Present, Unset, Streams
  <2>2. \A r \in DOMAIN args : args[r] \in {r, Empty}
    BY <2>1
  <2>3. Values(args) \ {Empty} = {shape[i] : i \in DOMAIN shape} \ {Empty}
    BY <1>2, <2>1 DEF Values
  <2>4. args.sync_server # Unset
    BY <2>1 DEF Unset
  <2> QED  BY <2>2, <2>3, <2>4
<1>3. CASE shape = <<"meeting_mail", "attachments", "meeting", "sync_server">>
  <2>1. MailArguments(shape) =
          [meeting_mail |-> "meeting_mail", attachments |-> "attachments", meeting |-> "meeting",
           sync_server |-> "sync_server"]
    BY <1>3 DEF MailArguments, I, S, Int, Stream, Present, Unset, Streams
  <2>2. \A r \in DOMAIN args : args[r] \in {r, Empty}
    BY <2>1
  <2>3. Values(args) \ {Empty} = {shape[i] : i \in DOMAIN shape} \ {Empty}
    BY <1>3, <2>1 DEF Values
  <2>4. args.sync_server # Unset
    BY <2>1 DEF Unset
  <2> QED  BY <2>2, <2>3, <2>4
<1>4. CASE shape = <<"meeting_mail", Empty, "meeting", "sync_server">>
  <2>1. MailArguments(shape) =
          [meeting_mail |-> "meeting_mail", attachments |-> Empty, meeting |-> "meeting",
           sync_server |-> "sync_server"]
    BY <1>4 DEF MailArguments, I, S, Int, Stream, Present, Unset, Streams
  <2>2. \A r \in DOMAIN args : args[r] \in {r, Empty}
    BY <2>1
  <2>3. Values(args) \ {Empty} = {shape[i] : i \in DOMAIN shape} \ {Empty}
    BY <1>4, <2>1 DEF Values
  <2>4. args.sync_server # Unset
    BY <2>1 DEF Unset
  <2> QED  BY <2>2, <2>3, <2>4
<1> QED  BY <1>1, <1>2, <1>3, <1>4 DEF MailShapes

\* email-api-account.c against its handlers, function by function.
LEMMA AccountsFit == \A f \in AccountFunctions : Fits(f)
<1> USE DEF ArgumentsFit, ResultFits, OutputsFit, Filled, Outcome, Tries, Reports, ReportsWith, Asks, I, S,
           Int, Stream, Present, Empty, Unset, None, Zero, Failed, Streams, Done, Undone, NoArgs,
           NoAnswer, Values, Result, ReadsOutputs, Outputs
<1>1. Fits(email_add_account)
  <2>1. ASSUME NEW o \in stb_create_account(email_add_account.in)
        PROVE  Exchange(email_add_account, o)
    BY DEF Exchange, email_add_account, stb_create_account, Needs
  <2> QED  BY <2>1, MapperIs DEF Fits, email_add_account
<1>2. Fits(email_delete_account)
  <2>1. ASSUME NEW o \in stb_delete_account(email_delete_account.in)
        PROVE  Exchange(email_delete_account, o)
    BY DEF Exchange, email_delete_account, stb_delete_account, NoOutputs
  <2> QED  BY <2>1, MapperIs DEF Fits, email_delete_account, NoOutputs
<1>3. Fits(email_update_account)
  <2>1. ASSUME NEW o \in stb_update_account(email_update_account.in)
        PROVE  Exchange(email_update_account, o)
    BY DEF Exchange, email_update_account, stb_update_account, NoOutputs
  <2> QED  BY <2>1, MapperIs DEF Fits, email_update_account, NoOutputs
<1>4. Fits(email_update_account_with_validation)
  <2>1. ASSUME NEW o \in stb_update_account(email_update_account_with_validation.in)
        PROVE  Exchange(email_update_account_with_validation, o)
    BY DEF Exchange, email_update_account_with_validation, stb_update_account, NoOutputs,
           KnownMisread, KnownUntold, KnownUnfilled
  <2> QED  BY <2>1, MapperIs DEF Fits, email_update_account_with_validation, NoOutputs,
           KnownMisread, KnownUntold, KnownUnfilled
<1>5. Fits(email_validate_account)
  <2>1. ASSUME NEW o \in stb_validate_account(email_validate_account.in)
        PROVE  Exchange(email_validate_account, o)
    BY DEF Exchange, email_validate_account, stb_validate_account
  <2> QED  BY <2>1, MapperIs DEF Fits, email_validate_account
<1>6. Fits(email_add_account_with_validation)
  <2>1. ASSUME NEW o \in stb_create_account_with_validation(email_add_account_with_validation.in)
        PROVE  Exchange(email_add_account_with_validation, o)
    BY DEF Exchange, email_add_account_with_validation,
           stb_create_account_with_validation, Handle, Needs
  <2> QED  BY <2>1, MapperIs DEF Fits, email_add_account_with_validation
<1>7. Fits(email_backup_accounts_into_secure_storage)
  <2>1. ASSUME NEW o \in stb_backup_account(email_backup_accounts_into_secure_storage.in)
        PROVE  Exchange(email_backup_accounts_into_secure_storage, o)
    BY DEF Exchange, email_backup_accounts_into_secure_storage, stb_backup_account,
           NoOutputs, Needs
  <2> QED  BY <2>1, MapperIs DEF Fits, email_backup_accounts_into_secure_storage, NoOutputs
<1>8. Fits(email_restore_accounts_from_secure_storage)
  <2>1. ASSUME NEW o \in stb_restore_account(email_restore_accounts_from_secure_storage.in)
        PROVE  Exchange(email_restore_accounts_from_secure_storage, o)
    BY DEF Exchange, email_restore_accounts_from_secure_storage, stb_restore_account,
           NoOutputs, Needs, KnownMisread, KnownUntold, KnownUnfilled
  <2> QED  BY <2>1, MapperIs DEF Fits, email_restore_accounts_from_secure_storage, NoOutputs,
           KnownMisread, KnownUntold, KnownUnfilled
<1>9. Fits(email_get_password_length_of_account)
  <2>1. ASSUME NEW o \in stb_get_password_length(email_get_password_length_of_account.in)
        PROVE  Exchange(email_get_password_length_of_account, o)
    BY DEF Exchange, email_get_password_length_of_account, stb_get_password_length
  <2> QED  BY <2>1, MapperIs DEF Fits, email_get_password_length_of_account
<1>10. Fits(email_update_notification_bar)
  <2>1. ASSUME NEW o \in stb_update_notification_bar_for_unread_mail(email_update_notification_bar.in)
        PROVE  Exchange(email_update_notification_bar, o)
    BY DEF Exchange, email_update_notification_bar,
           stb_update_notification_bar_for_unread_mail, NoOutputs
  <2> QED  BY <2>1, MapperIs DEF Fits, email_update_notification_bar, NoOutputs
<1> QED  BY <1>1, <1>2, <1>3, <1>4, <1>5, <1>6, <1>7, <1>8, <1>9, <1>10 DEF
             AccountFunctions

\* email-api-mailbox.c against its handlers.
LEMMA MailboxesFit == \A f \in MailboxFunctions : Fits(f)
<1> USE DEF ArgumentsFit, ResultFits, OutputsFit, Filled, Outcome, Tries, Reports, ReportsWith, Asks, I, S,
           Int, Stream, Present, Empty, Unset, None, Zero, Failed, Streams, Done, Undone, NoArgs,
           NoAnswer, Values, Result, ReadsOutputs, Outputs
<1>1. Fits(email_add_mailbox)
  <2>1. ASSUME NEW o \in stb_create_mailbox(email_add_mailbox.in)
        PROVE  Exchange(email_add_mailbox, o)
    BY DEF Exchange, email_add_mailbox, stb_create_mailbox, OrEngine, Needs
  <2> QED  BY <2>1, MapperIs DEF Fits, email_add_mailbox, OrEngine
<1>2. Fits(email_rename_mailbox)
  <2>1. ASSUME NEW o \in stb_rename_mailbox(email_rename_mailbox.in)
        PROVE  Exchange(email_rename_mailbox, o)
    BY DEF Exchange, email_rename_mailbox, stb_rename_mailbox, OrEngine, NoOutputs
  <2> QED  BY <2>1, MapperIs DEF Fits, email_rename_mailbox, OrEngine, NoOutputs
<1>3. Fits(email_delete_mailbox)
  <2>1. ASSUME NEW o \in stb_delete_mailbox(email_delete_mailbox.in)
        PROVE  Exchange(email_delete_mailbox, o)
    BY DEF Exchange, email_delete_mailbox, stb_delete_mailbox, Handle, OrEngine
  <2> QED  BY <2>1, MapperIs DEF Fits, email_delete_mailbox, OrEngine
<1>4. Fits(email_set_mailbox_type)
  <2>1. ASSUME NEW o \in stb_set_mailbox_type(email_set_mailbox_type.in)
        PROVE  Exchange(email_set_mailbox_type, o)
    BY DEF Exchange, email_set_mailbox_type, stb_set_mailbox_type, NoOutputs,
           KnownMisread, KnownUntold, KnownUnfilled
  <2> QED  BY <2>1, MapperIs DEF Fits, email_set_mailbox_type, NoOutputs,
           KnownMisread, KnownUntold, KnownUnfilled
<1>5. Fits(email_set_mail_slot_size)
  <2>1. ASSUME NEW o \in stb_set_mail_slot_size_of_mailbox(email_set_mail_slot_size.in)
        PROVE  Exchange(email_set_mail_slot_size, o)
    BY DEF Exchange, email_set_mail_slot_size, stb_set_mail_slot_size_of_mailbox,
           NoOutputs
  <2> QED  BY <2>1, MapperIs DEF Fits, email_set_mail_slot_size, NoOutputs
<1> QED  BY <1>1, <1>2, <1>3, <1>4, <1>5 DEF MailboxFunctions

\* email-api-mail.c against its handlers; a mail comes in four shapes.
LEMMA MailsFit == \A f \in MailFunctions : Fits(f)
<1> USE DEF ArgumentsFit, ResultFits, OutputsFit, Filled, Outcome, Tries, Reports, ReportsWith, Asks, I, S,
           Int, Stream, Present, Empty, Unset, None, Zero, Failed, Streams, Done, Undone, NoArgs,
           NoAnswer, Values, Result, ReadsOutputs, Outputs
<1>1. ASSUME NEW shape \in MailShapes PROVE Fits(email_add_mail(shape))
  <2>1. ASSUME NEW o \in stb_add_mail(shape) PROVE Exchange(email_add_mail(shape), o)
    <3>1. o \in Unpacked(shape, Tries(MailArguments(shape),
                                    <<None, "mail_id", "thread_id">>, <<Failed>>))
      BY MailArgumentsFit DEF stb_add_mail
    <3>2. ArgumentsFit(email_add_mail(shape), o)
      BY <3>1, MailArgumentsFit DEF Unpacked, email_add_mail, OrCaller
    <3>3. ResultFits(email_add_mail(shape), o)
      BY <3>1 DEF Unpacked, email_add_mail, OrCaller
    <3>4. OutputsFit(email_add_mail(shape), o)
      BY <3>1 DEF Unpacked, email_add_mail, OrCaller, NewMail
    <3> QED  BY <3>2, <3>3, <3>4 DEF Exchange
  <2> QED  BY <2>1, MapperIs DEF Fits, email_add_mail, OrCaller
<1>2. ASSUME NEW shape \in MailShapes PROVE Fits(email_update_mail(shape))
  <2>1. ASSUME NEW o \in stb_update_mail(shape) PROVE Exchange(email_update_mail(shape), o)
    <3>1. o \in Unpacked(shape, Tries(MailArguments(shape),
                                    <<None, "mail_id", "thread_id">>, <<Failed>>))
      BY MailArgumentsFit DEF stb_update_mail
    <3>2. ArgumentsFit(email_update_mail(shape), o)
      BY <3>1, MailArgumentsFit DEF Unpacked, email_update_mail, OrCaller
    <3>3. ResultFits(email_update_mail(shape), o)
      BY <3>1 DEF Unpacked, email_update_mail, OrCaller
    <3>4. OutputsFit(email_update_mail(shape), o)
      BY <3>1 DEF Unpacked, email_update_mail, OrCaller, NewMail
    <3> QED  BY <3>2, <3>3, <3>4 DEF Exchange
  <2> QED  BY <2>1, MapperIs DEF Fits, email_update_mail, OrCaller
<1>3. Fits(email_add_read_receipt)
  <2>1. ASSUME NEW o \in stb_add_read_receipt(email_add_read_receipt.in)
        PROVE  Exchange(email_add_read_receipt, o)
    BY DEF Exchange, email_add_read_receipt, stb_add_read_receipt
  <2> QED  BY <2>1, MapperIs DEF Fits, email_add_read_receipt
<1>4. Fits(email_clear_mail_data)
  <2>1. ASSUME NEW o \in stb_clear_mail_data(email_clear_mail_data.in)
        PROVE  Exchange(email_clear_mail_data, o)
    BY DEF Exchange, email_clear_mail_data, stb_clear_mail_data, Unchecked, NoOutputs
  <2> QED  BY <2>1, MapperIs DEF Fits, email_clear_mail_data, Unchecked, NoOutputs
<1>5. Fits(email_delete_mail)
  <2>1. ASSUME NEW o \in stb_delete_mail(email_delete_mail.in)
        PROVE  Exchange(email_delete_mail, o)
    BY DEF Exchange, email_delete_mail, stb_delete_mail, NoOutputs
  <2> QED  BY <2>1, MapperIs DEF Fits, email_delete_mail, NoOutputs
<1>6. Fits(email_delete_all_mails_in_mailbox)
  <2>1. ASSUME NEW o \in stb_delete_all_mails(email_delete_all_mails_in_mailbox.in)
        PROVE  Exchange(email_delete_all_mails_in_mailbox, o)
    BY DEF Exchange, email_delete_all_mails_in_mailbox, stb_delete_all_mails, NoOutputs
  <2> QED  BY <2>1, MapperIs DEF Fits, email_delete_all_mails_in_mailbox, NoOutputs
<1>7. Fits(email_add_attachment)
  <2>1. ASSUME NEW o \in stb_add_attachment(email_add_attachment.in)
        PROVE  Exchange(email_add_attachment, o)
    BY DEF Exchange, email_add_attachment, stb_add_attachment, Silent
  <2> QED  BY <2>1, MapperIs DEF Fits, email_add_attachment
<1>8. Fits(email_delete_attachment)
  <2>1. ASSUME NEW o \in stb_delete_attachment(email_delete_attachment.in)
        PROVE  Exchange(email_delete_attachment, o)
    BY DEF Exchange, email_delete_attachment, stb_delete_attachment, NoOutputs
  <2> QED  BY <2>1, MapperIs DEF Fits, email_delete_attachment, NoOutputs
<1>9. Fits(email_get_attachment_data)
  <2>1. ASSUME NEW o \in stb_get_attachment(email_get_attachment_data.in)
        PROVE  Exchange(email_get_attachment_data, o)
    BY DEF Exchange, email_get_attachment_data, stb_get_attachment, Silent
  <2> QED  BY <2>1, MapperIs DEF Fits, email_get_attachment_data
<1>10. Fits(email_set_flags_field)
  <2>1. ASSUME NEW o \in stb_set_flags_field(email_set_flags_field.in)
        PROVE  Exchange(email_set_flags_field, o)
    BY DEF Exchange, email_set_flags_field, stb_set_flags_field, NoOutputs
  <2> QED  BY <2>1, MapperIs DEF Fits, email_set_flags_field, NoOutputs
<1>11. Fits(email_move_mail_to_mailbox)
  <2>1. ASSUME NEW o \in stb_move_mail(email_move_mail_to_mailbox.in)
        PROVE  Exchange(email_move_mail_to_mailbox, o)
    BY DEF Exchange, email_move_mail_to_mailbox, stb_move_mail, NoOutputs
  <2> QED  BY <2>1, MapperIs DEF Fits, email_move_mail_to_mailbox, NoOutputs
<1>12. Fits(email_move_all_mails_to_mailbox)
  <2>1. ASSUME NEW o \in stb_move_all_mails(email_move_all_mails_to_mailbox.in)
        PROVE  Exchange(email_move_all_mails_to_mailbox, o)
    BY DEF Exchange, email_move_all_mails_to_mailbox, stb_move_all_mails, NoOutputs
  <2> QED  BY <2>1, MapperIs DEF Fits, email_move_all_mails_to_mailbox, NoOutputs
<1>13. Fits(email_cancel_sending_mail)
  <2>1. ASSUME NEW o \in stb_cancel_send_mail_job(email_cancel_sending_mail.in)
        PROVE  Exchange(email_cancel_sending_mail, o)
    BY DEF Exchange, email_cancel_sending_mail, stb_cancel_send_mail_job, NoOutputs
  <2> QED  BY <2>1, MapperIs DEF Fits, email_cancel_sending_mail, NoOutputs
<1>14. Fits(email_retry_sending_mail)
  <2>1. ASSUME NEW o \in stb_retry_sending_mail(email_retry_sending_mail.in)
        PROVE  Exchange(email_retry_sending_mail, o)
    BY DEF Exchange, email_retry_sending_mail, stb_retry_sending_mail, NoOutputs
  <2> QED  BY <2>1, MapperIs DEF Fits, email_retry_sending_mail, NoOutputs
<1>15. Fits(email_move_thread_to_mailbox)
  <2>1. ASSUME NEW o \in stb_move_thread_to_mailbox(email_move_thread_to_mailbox.in)
        PROVE  Exchange(email_move_thread_to_mailbox, o)
    BY DEF Exchange, email_move_thread_to_mailbox, stb_move_thread_to_mailbox, NoOutputs
  <2> QED  BY <2>1, MapperIs DEF Fits, email_move_thread_to_mailbox, NoOutputs
<1>16. Fits(email_delete_thread)
  <2>1. ASSUME NEW o \in stb_delete_thread(email_delete_thread.in)
        PROVE  Exchange(email_delete_thread, o)
    BY DEF Exchange, email_delete_thread, stb_delete_thread, Unchecked, NoOutputs
  <2> QED  BY <2>1, MapperIs DEF Fits, email_delete_thread, Unchecked, NoOutputs
<1>17. Fits(email_modify_seen_flag_of_thread)
  <2>1. ASSUME NEW o \in stb_modify_seen_flag_of_thread(email_modify_seen_flag_of_thread.in)
        PROVE  Exchange(email_modify_seen_flag_of_thread, o)
    BY DEF Exchange, email_modify_seen_flag_of_thread, stb_modify_seen_flag_of_thread,
           Unchecked, NoOutputs
  <2> QED  BY <2>1, MapperIs DEF Fits, email_modify_seen_flag_of_thread, Unchecked, NoOutputs
<1>18. Fits(email_expunge_mails_deleted_flagged)
  <2>1. ASSUME NEW o \in stb_expunge_mails_deleted_flagged(email_expunge_mails_deleted_flagged.in)
        PROVE  Exchange(email_expunge_mails_deleted_flagged, o)
    BY DEF Exchange, email_expunge_mails_deleted_flagged,
           stb_expunge_mails_deleted_flagged, Handle, OrEngine
  <2> QED  BY <2>1, MapperIs DEF Fits, email_expunge_mails_deleted_flagged, OrEngine
<1> QED  BY <1>1, <1>2, <1>3, <1>4, <1>5, <1>6, <1>7, <1>8, <1>9, <1>10, <1>11, <1>12,
             <1>13, <1>14, <1>15, <1>16, <1>17, <1>18 DEF MailFunctions

\* email-api-network.c against its handlers.
LEMMA NetworkFits == \A f \in NetworkFunctions : Fits(f)
<1> USE DEF ArgumentsFit, ResultFits, OutputsFit, Filled, Outcome, Tries, Reports, ReportsWith, Asks, I, S,
           Int, Stream, Present, Empty, Unset, None, Zero, Failed, Streams, Done, Undone, NoArgs,
           NoAnswer, Values, Result, ReadsOutputs, Outputs
<1>1. Fits(email_send_mail)
  <2>1. ASSUME NEW o \in stb_send_mail(email_send_mail.in) PROVE Exchange(email_send_mail, o)
    BY DEF Exchange, email_send_mail, stb_send_mail, Handle, OrEngine, Silent
  <2> QED  BY <2>1, MapperIs DEF Fits, email_send_mail, OrEngine
<1>2. Fits(email_send_saved)
  <2>1. ASSUME NEW o \in stb_mail_send_saved(email_send_saved.in)
        PROVE  Exchange(email_send_saved, o)
    BY DEF Exchange, email_send_saved, stb_mail_send_saved, NoOutputs, Silent
  <2> QED  BY <2>1, MapperIs DEF Fits, email_send_saved, NoOutputs
<1>3. Fits(email_sync_header)
  <2>1. ASSUME NEW o \in stb_sync_header(email_sync_header.in)
        PROVE  Exchange(email_sync_header, o)
    BY DEF Exchange, email_sync_header, stb_sync_header, Handle, OrEngine
  <2> QED  BY <2>1, MapperIs DEF Fits, email_sync_header, OrEngine
<1>4. Fits(email_sync_header_for_all_account)
  <2>1. ASSUME NEW o \in stb_sync_header(email_sync_header_for_all_account.in)
        PROVE  Exchange(email_sync_header_for_all_account, o)
    BY DEF Exchange, email_sync_header_for_all_account, stb_sync_header, Handle,
           EngineLast, Unchecked
  <2> QED  BY <2>1, MapperIs DEF Fits, email_sync_header_for_all_account, EngineLast, Unchecked,
           KnownUnfilled
<1>5. Fits(email_download_body)
  <2>1. ASSUME NEW o \in stb_download_body(email_download_body.in)
        PROVE  Exchange(email_download_body, o)
    BY DEF Exchange, email_download_body, stb_download_body, Handle, OrEngine,
           KnownMisread, KnownUntold, KnownUnfilled
  <2> QED  BY <2>1, MapperIs DEF Fits, email_download_body, OrEngine,
           KnownMisread, KnownUntold, KnownUnfilled
<1>6. Fits(email_download_attachment)
  <2>1. ASSUME NEW o \in stb_download_attachment(email_download_attachment.in)
        PROVE  Exchange(email_download_attachment, o)
    BY DEF Exchange, email_download_attachment, stb_download_attachment, Handle, OrEngine,
           KnownMisread, KnownUntold, KnownUnfilled
  <2> QED  BY <2>1, MapperIs DEF Fits, email_download_attachment, OrEngine,
           KnownMisread, KnownUntold, KnownUnfilled
<1>7. ASSUME NEW all \in BOOLEAN PROVE Fits(email_cancel_job(all))
  <2>1. ASSUME NEW o \in stb_cancel_job(email_cancel_job(all).in)
        PROVE  Exchange(email_cancel_job(all), o)
    BY DEF Exchange, email_cancel_job, stb_cancel_job, OrEngine, EngineFirst, NoOutputs
  <2> QED  BY <2>1, MapperIs DEF Fits, email_cancel_job, OrEngine, EngineFirst, NoOutputs
<1>8. Fits(email_get_pending_job)
  <2>1. ASSUME NEW o \in stb_get_pending_job(email_get_pending_job.in)
        PROVE  Exchange(email_get_pending_job, o)
    BY DEF Exchange, email_get_pending_job, stb_get_pending_job
  <2> QED  BY <2>1, MapperIs DEF Fits, email_get_pending_job
<1>9. Fits(email_get_network_status)
  <2>1. ASSUME NEW o \in stb_get_event_queue_status(email_get_network_status.in)
        PROVE  Exchange(email_get_network_status, o)
    BY DEF Exchange, email_get_network_status, stb_get_event_queue_status, Unchecked
  <2> QED  BY <2>1, MapperIs DEF Fits, email_get_network_status, Unchecked
<1>10. Fits(email_sync_imap_mailbox_list)
  <2>1. ASSUME NEW o \in stb_get_imap_mailbox_list(email_sync_imap_mailbox_list.in)
        PROVE  Exchange(email_sync_imap_mailbox_list, o)
    BY DEF Exchange, email_sync_imap_mailbox_list, stb_get_imap_mailbox_list, Handle,
           KnownMisread, KnownUntold, KnownUnfilled
  <2> QED  BY <2>1, MapperIs DEF Fits, email_sync_imap_mailbox_list,
           KnownMisread, KnownUntold, KnownUnfilled
<1>11. Fits(email_search_mail_on_server)
  <2>1. ASSUME NEW o \in stb_search_mail_on_server(email_search_mail_on_server.in)
        PROVE  Exchange(email_search_mail_on_server, o)
    BY DEF Exchange, email_search_mail_on_server, stb_search_mail_on_server, Handle,
           OrEngine, Silent
  <2> QED  BY <2>1, MapperIs DEF Fits, email_search_mail_on_server, OrEngine
<1>12. Fits(email_clear_result_of_search_mail_on_server)
  <2>1. ASSUME NEW o \in stb_clear_result_of_search_mail_on_server(email_clear_result_of_search_mail_on_server.in)
        PROVE  Exchange(email_clear_result_of_search_mail_on_server, o)
    BY DEF Exchange, email_clear_result_of_search_mail_on_server,
           stb_clear_result_of_search_mail_on_server, OrEngine, NoOutputs, KnownMisread,
           KnownUntold, KnownUnfilled
  <2> QED  BY <2>1, MapperIs DEF Fits, email_clear_result_of_search_mail_on_server, OrEngine, NoOutputs,
           KnownMisread, KnownUntold, KnownUnfilled
<1> QED  BY <1>1, <1>2, <1>3, <1>4, <1>5, <1>6, <1>7, <1>8, <1>9, <1>10, <1>11, <1>12 DEF
             NetworkFunctions

\* The functions for rules, certificates and the rest against their handlers.
LEMMA OthersFit == \A f \in OtherFunctions : Fits(f)
<1> USE DEF ArgumentsFit, ResultFits, OutputsFit, Filled, Outcome, Tries, Reports, ReportsWith, Asks, I, S,
           Int, Stream, Present, Empty, Unset, None, Zero, Failed, Streams, Done, Undone, NoArgs,
           NoAnswer, Values, Result, ReadsOutputs, Outputs
<1>1. Fits(email_add_rule)
  <2>1. ASSUME NEW o \in stb_add_rule(email_add_rule.in) PROVE Exchange(email_add_rule, o)
    BY DEF Exchange, email_add_rule, stb_add_rule, NoOutputs, Needs
  <2> QED  BY <2>1, MapperIs DEF Fits, email_add_rule, NoOutputs
<1>2. Fits(email_update_rule)
  <2>1. ASSUME NEW o \in stb_update_rule(email_update_rule.in)
        PROVE  Exchange(email_update_rule, o)
    BY DEF Exchange, email_update_rule, stb_update_rule, NoOutputs, Needs
  <2> QED  BY <2>1, MapperIs DEF Fits, email_update_rule, NoOutputs
<1>3. Fits(email_delete_rule)
  <2>1. ASSUME NEW o \in stb_delete_rule(email_delete_rule.in)
        PROVE  Exchange(email_delete_rule, o)
    BY DEF Exchange, email_delete_rule, stb_delete_rule, NoOutputs
  <2> QED  BY <2>1, MapperIs DEF Fits, email_delete_rule, NoOutputs
<1>4. Fits(email_add_certificate)
  <2>1. ASSUME NEW o \in stb_add_certificate(email_add_certificate.in)
        PROVE  Exchange(email_add_certificate, o)
    BY DEF Exchange, email_add_certificate, stb_add_certificate, NoOutputs
  <2> QED  BY <2>1, MapperIs DEF Fits, email_add_certificate, NoOutputs
<1>5. Fits(email_delete_certificate)
  <2>1. ASSUME NEW o \in stb_delete_certificate(email_delete_certificate.in)
        PROVE  Exchange(email_delete_certificate, o)
    BY DEF Exchange, email_delete_certificate, stb_delete_certificate, NoOutputs
  <2> QED  BY <2>1, MapperIs DEF Fits, email_delete_certificate, NoOutputs
<1>6. Fits(email_verify_signature)
  <2>1. ASSUME NEW o \in stb_verify_signature(email_verify_signature.in)
        PROVE  Exchange(email_verify_signature, o)
    BY DEF Exchange, email_verify_signature, stb_verify_signature, Verifies, KnownMisread,
           KnownUntold, KnownUnfilled
  <2> QED  BY <2>1, MapperIs DEF Fits, email_verify_signature,
           KnownMisread, KnownUntold, KnownUnfilled
<1>7. Fits(email_verify_certificate)
  <2>1. ASSUME NEW o \in stb_verify_certificate(email_verify_certificate.in)
        PROVE  Exchange(email_verify_certificate, o)
    BY DEF Exchange, email_verify_certificate, stb_verify_certificate, Verifies,
           KnownMisread, KnownUntold, KnownUnfilled
  <2> QED  BY <2>1, MapperIs DEF Fits, email_verify_certificate,
           KnownMisread, KnownUntold, KnownUnfilled
<1>8. Fits(email_show_user_message)
  <2>1. ASSUME NEW o \in stb_show_user_message(email_show_user_message.in)
        PROVE  Exchange(email_show_user_message, o)
    BY DEF Exchange, email_show_user_message, stb_show_user_message, NoOutputs,
           KnownMisread, KnownUntold, KnownUnfilled
  <2> QED  BY <2>1, MapperIs DEF Fits, email_show_user_message, NoOutputs,
           KnownMisread, KnownUntold, KnownUnfilled
<1>9. Fits(email_ping_service)
  <2>1. ASSUME NEW o \in stb_ping_service(email_ping_service.in)
        PROVE  Exchange(email_ping_service, o)
    BY DEF Exchange, email_ping_service, stb_ping_service, Unchecked, NoOutputs
  <2> QED  BY <2>1, MapperIs DEF Fits, email_ping_service, Unchecked, NoOutputs
<1> QED  BY <1>1, <1>2, <1>3, <1>4, <1>5, <1>6, <1>7, <1>8, <1>9 DEF OtherFunctions
-----------------------------------------------------------------------------
\* Every function of the client library and the handler of its request agree on
\* what the places of the parameters and of the answer mean, with the
\* eleven functions of KnownMisread, KnownUntold and KnownUnfilled set apart.
THEOREM FunctionsFit == \A f \in ClientFunctions : Fits(f)
  BY AccountsFit, MailboxesFit, MailsFit, NetworkFits, OthersFit DEF ClientFunctions

-----------------------------------------------------------------------------
(* The call on its way *)

Answers(f) == stb_API_mapper(f.api, f.in)

\* What the application is told when its call returns.
Tells ==
    /\ call.name \notin KnownUntold =>
        /\ result = None => served.end = Done \/ notified
        /\ result # None /\ ~lost /\ call.other # "after" => served.end = Undone
    /\ call.name \notin KnownUnfilled /\ result = None => Filled(call, outputs)

\* The daemon has served the request of this call or none, the answer on its
\* way is the one of its handler, and a loss ends the call.
IInv ==
    /\ at \in {"idle", "sent", "answered", "returned"} /\ notified \in BOOLEAN /\ lost \in BOOLEAN
    /\ at = "idle" => served = NotServed /\ ~lost
    /\ at # "idle" => call \in Calls /\ served \in {NotServed} \cup Answers(call)
    /\ at = "sent" => request = call.in /\ ~lost
    /\ at = "answered" =>
        served \in Answers(call) /\ reply = served.out /\ reply # NoAnswer /\ ~lost
    /\ at = "returned" => Tells

LEMMA InitInvariant == Init => IInv
  BY DEF Init, IInv

\* An error is not NONE, and a call that was refused was not done.
LEMMA RefusedTells ==
  ASSUME NEW f, call' = f, result' = Failed, served' = NotServed
  PROVE  Tells'
  BY DEF Tells, Failed, None, NotServed

LEMMA SendInvariant == ASSUME IInv, NEW f \in Calls, Send(f) PROVE IInv'
  BY DEF IInv, Send

LEMMA RefuseInvariant == ASSUME IInv, NEW f \in Calls, Refuse(f) PROVE IInv'
<1>1. Tells'
  BY RefusedTells DEF IInv, Refuse, Returns
<1> QED  BY <1>1 DEF IInv, Refuse, Returns

LEMMA BypassInvariant == ASSUME IInv, NEW f \in Calls, Bypass(f) PROVE IInv'
<1>1. call' = f /\ served' = NotServed /\ lost' = lost /\ at' = "returned" /\ at = "idle"
  BY DEF IInv, Bypass, Returns
<1>2. CASE notified' = TRUE /\ Returns(None, [r \in DOMAIN f.fills |-> r])
  <2>1. Filled(call', outputs')
    BY <1>1, <1>2 DEF Filled, Returns
  <2>2. Tells'
    BY <1>1, <1>2, <2>1 DEF Tells, Returns
  <2> QED  BY <1>1, <1>2, <2>2 DEF IInv
<1>3. CASE notified' = FALSE /\ Returns(Failed, Nothing(f))
  <2>1. Tells'
    BY <1>1, <1>3, RefusedTells DEF Returns
  <2> QED  BY <1>1, <1>3, <2>1 DEF IInv
<1> QED  BY <1>2, <1>3 DEF Bypass

LEMMA DispatchInvariant == ASSUME IInv, Dispatch PROVE IInv'
<1>1. PICK outcome \in stb_API_mapper(call.api, request) : Answer(outcome)
  BY DEF Dispatch
<1>2. outcome \in Answers(call)
  BY <1>1 DEF IInv, Dispatch, Answers
<1>3. CASE outcome.out = NoAnswer
  BY <1>1, <1>2, <1>3 DEF IInv, Dispatch, Answer, Answers
<1>4. CASE outcome.out # NoAnswer
  BY <1>1, <1>2, <1>4 DEF IInv, Dispatch, Answer, Answers
<1> QED  BY <1>3, <1>4

\* Whatever the daemon has done, the caller is told of the loss, except by the
\* two functions that do not notice it.
LEMMA LoseInvariant == ASSUME IInv, Lose PROVE IInv'
<1>1. /\ call \in ClientFunctions /\ call' = call /\ served' = served /\ lost' = TRUE
      /\ at' = "returned" /\ notified' = notified /\ at # "idle"
  BY CallsAssumption DEF IInv, Lose, Returns
<1>2. CASE call.noticed
  <2>1. Tells'
    BY <1>1, <1>2 DEF Lose, Returns, Tells, Failed, None
  <2> QED  BY <1>1, <2>1 DEF IInv, Answers
<1>3. CASE ~call.noticed
  <2>1. Fits(call)
    BY <1>1, FunctionsFit
  <2>2. call.name \in KnownUntold
    BY <1>3, <2>1 DEF Fits
  <2>3. call.name \notin KnownUnfilled => Filled(call', outputs')
    BY <1>1, <1>3, <2>1 DEF Fits, Filled
  <2>4. Tells'
    BY <1>1, <2>2, <2>3 DEF Tells
  <2> QED  BY <1>1, <2>4 DEF IInv, Answers
<1> QED  BY <1>2, <1>3

LEMMA ReturnInvariant == ASSUME IInv, Return PROVE IInv'
<1> DEFINE verdict == Result(call.verdict, reply)
           engine == call.other = "after" /\ verdict = None
<1>1. /\ call \in ClientFunctions /\ served \in Answers(call) /\ reply = served.out
      /\ reply # NoAnswer /\ call' = call /\ served' = served /\ lost' = lost /\ at' = "returned"
      /\ at # "idle"
  BY CallsAssumption DEF IInv, Return, Returns
<1>2. Exchange(call, served)
  BY <1>1, FunctionsFit DEF Fits, Answers
<1>3. CASE Returns(verdict, Outputs(call, reply)) /\ (engine => notified' \in BOOLEAN)
           /\ (~engine => notified' = notified)
  <2>1. result' = verdict /\ outputs' = Outputs(call, reply) /\ notified' \in BOOLEAN
    BY <1>3 DEF Returns, IInv
  <2>2. call.name \notin KnownUntold =>
            (verdict = None => served.end = Done) /\ (verdict # None => served.end = Undone)
    BY <1>1, <1>2 DEF Exchange, ResultFits
  <2>3. call.name \notin KnownUnfilled /\ verdict = None => Filled(call, Outputs(call, reply))
    BY <1>1, <1>2 DEF Exchange, OutputsFit
  <2>4. Done # Undone
    BY DEF Done, Undone
  <2>5. Tells'
    BY <1>1, <2>1, <2>2, <2>3, <2>4 DEF Tells
  <2> QED  BY <1>1, <2>1, <2>5 DEF IInv, Answers
<1>4. CASE engine /\ Returns(Failed, Nothing(call)) /\ UNCHANGED notified
  <2>1. Tells'
    BY <1>1, <1>4 DEF Tells, Returns, Failed, None
  <2> QED  BY <1>1, <1>4, <2>1 DEF IInv, Answers
<1>5. CASE engine /\ Returns(None, Nothing(call)) /\ UNCHANGED notified
  <2>1. call.name \notin KnownUntold => served.end = Done
    BY <1>1, <1>2, <1>5 DEF Exchange, ResultFits
  <2>2. call.name \notin KnownUnfilled => Filled(call, outputs')
    BY <1>1, <1>5, FunctionsFit DEF Fits, Filled
  <2>3. Tells'
    BY <1>1, <1>5, <2>1, <2>2 DEF Tells, Returns
  <2> QED  BY <1>1, <1>5, <2>3 DEF IInv, Answers
<1> QED  BY <1>3, <1>4, <1>5 DEF Return

LEMMA FinishInvariant == ASSUME IInv, Finish PROVE IInv'
  BY DEF IInv, Finish

LEMMA NextInvariant == ASSUME IInv, [Next]_vars PROVE IInv'
<1>1. ASSUME NEW f \in Calls, Send(f) \/ Refuse(f) \/ Bypass(f) PROVE IInv'
  BY <1>1, SendInvariant, RefuseInvariant, BypassInvariant
<1>2. CASE UNCHANGED vars
  BY <1>2 DEF vars, IInv, Tells
<1> QED
  BY <1>1, <1>2, DispatchInvariant, LoseInvariant, ReturnInvariant, FinishInvariant DEF Next

\* Whatever the application calls and whatever is lost, the daemon serves the
\* request of the call under way or none, and the answer it gives is the one taken.
THEOREM Invariance == Spec => []IInv
  BY InitInvariant, NextInvariant, PTL DEF Spec

-----------------------------------------------------------------------------
\* The daemon's function is given every parameter of the call, each for what it
\* is, by every function but email_clear_result_of_search_mail_on_server, which
\* sends a mailbox where its handler reads an account.
THEOREM ParametersArrive == KnownMisread \subseteq Misread => (Spec => []ArgumentsArrive)
<1> SUFFICES ASSUME KnownMisread \subseteq Misread PROVE Spec => []ArgumentsArrive
  OBVIOUS
<1>1. ASSUME IInv PROVE ArgumentsArrive
  <2> SUFFICES ASSUME Acted, call.name \notin Misread PROVE ArgumentsFit(call, served)
    BY DEF ArgumentsArrive, ArgumentsFit, Acted
  <2>1. served # NotServed
    BY DEF Acted, NotServed
  <2>2. call \in ClientFunctions /\ served \in Answers(call)
    BY <1>1, <2>1, CallsAssumption DEF IInv
  <2> QED  BY <2>2, FunctionsFit DEF Fits, Exchange, Answers
<1> QED  BY <1>1, Invariance, PTL

\* NONE is returned only for what was done and an error only for what was not,
\* unless the exchange failed, by all but ten functions.
THEOREM ResultsTell == KnownUntold \subseteq Untold => (Spec => []ResultTells)
<1> SUFFICES ASSUME KnownUntold \subseteq Untold PROVE Spec => []ResultTells
  OBVIOUS
<1>1. ASSUME IInv PROVE ResultTells
  BY <1>1 DEF IInv, Tells, ResultTells
<1> QED  BY <1>1, Invariance, PTL

\* A call that returns NONE has filled every output, each with what it is named
\* for, in all but four functions.
THEOREM OutputsFilled == KnownUnfilled \subseteq Unfilled => (Spec => []OutputsAreFilled)
<1> SUFFICES ASSUME KnownUnfilled \subseteq Unfilled PROVE Spec => []OutputsAreFilled
  OBVIOUS
<1>1. ASSUME IInv PROVE OutputsAreFilled
  BY <1>1 DEF IInv, Tells, OutputsAreFilled, Filled
<1> QED  BY <1>1, Invariance, PTL
=============================================================================
