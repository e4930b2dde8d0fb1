-------------------------------- MODULE Api -------------------------------
(***************************************************************************)
(* A call of the client library from the application to the daemon and     *)
(* back: the function of ApiClient writes the request, the dispatcher of   *)
(* email-daemon/main.c gives it to a handler of ApiStub, and the function  *)
(* takes its result and its outputs out of the answer.  The exchange may   *)
(* fail before or after the daemon has acted (module Ipc says how).  The   *)
(* ActiveSync engine, another process, serves the accounts of its own.     *)
(***************************************************************************)
EXTENDS ApiClient, ApiStub

CONSTANTS
    Calls,       \* the calls the application makes
    Misread,     \* the functions (by name) whose parameters are known to be misread
    Untold,      \* those whose result is known not to tell what happened
    Unfilled     \* those that are known to return NONE and leave outputs unset

ASSUME CallsAssumption == Calls \subseteq ClientFunctions

VARIABLES
    at,          \* how far the call has got
    call,        \* the function called
    request,     \* its IN list
    served,      \* what the daemon made of it
    notified,    \* whether the engine, or the caller itself, has served it
    reply,       \* the OUT list
    lost,        \* whether the exchange failed
    result, outputs

vars == <<at, call, request, served, notified, reply, lost, result, outputs>>

NoCall == [name |-> "no_call"]
NotServed == [end |-> Undone]

-----------------------------------------------------------------------------
(* stb_API_mapper: the request decides the handler *)
stb_API_mapper(api, p) ==
    CASE api = "ADD_ACCOUNT" -> stb_create_account(p)
      [] api = "DELETE_ACCOUNT" -> stb_delete_account(p)
      [] api = "UPDATE_ACCOUNT" -> stb_update_account(p)
      [] api = "VALIDATE_ACCOUNT" -> stb_validate_account(p)
      [] api = "ADD_ACCOUNT_WITH_VALIDATION" -> stb_create_account_with_validation(p)
      [] api = "BACKUP_ACCOUNTS" -> stb_backup_account(p)
      [] api = "RESTORE_ACCOUNTS" -> stb_restore_account(p)
      [] api = "GET_PASSWORD_LENGTH_OF_ACCOUNT" -> stb_get_password_length(p)
      [] api = "UPDATE_NOTIFICATION_BAR_FOR_UNREAD_MAIL" ->
             stb_update_notification_bar_for_unread_mail(p)
      [] api = "ADD_MAILBOX" -> stb_create_mailbox(p)
      [] api = "DELETE_MAILBOX" -> stb_delete_mailbox(p)
      [] api = "SET_MAILBOX_TYPE" -> stb_set_mailbox_type(p)
      [] api = "SET_MAIL_SLOT_SIZE" -> stb_set_mail_slot_size_of_mailbox(p)
      [] api = "RENAME_MAILBOX" -> stb_rename_mailbox(p)
      [] api = "GET_IMAP_MAILBOX_LIST" -> stb_get_imap_mailbox_list(p)
      [] api = "ADD_MAIL" -> stb_add_mail(p)
      [] api = "UPDATE_MAIL" -> stb_update_mail(p)
      [] api = "ADD_READ_RECEIPT" -> stb_add_read_receipt(p)
      [] api = "CLEAR_DATA" -> stb_clear_mail_data(p)
      [] api = "DELETE_ALL_MAIL" -> stb_delete_all_mails(p)
      [] api = "DELETE_MAIL" -> stb_delete_mail(p)
      [] api = "MOVE_MAIL" -> stb_move_mail(p)
      [] api = "MOVE_ALL_MAIL" -> stb_move_all_mails(p)
      [] api = "SET_FLAGS_FIELD" -> stb_set_flags_field(p)
      [] api = "MOVE_THREAD_TO_MAILBOX" -> stb_move_thread_to_mailbox(p)
      [] api = "DELETE_THREAD" -> stb_delete_thread(p)
      [] api = "MODIFY_SEEN_FLAG_OF_THREAD" -> stb_modify_seen_flag_of_thread(p)
      [] api = "EXPUNGE_MAILS_DELETED_FLAGGED" -> stb_expunge_mails_deleted_flagged(p)
      [] api = "ADD_ATTACHMENT" -> stb_add_attachment(p)
      [] api = "GET_ATTACHMENT" -> stb_get_attachment(p)
      [] api = "DELETE_ATTACHMENT" -> stb_delete_attachment(p)
      [] api = "SEND_MAIL" -> stb_send_mail(p)
      [] api = "SEND_SAVED" -> stb_mail_send_saved(p)
      [] api = "SEND_RETRY" -> stb_retry_sending_mail(p)
      [] api = "SEND_MAIL_CANCEL_JOB" -> stb_cancel_send_mail_job(p)
      [] api = "SYNC_HEADER" -> stb_sync_header(p)
      [] api = "DOWNLOAD_BODY" -> stb_download_body(p)
      [] api = "DOWNLOAD_ATTACHMENT" -> stb_download_attachment(p)
      [] api = "CANCEL_JOB" -> stb_cancel_job(p)
      [] api = "GET_PENDING_JOB" -> stb_get_pending_job(p)
      [] api = "NETWORK_GET_STATUS" -> stb_get_event_queue_status(p)
      [] api = "SEARCH_MAIL_ON_SERVER" -> stb_search_mail_on_server(p)
      [] api = "CLEAR_RESULT_OF_SEARCH_MAIL_ON_SERVER" ->
             stb_clear_result_of_search_mail_on_server(p)
      [] api = "ADD_RULE" -> stb_add_rule(p)
      [] api = "UPDATE_RULE" -> stb_update_rule(p)
      [] api = "DELETE_RULE" -> stb_delete_rule(p)
      [] api = "ADD_CERTIFICATE" -> stb_add_certificate(p)
      [] api = "DELETE_CERTIFICATE" -> stb_delete_certificate(p)
      [] api = "VERIFY_SIGNATURE" -> stb_verify_signature(p)
      [] api = "VERIFY_CERTIFICATE" -> stb_verify_certificate(p)
      [] api = "PING_SERVICE" -> stb_ping_service(p)
      [] api = "SHOW_USER_MESSAGE" -> stb_show_user_message(p)

-----------------------------------------------------------------------------
Init ==
    /\ at = "idle" /\ call = NoCall /\ request = <<>> /\ reply = <<>>
    /\ served = NotServed /\ notified = FALSE /\ lost = FALSE
    /\ result = None /\ outputs = NoOutputs

Returns(r, outs) == at' = "returned" /\ result' = r /\ outputs' = outs
Nothing(f) == [r \in DOMAIN f.fills |-> Unset]

\* The application calls and the request is sent; a call that concerns all
\* accounts may have to notify the engine first.
Send(f) ==
    /\ at = "idle"
    /\ at' = "sent" /\ call' = f /\ request' = f.in
    /\ f.other = "before" => notified' \in BOOLEAN
    /\ f.other # "before" => notified' = FALSE
    /\ UNCHANGED <<served, reply, lost, result, outputs>>

\* A parameter, a lookup in the store or, with "before", the notification is bad.
Refuse(f) ==
    /\ at = "idle" /\ (f.checked \/ f.other = "before")
    /\ call' = f /\ Returns(Failed, Nothing(f))
    /\ UNCHANGED <<request, served, notified, reply, lost>>

\* The engine is notified, or the caller does it itself, and the daemon is not asked.
Bypass(f) ==
    /\ at = "idle" /\ f.other \in {"engine", "caller"}
    /\ call' = f
    /\ \/ notified' = TRUE /\ Returns(None, [r \in DOMAIN f.fills |-> r])
       \/ notified' = FALSE /\ Returns(Failed, Nothing(f))
    /\ UNCHANGED <<request, served, reply, lost>>

Answer(outcome) ==
    /\ served' = outcome
    /\ IF outcome.out = NoAnswer
       THEN UNCHANGED <<at, reply>>
       ELSE at' = "answered" /\ reply' = outcome.out

\* The daemon's task thread takes the request.
Dispatch ==
    /\ at = "sent" /\ served = NotServed
    /\ \E outcome \in stb_API_mapper(call.api, request) : Answer(outcome)
    /\ UNCHANGED <<call, request, notified, lost, result, outputs>>

\* The exchange fails, before the daemon has acted or after.
Lose ==
    /\ at \in {"sent", "answered"}
    /\ lost' = TRUE /\ reply' = <<>>
    /\ IF call.noticed THEN Returns(Failed, Nothing(call))
                       ELSE Returns(Result(call.verdict, <<>>), Outputs(call, <<>>))
    /\ UNCHANGED <<call, request, served, notified>>

\* The answer is taken apart; with "after" the engine is notified of its
\* accounts once the daemon has agreed.  A failing notification is an error; a
\* failing list of the accounts to notify of is none, and only the outputs
\* stay unset.
Return ==
    /\ at = "answered"
    /\ LET verdict == Result(call.verdict, reply)
           engine == call.other = "after" /\ verdict = None
       IN  \/ /\ Returns(verdict, Outputs(call, reply))
              /\ engine => notified' \in BOOLEAN
              /\ ~engine => notified' = notified
           \/ engine /\ Returns(Failed, Nothing(call)) /\ UNCHANGED notified
           \/ engine /\ Returns(None, Nothing(call)) /\ UNCHANGED notified
    /\ UNCHANGED <<call, request, served, reply, lost>>

\* The application goes on.
Finish ==
    /\ at = "returned"
    /\ at' = "idle" /\ call' = NoCall /\ request' = <<>> /\ reply' = <<>>
    /\ served' = NotServed /\ notified' = FALSE /\ lost' = FALSE
    /\ result' = None /\ outputs' = NoOutputs

Next ==
    \/ \E f \in Calls : Send(f) \/ Refuse(f) \/ Bypass(f)
    \/ Dispatch \/ Lose \/ Return \/ Finish

Spec == Init /\ [][Next]_vars /\ WF_vars(Dispatch) /\ WF_vars(Return)

-----------------------------------------------------------------------------
Acted == "args" \in DOMAIN served /\ served.args # NoArgs
Values(f) == {f[r] : r \in DOMAIN f}

\* The daemon does what the application asked for: the function of the
\* daemon is given every parameter of the call, each for what it is,
\* although a parameter is known by nothing but its place in the list, and
\* the place may depend on the parameters before it.
ArgumentsArrive ==
    Acted /\ call.name \notin Misread =>
        /\ \A r \in DOMAIN served.args : served.args[r] \in {r, Empty}
        /\ Values(served.args) \ {Empty} = {call.in[i] : i \in DOMAIN call.in} \ {Empty}

\* The result tells: NONE only if the daemon (or who serves in its place)
\* did it, and an error of a call whose exchange did not fail only if it
\* was not done.
ResultTells ==
    at = "returned" /\ call.name \notin Untold =>
        /\ result = None => served.end = Done \/ notified
        /\ result # None /\ ~lost /\ call.other # "after" => served.end = Undone

\* A call that returns NONE has filled every output of the caller, and each
\* with what it is named for.
OutputsAreFilled ==
    at = "returned" /\ result = None /\ call.name \notin Unfilled =>
        \A r \in DOMAIN call.fills :
            outputs[r] \in {r} \cup (IF r = "verified" THEN {Zero} ELSE {})

\* The application is not left waiting: a call that was sent returns, as
\* long as the daemon's threads run and whatever is lost.
CallsReturn == at = "sent" ~> at = "returned"
=============================================================================
