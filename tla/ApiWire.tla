----------------------------- MODULE ApiWire ------------------------------
(***************************************************************************)
(* What a call of the client library looks like on its way to the daemon:  *)
(* a list of IN parameters, answered by a list of OUT parameters           *)
(* (email-ipc).  A parameter is known only by its place in the list and by *)
(* its length.  The value of a parameter is written as the name of what it *)
(* is, so that a value read at the wrong place shows.                      *)
(***************************************************************************)
EXTENDS Naturals, Sequences

Empty == "empty"      \* a parameter of length 0, whose data is not sent
Unset == "unset"      \* what a variable held before a read that failed
None == "none"        \* EMAIL_ERROR_NONE, which is 1, as is the local_result of a success
Zero == "zero"        \* 0, the local_result of a failure
Failed == "failed"    \* any other error code

\* The parameters that are byte streams: texts, arrays and packed structures.
Streams == {"account_data", "mailbox_data", "mail", "meeting_mail", "attachments",
            "attachment", "meeting", "option", "rule", "mails", "filters", "name", "alias",
            "path", "address", "certificate"}

Present(list, i) == i + 1 \in DOMAIN list /\ list[i + 1] # Empty

\* emipc_get_parameter for an int: the variable keeps its value when the
\* parameter is absent, empty or of another length.
Int(list, i, before) ==
    IF Present(list, i) /\ list[i + 1] \notin Streams THEN list[i + 1] ELSE before

\* emipc_get_nth_parameter_length and _data, or the same through a copy.
Stream(list, i) == IF Present(list, i) THEN list[i + 1] ELSE Empty
=============================================================================
