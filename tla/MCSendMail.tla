----------------------------- MODULE MCSendMail -----------------------------
(* Instances of SendMail for TLC.                                          *)
EXTENDS SendMail

CONSTANTS m1, m2, m3, s1, s2, s3, s4

\* s2 is a second send of the first mail (a retry while the first one is still
\* under way, or after it); s4 is the SAVE_MAIL event of a mail being stored.
RetriedMail ==
    [s \in Sends |-> CASE s \in {s1, s2} -> m1 [] s = s3 -> m2 [] OTHER -> m3]
OneMailEach ==
    [s \in Sends |-> CASE s = s1 -> m1 [] s = s2 -> m2 [] OTHER -> m3]
SendTypes == [s \in Sends |-> IF s = s4 THEN "SAVE_MAIL" ELSE "SEND_MAIL"]

NoFault == {}
StoreFaults == {"outbox", "sentbox", "lookup", "update"}
AnyFault == FaultKinds
=============================================================================
