---------------------------- MODULE MCPartialBody ----------------------------
(***************************************************************************)
(* An instance of PartialBody: two mails, of two mailboxes of two accounts. *)
(***************************************************************************)
EXTENDS PartialBody, TLC

CONSTANTS m1, m2, m3, m4, b1, b2, a1, a2

MC_TwoMails == (m1 :> b1) @@ (m2 :> b2)
MC_TwoAccounts == (b1 :> a1) @@ (b2 :> a2)
=============================================================================
