------------------------------- MODULE MCApi ------------------------------
(* Every function of the client library, in every shape, against its handler. *)
EXTENDS Api

MCCalls == ClientFunctions
=============================================================================
