------------------------------- MODULE MCHandlers -------------------------------
(* One client, one server, and fewer handlers than there are members. *)
EXTENDS Handlers
=============================================================================
