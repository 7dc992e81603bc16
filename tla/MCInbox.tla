------------------------------ MODULE MCInbox ------------------------------
(* Inbox on small instances. *)
EXTENDS Inbox
=============================================================================
