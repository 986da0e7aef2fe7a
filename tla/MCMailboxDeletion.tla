--------------------------- MODULE MCMailboxDeletion ---------------------------
(* Model values for MailboxDeletion. *)
EXTENDS MailboxDeletion

CONSTANTS a, b
===============================================================================
