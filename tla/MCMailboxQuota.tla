--------------------------- MODULE MCMailboxQuota ---------------------------
(* The same two endpoints and letters, with the histories of the quotas.   *)
EXTENDS MCMailbox, MailboxQuota
=============================================================================
