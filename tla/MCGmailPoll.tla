---------------------------- MODULE MCGmailPoll ----------------------------
(***************************************************************************)
(* Five mails, the first of them old, one with a skipped label and one of  *)
(* a store-only sender; a poll emits at most one.                          *)
(***************************************************************************)
EXTENDS GmailPoll

MCLabelled == {3}
MCStoreOnly == {4}

==============================================================================
