------------------------------ MODULE MCSources ------------------------------
(***************************************************************************)
(* Three sources of messages, side by side: Gmail, Outlook and Telegram.   *)
(* A behaviour exercises one of them.  Gmail has five mails, the first of  *)
(* them old, one with a skipped label and one of a store-only sender, and  *)
(* a poll emits at most one.  Telegram has two senders of one chat thread  *)
(* and one of another.                                                     *)
(***************************************************************************)
EXTENDS GmailPoll, OutlookPoll, TelegramDebouncer
CONSTANTS s1, s2, s3, b1

VARIABLE part   \* the source a behaviour exercises
vars == <<part, mailVars, outlookVars, chatVars>>

MCLabelled == {3}
MCStoreOnly == {4}
MCBinders == {b1}
MCSenders == {s1, s2, s3}
MCThreadOf == (s1 :> 1) @@ (s2 :> 1) @@ (s3 :> 2)

Init == part \in {"gmail", "outlook", "telegram"} /\ MailInit /\ OutlookInit /\ ChatInit

Next ==
  \/ part = "gmail" /\ MailNext /\ UNCHANGED <<part, outlookVars, chatVars>>
  \/ part = "outlook" /\ OutlookNext /\ UNCHANGED <<part, mailVars, chatVars>>
  \/ part = "telegram" /\ ChatNext /\ UNCHANGED <<part, mailVars, outlookVars>>

\* The fairness of the source that is exercised.  Telegram owes nothing before
\* its first update.
FairSpec ==
  /\ Init /\ [][Next]_vars
  /\ WF_mailVars(part = "gmail" /\ Loop)
  /\ ChatFairness
==============================================================================
