----------------------------- MODULE GmailPoll -----------------------------
(***************************************************************************)
(* internal/component/gmailv2: the loop that reads a mailbox's history and *)
(* emits new mail, its cursor in memory and in state.json, and its local   *)
(* store.  The loop is one goroutine; commands, the mailbox itself and     *)
(* crashes come in between.                                                *)
(*                                                                         *)
(* Mail is numbered by its history id, so a page of history is a range of  *)
(* numbers: "next" is the mail the loop is at and "last" ends its page.    *)
(* The API answers from the mailbox as it is at the call, and each page    *)
(* names the newest history id of the whole mailbox, not of the page.      *)
(*                                                                         *)
(* Left out: what is in a mail, and the second mention of a mail in one    *)
(* poll (the store recognises it).                                         *)
(***************************************************************************)
EXTENDS Naturals

CONSTANTS
  MaxMail,      \* bound on the mail in the mailbox; mail 1 is there already
  PageSize,     \* history records per page
  MaxPollMessages,
  Labelled,     \* mail with a label that is skipped
  StoreOnly,    \* mail of senders whose policy is store-only
  MaxFailures   \* bound on failed calls and crashes

ASSUME MailAssumption ==
  /\ MaxMail \in Nat \ {0} /\ PageSize \in Nat \ {0} /\ MaxPollMessages \in Nat \ {0}
  /\ Labelled \subseteq 1..MaxMail /\ StoreOnly \subseteq 1..MaxMail
  /\ MaxFailures \in Nat

VARIABLES
  head,      \* the newest mail of the mailbox
  file,      \* HistoryID in state.json, 0 before the first save
  store,     \* mail in the local store
  cursor,    \* HistoryID of the loop's own state, 0 before it is loaded
  pc,        \* "idle", "list", "mail", "save", "emit" or "finish"
  start,     \* currentHistoryID: where this poll started
  next, last, newest, more,  \* the page: its mail, its HistoryId, its NextPageToken
  count,     \* mail emitted in this poll
  failures,
  emitted,   \* history: mail that was emitted
  excused    \* history: mail gone before it was read, fetched by a command,
             \* skipped with an expired history, or cut off after its save

pollVars == <<pc, start, next, last, newest, more, count>>
mailVars == <<head, file, store, cursor, pollVars, failures, emitted, excused>>

Mail == 1..MaxMail

MailInit ==
  /\ head = 1
  /\ file = 0
  /\ store = {}
  /\ cursor = 0
  /\ pc = "idle"
  /\ start = 0 /\ next = 0 /\ last = 0 /\ newest = 0 /\ more = FALSE
  /\ count = 0
  /\ failures = 0
  /\ emitted = {}
  /\ excused = {1}
------------------------------------------------------------------------------
\* The mailbox and the commands of agents.

Arrive ==
  /\ head < MaxMail
  /\ head' = head + 1
  /\ UNCHANGED <<file, store, cursor, pollVars, failures, emitted, excused>>

\* "fetch <id>" stores a mail without emitting it.
FetchMail(m) ==
  /\ m <= head /\ m \notin store
  /\ store' = store \cup {m}
  /\ excused' = IF m \in emitted THEN excused ELSE excused \cup {m}
  /\ UNCHANGED <<head, file, cursor, pollVars, failures, emitted>>
------------------------------------------------------------------------------
\* The loop.

Passed(m) == m \in store \cup Labelled \cup excused

\* ensureStateBaseline: a mailbox without a cursor starts from now.
LoadBaseline ==
  /\ pc = "idle" /\ cursor = 0
  /\ IF file = 0
       THEN file' = head /\ cursor' = head /\ excused' = excused \cup 1..head
       ELSE cursor' = file /\ UNCHANGED <<file, excused>>
  /\ UNCHANGED <<head, store, pollVars, failures, emitted>>

BeginPoll ==
  /\ pc = "idle" /\ cursor # 0
  /\ pc' = "list" /\ start' = cursor /\ last' = cursor /\ count' = 0
  /\ UNCHANGED <<head, file, store, cursor, next, newest, more, failures, emitted, excused>>

ListHistory ==
  /\ pc = "list"
  /\ pc' = "mail"
  /\ next' = last + 1
  /\ last' = IF last + PageSize < head THEN last + PageSize ELSE head
  /\ newest' = head
  /\ more' = (last + PageSize < head)
  /\ UNCHANGED <<head, file, store, cursor, start, count, failures, emitted, excused>>

\* resetHistoryBaseline, after a 404: the history no longer reaches back to the
\* cursor, which moves to now.
ExpireHistory ==
  /\ pc = "list" /\ failures < MaxFailures
  /\ failures' = failures + 1
  /\ file' = head /\ cursor' = head /\ pc' = "idle"
  /\ excused' = excused \cup {m \in 1..head : ~Passed(m)}
  /\ UNCHANGED <<head, store, start, next, last, newest, more, count, emitted>>

AtMail == pc = "mail" /\ next <= last

\* Faulty variants, used by no specification: a poll that is full counts its
\* page as read; mail that is known fills up a poll.
StopAtLimitAdvancing ==
  /\ AtMail /\ count >= MaxPollMessages
  /\ pc' = "finish" /\ cursor' = newest
  /\ UNCHANGED <<head, file, store, start, next, last, newest, more, count,
                 failures, emitted, excused>>
SkipMailCounting ==
  /\ AtMail /\ count < MaxPollMessages
  /\ next \in Labelled \cup store
  /\ next' = next + 1 /\ count' = count + 1
  /\ UNCHANGED <<head, file, store, cursor, pc, start, last, newest, more,
                 failures, emitted, excused>>

\* A poll that has emitted enough ends within its page, with the cursor where
\* the page found it.
StopAtLimit ==
  /\ AtMail /\ count >= MaxPollMessages
  /\ pc' = "finish"
  /\ UNCHANGED <<head, file, store, cursor, start, next, last, newest, more, count,
                 failures, emitted, excused>>

SkipMail ==
  /\ AtMail /\ count < MaxPollMessages
  /\ next \in Labelled \cup store
  /\ next' = next + 1
  /\ UNCHANGED <<head, file, store, cursor, pc, start, last, newest, more, count,
                 failures, emitted, excused>>

\* GetMessage finds that the mail was deleted meanwhile.
MissMail ==
  /\ AtMail /\ count < MaxPollMessages
  /\ failures < MaxFailures /\ failures' = failures + 1
  /\ next' = next + 1
  /\ excused' = IF Passed(next) THEN excused ELSE excused \cup {next}
  /\ UNCHANGED <<head, file, store, cursor, pc, start, last, newest, more, count, emitted>>

ReadMail ==
  /\ AtMail /\ count < MaxPollMessages
  /\ next \notin Labelled \cup store
  /\ pc' = "save"
  /\ UNCHANGED <<head, file, store, cursor, start, next, last, newest, more, count,
                 failures, emitted, excused>>

\* A faulty variant: the row is not committed before the mail is emitted.
SaveMailUncommitted ==
  /\ pc = "save"
  /\ pc' = "emit"
  /\ UNCHANGED <<head, file, store, cursor, start, next, last, newest, more, count,
                 failures, emitted, excused>>

\* storeIncomingMessage: a mail that a command stored meanwhile breaks the
\* unique index and ends the poll.
SaveMail ==
  /\ pc = "save"
  /\ pc' = IF next \in store THEN "idle" ELSE "emit"
  /\ store' = store \cup {next}
  /\ UNCHANGED <<head, file, cursor, start, next, last, newest, more, count,
                 failures, emitted, excused>>

\* A faulty variant: the limit is looked at after the mail was stored.
EmitMailBelowLimit ==
  /\ pc = "emit"
  /\ pc' = "mail" /\ next' = next + 1
  /\ IF next \in StoreOnly \/ count + 1 >= MaxPollMessages
       THEN count' = count + 1 /\ UNCHANGED emitted
       ELSE count' = count + 1 /\ emitted' = emitted \cup {next}
  /\ UNCHANGED <<head, file, store, cursor, start, last, newest, more, failures, excused>>

\* The emitter hands the mail to the broker and returns no error.
EmitMail ==
  /\ pc = "emit"
  /\ pc' = "mail" /\ next' = next + 1
  /\ IF next \in StoreOnly
       THEN UNCHANGED <<count, emitted>>
       ELSE count' = count + 1 /\ emitted' = emitted \cup {next}
  /\ UNCHANGED <<head, file, store, cursor, start, last, newest, more, failures, excused>>

\* The cursor moves to the newest mail of the mailbox after every page.
EndPage ==
  /\ pc = "mail" /\ next > last
  /\ cursor' = newest
  /\ pc' = IF count >= MaxPollMessages \/ ~more THEN "finish" ELSE "list"
  /\ UNCHANGED <<head, file, store, start, next, last, newest, more, count,
                 failures, emitted, excused>>

FinishPoll ==
  /\ pc = "finish"
  /\ file' = cursor /\ pc' = "idle"
  /\ UNCHANGED <<head, store, cursor, start, next, last, newest, more, count,
                 failures, emitted, excused>>
------------------------------------------------------------------------------
\* Failed calls and crashes.

CutOff == IF pc = "emit" THEN excused \cup {next} ELSE excused

\* Any call of a poll returns an error, which ends the poll; what the poll did
\* to its own state stays.
FailPoll ==
  /\ pc # "idle" /\ failures < MaxFailures
  /\ failures' = failures + 1
  /\ pc' = "idle" /\ excused' = CutOff
  /\ UNCHANGED <<head, file, store, cursor, start, next, last, newest, more, count, emitted>>

Crash ==
  /\ failures < MaxFailures
  /\ failures' = failures + 1
  /\ pc' = "idle" /\ cursor' = 0 /\ excused' = CutOff
  /\ UNCHANGED <<head, file, store, start, next, last, newest, more, count, emitted>>

Loop ==
  \/ LoadBaseline
  \/ BeginPoll
  \/ ListHistory
  \/ StopAtLimit
  \/ SkipMail
  \/ ReadMail
  \/ SaveMail
  \/ EmitMail
  \/ EndPage
  \/ FinishPoll

MailNext ==
  \/ Loop
  \/ Arrive
  \/ \E m \in Mail : FetchMail(m)
  \/ ExpireHistory
  \/ MissMail
  \/ FailPoll
  \/ Crash

MailSpec == MailInit /\ [][MailNext]_mailVars

\* The loop goes on polling; calls fail only so often.
MailFairSpec == MailSpec /\ WF_mailVars(Loop)
------------------------------------------------------------------------------
MailTypeOK ==
  /\ head \in Mail
  /\ file \in 0..head /\ cursor \in 0..head
  /\ store \in SUBSET Mail
  /\ pc \in {"idle", "list", "mail", "save", "emit", "finish"}
  /\ start \in 0..head /\ last \in 0..head /\ newest \in 0..head /\ next \in 0..(head + 1)
  /\ more \in BOOLEAN
  /\ count \in 0..MaxPollMessages
  /\ failures \in 0..MaxFailures
  /\ emitted \in SUBSET Mail /\ excused \in SUBSET Mail

\* Mail that no later poll will look at, behind the cursor on disk or the one
\* the next poll starts from, is stored, or there is a reason why it is not.
\* "Gmail v2 watches a mailbox, emits new mail as normal inbound source events"
\* (README.md).
NoMailIsPassedOver ==
  \A m \in Mail : (m <= file \/ (pc = "idle" /\ m <= cursor)) => Passed(m)

\* Stored mail has been emitted, unless its sender is store-only, a command
\* fetched it, or the loop was cut off between the two; it never waits for a
\* later poll, which would take it for known.
StoredMailIsEmitted ==
  \A m \in store \ (emitted \cup excused \cup StoreOnly) : pc = "emit" /\ next = m

\* No mail is emitted twice, over failed polls, full polls and crashes.
EmittedOnce == [][count' > count => next \notin emitted]_mailVars

\* New mail is read, however many failures and full polls there are before.
MailIsRead == \A m \in Mail : m <= head ~> Passed(m)

==============================================================================
