----------------------------- MODULE OutlookPoll -----------------------------
(***************************************************************************)
(* internal/component/outlook: the loop that lists the newest mail of a    *)
(* folder and emits what it has not seen, and the file with the ids it has *)
(* seen.  Mail is numbered in order of arrival.  The loop is one           *)
(* goroutine; the mailbox, commands that bind the source or authenticate,  *)
(* failures and crashes come in between.  The file has no lock, and        *)
(* os.WriteFile truncates it before it writes: who reads or writes it in   *)
(* between finds it empty or garbled.                                      *)
(*                                                                         *)
(* Left out: what is in a mail, and the store: a mail that is stored       *)
(* already is emitted like any other.                                      *)
(***************************************************************************)
EXTENDS Naturals, FiniteSetsExt

CONSTANTS
  MaxOutlookMail,   \* bound on the mail; the first two are there already
  ListLimit,        \* mail a poll lists: MaxPollMessages
  SeenCap,          \* ids the file keeps
  MaxOutlookFaults, \* bound on failed calls and crashes
  Binders           \* commands that rewrite the file, once each

ASSUME OutlookAssumption ==
  /\ MaxOutlookMail \in Nat /\ MaxOutlookMail >= 2 /\ {ListLimit, SeenCap} \subseteq Nat \ {0}
  /\ MaxOutlookFaults \in Nat

VARIABLES
  arrived,    \* the newest mail
  folder,     \* the mail in the folder
  seenFile,   \* state.json: [synced, seen], not synced before the first poll
  fileText,   \* its text: "whole", or "empty" or "mixed", which cannot be read
  stage,      \* of the loop: "idle", "mail", "save" or "write"
  seen,       \* ids this poll has seen
  unread,     \* mail this poll has listed and not seen
  binder,     \* per command: "new", "loaded", "writing" or "end"
  bindCopy,   \* per command: what it has loaded
  outlookFaults,
  sent,       \* history: mail that was emitted
  baseline,   \* history: mail counted as seen because the file told nothing
  again       \* history: emitted mail that the file has lost
fileVars == <<seenFile, fileText>>
loopVars == <<stage, seen, unread>>
bindVars == <<binder, bindCopy>>
outlookVars == <<arrived, folder, fileVars, loopVars, bindVars, outlookFaults, sent, baseline, again>>

OutlookMail == 1..MaxOutlookMail
OldMail == 1..2
Unsynced == [synced |-> FALSE, seen |-> {}]

OutlookInit ==
  /\ arrived = 2 /\ folder = OldMail
  /\ seenFile = Unsynced /\ fileText = "whole"
  /\ stage = "idle" /\ seen = {} /\ unread = {}
  /\ binder = [b \in Binders |-> "new"] /\ bindCopy = [b \in Binders |-> Unsynced]
  /\ outlookFaults = 0
  /\ sent = {} /\ baseline = {} /\ again = {}

----------------------------------------------------------------------------
(* The mailbox. *)

MailArrives ==
  /\ arrived < MaxOutlookMail
  /\ arrived' = arrived + 1 /\ folder' = folder \cup {arrived + 1}
  /\ UNCHANGED <<fileVars, loopVars, bindVars, outlookFaults, sent, baseline, again>>

MailLeaves(m) ==
  /\ m \in folder /\ folder' = folder \ {m}
  /\ UNCHANGED <<arrived, fileVars, loopVars, bindVars, outlookFaults, sent, baseline, again>>

\* ListMessages answers the newest of the folder.
Newest == {m \in folder : Cardinality({n \in folder : n > m}) < ListLimit}

----------------------------------------------------------------------------
(* The file. *)

\* loadState, whose error is ignored: what cannot be read is as no file.
Readable == fileText = "whole"
LoadState == IF Readable THEN seenFile ELSE Unsynced

\* saveState: os.WriteFile opens the file, which empties it, and writes the text.
OpenState == fileText' = "empty" /\ UNCHANGED seenFile

\* Text over that of another writer may leave an end of the longer one.  Mail
\* that was emitted and that a write loses may be emitted again.
WriteState(state, lost) ==
  \/ seenFile' = state /\ fileText' = "whole" /\ again' = again \cup lost
  \/ fileText # "empty" /\ fileText' = "mixed" /\ UNCHANGED <<seenFile, again>>

\* A write that fails may have written a part.
FailState == fileText' \in {fileText, "mixed"} /\ UNCHANGED seenFile

\* mapKeys: of too many ids some are kept, in the order of a map.
MapKeys(ids) == IF Cardinality(ids) <= SeenCap THEN {ids} ELSE kSubset(SeenCap, ids)

----------------------------------------------------------------------------
(* pollOnce *)

\* Faulty variant: a poll counts mail as seen when it lists it.
ListMailCounting ==
  /\ stage = "idle"
  /\ LET state == LoadState IN
     IF ~state.synced
     THEN /\ stage' = "save" /\ seen' = state.seen \cup Newest
          /\ unread' = {} /\ baseline' = baseline \cup (Newest \ sent)
     ELSE /\ stage' = "mail" /\ seen' = state.seen \cup Newest
          /\ unread' = Newest \ state.seen
          /\ UNCHANGED baseline
  /\ again' = IF Readable THEN again ELSE again \cup (sent \ seen')
  /\ UNCHANGED <<arrived, folder, fileVars, bindVars, outlookFaults, sent>>

\* The first poll, and one that cannot read the file, counts what it lists as
\* seen, and forgets the rest.  The others go on to what they have not seen.
ListMail ==
  /\ stage = "idle"
  /\ LET state == LoadState IN
     IF ~state.synced
     THEN /\ stage' = "save" /\ seen' = state.seen \cup Newest
          /\ unread' = {} /\ baseline' = baseline \cup (Newest \ sent)
     ELSE /\ stage' = "mail" /\ seen' = state.seen
          /\ unread' = Newest \ state.seen
          /\ UNCHANGED baseline
  /\ again' = IF Readable THEN again ELSE again \cup (sent \ seen')
  /\ UNCHANGED <<arrived, folder, fileVars, bindVars, outlookFaults, sent>>

\* Faulty variant: mail is not counted as seen when it is emitted.
EmitOldestUncounted ==
  /\ stage = "mail" /\ unread # {}
  /\ LET m == Min(unread) IN sent' = sent \cup {m} /\ unread' = unread \ {m}
  /\ UNCHANGED <<arrived, folder, fileVars, stage, seen, bindVars, outlookFaults, baseline, again>>

\* Mail is stored and emitted, the oldest first.
EmitOldest ==
  /\ stage = "mail" /\ unread # {}
  /\ LET m == Min(unread) IN
       /\ sent' = sent \cup {m} /\ seen' = seen \cup {m} /\ unread' = unread \ {m}
  /\ UNCHANGED <<arrived, folder, fileVars, stage, bindVars, outlookFaults, baseline, again>>

\* What a poll knows goes with it.
EndPoll == stage' = "idle" /\ seen' = {} /\ unread' = {}

OpenPoll ==
  /\ stage \in {"mail", "save"} /\ unread = {}
  /\ stage' = "write" /\ OpenState
  /\ UNCHANGED <<arrived, folder, seen, unread, bindVars, outlookFaults, sent, baseline, again>>

SavePoll ==
  /\ stage = "write" /\ EndPoll
  /\ \E ids \in MapKeys(seen) : WriteState([synced |-> TRUE, seen |-> ids], sent \cap (seen \ ids))
  /\ UNCHANGED <<arrived, folder, bindVars, outlookFaults, sent, baseline>>

\* A call fails and ends the poll: what it emitted is in no file.
PollFails ==
  /\ stage # "idle" /\ outlookFaults < MaxOutlookFaults
  /\ outlookFaults' = outlookFaults + 1
  /\ IF stage = "write" THEN FailState ELSE UNCHANGED fileVars
  /\ EndPoll /\ again' = again \cup (sent \ seenFile.seen)
  /\ UNCHANGED <<arrived, folder, bindVars, sent, baseline>>

\* The process stops, perhaps in the middle of a write.
OutlookCrash ==
  /\ outlookFaults < MaxOutlookFaults /\ outlookFaults' = outlookFaults + 1
  /\ IF stage = "write" \/ \E b \in Binders : binder[b] = "writing" THEN FailState ELSE UNCHANGED fileVars
  /\ again' = again \cup (sent \ seenFile.seen)
  /\ EndPoll
  /\ binder' = [b \in Binders |-> IF binder[b] = "new" THEN "new" ELSE "end"]
  /\ bindCopy' = [b \in Binders |-> Unsynced]
  /\ UNCHANGED <<arrived, folder, sent, baseline>>

----------------------------------------------------------------------------
(* "auth" and the binding of a source load the file, and save it with the  *)
(* address of the mailbox.                                                 *)

BindLoads(b) ==
  /\ binder[b] = "new" /\ binder' = [binder EXCEPT ![b] = "loaded"]
  /\ bindCopy' = [bindCopy EXCEPT ![b] = LoadState]
  /\ UNCHANGED <<arrived, folder, fileVars, loopVars, outlookFaults, sent, baseline, again>>

BindOpens(b) ==
  /\ binder[b] = "loaded" /\ binder' = [binder EXCEPT ![b] = "writing"]
  /\ OpenState
  /\ UNCHANGED <<arrived, folder, loopVars, bindCopy, outlookFaults, sent, baseline, again>>

EndBind(b) ==
  /\ binder' = [binder EXCEPT ![b] = "end"]
  /\ bindCopy' = [bindCopy EXCEPT ![b] = Unsynced]

BindSaves(b) ==
  /\ binder[b] = "writing" /\ EndBind(b)
  /\ WriteState(bindCopy[b], sent \ bindCopy[b].seen)
  /\ UNCHANGED <<arrived, folder, loopVars, outlookFaults, sent, baseline>>

\* Its error is ignored.
BindFails(b) ==
  /\ binder[b] = "writing" /\ EndBind(b)
  /\ outlookFaults < MaxOutlookFaults /\ outlookFaults' = outlookFaults + 1
  /\ FailState
  /\ UNCHANGED <<arrived, folder, loopVars, sent, baseline, again>>

----------------------------------------------------------------------------
OutlookNext ==
  \/ ListMail \/ EmitOldest \/ OpenPoll \/ SavePoll \/ PollFails \/ OutlookCrash
  \/ MailArrives \/ \E m \in OutlookMail : MailLeaves(m)
  \/ \E b \in Binders : BindLoads(b) \/ BindOpens(b) \/ BindSaves(b) \/ BindFails(b)

OutlookSpec == OutlookInit /\ [][OutlookNext]_outlookVars

----------------------------------------------------------------------------
OutlookTypeOK ==
  /\ arrived \in OutlookMail /\ folder \subseteq 1..arrived
  /\ seenFile \in [synced : BOOLEAN, seen : SUBSET (1..arrived)] /\ fileText \in {"whole", "empty", "mixed"}
  /\ Cardinality(seenFile.seen) <= SeenCap
  /\ stage \in {"idle", "mail", "save", "write"}
  /\ seen \subseteq 1..arrived /\ unread \subseteq 1..arrived
  /\ unread \cap seen = {}
  /\ binder \in [Binders -> {"new", "loaded", "writing", "end"}]
  /\ bindCopy \in [Binders -> [synced : BOOLEAN, seen : SUBSET (1..arrived)]]
  /\ outlookFaults \in 0..MaxOutlookFaults

\* Mail is counted as seen only if it was emitted, or listed by a poll that had
\* no file it could read to tell what is new (poll.go:32, :41, :64).
SeenMailWasEmitted == seenFile.seen \cup (IF stage = "idle" THEN {} ELSE seen) \subseteq sent \cup baseline

\* Mail is emitted again only if the file lost it, and it lost it by the limit of
\* ids, in a poll that failed, in a crash, to a command that wrote back an older
\* copy, or because a poll found it empty or garbled: in the middle of another
\* write, or after writes that met or failed (poll.go:32, :62, :122, state.go:45).
EmittedAgainForAReason == unread \cap sent \subseteq again
==============================================================================
