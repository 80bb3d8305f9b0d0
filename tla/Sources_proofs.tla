--------------------------- MODULE Sources_proofs ---------------------------
(***************************************************************************)
(* What three sources of messages promise, for any mail, senders, updates, *)
(* failures and crashes.  Gmail emits each mail once, emits what it stores *)
(* and, while no poll is answered with more than a page of history, passes *)
(* over no mail.  Outlook emits mail again only if its file lost it.  The  *)
(* Telegram debouncer keeps every handled update in one place.             *)
(***************************************************************************)
EXTENDS GmailPoll, OutlookPoll, TelegramDebouncer, FiniteSetTheorems, SequenceTheorems,
        WellFoundedInduction, TLAPS

\* Where the loop is in its page.
PageFits ==
  /\ pc \in {"mail", "save", "emit"} => next >= 1
  /\ pc \in {"save", "emit"} => next <= last /\ count < MaxPollMessages

\* What was emitted is stored, and the mail at hand is not emitted yet.
EmittedIsStored ==
  /\ emitted \subseteq store
  /\ pc \in {"save", "emit"} => next \notin emitted
  /\ pc = "emit" => next \in store

\* The inductive invariant of the Gmail loop, for history of any length.
MailIInv == MailTypeOK /\ PageFits /\ EmittedIsStored /\ StoredMailIsEmitted

\* No page of history has another behind it.
OnePage == ~more

\* Where no page has another behind it: the cursor stays behind what was read, and
\* the loop is behind its page.
CursorIsBehind ==
  /\ \A m \in Mail : m <= file \/ m <= cursor => Passed(m)
  /\ pc = "list" => \A m \in Mail : m <= last => Passed(m)
  /\ pc \in {"mail", "save", "emit"} =>
       newest = last /\ \A m \in Mail : m < next => Passed(m)

\* What the file and the copies of it hold was seen.
SeenIsKnown ==
  /\ seenFile.seen \subseteq sent \cup baseline
  /\ stage # "idle" => seen \subseteq sent \cup baseline
  /\ \A b \in Binders : bindCopy[b].seen \subseteq sent \cup baseline

\* A copy of the file is one.
CopiesFit ==
  /\ \A b \in Binders : Cardinality(bindCopy[b].seen) <= SeenCap
  /\ sent \subseteq 1..arrived

\* What was emitted is in the file, if it can be read, or with the poll, or may be
\* emitted again.  A file that cannot be read holds nothing, and the poll that reads
\* it says what it lost.
SentIsSeen ==
  /\ stage = "idle" /\ Readable => sent \subseteq seenFile.seen \cup again
  /\ stage # "idle" => sent \subseteq seen \cup again

\* The inductive invariant of the Outlook loop.
OutlookIInv == OutlookTypeOK /\ CopiesFit /\ SeenIsKnown /\ SentIsSeen /\ EmittedAgainForAReason

\* The places of an update: held for its sender, in a batch that a goroutine took,
\* in a batch that was handed on.
IsHeld(u, s) == s \in Senders /\ Contains(pending[s], u)
IsTaken(u, g, i) == g \in Goroutines /\ i \in 1..Len(outbox[g]) /\ Contains(outbox[g][i], u)
IsTold(u, i) == i \in 1..Len(delivered) /\ Contains(delivered[i], u)
IsPlaced(u) == (\E s : IsHeld(u, s)) \/ (\E g, i : IsTaken(u, g, i)) \/ (\E i : IsTold(u, i))

\* No update is in two places.
OnePlace ==
  /\ \A u, g, h, i, j : IsTaken(u, g, i) /\ IsTaken(u, h, j) => g = h /\ i = j
  /\ \A u, i, j : IsTold(u, i) /\ IsTold(u, j) => i = j
  /\ \A u, s, g, i : ~(IsHeld(u, s) /\ IsTaken(u, g, i))
  /\ \A u, s, i : ~(IsHeld(u, s) /\ IsTold(u, i))
  /\ \A u, g, i, j : ~(IsTaken(u, g, i) /\ IsTold(u, j))

\* The updates that are in a place are those that were handled.
HandledArePlaced == \A u \in 1..Len(update) : IsPlaced(u) <=> handler[u] # "received"

\* Goroutines take no empty batch, and none before they have handed on the last ones.
GoroutinesFit ==
  /\ \A g \in Goroutines : \A i \in 1..Len(outbox[g]) : outbox[g][i] # <<>>
  /\ ~stopped => outbox[FlushAll] = <<>>
  /\ \A u \in Updates :
       /\ outbox[u] # <<>> => handler[u] = "emitting" \/ timer[u] = "emitting"
       /\ timer[u] # "none" => handler[u] = "done"
       /\ handler[u] = "none" <=> u > Len(update)

\* The inductive invariant of the debouncer.
ChatIInv == ChatTypeOK /\ OnePlace /\ HandledArePlaced /\ GoroutinesFit
------------------------------------------------------------------------------
\* The Gmail loop.

LEMMA MailInitHolds ==
  MailInit => MailIInv /\ CursorIsBehind
<1> SUFFICES ASSUME MailInit PROVE MailIInv /\ CursorIsBehind
  OBVIOUS
<1>1. MailTypeOK
  <2>1. 1 \in Mail /\ 0 \in 0..MaxPollMessages /\ 0 \in 0..MaxFailures
    BY MailAssumption DEF Mail
  <2>2. head = 1 /\ 0 \in 0..head /\ 0 \in 0..(head + 1)
    BY DEF MailInit
  <2> QED BY <2>1, <2>2 DEF MailInit, MailTypeOK
<1>2. PageFits /\ EmittedIsStored /\ StoredMailIsEmitted
  BY DEF MailInit, PageFits, EmittedIsStored, StoredMailIsEmitted
<1>3. CursorIsBehind
  BY DEF MailInit, CursorIsBehind, Mail
<1> QED BY <1>1, <1>2, <1>3 DEF MailIInv

\* The loop's steps.
LEMMA LoopKeeps ==
  ASSUME MailIInv, Loop
  PROVE  MailIInv'
<1> USE MailAssumption DEF MailIInv, MailTypeOK, PageFits, EmittedIsStored, StoredMailIsEmitted, Mail
<1>1. CASE LoadBaseline
  <2>1. head \in 1..MaxMail /\ head \in 0..head /\ 1..head \subseteq 1..MaxMail
    OBVIOUS
  <2>2. CASE file = 0
    BY <1>1, <2>1, <2>2 DEF LoadBaseline, pollVars
  <2>3. CASE file # 0
    BY <1>1, <2>3 DEF LoadBaseline, pollVars
  <2> QED BY <2>2, <2>3
<1>2. CASE BeginPoll
  BY <1>2 DEF BeginPoll, AtMail
<1>3. CASE ListHistory
  BY <1>3 DEF ListHistory, AtMail
<1>4. CASE StopAtLimit
  BY <1>4 DEF StopAtLimit, AtMail
<1>5. CASE SkipMail
  BY <1>5 DEF SkipMail, AtMail
<1>6. CASE ReadMail
  BY <1>6 DEF ReadMail, AtMail
<1>7. CASE SaveMail
  BY <1>7 DEF SaveMail, AtMail
<1>8. CASE EmitMail
  <2>1. /\ UNCHANGED <<head, file, store, cursor, start, last, newest, more, failures, excused>>
        /\ pc = "emit" /\ pc' = "mail" /\ next' = next + 1
        /\ count' \in {count, count + 1}
        /\ emitted' = emitted \cup ({next} \ StoreOnly)
    BY <1>8 DEF EmitMail
  <2>2. next + 1 \in 0..(head + 1) /\ next + 1 >= 1 /\ next \in 1..MaxMail
        /\ count + 1 \in 0..MaxPollMessages
    BY <2>1
  <2>3. MailTypeOK' /\ PageFits'
    BY <2>1, <2>2
  <2>4. EmittedIsStored' /\ StoredMailIsEmitted'
    BY <2>1
  <2> QED BY <2>3, <2>4
<1>9. CASE EndPage
  BY <1>9 DEF EndPage, AtMail
<1>10. CASE FinishPoll
  BY <1>10 DEF FinishPoll, AtMail
<1> QED BY <1>1, <1>2, <1>3, <1>4, <1>5, <1>6, <1>7, <1>8, <1>9, <1>10 DEF Loop

\* The mailbox, commands, failures and crashes.
LEMMA MailKeeps ==
  ASSUME MailIInv, [MailNext]_mailVars
  PROVE  MailIInv'
<1> USE MailAssumption DEF MailIInv, MailTypeOK, PageFits, EmittedIsStored, StoredMailIsEmitted, Mail
<1>1. CASE Loop
  BY <1>1, LoopKeeps
<1>2. ASSUME NEW m \in Mail, FetchMail(m) PROVE MailIInv'
  BY <1>2 DEF FetchMail, pollVars
<1>3. CASE Arrive
  BY <1>3 DEF Arrive, AtMail, pollVars, CutOff
<1>4. CASE ExpireHistory
  <2>1. head \in 1..MaxMail /\ head \in 0..head /\ {m \in 1..head : ~Passed(m)} \subseteq 1..MaxMail
    OBVIOUS
  <2>2. MailTypeOK'
    <3>1. failures' \in 0..MaxFailures
      BY <1>4 DEF ExpireHistory
    <3>2. excused' \in SUBSET Mail
      BY <1>4, <2>1 DEF ExpireHistory
    <3> QED BY <1>4, <2>1, <3>1, <3>2 DEF ExpireHistory
  <2>3. PageFits' /\ EmittedIsStored' /\ StoredMailIsEmitted'
    BY <1>4 DEF ExpireHistory
  <2> QED BY <2>2, <2>3
<1>5. CASE MissMail
  BY <1>5 DEF MissMail, AtMail, pollVars, CutOff
<1>6. CASE FailPoll
  BY <1>6 DEF FailPoll, AtMail, pollVars, CutOff
<1>7. CASE Crash
  BY <1>7 DEF Crash, AtMail, pollVars, CutOff
<1>8. CASE UNCHANGED mailVars
  BY <1>8 DEF mailVars, pollVars
<1> QED BY <1>1, <1>2, <1>3, <1>4, <1>5, <1>6, <1>7, <1>8 DEF MailNext

\* While the history since the cursor fits on a page at every poll, the cursor never
\* gets ahead of what was read.
LEMMA CursorKeeps ==
  ASSUME MailIInv, CursorIsBehind, OnePage, OnePage', [MailNext]_mailVars
  PROVE  CursorIsBehind'
<1> USE MailAssumption DEF MailIInv, MailTypeOK, PageFits, EmittedIsStored, CursorIsBehind, OnePage, Mail, Passed
<1>1. CASE LoadBaseline
  BY <1>1 DEF LoadBaseline, AtMail, pollVars
<1>2. CASE BeginPoll
  BY <1>2 DEF BeginPoll, AtMail, pollVars
<1>3. CASE ListHistory
  <2>1. /\ pc = "list" /\ pc' = "mail" /\ next' = last + 1 /\ newest' = head
        /\ last' = IF last + PageSize < head THEN last + PageSize ELSE head
        /\ more' = (last + PageSize < head)
        /\ UNCHANGED <<head, file, store, cursor, excused>>
    BY <1>3 DEF ListHistory
  <2>2. ~(last + PageSize < head) /\ last' = head
    BY <2>1
  <2>3. \A m \in Mail : m < next' => m <= last
    BY <2>1
  <2> QED BY <2>1, <2>2, <2>3
<1>4. CASE StopAtLimit
  BY <1>4 DEF StopAtLimit, AtMail, pollVars
<1>5. CASE SkipMail
  BY <1>5 DEF SkipMail, AtMail, pollVars
<1>6. CASE ReadMail
  BY <1>6 DEF ReadMail, AtMail, pollVars
<1>7. CASE SaveMail
  BY <1>7 DEF SaveMail, AtMail, pollVars
<1>8. CASE EmitMail
  BY <1>8 DEF EmitMail, AtMail, pollVars
<1>9. CASE EndPage
  BY <1>9 DEF EndPage, AtMail, pollVars
<1>10. CASE FinishPoll
  BY <1>10 DEF FinishPoll, AtMail, pollVars
<1>11. ASSUME NEW m \in Mail, FetchMail(m) PROVE CursorIsBehind'
  BY <1>11 DEF FetchMail, pollVars
<1>12. CASE Arrive
  BY <1>12 DEF Arrive, AtMail, pollVars, CutOff
<1>13. CASE ExpireHistory
  BY <1>13 DEF ExpireHistory, AtMail, pollVars, CutOff
<1>14. CASE MissMail
  BY <1>14 DEF MissMail, AtMail, pollVars, CutOff
<1>15. CASE FailPoll
  BY <1>15 DEF FailPoll, AtMail, pollVars, CutOff
<1>16. CASE Crash
  BY <1>16 DEF Crash, AtMail, pollVars, CutOff
<1>17. CASE UNCHANGED mailVars
  BY <1>17 DEF mailVars, pollVars
<1> QED BY <1>1, <1>2, <1>3, <1>4, <1>5, <1>6, <1>7, <1>8, <1>9, <1>10, <1>11, <1>12, <1>13, <1>14, <1>15, <1>16, <1>17 DEF MailNext, Loop

\* The invariant of the Gmail loop holds in every reachable state.
THEOREM MailInvariant == MailSpec => []MailIInv
<1>1. MailInit => MailIInv
  BY MailInitHolds
<1>2. MailIInv /\ [MailNext]_mailVars => MailIInv'
  BY MailKeeps
<1> QED BY <1>1, <1>2, PTL DEF MailSpec

\* Type correctness of the Gmail loop.
THEOREM MailTypeCorrect == MailSpec => []MailTypeOK
<1>1. MailIInv => MailTypeOK
  BY DEF MailIInv
<1> QED BY <1>1, MailInvariant, PTL

\* Mail that the Gmail loop stores it emits, over failures, crashes, full polls and
\* fetch commands, for history of any length.
THEOREM StoredMailIsNotForgotten == MailSpec => []StoredMailIsEmitted
<1>1. MailIInv => StoredMailIsEmitted
  BY DEF MailIInv
<1> QED BY <1>1, MailInvariant, PTL

\* No mail of Gmail is emitted twice.
THEOREM GmailEmitsOnce == MailSpec => EmittedOnce
<1>1. MailIInv /\ [MailNext]_mailVars => [count' > count => next \notin emitted]_mailVars
  <2> SUFFICES ASSUME MailIInv, MailNext, count' > count PROVE next \notin emitted
    OBVIOUS
  <2>1. CASE EmitMail
    BY <2>1 DEF EmitMail, MailIInv, EmittedIsStored
  <2>2. count \in Nat
    BY MailAssumption DEF MailIInv, MailTypeOK
  <2>3. CASE BeginPoll
    BY <2>2, <2>3 DEF BeginPoll
  <2>4. CASE UNCHANGED count
    BY <2>2, <2>4
  <2>5. CASE Loop
    BY <2>1, <2>3, <2>4, <2>5 DEF Loop, LoadBaseline, ListHistory, StopAtLimit, SkipMail, ReadMail, SaveMail,
       EndPage, FinishPoll, pollVars
  <2>6. CASE ~Loop
    BY <2>4, <2>6 DEF MailNext, Arrive, FetchMail, ExpireHistory, MissMail, FailPoll, Crash, pollVars
  <2> QED BY <2>5, <2>6
<1> QED BY <1>1, MailInvariant, PTL DEF MailSpec, EmittedOnce

\* A mailbox whose history since the cursor fits on a page at every poll loses no
\* mail, however much arrives over many polls: behind its cursors all is stored, or
\* there is a reason why not.  The run gmail_pages shows that the condition is needed.
THEOREM OnePageLosesNoMail == MailSpec /\ []OnePage => []NoMailIsPassedOver
<1>1. MailInit => MailIInv /\ CursorIsBehind
  BY MailInitHolds
<1>2. MailIInv /\ CursorIsBehind /\ OnePage /\ OnePage' /\ [MailNext]_mailVars => MailIInv' /\ CursorIsBehind'
  BY MailKeeps, CursorKeeps
<1>3. MailIInv /\ CursorIsBehind => NoMailIsPassedOver
  BY DEF CursorIsBehind, NoMailIsPassedOver
<1> QED BY <1>1, <1>2, <1>3, PTL DEF MailSpec
------------------------------------------------------------------------------
\* The Outlook loop.

\* The least of some mail is one of it.
LEMMA LeastIsOne ==
  ASSUME NEW S \in SUBSET Nat, S # {}
  PROVE  Min(S) \in S
<1> DEFINE R == OpToRel(<, Nat)
<1>1. PICK x \in S : \A y \in S : ~(<<y, x>> \in R)
  BY NatLessThanWellFounded, WFMin
<1>2. \A y, z \in Nat : y < z => <<y, z>> \in R
  BY DEF OpToRel
<1> HIDE DEF R
<1>3. ASSUME NEW y \in S PROVE x <= y
  <2>1. x \in Nat /\ y \in Nat /\ ~(<<y, x>> \in R)
    BY <1>1
  <2>2. ~(y < x)
    BY <1>2, <2>1, Zenon
  <2> QED BY <2>1, <2>2
<1> QED BY <1>3 DEF Min

LEMMA OutlookInitHolds ==
  OutlookInit => OutlookIInv
<1> SUFFICES ASSUME OutlookInit PROVE OutlookIInv
  OBVIOUS
<1>1. Cardinality({}) = 0 /\ SeenCap \in Nat /\ MaxOutlookMail \in Nat /\ MaxOutlookMail >= 2
  BY FS_EmptySet, OutlookAssumption
<1>2. OutlookTypeOK
  <2>1. 0 \in 0..MaxOutlookFaults
    BY OutlookAssumption
  <2>2. arrived = 2 /\ arrived \in OutlookMail /\ folder = 1..arrived
    BY <1>1 DEF OutlookInit, OutlookMail, OldMail
  <2>3. Unsynced \in [synced : BOOLEAN, seen : SUBSET (1..arrived)] /\ Cardinality(Unsynced.seen) <= SeenCap
    BY <1>1 DEF Unsynced
  <2>4. /\ seenFile = Unsynced /\ fileText = "whole" /\ stage = "idle" /\ seen = {} /\ unread = {}
        /\ binder = [b \in Binders |-> "new"] /\ bindCopy = [b \in Binders |-> Unsynced]
        /\ outlookFaults = 0
    BY DEF OutlookInit
  <2> QED BY <2>1, <2>2, <2>3, <2>4 DEF OutlookTypeOK
<1>3. \A b \in Binders : bindCopy[b].seen = {}
  BY DEF OutlookInit, Unsynced
<1>4. CopiesFit /\ SeenIsKnown /\ SentIsSeen /\ EmittedAgainForAReason
  <2>1. sent = {} /\ seenFile.seen = {} /\ stage = "idle" /\ unread = {}
    BY DEF OutlookInit, Unsynced
  <2>2. SeenCap \in Nat /\ 0 <= SeenCap
    BY <1>1
  <2> QED BY <1>1, <1>3, <2>1, <2>2 DEF CopiesFit, SeenIsKnown, SentIsSeen, EmittedAgainForAReason
<1> QED BY <1>2, <1>4 DEF OutlookIInv

\* What the file reads as.
LEMMA LoadStateFits ==
  ASSUME OutlookIInv
  PROVE  /\ LoadState \in [synced : BOOLEAN, seen : SUBSET (1..arrived)]
         /\ Cardinality(LoadState.seen) <= SeenCap
         /\ LoadState.seen \subseteq sent \cup baseline
         /\ stage = "idle" /\ Readable => sent \subseteq LoadState.seen \cup again
         /\ ~Readable => ~LoadState.synced
<1>1. Unsynced \in [synced : BOOLEAN, seen : SUBSET (1..arrived)] /\ Unsynced.seen = {} /\ Cardinality({}) <= SeenCap
  BY FS_EmptySet, OutlookAssumption DEF Unsynced
<1>2. ~Unsynced.synced
  BY DEF Unsynced
<1> QED BY <1>1, <1>2 DEF LoadState, OutlookIInv, OutlookTypeOK, SeenIsKnown, SentIsSeen

\* What a write of some ids keeps.
LEMMA KeptIds ==
  ASSUME NEW ids \in MapKeys(seen), seen \subseteq 1..arrived, arrived \in Nat
  PROVE  ids \subseteq seen /\ Cardinality(ids) <= SeenCap
BY OutlookAssumption DEF MapKeys, kSubset

\* A write, whole or mixed, of ids that were seen, with the loss of which it tells.
LEMMA WriteKeeps ==
  ASSUME OutlookIInv, NEW state \in [synced : BOOLEAN, seen : SUBSET (1..arrived)], NEW lost,
         Cardinality(state.seen) <= SeenCap, state.seen \subseteq sent \cup baseline, WriteState(state, lost)
  PROVE  /\ seenFile' \in [synced : BOOLEAN, seen : SUBSET (1..arrived)]
         /\ fileText' \in {"whole", "empty", "mixed"}
         /\ Cardinality(seenFile'.seen) <= SeenCap /\ seenFile'.seen \subseteq sent \cup baseline
         /\ again \subseteq again'
         /\ Readable' => seenFile' = state /\ lost \subseteq again'
BY DEF WriteState, Readable, OutlookIInv, OutlookTypeOK, SeenIsKnown

\* The steps of a poll.
LEMMA PollKeeps ==
  ASSUME OutlookIInv, ListMail \/ EmitOldest \/ OpenPoll \/ SavePoll \/ PollFails
  PROVE  OutlookIInv'
<1>1. arrived \in Nat /\ Newest \subseteq folder /\ Newest \subseteq 1..arrived
  <2>1. Newest \subseteq folder
    BY DEF Newest
  <2>2. arrived \in Nat /\ folder \subseteq 1..arrived
    BY OutlookAssumption DEF OutlookIInv, OutlookTypeOK, OutlookMail
  <2> QED BY <2>1, <2>2
<1>2. CASE ListMail
  <2> DEFINE state == LoadState
  <2>1. /\ state \in [synced : BOOLEAN, seen : SUBSET (1..arrived)]
        /\ state.seen \subseteq sent \cup baseline
        /\ Readable => sent \subseteq state.seen \cup again
        /\ ~Readable => ~state.synced
        /\ stage = "idle" /\ UNCHANGED <<arrived, folder, seenFile, fileText, binder, bindCopy, outlookFaults, sent>>
    BY <1>2, LoadStateFits DEF ListMail, fileVars, bindVars
  <2>2. /\ \/ /\ ~state.synced /\ stage' = "save" /\ seen' = state.seen \cup Newest
              /\ unread' = {} /\ baseline' = baseline \cup (Newest \ sent)
           \/ /\ state.synced /\ stage' = "mail" /\ seen' = state.seen
              /\ unread' = Newest \ state.seen /\ baseline' = baseline
        /\ again' = IF Readable THEN again ELSE again \cup (sent \ seen')
    BY <1>2 DEF ListMail
  <2> HIDE DEF state
  <2>3. OutlookTypeOK' /\ CopiesFit'
    BY <1>1, <2>1, <2>2 DEF OutlookIInv, OutlookTypeOK, CopiesFit
  <2>4. SeenIsKnown'
    BY <2>1, <2>2 DEF OutlookIInv, SeenIsKnown
  <2>5. SentIsSeen' /\ EmittedAgainForAReason'
    BY <2>1, <2>2 DEF OutlookIInv, SentIsSeen, EmittedAgainForAReason
  <2> QED BY <2>3, <2>4, <2>5 DEF OutlookIInv
<1>3. CASE EmitOldest
  <2> DEFINE m == Min(unread)
  <2>1. m \in unread
    BY <1>1, <1>3, LeastIsOne DEF EmitOldest, OutlookIInv, OutlookTypeOK
  <2>2. /\ stage = "mail" /\ sent' = sent \cup {m} /\ seen' = seen \cup {m} /\ unread' = unread \ {m}
        /\ UNCHANGED <<arrived, folder, seenFile, fileText, stage, binder, bindCopy, outlookFaults, baseline, again>>
    BY <1>3 DEF EmitOldest, fileVars, bindVars
  <2> HIDE DEF m
  <2> QED BY <2>1, <2>2 DEF OutlookIInv, OutlookTypeOK, CopiesFit, SeenIsKnown, SentIsSeen, EmittedAgainForAReason
<1>4. CASE OpenPoll
  <2>1. /\ stage # "idle" /\ stage' = "write" /\ fileText' = "empty"
        /\ UNCHANGED <<arrived, folder, seenFile, seen, unread, binder, bindCopy, outlookFaults, sent, baseline, again>>
    BY <1>4 DEF OpenPoll, OpenState, bindVars
  <2> QED BY <2>1 DEF OutlookIInv, OutlookTypeOK, CopiesFit, SeenIsKnown, SentIsSeen, EmittedAgainForAReason
<1>5. CASE SavePoll
  <2>1. PICK ids \in MapKeys(seen) : WriteState([synced |-> TRUE, seen |-> ids], sent \cap (seen \ ids))
    BY <1>5 DEF SavePoll
  <2> DEFINE state == [synced |-> TRUE, seen |-> ids]
  <2>2. /\ stage # "idle" /\ stage' = "idle" /\ seen' = {} /\ unread' = {}
        /\ UNCHANGED <<arrived, folder, binder, bindCopy, outlookFaults, sent, baseline>>
    BY <1>5 DEF SavePoll, EndPoll, bindVars
  <2>3. ids \subseteq seen /\ Cardinality(ids) <= SeenCap /\ seen \subseteq 1..arrived
        /\ seen \subseteq sent \cup baseline /\ sent \subseteq seen \cup again
    BY <1>1, <2>1, <2>2, KeptIds DEF OutlookIInv, OutlookTypeOK, SeenIsKnown, SentIsSeen
  <2>4. state \in [synced : BOOLEAN, seen : SUBSET (1..arrived)] /\ state.seen = ids
    BY <2>3
  <2> HIDE DEF state
  <2>5. /\ seenFile' \in [synced : BOOLEAN, seen : SUBSET (1..arrived)]
        /\ fileText' \in {"whole", "empty", "mixed"}
        /\ Cardinality(seenFile'.seen) <= SeenCap /\ seenFile'.seen \subseteq sent \cup baseline
        /\ again \subseteq again'
        /\ Readable' => seenFile' = state /\ sent \cap (seen \ ids) \subseteq again'
    BY <2>1, <2>3, <2>4, WriteKeeps DEF state
  <2>6. Readable' => sent \subseteq seenFile'.seen \cup again'
    BY <2>3, <2>4, <2>5
  <2>7. OutlookTypeOK' /\ CopiesFit' /\ SeenIsKnown'
    BY <2>2, <2>5 DEF OutlookIInv, OutlookTypeOK, CopiesFit, SeenIsKnown
  <2>8. SentIsSeen' /\ EmittedAgainForAReason'
    BY <2>2, <2>6 DEF SentIsSeen, EmittedAgainForAReason
  <2> QED BY <2>7, <2>8 DEF OutlookIInv
<1>6. CASE PollFails
  <2>1. /\ outlookFaults' \in 0..MaxOutlookFaults /\ seenFile' = seenFile
        /\ fileText' \in {fileText, "mixed"}
        /\ again' = again \cup (sent \ seenFile.seen)
        /\ stage' = "idle" /\ seen' = {} /\ unread' = {}
        /\ UNCHANGED <<arrived, folder, binder, bindCopy, sent, baseline>>
    BY <1>6, OutlookAssumption DEF PollFails, FailState, EndPoll, OutlookIInv, OutlookTypeOK, fileVars, bindVars
  <2> QED BY <2>1 DEF OutlookIInv, OutlookTypeOK, CopiesFit, SeenIsKnown, SentIsSeen, EmittedAgainForAReason
<1> QED BY <1>2, <1>3, <1>4, <1>5, <1>6

\* The steps of a command about the source.
LEMMA BindKeeps ==
  ASSUME OutlookIInv, NEW b \in Binders, BindLoads(b) \/ BindOpens(b) \/ BindSaves(b) \/ BindFails(b)
  PROVE  OutlookIInv'
<1> USE DEF OutlookIInv, OutlookTypeOK, CopiesFit, SeenIsKnown, SentIsSeen, EmittedAgainForAReason
<1>1. Unsynced \in [synced : BOOLEAN, seen : SUBSET (1..arrived)] /\ Unsynced.seen = {} /\ Cardinality({}) <= SeenCap
  BY FS_EmptySet, OutlookAssumption DEF Unsynced
<1>2. CASE BindLoads(b)
  <2>1. /\ bindCopy' = [bindCopy EXCEPT ![b] = LoadState] /\ binder' = [binder EXCEPT ![b] = "loaded"]
        /\ UNCHANGED <<arrived, folder, seenFile, fileText, stage, seen, unread, outlookFaults, sent, baseline, again>>
    BY <1>2 DEF BindLoads, fileVars, loopVars
  <2>2. /\ LoadState \in [synced : BOOLEAN, seen : SUBSET (1..arrived)]
        /\ Cardinality(LoadState.seen) <= SeenCap /\ LoadState.seen \subseteq sent \cup baseline
    BY LoadStateFits
  <2> QED BY <2>1, <2>2 DEF Readable
<1>3. CASE BindOpens(b)
  <2>1. /\ fileText' = "empty" /\ binder' = [binder EXCEPT ![b] = "writing"]
        /\ UNCHANGED <<arrived, folder, seenFile, stage, seen, unread, bindCopy, outlookFaults, sent, baseline, again>>
    BY <1>3 DEF BindOpens, OpenState, loopVars
  <2> QED BY <2>1 DEF Readable
<1>4. CASE BindSaves(b)
  <2>1. /\ bindCopy' = [bindCopy EXCEPT ![b] = Unsynced] /\ binder' = [binder EXCEPT ![b] = "end"]
        /\ UNCHANGED <<arrived, folder, stage, seen, unread, outlookFaults, sent, baseline>>
    BY <1>4 DEF BindSaves, EndBind, loopVars
  <2>2. /\ bindCopy[b] \in [synced : BOOLEAN, seen : SUBSET (1..arrived)]
        /\ Cardinality(bindCopy[b].seen) <= SeenCap /\ bindCopy[b].seen \subseteq sent \cup baseline
        /\ WriteState(bindCopy[b], sent \ bindCopy[b].seen)
    BY <1>4 DEF BindSaves
  <2>3. /\ seenFile' \in [synced : BOOLEAN, seen : SUBSET (1..arrived)]
        /\ fileText' \in {"whole", "empty", "mixed"}
        /\ Cardinality(seenFile'.seen) <= SeenCap /\ seenFile'.seen \subseteq sent \cup baseline
        /\ again \subseteq again'
        /\ Readable' => seenFile' = bindCopy[b] /\ sent \ bindCopy[b].seen \subseteq again'
    BY <2>2, WriteKeeps
  <2>4. Readable' => sent \subseteq seenFile'.seen \cup again'
    BY <2>3
  <2> QED BY <1>1, <2>1, <2>3, <2>4
<1>5. CASE BindFails(b)
  <2>1. /\ bindCopy' = [bindCopy EXCEPT ![b] = Unsynced] /\ binder' = [binder EXCEPT ![b] = "end"]
        /\ fileText' \in {fileText, "mixed"} /\ outlookFaults' \in 0..MaxOutlookFaults
        /\ UNCHANGED <<arrived, folder, seenFile, stage, seen, unread, sent, baseline, again>>
    BY <1>5, OutlookAssumption DEF BindFails, EndBind, FailState, loopVars
  <2> QED BY <1>1, <2>1 DEF Readable
<1> QED BY <1>2, <1>3, <1>4, <1>5

\* The mailbox and crashes.
LEMMA OutlookKeeps ==
  ASSUME OutlookIInv, [OutlookNext]_outlookVars
  PROVE  OutlookIInv'
<1> USE DEF OutlookIInv, OutlookTypeOK, CopiesFit, SeenIsKnown, SentIsSeen, EmittedAgainForAReason, Readable
<1>1. CASE ListMail \/ EmitOldest \/ OpenPoll \/ SavePoll \/ PollFails
  BY <1>1, PollKeeps
<1>2. CASE OutlookCrash
  <2>1. /\ outlookFaults' \in 0..MaxOutlookFaults /\ seenFile' = seenFile
        /\ fileText' \in {fileText, "mixed"}
        /\ again' = again \cup (sent \ seenFile.seen)
        /\ stage' = "idle" /\ seen' = {} /\ unread' = {}
        /\ binder' = [b \in Binders |-> IF binder[b] = "new" THEN "new" ELSE "end"]
        /\ bindCopy' = [b \in Binders |-> Unsynced]
        /\ UNCHANGED <<arrived, folder, sent, baseline>>
    BY <1>2, OutlookAssumption DEF OutlookCrash, FailState, EndPoll, fileVars
  <2>2. Unsynced \in [synced : BOOLEAN, seen : SUBSET (1..arrived)] /\ Unsynced.seen = {} /\ Cardinality({}) <= SeenCap
    BY FS_EmptySet, OutlookAssumption DEF Unsynced
  <2> QED BY <2>1, <2>2
<1>3. CASE MailArrives
  <2>1. /\ arrived' = arrived + 1 /\ arrived' \in OutlookMail /\ folder' = folder \cup {arrived'}
        /\ 1..arrived \subseteq 1..arrived' /\ arrived' \in 1..arrived'
    BY <1>3, OutlookAssumption DEF MailArrives, OutlookMail
  <2>2. UNCHANGED <<seenFile, fileText, stage, seen, unread, binder, bindCopy, outlookFaults, sent, baseline, again>>
    BY <1>3 DEF MailArrives, fileVars, loopVars, bindVars
  <2> QED BY <2>1, <2>2
<1>4. ASSUME NEW m \in OutlookMail, MailLeaves(m) PROVE OutlookIInv'
  BY <1>4 DEF MailLeaves, fileVars, loopVars, bindVars
<1>5. ASSUME NEW b \in Binders, BindLoads(b) \/ BindOpens(b) \/ BindSaves(b) \/ BindFails(b) PROVE OutlookIInv'
  BY <1>5, BindKeeps
<1>6. CASE UNCHANGED outlookVars
  BY <1>6 DEF outlookVars, fileVars, loopVars, bindVars
<1> QED BY <1>1, <1>2, <1>3, <1>4, <1>5, <1>6 DEF OutlookNext

\* The invariant of the Outlook loop holds in every reachable state.
THEOREM OutlookInvariant == OutlookSpec => []OutlookIInv
<1>1. OutlookInit => OutlookIInv
  BY OutlookInitHolds
<1>2. OutlookIInv /\ [OutlookNext]_outlookVars => OutlookIInv'
  BY OutlookKeeps
<1> QED BY <1>1, <1>2, PTL DEF OutlookSpec

\* Type correctness of the Outlook loop.
THEOREM OutlookTypeCorrect == OutlookSpec => []OutlookTypeOK
<1>1. OutlookIInv => OutlookTypeOK
  BY DEF OutlookIInv
<1> QED BY <1>1, OutlookInvariant, PTL

\* What the Outlook loop counts as seen was emitted, or met a file that told nothing.
THEOREM SeenWasEmitted == OutlookSpec => []SeenMailWasEmitted
<1>1. OutlookIInv => SeenMailWasEmitted
  BY DEF OutlookIInv, SeenIsKnown, SeenMailWasEmitted
<1> QED BY <1>1, OutlookInvariant, PTL

\* What the Outlook loop lists as unread it has not emitted before, unless the file
\* lost it, whatever commands rewrite the file, wherever writes of it meet or fail,
\* and wherever polls are cut off.
THEOREM OutlookRepeatsForAReason == OutlookSpec => []EmittedAgainForAReason
<1>1. OutlookIInv => EmittedAgainForAReason
  BY DEF OutlookIInv
<1> QED BY <1>1, OutlookInvariant, PTL
------------------------------------------------------------------------------
\* The Telegram debouncer.

\* What a sequence that grows by one contains.
LEMMA AppendContains ==
  ASSUME NEW S, NEW q \in Seq(S), NEW e \in S
  PROVE  /\ Append(q, e) \in Seq(S) /\ Len(Append(q, e)) = Len(q) + 1
         /\ \A u : Contains(Append(q, e), u) <=> Contains(q, u) \/ u = e
<1>1. /\ Append(q, e) \in Seq(S) /\ Len(Append(q, e)) = Len(q) + 1 /\ Len(q) \in Nat
      /\ \A i \in 1..Len(q) : Append(q, e)[i] = q[i]
      /\ Append(q, e)[Len(q) + 1] = e
  OBVIOUS
<1>2. ASSUME NEW u, Contains(Append(q, e), u) PROVE Contains(q, u) \/ u = e
  <2>1. PICK i \in 1..(Len(q) + 1) : Append(q, e)[i] = u
    BY <1>1, <1>2 DEF Contains
  <2>2. i \in 1..Len(q) \/ i = Len(q) + 1
    BY <1>1
  <2> QED BY <1>1, <2>1, <2>2 DEF Contains
<1>3. ASSUME NEW u, Contains(q, u) \/ u = e PROVE Contains(Append(q, e), u)
  <2>1. Len(q) + 1 \in 1..(Len(q) + 1) /\ 1..Len(q) \subseteq 1..(Len(q) + 1)
    BY <1>1
  <2> QED BY <1>1, <1>3, <2>1 DEF Contains
<1> QED BY <1>1, <1>2, <1>3

\* A flush takes each batch its senders hold once.
LEMMA BatchFacts ==
  ASSUME ChatTypeOK, NEW senders \in SUBSET Senders, NEW batches \in Batches(senders)
  PROVE  /\ batches \in Seq(Seq(1..Len(update)))
         /\ \A i \in 1..Len(batches) :
              batches[i] # <<>> /\ \E s \in senders : batches[i] = pending[s]
         /\ \A i, j \in 1..Len(batches) : batches[i] = batches[j] => i = j
         /\ \A s \in senders : pending[s] # <<>> => \E i \in 1..Len(batches) : batches[i] = pending[s]
<1> DEFINE S == {pending[s] : s \in Held(senders)}
           n == Cardinality(S)
           first == [q \in S |-> q[1]]
<1>1. \A s \in Senders : pending[s] \in Seq(1..Len(update))
  BY DEF ChatTypeOK
<1>2. \A q \in S : q \in Seq(1..Len(update)) /\ q # <<>> /\ \E s \in senders : q = pending[s]
  BY <1>1 DEF Held
<1>3. \A s \in senders : pending[s] # <<>> => pending[s] \in S
  BY DEF Held
<1>4. IsFiniteSet(S) /\ n \in Nat
  <2>1. ASSUME NEW q \in S PROVE q[1] \in 1..Len(update) /\ \E s \in senders : q = pending[s] /\ Sender(q[1]) = s
    <3>1. PICK s \in senders : q = pending[s] /\ q \in Seq(1..Len(update)) /\ q # <<>>
      BY <1>2
    <3>2. 1 \in DOMAIN q /\ q[1] \in 1..Len(update)
      BY <3>1
    <3> QED BY <3>1, <3>2 DEF ChatTypeOK
  <2>2. first \in Injection(S, 1..Len(update))
    <3>1. first \in [S -> 1..Len(update)]
      BY <2>1
    <3>2. \A q, r \in S : q[1] = r[1] => q = r
      BY <2>1
    <3> HIDE DEF S
    <3> QED BY <3>1, <3>2 DEF Injection, IsInjective
  <2>3. Len(update) \in Int /\ IsFiniteSet(1..Len(update))
    BY FS_Interval DEF ChatTypeOK
  <2>4. IsFiniteSet(S)
    BY <2>2, <2>3, FS_Injection
  <2> QED BY <2>4, FS_CardinalityType
<1>5. batches \in [1..n -> S] /\ \A i, j \in 1..n : i # j => batches[i] # batches[j]
  BY DEF Batches, SetToSeqs
<1> HIDE DEF S, n
<1>6. batches \in Seq(S) /\ Len(batches) = n
  BY <1>4, <1>5
<1>7. \A q \in S : \E i \in 1..n : batches[i] = q
  <2>1. batches \in Injection(1..n, S)
    BY <1>5 DEF Injection, IsInjective
  <2>2. IsFiniteSet(1..n) /\ Cardinality(1..n) = Cardinality(S)
    BY <1>4, FS_Interval DEF n
  <2>3. batches \in Surjection(1..n, S)
    BY <1>4, <2>1, <2>2, FS_Injection
  <2> QED BY <2>3 DEF Surjection
<1>8. batches \in Seq(Seq(1..Len(update)))
  BY <1>2, <1>6, SeqMonotonic
<1> QED BY <1>2, <1>3, <1>5, <1>6, <1>7, <1>8

LEMMA SenderFits ==
  ASSUME ChatTypeOK, NEW u \in 1..Len(update)
  PROVE  Sender(u) \in Senders
<1> DEFINE R == [sender : Senders, command : BOOLEAN]
<1>1. update \in Seq(R)
  BY DEF ChatTypeOK
<1>2. \A r \in R : r.sender \in Senders
  OBVIOUS
<1> HIDE DEF R
<1>3. update[u] \in R
  BY <1>1
<1> QED BY <1>2, <1>3 DEF Sender

\* A text is held for the one that sent it.
LEMMA HeldForSender ==
  ASSUME ChatTypeOK, NEW s \in Senders, NEW u, Contains(pending[s], u)
  PROVE  Sender(u) = s
<1>1. PICK i \in 1..Len(pending[s]) : pending[s][i] = u
  BY DEF Contains
<1>2. pending[s] \in Seq(1..Len(update)) /\ i \in DOMAIN pending[s]
  BY <1>1 DEF ChatTypeOK
<1> QED BY <1>1, <1>2 DEF ChatTypeOK

\* The batches of a flush hold what its senders hold, each text in one of them.
LEMMA BatchTexts ==
  ASSUME ChatTypeOK, NEW senders \in SUBSET Senders, NEW batches \in Batches(senders), NEW u
  PROVE  /\ \A i \in 1..Len(batches) :
              Contains(batches[i], u) => \E s \in senders : Contains(pending[s], u)
         /\ \A i, j \in 1..Len(batches) : Contains(batches[i], u) /\ Contains(batches[j], u) => i = j
         /\ (\E s \in senders : Contains(pending[s], u)) =>
              \E i \in 1..Len(batches) : Contains(batches[i], u)
<1>1. /\ \A i \in 1..Len(batches) : \E s \in senders : batches[i] = pending[s]
      /\ \A i, j \in 1..Len(batches) : batches[i] = batches[j] => i = j
      /\ \A s \in senders : pending[s] # <<>> => \E i \in 1..Len(batches) : batches[i] = pending[s]
  BY BatchFacts
<1>2. \A s \in senders : Contains(pending[s], u) => pending[s] # <<>> /\ Sender(u) = s
  <2>1. ~Contains(<<>>, u)
    BY DEF Contains
  <2> QED BY <2>1, HeldForSender
<1> QED BY <1>1, <1>2

\* A goroutine without batches that takes what some senders hold, and perhaps updates
\* of its own, moves them and leaves the others where they are.
LEMMA TakeKeeps ==
  ASSUME ChatIInv, NEW g \in Goroutines, outbox[g] = <<>>,
         NEW senders \in SUBSET Senders, NEW boxes \in Seq(Seq(1..Len(update))), NEW own,
         \A u \in own : ~IsPlaced(u),
         \A u : \A i \in 1..Len(boxes) :
           Contains(boxes[i], u) => u \in own \/ \E s \in senders : Contains(pending[s], u),
         \A u : \A i, j \in 1..Len(boxes) : Contains(boxes[i], u) /\ Contains(boxes[j], u) => i = j,
         \A u : u \in own \/ (\E s \in senders : Contains(pending[s], u)) =>
           \E i \in 1..Len(boxes) : Contains(boxes[i], u),
         pending' = Forget(senders), outbox' = [outbox EXCEPT ![g] = boxes], delivered' = delivered
  PROVE  OnePlace' /\ \A u : IsPlaced(u)' <=> IsPlaced(u) \/ u \in own
<1> DEFINE InBoxes(u, i) == i \in 1..Len(boxes) /\ Contains(boxes[i], u)
<1>1. \A u, s : IsHeld(u, s)' <=> IsHeld(u, s) /\ s \notin senders
  <2>1. \A u : ~Contains(<<>>, u)
    BY DEF Contains
  <2> QED BY <2>1 DEF IsHeld, Forget
<1>2. /\ \A u, h, i : IsTaken(u, h, i)' <=> IF h = g THEN InBoxes(u, i) ELSE IsTaken(u, h, i)
      /\ \A u, i : ~IsTaken(u, g, i)
  <2>1. outbox' \in [Goroutines -> Seq(Seq(1..Len(update)))] /\ outbox'[g] = boxes
        /\ \A h \in Goroutines \ {g} : outbox'[h] = outbox[h]
    BY DEF ChatIInv, ChatTypeOK
  <2>2. \A u, i : ~IsTaken(u, g, i)
    BY DEF IsTaken
  <2> QED BY <2>1, <2>2 DEF IsTaken
<1>3. \A u, i : IsTold(u, i)' <=> IsTold(u, i)
  BY DEF IsTold
<1>4. /\ \A u, i : InBoxes(u, i) => u \in own \/ \E s \in senders : IsHeld(u, s)
      /\ \A u, i, j : InBoxes(u, i) /\ InBoxes(u, j) => i = j
      /\ \A u : u \in own \/ (\E s \in senders : IsHeld(u, s)) => \E i : InBoxes(u, i)
  BY DEF IsHeld
<1>5. \A s, t \in Senders : \A u : IsHeld(u, s) /\ IsHeld(u, t) => s = t
  BY HeldForSender DEF IsHeld, ChatIInv
<1>6. \A u \in own : /\ \A s : ~IsHeld(u, s)
                     /\ \A h, i : ~IsTaken(u, h, i)
                     /\ \A i : ~IsTold(u, i)
  BY DEF IsPlaced
<1> HIDE DEF InBoxes
<1>7. OnePlace'
  <2>1. ASSUME NEW u, NEW g1, NEW g2, NEW i, NEW j, IsTaken(u, g1, i)', IsTaken(u, g2, j)' PROVE g1 = g2 /\ i = j
    <3>1. CASE g1 = g /\ g2 = g
      BY <1>2, <1>4, <2>1, <3>1
    <3>2. CASE g1 # g /\ g2 # g
      BY <1>2, <2>1, <3>2 DEF ChatIInv, OnePlace
    <3>3. ASSUME NEW h, NEW k, NEW l, h # g, IsTaken(u, h, k), InBoxes(u, l) PROVE FALSE
      <4>1. \E s \in senders : IsHeld(u, s)
        BY <1>4, <1>6, <3>3
      <4> QED BY <3>3, <4>1 DEF ChatIInv, OnePlace
    <3> QED BY <1>2, <2>1, <3>1, <3>2, <3>3
  <2>2. \A u, i, j : IsTold(u, i)' /\ IsTold(u, j)' => i = j
    BY <1>3 DEF ChatIInv, OnePlace
  <2>3. ASSUME NEW u, NEW s, NEW h, NEW i, IsHeld(u, s)', IsTaken(u, h, i)' PROVE FALSE
    <3>1. IsHeld(u, s) /\ s \notin senders /\ s \in Senders
      BY <1>1, <2>3 DEF IsHeld
    <3>2. CASE h = g
      <4>1. InBoxes(u, i)
        BY <1>2, <2>3, <3>2
      <4>2. \E t \in senders : IsHeld(u, t)
        BY <1>4, <1>6, <3>1, <4>1
      <4> QED BY <1>5, <3>1, <4>2
    <3>3. CASE h # g
      BY <1>2, <2>3, <3>1, <3>3 DEF ChatIInv, OnePlace
    <3> QED BY <3>2, <3>3
  <2>4. \A u, s, i : ~(IsHeld(u, s)' /\ IsTold(u, i)')
    BY <1>1, <1>3 DEF ChatIInv, OnePlace
  <2>5. ASSUME NEW u, NEW h, NEW i, NEW j, IsTaken(u, h, i)', IsTold(u, j)' PROVE FALSE
    <3>1. IsTold(u, j)
      BY <1>3, <2>5
    <3>2. CASE h = g
      <4>1. InBoxes(u, i)
        BY <1>2, <2>5, <3>2
      <4>2. \E t \in senders : IsHeld(u, t)
        BY <1>4, <1>6, <3>1, <4>1
      <4> QED BY <3>1, <4>2 DEF ChatIInv, OnePlace
    <3>3. CASE h # g
      BY <1>2, <2>5, <3>1, <3>3 DEF ChatIInv, OnePlace
    <3> QED BY <3>2, <3>3
  <2> QED BY <2>1, <2>2, <2>3, <2>4, <2>5 DEF OnePlace
<1>8. ASSUME NEW u PROVE IsPlaced(u)' <=> IsPlaced(u) \/ u \in own
  <2>1. ASSUME IsPlaced(u)' PROVE IsPlaced(u) \/ u \in own
    BY <1>1, <1>2, <1>3, <1>4, <2>1 DEF IsPlaced
  <2>2. ASSUME IsPlaced(u) \/ u \in own PROVE IsPlaced(u)'
    <3>1. CASE \E s : IsHeld(u, s) /\ s \notin senders
      BY <1>1, <3>1 DEF IsPlaced
    <3>2. CASE u \in own \/ \E s \in senders : IsHeld(u, s)
      <4>1. PICK i : InBoxes(u, i)
        BY <1>4, <3>2
      <4>2. IsTaken(u, g, i)'
        BY <1>2, <4>1
      <4> QED BY <4>2 DEF IsPlaced
    <3>3. CASE \E h, i : IsTaken(u, h, i)
      BY <1>2, <3>3 DEF IsPlaced
    <3>4. CASE \E i : IsTold(u, i)
      BY <1>3, <3>4 DEF IsPlaced
    <3> QED BY <2>2, <3>1, <3>2, <3>3, <3>4 DEF IsPlaced
  <2> QED BY <2>1, <2>2
<1> QED BY <1>7, <1>8

\* Where nothing is placed at first.
LEMMA ChatInitHolds ==
  ChatInit => ChatIInv
<1> SUFFICES ASSUME ChatInit PROVE ChatIInv
  OBVIOUS
<1>1. MaxUpdates \in Nat /\ 0 \in 0..MaxUpdates
  BY SenderAssumption
<1>2. /\ update = <<>> /\ Len(update) = 0 /\ delivered = <<>> /\ Len(delivered) = 0
      /\ \A s \in Senders : pending[s] = <<>>
      /\ \A g \in Goroutines : outbox[g] = <<>>
      /\ \A u \in Updates : handler[u] = "none" /\ timer[u] = "none"
  BY DEF ChatInit
<1>3. ChatTypeOK
  <2>1. update \in Seq([sender : Senders, command : BOOLEAN]) /\ Len(update) <= MaxUpdates
    BY <1>1, <1>2
  <2>2. \A s \in Senders : IsInjective(pending[s]) /\ \A i \in DOMAIN pending[s] : Sender(pending[s][i]) = s
    BY <1>2 DEF IsInjective
  <2>3. <<>> \in Seq(1..Len(update)) /\ <<>> \in Seq(Seq(1..Len(update)))
    OBVIOUS
  <2>4. /\ pending \in [Senders -> Seq(1..Len(update))] /\ outbox \in [Goroutines -> Seq(Seq(1..Len(update)))]
        /\ delivered \in Seq(Seq(1..Len(update)))
    BY <2>3 DEF ChatInit
  <2>5. /\ handler \in [Updates -> {"none", "received", "emitting", "done"}]
        /\ timer \in [Updates -> {"none", "armed", "fired", "emitting", "done"}]
        /\ generation \in [Updates -> 0..MaxUpdates] /\ {stopped, exited} \subseteq BOOLEAN
    BY <1>1 DEF ChatInit
  <2> QED BY <2>1, <2>2, <2>4, <2>5 DEF ChatTypeOK
<1>4. \A u : ~Contains(<<>>, u)
  BY DEF Contains
<1>5. \A u, s, g, i : ~IsHeld(u, s) /\ ~IsTaken(u, g, i) /\ ~IsTold(u, i)
  BY <1>2, <1>4 DEF IsHeld, IsTaken, IsTold
<1>6. OnePlace /\ HandledArePlaced
  <2>1. 1..Len(update) = {}
    BY <1>2
  <2> QED BY <1>5, <2>1 DEF OnePlace, HandledArePlaced
<1>7. GoroutinesFit
  <2>1. \A u \in Updates : u \in Int /\ u > 0 /\ u \in Goroutines
    BY <1>1 DEF Updates, Goroutines
  <2>2. FlushAll \in Goroutines
    BY DEF Goroutines
  <2> QED BY <1>2, <2>1, <2>2 DEF GoroutinesFit
<1> QED BY <1>3, <1>6, <1>7 DEF ChatIInv

\* What stopping timers leaves of them.
LEMMA StoppedFacts ==
  ASSUME ChatTypeOK, NEW ts
  PROVE  /\ Stopped(ts) \in [Updates -> {"none", "armed", "fired", "emitting", "done"}]
         /\ \A u \in Updates : /\ Stopped(ts)[u] = "none" <=> timer[u] = "none"
                               /\ Stopped(ts)[u] = "emitting" <=> timer[u] = "emitting"
BY DEF ChatTypeOK, Stopped

\* What taking the texts of some senders leaves of them.
LEMMA ForgetFacts ==
  ASSUME ChatTypeOK, NEW senders \in SUBSET Senders
  PROVE  /\ Forget(senders) \in [Senders -> Seq(1..Len(update))]
         /\ \A s \in Senders : /\ IsInjective(Forget(senders)[s])
                               /\ \A i \in DOMAIN Forget(senders)[s] : Sender(Forget(senders)[s][i]) = s
<1>1. DOMAIN <<>> = {} /\ <<>> \in Seq(1..Len(update))
  OBVIOUS
<1>2. IsInjective(<<>>)
  BY <1>1 DEF IsInjective
<1>3. \A s \in Senders : Forget(senders)[s] = <<>> \/ Forget(senders)[s] = pending[s]
  BY DEF Forget
<1>4. Forget(senders) \in [Senders -> Seq(1..Len(update))]
  BY <1>1 DEF ChatTypeOK, Forget
<1>5. ASSUME NEW s \in Senders
      PROVE  /\ IsInjective(Forget(senders)[s])
             /\ \A i \in DOMAIN Forget(senders)[s] : Sender(Forget(senders)[s][i]) = s
  <2>1. CASE Forget(senders)[s] = <<>>
    BY <1>1, <1>2, <2>1
  <2>2. CASE Forget(senders)[s] = pending[s]
    BY <2>2 DEF ChatTypeOK
  <2> QED BY <1>3, <2>1, <2>2
<1> QED BY <1>4, <1>5

\* An update that is placed is one of the updates.
LEMMA PlacedFit ==
  ASSUME ChatTypeOK, NEW u, IsPlaced(u)
  PROVE  u \in 1..Len(update)
<1>1. ASSUME NEW q \in Seq(1..Len(update)), Contains(q, u) PROVE u \in 1..Len(update)
  BY <1>1 DEF Contains
<1>2. CASE \E s : IsHeld(u, s)
  BY <1>1, <1>2 DEF IsHeld, ChatTypeOK
<1>3. ASSUME NEW g, NEW i, IsTaken(u, g, i) PROVE u \in 1..Len(update)
  <2>1. outbox[g] \in Seq(Seq(1..Len(update))) /\ outbox[g][i] \in Seq(1..Len(update))
    BY <1>3 DEF IsTaken, ChatTypeOK
  <2> QED BY <1>1, <1>3, <2>1 DEF IsTaken
<1>4. ASSUME NEW i, IsTold(u, i) PROVE u \in 1..Len(update)
  <2>1. delivered[i] \in Seq(1..Len(update))
    BY <1>4 DEF IsTold, ChatTypeOK
  <2> QED BY <1>1, <1>4, <2>1 DEF IsTold
<1> QED BY <1>2, <1>3, <1>4 DEF IsPlaced

LEMMA ReceiveKeeps ==
  ASSUME ChatIInv, NEW s \in Senders, NEW command \in BOOLEAN, Receive(s, command)
  PROVE  ChatIInv'
<1> DEFINE n == Len(update)
<1>1. /\ ~stopped /\ n < MaxUpdates /\ update' = Append(update, [sender |-> s, command |-> command])
      /\ handler' = [handler EXCEPT ![n + 1] = "received"]
      /\ UNCHANGED <<timer, generation, pending, outbox, stopped, exited, delivered>>
  BY DEF Receive
<1>2. /\ n \in Nat /\ MaxUpdates \in Nat /\ Len(update') = n + 1 /\ n + 1 \in Updates /\ n + 1 \in 1..(n + 1)
      /\ 1..n \subseteq 1..(n + 1) /\ n + 1 \notin 1..n
      /\ update' \in Seq([sender : Senders, command : BOOLEAN])
      /\ \A u \in 1..n : update'[u] = update[u]
  BY <1>1, SenderAssumption DEF ChatIInv, ChatTypeOK, Updates
<1>3. ChatTypeOK'
  <2>1. Seq(1..n) \subseteq Seq(1..(n + 1)) /\ Seq(Seq(1..n)) \subseteq Seq(Seq(1..(n + 1)))
    BY <1>2, SeqMonotonic
  <2>2. handler' \in [Updates -> {"none", "received", "emitting", "done"}]
    BY <1>1 DEF ChatIInv, ChatTypeOK
  <2>3. pending' \in [Senders -> Seq(1..(n + 1))] /\ outbox' \in [Goroutines -> Seq(Seq(1..(n + 1)))]
        /\ delivered' \in Seq(Seq(1..(n + 1)))
    BY <1>1, <2>1 DEF ChatIInv, ChatTypeOK
  <2>4. ASSUME NEW t \in Senders, NEW i \in DOMAIN pending[t] PROVE update'[pending[t][i]].sender = t
    <3>1. pending[t][i] \in 1..n /\ update[pending[t][i]].sender = t
      BY DEF ChatIInv, ChatTypeOK, Sender
    <3> QED BY <1>2, <3>1
  <2>5. \A t \in Senders : IsInjective(pending'[t])
    BY <1>1 DEF ChatIInv, ChatTypeOK
  <2>6. /\ timer' \in [Updates -> {"none", "armed", "fired", "emitting", "done"}]
        /\ generation' \in [Updates -> 0..MaxUpdates] /\ {stopped', exited'} \subseteq BOOLEAN
    BY <1>1 DEF ChatIInv, ChatTypeOK
  <2>7. \A t \in Senders : /\ IsInjective(pending'[t])
                            /\ \A i \in DOMAIN pending'[t] : update'[pending'[t][i]].sender = t
    BY <1>1, <2>4, <2>5
  <2>8. n + 1 <= MaxUpdates
    BY <1>1, <1>2
  <2> HIDE DEF n
  <2> QED BY <1>2, <2>2, <2>3, <2>6, <2>7, <2>8 DEF ChatTypeOK, Sender
<1>4. /\ \A u, t : IsHeld(u, t)' <=> IsHeld(u, t)
      /\ \A u, g, i : IsTaken(u, g, i)' <=> IsTaken(u, g, i)
      /\ \A u, i : IsTold(u, i)' <=> IsTold(u, i)
  BY <1>1 DEF IsHeld, IsTaken, IsTold
<1>5. OnePlace'
  BY <1>4 DEF ChatIInv, OnePlace
<1>6. \A u : IsPlaced(u)' <=> IsPlaced(u)
  BY <1>4 DEF IsPlaced
<1>7. HandledArePlaced'
  <2>1. ~IsPlaced(n + 1)
    BY <1>2, PlacedFit DEF ChatIInv
  <2>2. handler'[n + 1] = "received" /\ \A u \in 1..n : handler'[u] = handler[u]
    BY <1>1, <1>2 DEF ChatIInv, ChatTypeOK
  <2>3. ASSUME NEW u \in 1..(n + 1) PROVE IsPlaced(u) <=> handler'[u] # "received"
    <3>1. u \in 1..n \/ u = n + 1
      BY <1>2
    <3> QED BY <2>1, <2>2, <3>1 DEF ChatIInv, HandledArePlaced
  <2> QED BY <1>2, <1>6, <2>3 DEF HandledArePlaced
<1>8. GoroutinesFit'
  <2>1. handler[n + 1] = "none" /\ timer[n + 1] = "none" /\ outbox[n + 1] = <<>>
    BY <1>2 DEF ChatIInv, GoroutinesFit
  <2>2. \A u \in Updates : u \in Nat /\ (u > n + 1 <=> u > n /\ u # n + 1)
    BY <1>2 DEF Updates
  <2>3. handler'[n + 1] = "received" /\ \A u \in Updates \ {n + 1} : handler'[u] = handler[u]
    BY <1>1, <1>2 DEF ChatIInv, ChatTypeOK
  <2> HIDE DEF n
  <2>4. ASSUME NEW u \in Updates
        PROVE /\ outbox[u] # <<>> => handler'[u] = "emitting" \/ timer[u] = "emitting"
              /\ timer[u] # "none" => handler'[u] = "done"
              /\ handler'[u] = "none" <=> u > n + 1
    <3>1. CASE u = n + 1
      BY <1>2, <2>1, <2>3, <3>1
    <3>2. CASE u # n + 1
      BY <2>2, <2>3, <3>2 DEF ChatIInv, GoroutinesFit, n
    <3> QED BY <3>1, <3>2
  <2> QED BY <1>1, <1>2, <2>4 DEF ChatIInv, GoroutinesFit
<1> QED BY <1>3, <1>5, <1>7, <1>8 DEF ChatIInv

LEMMA HandleCommandKeeps ==
  ASSUME ChatIInv, NEW u \in 1..Len(update), HandleCommand(u)
  PROVE  ChatIInv'
<1> DEFINE senders == {s \in Senders : ThreadOf[s] = Thread(u)}
<1>1. PICK batches \in Batches(senders) : outbox' = [outbox EXCEPT ![u] = Append(batches, <<u>>)]
  BY DEF HandleCommand
<1>2. /\ handler[u] = "received" /\ pending' = Forget(senders) /\ timer' = Stopped(TimersOf(senders))
      /\ handler' = [handler EXCEPT ![u] = "emitting"]
      /\ UNCHANGED <<update, generation, stopped, exited, delivered>>
  BY DEF HandleCommand
<1>3. senders \in SUBSET Senders
  OBVIOUS
<1> HIDE DEF senders
<1>4. u \in Updates /\ u \in Goroutines /\ u # FlushAll
  BY SenderAssumption DEF ChatIInv, ChatTypeOK, Updates, Goroutines, FlushAll
<1>5. outbox[u] = <<>> /\ ~IsPlaced(u)
  BY <1>2, <1>4 DEF ChatIInv, GoroutinesFit, HandledArePlaced
<1>6. /\ batches \in Seq(Seq(1..Len(update)))
      /\ \A i \in 1..Len(batches) : batches[i] # <<>>
  BY <1>1, <1>3, BatchFacts DEF ChatIInv
<1> DEFINE boxes == Append(batches, <<u>>)
           n == Len(batches)
<1>7. /\ boxes \in Seq(Seq(1..Len(update))) /\ Len(boxes) = n + 1 /\ n \in Nat
      /\ \A i \in 1..n : boxes[i] = batches[i]
      /\ boxes[n + 1] = <<u>> /\ n + 1 \in 1..(n + 1) /\ n + 1 \notin 1..n
      /\ \A i \in 1..(n + 1) : i \in 1..n \/ i = n + 1
      /\ 1..n \subseteq 1..(n + 1)
  BY <1>6
<1> HIDE DEF boxes, n
<1>8. \A v : Contains(<<u>>, v) <=> v = u
  <2>1. Len(<<u>>) = 1 /\ <<u>>[1] = u /\ 1..1 = {1}
    OBVIOUS
  <2> QED BY <2>1 DEF Contains
<1>9. ASSUME NEW v
      PROVE  /\ \A i \in 1..n : Contains(batches[i], v) => \E s \in senders : Contains(pending[s], v)
             /\ \A i, j \in 1..n : Contains(batches[i], v) /\ Contains(batches[j], v) => i = j
             /\ (\E s \in senders : Contains(pending[s], v)) => \E i \in 1..n : Contains(batches[i], v)
  BY <1>1, <1>3, BatchTexts DEF ChatIInv, n
<1>10. \A s \in senders : ~Contains(pending[s], u)
  BY <1>3, <1>5 DEF IsPlaced, IsHeld
<1>11. \A v : \A i \in 1..Len(boxes) :
         Contains(boxes[i], v) => v \in {u} \/ \E s \in senders : Contains(pending[s], v)
  BY <1>7, <1>8, <1>9
<1>12. ASSUME NEW v, NEW i \in 1..Len(boxes), NEW j \in 1..Len(boxes),
              Contains(boxes[i], v), Contains(boxes[j], v)
       PROVE  i = j
  <2>1. CASE i \in 1..n /\ j \in 1..n
    BY <1>7, <1>9, <1>12, <2>1
  <2>2. ASSUME NEW k \in 1..n, Contains(boxes[k], v), v = u PROVE FALSE
    BY <1>7, <1>9, <1>10, <2>2
  <2> QED BY <1>7, <1>8, <1>12, <2>1, <2>2
<1>13. ASSUME NEW v, v \in {u} \/ \E s \in senders : Contains(pending[s], v)
       PROVE  \E i \in 1..Len(boxes) : Contains(boxes[i], v)
  <2>1. CASE v = u
    BY <1>7, <1>8, <2>1
  <2>2. CASE \E s \in senders : Contains(pending[s], v)
    <3>1. PICK i \in 1..n : Contains(batches[i], v)
      BY <1>9, <2>2
    <3> QED BY <1>7, <3>1
  <2> QED BY <1>13, <2>1, <2>2
<1>14. OnePlace' /\ \A v : IsPlaced(v)' <=> IsPlaced(v) \/ v \in {u}
  <2>1. \A v \in {u} : ~IsPlaced(v)
    BY <1>5
  <2>2. outbox' = [outbox EXCEPT ![u] = boxes] /\ pending' = Forget(senders) /\ delivered' = delivered
    BY <1>1, <1>2 DEF boxes
  <2> QED BY <1>3, <1>4, <1>5, <1>7, <1>11, <1>12, <1>13, <2>1, <2>2, TakeKeeps
<1>15. /\ timer' \in [Updates -> {"none", "armed", "fired", "emitting", "done"}]
       /\ \A v \in Updates : timer'[v] = "none" <=> timer[v] = "none"
       /\ \A v \in Updates : timer'[v] = "emitting" <=> timer[v] = "emitting"
  BY <1>2, StoppedFacts DEF ChatIInv
<1>16. /\ handler' \in [Updates -> {"none", "received", "emitting", "done"}]
       /\ handler'[u] = "emitting" /\ \A v \in Updates \ {u} : handler'[v] = handler[v]
  BY <1>2, <1>4 DEF ChatIInv, ChatTypeOK
<1>17. /\ outbox' \in [Goroutines -> Seq(Seq(1..Len(update)))]
       /\ outbox'[u] = boxes /\ \A g \in Goroutines \ {u} : outbox'[g] = outbox[g]
  BY <1>1, <1>4, <1>7 DEF ChatIInv, ChatTypeOK, boxes
<1>18. ChatTypeOK'
  <2>1. /\ pending' \in [Senders -> Seq(1..Len(update))]
        /\ \A s \in Senders : IsInjective(pending'[s]) /\ \A i \in DOMAIN pending'[s] : Sender(pending'[s][i]) = s
    BY <1>2, <1>3, ForgetFacts DEF ChatIInv
  <2> QED BY <1>2, <1>15, <1>16, <1>17, <2>1 DEF ChatIInv, ChatTypeOK, Sender
<1>19. HandledArePlaced'
  <2>1. 1..Len(update) \subseteq Updates
    BY SenderAssumption DEF ChatIInv, ChatTypeOK, Updates
  <2> QED BY <1>2, <1>14, <1>16, <2>1 DEF ChatIInv, HandledArePlaced
<1>20. GoroutinesFit'
  <2>1. \A i \in 1..Len(outbox'[u]) : outbox'[u][i] # <<>>
    <3>1. <<u>> # <<>> /\ \A i \in 1..n : batches[i] # <<>>
      BY <1>6 DEF n
    <3> QED BY <1>7, <1>17, <3>1
  <2>2. \A g \in Goroutines : \A i \in 1..Len(outbox'[g]) : outbox'[g][i] # <<>>
    BY <1>17, <2>1 DEF ChatIInv, GoroutinesFit
  <2>3. ~stopped => outbox'[FlushAll] = <<>>
    BY <1>4, <1>17 DEF ChatIInv, GoroutinesFit, Goroutines
  <2>4. ASSUME NEW v \in Updates
        PROVE  /\ outbox'[v] # <<>> => handler'[v] = "emitting" \/ timer'[v] = "emitting"
               /\ timer'[v] # "none" => handler'[v] = "done"
               /\ handler'[v] = "none" <=> v > Len(update)
    <3>1. CASE v = u
      <4>1. timer[u] = "none" /\ handler[u] # "none"
        BY <1>2, <1>4 DEF ChatIInv, GoroutinesFit
      <4> QED BY <1>4, <1>15, <1>16, <3>1, <4>1 DEF ChatIInv, GoroutinesFit
    <3>2. CASE v # u
      <4>1. v \in Goroutines
        BY DEF Goroutines
      <4> QED BY <1>15, <1>16, <1>17, <3>2, <4>1 DEF ChatIInv, GoroutinesFit
    <3> QED BY <3>1, <3>2
  <2> QED BY <1>2, <2>2, <2>3, <2>4 DEF GoroutinesFit
<1> QED BY <1>14, <1>18, <1>19, <1>20 DEF ChatIInv

\* What is left to show of a goroutine that takes batches: its own part.
LEMMA TakersFit ==
  ASSUME ChatIInv, NEW g \in Goroutines, NEW boxes \in Seq(Seq(1..Len(update))),
         \A i \in 1..Len(boxes) : boxes[i] # <<>>,
         outbox' = [outbox EXCEPT ![g] = boxes],
         ~stopped' => ~stopped /\ g # FlushAll,
         g # FlushAll => timer'[g] = "emitting" /\ handler[g] = "done",
         timer' \in [Updates -> {"none", "armed", "fired", "emitting", "done"}],
         \A v \in Updates \ {g} : /\ timer'[v] = "none" <=> timer[v] = "none"
                                  /\ timer'[v] = "emitting" <=> timer[v] = "emitting",
         handler' = handler, update' = update
  PROVE  GoroutinesFit'
<1>1. /\ outbox'[g] = boxes /\ \A h \in Goroutines \ {g} : outbox'[h] = outbox[h]
  BY DEF ChatIInv, ChatTypeOK
<1>2. \A h \in Goroutines : \A i \in 1..Len(outbox'[h]) : outbox'[h][i] # <<>>
  BY <1>1 DEF ChatIInv, GoroutinesFit
<1>3. ~stopped' => outbox'[FlushAll] = <<>>
  BY <1>1 DEF ChatIInv, GoroutinesFit, Goroutines
<1>4. ASSUME NEW v \in Updates
      PROVE  /\ outbox'[v] # <<>> => handler[v] = "emitting" \/ timer'[v] = "emitting"
             /\ timer'[v] # "none" => handler[v] = "done"
             /\ handler[v] = "none" <=> v > Len(update)
  <2>1. v \in Goroutines /\ v # FlushAll
    BY SenderAssumption DEF Goroutines, FlushAll, Updates
  <2>2. CASE v = g
    BY <2>1, <2>2 DEF ChatIInv, GoroutinesFit
  <2>3. CASE v # g
    BY <1>1, <2>1, <2>3 DEF ChatIInv, GoroutinesFit
  <2> QED BY <2>2, <2>3
<1> QED BY <1>2, <1>3, <1>4 DEF GoroutinesFit

LEMMA StopRunKeeps ==
  ASSUME ChatIInv, StopRun
  PROVE  ChatIInv'
<1>1. PICK batches \in Batches(Senders) : outbox' = [outbox EXCEPT ![FlushAll] = batches]
  BY DEF StopRun
<1>2. /\ ~stopped /\ stopped' = TRUE /\ pending' = Forget(Senders) /\ timer' = Stopped(TimersOf(Senders))
      /\ UNCHANGED <<update, handler, generation, exited, delivered>>
  BY DEF StopRun
<1> DEFINE own == {}
<1>own. \A v : v \notin own
  OBVIOUS
<1> HIDE DEF own
<1>3. /\ batches \in Seq(Seq(1..Len(update)))
      /\ \A i \in 1..Len(batches) : batches[i] # <<>>
  BY <1>1, BatchFacts DEF ChatIInv
<1>4. FlushAll \in Goroutines /\ outbox[FlushAll] = <<>> /\ FlushAll \notin Updates
  BY <1>2, SenderAssumption DEF ChatIInv, GoroutinesFit, Goroutines, FlushAll, Updates
<1>5. ASSUME NEW v
      PROVE  /\ \A i \in 1..Len(batches) :
                  Contains(batches[i], v) => v \in own \/ \E s \in Senders : Contains(pending[s], v)
             /\ \A i, j \in 1..Len(batches) : Contains(batches[i], v) /\ Contains(batches[j], v) => i = j
             /\ v \in own \/ (\E s \in Senders : Contains(pending[s], v)) =>
                  \E i \in 1..Len(batches) : Contains(batches[i], v)
  BY <1>1, <1>own, BatchTexts DEF ChatIInv
<1>6. OnePlace' /\ \A v : IsPlaced(v)' <=> IsPlaced(v) \/ v \in own
  BY <1>1, <1>2, <1>3, <1>4, <1>5, <1>own, TakeKeeps
<1>7. /\ timer' \in [Updates -> {"none", "armed", "fired", "emitting", "done"}]
      /\ \A v \in Updates : /\ timer'[v] = "none" <=> timer[v] = "none"
                            /\ timer'[v] = "emitting" <=> timer[v] = "emitting"
  BY <1>2, StoppedFacts DEF ChatIInv
<1>8. ChatTypeOK'
  <2>1. /\ pending' \in [Senders -> Seq(1..Len(update))]
        /\ \A s \in Senders : IsInjective(pending'[s]) /\ \A i \in DOMAIN pending'[s] : Sender(pending'[s][i]) = s
    BY <1>2, ForgetFacts DEF ChatIInv
  <2>2. outbox' \in [Goroutines -> Seq(Seq(1..Len(update)))]
    BY <1>1, <1>3, <1>4 DEF ChatIInv, ChatTypeOK
  <2> QED BY <1>2, <1>7, <2>1, <2>2 DEF ChatIInv, ChatTypeOK, Sender
<1>9. HandledArePlaced'
  BY <1>2, <1>6, <1>own DEF ChatIInv, HandledArePlaced
<1>10. GoroutinesFit'
  BY <1>1, <1>2, <1>3, <1>4, <1>7, TakersFit
<1> QED BY <1>6, <1>8, <1>9, <1>10 DEF ChatIInv

LEMMA FlushMatchKeeps ==
  ASSUME ChatIInv, NEW u \in 1..Len(update), FlushMatch(u)
  PROVE  ChatIInv'
<1> DEFINE s == Sender(u)
<1>1. /\ timer[u] = "fired" /\ UNCHANGED <<update, handler, generation, stopped, exited, delivered>>
      /\ \/ /\ pending[s] # <<>> /\ outbox' = [outbox EXCEPT ![u] = <<pending[s]>>]
            /\ pending' = Forget({s})
            /\ timer' = [Stopped({Last(pending[s])}) EXCEPT ![u] = "emitting"]
         \/ timer' = [timer EXCEPT ![u] = "done"] /\ UNCHANGED <<pending, outbox>>
  BY DEF FlushMatch
<1>2. /\ u \in Updates /\ u \in Goroutines /\ u # FlushAll /\ s \in Senders
      /\ pending[s] \in Seq(1..Len(update))
  <2>1. u \in Updates /\ u \in Goroutines /\ u # FlushAll
    BY SenderAssumption DEF ChatIInv, ChatTypeOK, Updates, Goroutines, FlushAll
  <2>3. s \in Senders
    BY SenderFits DEF ChatIInv
  <2> QED BY <2>1, <2>3 DEF ChatIInv, ChatTypeOK
<1>3. handler[u] = "done" /\ outbox[u] = <<>>
  BY <1>1, <1>2 DEF ChatIInv, GoroutinesFit
<1> HIDE DEF s
<1>4. CASE timer' = [timer EXCEPT ![u] = "done"] /\ UNCHANGED <<pending, outbox>>
  <2>1. ChatTypeOK'
    BY <1>1, <1>4 DEF ChatIInv, ChatTypeOK, Sender
  <2>2. /\ \A v, t : IsHeld(v, t)' <=> IsHeld(v, t)
        /\ \A v, g, i : IsTaken(v, g, i)' <=> IsTaken(v, g, i)
        /\ \A v, i : IsTold(v, i)' <=> IsTold(v, i)
    BY <1>1, <1>4 DEF IsHeld, IsTaken, IsTold
  <2>3. OnePlace'
    BY <2>2 DEF ChatIInv, OnePlace
  <2>4. HandledArePlaced'
    BY <1>1, <2>2 DEF ChatIInv, HandledArePlaced, IsPlaced
  <2>5. GoroutinesFit'
    <3>1. timer'[u] = "done" /\ \A v \in Updates \ {u} : timer'[v] = timer[v]
      BY <1>2, <1>4 DEF ChatIInv, ChatTypeOK
    <3> QED BY <1>1, <1>3, <1>4, <3>1 DEF ChatIInv, GoroutinesFit
  <2> QED BY <2>1, <2>3, <2>4, <2>5 DEF ChatIInv
<1>5. CASE /\ pending[s] # <<>> /\ outbox' = [outbox EXCEPT ![u] = <<pending[s]>>]
           /\ pending' = Forget({s})
           /\ timer' = [Stopped({Last(pending[s])}) EXCEPT ![u] = "emitting"]
  <2> DEFINE boxes == <<pending[s]>>
             own == {}
  <2>own. \A v : v \notin own
    OBVIOUS
  <2>1. boxes \in Seq(Seq(1..Len(update))) /\ Len(boxes) = 1 /\ boxes[1] = pending[s] /\ 1..1 = {1}
    BY <1>2
  <2> HIDE DEF boxes, own
  <2>2. outbox' = [outbox EXCEPT ![u] = boxes] /\ {s} \in SUBSET Senders
    BY <1>2, <1>5 DEF boxes
  <2>3. ASSUME NEW v
        PROVE  /\ \A i \in 1..Len(boxes) :
                    Contains(boxes[i], v) => v \in own \/ \E t \in {s} : Contains(pending[t], v)
               /\ \A i, j \in 1..Len(boxes) : Contains(boxes[i], v) /\ Contains(boxes[j], v) => i = j
               /\ v \in own \/ (\E t \in {s} : Contains(pending[t], v)) =>
                    \E i \in 1..Len(boxes) : Contains(boxes[i], v)
    BY <2>1, <2>own
  <2>4. OnePlace' /\ \A v : IsPlaced(v)' <=> IsPlaced(v) \/ v \in own
    BY <1>1, <1>2, <1>3, <1>5, <2>1, <2>2, <2>3, <2>own, TakeKeeps
  <2>5. /\ timer' \in [Updates -> {"none", "armed", "fired", "emitting", "done"}]
        /\ timer'[u] = "emitting"
        /\ \A v \in Updates \ {u} : /\ timer'[v] = "none" <=> timer[v] = "none"
                                    /\ timer'[v] = "emitting" <=> timer[v] = "emitting"
    BY <1>2, <1>5, StoppedFacts DEF ChatIInv
  <2>6. ChatTypeOK'
    <3>1. /\ pending' \in [Senders -> Seq(1..Len(update))]
          /\ \A t \in Senders : IsInjective(pending'[t]) /\ \A i \in DOMAIN pending'[t] : Sender(pending'[t][i]) = t
      BY <1>5, <2>2, ForgetFacts DEF ChatIInv
    <3>2. outbox' \in [Goroutines -> Seq(Seq(1..Len(update)))]
      BY <1>2, <2>1, <2>2 DEF ChatIInv, ChatTypeOK
    <3> QED BY <1>1, <2>5, <3>1, <3>2 DEF ChatIInv, ChatTypeOK, Sender
  <2>7. HandledArePlaced'
    BY <1>1, <2>4, <2>own DEF ChatIInv, HandledArePlaced
  <2>8. GoroutinesFit'
    <3>1. \A i \in 1..Len(boxes) : boxes[i] # <<>>
      BY <1>5, <2>1
    <3> QED BY <1>1, <1>2, <1>3, <2>1, <2>2, <2>5, <3>1, TakersFit
  <2> QED BY <2>4, <2>6, <2>7, <2>8 DEF ChatIInv
<1> QED BY <1>1, <1>4, <1>5

LEMMA HandleTextKeeps ==
  ASSUME ChatIInv, NEW u \in 1..Len(update), HandleText(u)
  PROVE  ChatIInv'
<1> DEFINE s == Sender(u)
           held == Append(pending[s], u)
<1>1. /\ handler[u] = "received" /\ pending' = [pending EXCEPT ![s] = held]
      /\ generation' = [generation EXCEPT ![u] = Len(held)]
      /\ timer' = [Stopped(TimersOf({s})) EXCEPT ![u] = "armed"]
      /\ handler' = [handler EXCEPT ![u] = "done"]
      /\ UNCHANGED <<update, outbox, stopped, exited, delivered>>
  BY DEF HandleText, HoldText, Rearmed
<1>2. u \in Updates /\ u \in Goroutines /\ s \in Senders
  <2>1. u \in Updates /\ u \in Goroutines
    BY SenderAssumption DEF ChatIInv, ChatTypeOK, Updates, Goroutines
  <2> QED BY <2>1, SenderFits DEF ChatIInv
<1>3. outbox[u] = <<>> /\ timer[u] = "none" /\ ~IsPlaced(u)
  BY <1>1, <1>2 DEF ChatIInv, GoroutinesFit, HandledArePlaced
<1>4. pending[s] \in Seq(1..Len(update)) /\ IsInjective(pending[s])
      /\ \A i \in DOMAIN pending[s] : Sender(pending[s][i]) = s
  BY <1>2 DEF ChatIInv, ChatTypeOK
<1>5. /\ held \in Seq(1..Len(update)) /\ Len(held) = Len(pending[s]) + 1
      /\ \A v : Contains(held, v) <=> Contains(pending[s], v) \/ v = u
  BY <1>4, AppendContains
<1>6. ~Contains(pending[s], u)
  BY <1>2, <1>3 DEF IsPlaced, IsHeld
<1>7. /\ \A i \in 1..Len(pending[s]) : held[i] = pending[s][i] /\ held[i] # u /\ i \in DOMAIN pending[s]
      /\ held[Len(pending[s]) + 1] = u /\ Len(pending[s]) \in Nat
      /\ DOMAIN held = 1..(Len(pending[s]) + 1)
      /\ \A i \in 1..(Len(pending[s]) + 1) : i \in 1..Len(pending[s]) \/ i = Len(pending[s]) + 1
  <2> DEFINE q == pending[s]
  <2>1. q \in Seq(1..Len(update)) /\ \A i \in 1..Len(q) : q[i] # u
    BY <1>4, <1>6 DEF Contains
  <2> HIDE DEF q
  <2>2. /\ Len(q) \in Nat /\ DOMAIN q = 1..Len(q)
        /\ \A i \in 1..Len(q) : Append(q, u)[i] = q[i]
        /\ Append(q, u)[Len(q) + 1] = u
        /\ DOMAIN Append(q, u) = 1..(Len(q) + 1)
    BY <2>1
  <2>3. \A i \in 1..(Len(q) + 1) : i \in 1..Len(q) \/ i = Len(q) + 1
    BY <2>2
  <2> QED BY <2>1, <2>2, <2>3 DEF q
<1>8. Sender(u) = s
  OBVIOUS
<1> HIDE DEF s, held
<1>9. IsInjective(held)
  <2> SUFFICES ASSUME NEW i \in DOMAIN held, NEW j \in DOMAIN held, held[i] = held[j] PROVE i = j
    BY DEF IsInjective
  <2> QED BY <1>4, <1>7 DEF IsInjective
<1>10. \A i \in DOMAIN held : Sender(held[i]) = s
  BY <1>4, <1>7, <1>8
<1>11. Len(held) \in 0..MaxUpdates
  <2>1. IsFiniteSet(1..Len(update)) /\ Cardinality(1..Len(update)) = Len(update) /\ Len(update) \in Nat
        /\ Cardinality(1..Len(held)) = Len(held) /\ Len(held) \in Nat
    <3>1. Len(update) \in Nat
      BY DEF ChatIInv, ChatTypeOK
    <3>2. Len(held) \in Nat
      BY <1>5, <1>7
    <3>3. ASSUME NEW n \in Nat PROVE IsFiniteSet(1..n) /\ Cardinality(1..n) = n
      BY FS_Interval
    <3> QED BY <3>1, <3>2, <3>3
  <2>2. held \in Injection(1..Len(held), 1..Len(update))
    BY <1>5, <1>9 DEF Injection
  <2>3. Len(held) <= Len(update)
    BY <2>1, <2>2, FS_Injection
  <2> QED BY <2>1, <2>3, SenderAssumption DEF ChatIInv, ChatTypeOK
<1>12. /\ timer' \in [Updates -> {"none", "armed", "fired", "emitting", "done"}]
       /\ timer'[u] = "armed"
       /\ \A v \in Updates \ {u} : /\ timer'[v] = "none" <=> timer[v] = "none"
                                   /\ timer'[v] = "emitting" <=> timer[v] = "emitting"
  BY <1>1, <1>2, StoppedFacts DEF ChatIInv
<1>13. /\ handler' \in [Updates -> {"none", "received", "emitting", "done"}]
       /\ handler'[u] = "done" /\ \A v \in Updates \ {u} : handler'[v] = handler[v]
  BY <1>1, <1>2 DEF ChatIInv, ChatTypeOK
<1>14. /\ pending' \in [Senders -> Seq(1..Len(update))] /\ pending'[s] = held
       /\ \A t \in Senders \ {s} : pending'[t] = pending[t]
  BY <1>1, <1>2, <1>5 DEF ChatIInv, ChatTypeOK
<1>15. ChatTypeOK'
  <2>1. \A t \in Senders : IsInjective(pending'[t]) /\ \A i \in DOMAIN pending'[t] : Sender(pending'[t][i]) = t
    BY <1>9, <1>10, <1>14 DEF ChatIInv, ChatTypeOK
  <2>2. generation' \in [Updates -> 0..MaxUpdates]
    BY <1>1, <1>11 DEF ChatIInv, ChatTypeOK
  <2>3. /\ update' = update /\ update \in Seq([sender : Senders, command : BOOLEAN]) /\ Len(update) <= MaxUpdates
        /\ outbox' \in [Goroutines -> Seq(Seq(1..Len(update)))] /\ {stopped', exited'} \subseteq BOOLEAN
        /\ delivered' \in Seq(Seq(1..Len(update)))
    BY <1>1 DEF ChatIInv, ChatTypeOK
  <2> QED BY <1>12, <1>13, <1>14, <2>1, <2>2, <2>3 DEF ChatTypeOK, Sender
<1>16. /\ \A v, t : IsHeld(v, t)' <=> IsHeld(v, t) \/ (v = u /\ t = s)
       /\ \A v, g, i : IsTaken(v, g, i)' <=> IsTaken(v, g, i)
       /\ \A v, i : IsTold(v, i)' <=> IsTold(v, i)
  BY <1>1, <1>2, <1>5, <1>14 DEF IsHeld, IsTaken, IsTold
<1>17. OnePlace'
  <2>1. \A g, i : ~IsTaken(u, g, i) /\ ~IsTold(u, i)
    BY <1>3 DEF IsPlaced
  <2> QED BY <1>16, <2>1 DEF ChatIInv, OnePlace
<1>18. \A v : IsPlaced(v)' <=> IsPlaced(v) \/ v = u
  BY <1>16 DEF IsPlaced
<1>19. HandledArePlaced'
  <2>1. 1..Len(update) \subseteq Updates
    BY SenderAssumption DEF ChatIInv, ChatTypeOK, Updates
  <2> QED BY <1>1, <1>13, <1>18, <2>1 DEF ChatIInv, HandledArePlaced
<1>20. GoroutinesFit'
  <2>1. ASSUME NEW v \in Updates
        PROVE  /\ outbox[v] # <<>> => handler'[v] = "emitting" \/ timer'[v] = "emitting"
               /\ timer'[v] # "none" => handler'[v] = "done"
               /\ handler'[v] = "none" <=> v > Len(update)
    <3>1. CASE v = u
      BY <1>1, <1>2, <1>3, <1>12, <1>13, <3>1 DEF ChatIInv, GoroutinesFit
    <3>2. CASE v # u
      BY <1>12, <1>13, <3>2 DEF ChatIInv, GoroutinesFit
    <3> QED BY <3>1, <3>2
  <2> QED BY <1>1, <2>1 DEF ChatIInv, GoroutinesFit
<1> QED BY <1>15, <1>17, <1>19, <1>20 DEF ChatIInv

LEMMA FireKeeps ==
  ASSUME ChatIInv, NEW u \in 1..Len(update), Fire(u)
  PROVE  ChatIInv'
<1>1. /\ timer[u] = "armed" /\ timer' = [timer EXCEPT ![u] = "fired"]
      /\ UNCHANGED <<update, handler, generation, pending, outbox, stopped, exited, delivered>>
  BY DEF Fire
<1>2. u \in Updates
  BY SenderAssumption DEF ChatIInv, ChatTypeOK, Updates
<1>3. ChatTypeOK'
  BY <1>1 DEF ChatIInv, ChatTypeOK, Sender
<1>4. /\ \A v, t : IsHeld(v, t)' <=> IsHeld(v, t)
      /\ \A v, g, i : IsTaken(v, g, i)' <=> IsTaken(v, g, i)
      /\ \A v, i : IsTold(v, i)' <=> IsTold(v, i)
  BY <1>1 DEF IsHeld, IsTaken, IsTold
<1>5. OnePlace'
  BY <1>4 DEF ChatIInv, OnePlace
<1>6. HandledArePlaced'
  BY <1>1, <1>4 DEF ChatIInv, HandledArePlaced, IsPlaced
<1>7. GoroutinesFit'
  <2>1. timer'[u] = "fired" /\ \A v \in Updates \ {u} : timer'[v] = timer[v]
    BY <1>1, <1>2 DEF ChatIInv, ChatTypeOK
  <2> QED BY <1>1, <1>2, <2>1 DEF ChatIInv, GoroutinesFit
<1> QED BY <1>3, <1>5, <1>6, <1>7 DEF ChatIInv

LEMMA EmitPendingKeeps ==
  ASSUME ChatIInv, NEW g \in Goroutines, EmitPending(g)
  PROVE  ChatIInv'
<1> DEFINE boxes == outbox[g]
           n == Len(boxes)
           m == Len(delivered)
<1>1. /\ boxes # <<>> /\ delivered' = Append(delivered, Head(boxes))
      /\ outbox' = [outbox EXCEPT ![g] = Tail(boxes)]
      /\ \/ /\ n = 1 /\ g # FlushAll
            /\ handler' = [handler EXCEPT ![g] = "done"]
            /\ timer' = [timer EXCEPT ![g] = IF @ = "emitting" THEN "done" ELSE @]
         \/ ~(n = 1 /\ g # FlushAll) /\ UNCHANGED <<handler, timer>>
      /\ UNCHANGED <<update, generation, pending, stopped, exited>>
  BY DEF EmitPending
<1>2. /\ boxes \in Seq(Seq(1..Len(update))) /\ n \in Nat \ {0} /\ Head(boxes) = boxes[1]
      /\ Tail(boxes) \in Seq(Seq(1..Len(update))) /\ Len(Tail(boxes)) = n - 1
      /\ \A i \in 1..(n - 1) : Tail(boxes)[i] = boxes[i + 1]
      /\ boxes[1] \in Seq(1..Len(update))
  <2>1. boxes \in Seq(Seq(1..Len(update)))
    BY DEF ChatIInv, ChatTypeOK
  <2> HIDE DEF boxes
  <2>2. n \in Nat \ {0}
    BY <1>1, <2>1
  <2> QED BY <1>1, <2>1, <2>2
<1>3. /\ outbox' \in [Goroutines -> Seq(Seq(1..Len(update)))]
      /\ outbox'[g] = Tail(boxes) /\ \A h \in Goroutines \ {g} : outbox'[h] = outbox[h]
  BY <1>1, <1>2 DEF ChatIInv, ChatTypeOK
<1>4. /\ delivered' \in Seq(Seq(1..Len(update))) /\ Len(delivered') = m + 1 /\ m \in Nat
      /\ \A i \in 1..m : delivered'[i] = delivered[i]
      /\ delivered'[m + 1] = boxes[1]
  <2>1. delivered \in Seq(Seq(1..Len(update)))
    BY DEF ChatIInv, ChatTypeOK
  <2> HIDE DEF boxes
  <2> QED BY <1>1, <1>2, <2>1
<1>5. /\ handler' \in [Updates -> {"none", "received", "emitting", "done"}]
      /\ timer' \in [Updates -> {"none", "armed", "fired", "emitting", "done"}]
      /\ \A v \in Updates \ {g} : handler'[v] = handler[v] /\ timer'[v] = timer[v]
  BY <1>1 DEF ChatIInv, ChatTypeOK
<1>6. g # FlushAll => /\ g \in Updates
                      /\ n = 1 => handler'[g] = "done" /\ timer'[g] # "emitting"
                                  /\ (timer'[g] = "none" <=> timer[g] = "none")
                      /\ n # 1 => handler'[g] = handler[g] /\ timer'[g] = timer[g]
  BY <1>1 DEF Goroutines, ChatIInv, ChatTypeOK
<1>7. /\ \A v, s : IsHeld(v, s)' <=> IsHeld(v, s)
      /\ \A v, i : IsTaken(v, g, i) <=> i \in 1..n /\ Contains(boxes[i], v)
      /\ \A v, h, i : h # g => (IsTaken(v, h, i)' <=> IsTaken(v, h, i))
  BY <1>1, <1>3 DEF IsHeld, IsTaken
<1> HIDE DEF boxes, n, m
<1>8. \A v, i : IsTaken(v, g, i)' <=> i \in 1..(n - 1) /\ IsTaken(v, g, i + 1)
  <2>1. \A v, i : IsTaken(v, g, i)' <=> i \in 1..(n - 1) /\ Contains(boxes[i + 1], v)
    BY <1>2, <1>3 DEF IsTaken
  <2>2. \A i \in 1..(n - 1) : i + 1 \in 1..n
    BY <1>2
  <2> QED BY <1>7, <2>1, <2>2
<1>9. \A v, i : IsTold(v, i)' <=> IsTold(v, i) \/ (i = m + 1 /\ IsTaken(v, g, 1))
  <2>1. 1 \in 1..n /\ m + 1 \in 1..(m + 1) /\ 1..m \subseteq 1..(m + 1)
        /\ \A i \in 1..(m + 1) : i \in 1..m \/ i = m + 1
    <3>1. n \in Nat \ {0} /\ m \in Nat
      BY <1>2, <1>4
    <3> QED BY <3>1
  <2>2. \A v, i : IsTold(v, i)' <=> i \in 1..(m + 1) /\ Contains(delivered'[i], v)
    BY <1>4 DEF IsTold
  <2>3. \A v, i : IsTold(v, i) <=> i \in 1..m /\ Contains(delivered[i], v)
    BY DEF IsTold, m
  <2> QED BY <1>4, <1>7, <2>1, <2>2, <2>3
<1>10. \A v, i : IsTold(v, i) => i \in 1..m
  BY DEF IsTold, m
<1>11. OnePlace'
  <2>1. ASSUME NEW v, NEW h, NEW k, NEW i, NEW j, IsTaken(v, h, i)', IsTaken(v, k, j)' PROVE h = k /\ i = j
    <3>1. CASE h = g /\ k = g
      <4>1. i + 1 = j + 1 /\ i \in Int /\ j \in Int
        BY <1>8, <2>1, <3>1 DEF ChatIInv, OnePlace
      <4> QED BY <3>1, <4>1
    <3>2. CASE h # g \/ k # g
      BY <1>7, <1>8, <2>1, <3>2 DEF ChatIInv, OnePlace
    <3> QED BY <3>1, <3>2
  <2>2. ASSUME NEW v, NEW i, NEW j, IsTold(v, i)', IsTold(v, j)' PROVE i = j
    BY <1>9, <2>2 DEF ChatIInv, OnePlace
  <2>3. \A v, s, h, i : ~(IsHeld(v, s)' /\ IsTaken(v, h, i)')
    BY <1>7, <1>8 DEF ChatIInv, OnePlace
  <2>4. \A v, s, i : ~(IsHeld(v, s)' /\ IsTold(v, i)')
    BY <1>7, <1>9 DEF ChatIInv, OnePlace
  <2>5. ASSUME NEW v, NEW h, NEW i, NEW j, IsTaken(v, h, i)', IsTold(v, j)' PROVE FALSE
    <3>1. PICK k : IsTaken(v, h, k) /\ ~(h = g /\ k = 1)
      <4>1. CASE h = g
        <5>1. i \in 1..(n - 1) /\ IsTaken(v, g, i + 1)
          BY <1>8, <2>5, <4>1
        <5>2. i + 1 # 1
          BY <5>1
        <5> QED BY <4>1, <5>1, <5>2
      <4>2. CASE h # g
        BY <1>7, <2>5, <4>2
      <4> QED BY <4>1, <4>2
    <3>2. IsTold(v, j) \/ IsTaken(v, g, 1)
      BY <1>9, <2>5
    <3> QED BY <3>1, <3>2 DEF ChatIInv, OnePlace
  <2> QED BY <2>1, <2>2, <2>3, <2>4, <2>5 DEF OnePlace
<1>12. ASSUME NEW v PROVE IsPlaced(v)' <=> IsPlaced(v)
  <2>1. ASSUME IsPlaced(v)' PROVE IsPlaced(v)
    BY <1>7, <1>8, <1>9, <2>1 DEF IsPlaced
  <2>2. ASSUME NEW h, NEW i, IsTaken(v, h, i) PROVE IsPlaced(v)'
    <3>1. CASE h # g
      BY <1>7, <2>2, <3>1 DEF IsPlaced
    <3>2. CASE h = g /\ i = 1
      <4>1. PICK k : k = m + 1
        OBVIOUS
      <4>2. IsTold(v, k)'
        BY <1>9, <2>2, <3>2, <4>1
      <4> QED BY <4>2 DEF IsPlaced
    <3>3. CASE h = g /\ i # 1
      <4>1. i \in 1..n
        BY <1>7, <2>2, <3>3
      <4>2. i - 1 \in 1..(n - 1) /\ (i - 1) + 1 = i
        BY <1>2, <3>3, <4>1
      <4>3. IsTaken(v, g, i - 1)'
        BY <1>8, <2>2, <3>3, <4>2
      <4> QED BY <4>3 DEF IsPlaced
    <3> QED BY <3>1, <3>2, <3>3
  <2>3. ASSUME IsPlaced(v) PROVE IsPlaced(v)'
    BY <1>7, <1>9, <2>2, <2>3 DEF IsPlaced
  <2> QED BY <2>1, <2>3
<1>13. ChatTypeOK'
  BY <1>1, <1>3, <1>4, <1>5 DEF ChatIInv, ChatTypeOK, Sender
<1>14. g # FlushAll => handler[g] \in {"emitting", "done"}
  BY <1>1, <1>6 DEF ChatIInv, GoroutinesFit, boxes
<1>15. HandledArePlaced'
  <2>1. \A v \in Updates : handler'[v] = "received" <=> handler[v] = "received"
    BY <1>5, <1>6, <1>14 DEF Updates, FlushAll
  <2>2. 1..Len(update) \subseteq Updates
    BY SenderAssumption DEF ChatIInv, ChatTypeOK, Updates
  <2> QED BY <1>1, <1>12, <2>1, <2>2 DEF ChatIInv, HandledArePlaced
<1>16. GoroutinesFit'
  <2>1. \A i \in 1..Len(outbox'[g]) : outbox'[g][i] # <<>>
    <3>1. \A i \in 1..n : boxes[i] # <<>>
      <4>1. \A h \in Goroutines : \A i \in 1..Len(outbox[h]) : outbox[h][i] # <<>>
        BY DEF ChatIInv, GoroutinesFit
      <4> QED BY <4>1 DEF boxes, n
    <3>2. \A i \in 1..(n - 1) : i + 1 \in 1..n
      BY <1>2
    <3>3. Len(outbox'[g]) = n - 1 /\ \A i \in 1..(n - 1) : outbox'[g][i] = boxes[i + 1]
      BY <1>2, <1>3
    <3> QED BY <3>1, <3>2, <3>3
  <2>2. \A h \in Goroutines : \A i \in 1..Len(outbox'[h]) : outbox'[h][i] # <<>>
    BY <1>3, <2>1 DEF ChatIInv, GoroutinesFit
  <2>3. ~stopped' => outbox'[FlushAll] = <<>>
    <3>1. FlushAll \in Goroutines
      BY DEF Goroutines
    <3> QED BY <1>1, <1>3, <3>1 DEF ChatIInv, GoroutinesFit, boxes
  <2>4. ASSUME NEW v \in Updates
        PROVE  /\ outbox'[v] # <<>> => handler'[v] = "emitting" \/ timer'[v] = "emitting"
               /\ timer'[v] # "none" => handler'[v] = "done"
               /\ handler'[v] = "none" <=> v > Len(update)
    <3>1. v \in Goroutines /\ v # FlushAll
      BY SenderAssumption DEF Goroutines, FlushAll, Updates
    <3>2. CASE v # g
      BY <1>3, <1>5, <3>1, <3>2 DEF ChatIInv, GoroutinesFit
    <3>3. CASE v = g /\ n = 1
      <4>1. Tail(boxes) = <<>>
        <5>1. Tail(boxes) \in Seq(Seq(1..Len(update))) /\ Len(Tail(boxes)) = 0
          BY <1>2, <3>3
        <5> QED BY <5>1, EmptySeq
      <4>2. outbox'[v] = <<>> /\ handler'[v] = "done" /\ handler[v] # "none"
        BY <1>3, <1>6, <1>14, <3>1, <3>3, <4>1
      <4> QED BY <4>2 DEF ChatIInv, GoroutinesFit
    <3>4. CASE v = g /\ n # 1
      BY <1>1, <1>6, <3>1, <3>4 DEF ChatIInv, GoroutinesFit, boxes
    <3> QED BY <3>2, <3>3, <3>4
  <2> QED BY <1>1, <2>2, <2>3, <2>4 DEF GoroutinesFit
<1> QED BY <1>11, <1>13, <1>15, <1>16 DEF ChatIInv

LEMMA ChatKeeps ==
  ASSUME ChatIInv, [ChatNext]_chatVars
  PROVE  ChatIInv'
<1>1. ASSUME NEW s \in Senders, NEW command \in BOOLEAN, Receive(s, command) PROVE ChatIInv'
  BY <1>1, ReceiveKeeps
<1>2. ASSUME NEW u \in 1..Len(update), Step(u) PROVE ChatIInv'
  BY <1>2, HandleTextKeeps, HandleCommandKeeps, FireKeeps, FlushMatchKeeps DEF Step
<1>3. ASSUME NEW g \in Goroutines, EmitPending(g) PROVE ChatIInv'
  BY <1>3, EmitPendingKeeps
<1>4. CASE StopRun
  BY <1>4, StopRunKeeps
<1>5. CASE Exit \/ UNCHANGED chatVars
  <2>1. /\ UNCHANGED <<update, handler, timer, generation, pending, outbox, stopped, delivered>>
        /\ exited' \in BOOLEAN
    BY <1>5 DEF chatVars, Exit, ChatIInv, ChatTypeOK
  <2>2. ChatTypeOK'
    BY <2>1 DEF ChatIInv, ChatTypeOK, Sender
  <2>3. OnePlace' /\ HandledArePlaced'
    BY <2>1 DEF ChatIInv, OnePlace, HandledArePlaced, IsPlaced, IsHeld, IsTaken, IsTold
  <2>4. GoroutinesFit'
    BY <2>1 DEF ChatIInv, GoroutinesFit
  <2> QED BY <2>2, <2>3, <2>4 DEF ChatIInv
<1> QED BY <1>1, <1>2, <1>3, <1>4, <1>5 DEF ChatNext

\* A goroutine has no more batches than there are updates: none is empty, and none
\* starts with the update of another.
LEMMA BoxesFit ==
  ASSUME ChatIInv, NEW g \in Goroutines
  PROVE  1..Len(outbox[g]) \subseteq Updates
<1> DEFINE boxes == outbox[g]
           first == [i \in 1..Len(boxes) |-> boxes[i][1]]
<1>1. boxes \in Seq(Seq(1..Len(update))) /\ Len(boxes) \in Nat
  BY DEF ChatIInv, ChatTypeOK
<1>2. Len(update) \in Nat /\ MaxUpdates \in Nat /\ Len(update) <= MaxUpdates
  BY SenderAssumption DEF ChatIInv, ChatTypeOK
<1>3. ASSUME NEW i \in 1..Len(boxes)
      PROVE  boxes[i][1] \in 1..Len(update) /\ IsTaken(boxes[i][1], g, i)
  <2> DEFINE q == boxes[i]
  <2>1. q # <<>>
    BY DEF ChatIInv, GoroutinesFit
  <2>2. q \in Seq(1..Len(update))
    BY <1>1
  <2> HIDE DEF q
  <2>3. 1 \in 1..Len(q) /\ q[1] \in 1..Len(update)
    BY <2>1, <2>2
  <2>4. Contains(q, q[1])
    BY <2>3 DEF Contains
  <2> QED BY <2>3, <2>4 DEF IsTaken, q
<1> HIDE DEF boxes
<1>4. \A i, j \in 1..Len(boxes) : boxes[i][1] = boxes[j][1] => i = j
  BY <1>3 DEF ChatIInv, OnePlace
<1>5. first \in Injection(1..Len(boxes), 1..Len(update))
  <2>1. first \in [1..Len(boxes) -> 1..Len(update)]
    BY <1>3
  <2> QED BY <1>4, <2>1 DEF Injection, IsInjective
<1>6. \A n \in Nat : IsFiniteSet(1..n) /\ Cardinality(1..n) = n
  BY FS_Interval
<1>7. Len(boxes) <= Len(update)
  BY <1>1, <1>2, <1>5, <1>6, FS_Injection
<1> QED BY <1>1, <1>2, <1>7 DEF Updates, boxes

\* A handled update is in one of the three kinds of places, and there once.
LEMMA OnePlaceCounts ==
  ASSUME ChatIInv
  PROVE  HandledUpdatesAreSomewhereOnce
<1> SUFFICES ASSUME NEW u \in 1..Len(update), handler[u] # "received" PROVE Places(u) = 1
  BY DEF HandledUpdatesAreSomewhereOnce
<1> DEFINE A == {s \in Senders : Contains(pending[s], u)}
           B == {p \in Goroutines \X Updates :
                   p[2] <= Len(outbox[p[1]]) /\ Contains(outbox[p[1]][p[2]], u)}
           C == {i \in DOMAIN delivered : Contains(delivered[i], u)}
<1>1. \A s : s \in A <=> IsHeld(u, s)
  BY DEF IsHeld
<1>2. \A s, t \in A : s = t
  BY HeldForSender DEF ChatIInv
<1>3. /\ \A p \in B : IsTaken(u, p[1], p[2]) /\ p = <<p[1], p[2]>>
      /\ \A g, i : IsTaken(u, g, i) => <<g, i>> \in B
  <2>1. ASSUME NEW p \in B PROVE IsTaken(u, p[1], p[2]) /\ p = <<p[1], p[2]>>
    <3>1. p[1] \in Goroutines /\ p[2] \in Updates /\ p = <<p[1], p[2]>>
      OBVIOUS
    <3>2. Len(outbox[p[1]]) \in Nat
      BY <3>1 DEF ChatIInv, ChatTypeOK
    <3>3. p[2] \in 1..Len(outbox[p[1]])
      BY <3>1, <3>2, SenderAssumption DEF Updates
    <3> QED BY <3>1, <3>3 DEF IsTaken
  <2>2. ASSUME NEW g, NEW i, IsTaken(u, g, i) PROVE <<g, i>> \in B
    <3>1. g \in Goroutines /\ i \in 1..Len(outbox[g]) /\ Contains(outbox[g][i], u)
      BY <2>2 DEF IsTaken
    <3>2. i \in Updates /\ Len(outbox[g]) \in Nat
      <4>1. 1..Len(outbox[g]) \subseteq Updates
        BY <3>1, BoxesFit
      <4>2. outbox[g] \in Seq(Seq(1..Len(update)))
        BY <3>1 DEF ChatIInv, ChatTypeOK
      <4>3. Len(outbox[g]) \in Nat
        BY <4>2
      <4> QED BY <3>1, <4>1, <4>3
    <3>3. i <= Len(outbox[g])
      BY <3>1, <3>2
    <3> QED BY <3>1, <3>2, <3>3
  <2> QED BY <2>1, <2>2
<1>4. \A i : i \in C <=> IsTold(u, i)
  <2>1. delivered \in Seq(Seq(1..Len(update)))
    BY DEF ChatIInv, ChatTypeOK
  <2>2. DOMAIN delivered = 1..Len(delivered)
    BY <2>1
  <2> QED BY <2>2 DEF IsTold
<1>5. Places(u) = Cardinality(A) + Cardinality(B) + Cardinality(C)
  BY DEF Places
<1> HIDE DEF A, B, C
<1>6. Cardinality({}) = 0 /\ \A x : Cardinality({x}) = 1
  BY FS_EmptySet, FS_Singleton
<1>7. CASE \E s : IsHeld(u, s)
  <2>1. PICK s : IsHeld(u, s)
    BY <1>7
  <2>2. A = {s}
    BY <1>1, <1>2, <2>1
  <2>3. B = {}
    BY <1>3, <2>1 DEF ChatIInv, OnePlace
  <2>4. C = {}
    BY <1>4, <2>1 DEF ChatIInv, OnePlace
  <2>5. Cardinality(A) = 1 /\ Cardinality(B) = 0 /\ Cardinality(C) = 0
    BY ONLY <1>6, <2>2, <2>3, <2>4, Zenon
  <2> QED BY <1>5, <2>5
<1>8. CASE \E g, i : IsTaken(u, g, i)
  <2>1. PICK g, i : IsTaken(u, g, i)
    BY <1>8
  <2>2. A = {}
    BY <1>1, <2>1 DEF ChatIInv, OnePlace
  <2>3. B = {<<g, i>>}
    <3>1. <<g, i>> \in B
      BY <1>3, <2>1
    <3>2. ASSUME NEW p \in B PROVE p = <<g, i>>
      <4>1. p[1] = g /\ p[2] = i
        BY <1>3, <2>1 DEF ChatIInv, OnePlace
      <4> QED BY <1>3, <4>1
    <3> QED BY <3>1, <3>2
  <2>4. C = {}
    BY <1>4, <2>1 DEF ChatIInv, OnePlace
  <2>5. Cardinality(A) = 0 /\ Cardinality(B) = 1 /\ Cardinality(C) = 0
    BY ONLY <1>6, <2>2, <2>3, <2>4, Zenon
  <2> QED BY <1>5, <2>5
<1>9. CASE \E i : IsTold(u, i)
  <2>1. PICK i : IsTold(u, i)
    BY <1>9
  <2>2. A = {}
    BY <1>1, <2>1 DEF ChatIInv, OnePlace
  <2>3. B = {}
    BY <1>3, <2>1 DEF ChatIInv, OnePlace
  <2>4. C = {i}
    BY <1>4, <2>1 DEF ChatIInv, OnePlace
  <2>5. Cardinality(A) = 0 /\ Cardinality(B) = 0 /\ Cardinality(C) = 1
    BY ONLY <1>6, <2>2, <2>3, <2>4, Zenon
  <2> QED BY <1>5, <2>5
<1>10. IsPlaced(u)
  BY DEF ChatIInv, HandledArePlaced
<1> QED BY <1>7, <1>8, <1>9, <1>10 DEF IsPlaced

\* The invariant of the debouncer holds in every reachable state.
THEOREM ChatInvariant == ChatSpec => []ChatIInv
<1>1. ChatInit => ChatIInv
  BY ChatInitHolds
<1>2. ChatIInv /\ [ChatNext]_chatVars => ChatIInv'
  BY ChatKeeps
<1> QED BY <1>1, <1>2, PTL DEF ChatSpec

\* Type correctness of the debouncer.
THEOREM ChatTypeCorrect == ChatSpec => []ChatTypeOK
<1>1. ChatIInv => ChatTypeOK
  BY DEF ChatIInv
<1> QED BY <1>1, ChatInvariant, PTL

\* However timers, commands and the end of Run race, an update that was handled is held,
\* taken by one goroutine or handed to Next, and only once.
THEOREM UpdatesAreSomewhereOnce == ChatSpec => []HandledUpdatesAreSomewhereOnce
<1>1. ChatIInv => HandledUpdatesAreSomewhereOnce
  BY OnePlaceCounts
<1> QED BY <1>1, ChatInvariant, PTL

=============================================================================
