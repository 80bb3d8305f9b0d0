------------------------ MODULE TimedIntents_proofs ------------------------
(***************************************************************************)
(* Timed wakes keep the last command and lose or repeat no one-shot wake,  *)
(* for any threads, turns, commands and restarts.                          *)
(***************************************************************************)
EXTENDS TimedIntents, TLAPS

Stamps == 1..MaxCommands

\* A command's number is in use for the row of an identity: in the table, with the
\* runner, or with a turn that ends.
InUse(s, t, k) ==
  \/ rows[t][k] # NoRow /\ rows[t][k].stamp = s
  \/ snapshot[t][k] # NoRow /\ snapshot[t][k].stamp = s
  \/ k = "heartbeat" /\ \E c \in TurnSlots : scope[c] = t /\ floor[c] # NoRow /\ floor[c].stamp = s

\* Without a command that met a copy, every copy has the last command's schedule.
CopiesObey ==
  \A t \in Threads, k \in Kinds, s \in Stamps :
    ~raced[t][k] /\ InUse(s, t, k) => s = commanded[t][k]

\* A command's number is in use for the row it was about only.
StampsDiffer ==
  /\ \A t \in Threads, k \in Kinds, s \in Stamps : InUse(s, t, k) => s <= commands
  /\ \A t, u \in Threads, k, l \in Kinds, s \in Stamps :
       InUse(s, t, k) /\ InUse(s, u, l) => t = u /\ k = l

\* A wake that was delivered in this life has no copy left, but while the runner
\* finishes with its group.
DeliveredAreGone ==
  /\ \A s \in Stamps, life \in 0..MaxRestarts : <<s, life>> \in accepted => s <= commands /\ life <= restarts
  /\ \A t \in Threads, k \in Kinds, s \in Stamps :
       InUse(s, t, k) /\ <<s, restarts>> \in accepted =>
         /\ k = "wake" /\ t = current /\ outcome = "accepted"
         /\ snapshot[t][k] # NoRow /\ snapshot[t][k].stamp = s

\* What the runner finishes with as delivered was.
FinishedAreAccepted ==
  /\ outcome # "none" => current # NoThread
  /\ current # NoThread /\ outcome = "accepted" =>
       \A k \in Group(current) \cap {"wake"} : <<snapshot[current][k].stamp, restarts>> \in accepted

\* Slots without a turn are outside, and only a running turn reads a row to write.
SlotsFit ==
  \A c \in TurnSlots :
    /\ IF turn[c] = NoTurn THEN stage[c] = "out" ELSE turn[c].thread \in Threads
    /\ stage[c] # "out" => scope[c] \in Threads
    /\ floor[c] # NoRow => stage[c] = "running" /\ "heartbeat" \in Kinds
    /\ stage[c] = "running" => turn[c].told \subseteq begun

\* Until the process stops taking turns, a delivered wake is in a turn to come or
\* in one that began.
DeliveredAreTold ==
  restarts = 0 /\ open =>
    \A s \in Stamps, life \in 0..MaxRestarts :
      <<s, life>> \in accepted => s \in begun \/ \E c \in WakeTurns : s \in turn[c].told

\* The inductive invariant.
IntentIInv ==
  /\ TypeOK /\ CommandsStick /\ CopiesObey /\ StampsDiffer
  /\ DeliveredAreGone /\ FinishedAreAccepted /\ SlotsFit /\ DeliveredAreTold
------------------------------------------------------------------------------
\* Tables.

\* A write to one place of a table changes that place only.
LEMMA TableWrite ==
  ASSUME NEW S, NEW f \in [Threads -> [Kinds -> S]], NEW t \in Threads, NEW k \in Kinds, NEW v \in S
  PROVE  /\ [f EXCEPT ![t][k] = v] \in [Threads -> [Kinds -> S]]
         /\ \A u \in Threads, l \in Kinds :
              [f EXCEPT ![t][k] = v][u][l] = IF u = t /\ l = k THEN v ELSE f[u][l]
  OBVIOUS

\* What Save and the upsert leave in the table.
LEMMA SaveWrites ==
  ASSUME TypeOK, NEW t \in Threads, NEW k \in Kinds, NEW row \in Row, Save(t, k, row)
  PROVE  /\ rows' \in [Threads -> [Kinds -> Row \cup {NoRow}]]
         /\ \A u \in Threads, l \in Kinds : u # t \/ l # k => rows'[u][l] = rows[u][l]
         /\ rows'[t][k] = row \/ (rows'[t][k] = rows[t][k] /\ rows[t][k] # NoRow)
<1> DEFINE v == IF rows[t][k] = NoRow \/ rows[t][k].id = row.id THEN row ELSE rows[t][k]
<1>1. rows \in [Threads -> [Kinds -> Row \cup {NoRow}]] /\ v \in Row \cup {NoRow}
  BY DEF TypeOK
<1>2. rows' = [rows EXCEPT ![t][k] = v]
  BY <1>1 DEF Save
<1>3. /\ rows' \in [Threads -> [Kinds -> Row \cup {NoRow}]]
      /\ \A u \in Threads, l \in Kinds : rows'[u][l] = IF u = t /\ l = k THEN v ELSE rows[u][l]
  <2> HIDE DEF v
  <2> QED BY <1>1, <1>2, TableWrite
<1> QED BY <1>3

LEMMA UpsertWrites ==
  ASSUME TypeOK, NEW t \in Threads, NEW k \in Kinds, NEW s \in Stamps, UpsertByTargetKindKey(t, k, s)
  PROVE  /\ rows' \in [Threads -> [Kinds -> Row \cup {NoRow}]]
         /\ \A u \in Threads, l \in Kinds : u # t \/ l # k => rows'[u][l] = rows[u][l]
         /\ rows'[t][k] # NoRow /\ rows'[t][k].stamp = s
<1> DEFINE v == [id |-> IF rows[t][k] = NoRow THEN s ELSE rows[t][k].id, stamp |-> s, due |-> FALSE]
<1>1. rows \in [Threads -> [Kinds -> Row \cup {NoRow}]] /\ v \in Row /\ v.stamp = s /\ NoRow \notin Row
  BY IntentAssumption DEF TypeOK, Row, Stamps
<1>2. rows' = [rows EXCEPT ![t][k] = v]
  BY <1>1 DEF UpsertByTargetKindKey
<1>3. /\ rows' \in [Threads -> [Kinds -> Row \cup {NoRow}]]
      /\ \A u \in Threads, l \in Kinds : rows'[u][l] = IF u = t /\ l = k THEN v ELSE rows[u][l]
  <2> HIDE DEF v
  <2> QED BY <1>1, <1>2, TableWrite
<1> QED BY <1>1, <1>3

LEMMA DeleteWrites ==
  ASSUME TypeOK, NEW t \in Threads, NEW k \in Kinds, DeleteByTargetKindKey(t, k)
  PROVE  /\ rows' \in [Threads -> [Kinds -> Row \cup {NoRow}]]
         /\ \A u \in Threads, l \in Kinds : rows'[u][l] = IF u = t /\ l = k THEN NoRow ELSE rows[u][l]
<1>1. rows \in [Threads -> [Kinds -> Row \cup {NoRow}]] /\ NoRow \in Row \cup {NoRow}
  BY DEF TypeOK
<1> QED BY <1>1, TableWrite DEF DeleteByTargetKindKey

\* The copies the runner and ending turns write back are rows, later due.
LEMMA CopiesAreRows ==
  ASSUME TypeOK
  PROVE  /\ \A t \in Threads, k \in Kinds : rows[t][k] # NoRow => rows[t][k] \in Row
         /\ \A t \in Threads, k \in Kinds : snapshot[t][k] # NoRow => snapshot[t][k] \in Row
         /\ \A c \in TurnSlots : floor[c] # NoRow => floor[c] \in Row
         /\ \A row \in Row, b \in BOOLEAN :
              [row EXCEPT !.due = b] \in Row /\ [row EXCEPT !.due = b].stamp = row.stamp
         /\ \A row \in Row : row.stamp \in Stamps /\ row # NoRow
<1>1. \A row \in Row : row.stamp \in Stamps /\ row # NoRow
  BY IntentAssumption DEF Row, Stamps
<1>2. \A row \in Row, b \in BOOLEAN :
        [row EXCEPT !.due = b] \in Row /\ [row EXCEPT !.due = b].stamp = row.stamp
  BY DEF Row
<1> QED BY <1>1, <1>2 DEF TypeOK
------------------------------------------------------------------------------
\* Types.

Turn == [thread : Threads \cup {NoThread}, told : SUBSET Stamps]

LEMMA CommandTypes ==
  ASSUME IntentIInv, NEW t \in Threads, NEW k \in Kinds
  PROVE  SetIntent(t, k) \/ ClearIntent(t, k) \/ TimePasses(t, k) => TypeOK'
<1>0. TypeOK /\ commands \in Nat /\ MaxCommands \in Nat
  BY IntentAssumption DEF IntentIInv, TypeOK
<1>1. ASSUME NEW s \in 0..MaxCommands, commands < MaxCommands, Note(t, k, s)
      PROVE  /\ commands' \in 0..MaxCommands
             /\ commanded' \in [Threads -> [Kinds -> 0..MaxCommands]]
             /\ raced' \in [Threads -> [Kinds -> BOOLEAN]]
  <2>1. commands' \in 0..MaxCommands
    BY <1>0, <1>1 DEF Note
  <2>2. commanded' \in [Threads -> [Kinds -> 0..MaxCommands]]
    BY <1>0, <1>1, TableWrite DEF Note, TypeOK
  <2>3. CopyHeld(t, k) \in BOOLEAN
    BY DEF CopyHeld
  <2>4. raced' \in [Threads -> [Kinds -> BOOLEAN]]
    BY <1>0, <1>1, <2>3, TableWrite DEF Note, TypeOK
  <2> QED BY <2>1, <2>2, <2>4
<1>2. CASE SetIntent(t, k)
  <2>1. commands + 1 \in Stamps /\ commands + 1 \in 0..MaxCommands /\ commands < MaxCommands
    BY <1>0, <1>2 DEF SetIntent, Stamps
  <2>2. rows' \in [Threads -> [Kinds -> Row \cup {NoRow}]]
    BY <1>0, <1>2, <2>1, UpsertWrites DEF SetIntent
  <2>3. Note(t, k, commands + 1)
    BY <1>2 DEF SetIntent
  <2> QED BY <1>0, <1>1, <1>2, <2>1, <2>2, <2>3 DEF SetIntent, TypeOK, runnerVars, turnVars
<1>3. CASE ClearIntent(t, k)
  <2>1. rows' \in [Threads -> [Kinds -> Row \cup {NoRow}]]
    BY <1>0, <1>3, DeleteWrites DEF ClearIntent
  <2>2. Note(t, k, 0) /\ commands < MaxCommands /\ 0 \in 0..MaxCommands
    BY <1>0, <1>3 DEF ClearIntent
  <2> QED BY <1>0, <1>1, <1>3, <2>1, <2>2 DEF ClearIntent, TypeOK, runnerVars, turnVars
<1>4. CASE TimePasses(t, k)
  <2> DEFINE v == [rows[t][k] EXCEPT !.due = TRUE]
  <2>1. v \in Row
    BY <1>0, <1>4, CopiesAreRows DEF TimePasses
  <2>2. rows' = [rows EXCEPT ![t][k] = v]
    BY <1>4 DEF TimePasses
  <2> HIDE DEF v
  <2>3. rows' \in [Threads -> [Kinds -> Row \cup {NoRow}]]
    BY <1>0, <2>1, <2>2, TableWrite DEF TypeOK
  <2> QED BY <1>0, <1>4, <2>3 DEF TimePasses, TypeOK, runnerVars, turnVars, historyVars
<1> QED BY <1>2, <1>3, <1>4

LEMMA RunnerTypes ==
  ASSUME IntentIInv, Runner
  PROVE  TypeOK'
<1>0. TypeOK /\ NoRow \in Row \cup {NoRow}
  BY DEF IntentIInv
<1>1. CASE ListDue
  <2>1. \A t \in Threads, k \in Kinds : (IF Due(t, k) THEN rows[t][k] ELSE NoRow) \in Row \cup {NoRow}
    BY <1>0 DEF TypeOK
  <2>2. snapshot' \in [Threads -> [Kinds -> Row \cup {NoRow}]]
    BY <1>1, <2>1 DEF ListDue
  <2> QED BY <1>0, <1>1, <2>2 DEF ListDue, TypeOK, tableVars, turnVars, historyVars
<1>2. ASSUME NEW t \in Threads, TakeGroup(t) PROVE TypeOK'
  <2>1. NoRows[t] \in [Kinds -> Row \cup {NoRow}]
    BY DEF NoRows
  <2>2. snapshot' \in [Threads -> [Kinds -> Row \cup {NoRow}]] /\ current' \in Threads \cup {NoThread}
    BY <1>0, <1>2, <2>1 DEF TakeGroup, TypeOK
  <2> QED BY <1>0, <1>2, <2>2 DEF TakeGroup, TypeOK, tableVars, turnVars, historyVars
<1>3. CASE DeliverWake
  <2>1. current \in Threads /\ Group(current) \subseteq Kinds
    BY <1>0, <1>3 DEF DeliverWake, TypeOK, Group
  <2>2. \A k \in Group(current) : snapshot[current][k].stamp \in Stamps
    BY <1>0, <2>1, CopiesAreRows DEF Group
  <2>3. turn' \in [TurnSlots -> Turn]
    <3>1. turn \in [TurnSlots -> Turn]
      BY <1>0 DEF TypeOK, Turn, Stamps
    <3>2. CASE current \in enabled
      <4>1. PICK c \in WakeTurns : turn' = [turn EXCEPT ![c] =
              [thread |-> current, told |-> {snapshot[current][k].stamp : k \in Group(current)}]]
        BY <1>3, <3>2 DEF DeliverWake
      <4>2. {snapshot[current][k].stamp : k \in Group(current)} \in SUBSET Stamps
        BY <2>2
      <4> QED BY <2>1, <3>1, <4>1, <4>2 DEF Turn
    <3> QED BY <1>3, <3>1, <3>2 DEF DeliverWake
  <2>4. accepted' \in SUBSET ((1..MaxCommands) \X (0..MaxRestarts))
    <3>1. restarts \in 0..MaxRestarts /\ accepted \in SUBSET (Stamps \X (0..MaxRestarts))
      BY <1>0 DEF TypeOK, Stamps
    <3>2. {<<snapshot[current][k].stamp, restarts>> : k \in Group(current) \cap {"wake"}}
            \in SUBSET (Stamps \X (0..MaxRestarts))
      BY <2>2, <3>1
    <3> QED BY <1>3, <3>1, <3>2 DEF DeliverWake, Stamps
  <2>5. outcome' \in {"none", "accepted", "failed"}
    BY <1>3 DEF DeliverWake
  <2> QED BY <1>0, <1>3, <2>3, <2>4, <2>5 DEF DeliverWake, TypeOK, Turn, Stamps, tableVars
<1>4. ASSUME NEW k \in Kinds, FinishIntent(k) PROVE TypeOK'
  <2> DEFINE row == snapshot[current][k]
  <2>1. current \in Threads /\ row \in Row /\ [row EXCEPT !.due = FALSE] \in Row
    BY <1>0, <1>4, CopiesAreRows DEF FinishIntent, Group, TypeOK
  <2>2. FinishDelivered(current, k, row) \/ FinishFailed(current, k, row)
    BY <1>4 DEF FinishIntent
  <2> HIDE DEF row
  <2>3. rows' \in [Threads -> [Kinds -> Row \cup {NoRow}]]
    BY <1>0, <2>1, <2>2, SaveWrites, DeleteWrites DEF FinishDelivered, FinishFailed
  <2>4. snapshot' \in [Threads -> [Kinds -> Row \cup {NoRow}]]
    BY <1>0, <1>4, <2>1, TableWrite DEF FinishIntent, TypeOK
  <2>5. current' \in Threads \cup {NoThread} /\ outcome' \in {"none", "accepted", "failed"}
    BY <1>0, <1>4 DEF FinishIntent, NextGroup, TypeOK
  <2> QED BY <1>0, <1>4, <2>3, <2>4, <2>5 DEF FinishIntent, TypeOK, turnVars, historyVars
<1> QED BY <1>1, <1>2, <1>3, <1>4 DEF Runner

LEMMA EndTurnTypes ==
  ASSUME TypeOK, NEW c \in TurnSlots, EndTurn(c)
  PROVE  /\ turn' \in [TurnSlots -> Turn] /\ floor' \in [TurnSlots -> Row \cup {NoRow}]
         /\ stage' \in [TurnSlots -> {"out", "queued", "running"}]
         /\ scope' \in [TurnSlots -> Threads \cup {NoThread}] /\ open' \in BOOLEAN
<1>1. NoTurn \in Turn
  BY DEF NoTurn, Turn
<1> QED BY <1>1 DEF EndTurn, Gate!Depart, TypeOK, Turn, Stamps

LEMMA TurnTypes ==
  ASSUME IntentIInv, NEW c \in TurnSlots, TurnStep(c)
  PROVE  TypeOK'
<1>0. /\ TypeOK /\ NoTurn \in Turn /\ turn \in [TurnSlots -> Turn]
      /\ stage[c] # "out" => scope[c] \in Threads
      /\ floor[c] # NoRow => "heartbeat" \in Kinds
  BY DEF IntentIInv, SlotsFit, NoTurn, Turn, TypeOK, Stamps
<1>1. CASE Arrive(c)
  <2>1. turn[c] # NoTurn => turn[c].thread \in Threads
    BY DEF IntentIInv, SlotsFit
  <2>2. /\ turn' \in [TurnSlots -> Turn] /\ open' \in BOOLEAN
        /\ stage' \in [TurnSlots -> {"out", "queued", "running"}]
        /\ scope' \in [TurnSlots -> Threads \cup {NoThread}]
    BY <1>0, <1>1, <2>1 DEF Arrive, Gate!Queue, TypeOK
  <2> QED BY <1>0, <1>1, <2>2 DEF Arrive, TypeOK, Turn, Stamps, tableVars, runnerVars, historyVars
<1>2. CASE StartTurn(c)
  <2>1. begun' \in SUBSET (1..MaxCommands)
    BY <1>0, <1>2 DEF StartTurn, TypeOK, Turn, Stamps
  <2>2. stage' \in [TurnSlots -> {"out", "queued", "running"}] /\ UNCHANGED <<scope, open>>
    BY <1>0, <1>2 DEF StartTurn, Gate!Start, TypeOK
  <2> QED BY <1>0, <1>2, <2>1, <2>2 DEF StartTurn, TypeOK, tableVars, runnerVars
<1>3. CASE FailTurn(c)
  BY <1>0, <1>3, EndTurnTypes DEF FailTurn, TypeOK, Turn, Stamps, tableVars, runnerVars, historyVars
<1>4. CASE CompleteTurn(c)
  <2>1. CASE EndTurn(c)
    BY <1>0, <1>4, <2>1, EndTurnTypes DEF CompleteTurn, TypeOK, Turn, Stamps, tableVars, runnerVars, historyVars
  <2>2. CASE ~EndTurn(c)
    <3>1. /\ "heartbeat" \in Kinds /\ scope[c] \in Threads
          /\ floor' = [floor EXCEPT ![c] = rows[scope[c]]["heartbeat"]] /\ UNCHANGED <<turn, stage, scope, open>>
      BY <1>0, <1>4, <2>2 DEF CompleteTurn
    <3>2. floor' \in [TurnSlots -> Row \cup {NoRow}]
      BY <1>0, <3>1 DEF TypeOK
    <3> QED BY <1>0, <1>4, <3>1, <3>2 DEF CompleteTurn, TypeOK, tableVars, runnerVars, historyVars
  <2> QED BY <2>1, <2>2
<1>5. CASE ResetHeartbeatFloor(c)
  <2>1. /\ "heartbeat" \in Kinds /\ scope[c] \in Threads /\ [floor[c] EXCEPT !.due = FALSE] \in Row
        /\ Save(scope[c], "heartbeat", [floor[c] EXCEPT !.due = FALSE])
    BY <1>0, <1>5, CopiesAreRows DEF ResetHeartbeatFloor
  <2>2. rows' \in [Threads -> [Kinds -> Row \cup {NoRow}]]
    BY <1>0, <2>1, SaveWrites
  <2> QED BY <1>0, <1>5, <2>2, EndTurnTypes DEF ResetHeartbeatFloor, TypeOK, Turn, Stamps, runnerVars, historyVars
<1> QED BY <1>1, <1>2, <1>3, <1>4, <1>5 DEF TurnStep

LEMMA OtherTypes ==
  ASSUME IntentIInv
  PROVE  /\ \A t \in Threads : ToggleChat(t) => TypeOK'
         /\ \A c \in UserTurns, t \in Threads : UserMessage(c, t) => TypeOK'
         /\ \A force \in BOOLEAN : Shutdown(force) => TypeOK'
         /\ Restart => TypeOK'
<1>0. TypeOK
  BY DEF IntentIInv
<1>1. \A t \in Threads : ToggleChat(t) => TypeOK'
  BY <1>0 DEF ToggleChat, TypeOK, runnerVars, turnVars, historyVars
<1>2. ASSUME NEW c \in UserTurns, NEW t \in Threads, UserMessage(c, t) PROVE TypeOK'
  <2>1. [thread |-> t, told |-> {}] \in Turn /\ c \in TurnSlots
    BY DEF Turn, TurnSlots
  <2>2. turn' \in [TurnSlots -> Turn]
    BY <1>0, <1>2, <2>1 DEF UserMessage, TypeOK, Turn, Stamps
  <2> QED BY <1>0, <1>2, <2>2 DEF UserMessage, TypeOK, Turn, Stamps, tableVars, runnerVars, historyVars
<1>3. ASSUME NEW force \in BOOLEAN, Shutdown(force) PROVE TypeOK'
  BY <1>0, <1>3 DEF Shutdown, Gate!Close, TypeOK, tableVars, runnerVars, historyVars
<1>4. CASE Restart
  <2>1. restarts' \in 0..MaxRestarts
    BY <1>0, <1>4, IntentAssumption DEF Restart, TypeOK
  <2>2. snapshot' \in [Threads -> [Kinds -> Row \cup {NoRow}]]
    BY <1>4 DEF Restart, NoRows
  <2>3. turn' \in [TurnSlots -> Turn] /\ floor' \in [TurnSlots -> Row \cup {NoRow}]
    BY <1>4 DEF Restart, NoTurn, Turn
  <2> QED BY <1>0, <1>4, <2>1, <2>2, <2>3 DEF Restart, TypeOK, Turn, Stamps, tableVars, historyVars
<1> QED BY <1>1, <1>2, <1>3, <1>4
------------------------------------------------------------------------------
\* What follows from where the stamps in use come from.

\* A step that brings no stamp to a place where it was not.
NoNewStamp == \A t \in Threads, k \in Kinds, s \in Stamps : InUse(s, t, k)' => InUse(s, t, k)

LEMMA StampsStay ==
  ASSUME IntentIInv, NoNewStamp, UNCHANGED <<commands, commanded, raced>>
  PROVE  CopiesObey' /\ StampsDiffer'
<1>1. CopiesObey'
  BY DEF IntentIInv, NoNewStamp, CopiesObey
<1>2. StampsDiffer'
  <2> DEFINE P(s, t, k) == InUse(s, t, k)
  <2>1. /\ \A t \in Threads, k \in Kinds, s \in Stamps : P(s, t, k) => s <= commands
        /\ \A t, u \in Threads, k, l \in Kinds, s \in Stamps : P(s, t, k) /\ P(s, u, l) => t = u /\ k = l
    BY DEF IntentIInv, StampsDiffer
  <2> QED BY <2>1 DEF NoNewStamp, StampsDiffer
<1> QED BY <1>1, <1>2

\* What was delivered stays gone while the runner stays where it is.
LEMMA DeliveriesStay ==
  ASSUME IntentIInv, NoNewStamp, commands' >= commands, commands' \in Nat,
         UNCHANGED <<snapshot, current, outcome, accepted, restarts>>
  PROVE  DeliveredAreGone' /\ FinishedAreAccepted'
<1>1. commands \in Nat /\ \A s \in Stamps : s \in Nat
  BY IntentAssumption DEF IntentIInv, TypeOK, Stamps
<1>2. DeliveredAreGone'
  <2>1. \A s \in Stamps, life \in 0..MaxRestarts : <<s, life>> \in accepted' => s <= commands' /\ life <= restarts'
    BY <1>1 DEF IntentIInv, DeliveredAreGone
  <2>2. \A t \in Threads, k \in Kinds, s \in Stamps :
          InUse(s, t, k)' /\ <<s, restarts>>' \in accepted' =>
            /\ k = "wake" /\ t = current' /\ outcome' = "accepted"
            /\ snapshot'[t][k] # NoRow /\ snapshot'[t][k].stamp = s
    BY DEF IntentIInv, DeliveredAreGone, NoNewStamp
  <2> QED BY <2>1, <2>2 DEF DeliveredAreGone
<1>3. FinishedAreAccepted'
  BY DEF IntentIInv, FinishedAreAccepted, Group
<1> QED BY <1>2, <1>3

\* A write of a copy keeps the last command, and so does the deletion of a wake
\* that was accepted.
LEMMA CommandsStayStuck ==
  ASSUME IntentIInv, UNCHANGED <<commanded, raced>>,
         accepted \subseteq accepted', restarts' \in Nat, restarts' >= restarts,
         \A t \in Threads, k \in Kinds :
           \/ /\ rows'[t][k] # NoRow
              /\ \E s \in Stamps : rows'[t][k].stamp = s /\ InUse(s, t, k)
           \/ rows'[t][k] = NoRow /\ rows[t][k] = NoRow
           \/ /\ rows'[t][k] = NoRow /\ k = "wake"
              /\ \E s \in Stamps : InUse(s, t, k) /\ <<s, restarts>> \in accepted'
  PROVE  CommandsStick'
<1> SUFFICES ASSUME NEW t \in Threads, NEW k \in Kinds, ~raced[t][k]
             PROVE  CommandHolds(t, k)'
  BY DEF CommandsStick
<1>1. /\ CommandHolds(t, k) /\ restarts \in Nat
      /\ \A s \in Stamps : InUse(s, t, k) => s = commanded[t][k]
      /\ \A s \in Stamps : s # 0
  BY IntentAssumption DEF IntentIInv, CommandsStick, CopiesObey, TypeOK, Stamps
<1>2. CASE rows'[t][k] # NoRow /\ \E s \in Stamps : rows'[t][k].stamp = s /\ InUse(s, t, k)
  BY <1>1, <1>2 DEF CommandHolds
<1>3. CASE rows'[t][k] = NoRow /\ rows[t][k] = NoRow
  <2>1. \/ commanded[t][k] = 0
        \/ k = "wake" /\ \E life \in 0..restarts : <<commanded[t][k], life>> \in accepted
    <3>1. CommandHolds(t, k) /\ rows[t][k] = NoRow
      BY <1>1, <1>3
    <3> QED BY ONLY <3>1, Zenon DEF CommandHolds
  <2>2. 0..restarts \subseteq 0..restarts'
    BY <1>1
  <2> QED BY <1>3, <2>1, <2>2 DEF CommandHolds
<1>4. ASSUME rows'[t][k] = NoRow, k = "wake", NEW s \in Stamps, InUse(s, t, k), <<s, restarts>> \in accepted'
      PROVE  CommandHolds(t, k)'
  <2>1. s = commanded[t][k] /\ restarts \in 0..restarts'
    BY <1>1, <1>4
  <2> QED BY <1>4, <2>1 DEF CommandHolds
<1> QED BY <1>2, <1>3, <1>4

\* A step that leaves the table alone keeps the last command.
LEMMA TableStays ==
  ASSUME IntentIInv, UNCHANGED <<rows, commanded, raced>>,
         accepted \subseteq accepted', restarts' \in Nat, restarts' >= restarts
  PROVE  CommandsStick'
<1>1. \A t \in Threads, k \in Kinds :
        rows[t][k] # NoRow => \E s \in Stamps : rows[t][k].stamp = s /\ InUse(s, t, k)
  BY CopiesAreRows DEF IntentIInv, InUse
<1> QED BY <1>1, CommandsStayStuck

\* A step that leaves the turns alone keeps what holds of them.
LEMMA TurnsStay ==
  ASSUME IntentIInv, UNCHANGED <<turnVars, accepted, begun, restarts>>
  PROVE  SlotsFit' /\ DeliveredAreTold'
BY DEF IntentIInv, SlotsFit, DeliveredAreTold, turnVars
------------------------------------------------------------------------------
\* Commands.

\* A command that meets no copy leaves its own schedule only, one that meets a copy
\* marks the place.
LEMMA CommandKeeps ==
  ASSUME IntentIInv, NEW t \in Threads, NEW k \in Kinds, SetIntent(t, k) \/ ClearIntent(t, k)
  PROVE  IntentIInv'
<1>1. TypeOK /\ TypeOK' /\ commands \in Nat /\ commands' \in Nat /\ commands' = commands + 1
  <2>1. TypeOK /\ TypeOK'
    BY CommandTypes DEF IntentIInv
  <2>2. commands' = commands + 1
    BY DEF SetIntent, ClearIntent, Note
  <2> QED BY <2>1, <2>2, IntentAssumption DEF TypeOK
<1>2. /\ UNCHANGED <<enabled, restarts, runnerVars, turnVars, accepted, begun>>
      /\ \A u \in Threads, l \in Kinds : u # t \/ l # k =>
           rows'[u][l] = rows[u][l] /\ commanded'[u][l] = commanded[u][l] /\ raced'[u][l] = raced[u][l]
  <2>1. \A u \in Threads, l \in Kinds : u # t \/ l # k => rows'[u][l] = rows[u][l]
    <3>1. CASE SetIntent(t, k)
      <4>1. commands + 1 \in Stamps
        BY <1>1, <3>1, IntentAssumption DEF SetIntent, Stamps
      <4> QED BY <1>1, <3>1, <4>1, UpsertWrites DEF SetIntent
    <3>2. CASE ClearIntent(t, k)
      BY <1>1, <3>2, DeleteWrites DEF ClearIntent
    <3> QED BY <3>1, <3>2
  <2>2. \A u \in Threads, l \in Kinds : u # t \/ l # k =>
          commanded'[u][l] = commanded[u][l] /\ raced'[u][l] = raced[u][l]
    BY <1>1 DEF SetIntent, ClearIntent, Note, TypeOK
  <2> QED BY <2>1, <2>2 DEF SetIntent, ClearIntent
<1>3. /\ \/ rows'[t][k] # NoRow /\ rows'[t][k].stamp = commands + 1 /\ commanded'[t][k] = commands + 1
         \/ rows'[t][k] = NoRow /\ commanded'[t][k] = 0
      /\ raced'[t][k] = CopyHeld(t, k)
  <2>1. raced'[t][k] = CopyHeld(t, k)
    BY <1>1 DEF SetIntent, ClearIntent, Note, TypeOK
  <2>2. CASE SetIntent(t, k)
    <3>1. commands + 1 \in Stamps
      BY <1>1, <2>2, IntentAssumption DEF SetIntent, Stamps
    <3>2. commanded'[t][k] = commands + 1
      BY <1>1, <2>2 DEF SetIntent, Note, TypeOK
    <3> QED BY <1>1, <2>1, <2>2, <3>1, <3>2, UpsertWrites DEF SetIntent
  <2>3. CASE ClearIntent(t, k)
    <3>1. commanded'[t][k] = 0
      BY <1>1, <2>3 DEF ClearIntent, Note, TypeOK
    <3> QED BY <1>1, <2>1, <2>3, <3>1, DeleteWrites DEF ClearIntent
  <2> QED BY <2>2, <2>3
<1>4. \A u \in Threads, l \in Kinds, s \in Stamps :
        InUse(s, u, l)' => InUse(s, u, l) \/ (u = t /\ l = k /\ s = commands + 1 /\ commanded'[t][k] = s)
  BY <1>2, <1>3 DEF InUse, runnerVars, turnVars
<1>5. \A s \in Stamps : ~CopyHeld(t, k) /\ InUse(s, t, k)' => s = commanded'[t][k]
  BY <1>2, <1>3 DEF InUse, CopyHeld, runnerVars, turnVars
<1>6. CommandsStick'
  <2>1. CommandHolds(t, k)'
    BY <1>1, <1>3 DEF CommandHolds
  <2>2. ASSUME NEW u \in Threads, NEW l \in Kinds, u # t \/ l # k, ~raced'[u][l]
        PROVE  CommandHolds(u, l)'
    <3>1. ~raced[u][l]
      BY <1>2, <2>2
    <3>2. CommandHolds(u, l)
      BY <3>1 DEF IntentIInv, CommandsStick
    <3> QED BY <1>2, <2>2, <3>2 DEF CommandHolds
  <2> QED BY <2>1, <2>2 DEF CommandsStick
<1>7. CopiesObey'
  <2> SUFFICES ASSUME NEW u \in Threads, NEW l \in Kinds, NEW s \in Stamps, ~raced'[u][l], InUse(s, u, l)'
               PROVE  s = commanded'[u][l]
    BY DEF CopiesObey
  <2>1. CASE u = t /\ l = k
    BY <1>3, <1>5, <2>1
  <2>2. CASE u # t \/ l # k
    <3>1. ~raced[u][l] /\ InUse(s, u, l)
      BY <1>2, <1>4, <2>2
    <3> QED BY <1>2, <2>2, <3>1 DEF IntentIInv, CopiesObey
  <2> QED BY <2>1, <2>2
<1>8. StampsDiffer'
  <2>1. \A u \in Threads, l \in Kinds, s \in Stamps : InUse(s, u, l) => s <= commands
    BY DEF IntentIInv, StampsDiffer
  <2>2. \A u \in Threads, l \in Kinds, s \in Stamps : InUse(s, u, l) => s # commands + 1
    BY <1>1, <2>1 DEF Stamps
  <2>3. \A u \in Threads, l \in Kinds, s \in Stamps : InUse(s, u, l)' => s <= commands'
    <3>1. \A s \in Stamps : (s <= commands \/ s = commands + 1) => s <= commands'
      BY <1>1, IntentAssumption DEF Stamps
    <3> QED BY <1>4, <2>1, <3>1
  <2>4. \A u, v \in Threads, l, m \in Kinds, s \in Stamps :
          InUse(s, u, l)' /\ InUse(s, v, m)' => u = v /\ l = m
    <3>1. \A u, v \in Threads, l, m \in Kinds, s \in Stamps :
            InUse(s, u, l) /\ InUse(s, v, m) => u = v /\ l = m
      BY DEF IntentIInv, StampsDiffer
    <3> QED BY <1>4, <2>2, <3>1
  <2> QED BY <2>3, <2>4 DEF StampsDiffer
<1>9. DeliveredAreGone'
  <2>1. \A s \in Stamps, life \in 0..MaxRestarts : <<s, life>> \in accepted => s <= commands /\ life <= restarts
    BY DEF IntentIInv, DeliveredAreGone
  <2>2. \A s \in Stamps, life \in 0..MaxRestarts : <<s, life>> \in accepted => s <= commands' /\ s # commands + 1
    BY <1>1, <2>1, IntentAssumption DEF Stamps
  <2>3. restarts \in 0..MaxRestarts
    BY <1>1 DEF TypeOK
  <2>4. \A u \in Threads, l \in Kinds, s \in Stamps :
          InUse(s, u, l)' /\ <<s, restarts>> \in accepted => InUse(s, u, l)
    BY <1>4, <2>2, <2>3
  <2>5. \A u \in Threads, l \in Kinds, s \in Stamps :
          InUse(s, u, l)' /\ <<s, restarts>> \in accepted =>
            /\ l = "wake" /\ u = current /\ outcome = "accepted"
            /\ snapshot[u][l] # NoRow /\ snapshot[u][l].stamp = s
    BY <2>4 DEF IntentIInv, DeliveredAreGone
  <2> QED BY <1>2, <2>1, <2>2, <2>5 DEF DeliveredAreGone, runnerVars
<1>10. FinishedAreAccepted'
  BY <1>2 DEF IntentIInv, FinishedAreAccepted, Group, runnerVars
<1>11. SlotsFit' /\ DeliveredAreTold'
  BY <1>2, TurnsStay
<1> QED BY <1>1, <1>6, <1>7, <1>8, <1>9, <1>10, <1>11 DEF IntentIInv

\* The passing of time changes no stamp.
LEMMA TimeKeeps ==
  ASSUME IntentIInv, NEW t \in Threads, NEW k \in Kinds, TimePasses(t, k)
  PROVE  IntentIInv'
<1> DEFINE v == [rows[t][k] EXCEPT !.due = TRUE]
<1>1. TypeOK /\ TypeOK' /\ v # NoRow /\ v.stamp = rows[t][k].stamp /\ v.stamp \in Stamps /\ v \in Row
  BY CommandTypes, CopiesAreRows DEF IntentIInv, TimePasses
<1>2. /\ rows' = [rows EXCEPT ![t][k] = v] /\ rows[t][k] # NoRow
      /\ UNCHANGED <<enabled, commands, restarts, runnerVars, turnVars, historyVars>>
  BY DEF TimePasses
<1> HIDE DEF v
<1>3. /\ \A u \in Threads, l \in Kinds : rows'[u][l] = IF u = t /\ l = k THEN v ELSE rows[u][l]
      /\ restarts \in Nat /\ commands \in Nat
  BY <1>1, <1>2, TableWrite, IntentAssumption DEF TypeOK
<1>4. NoNewStamp
  BY <1>1, <1>2, <1>3 DEF NoNewStamp, InUse, runnerVars, turnVars
<1>5. \A u \in Threads, l \in Kinds :
        rows[u][l] # NoRow => rows[u][l].stamp \in Stamps /\ InUse(rows[u][l].stamp, u, l)
  BY <1>1, CopiesAreRows DEF InUse
<1>6. CommandsStick'
  <2>1. \A u \in Threads, l \in Kinds :
          \/ rows'[u][l] # NoRow /\ \E s \in Stamps : rows'[u][l].stamp = s /\ InUse(s, u, l)
          \/ rows'[u][l] = NoRow /\ rows[u][l] = NoRow
    BY <1>1, <1>2, <1>3, <1>5
  <2> QED BY <1>2, <1>3, <2>1, CommandsStayStuck DEF historyVars
<1>7. CopiesObey' /\ StampsDiffer'
  BY <1>2, <1>4, StampsStay DEF historyVars
<1>8. DeliveredAreGone' /\ FinishedAreAccepted'
  BY <1>2, <1>3, <1>4, DeliveriesStay DEF runnerVars, historyVars
<1>9. SlotsFit' /\ DeliveredAreTold'
  BY <1>2, TurnsStay DEF historyVars
<1> QED BY <1>1, <1>6, <1>7, <1>8, <1>9 DEF IntentIInv
------------------------------------------------------------------------------
\* The runner.

\* Before the runner takes a group, nothing that was delivered has a copy left.
LEMMA NothingIsPending ==
  ASSUME IntentIInv, outcome # "accepted"
  PROVE  \A t \in Threads, k \in Kinds, s \in Stamps : ~(InUse(s, t, k) /\ <<s, restarts>> \in accepted)
BY DEF IntentIInv, DeliveredAreGone

LEMMA ListKeeps ==
  ASSUME IntentIInv, ListDue \/ \E t \in Threads : TakeGroup(t)
  PROVE  IntentIInv'
<1>1. TypeOK /\ TypeOK' /\ restarts \in Nat /\ NoThread \notin Threads
  BY RunnerTypes, IntentAssumption DEF IntentIInv, Runner, TypeOK
<1>2. /\ UNCHANGED <<tableVars, restarts, outcome, turnVars, historyVars>>
      /\ current = NoThread
  BY DEF ListDue, TakeGroup
<1>3. outcome = "none"
  BY <1>2 DEF IntentIInv, FinishedAreAccepted
<1>4. \A t \in Threads, k \in Kinds : snapshot'[t][k] \in {snapshot[t][k], rows[t][k], NoRow}
  <2>1. CASE ListDue
    BY <2>1 DEF ListDue
  <2>2. ASSUME NEW t \in Threads, TakeGroup(t)
        PROVE  \A u \in Threads, k \in Kinds : snapshot'[u][k] \in {snapshot[u][k], NoRow}
    <3>1. snapshot' = [snapshot EXCEPT ![t] = NoRows[t]] \/ snapshot' = snapshot
      BY <2>2 DEF TakeGroup
    <3>2. NoRows[t] = [k \in Kinds |-> NoRow]
      BY DEF NoRows
    <3>3. snapshot \in [Threads -> [Kinds -> Row \cup {NoRow}]]
      BY <1>1 DEF TypeOK
    <3> QED BY <3>1, <3>2, <3>3
  <2> QED BY <2>1, <2>2
<1>5. NoNewStamp
  BY <1>2, <1>4 DEF NoNewStamp, InUse, tableVars, turnVars
<1>6. CommandsStick'
  BY <1>1, <1>2, TableStays DEF tableVars, historyVars
<1>7. CopiesObey' /\ StampsDiffer'
  BY <1>2, <1>5, StampsStay DEF tableVars, historyVars
<1>8. DeliveredAreGone'
  <2>1. \A t \in Threads, k \in Kinds, s \in Stamps : ~(InUse(s, t, k)' /\ <<s, restarts>> \in accepted)
    BY <1>3, <1>5, NothingIsPending DEF NoNewStamp
  <2> QED BY <1>2, <2>1 DEF IntentIInv, DeliveredAreGone, tableVars, historyVars
<1>9. FinishedAreAccepted'
  BY <1>2, <1>3 DEF FinishedAreAccepted
<1>10. SlotsFit' /\ DeliveredAreTold'
  BY <1>2, TurnsStay DEF historyVars
<1> QED BY <1>1, <1>6, <1>7, <1>8, <1>9, <1>10 DEF IntentIInv

LEMMA DeliverKeeps ==
  ASSUME IntentIInv, DeliverWake
  PROVE  IntentIInv'
<1> DEFINE told == {snapshot[current][k].stamp : k \in Group(current)}
           added == {<<snapshot[current][k].stamp, restarts>> : k \in Group(current) \cap {"wake"}}
<1>1. /\ TypeOK /\ TypeOK' /\ restarts \in Nat /\ restarts \in 0..MaxRestarts
      /\ current \in Threads /\ NoThread \notin Threads
      /\ Group(current) \subseteq Kinds
      /\ outcome = "none"
      /\ turn \in [TurnSlots -> Turn] /\ WakeTurns \subseteq TurnSlots
  <2>1. TypeOK /\ TypeOK'
    BY RunnerTypes DEF IntentIInv, Runner
  <2>2. current # NoThread /\ outcome = "none"
    BY DEF DeliverWake
  <2>3. Group(current) \subseteq Kinds
    BY DEF Group
  <2>4. turn \in [TurnSlots -> Turn]
    BY <2>1 DEF TypeOK, Turn, Stamps
  <2> QED BY <2>1, <2>2, <2>3, <2>4, IntentAssumption DEF TypeOK, TurnSlots
<1>2. UNCHANGED <<tableVars, restarts, snapshot, current, floor, stage, scope, open, commanded, raced, begun>>
  BY DEF DeliverWake
<1>3. NoNewStamp /\ \A t \in Threads, k \in Kinds, s \in Stamps : InUse(s, t, k)' <=> InUse(s, t, k)
  BY <1>2 DEF NoNewStamp, InUse, tableVars
<1>4. \/ /\ outcome' = "accepted" /\ accepted' = accepted \cup added
         /\ \E c \in WakeTurns :
              turn[c] = NoTurn /\ turn' = [turn EXCEPT ![c] = [thread |-> current, told |-> told]]
      \/ outcome' = "failed" /\ turn' = turn /\ accepted' = accepted
  BY DEF DeliverWake
<1>5. \A k \in Group(current) : snapshot[current][k].stamp \in Stamps /\ InUse(snapshot[current][k].stamp, current, k)
  BY <1>1, CopiesAreRows DEF Group, InUse
<1>6. \A s, life : <<s, life>> \in added <=>
        life = restarts /\ "wake" \in Group(current) /\ s = snapshot[current]["wake"].stamp
  OBVIOUS
<1>7. \A s \in Stamps, t \in Threads, k \in Kinds :
        <<s, restarts>> \in added /\ InUse(s, t, k) =>
          k = "wake" /\ t = current /\ snapshot[t][k] # NoRow /\ snapshot[t][k].stamp = s
  <2> SUFFICES ASSUME NEW s \in Stamps, NEW t \in Threads, NEW k \in Kinds,
                      <<s, restarts>> \in added, InUse(s, t, k)
               PROVE  k = "wake" /\ t = current /\ snapshot[t][k] # NoRow /\ snapshot[t][k].stamp = s
    OBVIOUS
  <2>1. "wake" \in Group(current) /\ s = snapshot[current]["wake"].stamp
    BY <1>6
  <2>2. InUse(s, current, "wake") /\ "wake" \in Kinds /\ snapshot[current]["wake"] # NoRow
    BY <1>1, <1>5, <2>1 DEF Group
  <2>3. t = current /\ k = "wake"
    BY <1>1, <2>2 DEF IntentIInv, StampsDiffer
  <2> QED BY <2>1, <2>2, <2>3
<1> HIDE DEF added, told
<1>8. CommandsStick'
  BY <1>1, <1>2, <1>4, TableStays DEF tableVars
<1>9. CopiesObey' /\ StampsDiffer'
  BY <1>2, <1>3, StampsStay DEF tableVars
<1>10. DeliveredAreGone'
  <2>1. \A s \in Stamps, life \in 0..MaxRestarts : <<s, life>> \in accepted' => s <= commands' /\ life <= restarts'
    <3>1. \A s \in Stamps, life \in 0..MaxRestarts : <<s, life>> \in accepted => s <= commands /\ life <= restarts
      BY DEF IntentIInv, DeliveredAreGone
    <3>2. \A s \in Stamps, life \in 0..MaxRestarts : <<s, life>> \in added => s <= commands /\ life <= restarts
      BY <1>1, <1>5, <1>6 DEF IntentIInv, StampsDiffer
    <3> QED BY <1>2, <1>4, <3>1, <3>2 DEF tableVars
  <2>2. \A t \in Threads, k \in Kinds, s \in Stamps : ~(InUse(s, t, k) /\ <<s, restarts>> \in accepted)
    BY <1>1, NothingIsPending
  <2>3. ASSUME NEW t \in Threads, NEW k \in Kinds, NEW s \in Stamps,
               InUse(s, t, k)', <<s, restarts'>> \in accepted'
        PROVE  /\ k = "wake" /\ t = current' /\ outcome' = "accepted"
               /\ snapshot'[t][k] # NoRow /\ snapshot'[t][k].stamp = s
    <3>1. InUse(s, t, k) /\ <<s, restarts>> \in accepted'
      BY <1>2, <1>3, <2>3
    <3>2. outcome' = "accepted" /\ <<s, restarts>> \in added
      BY <1>4, <2>2, <3>1
    <3> QED BY <1>2, <1>7, <3>1, <3>2
  <2> QED BY <2>1, <2>3 DEF DeliveredAreGone
<1>11. FinishedAreAccepted'
  <2>1. current' # NoThread
    BY <1>1, <1>2
  <2>2. ASSUME outcome' = "accepted", NEW k \in Group(current)', k = "wake"
        PROVE  <<snapshot[current][k].stamp, restarts>> \in accepted'
    <3>1. k \in Group(current)
      BY <1>2, <2>2 DEF Group
    <3> QED BY <1>4, <1>6, <2>2, <3>1
  <2> QED BY <1>2, <2>1, <2>2 DEF FinishedAreAccepted
<1>12. SlotsFit' /\ DeliveredAreTold'
  <2>1. CASE outcome' = "failed" /\ turn' = turn /\ accepted' = accepted
    BY <1>2, <2>1, TurnsStay DEF turnVars
  <2>2. ASSUME NEW c \in WakeTurns, turn[c] = NoTurn,
               turn' = [turn EXCEPT ![c] = [thread |-> current, told |-> told]],
               accepted' = accepted \cup added
        PROVE  SlotsFit' /\ DeliveredAreTold'
    <3>1. /\ turn'[c].thread = current /\ turn'[c].told = told /\ turn'[c] # NoTurn
          /\ \A d \in TurnSlots \ {c} : turn'[d] = turn[d]
      <4>1. /\ turn'[c].thread = current /\ turn'[c].told = told
            /\ \A d \in TurnSlots \ {c} : turn'[d] = turn[d]
        BY <1>1, <2>2
      <4> QED BY <1>1, <4>1 DEF NoTurn
    <3>2. stage[c] = "out"
      BY <1>1, <2>2 DEF IntentIInv, SlotsFit
    <3>3. SlotsFit'
      BY <1>1, <1>2, <3>1, <3>2 DEF IntentIInv, SlotsFit
    <3>4. DeliveredAreTold'
      <4> SUFFICES ASSUME restarts' = 0, open', NEW s \in Stamps, NEW life \in 0..MaxRestarts,
                          <<s, life>> \in accepted'
                   PROVE  s \in begun' \/ \E d \in WakeTurns : s \in turn'[d].told
        BY DEF DeliveredAreTold
      <4>1. CASE <<s, life>> \in accepted
        <5>1. s \in begun \/ \E d \in WakeTurns : s \in turn[d].told
          BY <1>2, <4>1 DEF IntentIInv, DeliveredAreTold
        <5>2. turn[c].told = {}
          BY <2>2 DEF NoTurn
        <5> QED BY <1>1, <1>2, <3>1, <5>1, <5>2
      <4>2. CASE <<s, life>> \in added
        <5>1. s \in told
          BY <1>6, <4>2 DEF told
        <5> QED BY <3>1, <5>1
      <4> QED BY <2>2, <4>1, <4>2
    <3> QED BY <3>3, <3>4
  <2> QED BY <1>4, <2>1, <2>2
<1> QED BY <1>1, <1>8, <1>9, <1>10, <1>11, <1>12 DEF IntentIInv

\* The end of one intent: its copy is written back, or its row is deleted once the
\* wake it stands for was accepted.
LEMMA FinishKeeps ==
  ASSUME IntentIInv, NEW k \in Kinds, FinishIntent(k)
  PROVE  IntentIInv'
<1>1. PICK t \in Threads : t = current
  BY DEF IntentIInv, TypeOK, FinishIntent
<1> DEFINE row == snapshot[t][k]
<1>2. TypeOK /\ TypeOK' /\ restarts \in Nat /\ commands \in Nat /\ NoThread \notin Threads
  <2>1. TypeOK /\ TypeOK'
    BY RunnerTypes DEF IntentIInv, Runner
  <2> QED BY <2>1, IntentAssumption DEF TypeOK
<1>3. /\ row # NoRow /\ row \in Row /\ row.stamp \in Stamps /\ InUse(row.stamp, t, k)
      /\ [row EXCEPT !.due = FALSE] \in Row /\ [row EXCEPT !.due = FALSE].stamp = row.stamp
  BY <1>1, <1>2, CopiesAreRows DEF FinishIntent, Group, InUse
<1>4. /\ UNCHANGED <<enabled, commands, restarts, turnVars, historyVars>>
      /\ snapshot' = [snapshot EXCEPT ![t][k] = NoRow]
      /\ IF outcome = "accepted" THEN FinishDelivered(t, k, row) ELSE FinishFailed(t, k, row)
      /\ \/ Group(t) = {k} /\ current' = NoThread /\ outcome' = "none"
         \/ Group(t) # {k} /\ UNCHANGED <<current, outcome>>
  BY <1>1 DEF FinishIntent, NextGroup
<1>5. \A u \in Threads, l \in Kinds : snapshot'[u][l] = IF u = t /\ l = k THEN NoRow ELSE snapshot[u][l]
  BY <1>2, <1>4, TableWrite DEF TypeOK
<1>6. \A l \in Kinds : snapshot[t][l] # NoRow => l \in Group(t)
  BY DEF Group
<1> HIDE DEF row
<1>7. /\ \A u \in Threads, l \in Kinds : u # t \/ l # k => rows'[u][l] = rows[u][l]
      /\ \/ rows'[t][k] # NoRow /\ rows'[t][k].stamp = row.stamp
         \/ rows'[t][k] = rows[t][k] /\ rows[t][k] # NoRow
         \/ rows'[t][k] = NoRow /\ k = "wake" /\ outcome = "accepted"
      /\ outcome = "accepted" /\ k = "wake" => rows'[t][k] = NoRow
  <2>1. CASE outcome = "accepted" /\ k = "wake"
    <3>1. DeleteByTargetKindKey(t, k)
      BY <1>4, <2>1 DEF FinishDelivered
    <3>2. \A u \in Threads, l \in Kinds : rows'[u][l] = IF u = t /\ l = k THEN NoRow ELSE rows[u][l]
      BY <1>2, <3>1, DeleteWrites
    <3> QED BY <2>1, <3>2
  <2>2. CASE ~(outcome = "accepted" /\ k = "wake")
    <3>1. PICK saved \in Row : saved.stamp = row.stamp /\ saved # NoRow /\ Save(t, k, saved)
      BY <1>2, <1>3, <1>4, <2>2, CopiesAreRows DEF FinishDelivered, FinishFailed
    <3> QED BY <1>2, <2>2, <3>1, SaveWrites
  <2> QED BY <2>1, <2>2
<1>8. outcome = "accepted" /\ k = "wake" => <<row.stamp, restarts>> \in accepted
  <2> SUFFICES ASSUME outcome = "accepted", k = "wake" PROVE <<row.stamp, restarts>> \in accepted
    OBVIOUS
  <2>1. k \in Group(current) \cap {"wake"} /\ current # NoThread
    BY DEF FinishIntent
  <2> QED BY <1>1, <2>1 DEF IntentIInv, FinishedAreAccepted, row
<1>9. /\ NoNewStamp
      /\ \A s \in Stamps : outcome = "accepted" /\ k = "wake" => ~InUse(s, t, k)'
  <2>1. \A u \in Threads, l \in Kinds, s \in Stamps : InUse(s, u, l)' => InUse(s, u, l)
    <3> SUFFICES ASSUME NEW u \in Threads, NEW l \in Kinds, NEW s \in Stamps, InUse(s, u, l)'
                 PROVE  InUse(s, u, l)
      OBVIOUS
    <3>1. CASE u = t /\ l = k /\ rows'[t][k] # NoRow /\ rows'[t][k].stamp = row.stamp /\ s = row.stamp
      BY <1>3, <3>1
    <3>2. CASE ~(u = t /\ l = k /\ rows'[t][k] # NoRow /\ rows'[t][k].stamp = row.stamp /\ s = row.stamp)
      BY <1>4, <1>5, <1>7, <3>2 DEF InUse, turnVars
    <3> QED BY <3>1, <3>2
  <2>2. \A s \in Stamps : outcome = "accepted" /\ k = "wake" => ~InUse(s, t, k)'
    BY <1>4, <1>5, <1>7 DEF InUse
  <2> QED BY <2>1, <2>2 DEF NoNewStamp
<1>10. CommandsStick'
  <2>1. ASSUME NEW u \in Threads, NEW l \in Kinds
        PROVE  \/ rows'[u][l] # NoRow /\ \E s \in Stamps : rows'[u][l].stamp = s /\ InUse(s, u, l)
               \/ rows'[u][l] = NoRow /\ rows[u][l] = NoRow
               \/ /\ rows'[u][l] = NoRow /\ l = "wake"
                  /\ \E s \in Stamps : InUse(s, u, l) /\ <<s, restarts>> \in accepted'
    <3>1. rows[u][l] # NoRow => rows[u][l].stamp \in Stamps /\ InUse(rows[u][l].stamp, u, l)
      BY <1>2, CopiesAreRows DEF InUse
    <3>2. CASE u = t /\ l = k
      BY <1>3, <1>4, <1>7, <1>8, <3>1, <3>2 DEF historyVars
    <3>3. CASE u # t \/ l # k
      BY <1>7, <3>1, <3>3
    <3> QED BY <3>2, <3>3
  <2> QED BY <1>2, <1>4, <2>1, CommandsStayStuck DEF historyVars
<1>11. CopiesObey' /\ StampsDiffer'
  BY <1>4, <1>9, StampsStay DEF historyVars
<1>12. DeliveredAreGone'
  <2>1. ASSUME NEW u \in Threads, NEW l \in Kinds, NEW s \in Stamps,
               InUse(s, u, l)', <<s, restarts'>> \in accepted'
        PROVE  /\ l = "wake" /\ u = current' /\ outcome' = "accepted"
               /\ snapshot'[u][l] # NoRow /\ snapshot'[u][l].stamp = s
    <3>1. InUse(s, u, l) /\ <<s, restarts>> \in accepted
      BY <1>4, <1>9, <2>1 DEF NoNewStamp, historyVars
    <3>2. /\ l = "wake" /\ u = t /\ outcome = "accepted"
          /\ snapshot[u][l] # NoRow /\ snapshot[u][l].stamp = s
      BY <1>1, <3>1 DEF IntentIInv, DeliveredAreGone
    <3>3. l # k
      BY <1>9, <2>1, <3>2
    <3>4. Group(t) # {k}
      BY <1>6, <3>2, <3>3
    <3> QED BY <1>1, <1>4, <1>5, <3>2, <3>3, <3>4
  <2>2. \A s \in Stamps, life \in 0..MaxRestarts : <<s, life>> \in accepted' => s <= commands' /\ life <= restarts'
    BY <1>4 DEF IntentIInv, DeliveredAreGone, historyVars
  <2> QED BY <2>1, <2>2 DEF DeliveredAreGone
<1>13. FinishedAreAccepted'
  <2>1. CASE outcome' = "none"
    BY <2>1 DEF FinishedAreAccepted
  <2>2. CASE UNCHANGED <<current, outcome>>
    <3>1. ASSUME NEW l \in Group(current)', l = "wake", outcome' = "accepted"
          PROVE  <<snapshot'[current'][l].stamp, restarts'>> \in accepted'
      <4>1. l \in Kinds /\ snapshot'[t][l] # NoRow
        BY <1>1, <2>2, <3>1 DEF Group
      <4>2. snapshot'[t][l] = snapshot[t][l] /\ l \in Group(current)
        BY <1>1, <1>5, <1>6, <4>1
      <4> QED BY <1>1, <1>2, <1>4, <2>2, <3>1, <4>2 DEF IntentIInv, FinishedAreAccepted, historyVars
    <3>2. current' # NoThread
      BY <1>1, <1>2, <2>2
    <3> QED BY <3>1, <3>2 DEF FinishedAreAccepted
  <2> QED BY <1>4, <2>1, <2>2
<1>14. SlotsFit' /\ DeliveredAreTold'
  BY <1>4, TurnsStay DEF historyVars
<1> QED BY <1>2, <1>10, <1>11, <1>12, <1>13, <1>14 DEF IntentIInv
------------------------------------------------------------------------------
\* Turns and the process.

\* A step of the turns that brings no copy of its own keeps the rest.
LEMMA TurnsKeep ==
  ASSUME IntentIInv, TypeOK', NoNewStamp, SlotsFit', DeliveredAreTold',
         UNCHANGED <<rows, commands, restarts, runnerVars, commanded, raced, accepted>>
  PROVE  IntentIInv'
<1>1. restarts \in Nat /\ commands \in Nat
  BY IntentAssumption DEF IntentIInv, TypeOK
<1>2. CommandsStick'
  BY <1>1, TableStays
<1>3. CopiesObey' /\ StampsDiffer'
  BY StampsStay
<1>4. DeliveredAreGone' /\ FinishedAreAccepted'
  BY <1>1, DeliveriesStay DEF runnerVars
<1> QED BY <1>2, <1>3, <1>4 DEF IntentIInv

\* A turn that ends gives up its copy, and what it told has begun.
LEMMA EndTurnKeeps ==
  ASSUME IntentIInv, NEW c \in TurnSlots, stage[c] = "running", EndTurn(c),
         UNCHANGED <<accepted, begun, restarts>>
  PROVE  /\ SlotsFit' /\ DeliveredAreTold'
         /\ floor'[c] = NoRow
         /\ \A d \in TurnSlots \ {c} : floor'[d] = floor[d] /\ scope'[d] = scope[d]
<1>1. /\ turn'[c] = NoTurn /\ floor'[c] = NoRow /\ stage'[c] = "out" /\ open' = open
      /\ \A d \in TurnSlots \ {c} :
           /\ turn'[d] = turn[d] /\ floor'[d] = floor[d]
           /\ stage'[d] = stage[d] /\ scope'[d] = scope[d]
  BY DEF IntentIInv, TypeOK, EndTurn, Gate!Depart
<1>2. SlotsFit'
  BY <1>1 DEF IntentIInv, SlotsFit
<1>3. turn[c].told \subseteq begun /\ WakeTurns \subseteq TurnSlots
  BY DEF IntentIInv, SlotsFit, TurnSlots
<1>4. DeliveredAreTold'
  <2> SUFFICES ASSUME restarts = 0, open, NEW s \in Stamps, NEW life \in 0..MaxRestarts, <<s, life>> \in accepted
               PROVE  s \in begun \/ \E d \in WakeTurns : s \in turn'[d].told
    BY <1>1 DEF DeliveredAreTold
  <2>1. s \in begun \/ \E d \in WakeTurns : s \in turn[d].told
    BY DEF IntentIInv, DeliveredAreTold
  <2> QED BY <1>1, <1>3, <2>1
<1> QED BY <1>1, <1>2, <1>4

\* A turn that ends and writes nothing.
LEMMA QuietEndKeeps ==
  ASSUME IntentIInv, TypeOK', NEW c \in TurnSlots, stage[c] = "running", EndTurn(c),
         UNCHANGED <<tableVars, restarts, runnerVars, historyVars>>
  PROVE  IntentIInv'
<1>1. /\ SlotsFit' /\ DeliveredAreTold' /\ floor'[c] = NoRow
      /\ \A d \in TurnSlots \ {c} : floor'[d] = floor[d] /\ scope'[d] = scope[d]
  BY EndTurnKeeps DEF historyVars
<1>2. NoNewStamp
  BY <1>1 DEF NoNewStamp, InUse, tableVars, runnerVars
<1> QED BY <1>1, <1>2, TurnsKeep DEF tableVars, historyVars

LEMMA ArriveKeeps ==
  ASSUME IntentIInv, NEW c \in TurnSlots, Arrive(c)
  PROVE  IntentIInv'
<1>1. TypeOK /\ TypeOK'
  BY TurnTypes DEF IntentIInv, TurnStep
<1>2. /\ turn[c] # NoTurn /\ stage[c] = "out" /\ floor[c] = NoRow
      /\ turn[c].thread \in Threads
      /\ UNCHANGED <<tableVars, restarts, runnerVars, floor, historyVars>>
  BY DEF Arrive, IntentIInv, SlotsFit
<1>3. CASE open
  <2>1. /\ turn' = turn /\ open' = open /\ stage'[c] = "queued" /\ scope'[c] = turn[c].thread
        /\ \A d \in TurnSlots \ {c} : stage'[d] = stage[d] /\ scope'[d] = scope[d]
    BY <1>1, <1>3 DEF Arrive, Gate!Queue, TypeOK
  <2>2. NoNewStamp
    BY <1>2, <2>1 DEF NoNewStamp, InUse, tableVars, runnerVars
  <2>3. SlotsFit'
    BY <1>2, <2>1 DEF IntentIInv, SlotsFit, historyVars
  <2>4. DeliveredAreTold'
    BY <1>2, <2>1 DEF IntentIInv, DeliveredAreTold, historyVars
  <2> QED BY <1>1, <1>2, <2>2, <2>3, <2>4, TurnsKeep DEF tableVars, historyVars
<1>4. CASE ~open
  <2>1. /\ turn'[c] = NoTurn /\ UNCHANGED <<stage, scope, open>>
        /\ \A d \in TurnSlots \ {c} : turn'[d] = turn[d]
    BY <1>1, <1>4 DEF Arrive, TypeOK
  <2>2. NoNewStamp
    BY <1>2, <2>1 DEF NoNewStamp, InUse, tableVars, runnerVars
  <2>3. SlotsFit'
    BY <1>2, <2>1 DEF IntentIInv, SlotsFit, historyVars
  <2>4. DeliveredAreTold'
    BY <1>4, <2>1 DEF DeliveredAreTold
  <2> QED BY <1>1, <1>2, <2>2, <2>3, <2>4, TurnsKeep DEF tableVars, historyVars
<1> QED BY <1>3, <1>4

LEMMA StartKeeps ==
  ASSUME IntentIInv, NEW c \in TurnSlots, StartTurn(c)
  PROVE  IntentIInv'
<1>1. TypeOK /\ TypeOK'
  BY TurnTypes DEF IntentIInv, TurnStep
<1>2. /\ stage[c] = "queued" /\ floor[c] = NoRow
      /\ stage'[c] = "running" /\ begun' = begun \cup turn[c].told
      /\ \A d \in TurnSlots \ {c} : stage'[d] = stage[d]
      /\ UNCHANGED <<tableVars, restarts, runnerVars, turn, floor, scope, open, commanded, raced, accepted>>
  <2>1. stage[c] = "queued" /\ stage' = [stage EXCEPT ![c] = "running"] /\ UNCHANGED <<scope, open>>
    BY DEF StartTurn, Gate!Start
  <2>2. floor[c] = NoRow
    BY <2>1 DEF IntentIInv, SlotsFit
  <2> QED BY <1>1, <2>1, <2>2 DEF StartTurn, TypeOK
<1>3. NoNewStamp
  BY <1>2 DEF NoNewStamp, InUse, tableVars, runnerVars
<1>4. SlotsFit'
  BY <1>2 DEF IntentIInv, SlotsFit
<1>5. DeliveredAreTold'
  BY <1>2 DEF IntentIInv, DeliveredAreTold
<1> QED BY <1>1, <1>2, <1>3, <1>4, <1>5, TurnsKeep DEF tableVars

LEMMA CompleteKeeps ==
  ASSUME IntentIInv, NEW c \in TurnSlots, CompleteTurn(c)
  PROVE  IntentIInv'
<1>1. TypeOK /\ TypeOK'
  BY TurnTypes DEF IntentIInv, TurnStep
<1>2. stage[c] = "running" /\ UNCHANGED <<tableVars, restarts, runnerVars, historyVars>>
  BY DEF CompleteTurn
<1>3. CASE EndTurn(c)
  BY <1>1, <1>2, <1>3, QuietEndKeeps
<1>4. CASE ~EndTurn(c)
  <2>1. PICK t \in Threads : t = scope[c]
    BY <1>2 DEF IntentIInv, SlotsFit
  <2>2. /\ "heartbeat" \in Kinds /\ rows[t]["heartbeat"] # NoRow
        /\ floor' = [floor EXCEPT ![c] = rows[t]["heartbeat"]] /\ UNCHANGED <<turn, stage, scope, open>>
    BY <1>4, <2>1 DEF CompleteTurn
  <2>3. floor'[c] = rows[t]["heartbeat"] /\ \A d \in TurnSlots \ {c} : floor'[d] = floor[d]
    BY <1>1, <2>2 DEF TypeOK
  <2>4. NoNewStamp
    <3> SUFFICES ASSUME NEW u \in Threads, NEW k \in Kinds, NEW s \in Stamps, InUse(s, u, k)'
                 PROVE  InUse(s, u, k)
      BY DEF NoNewStamp
    <3>1. CASE k = "heartbeat" /\ scope[c] = u /\ floor'[c].stamp = s
      BY <2>1, <2>2, <2>3, <3>1 DEF InUse
    <3>2. CASE ~(k = "heartbeat" /\ scope[c] = u /\ floor'[c].stamp = s)
      BY <1>2, <2>2, <2>3, <3>2 DEF InUse, tableVars, runnerVars
    <3> QED BY <3>1, <3>2
  <2>5. SlotsFit'
    BY <1>2, <2>2, <2>3 DEF IntentIInv, SlotsFit, historyVars
  <2>6. DeliveredAreTold'
    BY <1>2, <2>2 DEF IntentIInv, DeliveredAreTold, historyVars
  <2> QED BY <1>1, <1>2, <2>4, <2>5, <2>6, TurnsKeep DEF tableVars, historyVars
<1> QED BY <1>3, <1>4

\* The copy that ResetHeartbeatFloor saves has the schedule of the last command, or
\* a command met it.
LEMMA ResetKeeps ==
  ASSUME IntentIInv, NEW c \in TurnSlots, ResetHeartbeatFloor(c)
  PROVE  IntentIInv'
<1>1. TypeOK /\ TypeOK' /\ commands \in Nat /\ restarts \in Nat
  <2>1. TypeOK /\ TypeOK'
    BY TurnTypes DEF IntentIInv, TurnStep
  <2> QED BY <2>1, IntentAssumption DEF TypeOK
<1>2. /\ stage[c] = "running" /\ floor[c] # NoRow /\ EndTurn(c) /\ "heartbeat" \in Kinds
      /\ UNCHANGED <<enabled, commands, restarts, runnerVars, historyVars>>
  BY DEF ResetHeartbeatFloor, IntentIInv, SlotsFit
<1>3. PICK t \in Threads : t = scope[c]
  BY <1>2 DEF IntentIInv, SlotsFit
<1>4. PICK s0 \in Stamps : s0 = floor[c].stamp
  BY <1>1, <1>2, CopiesAreRows
<1>5. InUse(s0, t, "heartbeat")
  BY <1>2, <1>3, <1>4 DEF InUse
<1>6. PICK saved \in Row : saved.stamp = s0 /\ saved # NoRow /\ Save(t, "heartbeat", saved)
  BY <1>1, <1>2, <1>3, <1>4, CopiesAreRows DEF ResetHeartbeatFloor
<1>7. /\ \A u \in Threads, l \in Kinds : u # t \/ l # "heartbeat" => rows'[u][l] = rows[u][l]
      /\ \/ rows'[t]["heartbeat"] # NoRow /\ rows'[t]["heartbeat"].stamp = s0
         \/ rows'[t]["heartbeat"] = rows[t]["heartbeat"] /\ rows[t]["heartbeat"] # NoRow
  BY <1>1, <1>2, <1>6, SaveWrites
<1>8. /\ SlotsFit' /\ DeliveredAreTold' /\ floor'[c] = NoRow
      /\ \A d \in TurnSlots \ {c} : floor'[d] = floor[d] /\ scope'[d] = scope[d]
  BY <1>2, EndTurnKeeps DEF historyVars
<1>9. NoNewStamp
  <2> SUFFICES ASSUME NEW u \in Threads, NEW l \in Kinds, NEW s \in Stamps, InUse(s, u, l)'
               PROVE  InUse(s, u, l)
    BY DEF NoNewStamp
  <2>1. CASE u = t /\ l = "heartbeat" /\ s = s0
    BY <1>5, <2>1
  <2>2. CASE ~(u = t /\ l = "heartbeat" /\ s = s0)
    BY <1>2, <1>7, <1>8, <2>2 DEF InUse, runnerVars
  <2> QED BY <2>1, <2>2
<1>10. CommandsStick'
  <2>1. ASSUME NEW u \in Threads, NEW l \in Kinds
        PROVE  \/ rows'[u][l] # NoRow /\ \E s \in Stamps : rows'[u][l].stamp = s /\ InUse(s, u, l)
               \/ rows'[u][l] = NoRow /\ rows[u][l] = NoRow
    <3>1. rows[u][l] # NoRow => rows[u][l].stamp \in Stamps /\ InUse(rows[u][l].stamp, u, l)
      BY <1>1, CopiesAreRows DEF InUse
    <3>2. CASE u = t /\ l = "heartbeat"
      BY <1>5, <1>7, <3>1, <3>2
    <3>3. CASE u # t \/ l # "heartbeat"
      BY <1>7, <3>1, <3>3
    <3> QED BY <3>2, <3>3
  <2> QED BY <1>1, <1>2, <2>1, CommandsStayStuck DEF historyVars
<1>11. CopiesObey' /\ StampsDiffer'
  BY <1>2, <1>9, StampsStay DEF historyVars
<1>12. DeliveredAreGone' /\ FinishedAreAccepted'
  BY <1>1, <1>2, <1>9, DeliveriesStay DEF runnerVars, historyVars
<1> QED BY <1>1, <1>8, <1>10, <1>11, <1>12 DEF IntentIInv

LEMMA OthersKeep ==
  ASSUME IntentIInv
  PROVE  /\ \A t \in Threads : ToggleChat(t) => IntentIInv'
         /\ \A c \in UserTurns, t \in Threads : UserMessage(c, t) => IntentIInv'
         /\ \A force \in BOOLEAN : Shutdown(force) => IntentIInv'
<1>0. TypeOK
  BY DEF IntentIInv
<1>1. ASSUME NEW t \in Threads, ToggleChat(t) PROVE IntentIInv'
  <2>1. TypeOK' /\ UNCHANGED <<rows, commands, restarts, runnerVars, turnVars, historyVars>>
    BY <1>1, OtherTypes DEF ToggleChat
  <2>2. NoNewStamp
    BY <2>1 DEF NoNewStamp, InUse, runnerVars, turnVars
  <2>3. SlotsFit' /\ DeliveredAreTold'
    BY <2>1, TurnsStay DEF historyVars
  <2> QED BY <2>1, <2>2, <2>3, TurnsKeep DEF historyVars
<1>2. ASSUME NEW c \in UserTurns, NEW t \in Threads, UserMessage(c, t) PROVE IntentIInv'
  <2>1. TypeOK' /\ UNCHANGED <<tableVars, restarts, runnerVars, floor, stage, scope, open, historyVars>>
    BY <1>2, OtherTypes DEF UserMessage
  <2>2. c \in TurnSlots /\ c \notin WakeTurns /\ WakeTurns \subseteq TurnSlots /\ t # NoThread
    BY IntentAssumption DEF TurnSlots
  <2>3. /\ turn[c] = NoTurn /\ turn'[c].thread = t /\ turn'[c].told = {}
        /\ \A d \in TurnSlots \ {c} : turn'[d] = turn[d]
    BY <1>0, <1>2, <2>2 DEF UserMessage, TypeOK
  <2>4. NoNewStamp
    BY <2>1 DEF NoNewStamp, InUse, tableVars, runnerVars
  <2>5. SlotsFit'
    <3>1. stage[c] = "out" /\ turn'[c] # NoTurn
      BY <2>2, <2>3 DEF IntentIInv, SlotsFit, NoTurn
    <3> QED BY <2>1, <2>3, <3>1 DEF IntentIInv, SlotsFit, historyVars
  <2>6. DeliveredAreTold'
    <3>1. \A d \in WakeTurns : turn'[d] = turn[d]
      BY <2>2, <2>3
    <3> QED BY <2>1, <3>1 DEF IntentIInv, DeliveredAreTold, historyVars
  <2> QED BY <2>1, <2>4, <2>5, <2>6, TurnsKeep DEF tableVars, historyVars
<1>3. ASSUME NEW force \in BOOLEAN, Shutdown(force) PROVE IntentIInv'
  <2>1. TypeOK' /\ UNCHANGED <<tableVars, restarts, runnerVars, turn, floor, stage, scope, historyVars>> /\ open' = FALSE
    BY <1>3, OtherTypes DEF Shutdown, Gate!Close
  <2>2. NoNewStamp
    BY <2>1 DEF NoNewStamp, InUse, tableVars, runnerVars
  <2>3. SlotsFit' /\ DeliveredAreTold'
    BY <2>1 DEF IntentIInv, SlotsFit, DeliveredAreTold, historyVars
  <2> QED BY <2>1, <2>2, <2>3, TurnsKeep DEF tableVars, historyVars
<1> QED BY <1>1, <1>2, <1>3

\* A restart gives up every copy; what was delivered was so in an earlier life.
LEMMA RestartKeeps ==
  ASSUME IntentIInv, Restart
  PROVE  IntentIInv'
<1>1. /\ TypeOK /\ TypeOK' /\ restarts \in Nat /\ commands \in Nat
      /\ restarts' = restarts + 1 /\ restarts' \in 0..MaxRestarts
  <2>1. TypeOK /\ TypeOK'
    BY OtherTypes DEF IntentIInv
  <2> QED BY <2>1, IntentAssumption DEF TypeOK, Restart
<1>2. UNCHANGED <<tableVars, historyVars>> /\ current' = NoThread /\ outcome' = "none"
  BY DEF Restart
<1>3. /\ \A t \in Threads, k \in Kinds : snapshot'[t][k] = NoRow
      /\ \A c \in TurnSlots : turn'[c] = NoTurn /\ floor'[c] = NoRow /\ stage'[c] = "out"
  BY DEF Restart, NoRows
<1>4. NoNewStamp
  BY <1>2, <1>3 DEF NoNewStamp, InUse, tableVars
<1>5. CommandsStick'
  BY <1>1, <1>2, TableStays DEF tableVars, historyVars
<1>6. CopiesObey' /\ StampsDiffer'
  BY <1>2, <1>4, StampsStay DEF tableVars, historyVars
<1>7. DeliveredAreGone'
  <2>1. \A s \in Stamps, life \in 0..MaxRestarts : <<s, life>> \in accepted => s <= commands /\ life <= restarts
    BY DEF IntentIInv, DeliveredAreGone
  <2>2. \A s \in Stamps : <<s, restarts'>> \notin accepted
    BY <1>1, <2>1
  <2>3. \A s \in Stamps, life \in 0..MaxRestarts : <<s, life>> \in accepted => s <= commands /\ life <= restarts'
    BY <1>1, <2>1
  <2> QED BY <1>2, <2>2, <2>3 DEF DeliveredAreGone, tableVars, historyVars
<1>8. FinishedAreAccepted'
  BY <1>2 DEF FinishedAreAccepted
<1>9. SlotsFit'
  BY <1>3 DEF SlotsFit
<1>10. DeliveredAreTold'
  BY <1>1 DEF DeliveredAreTold
<1> QED BY <1>1, <1>5, <1>6, <1>7, <1>8, <1>9, <1>10 DEF IntentIInv
------------------------------------------------------------------------------
\* The specification.

LEMMA IntentInit ==
  Init => IntentIInv
<1> SUFFICES ASSUME Init PROVE IntentIInv
  OBVIOUS
<1>1. /\ \A t \in Threads, k \in Kinds :
           /\ rows[t][k] = NoRow /\ snapshot[t][k] = NoRow
           /\ commanded[t][k] = 0
      /\ \A c \in TurnSlots : turn[c] = NoTurn /\ floor[c] = NoRow /\ stage[c] = "out"
      /\ accepted = {} /\ outcome = "none"
  BY DEF Init, NoRows, Gate!Init
<1>2. TypeOK
  <2>1. rows \in [Threads -> [Kinds -> Row \cup {NoRow}]] /\ snapshot \in [Threads -> [Kinds -> Row \cup {NoRow}]]
    BY DEF Init, NoRows
  <2>2. turn \in [TurnSlots -> [thread : Threads \cup {NoThread}, told : SUBSET (1..MaxCommands)]]
    BY DEF Init, NoTurn
  <2>3. commands \in 0..MaxCommands /\ restarts \in 0..MaxRestarts
    BY IntentAssumption DEF Init
  <2>4. commanded \in [Threads -> [Kinds -> 0..MaxCommands]] /\ raced \in [Threads -> [Kinds -> BOOLEAN]]
    BY IntentAssumption DEF Init
  <2>5. stage \in [TurnSlots -> {"out", "queued", "running"}] /\ scope \in [TurnSlots -> Threads \cup {NoThread}] /\ open \in BOOLEAN
    BY DEF Init, Gate!Init
  <2> QED BY <2>1, <2>2, <2>3, <2>4, <2>5 DEF Init, TypeOK
<1>3. \A t \in Threads, k \in Kinds, s \in Stamps : ~InUse(s, t, k)
  BY <1>1 DEF InUse
<1>4. CommandsStick
  BY <1>1 DEF CommandsStick, CommandHolds
<1>5. CopiesObey /\ StampsDiffer
  BY <1>3 DEF CopiesObey, StampsDiffer
<1>6. DeliveredAreGone /\ FinishedAreAccepted /\ SlotsFit /\ DeliveredAreTold
  BY <1>1, <1>3 DEF DeliveredAreGone, FinishedAreAccepted, SlotsFit, DeliveredAreTold
<1> QED BY <1>2, <1>4, <1>5, <1>6 DEF IntentIInv

LEMMA IntentStep ==
  IntentIInv /\ [Next]_vars => IntentIInv'
<1> SUFFICES ASSUME IntentIInv, [Next]_vars PROVE IntentIInv'
  OBVIOUS
<1>1. ASSUME NEW t \in Threads, NEW k \in Kinds, SetIntent(t, k) \/ ClearIntent(t, k) PROVE IntentIInv'
  BY <1>1, CommandKeeps
<1>2. ASSUME NEW t \in Threads, NEW k \in Kinds, TimePasses(t, k) PROVE IntentIInv'
  BY <1>2, TimeKeeps
<1>3. CASE Runner
  <2>1. CASE ListDue \/ \E t \in Threads : TakeGroup(t)
    BY <2>1, ListKeeps
  <2>2. CASE DeliverWake
    BY <2>2, DeliverKeeps
  <2>3. ASSUME NEW k \in Kinds, FinishIntent(k) PROVE IntentIInv'
    BY <2>3, FinishKeeps
  <2> QED BY <1>3, <2>1, <2>2, <2>3 DEF Runner
<1>4. ASSUME NEW c \in TurnSlots, TurnStep(c) PROVE IntentIInv'
  <2>1. CASE Arrive(c)
    BY <2>1, ArriveKeeps
  <2>2. CASE StartTurn(c)
    BY <2>2, StartKeeps
  <2>3. CASE FailTurn(c)
    <3>1. TypeOK'
      BY <2>3, TurnTypes DEF TurnStep
    <3> QED BY <2>3, <3>1, QuietEndKeeps DEF FailTurn
  <2>4. CASE CompleteTurn(c)
    BY <2>4, CompleteKeeps
  <2>5. CASE ResetHeartbeatFloor(c)
    BY <2>5, ResetKeeps
  <2> QED BY <1>4, <2>1, <2>2, <2>3, <2>4, <2>5 DEF TurnStep
<1>5. CASE UNCHANGED vars
  <2>1. TypeOK'
    BY <1>5 DEF IntentIInv, TypeOK, vars
  <2>2. NoNewStamp
    BY <1>5 DEF NoNewStamp, InUse, vars
  <2>3. SlotsFit' /\ DeliveredAreTold'
    BY <1>5, TurnsStay DEF vars, turnVars
  <2> QED BY <1>5, <2>1, <2>2, <2>3, TurnsKeep DEF vars, runnerVars
<1> QED BY <1>1, <1>2, <1>3, <1>4, <1>5, OthersKeep, RestartKeeps DEF Next

\* The inductive invariant holds in every reachable state.
THEOREM IntentInvariant == Spec => []IntentIInv
<1>1. Init => IntentIInv
  BY IntentInit
<1>2. IntentIInv /\ [Next]_vars => IntentIInv'
  BY IntentStep
<1> QED BY <1>1, <1>2, PTL DEF Spec

\* Type correctness of the table, the runner's copies and the turns.
THEOREM IntentTypeCorrect == Spec => []TypeOK
<1>1. IntentIInv => TypeOK
  BY DEF IntentIInv
<1> QED BY <1>1, IntentInvariant, PTL

\* What the runner and ResetHeartbeatFloor write back never undoes a set or clear
\* command that met no copy of its row.
THEOREM CommandsAreKept == Spec => []CommandsStick
<1>1. IntentIInv => CommandsStick
  BY DEF IntentIInv
<1> QED BY <1>1, IntentInvariant, PTL

\* Until the first stop or crash, the row of a one-shot wake goes only once a turn
\* that tells it is on its way to the gate.
THEOREM WakesAreKept == Spec => []NoWakeIsLost
<1>1. ASSUME IntentIInv PROVE NoWakeIsLost
  <2> SUFFICES ASSUME "wake" \in Kinds, restarts = 0, open, NEW t \in Threads, ~raced[t]["wake"],
                      commanded[t]["wake"] # 0, rows[t]["wake"] = NoRow
               PROVE  \/ commanded[t]["wake"] \in begun
                      \/ \E c \in WakeTurns : commanded[t]["wake"] \in turn[c].told
    BY DEF NoWakeIsLost, WakeIsKept
  <2>1. PICK s \in Stamps : s = commanded[t]["wake"]
    BY <1>1, IntentAssumption DEF IntentIInv, TypeOK, Stamps
  <2>2. CommandHolds(t, "wake")
    BY <1>1 DEF IntentIInv, CommandsStick
  <2>3. PICK life \in 0..restarts : <<s, life>> \in accepted
    BY <2>1, <2>2 DEF CommandHolds
  <2>4. life \in 0..MaxRestarts
    BY <1>1, <2>3, IntentAssumption
  <2> QED BY <1>1, <2>1, <2>3, <2>4 DEF IntentIInv, DeliveredAreTold
<1> QED BY <1>1, IntentInvariant, PTL

\* In one life of the process no second turn is started for a one-shot wake that the
\* broker accepted.
THEOREM OneShotsOnce == Spec => OneShotsAreToldOnce
<1>1. ASSUME IntentIInv, [Next]_vars,
             NEW stamp \in 1..MaxCommands, NEW c \in WakeTurns, turn[c] = NoTurn, stamp \in turn'[c].told
      PROVE  <<stamp, restarts>> \notin accepted
  <2>1. TypeOK /\ c \in TurnSlots /\ c \notin UserTurns /\ turn[c].told = {} /\ NoTurn.told = {} /\ stage[c] = "out"
    <3>1. c \in TurnSlots /\ c \notin UserTurns
      BY IntentAssumption DEF TurnSlots
    <3> QED BY <1>1, <3>1 DEF IntentIInv, NoTurn, SlotsFit
  <2>2. CASE DeliverWake
    <3>1. /\ outcome = "none" /\ current \in Threads
          /\ turn'[c].told = {snapshot[current][k].stamp : k \in Group(current)}
      <4>1. outcome = "none" /\ current \in Threads
        BY <2>1, <2>2 DEF DeliverWake, TypeOK
      <4>2. PICK d \in WakeTurns : turn' = [turn EXCEPT ![d] =
              [thread |-> current, told |-> {snapshot[current][k].stamp : k \in Group(current)}]]
        BY <1>1, <2>1, <2>2 DEF DeliverWake
      <4>3. d = c
        BY <1>1, <2>1, <4>2 DEF TypeOK
      <4>4. turn'[c] = [thread |-> current, told |-> {snapshot[current][k].stamp : k \in Group(current)}]
        BY <2>1, <4>2, <4>3 DEF TypeOK
      <4> QED BY <4>1, <4>4
    <3>2. PICK k \in Kinds : snapshot[current][k] # NoRow /\ snapshot[current][k].stamp = stamp
      BY <1>1, <3>1 DEF Group
    <3>3. InUse(stamp, current, k) /\ stamp \in Stamps
      BY <3>1, <3>2 DEF InUse, Stamps
    <3> QED BY <1>1, <3>1, <3>3, NothingIsPending
  <2>3. CASE turn'[c] = turn[c] \/ turn'[c] = NoTurn
    BY <1>1, <2>1, <2>3
  <2>4. \A d \in TurnSlots : EndTurn(d) => turn'[c] = turn[c] \/ turn'[c] = NoTurn
    BY <2>1 DEF EndTurn, TypeOK
  <2>5. ASSUME NEW d \in TurnSlots, TurnStep(d) PROVE turn'[c] = turn[c] \/ turn'[c] = NoTurn
    BY <2>1, <2>4, <2>5 DEF TurnStep, Arrive, StartTurn, FailTurn, CompleteTurn, ResetHeartbeatFloor, TypeOK
  <2>6. ASSUME NEW d \in UserTurns, NEW t \in Threads, UserMessage(d, t) PROVE turn'[c] = turn[c]
    BY <2>1, <2>6 DEF UserMessage, TypeOK
  <2>7. ASSUME NEW k \in Kinds, FinishIntent(k) PROVE turn'[c] = turn[c]
    BY <2>7 DEF FinishIntent, turnVars
  <2>8. ASSUME NEW t \in Threads, TakeGroup(t) \/ ToggleChat(t) PROVE turn'[c] = turn[c]
    BY <2>8 DEF TakeGroup, ToggleChat, turnVars
  <2>9. ASSUME NEW t \in Threads, NEW k \in Kinds, SetIntent(t, k) \/ ClearIntent(t, k) \/ TimePasses(t, k)
        PROVE  turn'[c] = turn[c]
    BY <2>9 DEF SetIntent, ClearIntent, TimePasses, turnVars
  <2>10. CASE ListDue
    BY <2>3, <2>10 DEF ListDue, turnVars
  <2>11. ASSUME NEW force \in BOOLEAN, Shutdown(force) PROVE turn'[c] = turn[c]
    BY <2>11 DEF Shutdown
  <2>12. CASE Restart
    BY <2>1, <2>3, <2>12 DEF Restart
  <2>13. CASE UNCHANGED vars
    BY <2>3, <2>13 DEF vars
  <2> QED BY <1>1, <2>2, <2>3, <2>5, <2>6, <2>7, <2>8, <2>9, <2>10, <2>11, <2>12, <2>13 DEF Next, Runner
<1>2. IntentIInv /\ [Next]_vars =>
        [\A stamp \in 1..MaxCommands, c \in WakeTurns :
           turn[c] = NoTurn /\ stamp \in turn'[c].told => <<stamp, restarts>> \notin accepted]_vars
  BY <1>1
<1> QED BY <1>2, IntentInvariant, PTL DEF Spec, OneShotsAreToldOnce
=============================================================================
