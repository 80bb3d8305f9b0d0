---------------------------- MODULE TimedIntents ----------------------------
(***************************************************************************)
(* Timed wakes: internal/timedintent (the service and its runner), the     *)
(* timed_intents table, the heartbeat component's commands, the broker's   *)
(* wake delivery, and the turns that result.  Turns are admitted as        *)
(* TurnAdmission promises, which ThreadTurnGate implements.                *)
(*                                                                         *)
(* A row of the table has an identity (thread, kind); the third part, the  *)
(* key, is "default" for heartbeat and wake and one fixed label for cron.  *)
(* Time is abstracted to the one bit the runner reads, NextDueAt <= now.   *)
(* Every writer computes NextDueAt as a time after its own now, so a row   *)
(* is written with due = FALSE and time may set it at any later moment.    *)
(*                                                                         *)
(* The runner and TurnCompleted read rows and write them back later, with  *)
(* no transaction around the two.  "stamp" is the command that gave a row  *)
(* its schedule and label, so a lost or resurrected command is visible.    *)
(*                                                                         *)
(* No code creates intents with MaxRuns, ExpiresAt or maintenance          *)
(* delivery, so those branches of RunDue are not reachable and left out.   *)
(***************************************************************************)
EXTENDS Integers, FiniteSets

CONSTANTS
  Threads,
  Kinds,        \* kinds of intents in use, out of "cron", "heartbeat", "wake"
  WakeTurns,    \* slots for queued wake turns; bounds how many pile up
  UserTurns,    \* slots for turns that other inbound messages start
  NoThread,
  NoRow,        \* no such row
  MaxCommands,  \* bound on the set and clear commands users and agents give
  MaxRestarts   \* bound on restarts of the process

ASSUME IntentAssumption ==
  /\ Kinds \subseteq {"cron", "heartbeat", "wake"}
  /\ NoThread \notin Threads
  /\ WakeTurns \cap UserTurns = {}
  /\ MaxCommands \in Nat /\ MaxRestarts \in Nat
  /\ NoRow \notin [id : 1..MaxCommands, stamp : 1..MaxCommands, due : BOOLEAN]

VARIABLES
  rows,       \* the table: [Threads -> [Kinds -> row or NoRow]]
  enabled,    \* threads whose chat is enabled
  commands,   \* how many commands were given; their stamps
  restarts,
  snapshot,   \* rows the runner read by ListDue and has not finished with
  current,    \* the thread whose group RunDue is at, or NoThread
  outcome,    \* of DeliverWake for current: "none", "accepted", "failed"
  turn,       \* per slot: the thread a turn is for (NoThread: no turn) and the rows it tells
  floor,      \* per slot: the heartbeat row ResetHeartbeatFloor read
  stage, scope, open,   \* turn admission
  commanded,  \* history: stamp of the last set command, 0 after a clear
  raced,      \* history: whether that command met an unfinished snapshot
  accepted,   \* history: one-shot wakes the broker accepted, as <<stamp, restarts>>
  begun       \* history: stamps told by turns that started

tableVars == <<rows, enabled, commands>>
runnerVars == <<snapshot, current, outcome>>
turnVars == <<turn, floor, stage, scope, open>>
historyVars == <<commanded, raced, accepted, begun>>
vars == <<rows, enabled, commands, restarts, snapshot, current, outcome,
          turn, floor, stage, scope, open, commanded, raced, accepted, begun>>

TurnSlots == WakeTurns \cup UserTurns
Gate == INSTANCE TurnAdmission WITH Callers <- TurnSlots

NoTurn == [thread |-> NoThread, told |-> {}]
NoRows == [t \in Threads |-> [k \in Kinds |-> NoRow]]
Running(t) == \E c \in TurnSlots : stage[c] = "running" /\ scope[c] = t

Init ==
  /\ rows = NoRows
  /\ enabled = Threads
  /\ commands = 0
  /\ restarts = 0
  /\ snapshot = NoRows
  /\ current = NoThread
  /\ outcome = "none"
  /\ turn = [c \in TurnSlots |-> NoTurn]
  /\ floor = [c \in TurnSlots |-> NoRow]
  /\ Gate!Init
  /\ commanded = [t \in Threads |-> [k \in Kinds |-> 0]]
  /\ raced = [t \in Threads |-> [k \in Kinds |-> FALSE]]
  /\ accepted = {}
  /\ begun = {}
------------------------------------------------------------------------------
\* The table.

\* Save(row): update by primary key; a key that is gone is inserted again, and
\* an insert that meets another row of the same identity fails.
Save(t, k, row) ==
  rows' = [rows EXCEPT ![t][k] = IF @ = NoRow \/ @.id = row.id THEN row ELSE @]

DeleteByTargetKindKey(t, k) == rows' = [rows EXCEPT ![t][k] = NoRow]

\* A row of this identity keeps its primary key.
UpsertByTargetKindKey(t, k, stamp) ==
  rows' = [rows EXCEPT ![t][k] =
             [id |-> IF @ = NoRow THEN stamp ELSE @.id, stamp |-> stamp, due |-> FALSE]]

\* A reader still holds a copy of this row that it may write back.
CopyHeld(t, k) ==
  \/ snapshot[t][k] # NoRow
  \/ k = "heartbeat" /\ \E c \in TurnSlots : scope[c] = t /\ floor[c] # NoRow

Note(t, k, stamp) ==
  /\ commands' = commands + 1
  /\ commanded' = [commanded EXCEPT ![t][k] = stamp]
  /\ raced' = [raced EXCEPT ![t][k] = CopyHeld(t, k)]
------------------------------------------------------------------------------
\* Commands, given in messages (outside the turn gate) or by a running agent.

\* StartHeartbeat, StartCronHeartbeat, ScheduleWakeOnce and ScheduleWakeCron.
SetIntent(t, k) ==
  /\ commands < MaxCommands
  /\ UpsertByTargetKindKey(t, k, commands + 1)
  /\ Note(t, k, commands + 1)
  /\ UNCHANGED <<enabled, restarts, runnerVars, turnVars, accepted, begun>>

\* StopHeartbeat, ClearWakeOnce, ClearScheduledWake and ClearAllScheduledWakes.
ClearIntent(t, k) ==
  /\ commands < MaxCommands
  /\ rows[t][k] # NoRow
  /\ DeleteByTargetKindKey(t, k)
  /\ Note(t, k, 0)
  /\ UNCHANGED <<enabled, restarts, runnerVars, turnVars, accepted, begun>>

\* An operator disables or enables the chat a thread belongs to.
ToggleChat(t) ==
  /\ enabled' = IF t \in enabled THEN enabled \ {t} ELSE enabled \cup {t}
  /\ UNCHANGED <<rows, commands, restarts, runnerVars, turnVars, historyVars>>

\* NextDueAt passes.
TimePasses(t, k) ==
  /\ rows[t][k] # NoRow /\ ~rows[t][k].due
  /\ rows' = [rows EXCEPT ![t][k].due = TRUE]
  /\ UNCHANGED <<enabled, commands, restarts, runnerVars, turnVars, historyVars>>
------------------------------------------------------------------------------
\* The runner: one goroutine that calls RunDue on every tick.

Group(t) == {k \in Kinds : snapshot[t][k] # NoRow}

Due(t, k) == rows[t][k] # NoRow /\ rows[t][k].due

ListDue ==
  /\ snapshot = NoRows /\ current = NoThread
  /\ \E t \in Threads, k \in Kinds : Due(t, k)
  /\ snapshot' = [t \in Threads |-> [k \in Kinds |-> IF Due(t, k) THEN rows[t][k] ELSE NoRow]]
  /\ UNCHANGED <<tableVars, restarts, current, outcome, turnVars, historyVars>>

\* RunDue takes the next group; groups come from a map, in no fixed order.  A
\* thread with a running turn is skipped, and its rows stay due.
TakeGroup(t) ==
  /\ current = NoThread /\ Group(t) # {}
  /\ IF Running(t)
       THEN snapshot' = [snapshot EXCEPT ![t] = NoRows[t]] /\ UNCHANGED current
       ELSE current' = t /\ UNCHANGED snapshot
  /\ UNCHANGED <<tableVars, restarts, outcome, turnVars, historyVars>>

\* composeWakeText and Broker.DeliverWake: a disabled chat is an error;
\* otherwise a goroutine is started for one turn that tells the whole group,
\* and the wake counts as delivered before that goroutine reaches the gate.
DeliverWake ==
  /\ current # NoThread /\ outcome = "none"
  /\ IF current \in enabled
       THEN /\ \E c \in WakeTurns :
                 /\ turn[c] = NoTurn
                 /\ turn' = [turn EXCEPT ![c] =
                      [thread |-> current, told |-> {snapshot[current][k].stamp : k \in Group(current)}]]
            /\ accepted' = accepted \cup
                 {<<snapshot[current][k].stamp, restarts>> : k \in Group(current) \cap {"wake"}}
            /\ outcome' = "accepted"
       ELSE outcome' = "failed" /\ UNCHANGED <<turn, accepted>>
  /\ UNCHANGED <<tableVars, restarts, snapshot, current, floor, stage, scope, open, commanded, raced, begun>>

\* Faulty variants of what follows: a one-shot wake that recurs, recurring
\* intents that are deleted, a failed delivery that counts as one, and the
\* outcome of one group that leaks into the next.
FinishKeepingOneShot(t, k, row) == Save(t, k, [row EXCEPT !.due = FALSE])
FinishDeleting(t, k, row) == DeleteByTargetKindKey(t, k)
FinishFailedAsDelivered(t, k, row) ==
  IF k = "wake" THEN DeleteByTargetKindKey(t, k) ELSE Save(t, k, [row EXCEPT !.due = FALSE])
NextGroupKeepingOutcome == current' = NoThread /\ UNCHANGED outcome

\* What finishIntent writes after a delivery: a recurring intent steps from
\* the time of delivery, a one-shot wake is deleted by its identity.
FinishDelivered(t, k, row) ==
  IF k = "wake"
    THEN DeleteByTargetKindKey(t, k)
    ELSE Save(t, k, [row EXCEPT !.due = FALSE])

\* A failed delivery leaves NextDueAt as it was and saves only the error.
FinishFailed(t, k, row) == Save(t, k, row)

NextGroup == current' = NoThread /\ outcome' = "none"

\* Groups are sorted by kind.
NextInGroup(t, k) == \A j \in Group(t) : j = k \/ <<k, j>> \in
  {<<"cron", "heartbeat">>, <<"cron", "wake">>, <<"heartbeat", "wake">>}

FinishIntent(k) ==
  /\ current # NoThread /\ outcome # "none"
  /\ k \in Group(current) /\ NextInGroup(current, k)
  /\ LET row == snapshot[current][k] IN
       IF outcome = "accepted" THEN FinishDelivered(current, k, row) ELSE FinishFailed(current, k, row)
  /\ snapshot' = [snapshot EXCEPT ![current][k] = NoRow]
  /\ IF Group(current) = {k}
       THEN NextGroup
       ELSE UNCHANGED <<current, outcome>>
  /\ UNCHANGED <<enabled, commands, restarts, turnVars, historyVars>>
------------------------------------------------------------------------------
\* Turns.

\* Another inbound message starts a turn.
UserMessage(c, t) ==
  /\ turn[c] = NoTurn
  /\ turn' = [turn EXCEPT ![c] = [thread |-> t, told |-> {}]]
  /\ UNCHANGED <<tableVars, restarts, runnerVars, floor, stage, scope, open, historyVars>>

\* The goroutine reaches the gate, which queues it or, once closed, refuses it
\* (the error is logged).
Arrive(c) ==
  /\ turn[c] # NoTurn /\ stage[c] = "out"
  /\ IF open
       THEN Gate!Queue(c, turn[c].thread) /\ UNCHANGED turn
       ELSE turn' = [turn EXCEPT ![c] = NoTurn] /\ UNCHANGED <<stage, scope, open>>
  /\ UNCHANGED <<tableVars, restarts, runnerVars, floor, historyVars>>

StartTurn(c) ==
  /\ Gate!Start(c)
  /\ begun' = begun \cup turn[c].told
  /\ UNCHANGED <<tableVars, restarts, runnerVars, turn, floor, commanded, raced, accepted>>

EndTurn(c) ==
  /\ Gate!Depart(c)
  /\ turn' = [turn EXCEPT ![c] = NoTurn]
  /\ floor' = [floor EXCEPT ![c] = NoRow]

\* A failed turn ends without a TurnCompleted call.
FailTurn(c) ==
  /\ stage[c] = "running" /\ floor[c] = NoRow
  /\ EndTurn(c)
  /\ UNCHANGED <<tableVars, restarts, runnerVars, historyVars>>

\* A successful turn calls TurnCompleted while it still holds the gate:
\* ResetHeartbeatFloor reads the heartbeat row ...
CompleteTurn(c) ==
  /\ stage[c] = "running" /\ floor[c] = NoRow
  /\ LET heartbeat == IF "heartbeat" \in Kinds THEN rows[scope[c]]["heartbeat"] ELSE NoRow IN
       IF heartbeat = NoRow
         THEN EndTurn(c)
         ELSE floor' = [floor EXCEPT ![c] = heartbeat] /\ UNCHANGED <<turn, stage, scope, open>>
  /\ UNCHANGED <<tableVars, restarts, runnerVars, historyVars>>

\* ... and saves the copy with a later NextDueAt.
ResetHeartbeatFloor(c) ==
  /\ stage[c] = "running" /\ floor[c] # NoRow
  /\ Save(scope[c], "heartbeat", [floor[c] EXCEPT !.due = FALSE])
  /\ EndTurn(c)
  /\ UNCHANGED <<enabled, commands, restarts, runnerVars, historyVars>>
------------------------------------------------------------------------------
\* The process.

Shutdown(force) ==
  /\ restarts < MaxRestarts
  /\ Gate!Close(force)
  /\ UNCHANGED <<tableVars, restarts, runnerVars, turn, floor, historyVars>>

\* A crash, or the exit after Shutdown, and a new start: only the table stays.
Restart ==
  /\ restarts < MaxRestarts
  /\ restarts' = restarts + 1
  /\ snapshot' = NoRows /\ current' = NoThread /\ outcome' = "none"
  /\ turn' = [c \in TurnSlots |-> NoTurn]
  /\ floor' = [c \in TurnSlots |-> NoRow]
  /\ stage' = [c \in TurnSlots |-> "out"]
  /\ scope' = [c \in TurnSlots |-> NoThread]
  /\ open' = TRUE
  /\ UNCHANGED <<tableVars, historyVars>>

Runner ==
  \/ ListDue
  \/ \E t \in Threads : TakeGroup(t)
  \/ DeliverWake
  \/ \E k \in Kinds : FinishIntent(k)

TurnStep(c) ==
  \/ Arrive(c)
  \/ StartTurn(c)
  \/ FailTurn(c)
  \/ CompleteTurn(c)
  \/ ResetHeartbeatFloor(c)

Next ==
  \/ \E t \in Threads, k \in Kinds : SetIntent(t, k) \/ ClearIntent(t, k) \/ TimePasses(t, k)
  \/ \E t \in Threads : ToggleChat(t)
  \/ Runner
  \/ \E c \in UserTurns, t \in Threads : UserMessage(c, t)
  \/ \E c \in TurnSlots : TurnStep(c)
  \/ \E force \in BOOLEAN : Shutdown(force)
  \/ Restart

Spec == Init /\ [][Next]_vars

\* The runner keeps ticking, time passes, an admitted turn ends, and the gate
\* is starvation-free (ThreadTurnGate, WaitersSettle).  Users, operators and
\* crashes owe nothing; a process that is told to stop is started again.
FairSpec ==
  /\ Spec
  /\ WF_vars(Runner)
  /\ \A t \in Threads, k \in Kinds : WF_vars(TimePasses(t, k))
  /\ \A c \in TurnSlots :
       /\ WF_vars(Arrive(c))
       /\ SF_vars(StartTurn(c))
       /\ WF_vars(FailTurn(c) \/ CompleteTurn(c) \/ ResetHeartbeatFloor(c))
  /\ WF_vars(~open /\ Restart)
------------------------------------------------------------------------------
Row == [id : 1..MaxCommands, stamp : 1..MaxCommands, due : BOOLEAN]

TypeOK ==
  /\ rows \in [Threads -> [Kinds -> Row \cup {NoRow}]]
  /\ enabled \in SUBSET Threads
  /\ commands \in 0..MaxCommands
  /\ restarts \in 0..MaxRestarts
  /\ snapshot \in [Threads -> [Kinds -> Row \cup {NoRow}]]
  /\ current \in Threads \cup {NoThread}
  /\ outcome \in {"none", "accepted", "failed"}
  /\ turn \in [TurnSlots -> [thread : Threads \cup {NoThread}, told : SUBSET (1..MaxCommands)]]
  /\ floor \in [TurnSlots -> Row \cup {NoRow}]
  /\ stage \in [TurnSlots -> {"out", "queued", "running"}]
  /\ scope \in [TurnSlots -> Threads \cup {NoThread}]
  /\ open \in BOOLEAN
  /\ commanded \in [Threads -> [Kinds -> 0..MaxCommands]]
  /\ raced \in [Threads -> [Kinds -> BOOLEAN]]
  /\ accepted \in SUBSET ((1..MaxCommands) \X (0..MaxRestarts))
  /\ begun \in SUBSET (1..MaxCommands)

\* The table agrees with the last command: a set intent is there with that
\* command's schedule unless it was a one-shot wake the broker accepted, and a
\* cleared intent is gone.
CommandHolds(t, k) ==
  IF commanded[t][k] = 0
    THEN rows[t][k] = NoRow
    ELSE IF rows[t][k] = NoRow
           THEN k = "wake" /\ \E life \in 0..restarts : <<commanded[t][k], life>> \in accepted
           ELSE rows[t][k].stamp = commanded[t][k]

\* A command given while nobody holds a copy of its row is never undone by
\* the runner's or a turn's later writes, over deliveries and restarts.
CommandsStick == \A t \in Threads, k \in Kinds : ~raced[t][k] => CommandHolds(t, k)

\* "heartbeat stop deletes or disables the row", "last write wins": what the
\* design promises of every command, also one that races a delivery.
LastCommandWins == \A t \in Threads, k \in Kinds : CommandHolds(t, k)

\* In one life of the process a one-shot wake is delivered at most once; a
\* second turn for it can only follow a restart before its row was deleted.
OneShotsAreToldOnce ==
  [][\A stamp \in 1..MaxCommands, c \in WakeTurns :
       turn[c] = NoTurn /\ stamp \in turn'[c].told => <<stamp, restarts>> \notin accepted]_vars

\* The one-shot wake a thread set last is in the table, or in a turn.
WakeIsKept(t) ==
  commanded[t]["wake"] # 0 =>
    \/ rows[t]["wake"] # NoRow
    \/ commanded[t]["wake"] \in begun
    \/ \E c \in WakeTurns : commanded[t]["wake"] \in turn[c].told

\* Until the process stops taking turns, no one-shot wake is lost: its row
\* goes only once the turn that tells it is on its way to the gate.
NoWakeIsLost ==
  "wake" \in Kinds /\ restarts = 0 /\ open => \A t \in Threads : ~raced[t]["wake"] => WakeIsKept(t)

\* "Durable means wake intents survive ctgbot restarts"
\* (docs/wakeup-architecture.md), "deliver-then-advance with at-least-once
\* semantics" (docs/timed-intents.md): the same, over a stop or a crash.
WakesSurviveRestarts == \A t \in Threads : ~raced[t]["wake"] => WakeIsKept(t)

\* Idle floor: a thread whose heartbeat stays set and whose chat stays enabled
\* is attended by a turn again and again.
IdleFloor ==
  \A t \in Threads :
    <>[](rows[t]["heartbeat"] # NoRow /\ t \in enabled) => []<>Running(t)

==============================================================================
