# A TLA+ model of ctgbot

ctgbot connects chats (Telegram, mail, a terminal) with coding agents that run in
sandboxes. It is one long-lived Go process with a SQLite database, many goroutines,
a few external processes per turn, and an HTTP "hostbridge" over which sandboxed
agents run commands on the host. This directory holds TLA+ specifications of the
parts of it whose correctness depends on the order in which things happen, TLC
configurations that check them, and TLAPS proofs of what every one of them promises
at any time.

Every definition is a translation of Go code; `PROJECT.json` ("map") names the lines
each one stands for. All paths below are relative to the repository (`src/`).

## 1. The system

### How a message becomes a turn

    component runtime (telegram, gmailv2, outlook, ...)   timed intents, scheduled jobs
            | InboundEvent                                    | wake text
            v                                                 v
    broker: admit -> filter -> thread mapping -> command? ---------------+
            |    (else dropped)                  yes: run, outside gate  |
            v no                                                         |
    turn gate (one turn per thread) -> store message -> agent -> sandbox container
            |                                             |-> tool loop, model server
            |                      hostbridge: commands on the host, sends, wakes
            v
    store output -> relay to the thread's other components -> TurnCompleted

### Inventory

| Component (source) | State | Operations | Hard | Correct means |
|---|---|---|---|---|
| turn gate (`internal/broker/thread_turn_gate.go`) | map of reference-counted one-token channels; `closing` | `Run`, `Acquire`/release, `Busy`, `BeginShutdown` | token and reference count change under different protection; entries are deleted and recreated while callers hold pointers | one turn per thread, no leak, an idle shutdown is final |
| timed intents (`internal/timedintent`, `internal/broker/wakeup.go`, `internal/component/heartbeat`) | table rows by (thread, kind, key); the runner's copy | set/clear commands, `RunDue`, `DeliverWake`, `TurnCompleted` | rows are read, then written back after a delivery, with no transaction; delivery is a goroutine; restarts | undisturbed commands hold, a wake is told once per life of the process, an idle thread is woken |
| scheduled jobs (`internal/scheduler`, `internal/schedule`) | job rows; the list of a tick | `RunDue`, `PrepareJob`, `FinishJob`, add, remove | a row is saved back after a long run | undisturbed commands hold, a slot runs once, a failing job does not hold up others for ever |
| admission (`internal/app`, `internal/inbound`, `internal/broker`) | channels, drop records, dropped events | `HandleInbound`, `AllowDropped`, `chat bind`, chat components | records are read, counted and written back; replay beside new messages | what is not let in can be found again, and is counted |
| thread mapping, messaging (`internal/threadmapping`, `internal/messaging`) | threads, (chat, component, topic) mappings | `EnsureThread`, bind, purge | look up, then create, without a transaction; purges meet running turns | one thread per topic; a session purged at rest stays purged |
| broker turn (`internal/broker`, `internal/component/codex`) | stored messages, mapped sessions | store, run, send, finalize, relay, report | separate steps; purge, failed relay, shutdown in between | a turn's entries stay together and its user is told one thing |
| sandbox of an agent (`internal/component/codex`, `agentcommon`, `internal/sandboxengine`, `internal/runtime/docker`) | container, lock, message file, interrupt mark, `keep_running` | `HandleTurn`, start, stop, refresh, purge, interrupt | the lock is let go between the steps of a turn; settings and marks are read before they are used | an answer is of its own turn, silence has a cause, the container stops |
| tool loop (`internal/toolloop`) | iterations, exec sessions, output buffers | start, poll, write, stop, cleanup | processes write and end between read and look; process groups | output is shown once or counted; a turn ends |
| patch tool (`cmd/apply_patch`) | the files of the agent | add, delete, update, move | chunks are placed in one version of a file and applied to another; several files, nothing undone | other lines stay; a failure leaves a prefix of the patch |
| model server (`internal/component/llamacpp`, `internal/workgate`, `internal/runtime/backend`) | sessions in use, idle timer, child process, lane | begin, request, release, start, stop, close | stop is decided under a mutex and done outside it | sessions have their server; nothing is left running |
| hostbridge execution queue (`internal/hostbridge/server/execution_queue.go`) | per key `active` and a list of waiters | `Acquire`, release, `Close`, cancellation | the permit is in flight while the waiter gives up or the queue closes | mutual exclusion per key, order of arrival, no lost permit |
| Gmail v2 (`internal/component/gmailv2`) | history cursor, `state.json`, message store | poll loop, `fetch` command | store, emit and cursor are three writes; pages; limits; crashes | every mail is read, none twice |
| Outlook (`internal/component/outlook`) | `state.json` with seen ids | poll loop, `auth`, bind | the file is rewritten in place, by two writers, and keeps a limited number of ids | no mail counts as seen unread, none is emitted twice without a cause |
| Telegram input (`internal/component/telegram`) | pending batches by sender, timers | `HandleUpdate`, timer callback, flush at shutdown | fired timers cannot be stopped; hand-over outside the mutex | every update reaches the broker once |
| hostbridge v2 (`internal/hostbridge`) | invocations, artifacts | invoke, stream, cancel, upload | connection loss in the middle | an execution ends when its caller goes |
| process control (`internal/app`, `cmd`) | PID files, gate | start, stop, restart, quit | quit against running turns | no turn is cut off by a polite quit |
| index and search, filters, theater, rendering, command surface, wiring | mostly none of their own | queries, pure functions | I/O | see `PROJECT.json` for each |

`PROJECT.json` lists every component with the reason why it is modelled, partly
modelled or not, and the hazards of the code line by line with the properties that
cover them.

## 2. The modules

| Module | Kind | Models |
|---|---|---|
| `TurnAdmission` | abstract | what the broker is promised by its gate |
| `ThreadTurnGate` | detailed | the gate; implements `TurnAdmission` |
| `TimedIntents` | composition | service, runner, table, commands, wake delivery, turns (through `TurnAdmission`), shutdown and restart |
| `ScheduledJobs` | detailed | tick, job add and remove, slots of both kinds of schedule, table, restarts |
| `Inbound` | detailed | admission, filters, drop records, dropped events and their replay, channel commands |
| `ThreadMapping` | detailed | how a topic gets its thread: look-up, fallback, creation, bind command, unique indexes |
| `Conversations` | composition | turns from the gate (through `TurnAdmission`) to the answer, agent sessions, purges, shutdown |
| `AgentSandbox` | composition | turns and commands about one container: its lock, runtime, message file, interrupt, setting |
| `ExecSessions` | detailed | one turn of the tool loop and the shell sessions of it |
| `ApplyPatch` | detailed, algorithm | the patch tool: placement of chunks, edits, operations and their failures |
| `InferenceServer` | composition | sessions, idle timers, commands, lane, child process and the end of the run |
| `FifoLine` | abstract | one line per key in order of arrival |
| `AliasExecutionQueue` | detailed | the hostbridge queue; implements `FifoLine` |
| `GmailPoll` | detailed | the poll loop, the mailbox, the store, commands, crashes |
| `OutlookPoll` | detailed | the poll loop, the folder, the state file, commands, crashes |
| `TelegramDebouncer` | detailed | handlers, timers and shutdown of the debouncer |
| `ThreadTurnGate_proofs`, `TimedIntents_proofs` | proofs | the safety of these modules, and that the gate implements `TurnAdmission` |
| `Turns_proofs` | proofs | `Conversations` and `AgentSandbox`: turns and what they run in |
| `Messages_proofs` | proofs | `ThreadMapping` and `Inbound`: a message before its turn |
| `Services_proofs` | proofs | `ScheduledJobs` and `ExecSessions`: work beside the chats |
| `ApplyPatch_proofs` | proofs | `ApplyPatch`: its operations, and the algorithm that places and writes chunks |
| `Servers_proofs` | proofs | `InferenceServer` and `AliasExecutionQueue`: servers others wait for; that the queue implements `FifoLine` |
| `Sources_proofs` | proofs | `GmailPoll`, `OutlookPoll`, `TelegramDebouncer`: where messages come from |
| `MC*` | instances | the finite sets TLC checks the modules with |

Several instances hold two or three modules side by side: `MCServices` (scheduled jobs,
tool loop, patch tool), `MCSources` (Gmail, Outlook, Telegram), `MCServers` (inference server,
hostbridge queue), `MCThreadMapping` (mapping, admission) and `MCConversations` (turns,
sandbox). Those modules share no state, so interleaving them would only multiply states:
`part` is chosen once, at the start, and a behaviour exercises one module. Every
module's names are its own (`jobRows`, `execStage`, `mailVars`) for that reason.
Modules that do meet in the code are composed by what one promises the other: turns by
`TurnAdmission` in `TimedIntents` and `Conversations`.

Definitions whose comment calls them *faulty variants* are not part of any
specification. Each is an operation with one plausible bug (a dropped check, a missing
reset, another order), and `PROJECT.json` ("mutants") pairs it with a property that
fails once it replaces the real operation: the evidence that the property can fail.

### ThreadTurnGate

State is that of the Go structure: `gates` is the map, `refs` and `sem` the fields of
each semaphore object, `closing` the flag, and per goroutine its program counter, its
`threadID` argument and its local pointer. Semaphore objects are heap cells; a new one
may be any cell nothing refers to, which is what the garbage collector guarantees. An
action is one section under `g.mu` (`Retain`, `Release`, `BeginShutdown`) or one channel
operation (`Enter`, `Drain`), or the other branch of the select (`Abandon`). `Run` calls
these in order and adds nothing. A context may be done at any point (`CancelContext`).

### TimedIntents

A row is `[id, stamp, due]`: its primary key, the command that gave it its schedule,
and whether `NextDueAt <= now`. Time appears only as that bit, because every writer
computes `NextDueAt` as something later than its own now and the runner only asks
whether it has passed. `ListDue`, `TakeGroup`, `DeliverWake` and `FinishIntent` are the
steps of `RunDue`; between them commands, turns, time and crashes come in.
`ResetHeartbeatFloor` is split at its read and its write for the same reason. `Save` is
gorm's save by primary key: a row deleted meanwhile is inserted again, and an insert
that meets another row of the same identity fails. Turns use the actions of
`TurnAdmission` instead of the gate's, so this module is checked against what the gate
promises and not its mechanism.

### ScheduledJobs

Time is a number (`jobNow`), since what matters is which slot comes next: `first + k *
every` for intervals, multiples of `CronPeriod` for cron. A tick lists the due rows once
(`ListDueJobs`), then takes them one by one (`RunJob`, `FinishJob`); a command that
runs may take any time. `FinishJob` writes back the row *as it was listed*, with the next
slot in it, by primary key. `job add` reads the id of the row it replaces and saves in a
second step (`AddJob`, `AddedJob`), so two of them, a removal or a tick come in between.
`FinishFails` ends the tick, as the code returns from its loop. A row's `stamp` names the
command that wrote its schedule; `jobRaced` are the names whose last command met a
listed copy, `jobLost` the schedules one of whose runs was not saved.

### Inbound

A call of `handleInbound` goes from stage to stage: admission by channel, the record of
an unknown channel (`LookForDrop`, `AdoptDrop`, `SaveDrop`: look, read again, save), the
filters, the dropped event, the turn. A replay (`AllowDropped`) is such a call with a row
to update at its end. The operator binds channels and changes their chats; rows expire;
a call may fail or the process stop. What a filter says is a choice. The answer to a
rejected sender and to `/init` are messages and left out.

### ThreadMapping

`mapping` is the table of `ThreadComponentMapping` for one chat: that a thread has one
topic per component is its shape (the first unique index), that a topic has one thread
is not - the second unique index only makes a save fail (`Unique`). Inbound calls and
bind commands are writers that look (`EnsureThread`, `BeginBind`, `CheckComponent`),
look again for the row whose id they will save (`FindRow`) and save (`Save`), with
anything of the others in between; a call also saves a new thread (`ChooseThread`),
which stays behind if its mapping fails. `contested` records topics for whose mapping
two writers contend - a bind command that races a call, or the fallback to a visible
thread that a bind command has given another topic of the same component. There the
code overwrites the row without an error, and the properties except those topics.

### Conversations

Per thread the session mapped to the agent and the stored messages; per call where
`HandleResolvedInbound` is. Each step is what happens up to the next point where
another goroutine can see the difference: storing, reading the session, sending,
mapping the session, finalizing, reporting. `PurgeThread` is one transaction;
`AgentPurge` removes the mapping alone. `Relays` and `RelayFails` are the two results
of relaying. The histories record what the user was sent (`replies`), which turns met
a purge or a failed relay (`disturbed`), and which sessions were purged, at rest
(`forgotten`) or during their run (`overrun`).

### AgentSandbox

A turn of the Codex component makes several calls, each of which takes the lock of the
sandbox, makes sure that the container runs, and lets the lock go: bootstrap, run, read
the message. Only the run is an interval; the agent in it (`agents`) is a process of
its own that outlives its turn when the turn's context ends (`AgentCutOff`). Commands
do not pass the turn gate: they stop, start, remove or interrupt between any two steps,
then write `keep_running`, which a turn has read when it began (`keepCopy`). `prepared`
says whether `bootstrap.sh` has run since the container was started. A start command asks
Docker for the state of its container before it writes the setting (`InspectStatus`), and
is over if that, the preparation or the write fails; a start that fails may have started
the container.

### ExecSessions

The loop is one goroutine (`execStage`) and asks the model, runs the calls of its
answer, yields for a session, polls, writes, stops, cleans up. Beside it run the
processes. `processes` says what is alive of a command: the command itself ("leader"),
others of its process group that hold its output ("group") or have closed it ("quiet"),
which a kill reaches, and processes that left the group and hold the output ("outside"),
which it does not reach. `CloseDone` is the goroutine that waits for all that hold the
output, and so not for the quiet ones: they outlive a turn whose session ended by itself,
for only `Kill` would end them (`killed`). Output is counted in
chunks; `shown`, `omitted` and what the buffer holds must add up to what was `written`.

### ApplyPatch

The tool agents edit files with, one action per operation of a patch and outcome, a move
in its two calls. `Seek`, `PlaceChunk`, `SortEdits` and `ApplyEdits` are the functions of
`patch.go` on lines that differ in words and blanks; `Rewritten` is the reference they
are compared with, one pass from the first line to the last. Any write may fail before
or after the file is truncated. The patch comes parsed.

### InferenceServer

`manager` is what the component keeps under `runtimeMu`: the number of sessions in use,
whether the server is the component's own (`auto`), and the idle timer. `process` and
`starter` are the child and the mutex of the native backend, which is held while a start
waits for the server to be ready. A stop is decided under `runtimeMu` and carried out
after it (`stopping`). `closing` is the close of all servers at the end of a run. A
request waits in the lane of its model (`internal/workgate`). `owner` and `cutOff` record
who minds the server, and which sessions met a stop, exit, command or end of run.

### AliasExecutionQueue

One action per section under the mutex and per outcome of the select. `result` is what
the waiter's channel of capacity one holds. A caller that abandons first leaves the
select and only then takes the mutex (`abandoning`), so a grant or `Close` can come in
between; and a caller that received its grant may still find the queue closed. A command
its timeout has killed may leave the lane taken (`lingering`), for as long as something
it started holds its output; waiters behind it are the exception of `WaitersAreServed`.

### GmailPoll

Mail is numbered by history id, so the cursor, a page and the mailbox are numbers. The
actions follow `pollOnce` from API call to API call: list a page, look at a mail, read
it, save it, emit it, end the page, save the cursor. Any call may fail, a process may
crash anywhere, mail arrives and disappears, agents fetch mail by command. `excused`
records the reasons for which mail is rightly never emitted.

### OutlookPoll

The loop lists the newest mail of the folder, up to a limit, and emits what is not in
`state.json`; each mail emitted is added to what the poll knows (`seen`), which is saved
at its end. `auth` and a bind (`Binders`) load the file and save it again (`bindCopy`).
Nothing locks the file, and `os.WriteFile` empties it before it writes: a save is two
steps (`OpenPoll` and `SavePoll`, `BindOpens` and `BindSaves`), and what the text is in
between or afterwards is `fileText`: "whole", "empty", or "mixed" from two writes that met
or from a write that failed or was cut off. A file that is not whole counts as none:
what a poll lists then is old, and a command writes back an empty list. Of two writes that
met the text may also be that of the last. Left out are mixtures that parse and are neither
of the two texts. The file keeps `SeenCap` ids, any of them.

### TelegramDebouncer

Updates are numbered in Telegram's order. `pending` holds texts by sender, `timer` the
timer each text armed, `generation` the generation its callback captured, and `outbox`
what each goroutine has taken out under the mutex and not yet handed to `Next`. `StopRun` is
the return of the API's Run with its flush. `Exit` is the end of the process, which may come
at any time: `Broker.Run` returns when its context is done and waits for no source, so
neither for the flush nor for handlers and timers that are still on their way.

## 3. What is checked

| Run | Instance | Shows |
|---|---|---|
| `gate` | 3 callers, 2 threads, 3 cells | one turn per thread, entries exactly while used, `Busy` exact, an idle shutdown final, waiters settle, implements `TurnAdmission` |
| `timed_intents` | 1 thread, 2 kinds, 2 wake slots, 1 user slot, 2 commands, 1 restart | undisturbed commands hold for ever, no accepted wake is lost while the process takes turns, a one-shot is told once per life, idle threads are woken |
| `last_command_wins` | as above | **violated**: a command that races a delivery or a `TurnCompleted` can be undone |
| `wakes_survive_restarts` | as above | **violated**: a one-shot wake is deleted before its turn begins; a stop in between loses it |
| `services` | 2 jobs (cron, every 2), 2 additions, 2 commands, 1 failed save, 1 restart, clock to 4; 2 commands of a turn, 1 chunk of buffer, 2 chunks each, 2 iterations of 1 call; patches of 2 chunks in a file of up to 3 lines, and of 2 operations on 2 files | schedules stick, a slot runs once, due jobs are run; output is shown in order or counted, a turn ends and leaves nothing of a group it has killed; a patch is applied up to what fails, and keeps the lines its chunks do not name |
| `thread_mapping` | 3 calls, 1 bind command, 4 topics of 2 components; 2 messages, 1 replay, 2 channel commands, 1 error or stop | messages of a topic share a thread, and a call that ends has found its thread or leaves a topic that is mapped; a message that is not let in can be found again, and drops are counted |
| `conversations` | 3 messages, 2 threads, 1 purge, 1 failed relay, shutdown; 2 turns and 2 commands about one container, 1 fault | what turns store does not mix, an undisturbed turn says one thing, a session purged at rest is not resumed; answers are of their own turn, silence has a cause, the container stops |
| `sandbox_bootstrap` | as above, no fault | **violated**: a container a thread command has started stays without its bootstrap |
| `servers` | 3 sessions (1 stops at once, 2 idle), lane of 1, 1 command, 1 fault; 4 callers on 2 keys | sessions keep their server, a closed run leaves none, a user's server stays, an unused one stops; order of arrival and service of everybody in the queue |
| `sources` | 5 mails in one page, 1 emitted per poll, 2 failures; 3 mails, a list of 1, 2 ids kept, 2 faults, 1 bind; 3 senders in 2 chat threads, 3 updates, 2 workers | every mail is read, none passed over or emitted twice; none counts as seen unread; updates are in one place, and delivered unless the process exits first |
| `gmail_pages` | smaller pages than mail | **violated**: the cursor takes the mailbox's newest id after each page, and a limit or failure at the page after it skips mail |
| `telegram_order` | 3 updates, 1 worker | **violated**: a command can overtake text that a timer has taken and not yet handed on |

The types of all detailed modules are theorems (section 4), and hold on the instances
above (add, say, `QueueTypeOK` to the INVARIANTS); the runs keep to what says more.

**Bounds.** Every bound is a CONSTANT whose name begins with `Max`, or `JobHorizon`.

- *Gate*: three callers are enough for every pattern of its entries: one that leaves, one
  that holds, one that comes with a new object.
- *Timed intents*: two commands give every pair set/set, set/clear and clear/set against
  one delivery; one restart gives a life before and after; two wake slots let a second
  delivery overlap the first (with no free slot the runner waits, which is the one place
  where the bound restricts: the code starts goroutines without limit). One thread
  suffices since rows of different threads meet only in the runner's loop, which takes
  groups one by one.
- *Jobs*: two names are a job and the one listed behind it; a clock up to 4 passes two
  slots of an interval of 2 and one of the cron period 3, so that a run can be late by a
  whole slot; two commands meet each other in the two steps of an addition.
- *Tool loop*: two sessions reach the limit of sessions, two chunks exceed a buffer of one.
- *Patch tool*: the second chunk is placed behind, before or over the first; three lines
  that differ in blanks give an exact match behind a forgiving one; the second operation
  meets every result of the first, on the same path or another.
- *Sources*: one mail emitted per poll makes several full polls; two failures give a
  failure during the recovery from another. A list of one and two ids kept let mail
  disappear behind the list and ids fall out of the file; the poll and one command write
  it at the same time. Three updates give a text, the
  text that extends its window, and a command or a second sender.
- *Servers*: the second idle session meets the timer of the first, the third session
  stops at once; four callers of the queue put two waiters behind a cancelled one.
- *Mapping and admission*: three calls are the two first messages of a topic that race
  and the visible topic that mail falls back to; two messages of one unknown channel race
  for its record, with a replay of one of them.
- *Conversations and sandbox*: with one purge and three messages there is a turn before,
  across and after it; two turns and two commands leave what the second turn can find.

**Fairness.** *Gate*: Go queues blocked sends on a channel in order, so a waiter whose
channel is free again and again is admitted: strong fairness of `Enter`; that goroutines
proceed and a turn ends is weak fairness (agents run with timeouts). *Timed intents*: the
runner ticks, time passes, turns end, and the gate is starvation-free, which is
`WaitersSettle` of its own run; commands, operators and crashes owe nothing.
*Jobs*: the scheduler ticks and the command of a job ends, since `RunDue` waits for it;
saves fail a bounded number of times. *Tool loop*: the loop goes on and a session whose
output nobody holds is noticed; the model answers (requests have timeouts). Processes owe
nothing, and a write to a command that does not read may block for ever, as in the code.
*Servers*: goroutines go on, timers fire, a start has two minutes and a stop seconds; no
one has to begin a session. *Queue*: goroutines proceed and an execution ends or
lingers: its timeout kills the command, but `Run` waits without limit for descendants
that hold the output. Asking, giving up and closing are not fair. *Gmail*: the loop keeps
polling; failures are bounded because with calls that fail for ever nothing is promised.
*Telegram*: as long as the process runs, goroutines proceed, windows end, and `Next` returns;
the process may exit at any time and then owes nothing. Where two modules are
checked side by side the fairness of both is assumed; the one that is not exercised
stays in its initial state, where it owes no step.

`thread_mapping`, `conversations` and the patch tool state safety only and need no fairness. Their calls
are interchangeable and their properties name none, so TLC uses symmetry there.

**Deadlock** is checked in `gate` and `timed_intents`. Elsewhere the work ends: with the
last message, the end of a turn, `Close`, or the last mail of a bounded mailbox.

### Findings

Five runs are expected to be violated. Each states a sentence of the repository's own
documentation and TLC's counterexample is a schedule in which the code does otherwise;
`PROJECT.json` ("findings") quotes both.

1. `LastCommandWins` - `finishIntent` and `ResetHeartbeatFloor` save a whole row that
   was read before, so `heartbeat stop` during a delivery is undone.
2. `WakesSurviveRestarts` - a one-shot is deleted once its goroutine is started, before
   the turn is admitted or its message stored.
3. `NoMailIsPassedOver` with several pages - the cursor is moved to the mailbox's newest
   id after the first page.
4. `CommandsFollowEarlierInput` - a batch taken by a timer is handed on outside the
   mutex, so a command handled meanwhile is delivered first.
5. `StartedSandboxesArePrepared` - the broker starts containers with `Ensure` alone, and
   the next turn, which finds the container running, skips `bootstrap.sh` too.

### What the passing properties except

Several properties hold with exceptions, each a history variable that records a race the
code loses. They are the known limits of the code, in the models as in the program:

- Timed intents and jobs: a command that meets a copy of its row in the runner's hands
  is undone by the copy (`raced`, `jobRaced`).
- Admission: the first two messages of an unknown channel can collide on the unique index,
  and the second is lost; a recording that overlaps `chat bind` brings the record back
  (`contended`); `chat component add` opens a channel and leaves its record. `AllowDropped`
  ignores the status of a row, saves an expired row anew, and marks a replay that was
  dropped again as replayed: a message may be replayed twice, and is not lost.
- Mapping: where a bind command races a call, or mail falls back to a visible thread that
  a bind command has given another topic, the row is overwritten without an error.
- Turns: a turn that runs while its thread is purged maps its old session again
  (`internal/component/codex/component.go:318`), so `QuietPurgeIsKept` is the part that
  holds of `docs/copilot.md:76` ("purge selects a new conversation").
- Sandbox: an agent that was left alive when its turn was cut off can write the file the
  next turn answers with (`docs/codex-session-timeout.md` discusses such turns); the mark
  of an old interrupt can silence a later turn whose container fails before its agent has
  started; a refresh between run and read loses the answer, which is reported; a stop that
  races a turn whose copy of `keep_running` is set leaves the container up, and so does a
  start command that fails after the container came up, at the bootstrap, the state of the
  container or the setting: nobody stops it then before the next turn.
- Tool loop: chunks written after the last read of a session that ends are lost; stop,
  cleanup and timeouts wait without limit for processes that left the group; a process of
  the group that closed its output outlives a session that ends without a kill.
- Patch tool: a chunk for the end of the file may be placed over an earlier chunk, which is
  lost; a blank last line of an updated file is dropped; `os.WriteFile` truncates, so a
  write that fails loses the file it was writing.
- Model server: a stop decided before a session began hits that session, a session that
  fails to begin has cancelled the idle timer, a stale `auto` flag can stop a user's
  server, and a child whose wait fails blocks later starts. `docs/native-llamacpp.md`
  says that the races between idle and manual stops are not solved.
- Outlook: mail behind the first list is emitted when newer mail leaves; of too many ids
  arbitrary ones are dropped; mail listed by a poll without a readable file is never
  emitted; `auth` and bind write old ids back; a read in the middle of a write, and writes
  that meet or fail, lose the ids of the file.
- Telegram: what is held or taken when the process exits is lost.
- Gmail: mail whose row is committed and not yet emitted when the process stops is not
  emitted again.

## 4. What is proved

The safety properties the passing runs check on small instances are theorems for every
value of the constants, and so are the types. In each module a conjunction of named
parts (`IInv`, `MailIInv`, ...) is shown to hold at first and to be kept by every action, one lemma or step per action; the theorems follow from
it. An action property follows from the invariant and one step.

**Assumptions.** Each module names what it assumes of its constants, and TLC evaluates
it in a run: that bounds are numbers, that values standing for "none" are no values of
the other kind (`NoRow`, `NoEntry`, ...), and what the code justifies beside that: callers
that are counted are finite in number (`GateAssumption`, `MappingAssumption`,
`LlamaAssumption`), a page has room for a mail (`MailAssumption`), a cron period is not
zero (`JobsAssumption`), an update has chunks of lines (`PatchAssumption`).
`OnePageLosesNoMail` alone has a hypothesis of its own, on the behaviour: that no page of
history has another behind it.

### ThreadTurnGate_proofs

| Theorem | States |
|---|---|
| `TypeCorrect` | `Spec => []TypeOK` |
| `TurnsExclude` | `Spec => []MutualExclusion` |
| `ShutdownIsFinal` | `Spec => []IdleShutdownIsFinal` |
| `MapHasNoLeaks` | `Spec => []EntriesAreUsed` |
| `BusyIsExact` | `Spec => []BusyIffRunning` |
| `GateImplementsAdmission` | `Spec => ImplementsAdmission` |

`MutualExclusion` is not inductive: from a state where two callers wait on different
objects for one thread it fails in two steps. `IInv` says why that state is not
reachable:

- *PointersAgree*: a caller inside points to the object its thread is mapped to, so two
  callers of one thread share one object;
- *MapIsTight*: different threads are mapped to different objects, and a mapped object
  is used by somebody;
- *RefsCountUsers*: `refs` is the number of callers that point to the object, so the
  entry is deleted by the last and never before;
- *TokenIsHeld*: the token is in the channel exactly while a caller of that object runs;
- *IdleShutdownIsFinal* itself, which needs that `outstanding = 0` means nobody is
  inside.

In the refinement every step is mapped: `Retain` to `Queue`, `Enter` to `Start`, `Drain`
and `Abandon` to `Depart`, `BeginShutdown` to `Close` or a stutter, `Release` and
`CancelContext` to stutters. As the refinement is proved for any callers and threads,
`TimedIntents` and `Conversations` may stand on `TurnAdmission`.

### TimedIntents_proofs

| Theorem | States |
|---|---|
| `IntentTypeCorrect` | `Spec => []TypeOK` |
| `CommandsAreKept` | `Spec => []CommandsStick` |
| `WakesAreKept` | `Spec => []NoWakeIsLost` |
| `OneShotsOnce` | `Spec => OneShotsAreToldOnce` |

A row may be in the table, in the runner's list and with a turn that resets its floor,
and each of them may be saved. `CommandsStick` speaks of the table only. *CopiesObey*
says the same of the copies: without a race every copy has the schedule of the last
command. *StampsDiffer* says that a command's number is in use for one identity, so a
copy cannot be of another row. For the wakes, *DeliveredAreGone* says that of an
accepted wake no copy is left but in the runner's group that is about to be finished
(*FinishedAreAccepted*), hence none is told twice in one life; and *DeliveredAreTold*
that until shutdown it is with a turn to come or with one that began.

### Turns_proofs

Of `Conversations`:

| Theorem | States |
|---|---|
| `TypeCorrect` | `Spec => []TypeOK` |
| `TurnsDoNotMix` | `Spec => []TurnsAreContiguous` |
| `TurnsReplyOnce` | `Spec => []OneReplyEach` |
| `PurgesAtRestAreKept` | `Spec => QuietPurgeIsKept` |

Its turns are those of `TurnAdmission`, whose exclusion is the theorem about the gate.
`IInv` has one group of parts for each result:

- *Contiguity*: entries of a turn that runs are in its own thread (`Owned`) and nothing
  of another turn follows them (`LastOnes`); as turns of a thread exclude each other
  (`Exclusive`) an append extends the last block or begins a new one.
- *Replies*: `Told` counts what a call has sent at each of its places; a failure is
  reported only by a turn that sent no answer, or that a purge or a relay disturbed.
- *Purges*: a session is in one place, mapped to a thread or run by one call
  (`OnePlace`), so a purge that finds it mapped and not run removes its last copy
  (`Gone`); a call that has not begun to run has a session nobody holds (`Fresh`).

Of `AgentSandbox`:

| Theorem | States |
|---|---|
| `SandboxTypeCorrect` | `SandboxSpec => []SandboxTypeOK` |
| `AnswersAreOwn` | `SandboxSpec => []OwnAnswers` |
| `SilenceIsForAnInterrupt` | `SandboxSpec => []SilentTurnsWereInterrupted` |
| `IdleSandboxesAreDown` | `SandboxSpec => []SandboxesStop` |

The lock is let go between the steps of a turn, so what a turn finds in its last step
was left by others. *TurnsReadTheirOwn*: when it is about to read, the file is its own,
removed, or of an agent that was left alive; which rests on *AgentsAreMinded*: an agent
whose turn is not at its run belongs to a turn that was cut off. *MarksAreNew*: a mark
found after the agent was started was set by an interrupt that met this turn, since the
start clears it; turns that have not started their agent are open (*FreshTurnsAreOpen*).
*UpForAReason*: a container that is not to be kept is up for a turn or for a command
that is going to record its wish - except while commands overlap, or after one failed.

### Messages_proofs

| Theorem | States |
|---|---|
| `TypeCorrect` | `Spec => []TypeOK` (`ThreadMapping`) |
| `Reached` | `Spec => []TopicsAreReached` |
| `OneConversation` | `Spec => []TopicsAreOneConversation` |
| `InboundTypeCorrect` | `InboundSpec => []InboundTypeOK` |
| `NothingIsLost` | `InboundSpec => []InboundIsRecorded` |

*Mapping.* A topic has one thread (`OneThreadEach`) by its unique index alone. That a
save does not take the mapping of another topic away needs the claims: a topic that has
a mapping, or that a writer is about to save to it, *claims* that mapping, and two topics
that claim one are contested (`RivalsAreContested`), which holds because a writer looks
at the claims when it sets out and claims only come to exist that way. So a save of an
uncontested topic meets an empty row or its own, and is refused only if somebody else
has mapped the topic. `TypeOK` needs a count: each call creates at most one thread, and
not before it is settled (`ThreadsAreCounted`).

*Admission.* A message is kept - handed on, excused, or in an open dropped event - or a
call has it that is still going to do so (*MessagesAreKept*). An open event counts as
kept only while no replay is about to mark it: of a replay that was dropped again the
new row is there before the old one is marked. *RowsAreNumbered* says that a row's number
stands for one event, also in the hands of replays, so marking a row marks the event
that was replayed. The counts of drop records need that recordings of a channel which
did not overlap are alone (*RecordingsAreAlone*) and hold the record as it is
(*CopiesAreTrue*).

### Services_proofs

| Theorem | States |
|---|---|
| `JobsTypeCorrect` | `JobsSpec => []JobsTypeOK` |
| `CommandsOnJobsStick` | `JobsSpec => []JobCommandsStick` |
| `SlotsRunOnce` | `JobsSpec => JobsRunOncePerSlot` |
| `ExecTypeCorrect` | `ExecSpec => []ExecTypeOK` |
| `OutputReturns` | `ExecSpec => []OutputIsReturned` |

*Jobs.* `JobsIInv` follows a schedule by its stamp. A stamp is used by one command
(`StampsAreFresh`, `StampsAreGiven`) and by one row: the copy a tick has listed *is* that
row (`CopiesAgree`, `QuietRowsAreListed`), because only the end of its run, which takes
it off the list, changes a row without a new stamp; and a list has one row of a name
(`NamesDiffer`), so finishing one job leaves the copies of others valid. Due times stay
slots of the schedule (`SlotsOnly`), which rests on what `NextDueAfterRun` returns: a
later time, after now, of the same cadence. This is arithmetic on quotients and stated
as lemmas of its own (`Rounding` and those after it). What has run is therefore behind
the row's due time (`RunsAreBehind`), unless the end of a run was not saved.

*Tool loop.* `OutputIsCounted`: what was shown and what the buffer holds, one after the
other, is a rising sequence of chunk numbers, and its length with what was dropped makes
up what was written. That nothing is unread when a session is forgotten is not
inductive: the loop reads, then looks whether the process has ended, and only then
drops the session. `ReadIsEmpty` is about that stage, and `GoneAreDone` says that nobody
writes to a session that the loop has let go of.

### ApplyPatch_proofs

| Theorem | States |
|---|---|
| `PatchTypeCorrect` | `PatchSpec => []PatchTypeOK` |
| `PatchesEndBetweenOperations` | `PatchSpec => []PatchesAreAppliedInPart` |
| `UpdatesKeepTheRest` | `PatchSpec => []ChunksKeepTheRest` |

*Operations.* `FilesAreDone`: between operations the files are `After[patchDone]`, within a
move also the new path has its content, and after a failure they differ at one path.

*Induction.* `After`, and everything computed chunk by chunk or edit by edit, is a
recursive function, and both that such a function is defined and what it computes need
induction over data. The library's induction theorems cannot be used (they take an
operator); that `<` is well-founded on `Nat` (`NatLessThanWellFounded`) and that sets
have minimal elements (`WFMin`) take none. From them follows `SetInduction`, induction
for a *set* of numbers, and with it that a function with given equations exists
(`RecursionExists`, `FollowersExist`), and induction for a set of lists
(`ListInduction`). An inductive statement is written as such a set in each proof.

*Chunks.* `ChunksKeepTheRest` compares the code, which sorts the edits and writes them
from the last to the first, with one pass over the file (`Rewritten`). It takes four steps,
each a group of lemmas:

1. *Placing.* What `Seek` finds lies in the file (`SeekFinds`), so every edit does
   (`ChunkIsPlaced`), and without chunks for the end of the file each lies behind those
   before it (`Behind`, `ChunksAreInOrder`); such edits are disjoint
   (`ForwardChunksAreDisjoint`).
2. *Sorting.* The stable sort yields edits in order and apart from each other
   (`Ordered`, `Apart`), without a change to what is put at a position or taken from it
   (`InsertKeeps`, `SortsWell`); that it is stable matters, as edits of one position are
   put in their order.
3. *Writing.* Of sorted edits that are apart, the first can be set aside: what the others
   do to the file lies behind it (`Untouched`, `TextStarts`), so writing it last puts
   its lines where they belong (`TextsDiffer`, `WrittenLast`). By induction over the list
   `Spliced` is `Rewritten` (`SplicedIsRewritten`).
4. *Files.* `FilesAreTexts`, the strengthening of `PatchIInv` to `TextIInv`: what each
   path holds after a prefix of the operations is text or no file, and each update that was
   completed had a file in which its chunks were placed. `DerivedIs` then applies to it.

### Servers_proofs

| Theorem | States |
|---|---|
| `QueueTypeCorrect` | `QueueSpec => []QueueTypeOK` |
| `NoWaiterIsStranded` | `QueueSpec => []NobodyIsStranded` |
| `QueueImplementsFifoLine` | `QueueSpec => ImplementsFifoLine` |
| `LlamaTypeCorrect` | `LlamaSpec => []LlamaTypeOK` |
| `SessionsKeepTheirServer` | `LlamaSpec => []SessionsHaveServer` |
| `ClosingIsFinal` | `LlamaSpec => []ClosedServersAreGone` |
| `UsersKeepTheirServer` | `LlamaSpec => UsersServerStays` |

*Queue.* A key is in the map exactly while one caller holds it (`EntriesHaveHolders`,
`HoldersAreAlone`), where a grant that is in a channel and not yet received counts as
holding; and the lists hold exactly the callers that wait without a result, once each
(`WaitersAreListed`). In the refinement a list of waiters is the abstract line behind its
holder; the steps that only pass on what was granted are stutters.

*Inference server.* A stop is decided under one mutex and done later. `StopsSpareNobody`:
whoever uses the server or begins to while a stop is under way is `cutOff`, which is
what the property excepts; `UsersServerIsLeft`: as long as a user minds the server no
session is going to stop it. The timer that counts belongs to an idle server
(`TimersAreOfIdleServers`), which needs that `activeSessions` counts its users: they are
finite in number.

### Sources_proofs

| Theorem | States |
|---|---|
| `MailTypeCorrect` | `MailSpec => []MailTypeOK` |
| `StoredMailIsNotForgotten` | `MailSpec => []StoredMailIsEmitted` |
| `GmailEmitsOnce` | `MailSpec => EmittedOnce` |
| `OnePageLosesNoMail` | `MailSpec /\ []OnePage => []NoMailIsPassedOver` |
| `OutlookTypeCorrect` | `OutlookSpec => []OutlookTypeOK` |
| `SeenWasEmitted` | `OutlookSpec => []SeenMailWasEmitted` |
| `OutlookRepeatsForAReason` | `OutlookSpec => []EmittedAgainForAReason` |
| `ChatTypeCorrect` | `ChatSpec => []ChatTypeOK` |
| `UpdatesAreSomewhereOnce` | `ChatSpec => []HandledUpdatesAreSomewhereOnce` |

*Gmail.* The mail at hand is stored before it is emitted and not emitted before
(`EmittedIsStored`). That no mail is passed over is proved only of behaviours in which each
poll finds its history on one page (`OnePage`), whatever arrives over many polls; the run
`gmail_pages` shows that this is needed. There the cursor stays behind what was read
(`CursorIsBehind`).

*Outlook.* What the file, the poll and a command's copy hold was emitted or old when the
poll began (`SeenIsKnown`), and what was emitted is in the file or the poll, or may be
emitted again for one of the reasons in `again` (`SentIsSeen`). Of a file that cannot be
read nothing is claimed: the poll or command that reads it says what is lost.

*Telegram.* An update is held, taken or told, in one of these places (`OnePlace`), and is
in one exactly if it was handled (`HandledArePlaced`); that a goroutine's batches are
not overwritten needs that it has handed on the last ones before it takes more
(`GoroutinesFit`).

### Only model-checked

- Liveness (`WaitersSettle`, `IdleFloor`, `DueJobsAreRun`, `ToolTurnEnds`, `MailIsRead`,
  `UpdatesAreDelivered`, `IdleServersStop`, `WaitersAreServed`): TLAPS 1.4.5 does not
  reason about fairness or ENABLED. `TurnAdmission` and `FifoLine` state no
  fairness, so the refinements are proved in full.

## 5. What is not modelled, and why

- Transport, encoding, rendering, parsing of commands, permission tables, queries of the
  index: pure functions or I/O in which no order of events matters.
- Docker, models, agents, mail servers: external. What they do is a choice, within what
  the code checks of it.
- The life of a hostbridge v2 invocation, and the HTTP relay and bridge registrations
  in front of it: planned (section 6) and not written.
- The Docker backend of model servers, which shares the interface of the native one, and
  the one-shot sessions of the speech components.
- The other agents: they differ from Codex in their command line and in how their output
  is parsed. The first Gmail component: the loop of Gmail v2 without a store.
- The board of the theater, allowlists and sender configuration: rows that one statement
  reads or writes.
- `JSONStateStore.Update` loads its row outside of its transaction; two updates of one
  thread's component state can overwrite each other. `keep_running` is such a state, and
  its commands are modelled as overlapping ones, which `SandboxesStop` excepts.
- `MaxRuns`, `ExpiresAt` and maintenance delivery of timed intents: no code writes them.
- Attachments, voice, several agents or relays in `Conversations`; errors of the database
  outside of the saves that are modelled as failing.
- The limit of 100 rows per `ListDue`: beyond small instances.
- A debounce window of zero, attachments in Telegram batches, the content of mail.

## 6. Plan

Done: all modules of section 2, with the proofs of section 4: the safety of every detailed
module, and both refinements.

Models, in this order: the life of a hostbridge v2 invocation, with the queue through
`FifoLine`; the Docker backend of model servers against the native one; several
relays and agents in `Conversations`; speech sessions.

Proofs: every safety property of the passing runs has its theorem; the safety of what is
modelled next follows with its module.

## 7. Running

    tlc -config MCThreadTurnGate.cfg MCThreadTurnGate.tla
    tlapm ThreadTurnGate_proofs.tla

and likewise for the other configurations and proofs; each finishes within a few minutes.
