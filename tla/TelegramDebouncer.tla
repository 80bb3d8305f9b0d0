------------------------- MODULE TelegramDebouncer -------------------------
(***************************************************************************)
(* internal/component/telegram/debounce.go: texts of one sender are held   *)
(* for a window that every further text extends, and then handed on as one *)
(* merged update; a command first hands on what its chat thread holds.     *)
(*                                                                         *)
(* Updates are numbered in the order Telegram sends them; up to Workers    *)
(* handlers of the bot library run at a time.  Pending texts are taken     *)
(* under the mutex and handed to Next after it is released, by the handler *)
(* of a command or by the callback of a timer.  The generation of a        *)
(* pending entry counts its texts, so it is the length of the sequence.    *)
(* The process may exit at any time: on ctx.Done, or the error of another  *)
(* source, Broker.Run returns and waits for no source, so not for the      *)
(* flush at the end of the API's Run either.                               *)
(*                                                                         *)
(* Left out: attachments (they merge as texts do), empty updates, and a    *)
(* window of zero, which hands every update on at once.                    *)
(***************************************************************************)
EXTENDS Naturals, FiniteSets, SequencesExt

CONSTANTS
  Senders,      \* debounce keys: a chat thread and a user
  ThreadOf,     \* the chat thread of each
  MaxUpdates,   \* bound on the updates
  Workers       \* handlers that run at a time

ASSUME SenderAssumption == MaxUpdates \in Nat \ {0} /\ Workers \in Nat \ {0}

VARIABLES
  update,     \* the updates so far: a sequence of [sender, command]
  handler,    \* per update: "none", "received", "emitting" or "done"
  timer,      \* per update, of the timer it armed: "none", "armed", "fired",
              \* "emitting" or "done"
  generation, \* per update: the generation that timer was armed with
  pending,    \* per sender: the held texts
  outbox,     \* per goroutine: the batches it took and has not handed on
  stopped,    \* whether the API's Run has returned
  exited,     \* whether the process has exited, with all it held
  delivered   \* history: the calls of Next

chatVars == <<update, handler, timer, generation, pending, outbox, stopped, exited, delivered>>

Updates == 1..MaxUpdates
FlushAll == 0           \* the goroutine of Run, which flushes when it returns
Goroutines == Updates \cup {FlushAll}

ChatInit ==
  /\ update = <<>>
  /\ handler = [u \in Updates |-> "none"]
  /\ timer = [u \in Updates |-> "none"]
  /\ generation = [u \in Updates |-> 0]
  /\ pending = [s \in Senders |-> <<>>]
  /\ outbox = [g \in Goroutines |-> <<>>]
  /\ stopped = FALSE /\ exited = FALSE
  /\ delivered = <<>>

Sender(u) == update[u].sender
Thread(u) == ThreadOf[Sender(u)]

\* Stopping a timer that has fired is too late: its callback is on its way.
Stopped(ts) == [u \in Updates |-> IF u \in ts /\ timer[u] = "armed" THEN "done" ELSE timer[u]]

\* What a flush of some senders takes: batches in any order (a map is walked).
Held(senders) == {s \in senders : pending[s] # <<>>}
Batches(senders) == SetToSeqs({pending[s] : s \in Held(senders)})
Forget(senders) == [s \in Senders |-> IF s \in senders THEN <<>> ELSE pending[s]]
TimersOf(senders) == {Last(pending[s]) : s \in Held(senders)}
------------------------------------------------------------------------------
\* Handlers.

Receive(s, command) ==
  /\ ~exited /\ ~stopped /\ Len(update) < MaxUpdates
  /\ Cardinality({u \in Updates : handler[u] \in {"received", "emitting"}}) < Workers
  /\ update' = Append(update, [sender |-> s, command |-> command])
  /\ handler' = [handler EXCEPT ![Len(update) + 1] = "received"]
  /\ UNCHANGED <<timer, generation, pending, outbox, stopped, exited, delivered>>

\* What HandleUpdate does with a text under the mutex.
HoldText(u, held, counted, timers) ==
  /\ handler[u] = "received" /\ ~update[u].command
  /\ pending' = [pending EXCEPT ![Sender(u)] = held]
  /\ generation' = [generation EXCEPT ![u] = counted]
  /\ timer' = timers
  /\ handler' = [handler EXCEPT ![u] = "done"]
  /\ UNCHANGED <<update, outbox, stopped, exited, delivered>>
Rearmed(u) == [Stopped(TimersOf({Sender(u)})) EXCEPT ![u] = "armed"]

\* Faulty variants of HandleText, used by no specification: a merge starts the
\* entry over; the timer captures the generation before it is counted.
HandleTextReplacing(u) == HoldText(u, <<u>>, 1, Rearmed(u))
HandleTextCapturingEarly(u) ==
  HoldText(u, Append(pending[Sender(u)], u), Len(pending[Sender(u)]), Rearmed(u))

\* A text joins what its sender has pending and starts the window again.
HandleText(u) ==
  LET held == Append(pending[Sender(u)], u)
  IN HoldText(u, held, Len(held), Rearmed(u))

\* A command takes all its chat thread has pending and hands it on, then itself.
HandleCommand(u) ==
  /\ handler[u] = "received" /\ update[u].command
  /\ LET senders == {s \in Senders : ThreadOf[s] = Thread(u)} IN
       /\ \E batches \in Batches(senders) :
            outbox' = [outbox EXCEPT ![u] = Append(batches, <<u>>)]
       /\ pending' = Forget(senders)
       /\ timer' = Stopped(TimersOf(senders))
  /\ handler' = [handler EXCEPT ![u] = "emitting"]
  /\ UNCHANGED <<update, generation, stopped, exited, delivered>>
------------------------------------------------------------------------------
\* Timers.

Fire(u) ==
  /\ timer[u] = "armed"
  /\ timer' = [timer EXCEPT ![u] = "fired"]
  /\ UNCHANGED <<update, handler, generation, pending, outbox, stopped, exited, delivered>>

\* flushMatch and takePendingMatch: the callback takes the batch if its
\* generation is the one the timer was armed with.
FlushMatch(u) ==
  /\ timer[u] = "fired"
  /\ LET s == Sender(u) IN
       IF pending[s] # <<>> /\ Len(pending[s]) = generation[u]
         THEN /\ outbox' = [outbox EXCEPT ![u] = <<pending[s]>>]
              /\ pending' = Forget({s})
              /\ timer' = [Stopped({Last(pending[s])}) EXCEPT ![u] = "emitting"]
         ELSE timer' = [timer EXCEPT ![u] = "done"] /\ UNCHANGED <<pending, outbox>>
  /\ UNCHANGED <<update, handler, generation, stopped, exited, delivered>>

\* Run's deferred flush, once the API has returned.
StopRun ==
  /\ ~exited /\ ~stopped /\ stopped' = TRUE
  /\ \E batches \in Batches(Senders) : outbox' = [outbox EXCEPT ![FlushAll] = batches]
  /\ pending' = Forget(Senders)
  /\ timer' = Stopped(TimersOf(Senders))
  /\ UNCHANGED <<update, handler, generation, exited, delivered>>
------------------------------------------------------------------------------
\* A goroutine calls Next with the first batch it has taken, outside the mutex.
EmitPending(g) ==
  /\ ~exited /\ outbox[g] # <<>>
  /\ delivered' = Append(delivered, Head(outbox[g]))
  /\ outbox' = [outbox EXCEPT ![g] = Tail(@)]
  /\ IF Len(outbox[g]) = 1 /\ g # FlushAll
       THEN /\ handler' = [handler EXCEPT ![g] = "done"]
            /\ timer' = [timer EXCEPT ![g] = IF @ = "emitting" THEN "done" ELSE @]
       ELSE UNCHANGED <<handler, timer>>
  /\ UNCHANGED <<update, generation, pending, stopped, exited>>

Step(u) ==
  /\ ~exited
  /\ \/ HandleText(u)
     \/ HandleCommand(u)
     \/ Fire(u)
     \/ FlushMatch(u)

\* Broker.Run has returned, or the process was stopped.
Exit ==
  /\ ~exited /\ exited' = TRUE
  /\ UNCHANGED <<update, handler, timer, generation, pending, outbox, stopped, delivered>>

ChatNext ==
  \/ \E s \in Senders, command \in BOOLEAN : Receive(s, command)
  \/ \E u \in 1..Len(update) : Step(u)
  \/ \E g \in Goroutines : EmitPending(g)
  \/ StopRun
  \/ Exit

ChatSpec == ChatInit /\ [][ChatNext]_chatVars

\* As long as the process runs, goroutines go on, windows end, and Next returns.
ChatFairness ==
  /\ \A u \in Updates : WF_chatVars(u <= Len(update) /\ Step(u))
  /\ \A g \in Goroutines : WF_chatVars(EmitPending(g))
------------------------------------------------------------------------------
\* The texts of one entry are of one sender, and in one entry only once.
ChatTypeOK ==
  /\ update \in Seq([sender : Senders, command : BOOLEAN]) /\ Len(update) <= MaxUpdates
  /\ handler \in [Updates -> {"none", "received", "emitting", "done"}]
  /\ timer \in [Updates -> {"none", "armed", "fired", "emitting", "done"}]
  /\ generation \in [Updates -> 0..MaxUpdates]
  /\ pending \in [Senders -> Seq(1..Len(update))]
  /\ \A s \in Senders : IsInjective(pending[s]) /\ \A i \in DOMAIN pending[s] : Sender(pending[s][i]) = s
  /\ outbox \in [Goroutines -> Seq(Seq(1..Len(update)))]
  /\ {stopped, exited} \subseteq BOOLEAN
  /\ delivered \in Seq(Seq(1..Len(update)))

Places(u) ==
  Cardinality({s \in Senders : Contains(pending[s], u)})
  + Cardinality({p \in Goroutines \X Updates :
                   p[2] <= Len(outbox[p[1]]) /\ Contains(outbox[p[1]][p[2]], u)})
  + Cardinality({i \in DOMAIN delivered : Contains(delivered[i], u)})

\* A handled update is in exactly one place - held, taken by one goroutine, or
\* handed to Next - however timers, commands and the end of Run race.
HandledUpdatesAreSomewhereOnce ==
  \A u \in 1..Len(update) : handler[u] # "received" => Places(u) = 1

\* Every update reaches Next, whatever timers, commands and the end of Run do to the
\* batch it is in, unless the process exits first: what it holds then is lost
\* (debounce.go:48, broker/run.go:47).
UpdatesAreDelivered ==
  \A u \in Updates :
    u <= Len(update) ~> exited \/ \E i \in DOMAIN delivered : Contains(delivered[i], u)

\* "Telegram preserves same-thread input order, so it first delivers input still
\* waiting in the debounce window" (README.md, of /quit): when a command is
\* handed on, so was all input that came before it in its chat thread.
CommandsFollowEarlierInput ==
  ~stopped => \A i \in DOMAIN delivered : \A u, v \in 1..Len(update) :
    Contains(delivered[i], v) /\ update[v].command /\ u < v /\ Thread(u) = Thread(v)
      => \E j \in 1..(i - 1) : Contains(delivered[j], u)

==============================================================================
