------------------------ MODULE AliasExecutionQueue ------------------------
(***************************************************************************)
(* internal/hostbridge/server/execution_queue.go: executions of hostbridge *)
(* aliases that share a serialization key run one at a time, in order of   *)
(* arrival.  The lane is handed from its holder straight to the first      *)
(* waiter, which learns of it later, over a buffered channel; meanwhile    *)
(* the waiter may give up and the queue may be closed.                     *)
(*                                                                         *)
(* One action per section under the mutex, and one per outcome of the      *)
(* waiter's select.  The queue-wait timeout and the request's cancellation *)
(* may come at any time.  A blank key takes no lane and is left out.       *)
(***************************************************************************)
EXTENDS Naturals, Sequences

CONSTANTS
  Keys,      \* serialization keys
  Callers,   \* runner goroutines, each in at most one call of Acquire
  NoKey,     \* the lane of a caller outside
  NoEntry    \* a key the map does not hold

ASSUME KeyAssumption == NoKey \notin Keys /\ NoEntry \notin [active : BOOLEAN, waiters : Seq(Callers)]

VARIABLES
  closed,
  keys,     \* the map: [active, waiters] or NoEntry
  pc,       \* "out", "waiting", "granted", "abandoning", "running" or "lingering"
  lane,     \* the key a caller asked for
  result    \* what the caller's channel holds: "none", "granted" or "closed"

queueVars == <<closed, keys, pc, lane, result>>

QueueInit ==
  /\ closed = FALSE
  /\ keys = [k \in Keys |-> NoEntry]
  /\ pc = [c \in Callers |-> "out"]
  /\ lane = [c \in Callers |-> NoKey]
  /\ result = [c \in Callers |-> "none"]

Remove(s, i) == SubSeq(s, 1, i - 1) \o SubSeq(s, i + 1, Len(s))
------------------------------------------------------------------------------
\* The sections under the mutex.  "results" is what the channels hold besides.

\* A faulty variant of the hand-over, used by no specification: the last comer is
\* served.
ReleaseLaneToLast(k, results) ==
  LET w == keys[k].waiters IN
  IF closed \/ w = <<>>
    THEN keys' = [keys EXCEPT ![k] = NoEntry] /\ result' = results
    ELSE /\ keys' = [keys EXCEPT ![k].waiters = SubSeq(w, 1, Len(w) - 1)]
         /\ result' = [results EXCEPT ![w[Len(w)]] = "granted"]

\* releaseLocked: the lane stays active while the first waiter takes it over.
ReleaseLane(k, results) ==
  IF keys[k] = NoEntry \/ ~keys[k].active
    THEN UNCHANGED keys /\ result' = results
    ELSE IF closed \/ keys[k].waiters = <<>>
      THEN keys' = [keys EXCEPT ![k] = NoEntry] /\ result' = results
      ELSE /\ keys' = [keys EXCEPT ![k].waiters = Tail(@)]
           /\ result' = [results EXCEPT ![Head(keys[k].waiters)] = "granted"]

\* removeWaiterLocked: a waiter that Close has sent away is in no list.
RemoveWaiter(c, k) ==
  IF keys[k] # NoEntry /\ \E i \in 1..Len(keys[k].waiters) : keys[k].waiters[i] = c
    THEN \E i \in 1..Len(keys[k].waiters) :
           /\ keys[k].waiters[i] = c
           /\ LET left == Remove(keys[k].waiters, i) IN
              keys' = [keys EXCEPT ![k] =
                         IF ~@.active /\ left = <<>> THEN NoEntry ELSE [@ EXCEPT !.waiters = left]]
    ELSE UNCHANGED keys

Return(c) ==
  /\ pc' = [pc EXCEPT ![c] = "out"]
  /\ lane' = [lane EXCEPT ![c] = NoKey]
------------------------------------------------------------------------------
\* Acquire up to the select.  A closed queue returns an error at once.
Acquire(c, k) ==
  /\ pc[c] = "out" /\ ~closed
  /\ lane' = [lane EXCEPT ![c] = k]
  /\ IF keys[k] = NoEntry \/ (~keys[k].active /\ keys[k].waiters = <<>>)
       THEN /\ keys' = [keys EXCEPT ![k] = [active |-> TRUE, waiters |-> <<>>]]
            /\ pc' = [pc EXCEPT ![c] = "running"]
       ELSE /\ keys' = [keys EXCEPT ![k].waiters = Append(@, c)]
            /\ pc' = [pc EXCEPT ![c] = "waiting"]
  /\ UNCHANGED <<closed, result>>

\* The select takes the result ...
Receive(c) ==
  /\ pc[c] = "waiting" /\ result[c] # "none"
  /\ result' = [result EXCEPT ![c] = "none"]
  /\ IF result[c] = "granted"
       THEN pc' = [pc EXCEPT ![c] = "granted"] /\ UNCHANGED lane
       ELSE Return(c)
  /\ UNCHANGED <<closed, keys>>

\* ... or the context that is done, whether or not there is a result too.
Abandon(c) ==
  /\ pc[c] = "waiting"
  /\ pc' = [pc EXCEPT ![c] = "abandoning"]
  /\ UNCHANGED <<closed, keys, lane, result>>

Confirm(c) ==
  /\ pc[c] = "granted"
  /\ IF closed
       THEN ReleaseLane(lane[c], result) /\ Return(c)
       ELSE pc' = [pc EXCEPT ![c] = "running"] /\ UNCHANGED <<keys, lane, result>>
  /\ UNCHANGED closed

\* A waiter that gives up hands a lane it was granted to the next one.  Its
\* channel, with what it holds, is garbage afterwards.
Withdraw(c) ==
  /\ pc[c] = "abandoning"
  /\ LET results == [result EXCEPT ![c] = "none"] IN
       IF result[c] = "granted"
         THEN ReleaseLane(lane[c], results)
         ELSE RemoveWaiter(c, lane[c]) /\ result' = results
  /\ Return(c)
  /\ UNCHANGED closed

\* The timeout kills the command; Run then waits without limit for whatever it
\* started that still holds its output.
Linger(c) ==
  /\ pc[c] = "running"
  /\ pc' = [pc EXCEPT ![c] = "lingering"]
  /\ UNCHANGED <<closed, keys, lane, result>>

\* The deferred release, after Run returned.
EndExecution(c) ==
  /\ pc[c] \in {"running", "lingering"}
  /\ ReleaseLane(lane[c], result)
  /\ Return(c)
  /\ UNCHANGED closed

\* A faulty variant: waiters are dropped without a word.
CloseSilently ==
  /\ ~closed /\ closed' = TRUE
  /\ keys' = [k \in Keys |-> IF keys[k] = NoEntry \/ ~keys[k].active THEN NoEntry
                             ELSE [keys[k] EXCEPT !.waiters = <<>>]]
  /\ UNCHANGED <<pc, lane, result>>

Close ==
  /\ ~closed /\ closed' = TRUE
  /\ result' = [c \in Callers |->
       IF \E k \in Keys : keys[k] # NoEntry /\ \E i \in 1..Len(keys[k].waiters) : keys[k].waiters[i] = c
         THEN "closed" ELSE result[c]]
  /\ keys' = [k \in Keys |-> IF keys[k] = NoEntry \/ ~keys[k].active THEN NoEntry
                             ELSE [keys[k] EXCEPT !.waiters = <<>>]]
  /\ UNCHANGED <<pc, lane>>

CallerStep(c) ==
  \/ \E k \in Keys : Acquire(c, k)
  \/ Receive(c)
  \/ Abandon(c)
  \/ Confirm(c)
  \/ Withdraw(c)
  \/ Linger(c)
  \/ EndExecution(c)

QueueNext == Close \/ \E c \in Callers : CallerStep(c)

QueueSpec == QueueInit /\ [][QueueNext]_queueVars

\* A scheduled goroutine goes on, and a command has a timeout, so its execution
\* ends or lingers.  Whether and when a lingering one ends, a caller asks or
\* gives up and the queue closes is open.
QueueFairness ==
  \A c \in Callers :
    WF_queueVars(Receive(c) \/ Confirm(c) \/ Withdraw(c)
                 \/ (pc[c] = "running" /\ (EndExecution(c) \/ Linger(c))))
------------------------------------------------------------------------------
WaitersOf(k) == IF keys[k] = NoEntry THEN <<>> ELSE keys[k].waiters

\* The caller that has the lane, whether it knows already or not.
Holds(c, k) ==
  lane[c] = k /\ (pc[c] \in {"granted", "running", "lingering"} \/ result[c] = "granted")

\* Waiters are distinct callers, so each has one place in one list.
QueueTypeOK ==
  /\ closed \in BOOLEAN
  /\ keys \in [Keys -> [active : BOOLEAN, waiters : Seq(Callers)] \cup {NoEntry}]
  /\ pc \in [Callers -> {"out", "waiting", "granted", "abandoning", "running", "lingering"}]
  /\ lane \in [Callers -> Keys \cup {NoKey}]
  /\ result \in [Callers -> {"none", "granted", "closed"}]
  /\ \A k \in Keys : \A i, j \in 1..Len(WaitersOf(k)) :
       WaitersOf(k)[i] = WaitersOf(k)[j] => i = j

\* The queue implements one line per key (execution_queue.go:156): two
\* executions never share a key, none begins after Close, not even one that was
\* granted before (:80), and no lane is lost or kept when a hand-over meets a
\* cancellation or Close (:158).
Owner(k) == CHOOSE c \in Callers : Holds(c, k)
line == [k \in Keys |-> IF keys[k] = NoEntry THEN <<>> ELSE <<Owner(k)>> \o keys[k].waiters]
running == {c \in Callers : pc[c] \in {"running", "lingering"}}
Line == INSTANCE FifoLine WITH open <- ~closed

ImplementsFifoLine == Line!Spec

\* Nobody waits forever, whatever the others do, unless an execution with the
\* same key lingers (runner.go:109): a lane handed over, abandoned or closed in
\* any order never strands a waiter.
WaitersAreServed ==
  \A c \in Callers :
    pc[c] = "waiting" ~>
      pc[c] \in {"out", "running"} \/ \E d \in Callers : pc[d] = "lingering" /\ lane[d] = lane[c]

==============================================================================
