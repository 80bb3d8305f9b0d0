--------------------------- MODULE ThreadTurnGate ---------------------------
(***************************************************************************)
(* internal/broker/thread_turn_gate.go: the gate that runs at most one     *)
(* agent turn per thread.  A map holds one reference-counted semaphore     *)
(* object per thread in use; the object is created by the first caller and *)
(* deleted by the last.  The mutex g.mu makes retain, release, Busy and    *)
(* BeginShutdown atomic, but a caller takes and gives back the semaphore   *)
(* token OUTSIDE that mutex, so every call is two or three steps that      *)
(* interleave with all others.                                             *)
(*                                                                         *)
(* Semaphores are heap cells: a new one may be any cell that neither the   *)
(* map nor a caller refers to (the others are garbage to the collector).   *)
(***************************************************************************)
EXTENDS Integers, FiniteSets

CONSTANTS
  Threads,      \* thread ids; the null id is refused before any state changes
  Callers,      \* goroutines that call Run
  Semaphores,   \* heap cells for threadTurnSemaphore objects
  NoThread,
  NoSemaphore   \* nil

ASSUME GateAssumption ==
  /\ IsFiniteSet(Callers)
  /\ NoThread \notin Threads
  /\ NoSemaphore \notin Semaphores

VARIABLES
  gates,     \* g.gates: the semaphore mapped to each thread, or nil
  closing,   \* g.closing
  refs,      \* threadTurnSemaphore.refs
  sem,       \* len(threadTurnSemaphore.sem), a channel of capacity 1
  pc,        \* where each caller is in Run/Acquire
  scope,     \* its threadID argument
  gate,      \* its local pointer to the semaphore
  ctxDone,   \* callers whose context is done
  reply      \* what the last BeginShutdown answered

gateVars == <<gates, closing, refs, sem>>
callerVars == <<pc, scope, gate, ctxDone>>
vars == <<gates, closing, refs, sem, pc, scope, gate, ctxDone, reply>>

Init ==
  /\ gates = [t \in Threads |-> NoSemaphore]
  /\ closing = FALSE
  /\ refs = [s \in Semaphores |-> 0]
  /\ sem = [s \in Semaphores |-> 0]
  /\ pc = [c \in Callers |-> "idle"]
  /\ scope = [c \in Callers |-> NoThread]
  /\ gate = [c \in Callers |-> NoSemaphore]
  /\ ctxDone = {}
  /\ reply = "none"

Unreferenced(s) ==
  /\ \A t \in Threads : gates[t] # s
  /\ \A c \in Callers : gate[c] # s

\* The body of retain: find or create the thread's semaphore and count the
\* caller on it.  admitted is the answer of the closing check.
RetainIf(c, t, admitted) ==
  /\ pc[c] = "idle"
  /\ admitted
  /\ \E s \in Semaphores :
       /\ IF gates[t] = NoSemaphore THEN Unreferenced(s) ELSE s = gates[t]
       /\ refs' = [refs EXCEPT ![s] = IF gates[t] = NoSemaphore THEN 1 ELSE @ + 1]
       /\ sem' = [sem EXCEPT ![s] = IF gates[t] = NoSemaphore THEN 0 ELSE @]
       /\ gates' = [gates EXCEPT ![t] = s]
       /\ gate' = [gate EXCEPT ![c] = s]
  /\ pc' = [pc EXCEPT ![c] = "waiting"]
  /\ scope' = [scope EXCEPT ![c] = t]
  /\ UNCHANGED <<closing, ctxDone, reply>>

\* The body of release: uncount the caller and delete the thread's map entry
\* if asked to, whatever that entry points to by now.
ReleaseAnd(c, delete) ==
  /\ pc[c] = "leaving"
  /\ refs' = [refs EXCEPT ![gate[c]] = @ - 1]
  /\ gates' = IF delete THEN [gates EXCEPT ![scope[c]] = NoSemaphore] ELSE gates
  /\ pc' = [pc EXCEPT ![c] = "idle"]
  /\ scope' = [scope EXCEPT ![c] = NoThread]
  /\ gate' = [gate EXCEPT ![c] = NoSemaphore]
  /\ ctxDone' = ctxDone \ {c}
  /\ UNCHANGED <<closing, sem, reply>>

\* Faulty variants of the operations, each a bug that one of the properties
\* below notices; no specification uses them.
RetainWhileClosing(c, t) == RetainIf(c, t, TRUE)
ReleaseIgnoringRefs(c) == ReleaseAnd(c, sem[gate[c]] = 0)
ReleaseKeepingEntry(c) == ReleaseAnd(c, FALSE)
DrainNothing(c) ==
  /\ pc[c] = "running"
  /\ pc' = [pc EXCEPT ![c] = "leaving"]
  /\ UNCHANGED <<gateVars, scope, gate, ctxDone, reply>>
OutstandingHolders == \E t \in Threads : gates[t] # NoSemaphore /\ sem[gates[t]] > 0
BusyWhenMapped(t) == gates[t] # NoSemaphore

\* retain, under g.mu.  A closing gate refuses, and then nothing changes.
Retain(c, t) == RetainIf(c, t, ~closing)

\* The first branch of Acquire's select: the token fits into the channel.
Enter(c) ==
  /\ pc[c] = "waiting"
  /\ sem[gate[c]] = 0
  /\ sem' = [sem EXCEPT ![gate[c]] = 1]
  /\ pc' = [pc EXCEPT ![c] = "running"]
  /\ UNCHANGED <<gates, closing, refs, scope, gate, ctxDone, reply>>

\* The second branch.  Select may take either when both are ready.
Abandon(c) ==
  /\ pc[c] = "waiting"
  /\ c \in ctxDone
  /\ pc' = [pc EXCEPT ![c] = "leaving"]
  /\ UNCHANGED <<gateVars, scope, gate, ctxDone, reply>>

\* The returned release function's first statement, <-gate.sem.
Drain(c) ==
  /\ pc[c] = "running"
  /\ sem[gate[c]] = 1
  /\ sem' = [sem EXCEPT ![gate[c]] = 0]
  /\ pc' = [pc EXCEPT ![c] = "leaving"]
  /\ UNCHANGED <<gates, closing, refs, scope, gate, ctxDone, reply>>

\* release, under g.mu: the last user of an empty semaphore deletes its entry.
Release(c) == ReleaseAnd(c, refs[gate[c]] - 1 <= 0 /\ sem[gate[c]] = 0)

\* The caller's context is cancelled or times out, at any point of its call.
CancelContext(c) ==
  /\ pc[c] # "idle"
  /\ ctxDone' = ctxDone \cup {c}
  /\ UNCHANGED <<gateVars, pc, scope, gate, reply>>

\* outstanding > 0: some mapped semaphore is counted by a caller.
Outstanding ==
  \E t \in Threads : gates[t] # NoSemaphore /\ refs[gates[t]] > 0

BeginShutdown(force) ==
  /\ IF Outstanding /\ ~force
       THEN reply' = "refused" /\ UNCHANGED closing
       ELSE reply' = (IF Outstanding THEN "forced" ELSE "idle") /\ closing' = TRUE
  /\ UNCHANGED <<gates, refs, sem, callerVars>>

\* What the heartbeat and the wake-up scheduler ask before they deliver.
Busy(t) == gates[t] # NoSemaphore /\ sem[gates[t]] > 0

CallerStep(c) ==
  \/ \E t \in Threads : Retain(c, t)
  \/ Enter(c)
  \/ Abandon(c)
  \/ Drain(c)
  \/ Release(c)
  \/ CancelContext(c)

Next ==
  \/ \E c \in Callers : CallerStep(c)
  \/ \E force \in BOOLEAN : BeginShutdown(force)

Spec == Init /\ [][Next]_vars

\* A blocked send is queued first-in first-out by the Go runtime, so a waiter
\* whose channel keeps becoming free is admitted: strong fairness of Enter.
\* That a turn ends, and that statements after it run, is weak fairness.
FairSpec ==
  /\ Spec
  /\ \A c \in Callers :
       SF_vars(Enter(c)) /\ WF_vars(Abandon(c)) /\ WF_vars(Drain(c)) /\ WF_vars(Release(c))
------------------------------------------------------------------------------
\* Every variable has its type; in particular no reference count is ever
\* negative and no semaphore ever holds more than its one token.
TypeOK ==
  /\ gates \in [Threads -> Semaphores \cup {NoSemaphore}]
  /\ closing \in BOOLEAN
  /\ refs \in [Semaphores -> Nat]
  /\ sem \in [Semaphores -> {0, 1}]
  /\ pc \in [Callers -> {"idle", "waiting", "running", "leaving"}]
  /\ scope \in [Callers -> Threads \cup {NoThread}]
  /\ gate \in [Callers -> Semaphores \cup {NoSemaphore}]
  /\ ctxDone \in SUBSET Callers
  /\ reply \in {"none", "refused", "forced", "idle"}

\* No two turns of one thread run at the same time, although semaphores are
\* deleted and recreated while other callers still hold pointers to old ones.
MutualExclusion ==
  \A c, d \in Callers :
    pc[c] = "running" /\ pc[d] = "running" /\ scope[c] = scope[d] => c = d

\* Once BeginShutdown has answered that nothing was outstanding, no turn is
\* running, queued or leaving, and none ever starts: the process may exit.
IdleShutdownIsFinal ==
  reply = "idle" => closing /\ \A c \in Callers : pc[c] = "idle"

\* A semaphore is mapped exactly while some caller uses it for that thread:
\* the map neither leaks an entry nor loses one a caller still waits on.
EntriesAreUsed ==
  \A t \in Threads, s \in Semaphores :
    gates[t] = s <=> \E c \in Callers : scope[c] = t /\ gate[c] = s

\* Busy answers TRUE exactly while a turn of the thread holds the gate; a
\* queued turn does not make its thread busy.
BusyIffRunning ==
  \A t \in Threads : Busy(t) <=> \E c \in Callers : pc[c] = "running" /\ scope[c] = t

\* The gate implements TurnAdmission: a leaving caller is already outside.
Admission ==
  INSTANCE TurnAdmission WITH
    stage <- [c \in Callers |-> IF pc[c] = "waiting" THEN "queued"
                                ELSE IF pc[c] = "running" THEN "running" ELSE "out"],
    scope <- [c \in Callers |-> IF pc[c] \in {"waiting", "running"}
                                  THEN scope[c] ELSE NoThread],
    open <- ~closing

ImplementsAdmission == Admission!Spec

\* A caller that waits for its thread is admitted or gives up.
WaitersSettle ==
  \A c \in Callers : pc[c] = "waiting" ~> pc[c] \in {"running", "leaving"}
==============================================================================
