---------------------------- MODULE TurnAdmission ----------------------------
(***************************************************************************)
(* What the broker is promised by its turn gate: a caller queues for one   *)
(* thread, at most one caller runs per thread, and admission can be closed *)
(* for good - politely only while nobody is queued or running.             *)
(* ThreadTurnGate is shown to implement this specification.                *)
(***************************************************************************)
CONSTANTS
  Threads,   \* the thread ids turns are serialised by
  Callers,   \* goroutines that run turns
  NoThread   \* the scope of a caller that is outside

VARIABLES
  stage,     \* "out", "queued" or "running", per caller
  scope,     \* the thread a caller queued for
  open       \* whether admission is still open

vars == <<stage, scope, open>>

Init ==
  /\ stage = [c \in Callers |-> "out"]
  /\ scope = [c \in Callers |-> NoThread]
  /\ open = TRUE

Queue(c, t) ==
  /\ open
  /\ stage[c] = "out"
  /\ stage' = [stage EXCEPT ![c] = "queued"]
  /\ scope' = [scope EXCEPT ![c] = t]
  /\ UNCHANGED open

\* A queued caller starts when nobody else runs in its thread.
Start(c) ==
  /\ stage[c] = "queued"
  /\ \A d \in Callers : stage[d] = "running" => scope[d] # scope[c]
  /\ stage' = [stage EXCEPT ![c] = "running"]
  /\ UNCHANGED <<scope, open>>

\* The end of a turn, or a queued caller that gives up.
Depart(c) ==
  /\ stage[c] # "out"
  /\ stage' = [stage EXCEPT ![c] = "out"]
  /\ scope' = [scope EXCEPT ![c] = NoThread]
  /\ UNCHANGED open

Close(force) ==
  /\ force \/ \A c \in Callers : stage[c] = "out"
  /\ open' = FALSE
  /\ UNCHANGED <<stage, scope>>

Next ==
  \/ \E c \in Callers : Start(c) \/ Depart(c) \/ \E t \in Threads : Queue(c, t)
  \/ \E force \in BOOLEAN : Close(force)

Spec == Init /\ [][Next]_vars

==============================================================================
