--------------------------- MODULE InferenceServer ---------------------------
(***************************************************************************)
(* The llama.cpp server of one model: the sessions of the component that   *)
(* share it (internal/component/llamacpp), the lane their requests queue   *)
(* for (internal/workgate), and the process that the native backend owns   *)
(* (internal/runtime/backend).  A session starts the server when it is not *)
(* running, and the last one stops it, at once or after an idle timeout.   *)
(* Users of the chat start and stop it by command, the process ends on its *)
(* own, and the run closes it at its end.                                  *)
(***************************************************************************)
EXTENDS Naturals, FiniteSets

CONSTANTS
  LlamaSessions,      \* calls of BeginInferenceSession
  IdleSessions,       \* the ones with an idle timeout; the others stop at once
  LlamaCommand,       \* the call of the start command
  Nobody,             \* no session, no command
  KeepRunning,        \* the component's configuration
  MaxConcurrent,      \* requests the lane of a model admits; 0: no limit
  MaxLlamaCommands,   \* bound: start and stop commands
  MaxServerFaults     \* bound: exits, and stops that do not end the process

ASSUME LlamaAssumption ==
  /\ IsFiniteSet(LlamaSessions)
  /\ IdleSessions \subseteq LlamaSessions
  /\ LlamaCommand \notin LlamaSessions /\ Nobody \notin LlamaSessions \cup {LlamaCommand}
  /\ KeepRunning \in BOOLEAN
  /\ {MaxConcurrent, MaxLlamaCommands, MaxServerFaults} \subseteq Nat

VARIABLES
  llamaSession,    \* where the caller of each session is
  wasRunning,      \* what it found before it started the server
  manager,         \* modelRuntimeState: activeSessions, autoManaged, idleStop
  idleTimer,       \* the timer the end of each session armed
  process,         \* the child: cmd and done of the nativeRuntime
  starter,         \* who is inside nativeRuntime.Start, and holds its mutex
  closing,         \* Factory.Close: "open", "cancelled" or "closed"
  commandsGiven,   \* commands so far
  faultsMet,       \* faults so far
  owner,           \* history: who minds the process, "contested" if races blur it
  cutOff           \* history: sessions that may rightly miss the server
llamaVars == <<llamaSession, wasRunning, manager, idleTimer, process, starter,
               closing, commandsGiven, faultsMet, owner, cutOff>>

----------------------------------------------------------------------------
At(place) == {s \in LlamaSessions : llamaSession[s] = place}

\* Begun and not yet given back.
Using == At("open") \cup At("waiting") \cup At("inferring") \cup At("served")

\* runtimeMu is held from the first look at the server to the end of its start.
ManagerIsFree == At("looked") \cup At("starting") = {}

\* The backend's mutex is held while a start waits for the server to be ready.
ServerIsFree == starter = Nobody

\* A child that was killed and not yet reaped counts as running.
Alive == process \in {"starting", "ready", "dying"}

\* A stop that was decided under runtimeMu and has not reached the server.
StopPending == At("stopping") # {} \/ \E s \in LlamaSessions : idleTimer[s] = "stopping"

MoveTo(s, place) == llamaSession' = [llamaSession EXCEPT ![s] = place]

LlamaInit ==
  /\ llamaSession = [s \in LlamaSessions |-> "new"]
  /\ wasRunning = [s \in LlamaSessions |-> FALSE]
  /\ manager = [active |-> 0, auto |-> FALSE, idle |-> Nobody]
  /\ idleTimer = [s \in LlamaSessions |-> "none"]
  /\ process = "none" /\ starter = Nobody /\ closing = "open"
  /\ commandsGiven = 0 /\ faultsMet = 0
  /\ owner = "sessions" /\ cutOff = {}

----------------------------------------------------------------------------
(* The child process. *)

ServerFault == faultsMet < MaxServerFaults /\ faultsMet' = faultsMet + 1

\* stopLocked and its outcomes: the child is gone; it ended, and Wait failed
\* because a descendant holds its output ("stuck"); it survives the kill for
\* now.  A handle whose Wait failed is kept: every later call fails again.
StopChild ==
  \/ Alive /\ process' \in {"stuck", "dying"} /\ ServerFault
  \/ process' = (IF process = "stuck" THEN "stuck" ELSE "none") /\ UNCHANGED faultsMet

\* Faulty variant: a start that comes after Close.
StartRefusedStuck == process = "stuck"

\* Start does nothing once the run closes, or with a handle it cannot clear.
StartRefused == closing # "open" \/ process = "stuck"

Spawn(c) == process' = "starting" /\ starter' = c

\* The server did not become ready: it ended, the time or the context of the
\* caller is up, or the run is closing.  Start stops what it has started.
StartFails == starter' = Nobody /\ StopChild

\* The child ends by itself.  Wait returns, and nobody is told.
ChildExits ==
  /\ \/ process \in {"starting", "ready"} /\ ServerFault /\ process' \in {"ended", "stuck"}
     \/ process = "dying" /\ process' = "ended" /\ UNCHANGED faultsMet
  /\ cutOff' = cutOff \cup Using
  /\ UNCHANGED <<llamaSession, wasRunning, manager, idleTimer, starter, closing, commandsGiven, owner>>

----------------------------------------------------------------------------
(* The life of a session. *)

\* Stop prevents a timer that has not fired, and no other.
Disarmed ==
  [s \in LlamaSessions |->
     IF s = manager.idle /\ idleTimer[s] = "armed" THEN "none" ELSE idleTimer[s]]

\* beginSession looks up the server of its model, takes runtimeMu, cancels the
\* idle timer and asks whether the server runs.
Look(s) ==
  /\ llamaSession[s] = "new" /\ ManagerIsFree /\ ServerIsFree
  /\ manager' = [manager EXCEPT !.idle = Nobody]
  /\ idleTimer' = Disarmed
  /\ wasRunning' = [wasRunning EXCEPT ![s] = Alive]
  /\ MoveTo(s, "looked")
  /\ cutOff' = IF StopPending THEN cutOff \cup {s} ELSE cutOff
  /\ UNCHANGED <<process, starter, closing, commandsGiven, faultsMet, owner>>

\* Once the run closes no server is bound any more.
Unbound(s) ==
  /\ llamaSession[s] = "new" /\ closing # "open"
  /\ MoveTo(s, "ended")
  /\ UNCHANGED <<wasRunning, manager, idleTimer, process, starter, closing, commandsGiven,
                 faultsMet, owner, cutOff>>

\* Faulty variant: whether it is the component's depends on the last session.
OpenedAnew(s) ==
  /\ manager' = [manager EXCEPT !.active = @ + 1, !.auto = ~wasRunning[s]]
  /\ MoveTo(s, "open")

\* Faulty variant: every server a session has used is the component's.
OpenedTakingOver(s) ==
  /\ manager' = [manager EXCEPT !.active = @ + 1, !.auto = TRUE]
  /\ MoveTo(s, "open")

\* The server runs: it is the component's to stop if it did not run before.
Opened(s) ==
  /\ manager' = [manager EXCEPT !.active = @ + 1, !.auto = @ \/ ~wasRunning[s]]
  /\ MoveTo(s, "open")

\* Start finds the server alive.
Join(s) ==
  /\ llamaSession[s] = "looked" /\ ServerIsFree /\ ~StartRefused /\ Alive
  /\ Opened(s)
  /\ cutOff' = IF process = "dying" THEN cutOff \cup {s} ELSE cutOff
  /\ UNCHANGED <<wasRunning, idleTimer, process, starter, closing, commandsGiven, faultsMet, owner>>

\* Start spawns a child.  It was alive a moment ago if a stop came in between:
\* then nobody will mind the new one.
StartServer(s) ==
  /\ llamaSession[s] = "looked" /\ ServerIsFree /\ ~StartRefused /\ ~Alive
  /\ Spawn(s)
  /\ MoveTo(s, "starting")
  /\ owner' = IF wasRunning[s] THEN "contested" ELSE "sessions"
  /\ UNCHANGED <<wasRunning, manager, idleTimer, closing, commandsGiven, faultsMet, cutOff>>

Ready(s) ==
  /\ starter = s /\ process = "starting"
  /\ process' = "ready" /\ starter' = Nobody
  /\ Opened(s)
  /\ UNCHANGED <<wasRunning, idleTimer, closing, commandsGiven, faultsMet, owner, cutOff>>

\* Start fails: its context is done, it is refused, the port is taken, or the
\* child does not become ready.  The idle timer stays cancelled.
BeginFails(s) ==
  /\ \/ llamaSession[s] = "looked" /\ ServerIsFree /\ UNCHANGED <<process, starter, faultsMet>>
     \/ starter = s /\ StartFails
  /\ MoveTo(s, "ended")
  /\ owner' = IF starter # s /\ Alive /\ manager.active = 0 THEN "contested" ELSE owner
  /\ UNCHANGED <<wasRunning, manager, idleTimer, closing, commandsGiven, cutOff>>

\* A request waits for the lane of the model, if it is limited, and gives up
\* when its context is done.
LaneIsFree == MaxConcurrent = 0 \/ Cardinality(At("inferring")) < MaxConcurrent

Infer(s) ==
  /\ \/ llamaSession[s] = "open" /\ MoveTo(s, "waiting")
     \/ llamaSession[s] = "waiting" /\ LaneIsFree /\ MoveTo(s, "inferring")
     \/ llamaSession[s] \in {"waiting", "inferring"} /\ MoveTo(s, "served")
  /\ UNCHANGED <<wasRunning, manager, idleTimer, process, starter, closing, commandsGiven,
                 faultsMet, owner, cutOff>>

\* releaseInferenceSession, under runtimeMu: the last session of a server that
\* is the component's stops it, which it does after it has let the mutex go, or
\* arms a timer.
LastOne == manager.active <= 1
Release(s) ==
  /\ llamaSession[s] \in {"open", "served"} /\ ManagerIsFree
  /\ LET left == [manager EXCEPT !.active = IF @ > 0 THEN @ - 1 ELSE 0] IN
     IF ~LastOne \/ ~manager.auto \/ KeepRunning
     THEN manager' = left /\ MoveTo(s, "ended") /\ UNCHANGED idleTimer
     ELSE IF s \notin IdleSessions
     THEN manager' = [left EXCEPT !.auto = FALSE] /\ MoveTo(s, "stopping") /\ UNCHANGED idleTimer
     ELSE /\ manager' = [left EXCEPT !.idle = s]
          /\ idleTimer' = [Disarmed EXCEPT ![s] = "armed"]
          /\ MoveTo(s, "ended")
  /\ UNCHANGED <<wasRunning, process, starter, closing, commandsGiven, faultsMet, owner, cutOff>>

\* stopAfterInference binds the server, which fails once the run closes, and
\* stops it.
StopAfterInference ==
  \/ ServerIsFree /\ StopChild
  \/ closing # "open" /\ UNCHANGED <<process, faultsMet>>

StopNow(s) ==
  /\ llamaSession[s] = "stopping" /\ StopAfterInference
  /\ MoveTo(s, "ended")
  /\ UNCHANGED <<wasRunning, manager, idleTimer, starter, closing, commandsGiven, owner, cutOff>>

TimerFires(s) ==
  /\ idleTimer[s] = "armed"
  /\ idleTimer' = [idleTimer EXCEPT ![s] = "fired"]
  /\ UNCHANGED <<llamaSession, wasRunning, manager, process, starter, closing, commandsGiven,
                 faultsMet, owner, cutOff>>

\* The callback of a timer stops the server if the timer is still the one that
\* counts.  It lets the mutex go before.
IsCurrentOrLate(s) == TRUE   \* Faulty variant: a cancelled timer that has fired counts.
IsCurrent(s) == manager.idle = s
IdleStop(s) ==
  /\ idleTimer[s] = "fired" /\ ManagerIsFree
  /\ IF IsCurrent(s)
     THEN /\ manager' = [manager EXCEPT !.idle = Nobody, !.auto = FALSE]
          /\ idleTimer' = [idleTimer EXCEPT ![s] = "stopping"]
     ELSE idleTimer' = [idleTimer EXCEPT ![s] = "none"] /\ UNCHANGED manager
  /\ UNCHANGED <<llamaSession, wasRunning, process, starter, closing, commandsGiven, faultsMet,
                 owner, cutOff>>

TimerStops(s) ==
  /\ idleTimer[s] = "stopping" /\ StopAfterInference
  /\ idleTimer' = [idleTimer EXCEPT ![s] = "none"]
  /\ UNCHANGED <<llamaSession, wasRunning, manager, starter, closing, commandsGiven, owner, cutOff>>

----------------------------------------------------------------------------
(* Commands, and the end of the run.  Neither takes runtimeMu. *)

GiveCommand ==
  ServerIsFree /\ commandsGiven < MaxLlamaCommands /\ commandsGiven' = commandsGiven + 1

\* A server started by command is left to its user, unless the component's
\* state still says otherwise or a session is about to find it.
StartCommand ==
  /\ GiveCommand /\ ~StartRefused /\ ~Alive
  /\ Spawn(LlamaCommand)
  /\ owner' = IF manager.auto \/ StopPending \/ ~ManagerIsFree THEN "contested" ELSE "user"
  /\ UNCHANGED <<llamaSession, wasRunning, manager, idleTimer, closing, faultsMet, cutOff>>

StartCommandEnds ==
  /\ starter = LlamaCommand
  /\ \/ process = "starting" /\ process' = "ready" /\ starter' = Nobody /\ UNCHANGED faultsMet
     \/ StartFails
  /\ UNCHANGED <<llamaSession, wasRunning, manager, idleTimer, closing, commandsGiven, owner, cutOff>>

StopCommand ==
  /\ GiveCommand /\ StopChild
  /\ cutOff' = cutOff \cup Using
  /\ UNCHANGED <<llamaSession, wasRunning, manager, idleTimer, starter, closing, owner>>

\* Factory.Close cancels starts, then stops the server once no start holds it.
CancelStarts ==
  /\ closing = "open" /\ closing' = "cancelled"
  /\ cutOff' = LlamaSessions
  /\ UNCHANGED <<llamaSession, wasRunning, manager, idleTimer, process, starter, commandsGiven,
                 faultsMet, owner>>

CloseServer ==
  /\ closing = "cancelled" /\ ServerIsFree
  /\ closing' = "closed" /\ StopChild
  /\ UNCHANGED <<llamaSession, wasRunning, manager, idleTimer, starter, commandsGiven, owner, cutOff>>

SessionStep(s) ==
  \/ Join(s) \/ StartServer(s) \/ Ready(s) \/ BeginFails(s)
  \/ Infer(s) \/ Release(s) \/ StopNow(s)
TimerStep(s) == TimerFires(s) \/ IdleStop(s) \/ TimerStops(s)

LlamaNext ==
  \/ \E s \in LlamaSessions : Look(s) \/ Unbound(s) \/ SessionStep(s) \/ TimerStep(s)
  \/ StartCommand \/ StartCommandEnds \/ StopCommand
  \/ ChildExits \/ CancelStarts \/ CloseServer

LlamaSpec == LlamaInit /\ [][LlamaNext]_llamaVars

\* Goroutines go on and timers fire; a start is given two minutes, requests and
\* stops have timeouts.  Nobody has to begin a session or give a command.
LlamaFairness ==
  /\ \A s \in LlamaSessions : WF_llamaVars(SessionStep(s)) /\ WF_llamaVars(TimerStep(s))
  /\ WF_llamaVars(StartCommandEnds)

----------------------------------------------------------------------------
LlamaTypeOK ==
  /\ llamaSession \in [LlamaSessions -> {"new", "looked", "starting", "open", "waiting",
                                         "inferring", "served", "stopping", "ended"}]
  /\ wasRunning \in [LlamaSessions -> BOOLEAN]
  /\ manager \in [active : 0..Cardinality(LlamaSessions), auto : BOOLEAN,
                  idle : LlamaSessions \cup {Nobody}]
  /\ manager.active = Cardinality(Using)
  /\ idleTimer \in [LlamaSessions -> {"none", "armed", "fired", "stopping"}]
  /\ process \in {"none", "starting", "ready", "dying", "ended", "stuck"}
  /\ starter \in LlamaSessions \cup {LlamaCommand, Nobody}
  /\ closing \in {"open", "cancelled", "closed"}
  /\ commandsGiven \in 0..MaxLlamaCommands /\ faultsMet \in 0..MaxServerFaults
  /\ owner \in {"sessions", "user", "contested"} /\ cutOff \subseteq LlamaSessions

\* A session has its server from its start to its release, whatever other
\* sessions and their idle timers do (component.go:169, :307): only a command,
\* the end of the run or of the process itself takes it away - or a stop that
\* was already decided, outside the mutex, when the session began.
SessionsHaveServer == \A s \in Using \ cutOff : process = "ready"

\* When the run has closed its servers no server is left, be it one that was
\* just starting (native.go:71, runtime.go:243); one that survives a kill may be.
ClosedServersAreGone == closing = "closed" => process \notin {"starting", "ready"}

\* A server that was started by command, with nothing left of earlier sessions,
\* is not stopped by the sessions that use it (component.go:177, :294).
UsersServerStays ==
  [][owner = "user" /\ process = "ready" /\ process' # "ready"
     => commandsGiven' # commandsGiven \/ faultsMet' # faultsMet \/ closing # "open"]_llamaVars

\* A server that the sessions started does not stay when none of them is left,
\* unless a session that failed to begin has cancelled its timer, or one was
\* misled by a stop in progress (component.go:169, :301).
NoSession == Using = {} /\ ManagerIsFree
IdleServersStop ==
  ~KeepRunning =>
    (owner = "sessions" /\ process = "ready" /\ NoSession /\ closing = "open")
      ~> (process # "ready" \/ ~NoSession \/ closing # "open" \/ owner # "sessions")
==============================================================================
