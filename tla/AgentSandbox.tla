---------------------------- MODULE AgentSandbox ----------------------------
(***************************************************************************)
(* The container of one thread and one agent component: the turns that run *)
(* an agent in it (internal/component/codex), the commands that start,     *)
(* stop, refresh and interrupt it (agentcommon, broker/runtime_control),   *)
(* the Docker runtime between them, and the lock per sandbox               *)
(* (internal/sandboxengine).  The lock is held while an agent runs, and    *)
(* let go between the steps of a turn.                                     *)
(*                                                                         *)
(* The turn gate lets one turn run at a time; commands do not pass it.     *)
(* An agent writes its last message to a file of the container, which the  *)
(* turn reads in a second call.                                            *)
(***************************************************************************)
EXTENDS Naturals, FiniteSets

CONSTANTS
  AgentTurns,        \* turns of the thread
  SandboxCommands,   \* commands about its container
  NoOne,             \* no turn
  MaxSandboxFaults   \* bound: calls of Docker that fail, exits, turns cut off

ASSUME SandboxAssumption ==
  /\ AgentTurns \cap SandboxCommands = {}
  /\ AgentTurns \cap {NoOne, "open", "error", "silent"} = {}
  /\ MaxSandboxFaults \in Nat

VARIABLES
  at,            \* where each turn or command is
  doing,         \* what it does there
  container,     \* "missing", "created", "exited" or "running"
  prepared,      \* whether bootstrap.sh ran since the container was started
  agents,        \* turns whose agent is alive in the container
  lastMessage,   \* the turn whose agent wrote the file, or NoOne
  keepRunning,   \* keep_running of the thread's state
  keepCopy,      \* what each turn has read of it
  active,        \* activeCommand: the turn whose agent runs, or NoOne
  interrupted,   \* the mark of the container
  reply,         \* "open", "error", "silent", or the turn whose message it is
  sandboxFaults, \* faults so far
  launched,      \* history: turns whose agent was started
  hit,           \* history: turns that an interrupt met
  cutTurns,        \* history: turns whose agent was left alive
  excused        \* history: whether a race or fault may leave the container up
sandboxVars == <<at, doing, container, prepared, agents, lastMessage, keepRunning, keepCopy,
                 active, interrupted, reply, sandboxFaults, launched, hit, cutTurns, excused>>

SandboxCallers == AgentTurns \cup SandboxCommands
StartCommands == {"start", "start thread", "start kept"}
StopCommands == {"stop", "stop kept"}

SandboxInit ==
  /\ at = [c \in SandboxCallers |-> "new"]
  /\ doing = [c \in SandboxCallers |-> "nothing"]
  /\ container = "missing" /\ prepared = FALSE /\ agents = {} /\ lastMessage = NoOne
  /\ keepRunning = FALSE /\ keepCopy = [t \in AgentTurns |-> FALSE]
  /\ active = NoOne /\ interrupted = FALSE
  /\ reply = [t \in AgentTurns |-> "open"]
  /\ sandboxFaults = 0 /\ launched = {} /\ hit = {} /\ cutTurns = {} /\ excused = FALSE

----------------------------------------------------------------------------
(* The lock and the container. *)

\* withLock: an agent holds the lock of the sandbox from the check of its
\* container to its end; the other holders are one step.
LockIsFree == \A t \in AgentTurns : at[t] \notin {"begun", "running"}

InProgress(callers) == {c \in callers : at[c] \notin {"new", "end"}}
Up == container = "running"
SandboxFault == sandboxFaults < MaxSandboxFaults /\ sandboxFaults' = sandboxFaults + 1

\* ensureReady creates the container if it is missing and starts it if it does
\* not run.  A new container has no files of its own.
Restart ==
  /\ container' = "running"
  /\ lastMessage' = IF container = "missing" THEN NoOne ELSE lastMessage
EnsureReady == Restart /\ UNCHANGED sandboxFaults
ScriptFails == Restart /\ SandboxFault

\* A call of Docker that fails may have started the container all the same.
EnsureFails ==
  /\ SandboxFault
  /\ container' \in {container, "running"} \cup (IF container = "missing" THEN {"created"} ELSE {})
  /\ UNCHANGED lastMessage

\* A container that stops takes its processes along, one that is removed its files.
TakeDown(state) ==
  /\ container' = state /\ agents' = {} /\ prepared' = FALSE
  /\ lastMessage' = IF state = "missing" THEN NoOne ELSE lastMessage

Unmoved == UNCHANGED <<container, agents, prepared, lastMessage>>

StopContainer == IF Up THEN TakeDown("exited") ELSE Unmoved

GoTo(c, place) == at' = [at EXCEPT ![c] = place]
Reply(t, r) == reply' = IF reply[t] = "open" THEN [reply EXCEPT ![t] = r] ELSE reply

----------------------------------------------------------------------------
(* ensureSandboxReady, of turns and of the commands of an agent *)

\* The caller has its container, and goes on to what it is for.  Runtime.Start
\* asks Docker for its state once more.
Proceed(c) == GoTo(c, CASE c \in AgentTurns -> "go" [] doing[c] = "start kept" -> "end"
                      [] doing[c] = "start thread" -> "set" [] OTHER -> "inspect")

\* A turn whose run failed still tries to read its message.
GiveUp(c) ==
  /\ at' = [at EXCEPT ![c] = CASE doing[c] = "run" -> "ensure"
                               [] doing[c] = "read" -> "finish" [] OTHER -> "end"]
  /\ doing' = [doing EXCEPT ![c] = IF doing[c] = "run" THEN "read" ELSE doing[c]]
  /\ IF c \in AgentTurns THEN Reply(c, "error") ELSE UNCHANGED reply

\* Only a container that was started here is prepared, and not by the commands
\* of the broker, which call Ensure themselves.
Ensure(c) ==
  /\ at[c] = "ensure" /\ LockIsFree
  /\ \/ EnsureReady /\ prepared' = (prepared /\ Up) /\ UNCHANGED <<doing, reply, excused>>
        /\ IF Up \/ doing[c] \in {"start thread", "start kept"} THEN Proceed(c) ELSE GoTo(c, "bootstrap")
     \/ EnsureFails /\ GiveUp(c) /\ UNCHANGED prepared
        /\ excused' = (excused \/ (c \in SandboxCommands /\ ~Up /\ container' = "running"))
  /\ UNCHANGED <<agents, keepRunning, keepCopy, active, interrupted, launched, hit, cutTurns>>

\* runHomeBootstrap, under the lock anew.  The script may fail or take too long.
Bootstrap(c) ==
  /\ at[c] = "bootstrap" /\ LockIsFree
  /\ \/ EnsureReady /\ prepared' = TRUE /\ Proceed(c) /\ UNCHANGED <<doing, reply, excused>>
     \/ /\ \/ EnsureFails /\ UNCHANGED prepared
           \/ ScriptFails /\ prepared' \in {prepared /\ Up, TRUE}
        /\ GiveUp(c) /\ excused' = (excused \/ c \in SandboxCommands)
  /\ UNCHANGED <<agents, keepRunning, keepCopy, active, interrupted, launched, hit, cutTurns>>

----------------------------------------------------------------------------
(* A turn: HandleTurn and RunTurn. *)

\* The settings are read once, before the agent runs.
BeginTurn(t) ==
  /\ at[t] = "new" /\ InProgress(AgentTurns) = {}
  /\ GoTo(t, "ensure") /\ doing' = [doing EXCEPT ![t] = "run"]
  /\ keepCopy' = [keepCopy EXCEPT ![t] = keepRunning]
  /\ UNCHANGED <<container, prepared, agents, lastMessage, keepRunning, active, interrupted,
                 reply, sandboxFaults, launched, hit, cutTurns, excused>>

\* execWithOptions takes the lock, makes sure of the container, and registers
\* the command.  If the container cannot be had, a mark that was left by an
\* earlier interrupt makes the failure look like an interrupt.
TakeSandbox(t) ==
  /\ at[t] = "go" /\ doing[t] = "run" /\ LockIsFree
  /\ \/ EnsureReady /\ GoTo(t, "begun") /\ active' = t
        /\ prepared' = (prepared /\ Up) /\ UNCHANGED <<doing, reply>>
     \/ EnsureFails /\ UNCHANGED <<active, prepared>>
        /\ IF interrupted THEN GoTo(t, "finish") /\ Reply(t, "silent") /\ UNCHANGED doing
                          ELSE GiveUp(t)
  /\ UNCHANGED <<agents, keepRunning, keepCopy, interrupted, launched, hit, cutTurns, excused>>

\* Faulty variant: the mark of an earlier interrupt is kept.
LaunchKeepingMark(t) ==
  /\ at[t] = "begun" /\ GoTo(t, "running")
  /\ agents' = IF Up THEN agents \cup {t} ELSE agents
  /\ launched' = launched \cup {t}
  /\ UNCHANGED <<doing, container, prepared, lastMessage, keepRunning, keepCopy, active, interrupted,
                 reply, sandboxFaults, hit, cutTurns, excused>>

\* Container.Exec clears the mark and starts the agent.
Launch(t) ==
  /\ at[t] = "begun" /\ GoTo(t, "running")
  /\ interrupted' = FALSE
  /\ agents' = IF Up THEN agents \cup {t} ELSE agents
  /\ launched' = launched \cup {t}
  /\ UNCHANGED <<doing, container, prepared, lastMessage, keepRunning, keepCopy, active, reply,
                 sandboxFaults, hit, cutTurns, excused>>

ToRead(t) == GoTo(t, "ensure") /\ doing' = [doing EXCEPT ![t] = "read"]

AgentSucceeds(t) ==
  /\ t \in agents /\ agents' = agents \ {t} /\ lastMessage' = t
  /\ ToRead(t) /\ UNCHANGED reply

\* Faulty variant: a failed run is forgotten if a message can be read.
AgentFailsForgiven(t) ==
  /\ agents' = agents \ {t} /\ UNCHANGED lastMessage
  /\ IF interrupted THEN GoTo(t, "finish") /\ Reply(t, "silent") /\ UNCHANGED doing
                    ELSE ToRead(t) /\ UNCHANGED reply

\* Faulty variant: an interrupted turn leaves at once.
AgentFailsLeaving(t) ==
  /\ agents' = agents \ {t} /\ UNCHANGED lastMessage
  /\ IF interrupted THEN GoTo(t, "end") /\ Reply(t, "silent") /\ UNCHANGED doing
                    ELSE ToRead(t) /\ Reply(t, "error")

\* The agent failed, was interrupted, or went with its container.
AgentFails(t) ==
  /\ agents' = agents \ {t} /\ UNCHANGED lastMessage
  /\ IF interrupted THEN GoTo(t, "finish") /\ Reply(t, "silent") /\ UNCHANGED doing
                    ELSE ToRead(t) /\ Reply(t, "error")

\* Its context is done: the Docker client is killed, the agent goes on.  The
\* read fails at once.
AgentCutOff(t) ==
  /\ t \in agents /\ UNCHANGED <<agents, lastMessage, doing>>
  /\ GoTo(t, "finish") /\ \E r \in {"error"} \cup (IF interrupted THEN {"silent"} ELSE {}) : Reply(t, r)

RunEnds(t) ==
  /\ at[t] = "running" /\ active' = NoOne
  /\ \/ AgentSucceeds(t) /\ UNCHANGED <<cutTurns, sandboxFaults>>
     \/ AgentFails(t) /\ UNCHANGED <<cutTurns, sandboxFaults>>
     \/ AgentCutOff(t) /\ SandboxFault /\ cutTurns' = cutTurns \cup {t}
  /\ UNCHANGED <<container, prepared, keepRunning, keepCopy, interrupted, launched, hit, excused>>

\* The message is read by another call, which starts the container if it must.
ReadMessage(t) ==
  /\ at[t] = "go" /\ doing[t] = "read" /\ LockIsFree
  /\ \/ EnsureReady /\ prepared' = (prepared /\ Up)
        /\ Reply(t, IF lastMessage' # NoOne THEN lastMessage'
                     ELSE IF interrupted THEN "silent" ELSE "error")
     \/ EnsureFails /\ UNCHANGED prepared /\ Reply(t, IF interrupted THEN "silent" ELSE "error")
  /\ GoTo(t, "finish")
  /\ UNCHANGED <<doing, agents, keepRunning, keepCopy, active, interrupted, launched, hit, cutTurns,
                 excused>>

\* StopAfterTurn, unless the settings said otherwise when the turn began.  It
\* has five seconds, and its failure is only logged.
FinishTurn(t) ==
  /\ at[t] = "finish" /\ GoTo(t, "end")
  /\ IF keepCopy[t]
     THEN /\ Unmoved /\ UNCHANGED sandboxFaults
          /\ excused' = (excused \/ ~keepRunning \/ InProgress(SandboxCommands) # {})
     ELSE /\ LockIsFree
          /\ \/ StopContainer /\ UNCHANGED <<sandboxFaults, excused>>
             \/ Unmoved /\ SandboxFault /\ excused' = TRUE
  /\ UNCHANGED <<doing, keepRunning, keepCopy, active, interrupted, reply, launched, hit, cutTurns>>

\* An agent that was cut off ends on its own, and may write its message.
LeftAgentEnds(t) ==
  /\ t \in agents /\ at[t] # "running"
  /\ agents' = agents \ {t} /\ lastMessage' \in {t, lastMessage}
  /\ UNCHANGED <<at, doing, container, prepared, keepRunning, keepCopy, active, interrupted, reply,
                 sandboxFaults, launched, hit, cutTurns, excused>>

ContainerExits ==
  /\ Up /\ SandboxFault /\ TakeDown("exited")
  /\ UNCHANGED <<at, doing, keepRunning, keepCopy, active, interrupted, reply, launched, hit,
                 cutTurns, excused>>

----------------------------------------------------------------------------
(* Commands: of the agent component, of the thread, and of all threads whose *)
(* sandboxes are kept running.                                               *)

GiveSandboxCommand(c) ==
  /\ at[c] = "new"
  /\ \E kind \in StartCommands \cup StopCommands \cup {"refresh", "purge", "interrupt"} :
       /\ kind \in {"start kept", "stop kept"} => keepRunning
       /\ kind = "interrupt" => active # NoOne
       /\ doing' = [doing EXCEPT ![c] = kind]
       /\ GoTo(c, CASE kind \in StartCommands -> "ensure" [] kind \in StopCommands -> "stop"
                  [] kind = "interrupt" -> "kill" [] OTHER -> "remove")
  /\ excused' = (excused \/ InProgress(SandboxCommands) # {})
  /\ UNCHANGED <<container, prepared, agents, lastMessage, keepRunning, keepCopy, active,
                 interrupted, reply, sandboxFaults, launched, hit, cutTurns>>

\* Stop and Remove do not change keep_running: that is a step of its own.
StopOrRemove(c) ==
  /\ at[c] \in {"stop", "remove"} /\ LockIsFree
  /\ \/ /\ IF at[c] = "stop" THEN StopContainer ELSE TakeDown("missing")
        /\ GoTo(c, IF doing[c] \in {"stop", "purge"} THEN "set" ELSE "end")
        /\ UNCHANGED <<sandboxFaults, excused>>
     \/ Unmoved /\ SandboxFault /\ GoTo(c, "end") /\ UNCHANGED excused
  /\ UNCHANGED <<doing, keepRunning, keepCopy, active, interrupted, reply, launched, hit, cutTurns>>

\* statusForSandbox: without the state of its container, a start is an error.
InspectStatus(c) ==
  /\ at[c] = "inspect"
  /\ \/ GoTo(c, "set") /\ UNCHANGED <<sandboxFaults, excused>>
     \/ GoTo(c, "end") /\ SandboxFault /\ excused' = TRUE
  /\ UNCHANGED <<doing, container, prepared, agents, lastMessage, keepRunning, keepCopy, active,
                 interrupted, reply, launched, hit, cutTurns>>

\* It is not reached if saving fails, or another sandbox of the thread failed.
SetKeepRunning(c) ==
  /\ at[c] = "set" /\ GoTo(c, "end")
  /\ \/ keepRunning' = (doing[c] \in StartCommands) /\ UNCHANGED <<sandboxFaults, excused>>
     \/ SandboxFault /\ excused' = (excused \/ doing[c] \in StartCommands) /\ UNCHANGED keepRunning
  /\ UNCHANGED <<doing, container, prepared, agents, lastMessage, keepCopy, active, interrupted,
                 reply, launched, hit, cutTurns>>

\* Interrupt has seen an active command.  It marks the container and signals
\* the process of the last one, without the lock.
Interrupt(c) ==
  /\ at[c] = "kill" /\ GoTo(c, "end")
  /\ interrupted' = TRUE /\ hit' = hit \cup InProgress(AgentTurns)
  /\ UNCHANGED <<doing, container, prepared, agents, lastMessage, keepRunning, keepCopy, active,
                 reply, sandboxFaults, launched, cutTurns, excused>>

----------------------------------------------------------------------------
SandboxNext ==
  \/ \E c \in SandboxCallers : Ensure(c) \/ Bootstrap(c)
  \/ \E t \in AgentTurns : \/ BeginTurn(t) \/ TakeSandbox(t) \/ Launch(t) \/ RunEnds(t)
                           \/ ReadMessage(t) \/ FinishTurn(t) \/ LeftAgentEnds(t)
  \/ \E c \in SandboxCommands : \/ GiveSandboxCommand(c) \/ StopOrRemove(c)
                                \/ InspectStatus(c) \/ SetKeepRunning(c) \/ Interrupt(c)
  \/ ContainerExits

SandboxSpec == SandboxInit /\ [][SandboxNext]_sandboxVars

----------------------------------------------------------------------------
SandboxTypeOK ==
  /\ at \in [SandboxCallers -> {"new", "ensure", "bootstrap", "inspect", "go", "begun", "running",
                                "finish", "stop", "remove", "set", "kill", "end"}]
  /\ container \in {"missing", "created", "exited", "running"}
  /\ prepared \in BOOLEAN /\ (prepared => Up)
  /\ agents \subseteq AgentTurns /\ (agents # {} => Up)
  /\ lastMessage \in AgentTurns \cup {NoOne}
  /\ keepRunning \in BOOLEAN /\ keepCopy \in [AgentTurns -> BOOLEAN]
  /\ active \in AgentTurns \cup {NoOne} /\ (active # NoOne => ~LockIsFree)
  /\ interrupted \in BOOLEAN
  /\ \A t \in AgentTurns : reply[t] \in {"open", "error", "silent"} \cup AgentTurns
  /\ sandboxFaults \in 0..MaxSandboxFaults
  /\ launched \subseteq AgentTurns /\ hit \subseteq AgentTurns /\ cutTurns \subseteq launched
  /\ excused \in BOOLEAN

\* The message a turn answers with is its own: neither the file of an earlier
\* turn, nor of a container that was replaced - only an agent that was left
\* alive when its turn was cut off can put its own there (codex/exec.go:117).
OwnAnswers == \A t \in AgentTurns : reply[t] \in {"open", "error", "silent", t} \cup cutTurns

\* A turn ends without an answer or an error only if it was interrupted, not
\* because an earlier one was (spec.go:96) - unless its container failed
\* between two checks, before the old mark was cleared (runtime.go:252).
SilentTurnsWereInterrupted ==
  \A t \in AgentTurns : reply[t] = "silent" => t \in hit \/ t \notin launched

\* When no turn and no command is in progress, a container that is not to be
\* kept is down, whatever the turns met (component.go:315): but for a stop that
\* failed, a command to start it that failed after Docker had started it (in
\* bootstrap, at the inspection of Runtime.Start, before or at saving the
\* setting: commands.go:173-178), overlapping commands, and a turn that read
\* keep_running before it was cleared.
SandboxesStop ==
  InProgress(SandboxCallers) = {} /\ Up => keepRunning \/ excused

\* When nothing is in progress, bootstrap.sh has run since the container was
\* created or started: it "runs when ctgbot creates or starts the sandbox"
\* (home.go:150).
StartedSandboxesArePrepared == InProgress(SandboxCallers) = {} /\ Up => prepared
==============================================================================
