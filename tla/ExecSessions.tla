---------------------------- MODULE ExecSessions ----------------------------
(***************************************************************************)
(* One turn of internal/toolloop: the loop that calls a model and runs the *)
(* tools it asks for, and the shell sessions of the turn.                  *)
(*                                                                         *)
(* The loop is one goroutine.  It runs against the processes it started,   *)
(* the goroutine of each session that copies their output and waits for    *)
(* their end, and timers.  A command has ended for the loop (done) when it *)
(* has exited and no process holds its output any more.  Processes of its  *)
(* group are reached by kill; some of them may have redirected their       *)
(* output, and hold nothing up.  A process that left the group is not      *)
(* reached, and may hold the output all the same.                          *)
(*                                                                         *)
(* Output is numbered in chunks, the sizes of the buffer and of a result   *)
(* are numbers of chunks.  Tools without a session (hostbridge, files,     *)
(* patches) and calls that are refused only use up a call.                 *)
(***************************************************************************)
EXTENDS Integers, Sequences, FiniteSets

CONSTANTS
  MaxExecs,        \* bound on the commands started in the turn
  MaxExecSessions, \* maxExecSessions
  OutputCap,       \* maxSessionOutputBytes
  MaxWritten,      \* bound on the chunks a command writes
  MaxIterations,   \* MaxIterations of the request
  MaxToolCalls     \* bound on the tool calls of one answer of the model

ASSUME ExecAssumption ==
  /\ MaxExecs \in Nat /\ MaxExecSessions \in Nat /\ OutputCap \in Nat \ {0}
  /\ MaxWritten \in Nat /\ MaxIterations \in Nat \ {0} /\ MaxToolCalls \in Nat

VARIABLES
  execStage,    \* where the loop is
  execRound, execCalls,  \* the iteration, and the calls of it still to run
  execTarget,   \* the session the loop is busy with, 0 for none
  nextID,       \* sessions started so far
  sessions,     \* keys of Sessions
  processes,    \* per session: the kinds of its processes that are alive
  killed,       \* history: sessions whose group was killed
  done,         \* per session: its done channel is closed
  output,       \* per session: its cappedOutput
  written,      \* history: chunks written by its command
  shown,        \* history: the chunks results showed, in order
  omitted,      \* history: the chunks results counted as omitted
  late          \* history: sessions with chunks from after a last look at them

loopVars == <<execStage, execRound, execCalls, execTarget>>
processVars == <<nextID, processes, killed, done>>
outputVars == <<output, written, shown, omitted, late>>
execVars == <<execStage, execRound, execCalls, execTarget, nextID, sessions, processes, killed, done,
              output, written, shown, omitted, late>>

ExecIds == 1..MaxExecs
EmptyOutput == [content |-> <<>>, dropped |-> 0]

\* The command itself, others of its group with and without its output, and
\* processes that left the group and hold the output.
ProcessKinds == {"leader", "group", "quiet", "outside"}

ExecInit ==
  /\ execStage = "idle" /\ execRound = 0 /\ execCalls = 0 /\ execTarget = 0
  /\ nextID = 0
  /\ sessions = {}
  /\ processes = [id \in ExecIds |-> {}]
  /\ killed = {}
  /\ done = [id \in ExecIds |-> FALSE]
  /\ output = [id \in ExecIds |-> EmptyOutput]
  /\ written = [id \in ExecIds |-> 0]
  /\ shown = [id \in ExecIds |-> <<>>]
  /\ omitted = [id \in ExecIds |-> 0]
  /\ late = {}
------------------------------------------------------------------------------
\* Processes and the goroutine of a session.

\* A process started by the command stays in its group, or leaves it.  One that
\* redirects its output is started here as a quiet one, and the other exits.
Fork(id) ==
  /\ processes[id] \cap {"leader", "group"} # {}
  /\ \E kind \in {"group", "quiet", "outside"} \ processes[id] :
       processes' = [processes EXCEPT ![id] = @ \cup {kind}]
  /\ UNCHANGED <<loopVars, nextID, sessions, killed, done, outputVars>>

\* The last process of a kind exits.
ProcessExits(id) ==
  /\ \E kind \in processes[id] : processes' = [processes EXCEPT ![id] = @ \ {kind}]
  /\ UNCHANGED <<loopVars, nextID, sessions, killed, done, outputVars>>

\* cappedOutput.Write keeps the newest and counts what it drops.
Capped(out, chunk) ==
  IF Len(out.content) < OutputCap
    THEN [out EXCEPT !.content = Append(@, chunk)]
    ELSE [content |-> Append(Tail(out.content), chunk), dropped |-> out.dropped + 1]

\* The loop has read this session's output for the result it is making.
Looked(id) == id = execTarget /\ execStage \in {"drained", "killing", "reaping"}

\* Output in the pipe is copied even when its writers are gone.
WriteOutput(id) ==
  /\ id <= nextID /\ ~done[id] /\ written[id] < MaxWritten
  /\ written' = [written EXCEPT ![id] = @ + 1]
  /\ output' = [output EXCEPT ![id] = Capped(@, written[id] + 1)]
  /\ late' = IF Looked(id) THEN late \cup {id} ELSE late
  /\ UNCHANGED <<loopVars, processVars, sessions, shown, omitted>>

\* ExecSession.wait: Wait returns when the command has exited and its output is
\* closed, whatever else of its group is alive.
CloseDone(id) ==
  /\ id <= nextID /\ processes[id] \subseteq {"quiet"} /\ ~done[id]
  /\ done' = [done EXCEPT ![id] = TRUE]
  /\ UNCHANGED <<loopVars, nextID, sessions, processes, killed, outputVars>>

\* Faulty variant: only the command itself is killed.
KillLeader(id) ==
  /\ processes' = [processes EXCEPT ![id] = @ \ {"leader"}]
  /\ killed' = killed \cup {id}

\* Signals the process group.
Kill(id) ==
  /\ processes' = [processes EXCEPT ![id] = @ \cap {"outside"}]
  /\ killed' = killed \cup {id}

KillUnlessDone(id) == IF done[id] THEN UNCHANGED <<processes, killed>> ELSE Kill(id)
------------------------------------------------------------------------------
\* The loop.

RunBegins ==
  /\ execStage = "idle"
  /\ execStage' = "model"
  /\ UNCHANGED <<execRound, execCalls, execTarget, processVars, sessions, outputVars>>

\* chat fails, or the model gives its final answer, or it asks for tools.
ModelAnswers ==
  /\ execStage = "model"
  /\ \E calls \in 0..MaxToolCalls :
       /\ execCalls' = calls
       /\ execStage' = IF calls = 0 THEN "cleanup" ELSE "tools"
  /\ execRound' = execRound + 1
  /\ UNCHANGED <<execTarget, processVars, sessions, outputVars>>

MoreIterations == execRound < MaxIterations

NextIteration ==
  /\ execStage = "tools" /\ execCalls = 0
  /\ execStage' = IF MoreIterations THEN "model" ELSE "cleanup"
  /\ UNCHANGED <<execRound, execCalls, execTarget, processVars, sessions, outputVars>>

Calling == execStage = "tools" /\ execCalls > 0

CallEnds ==
  /\ execStage' = "tools"
  /\ execCalls' = execCalls - 1
  /\ execTarget' = 0
  /\ UNCHANGED execRound

Goes(stage, id) ==
  /\ execStage' = stage
  /\ execTarget' = id
  /\ UNCHANGED <<execRound, execCalls>>

\* A tool without a session, an unknown session, a refused or failed start.
OtherCall ==
  /\ Calling
  /\ CallEnds
  /\ UNCHANGED <<processVars, sessions, outputVars>>

\* Faulty variant: the buffer is read but stays as it is.
DrainKeeping(id) ==
  /\ shown' = [shown EXCEPT ![id] = @ \o output[id].content]
  /\ late' = late \ {id}
  /\ UNCHANGED <<output, written, omitted>>

\* Drain empties the buffer; max_output_tokens may cut its text to a tail.
Drain(id) ==
  LET content == output[id].content IN
  /\ \E cut \in 0..Len(content) :
       /\ shown' = [shown EXCEPT ![id] = @ \o SubSeq(content, cut + 1, Len(content))]
       /\ omitted' = [omitted EXCEPT ![id] = @ + output[id].dropped + cut]
  /\ output' = [output EXCEPT ![id] = EmptyOutput]
  /\ late' = late \ {id}
  /\ UNCHANGED written

\* Exec starts the command, to wait for its end or only for a yield time.
Exec ==
  /\ Calling
  /\ Cardinality(sessions) < MaxExecSessions /\ nextID < MaxExecs
  /\ nextID' = nextID + 1
  /\ sessions' = sessions \cup {nextID + 1}
  /\ processes' = [processes EXCEPT ![nextID + 1] = {"leader"}]
  /\ \E stage \in {"yielding", "running"} : Goes(stage, nextID + 1)
  /\ UNCHANGED <<killed, done, outputVars>>

\* The yield time passed, or output came, or the command ended.
YieldEnds ==
  /\ execStage = "yielding"
  /\ Drain(execTarget)
  /\ Goes("drained", execTarget)
  /\ UNCHANGED <<processVars, sessions>>

\* Only now Exec looks whether the command has ended, and drops its session.
ReportYield ==
  /\ execStage = "drained"
  /\ sessions' = IF done[execTarget] THEN sessions \ {execTarget} ELSE sessions
  /\ CallEnds
  /\ UNCHANGED <<processVars, outputVars>>

CommandEnds ==
  /\ execStage = "running" /\ done[execTarget]
  /\ Drain(execTarget)
  /\ sessions' = sessions \ {execTarget}
  /\ CallEnds
  /\ UNCHANGED processVars

\* Exec reads the output of a command out of time before it kills it.
CommandTimesOut ==
  /\ execStage = "running"
  /\ Drain(execTarget)
  /\ sessions' = sessions \ {execTarget}
  /\ Goes("killing", execTarget)
  /\ UNCHANGED processVars

KillTimedOut ==
  /\ execStage = "killing"
  /\ Kill(execTarget)
  /\ Goes("reaping", execTarget)
  /\ UNCHANGED <<nextID, sessions, done, outputVars>>

ReapTimedOut ==
  /\ execStage = "reaping" /\ done[execTarget]
  /\ CallEnds
  /\ UNCHANGED <<processVars, sessions, outputVars>>

\* WriteStdin and WriteStdinLine: without input they only poll, input for a
\* command that has ended is an error, other input is written to its pipe.
WriteStdin(id) ==
  /\ Calling /\ id \in sessions
  /\ \/ Goes("polling", id) /\ UNCHANGED outputVars
     \/ IF done[id] THEN Drain(id) /\ CallEnds ELSE Goes("writing", id) /\ UNCHANGED outputVars
  /\ UNCHANGED <<processVars, sessions>>

\* The write ends, well or with an error.
StdinWritten ==
  /\ execStage = "writing"
  /\ \/ Goes("polling", execTarget) /\ UNCHANGED outputVars
     \/ Drain(execTarget) /\ CallEnds
  /\ UNCHANGED <<processVars, sessions>>

\* The wait for new output is over.
PollEnds ==
  /\ execStage = "polling"
  /\ Drain(execTarget)
  /\ CallEnds
  /\ UNCHANGED <<processVars, sessions>>

Stop(id) ==
  /\ Calling /\ id \in sessions
  /\ KillUnlessDone(id)
  /\ Goes("stopping", id)
  /\ UNCHANGED <<nextID, sessions, done, outputVars>>

StopEnds ==
  /\ execStage = "stopping" /\ done[execTarget]
  /\ sessions' = sessions \ {execTarget}
  /\ Drain(execTarget)
  /\ CallEnds
  /\ UNCHANGED processVars

\* The deferred Cleanup, session by session.
Cleanup(id) ==
  /\ execStage = "cleanup" /\ execTarget = 0 /\ id \in sessions
  /\ KillUnlessDone(id)
  /\ Goes("cleanup", id)
  /\ UNCHANGED <<nextID, sessions, done, outputVars>>

CleanedUp ==
  /\ execStage = "cleanup" /\ execTarget # 0 /\ done[execTarget]
  /\ sessions' = sessions \ {execTarget}
  /\ Goes("cleanup", 0)
  /\ UNCHANGED <<processVars, outputVars>>

TurnReturns ==
  /\ execStage = "cleanup" /\ sessions = {}
  /\ Goes("over", 0)
  /\ UNCHANGED <<processVars, sessions, outputVars>>
------------------------------------------------------------------------------
LoopStep ==
  \/ ModelAnswers \/ NextIteration
  \/ OtherCall \/ Exec
  \/ YieldEnds \/ ReportYield
  \/ CommandEnds \/ CommandTimesOut \/ KillTimedOut \/ ReapTimedOut
  \/ \E id \in ExecIds : WriteStdin(id)
  \/ StdinWritten \/ PollEnds
  \/ \E id \in ExecIds : Stop(id)
  \/ StopEnds
  \/ \E id \in ExecIds : Cleanup(id)
  \/ CleanedUp \/ TurnReturns

ExecNext ==
  \/ RunBegins
  \/ LoopStep
  \/ \E id \in ExecIds : Fork(id)
  \/ \E id \in ExecIds : ProcessExits(id)
  \/ \E id \in ExecIds : WriteOutput(id)
  \/ \E id \in ExecIds : CloseDone(id)

ExecSpec == ExecInit /\ [][ExecNext]_execVars

\* The loop goes on, and the end of a command is noticed.  A
\* write to a command that does not read owes nothing, nor do the processes.
ExecFairness ==
  /\ WF_execVars(LoopStep /\ execStage # "writing")
  /\ \A id \in ExecIds : WF_execVars(CloseDone(id))

ExecFairSpec == ExecSpec /\ ExecFairness
------------------------------------------------------------------------------
ExecStages == {"idle", "model", "tools", "yielding", "drained", "running", "killing", "reaping",
               "writing", "polling", "stopping", "cleanup", "over"}

\* The state has its types; the sessions never exceed their limit.
ExecTypeOK ==
  /\ execStage \in ExecStages
  /\ execRound \in 0..MaxIterations /\ execCalls \in 0..MaxToolCalls
  /\ execTarget \in 0..nextID
  /\ nextID \in 0..MaxExecs
  /\ sessions \subseteq 1..nextID /\ Cardinality(sessions) <= MaxExecSessions
  /\ processes \in [ExecIds -> SUBSET ProcessKinds]
  /\ killed \subseteq 1..nextID
  /\ done \in [ExecIds -> BOOLEAN]
  /\ output \in [ExecIds -> [content : Seq(1..MaxWritten), dropped : Nat]]
  /\ written \in [ExecIds -> 0..MaxWritten]
  /\ shown \in [ExecIds -> Seq(1..MaxWritten)]
  /\ omitted \in [ExecIds -> Nat]
  /\ late \subseteq ExecIds

\* What the results showed of a command's output and what is still in its buffer
\* is in order and nothing twice, and all the rest is counted as omitted.
OutputIsAccounted(id) ==
  LET known == shown[id] \o output[id].content IN
  /\ \A i, j \in 1..Len(known) : i < j => known[i] < known[j]
  /\ Len(known) + omitted[id] + output[id].dropped = written[id]

\* No result of a session that is over leaves output of it unread, except for
\* chunks that came when the loop had read the output and had not yet noticed
\* the end, or not yet killed the command: those are lost.
NothingIsUnread(id) ==
  id \notin sessions /\ id # execTarget /\ id \notin late => output[id] = EmptyOutput

\* Each command's output is shown once, in order, or counted as omitted.
OutputIsReturned ==
  \A id \in ExecIds :
    /\ OutputIsAccounted(id)
    /\ execStage \notin {"cleanup", "over"} => NothingIsUnread(id)

\* Every turn that begins ends, however its commands behave: none of them is
\* left running, nor a process of theirs that has the output, and nothing at all
\* of the group of a command that was killed - unless the loop writes to a
\* command that does not read, or a process that left its group holds the output
\* of a command it waits for.  A command that ended by itself may leave processes
\* of its group that gave up the output: Exec, Stop and Cleanup kill nothing then.
ToolTurnEnds ==
  \/ [](execStage = "idle")
  \/ <>(/\ execStage = "over"
        /\ \A id \in ExecIds :
             processes[id] \subseteq IF id \in killed THEN {"outside"} ELSE {"outside", "quiet"})
  \/ <>[](execStage = "writing")
  \/ <>[](execTarget # 0 /\ "outside" \in processes[execTarget])
==============================================================================
