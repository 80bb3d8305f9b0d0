---------------------------- MODULE ScheduledJobs ----------------------------
(***************************************************************************)
(* Scheduled command jobs: the tick of internal/scheduler, the job add and *)
(* job remove commands of its component, the slots of internal/schedule,   *)
(* and the scheduled_jobs table.                                           *)
(*                                                                         *)
(* The tick lists the due rows once, then runs each command to its end and *)
(* writes back the row as it was listed, with the next slot in it; commands *)
(* are given meanwhile.  job add itself reads a row's id before it saves.  *)
(* All of these are single statements: nothing holds the table in between. *)
(*                                                                         *)
(* Time is a number.  A row's "stamp" is the command that wrote its        *)
(* schedule and "first" the time it was first due; neither is a column.    *)
(* What a job's command does, and its status texts, do not matter here.    *)
(***************************************************************************)
EXTENDS Integers

CONSTANTS
  JobNames,        \* a set of numbers: names in alphabetical order
  JobAdders,       \* slots for job add commands under way
  NoJob,
  JobIntervals,    \* the --every values in use; 0 stands for --cron
  CronPeriod,      \* the cron schedule's slots are the multiples of this
  JobHorizon,      \* bound on the clock
  MaxJobCommands,  \* bound on the commands given
  MaxJobFaults,    \* bound on saves of a finished job that the database refuses
  MaxJobCrashes    \* bound on restarts of the process

JobRecord == [name : JobNames, id : Nat, stamp : Nat, every : JobIntervals, first : Nat, due : Nat]
AddRecord == [job : JobRecord, command : Nat]

ASSUME JobsAssumption ==
  /\ NoJob \notin JobRecord \cup AddRecord
  /\ JobNames \subseteq Int
  /\ JobIntervals \subseteq Nat
  /\ CronPeriod \in Nat \ {0}
  /\ JobHorizon \in Nat /\ MaxJobCommands \in Nat
  /\ MaxJobFaults \in Nat /\ MaxJobCrashes \in Nat

VARIABLES
  jobRows,     \* the table: [JobNames -> row or NoJob]
  jobNow,
  jobListed,   \* rows of ListDue this tick has not finished with
  jobRunning,  \* the one of them whose command runs, or NoJob
  jobAdding,   \* per slot: the row a job add is about to save and the number of
               \*   that command, or NoJob
  jobCommands, jobFaults, jobCrashes,
  jobLast,     \* history: stamp of the last command on a name, 0 after a removal
  jobRaced,    \* history: names whose last command met a listed copy of the row
  jobRan,      \* history: slots whose command was started, as <<stamp, due>>
  jobLost      \* history: stamps one of whose runs ended without a saved row

jobsVars == <<jobRows, jobNow, jobListed, jobRunning, jobAdding, jobCommands, jobFaults,
              jobCrashes, jobLast, jobRaced, jobRan, jobLost>>
jobHistory == <<jobLast, jobRaced, jobRan, jobLost>>
jobCounters == <<jobCommands, jobFaults, jobCrashes>>

JobsInit ==
  /\ jobRows = [n \in JobNames |-> NoJob]
  /\ jobNow = 0
  /\ jobListed = {}
  /\ jobRunning = NoJob
  /\ jobAdding = [a \in JobAdders |-> NoJob]
  /\ jobCommands = 0 /\ jobFaults = 0 /\ jobCrashes = 0
  /\ jobLast = [n \in JobNames |-> 0]
  /\ jobRaced = {}
  /\ jobRan = {}
  /\ jobLost = {}
------------------------------------------------------------------------------
\* Slots.

\* The first slot of the cadence base + every, base + 2 * every, ... after "after".
NextAnchoredInterval(base, every, after) ==
  base + every * (IF after < base THEN 1 ELSE (after - base) \div every + 1)

NextCron(after) == CronPeriod * (after \div CronPeriod + 1)

\* Faulty variants: a cooldown after the run, and a slot that does not move.
NextDueFromFinish(job, finished) ==
  IF job.every = 0 THEN NextCron(finished) ELSE finished + job.every
NextDueStuck(job, finished) ==
  IF job.every = 0 THEN NextCron(finished) ELSE job.due

NextDueAfterRun(job, finished) ==
  IF job.every = 0 THEN NextCron(finished)
                   ELSE NextAnchoredInterval(job.due, job.every, finished)

InitialDueAt(every) == IF every = 0 THEN NextCron(jobNow) ELSE jobNow
------------------------------------------------------------------------------
\* The table.

\* Save of a row with an id updates by that id; if no row has it, the row is
\* inserted, which the unique name refuses when a row of another id has it.
Saves(job) == jobRows[job.name] # NoJob => jobRows[job.name].id = job.id

SaveJob(job) == jobRows' = [jobRows EXCEPT ![job.name] = job]

\* A job without an id takes that of the row with its name, or a new one.
IdFor(n, stamp) == IF jobRows[n] = NoJob THEN stamp ELSE jobRows[n].id

\* Faulty variant: the schedule of the row that has the name is kept.
PrepareKeepingSchedule(n, every, stamp) ==
  IF jobRows[n] # NoJob THEN jobRows[n]
  ELSE [name |-> n, id |-> stamp, stamp |-> stamp, every |-> every,
        first |-> InitialDueAt(every), due |-> InitialDueAt(every)]

PrepareJob(n, every, stamp) ==
  [name |-> n, id |-> IdFor(n, stamp), stamp |-> stamp, every |-> every,
   first |-> InitialDueAt(every), due |-> InitialDueAt(every)]

CopyListed(n) == \E job \in jobListed : job.name = n

NoteCommand(n, stamp) ==
  /\ jobLast' = [jobLast EXCEPT ![n] = stamp]
  /\ jobRaced' = IF CopyListed(n) THEN jobRaced \cup {n} ELSE jobRaced \ {n}
------------------------------------------------------------------------------
\* Commands.

\* handleJobAdd prepares the row; its save first looks the name up ...
AddJob(a, n, every) ==
  /\ jobCommands < MaxJobCommands
  /\ jobAdding[a] = NoJob
  /\ jobCommands' = jobCommands + 1
  /\ jobAdding' = [jobAdding EXCEPT ![a] =
       [job |-> PrepareJob(n, every, jobCommands + 1), command |-> jobCommands + 1]]
  /\ UNCHANGED <<jobRows, jobNow, jobListed, jobRunning, jobFaults, jobCrashes, jobHistory>>

\* ... and then writes it, or answers the command with an error.
AddedJob(a) ==
  LET job == jobAdding[a].job IN
  /\ jobAdding[a] # NoJob
  /\ jobAdding' = [jobAdding EXCEPT ![a] = NoJob]
  /\ IF Saves(job)
       THEN SaveJob(job) /\ NoteCommand(job.name, jobAdding[a].command)
       ELSE UNCHANGED <<jobRows, jobLast, jobRaced>>
  /\ UNCHANGED <<jobNow, jobListed, jobRunning, jobCounters, jobRan, jobLost>>

\* handleJobRemove deletes by name.
RemoveJob(n) ==
  /\ jobCommands < MaxJobCommands
  /\ jobRows[n] # NoJob
  /\ jobCommands' = jobCommands + 1
  /\ jobRows' = [jobRows EXCEPT ![n] = NoJob]
  /\ NoteCommand(n, 0)
  /\ UNCHANGED <<jobNow, jobListed, jobRunning, jobAdding, jobFaults, jobCrashes, jobRan, jobLost>>

ClockTicks ==
  /\ jobNow < JobHorizon
  /\ jobNow' = jobNow + 1
  /\ UNCHANGED <<jobRows, jobListed, jobRunning, jobAdding, jobCounters, jobHistory>>
------------------------------------------------------------------------------
\* The tick.

JobDue(n) == jobRows[n] # NoJob /\ jobRows[n].due <= jobNow

ListDueJobs ==
  /\ jobListed = {}
  /\ \E n \in JobNames : JobDue(n)
  /\ jobListed' = {jobRows[n] : n \in {m \in JobNames : JobDue(m)}}
  /\ UNCHANGED <<jobRows, jobNow, jobRunning, jobAdding, jobCounters, jobHistory>>

\* ORDER BY next_run_at, name
Precedes(job, other) ==
  job.due < other.due \/ (job.due = other.due /\ job.name <= other.name)

RunJob(job) ==
  /\ jobRunning = NoJob
  /\ \A other \in jobListed : Precedes(job, other)
  /\ jobRunning' = job
  /\ jobRan' = jobRan \cup {<<job.stamp, job.due>>}
  /\ UNCHANGED <<jobRows, jobNow, jobListed, jobAdding, jobCounters, jobLast, jobRaced, jobLost>>

\* The command ended, well or not; FinishJob saves the listed row with its
\* next slot and the loop goes on ...
FinishJob ==
  /\ jobRunning # NoJob
  /\ Saves(jobRunning)
  /\ SaveJob([jobRunning EXCEPT !.due = NextDueAfterRun(jobRunning, jobNow)])
  /\ jobListed' = jobListed \ {jobRunning}
  /\ jobRunning' = NoJob
  /\ UNCHANGED <<jobNow, jobAdding, jobCounters, jobHistory>>

\* ... or the save fails, which ends the loop: the rest of the list is not run.
AbortTick ==
  /\ jobListed' = {}
  /\ jobRunning' = NoJob
  /\ jobLost' = IF jobRunning = NoJob THEN jobLost ELSE jobLost \cup {jobRunning.stamp}

FinishFails ==
  /\ jobRunning # NoJob
  /\ \/ ~Saves(jobRunning) /\ UNCHANGED jobFaults
     \/ jobFaults < MaxJobFaults /\ jobFaults' = jobFaults + 1
  /\ AbortTick
  /\ UNCHANGED <<jobRows, jobNow, jobAdding, jobCommands, jobCrashes, jobLast, jobRaced, jobRan>>

\* The process stops anywhere and starts again.
JobsCrash ==
  /\ jobCrashes < MaxJobCrashes
  /\ jobCrashes' = jobCrashes + 1
  /\ jobAdding' = [a \in JobAdders |-> NoJob]
  /\ AbortTick
  /\ UNCHANGED <<jobRows, jobNow, jobCommands, jobFaults, jobLast, jobRaced, jobRan>>
------------------------------------------------------------------------------
JobsNext ==
  \/ \E a \in JobAdders, n \in JobNames, every \in JobIntervals : AddJob(a, n, every)
  \/ \E a \in JobAdders : AddedJob(a)
  \/ \E n \in JobNames : RemoveJob(n)
  \/ ClockTicks
  \/ ListDueJobs
  \/ \E job \in jobListed : RunJob(job)
  \/ FinishJob
  \/ FinishFails
  \/ JobsCrash

JobsSpec == JobsInit /\ [][JobsNext]_jobsVars

\* The scheduler keeps ticking, and commands of jobs end (RunDue waits for them).
JobsFairness ==
  /\ WF_jobsVars(ListDueJobs)
  /\ WF_jobsVars(\E job \in jobListed : RunJob(job))
  /\ WF_jobsVars(FinishJob \/ FinishFails)

JobsFairSpec == JobsSpec /\ JobsFairness
------------------------------------------------------------------------------
\* The state has its types; while a command runs, the list still holds its job.
JobsTypeOK ==
  /\ jobRows \in [JobNames -> JobRecord \cup {NoJob}]
  /\ \A n \in JobNames : jobRows[n] # NoJob => jobRows[n].name = n
  /\ jobNow \in Nat
  /\ jobListed \subseteq JobRecord
  /\ jobRunning \in jobListed \cup {NoJob}
  /\ jobAdding \in [JobAdders -> AddRecord \cup {NoJob}]
  /\ jobCommands \in Nat /\ jobFaults \in Nat /\ jobCrashes \in Nat
  /\ jobLast \in [JobNames -> Nat]
  /\ jobRaced \subseteq JobNames
  /\ jobRan \subseteq Nat \X Nat
  /\ jobLost \subseteq Nat

\* A job that was added or replaced keeps the schedule of that command, and a
\* job that was removed stays removed, through ticks, failed saves, restarts and
\* overtaken additions - unless the command came while the tick still had the
\* old row in its list, which FinishJob then writes back.
JobCommandsStick ==
  \A n \in JobNames \ jobRaced :
    IF jobRows[n] = NoJob THEN jobLast[n] = 0 ELSE jobRows[n].stamp = jobLast[n]

\* A due time of the job's own schedule, whatever was missed before it.
IsSlot(job) ==
  IF job.every = 0 THEN \E k \in 0..job.due : job.due = CronPeriod * k
                   ELSE \E k \in 0..job.due : job.due = job.first + k * job.every

\* A command starts only for a slot of its job's schedule that has come, and
\* for each slot once: late runs neither shift the schedule nor repeat it.  Only
\* a run whose end could not be saved is repeated.
JobsRunOncePerSlot ==
  [][\A job \in jobListed :
       jobRunning = NoJob /\ jobRunning' = job =>
         /\ IsSlot(job) /\ job.due <= jobNow
         /\ <<job.stamp, job.due>> \in jobRan => job.stamp \in jobLost]_jobsVars

\* A due job is run, or removed: neither a failing job listed before it nor an
\* aborted tick holds it up for ever.
DueJobsAreRun == \A n \in JobNames : JobDue(n) ~> ~JobDue(n)
==============================================================================
