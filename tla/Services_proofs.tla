--------------------------- MODULE Services_proofs ---------------------------
(***************************************************************************)
(* Work done beside the chats. Schedules survive ticks, commands, failed   *)
(* saves and restarts, for any names, intervals and numbers of commands.   *)
(* The tool loop shows the output of its commands once and in order, for   *)
(* any commands, limits and sizes.                                         *)
(***************************************************************************)
EXTENDS ScheduledJobs, ExecSessions, SequenceTheorems, FiniteSetTheorems, TLAPS

(* Scheduled jobs. *)

\* Rows of the table, and copies of rows in the list.
Current == {jobRows[n] : n \in {m \in JobNames : jobRows[m] # NoJob}} \cup jobListed

\* A job add is under way in this slot.
Pending(a) == jobAdding[a] # NoJob

\* What a job add is about to save carries that command's number, which no row,
\* copy or run has yet, nor another job add.
StampsAreFresh ==
  \A a \in JobAdders : Pending(a) =>
    LET stamp == jobAdding[a].command IN
    /\ jobAdding[a].job.stamp = stamp /\ stamp <= jobCommands
    /\ \A job \in Current : job.stamp # stamp
    /\ \A run \in jobRan : run[1] # stamp
    /\ \A b \in JobAdders : Pending(b) /\ b # a => jobAdding[b].command # stamp

\* Only numbers of commands that were given are in use.
StampsAreGiven ==
  /\ \A job \in Current : job.stamp <= jobCommands
  /\ \A run \in jobRan : run[1] <= jobCommands

\* One command's schedule is in one row, and a copy of it that is still listed is
\* that row: only the end of its run changes the row, and drops the copy.
CopiesAgree == \A j, k \in Current : j.stamp = k.stamp => j = k

\* The list has one row of a name.
NamesDiffer == \A j, k \in jobListed : j.name = k.name => j = k

\* Without a command in between, the listed copy is still the row.
QuietRowsAreListed == \A job \in jobListed : job.name \notin jobRaced => jobRows[job.name] = job

\* What is listed was due.
ListedAreDue == \A job \in jobListed : job.due <= jobNow

\* Due times are slots of their job's own schedule.
SlotsOnly ==
  /\ \A job \in Current : IsSlot(job)
  /\ \A a \in JobAdders : Pending(a) => IsSlot(jobAdding[a].job)

\* The slots that were run are behind their row's due time, except the one that
\* runs now, and unless the end of a run was not saved.
RunsAreBehind ==
  \A job \in Current, run \in jobRan :
    run[1] = job.stamp /\ job.stamp \notin jobLost =>
      \/ run[2] < job.due
      \/ run[2] = job.due /\ jobRunning # NoJob /\ jobRunning.stamp = job.stamp

\* The inductive invariant.
JobsIInv ==
  /\ JobsTypeOK /\ StampsAreFresh /\ StampsAreGiven /\ CopiesAgree /\ NamesDiffer
  /\ QuietRowsAreListed /\ ListedAreDue /\ SlotsOnly /\ RunsAreBehind /\ JobCommandsStick
------------------------------------------------------------------------------
\* Slots.

\* Rounding down to a multiple loses less than one step.
LEMMA Rounding ==
  ASSUME NEW a \in Nat, NEW step \in Nat \ {0}
  PROVE  /\ a \div step \in Nat
         /\ a < step * (a \div step + 1)
         /\ step * (a \div step + 1) \in Nat
         /\ a \div step + 1 <= step * (a \div step + 1)
<1> DEFINE q == a \div step
<1>1. q \in Nat /\ a < step * (q + 1)
  BY SMTT(30)
<1>2. q + 1 <= step * (q + 1) /\ step * (q + 1) \in Nat
  BY <1>1, SMTT(30)
<1> QED
  BY <1>1, <1>2

\* The next slot of a cron schedule is one, and lies ahead.
LEMMA CronIsAhead ==
  ASSUME NEW now \in Nat
  PROVE  /\ NextCron(now) \in Nat /\ now < NextCron(now)
         /\ \E k \in 0..NextCron(now) : NextCron(now) = CronPeriod * k
<1> DEFINE k == now \div CronPeriod + 1
<1>1. k \in Nat /\ now < CronPeriod * k /\ CronPeriod * k \in Nat /\ k <= CronPeriod * k
  BY Rounding, JobsAssumption
<1>2. NextCron(now) = CronPeriod * k
  BY DEF NextCron
<1>3. k \in 0..NextCron(now)
  BY <1>1, <1>2
<1> QED
  BY <1>1, <1>2, <1>3

\* After a run the due time moves ahead, to a slot of the same schedule.
LEMMA NextDueIsASlot ==
  ASSUME NEW job \in JobRecord, IsSlot(job), NEW now \in Nat, job.due <= now
  PROVE  LET next == [job EXCEPT !.due = NextDueAfterRun(job, now)] IN
         /\ next \in JobRecord /\ IsSlot(next) /\ job.due < next.due
<1> DEFINE due == NextDueAfterRun(job, now)
           next == [job EXCEPT !.due = due]
<1>1. job.every \in Nat /\ job.due \in Nat /\ job.first \in Nat
  BY JobsAssumption DEF JobRecord
<1>2. CASE job.every = 0
  <2>1. due = NextCron(now)
    BY <1>2 DEF NextDueAfterRun
  <2>2. due \in Nat /\ job.due < due /\ \E k \in 0..due : due = CronPeriod * k
    BY <2>1, <1>1, CronIsAhead
  <2>3. next \in JobRecord /\ next.due = due /\ next.every = 0
    BY <2>2, <1>2 DEF JobRecord
  <2> QED
    BY <2>2, <2>3 DEF IsSlot
<1>3. CASE job.every # 0
  <2> DEFINE steps == (now - job.due) \div job.every + 1
  <2>1. due = job.due + job.every * steps
    BY <1>1, <1>3 DEF NextDueAfterRun, NextAnchoredInterval
  <2>2. steps \in Nat /\ steps # 0 /\ job.every * steps \in Nat /\ steps <= job.every * steps
    <3>1. now - job.due \in Nat /\ job.every \in Nat \ {0}
      BY <1>1, <1>3
    <3>2. (now - job.due) \div job.every \in Nat
          /\ job.every * ((now - job.due) \div job.every + 1) \in Nat
          /\ (now - job.due) \div job.every + 1 <= job.every * ((now - job.due) \div job.every + 1)
      BY <3>1, Rounding
    <3> QED
      BY <3>2
  <2> HIDE DEF steps
  <2>3. due \in Nat /\ job.due < due
    BY <1>1, <2>1, <2>2
  <2>4. PICK k \in 0..job.due : job.due = job.first + k * job.every
    BY <1>3 DEF IsSlot
  <2>5. due = job.first + (k + steps) * job.every
    BY <1>1, <2>1, <2>2, <2>4, SMTT(30)
  <2>6. k + steps \in 0..due
    BY <1>1, <2>1, <2>2, <2>4
  <2>7. next \in JobRecord /\ next.due = due /\ next.every = job.every /\ next.first = job.first
    BY <2>3 DEF JobRecord
  <2> HIDE DEF due, next
  <2>8. IsSlot(next)
    BY <1>3, <2>3, <2>5, <2>6, <2>7 DEF IsSlot
  <2> USE DEF due, next
  <2> QED
    BY <2>3, <2>7, <2>8
<1> QED
  BY <1>2, <1>3

\* A job that is prepared has the number of its command and begins with a slot.
LEMMA PreparedIsASlot ==
  ASSUME JobsTypeOK, NEW n \in JobNames, NEW every \in JobIntervals, NEW stamp \in Nat
  PROVE  LET job == PrepareJob(n, every, stamp) IN
         job \in JobRecord /\ IsSlot(job) /\ job.stamp = stamp /\ job.name = n
<1> DEFINE job == PrepareJob(n, every, stamp)
<1>1. jobNow \in Nat /\ every \in Nat
  BY JobsAssumption DEF JobsTypeOK
<1>2. InitialDueAt(every) \in Nat
  BY <1>1, CronIsAhead DEF InitialDueAt
<1>3. IdFor(n, stamp) \in Nat
  BY DEF IdFor, JobsTypeOK, JobRecord
<1>4. job \in JobRecord /\ job.every = every /\ job.stamp = stamp /\ job.name = n
      /\ job.first = InitialDueAt(every) /\ job.due = InitialDueAt(every)
  BY <1>2, <1>3 DEF PrepareJob, JobRecord
<1>5. IsSlot(job)
  <2>1. CASE every = 0
    BY <1>1, <1>4, <2>1, CronIsAhead DEF IsSlot, InitialDueAt
  <2>2. CASE every # 0
    <3>1. 0 \in 0..job.due /\ job.due = job.first + 0 * job.every
      BY <1>1, <1>2, <1>4
    <3> QED
      BY <1>4, <2>2, <3>1 DEF IsSlot
  <2> QED
    BY <2>1, <2>2
<1> QED
  BY <1>4, <1>5
------------------------------------------------------------------------------
\* Steps.

\* The parts of the invariant that speak of rows and copies survive when rows and
\* copies only go, no command is given, and only lost runs are forgotten.
LEMMA FewerRows ==
  ASSUME JobsIInv, Current' \subseteq Current, jobCommands' = jobCommands,
         jobRan' = jobRan, jobLost \subseteq jobLost',
         jobAdding' = jobAdding \/ jobAdding' = [a \in JobAdders |-> NoJob],
         \A job \in Current : jobRunning # NoJob /\ jobRunning.stamp = job.stamp =>
           jobRunning' = jobRunning \/ job.stamp \in jobLost'
  PROVE  (StampsAreFresh /\ StampsAreGiven /\ CopiesAgree /\ SlotsOnly /\ RunsAreBehind)'
<1>1. \A a \in JobAdders : Pending(a)' => Pending(a) /\ jobAdding'[a] = jobAdding[a]
  BY DEF Pending
<1>2. StampsAreFresh'
  BY <1>1 DEF JobsIInv, StampsAreFresh, Pending
<1>3. StampsAreGiven' /\ CopiesAgree'
  BY DEF JobsIInv, StampsAreGiven, CopiesAgree
<1>4. SlotsOnly'
  BY <1>1 DEF JobsIInv, SlotsOnly, Pending, IsSlot
<1>5. RunsAreBehind'
  BY DEF JobsIInv, RunsAreBehind
<1> QED
  BY <1>2, <1>3, <1>4, <1>5

\* Every row and every copy is a job.
LEMMA CurrentAreJobs ==
  ASSUME JobsTypeOK, NEW job \in Current
  PROVE  job \in JobRecord /\ job # NoJob
BY JobsAssumption DEF Current, JobsTypeOK

\* The invariant holds at the start.
LEMMA InitHolds == JobsInit => JobsIInv
<1> SUFFICES ASSUME JobsInit PROVE JobsIInv
  OBVIOUS
<1>1. Current = {} /\ \A a \in JobAdders : ~Pending(a)
  BY DEF JobsInit, Current, Pending
<1>2. JobsTypeOK
  BY DEF JobsInit, JobsTypeOK
<1>3. JobCommandsStick
  BY DEF JobsInit, JobCommandsStick
<1> QED
  BY <1>1, <1>2, <1>3 DEF JobsIInv, JobsInit, StampsAreFresh, StampsAreGiven, CopiesAgree, NamesDiffer,
     QuietRowsAreListed, ListedAreDue, SlotsOnly, RunsAreBehind

\* A job add begins: its number is new.
LEMMA AddJobHolds ==
  ASSUME JobsIInv, NEW a \in JobAdders, NEW n \in JobNames, NEW every \in JobIntervals,
         AddJob(a, n, every)
  PROVE  JobsIInv'
<1> DEFINE stamp == jobCommands + 1
           job == PrepareJob(n, every, stamp)
<1>1. stamp \in Nat /\ jobCommands \in Nat
  BY DEF JobsIInv, JobsTypeOK
<1>2. job \in JobRecord /\ IsSlot(job) /\ job.stamp = stamp
  BY <1>1, PreparedIsASlot DEF JobsIInv
<1>3. /\ jobAdding' = [jobAdding EXCEPT ![a] = [job |-> job, command |-> stamp]]
      /\ jobCommands' = stamp
      /\ UNCHANGED <<jobRows, jobNow, jobListed, jobRunning, jobFaults, jobCrashes, jobHistory>>
  BY DEF AddJob
<1> HIDE DEF job
<1>4. /\ jobAdding \in [JobAdders -> AddRecord \cup {NoJob}]
      /\ [job |-> job, command |-> stamp] \in AddRecord
  BY <1>1, <1>2 DEF JobsIInv, JobsTypeOK, AddRecord
<1>5. /\ jobAdding'[a] = [job |-> job, command |-> stamp]
      /\ \A b \in JobAdders \ {a} : jobAdding'[b] = jobAdding[b]
      /\ jobAdding' \in [JobAdders -> AddRecord \cup {NoJob}]
  BY <1>3, <1>4
<1>6. JobsTypeOK'
  BY <1>1, <1>3, <1>5 DEF JobsIInv, JobsTypeOK, jobHistory
<1>7. Current' = Current
  BY <1>3 DEF Current
<1>8. StampsAreGiven'
  BY <1>1, <1>3, <1>7, CurrentAreJobs DEF JobsIInv, StampsAreGiven, jobHistory, JobsTypeOK, JobRecord
<1>9. StampsAreFresh'
  <2> SUFFICES ASSUME NEW b \in JobAdders, Pending(b)'
               PROVE  /\ jobAdding'[b].job.stamp = jobAdding'[b].command /\ jobAdding'[b].command <= jobCommands'
                      /\ \A j \in Current' : j.stamp # jobAdding'[b].command
                      /\ \A run \in jobRan' : run[1] # jobAdding'[b].command
                      /\ \A c \in JobAdders : Pending(c)' /\ c # b => jobAdding'[c].command # jobAdding'[b].command
    BY DEF StampsAreFresh
  <2>1. \A c \in JobAdders \ {a} : Pending(c)' => Pending(c) /\ jobAdding[c].command <= jobCommands
                                              /\ jobAdding[c].command \in Nat
    BY <1>5 DEF Pending, JobsIInv, StampsAreFresh, JobsTypeOK, AddRecord
  <2>2. \A j \in Current : j.stamp <= jobCommands /\ j.stamp \in Nat
    BY CurrentAreJobs DEF JobsIInv, StampsAreGiven, JobRecord
  <2>3. \A run \in jobRan : run[1] <= jobCommands /\ run[1] \in Nat
    BY DEF JobsIInv, StampsAreGiven, JobsTypeOK
  <2>4. CASE b = a
    BY <1>1, <1>2, <1>3, <1>5, <1>7, <2>1, <2>2, <2>3, <2>4 DEF jobHistory
  <2>5. CASE b # a
    <3>1. Pending(b) /\ jobAdding'[b] = jobAdding[b]
      BY <1>5, <2>1, <2>5
    <3>2. /\ jobAdding[b].job.stamp = jobAdding[b].command /\ jobAdding[b].command <= jobCommands
          /\ \A j \in Current : j.stamp # jobAdding[b].command
          /\ \A run \in jobRan : run[1] # jobAdding[b].command
          /\ \A c \in JobAdders : Pending(c) /\ c # b => jobAdding[c].command # jobAdding[b].command
      BY <3>1 DEF JobsIInv, StampsAreFresh
    <3>3. jobAdding[b].command \in Nat /\ jobAdding'[a].command = stamp
      BY <1>5, <2>1, <2>5
    <3> QED
      BY <1>1, <1>3, <1>5, <1>7, <2>1, <3>1, <3>2, <3>3 DEF jobHistory
  <2> QED
    BY <2>4, <2>5
<1>10. CopiesAgree' /\ NamesDiffer' /\ QuietRowsAreListed' /\ ListedAreDue' /\ RunsAreBehind' /\ JobCommandsStick'
  BY <1>3, <1>7 DEF JobsIInv, CopiesAgree, NamesDiffer, QuietRowsAreListed, ListedAreDue, RunsAreBehind,
     JobCommandsStick, jobHistory
<1>11. SlotsOnly'
  <2>1. \A b \in JobAdders : Pending(b)' => IsSlot(jobAdding'[b].job)
    BY <1>2, <1>5 DEF JobsIInv, SlotsOnly, Pending
  <2> QED
    BY <1>7, <2>1 DEF JobsIInv, SlotsOnly, IsSlot, Pending
<1> QED
  BY <1>6, <1>8, <1>9, <1>10, <1>11 DEF JobsIInv

\* A job add ends: its number moves from the slot to the row.
LEMMA AddedJobHolds ==
  ASSUME JobsIInv, NEW a \in JobAdders, AddedJob(a)
  PROVE  JobsIInv'
<1> DEFINE job == jobAdding[a].job
           n == job.name
<1>1. jobAdding[a] \in AddRecord /\ Pending(a)
  BY DEF AddedJob, JobsIInv, JobsTypeOK, Pending
<1>2. job \in JobRecord /\ job.stamp = jobAdding[a].command /\ IsSlot(job) /\ n \in JobNames /\ job # NoJob
  BY <1>1, JobsAssumption DEF AddRecord, JobRecord, JobsIInv, StampsAreFresh, SlotsOnly
<1>3. /\ \A b \in JobAdders : Pending(b)' => b # a /\ Pending(b) /\ jobAdding'[b] = jobAdding[b]
      /\ jobAdding' \in [JobAdders -> AddRecord \cup {NoJob}]
  BY DEF AddedJob, Pending, JobsIInv, JobsTypeOK
<1>4. UNCHANGED <<jobNow, jobListed, jobRunning, jobCounters, jobRan, jobLost>>
  BY DEF AddedJob
<1>5. CASE ~Saves(job)
  <2>1. UNCHANGED <<jobRows, jobLast, jobRaced>>
    BY <1>5 DEF AddedJob
  <2>2. Current' = Current
    BY <1>4, <2>1 DEF Current
  <2>3. JobsTypeOK'
    BY <1>3, <1>4, <2>1 DEF JobsIInv, JobsTypeOK, jobCounters
  <2>4. StampsAreFresh'
    BY <1>3, <1>4, <2>2 DEF JobsIInv, StampsAreFresh, jobCounters
  <2>5. SlotsOnly'
    BY <1>3, <2>2 DEF JobsIInv, SlotsOnly, IsSlot
  <2>6. StampsAreGiven' /\ CopiesAgree' /\ NamesDiffer' /\ QuietRowsAreListed' /\ ListedAreDue' /\ RunsAreBehind' /\ JobCommandsStick'
    BY <1>4, <2>1, <2>2 DEF JobsIInv, StampsAreGiven, CopiesAgree, NamesDiffer, QuietRowsAreListed, ListedAreDue, RunsAreBehind,
       JobCommandsStick, jobCounters
  <2> QED
    BY <2>3, <2>4, <2>5, <2>6 DEF JobsIInv
<1>6. CASE Saves(job)
  <2>1. /\ jobRows' = [jobRows EXCEPT ![n] = job]
        /\ jobLast' = [jobLast EXCEPT ![n] = job.stamp]
        /\ jobRaced' = IF CopyListed(n) THEN jobRaced \cup {n} ELSE jobRaced \ {n}
    BY <1>2, <1>6 DEF AddedJob, SaveJob, NoteCommand
  <2>2. jobRows'[n] = job /\ \A m \in JobNames \ {n} : jobRows'[m] = jobRows[m]
    BY <1>2, <2>1 DEF JobsIInv, JobsTypeOK
  <2>3. Current' \subseteq Current \cup {job}
    BY <1>4, <2>2 DEF Current
  <2>4. JobsTypeOK'
    <3>1. jobRows' \in [JobNames -> JobRecord \cup {NoJob}] /\ jobLast' \in [JobNames -> Nat] /\ jobRaced' \subseteq JobNames
      BY <1>2, <2>1 DEF JobsIInv, JobsTypeOK, JobRecord
    <3>2. \A m \in JobNames : jobRows'[m] # NoJob => jobRows'[m].name = m
      BY <2>2 DEF JobsIInv, JobsTypeOK
    <3> QED
      BY <1>3, <1>4, <3>1, <3>2 DEF JobsIInv, JobsTypeOK, jobCounters
  <2>5. /\ job.stamp <= jobCommands
        /\ \A j \in Current : j.stamp # job.stamp
        /\ \A run \in jobRan : run[1] # job.stamp
        /\ \A b \in JobAdders : Pending(b) /\ b # a => jobAdding[b].command # job.stamp
    BY <1>1, <1>2 DEF JobsIInv, StampsAreFresh
  <2> HIDE DEF job
  <2>6. StampsAreFresh'
    BY <1>3, <1>4, <2>3, <2>5 DEF JobsIInv, StampsAreFresh, jobCounters
  <2>7. StampsAreGiven' /\ CopiesAgree' /\ RunsAreBehind'
    BY <1>4, <2>3, <2>5 DEF JobsIInv, StampsAreGiven, CopiesAgree, RunsAreBehind, jobCounters
  <2>8. NamesDiffer' /\ ListedAreDue'
    BY <1>4 DEF JobsIInv, NamesDiffer, ListedAreDue
  <2>9. SlotsOnly'
    BY <1>2, <1>3, <2>3 DEF JobsIInv, SlotsOnly, IsSlot
  <2>10. QuietRowsAreListed'
    <3> SUFFICES ASSUME NEW j \in jobListed, j.name \notin jobRaced' PROVE jobRows'[j.name] = j
      BY <1>4 DEF QuietRowsAreListed
    <3>1. j.name # n /\ j.name \notin jobRaced
      BY <2>1 DEF CopyListed
    <3> QED
      BY <2>2, <3>1 DEF JobsIInv, QuietRowsAreListed, JobsTypeOK, JobRecord
  <2>11. JobCommandsStick'
    <3> SUFFICES ASSUME NEW m \in JobNames, m \notin jobRaced'
                 PROVE  IF jobRows'[m] = NoJob THEN jobLast'[m] = 0 ELSE jobRows'[m].stamp = jobLast'[m]
      BY DEF JobCommandsStick
    <3>1. CASE m = n
      BY <1>2, <2>1, <2>2, <3>1 DEF JobsIInv, JobsTypeOK
    <3>2. CASE m # n
      <4>1. m \notin jobRaced /\ jobLast'[m] = jobLast[m]
        BY <2>1, <3>2 DEF JobsIInv, JobsTypeOK
      <4> QED
        BY <2>2, <3>2, <4>1 DEF JobsIInv, JobCommandsStick
    <3> QED
      BY <3>1, <3>2
  <2> QED
    BY <2>4, <2>6, <2>7, <2>8, <2>9, <2>10, <2>11 DEF JobsIInv
<1> QED
  BY <1>5, <1>6

\* A removal takes a row away.
LEMMA RemoveJobHolds ==
  ASSUME JobsIInv, NEW n \in JobNames, RemoveJob(n)
  PROVE  JobsIInv'
<1>1. /\ jobRows' = [jobRows EXCEPT ![n] = NoJob]
      /\ jobCommands' = jobCommands + 1
      /\ jobLast' = [jobLast EXCEPT ![n] = 0]
      /\ jobRaced' = IF CopyListed(n) THEN jobRaced \cup {n} ELSE jobRaced \ {n}
      /\ UNCHANGED <<jobNow, jobListed, jobRunning, jobAdding, jobFaults, jobCrashes, jobRan, jobLost>>
  BY DEF RemoveJob, NoteCommand
<1>2. jobRows'[n] = NoJob /\ \A m \in JobNames \ {n} : jobRows'[m] = jobRows[m]
  BY <1>1 DEF JobsIInv, JobsTypeOK
<1>3. Current' \subseteq Current
  BY <1>1, <1>2 DEF Current
<1>4. JobsTypeOK'
  <2>1. jobRows' \in [JobNames -> JobRecord \cup {NoJob}] /\ jobLast' \in [JobNames -> Nat] /\ jobRaced' \subseteq JobNames
    BY <1>1 DEF JobsIInv, JobsTypeOK
  <2> QED
    BY <1>1, <1>2, <2>1 DEF JobsIInv, JobsTypeOK
<1>5. jobCommands \in Nat /\ \A job \in Current : job.stamp \in Nat
  BY CurrentAreJobs DEF JobsIInv, JobsTypeOK, JobRecord
<1>6. StampsAreFresh'
  <2>1. \A a \in JobAdders : Pending(a) => jobAdding[a].command \in Nat
    BY DEF Pending, JobsIInv, JobsTypeOK, AddRecord
  <2> QED
    BY <1>1, <1>3, <1>5, <2>1 DEF JobsIInv, StampsAreFresh, Pending
<1>7. StampsAreGiven'
  <2>1. \A run \in jobRan : run[1] \in Nat
    BY DEF JobsIInv, JobsTypeOK
  <2> QED
    BY <1>1, <1>3, <1>5, <2>1 DEF JobsIInv, StampsAreGiven
<1>8. CopiesAgree' /\ RunsAreBehind' /\ NamesDiffer' /\ ListedAreDue'
  BY <1>1, <1>3 DEF JobsIInv, CopiesAgree, RunsAreBehind, NamesDiffer, ListedAreDue
<1>9. SlotsOnly'
  BY <1>1, <1>3 DEF JobsIInv, SlotsOnly, IsSlot, Pending
<1>10. QuietRowsAreListed'
  <2> SUFFICES ASSUME NEW j \in jobListed, j.name \notin jobRaced' PROVE jobRows'[j.name] = j
    BY <1>1 DEF QuietRowsAreListed
  <2>1. j.name # n /\ j.name \notin jobRaced
    BY <1>1 DEF CopyListed
  <2> QED
    BY <1>2, <2>1 DEF JobsIInv, QuietRowsAreListed, JobsTypeOK, JobRecord
<1>11. JobCommandsStick'
  <2> SUFFICES ASSUME NEW m \in JobNames, m \notin jobRaced'
               PROVE  IF jobRows'[m] = NoJob THEN jobLast'[m] = 0 ELSE jobRows'[m].stamp = jobLast'[m]
    BY DEF JobCommandsStick
  <2>1. CASE m = n
    BY <1>1, <1>2, <2>1 DEF JobsIInv, JobsTypeOK
  <2>2. CASE m # n
    <3>1. m \notin jobRaced /\ jobLast'[m] = jobLast[m]
      BY <1>1, <2>2 DEF JobsIInv, JobsTypeOK
    <3> QED
      BY <1>2, <2>2, <3>1 DEF JobsIInv, JobCommandsStick
  <2> QED
    BY <2>1, <2>2
<1> QED
  BY <1>4, <1>6, <1>7, <1>8, <1>9, <1>10, <1>11 DEF JobsIInv

\* Time passes, the tick lists due rows, or a listed command starts.
LEMMA ClockTicksHolds == JobsIInv /\ ClockTicks => JobsIInv'
<1> SUFFICES ASSUME JobsIInv, ClockTicks PROVE JobsIInv'
  OBVIOUS
<1>1. Current' = Current /\ UNCHANGED <<jobRows, jobListed, jobRunning, jobAdding, jobCounters, jobHistory>>
  BY DEF ClockTicks, Current
<1>2. ListedAreDue' /\ JobsTypeOK'
  BY <1>1 DEF ClockTicks, JobsIInv, JobsTypeOK, ListedAreDue, JobRecord, jobCounters, jobHistory
<1>3. (StampsAreFresh /\ StampsAreGiven /\ CopiesAgree /\ SlotsOnly /\ RunsAreBehind)'
  BY <1>1, FewerRows DEF jobCounters, jobHistory
<1> QED
  BY <1>1, <1>2, <1>3 DEF JobsIInv, NamesDiffer, QuietRowsAreListed, JobCommandsStick, jobHistory

\* The list is a copy of rows.
LEMMA ListDueJobsHolds == JobsIInv /\ ListDueJobs => JobsIInv'
<1> SUFFICES ASSUME JobsIInv, ListDueJobs PROVE JobsIInv'
  OBVIOUS
<1>1. /\ jobListed = {} /\ jobListed' = {jobRows[n] : n \in {m \in JobNames : JobDue(m)}}
      /\ UNCHANGED <<jobRows, jobNow, jobRunning, jobAdding, jobCounters, jobHistory>>
  BY DEF ListDueJobs
<1>2. \A job \in jobListed' : /\ job \in JobRecord /\ job \in Current
                              /\ job.due <= jobNow /\ jobRows[job.name] = job
  BY <1>1, JobsAssumption DEF JobDue, JobsIInv, JobsTypeOK, Current
<1>3. Current' \subseteq Current
  BY <1>1, <1>2 DEF Current
<1>4. JobsTypeOK'
  BY <1>1, <1>2 DEF JobsIInv, JobsTypeOK, jobCounters, jobHistory
<1>5. (StampsAreFresh /\ StampsAreGiven /\ CopiesAgree /\ SlotsOnly /\ RunsAreBehind)'
  BY <1>1, <1>3, FewerRows DEF jobCounters, jobHistory
<1>6. NamesDiffer' /\ QuietRowsAreListed' /\ ListedAreDue' /\ JobCommandsStick'
  BY <1>1, <1>2 DEF JobsIInv, NamesDiffer, QuietRowsAreListed, ListedAreDue, JobCommandsStick, jobHistory
<1> QED
  BY <1>4, <1>5, <1>6 DEF JobsIInv

\* A slot is run.
LEMMA RunJobHolds ==
  ASSUME JobsIInv, NEW job \in jobListed, RunJob(job)
  PROVE  JobsIInv'
<1>1. /\ jobRunning = NoJob /\ jobRunning' = job
      /\ jobRan' = jobRan \cup {<<job.stamp, job.due>>}
      /\ UNCHANGED <<jobRows, jobNow, jobListed, jobAdding, jobCounters, jobLast, jobRaced, jobLost>>
  BY DEF RunJob
<1>2. Current' = Current /\ job \in Current /\ job \in JobRecord /\ job # NoJob
  BY <1>1, CurrentAreJobs DEF Current, JobsIInv
<1>3. JobsTypeOK'
  BY <1>1, <1>2 DEF JobsIInv, JobsTypeOK, jobCounters, JobRecord
<1>4. StampsAreFresh' /\ StampsAreGiven' /\ CopiesAgree'
  BY <1>1, <1>2 DEF JobsIInv, StampsAreFresh, StampsAreGiven, CopiesAgree, Pending, jobCounters
<1>5. NamesDiffer' /\ QuietRowsAreListed' /\ ListedAreDue' /\ JobCommandsStick'
  BY <1>1 DEF JobsIInv, NamesDiffer, QuietRowsAreListed, ListedAreDue, JobCommandsStick
<1>6. SlotsOnly'
  BY <1>1, <1>2 DEF JobsIInv, SlotsOnly, IsSlot, Pending
<1>7. RunsAreBehind'
  BY <1>1, <1>2 DEF JobsIInv, RunsAreBehind, CopiesAgree
<1> QED
  BY <1>3, <1>4, <1>5, <1>6, <1>7 DEF JobsIInv

\* A run ends, and its row is saved with the next slot.
LEMMA FinishJobHolds == JobsIInv /\ FinishJob => JobsIInv'
<1> SUFFICES ASSUME JobsIInv, FinishJob PROVE JobsIInv'
  OBVIOUS
<1> DEFINE job == jobRunning
           next == [job EXCEPT !.due = NextDueAfterRun(job, jobNow)]
           n == job.name
<1>1. /\ job \in jobListed /\ job # NoJob /\ job \in JobRecord /\ n \in JobNames
      /\ job \in Current /\ job.due <= jobNow /\ IsSlot(job) /\ jobNow \in Nat
  BY DEF FinishJob, JobsIInv, JobsTypeOK, JobRecord, Current, ListedAreDue, SlotsOnly
<1>2. /\ next \in JobRecord /\ IsSlot(next) /\ job.due < next.due
      /\ next.stamp = job.stamp /\ next.name = n /\ next # NoJob
  <2>1. next \in JobRecord /\ IsSlot(next) /\ job.due < next.due
    BY <1>1, NextDueIsASlot
  <2>2. next.stamp = job.stamp /\ next.name = n
    BY <1>1 DEF JobRecord
  <2> QED
    BY <2>1, <2>2, JobsAssumption
<1>3. /\ jobRows' = [jobRows EXCEPT ![n] = next]
      /\ jobListed' = jobListed \ {job} /\ jobRunning' = NoJob
      /\ UNCHANGED <<jobNow, jobAdding, jobCounters, jobHistory>>
  <2>1. next.name = n
    BY <1>2
  <2> QED
    BY <2>1 DEF FinishJob, SaveJob
<1> HIDE DEF next
<1>4. jobRows'[n] = next /\ \A m \in JobNames \ {n} : jobRows'[m] = jobRows[m]
  BY <1>1, <1>3 DEF JobsIInv, JobsTypeOK
<1>5. \A k \in Current' : k = next \/ (k \in Current /\ k.stamp # job.stamp)
  <2> SUFFICES ASSUME NEW k \in Current', k # next PROVE k \in Current /\ k.stamp # job.stamp
    OBVIOUS
  <2>1. CASE k \in jobListed'
    BY <1>1, <1>3, <2>1 DEF Current, JobsIInv, CopiesAgree
  <2>2. CASE \E m \in JobNames : jobRows'[m] = k /\ k # NoJob
    <3>1. PICK m \in JobNames \ {n} : jobRows[m] = k /\ k # NoJob
      BY <1>4, <2>2
    <3>2. k \in Current /\ k.name # n
      BY <3>1 DEF Current, JobsIInv, JobsTypeOK
    <3> QED
      BY <1>1, <3>2 DEF JobsIInv, CopiesAgree
  <2> QED
    BY <2>1, <2>2 DEF Current
<1>6. JobsTypeOK'
  <2>1. jobRows' \in [JobNames -> JobRecord \cup {NoJob}]
    BY <1>1, <1>2, <1>3 DEF JobsIInv, JobsTypeOK
  <2>2. \A m \in JobNames : jobRows'[m] # NoJob => jobRows'[m].name = m
    BY <1>2, <1>4 DEF JobsIInv, JobsTypeOK
  <2> QED
    BY <1>3, <2>1, <2>2 DEF JobsIInv, JobsTypeOK, jobCounters, jobHistory
<1>7. StampsAreFresh'
  BY <1>1, <1>2, <1>3, <1>5 DEF JobsIInv, StampsAreFresh, Pending, jobCounters, jobHistory
<1>8. StampsAreGiven' /\ CopiesAgree'
  BY <1>1, <1>2, <1>3, <1>5 DEF JobsIInv, StampsAreGiven, CopiesAgree, jobCounters, jobHistory
<1>9. NamesDiffer' /\ ListedAreDue'
  BY <1>3 DEF JobsIInv, NamesDiffer, ListedAreDue
<1>10. SlotsOnly'
  BY <1>2, <1>3, <1>5 DEF JobsIInv, SlotsOnly, IsSlot, Pending
<1>11. QuietRowsAreListed'
  <2> SUFFICES ASSUME NEW j \in jobListed, j # job, j.name \notin jobRaced PROVE jobRows'[j.name] = j
    BY <1>3 DEF QuietRowsAreListed, jobHistory
  <2>1. j.name # n /\ j.name \in JobNames
    BY <1>1 DEF JobsIInv, NamesDiffer, JobsTypeOK, JobRecord
  <2> QED
    BY <1>4, <2>1 DEF JobsIInv, QuietRowsAreListed
<1>12. RunsAreBehind'
  <2> SUFFICES ASSUME NEW k \in Current', NEW run \in jobRan, run[1] = k.stamp, k.stamp \notin jobLost
               PROVE  run[2] < k.due
    BY <1>3 DEF RunsAreBehind, jobHistory
  <2>1. CASE k = next
    <3>1. run[2] < job.due \/ run[2] = job.due
      BY <1>1, <1>2, <2>1 DEF JobsIInv, RunsAreBehind
    <3> QED
      BY <1>1, <1>2, <2>1, <3>1 DEF JobsIInv, JobsTypeOK, JobRecord
  <2>2. CASE k \in Current /\ k.stamp # job.stamp
    BY <2>2 DEF JobsIInv, RunsAreBehind
  <2> QED
    BY <1>5, <2>1, <2>2
<1>13. JobCommandsStick'
  <2> SUFFICES ASSUME NEW m \in JobNames, m \notin jobRaced
               PROVE  IF jobRows'[m] = NoJob THEN jobLast[m] = 0 ELSE jobRows'[m].stamp = jobLast[m]
    BY <1>3 DEF JobCommandsStick, jobHistory
  <2>1. CASE m = n
    BY <1>1, <1>2, <1>4, <2>1 DEF JobsIInv, QuietRowsAreListed, JobCommandsStick
  <2>2. CASE m # n
    BY <1>4, <2>2 DEF JobsIInv, JobCommandsStick
  <2> QED
    BY <2>1, <2>2
<1> QED
  BY <1>6, <1>7, <1>8, <1>9, <1>10, <1>11, <1>12, <1>13 DEF JobsIInv

\* A tick that ends early forgets its copies, and the run that was not saved.
LEMMA AbortTickHolds ==
  ASSUME JobsIInv, AbortTick,
         jobAdding' = jobAdding \/ jobAdding' = [a \in JobAdders |-> NoJob],
         jobFaults' \in Nat, jobCrashes' \in Nat,
         UNCHANGED <<jobRows, jobNow, jobCommands, jobLast, jobRaced, jobRan>>
  PROVE  JobsIInv'
<1>1. /\ jobListed' = {} /\ jobRunning' = NoJob
      /\ jobLost' = IF jobRunning = NoJob THEN jobLost ELSE jobLost \cup {jobRunning.stamp}
  BY DEF AbortTick
<1>2. Current' \subseteq Current
  BY <1>1 DEF Current
<1>3. JobsTypeOK'
  <2>1. jobRunning # NoJob => jobRunning.stamp \in Nat
    BY DEF JobsIInv, JobsTypeOK, JobRecord
  <2>2. jobLost' \subseteq Nat
    BY <1>1, <2>1 DEF JobsIInv, JobsTypeOK
  <2>3. jobAdding' \in [JobAdders -> AddRecord \cup {NoJob}]
    BY DEF JobsIInv, JobsTypeOK
  <2> QED
    BY <1>1, <2>2, <2>3 DEF JobsIInv, JobsTypeOK
<1>4. (StampsAreFresh /\ StampsAreGiven /\ CopiesAgree /\ SlotsOnly /\ RunsAreBehind)'
  BY <1>1, <1>2, FewerRows
<1>5. NamesDiffer' /\ QuietRowsAreListed' /\ ListedAreDue' /\ JobCommandsStick'
  BY <1>1 DEF JobsIInv, NamesDiffer, QuietRowsAreListed, ListedAreDue, JobCommandsStick
<1> QED
  BY <1>3, <1>4, <1>5 DEF JobsIInv

\* The invariant is inductive.
LEMMA JobsInductive == JobsIInv /\ [JobsNext]_jobsVars => JobsIInv'
<1> SUFFICES ASSUME JobsIInv, [JobsNext]_jobsVars PROVE JobsIInv'
  OBVIOUS
<1>1. CASE \E a \in JobAdders, n \in JobNames, every \in JobIntervals : AddJob(a, n, every)
  BY <1>1, AddJobHolds
<1>2. CASE \E a \in JobAdders : AddedJob(a)
  BY <1>2, AddedJobHolds
<1>3. CASE \E n \in JobNames : RemoveJob(n)
  BY <1>3, RemoveJobHolds
<1>4. CASE ClockTicks
  BY <1>4, ClockTicksHolds
<1>5. CASE ListDueJobs
  BY <1>5, ListDueJobsHolds
<1>6. CASE \E job \in jobListed : RunJob(job)
  BY <1>6, RunJobHolds
<1>7. CASE FinishJob
  BY <1>7, FinishJobHolds
<1>8. CASE FinishFails
  <2>1. /\ AbortTick /\ jobFaults' \in Nat /\ jobCrashes' \in Nat
        /\ UNCHANGED <<jobRows, jobNow, jobAdding, jobCommands, jobLast, jobRaced, jobRan>>
    BY <1>8 DEF FinishFails, JobsIInv, JobsTypeOK
  <2> QED
    BY <2>1, AbortTickHolds
<1>9. CASE JobsCrash
  <2>1. /\ AbortTick /\ jobFaults' \in Nat /\ jobCrashes' \in Nat
        /\ jobAdding' = [a \in JobAdders |-> NoJob]
        /\ UNCHANGED <<jobRows, jobNow, jobCommands, jobLast, jobRaced, jobRan>>
    BY <1>9 DEF JobsCrash, JobsIInv, JobsTypeOK
  <2> QED
    BY <2>1, AbortTickHolds
<1>10. CASE UNCHANGED jobsVars
  <2>1. Current' = Current
    BY <1>10 DEF Current, jobsVars
  <2>2. (StampsAreFresh /\ StampsAreGiven /\ CopiesAgree /\ SlotsOnly /\ RunsAreBehind)'
    BY <1>10, <2>1, FewerRows DEF jobsVars
  <2> QED
    BY <1>10, <2>2 DEF JobsIInv, JobsTypeOK, NamesDiffer, QuietRowsAreListed, ListedAreDue, JobCommandsStick, jobsVars
<1> QED
  BY <1>1, <1>2, <1>3, <1>4, <1>5, <1>6, <1>7, <1>8, <1>9, <1>10 DEF JobsNext
------------------------------------------------------------------------------
\* For any names, intervals and commands, rows and copies are jobs of their name,
\* and a command that runs is one of the list.
THEOREM JobsTypeCorrect == JobsSpec => []JobsTypeOK
<1>1. JobsIInv => JobsTypeOK
  BY DEF JobsIInv
<1> QED
  BY <1>1, InitHolds, JobsInductive, PTL DEF JobsSpec

\* A job keeps the schedule of the last command on its name, and a removed job
\* stays removed, unless that command met a listed copy of the row.
THEOREM CommandsOnJobsStick == JobsSpec => []JobCommandsStick
<1>1. JobsIInv => JobCommandsStick
  BY DEF JobsIInv
<1> QED
  BY <1>1, InitHolds, JobsInductive, PTL DEF JobsSpec

\* Commands start only for slots of their schedule that have come, for each slot
\* once, unless the end of a run could not be saved.
THEOREM SlotsRunOnce == JobsSpec => JobsRunOncePerSlot
<1>1. JobsIInv /\ [JobsNext]_jobsVars =>
        [\A job \in jobListed : jobRunning = NoJob /\ jobRunning' = job =>
           /\ IsSlot(job) /\ job.due <= jobNow
           /\ <<job.stamp, job.due>> \in jobRan => job.stamp \in jobLost]_jobsVars
  <2> SUFFICES ASSUME JobsIInv, NEW job \in jobListed, jobRunning = NoJob, jobRunning' = job
               PROVE  /\ IsSlot(job) /\ job.due <= jobNow
                      /\ <<job.stamp, job.due>> \in jobRan => job.stamp \in jobLost
    OBVIOUS
  <2>1. job \in Current /\ job.due \in Nat
    BY DEF Current, JobsIInv, JobsTypeOK, JobRecord
  <2> QED
    BY <2>1 DEF JobsIInv, SlotsOnly, ListedAreDue, RunsAreBehind
<1> QED
  BY <1>1, InitHolds, JobsInductive, PTL DEF JobsSpec, JobsRunOncePerSlot
------------------------------------------------------------------------------
(* The tool loop. *)

Rising(s) == \A i, j \in 1..Len(s) : i < j => s[i] < s[j]
Within(s, n) == \A i \in 1..Len(s) : s[i] \in 1..n

\* After the chunks in a those in b are k in order, of the first n.
Continues(a, b, n, k) == Rising(a \o b) /\ Within(a \o b, n) /\ Len(a \o b) = k

\* Stages in which a call is under way.
Waiting == {"yielding", "drained", "running", "writing", "polling", "stopping"}
Busy == Waiting \cup {"killing", "reaping"}

\* The loop has an iteration left for the model, and a call for a session.
RoundsFit ==
  /\ execStage \in {"idle", "model"} => execRound < MaxIterations
  /\ execStage \in Busy => execCalls > 0

\* The session the loop is busy with is listed, except for a command out of time.
TargetsFit ==
  /\ execStage \in {"idle", "model", "tools", "over"} => execTarget = 0
  /\ execStage \in Busy => execTarget \in 1..nextID
  /\ execStage \in Waiting => execTarget \in sessions
  /\ execStage = "cleanup" => execTarget \in sessions \cup {0}

\* A session that the loop is done with has ended: nobody writes to it.
GoneAreDone == \A id \in 1..nextID : id \in sessions \/ id = execTarget \/ done[id]

FreshAreEmpty == \A id \in ExecIds : id > nextID => output[id] = EmptyOutput /\ id \notin late

\* The output that the loop has read for the result it is making.
ReadIsEmpty == \A id \in ExecIds : Looked(id) => id \in late \/ output[id] = EmptyOutput

OutputIsCounted ==
  \A id \in ExecIds :
    Continues(shown[id], output[id].content, written[id], written[id] - omitted[id] - output[id].dropped)

SettledAreRead ==
  execStage \notin {"cleanup", "over"} => \A id \in ExecIds : NothingIsUnread(id)

\* The inductive invariant.
ExecIInv ==
  /\ ExecTypeOK /\ RoundsFit /\ TargetsFit /\ GoneAreDone /\ FreshAreEmpty
  /\ ReadIsEmpty /\ OutputIsCounted /\ SettledAreRead

------------------------------------------------------------------------------
\* What happens to known output.

\* A chunk comes, with the next number.
LEMMA ChunkComes ==
  ASSUME NEW a \in Seq(Nat), NEW b \in Seq(Nat), NEW n \in Nat,
         NEW k \in Int, Continues(a, b, n, k)
  PROVE  Continues(a, Append(b, n + 1), n + 1, k + 1)
<1>0. PICK c : c = Append(b, n + 1)
  OBVIOUS
<1> DEFINE old == a \o b
           new == a \o c
<1>1. old \in Seq(Nat) /\ Len(old) = Len(a) + Len(b)
      /\ \A i \in 1..Len(old) : old[i] = IF i <= Len(a) THEN a[i] ELSE b[i - Len(a)]
  BY ConcatProperties
<1>2. c \in Seq(Nat) /\ Len(c) = Len(b) + 1
      /\ (\A i \in 1..Len(b) : c[i] = b[i]) /\ c[Len(b) + 1] = n + 1
  BY <1>0, AppendProperties
<1>14. new \in Seq(Nat) /\ Len(new) = Len(a) + Len(c)
  BY <1>2, ConcatProperties
<1>15. \A i \in 1..(Len(a) + Len(c)) : new[i] = IF i <= Len(a) THEN a[i] ELSE c[i - Len(a)]
  BY <1>2, ConcatProperties
<1>3. Len(new) = Len(a) + Len(b) + 1
      /\ \A i \in 1..Len(new) : new[i] = IF i <= Len(a) THEN a[i] ELSE c[i - Len(a)]
  BY <1>2, <1>14, <1>15
<1>4. Len(a) \in Nat /\ Len(b) \in Nat
  OBVIOUS
<1>5. ASSUME NEW i \in 1..Len(old) PROVE new[i] = old[i]
  <2>1. i \in 1..(Len(a) + Len(b)) /\ i \in 1..(Len(a) + Len(c))
    BY <1>1, <1>2, <1>4
  <2>2. old[i] = IF i <= Len(a) THEN a[i] ELSE b[i - Len(a)]
    BY <1>1
  <2>3. new[i] = IF i <= Len(a) THEN a[i] ELSE c[i - Len(a)]
    BY <2>1, <1>15
  <2>4. CASE i <= Len(a)
    BY <2>2, <2>3, <2>4
  <2>5. CASE ~(i <= Len(a))
    <3>1. i - Len(a) \in 1..Len(b)
      BY <2>1, <2>5, <1>4
    <3>2. c[i - Len(a)] = b[i - Len(a)]
      BY <3>1, <1>2
    <3> QED BY <2>2, <2>3, <2>5, <3>2, Zenon
  <2> QED BY <2>4, <2>5
<1>6. new[Len(old) + 1] = n + 1
  BY <1>1, <1>2, <1>3, <1>4
<1>11. Len(old) \in Nat /\ Len(new) = Len(old) + 1
  BY <1>1, <1>3, <1>4
<1> HIDE DEF old, new
<1>7. \A i \in 1..Len(old) : old[i] \in 1..n
  BY DEF Continues, Within, old
<1>8. \A i, j \in 1..Len(old) : i < j => old[i] < old[j]
  BY DEF Continues, Rising, old
<1>13. PICK m \in Nat : m = Len(old) /\ m + 1 = Len(new)
  BY <1>11
<1>9. Rising(new)
  <2> SUFFICES ASSUME NEW i \in 1..Len(new), NEW j \in 1..Len(new), i < j PROVE new[i] < new[j]
    BY DEF Rising
  <2>1. i \in 1..Len(old) /\ (j \in 1..Len(old) \/ j = Len(old) + 1)
    <3>1. i \in 1..(m + 1) /\ j \in 1..(m + 1) /\ i < j
      BY <1>13
    <3>2. i \in 1..m /\ (j \in 1..m \/ j = m + 1)
      BY <3>1
    <3> QED BY <1>13, <3>2, Zenon
  <2>2. CASE j \in 1..Len(old)
    BY <2>1, <2>2, <1>5, <1>8
  <2>3. CASE j = Len(old) + 1
    <3>1. new[i] \in 1..n
      BY <2>1, <1>5, <1>7
    <3>2. new[j] = n + 1
      BY <2>3, <1>6
    <3> QED BY <3>1, <3>2
  <2> QED BY <2>1, <2>2, <2>3
<1>10. Within(new, n + 1)
  <2> SUFFICES ASSUME NEW i \in 1..Len(new) PROVE new[i] \in 1..(n + 1)
    BY DEF Within
  <2>1. i \in 1..Len(old) \/ i = Len(old) + 1
    <3>1. i \in 1..(m + 1)
      BY <1>13
    <3>2. i \in 1..m \/ i = m + 1
      BY <3>1
    <3> QED BY <1>13, <3>2, Zenon
  <2>2. \A x : x \in 1..n \/ x = n + 1 => x \in 1..(n + 1)
    OBVIOUS
  <2>3. new[i] \in 1..n \/ new[i] = n + 1
    BY <2>1, <1>5, <1>6, <1>7, Zenon
  <2> QED BY <2>2, <2>3, Zenon
<1>12. Len(old) = k
  BY DEF Continues, old
<1> QED BY <1>0, <1>11, <1>9, <1>10, <1>12 DEF Continues, new

\* Arithmetic.
LEMMA Cuts ==
  \A i, j, la, cut \in Int :
    i < j /\ 0 <= cut => (IF i <= la THEN i ELSE i + cut) < (IF j <= la THEN j ELSE j + cut)
  OBVIOUS

\* Chunks are cut out of the middle.
LEMMA ChunksAreCut ==
  ASSUME NEW a \in Seq(Nat), NEW b \in Seq(Nat), NEW n \in Nat, NEW cut \in 0..Len(b),
         NEW rest, rest = SubSeq(b, cut + 1, Len(b)),
         NEW k \in Int, Continues(a, b, n, k)
  PROVE  rest \in Seq(Nat) /\ Continues(a, rest, n, k - cut)
<1> DEFINE old == a \o b
           new == a \o rest
<1>1. old \in Seq(Nat) /\ Len(old) = Len(a) + Len(b)
      /\ \A i \in 1..Len(old) : old[i] = IF i <= Len(a) THEN a[i] ELSE b[i - Len(a)]
  BY ConcatProperties
<1>2. Len(a) \in Nat /\ Len(b) \in Nat /\ cut \in Nat /\ cut <= Len(b)
  OBVIOUS
<1>3. rest \in Seq(Nat) /\ Len(rest) = Len(b) - cut
      /\ \A i \in 1..Len(rest) : rest[i] = b[cut + i]
  <2>1. \A i \in (cut + 1)..Len(b) : b[i] \in Nat
    BY <1>2, ElementOfSeq, SMTT(30)
  <2>2. /\ rest \in Seq(Nat)
        /\ Len(rest) = IF cut + 1 <= Len(b) THEN Len(b) - (cut + 1) + 1 ELSE 0
        /\ \A i \in 1..(Len(b) - (cut + 1) + 1) : rest[i] = b[(cut + 1) + i - 1]
    BY <1>2, <2>1, SubSeqProperties
  <2>3. Len(rest) = Len(b) - cut
    BY <1>2, <2>2
  <2>4. \A i \in 1..Len(rest) : (cut + 1) + i - 1 = cut + i /\ i \in 1..(Len(b) - (cut + 1) + 1)
    BY <1>2, <2>3
  <2> QED BY <2>2, <2>3, <2>4
<1>4. new \in Seq(Nat) /\ Len(new) = Len(a) + Len(rest)
  BY <1>3, ConcatProperties
<1>5. \A i \in 1..Len(new) : new[i] = IF i <= Len(a) THEN a[i] ELSE rest[i - Len(a)]
  BY <1>3, <1>4, ConcatProperties
<1>6. \A i \in 1..Len(old) : old[i] = IF i <= Len(a) THEN a[i] ELSE b[i - Len(a)]
  BY <1>1
<1> HIDE DEF old, new
<1>7. PICK la \in Nat, lb \in Nat :
        /\ la = Len(a) /\ lb = Len(b) /\ cut <= lb
        /\ Len(rest) = lb - cut /\ Len(old) = la + lb /\ Len(new) = la + (lb - cut)
  <2>1. Len(old) = Len(a) + Len(b)
    BY <1>1
  <2>2. Len(new) = Len(a) + (Len(b) - cut)
    BY <1>3, <1>4
  <2> QED BY <1>2, <1>3, <2>1, <2>2
<1> DEFINE at(i) == IF i <= la THEN i ELSE i + cut
<1>10. \A i \in 1..Len(new) : at(i) \in 1..Len(old) /\ new[i] = old[at(i)]
  <2> SUFFICES ASSUME NEW i \in 1..Len(new) PROVE at(i) \in 1..Len(old) /\ new[i] = old[at(i)]
    OBVIOUS
  <2>0. i \in 1..(la + (lb - cut))
    BY <1>7
  <2>1. CASE i <= la
    <3>1. i \in 1..Len(old)
      BY <2>0, <2>1, <1>2, <1>7
    <3>2. new[i] = a[i] /\ old[i] = a[i]
      BY <3>1, <2>1, <1>5, <1>6, <1>7
    <3> QED BY <2>1, <3>1, <3>2
  <2>2. CASE ~(i <= la)
    <3>1. i - la \in 1..(lb - cut) /\ i + cut \in 1..(la + lb) /\ ~(i + cut <= la)
          /\ (i + cut) - la = cut + (i - la)
      BY <2>0, <2>2, <1>2, <1>7
    <3>2. i - la \in 1..Len(rest) /\ i + cut \in 1..Len(old)
      BY <3>1, <1>7
    <3>3. new[i] = rest[i - la]
      BY <2>2, <1>5, <1>7
    <3>4. rest[i - la] = b[cut + (i - la)]
      BY <3>2, <1>3
    <3>5. old[i + cut] = b[(i + cut) - la]
      BY <3>1, <3>2, <1>6, <1>7
    <3> QED BY <2>2, <3>1, <3>2, <3>3, <3>4, <3>5
  <2> QED BY <2>1, <2>2
<1>11. \A i, j \in 1..Len(new) : i < j => at(i) < at(j)
  <2> SUFFICES ASSUME NEW i \in 1..Len(new), NEW j \in 1..Len(new), i < j PROVE at(i) < at(j)
    OBVIOUS
  <2>1. i \in Int /\ j \in Int
    OBVIOUS
  <2> QED BY <1>2, <2>1, <1>7, Cuts, SMTT(30)
<1> HIDE DEF at
<1>8. Rising(new)
  <2> SUFFICES ASSUME NEW i \in 1..Len(new), NEW j \in 1..Len(new), i < j PROVE new[i] < new[j]
    BY DEF Rising
  <2> QED BY <1>10, <1>11 DEF Continues, Rising, old
<1>9. Within(new, n)
  BY <1>10 DEF Continues, Within, old
<1>12. Len(new) = Len(old) - cut
  BY <1>2, <1>7
<1>13. Len(old) = k
  BY DEF Continues, old
<1> QED BY <1>3, <1>12, <1>13, <1>8, <1>9 DEF Continues, new
------------------------------------------------------------------------------
\* The loop with its calls and targets.

LEMMA ListedAreFinite == ExecTypeOK => IsFiniteSet(sessions)
<1> SUFFICES ASSUME ExecTypeOK PROVE IsFiniteSet(sessions)
  OBVIOUS
<1>1. IsFiniteSet(1..nextID)
  BY ExecAssumption, FS_Interval DEF ExecTypeOK
<1> QED BY <1>1, FS_Subset DEF ExecTypeOK

LEMMA SessionGoes ==
  ASSUME ExecTypeOK, NEW id
  PROVE  Cardinality(sessions \ {id}) <= MaxExecSessions
<1>1. IsFiniteSet(sessions) /\ sessions \ {id} \subseteq sessions
  BY ListedAreFinite
<1>2. Cardinality(sessions \ {id}) <= Cardinality(sessions)
        /\ Cardinality(sessions \ {id}) \in Nat /\ Cardinality(sessions) \in Nat
  BY <1>1, FS_Subset, FS_CardinalityType
<1> QED BY <1>2, ExecAssumption DEF ExecTypeOK

LEMMA SessionComes ==
  ASSUME ExecTypeOK, NEW id, Cardinality(sessions) < MaxExecSessions
  PROVE  Cardinality(sessions \cup {id}) <= MaxExecSessions
<1>1. IsFiniteSet(sessions) /\ Cardinality(sessions) \in Nat
  BY ListedAreFinite, FS_CardinalityType
<1>2. Cardinality(sessions \cup {id}) = Cardinality(sessions)
      \/ Cardinality(sessions \cup {id}) = Cardinality(sessions) + 1
  BY <1>1, FS_AddElement
<1> QED BY <1>1, <1>2, ExecAssumption

\* What a step of the loop does to the loop itself: rounds, calls, targets, sessions.
LoopTypeOK ==
  /\ execStage \in ExecStages
  /\ execRound \in 0..MaxIterations /\ execCalls \in 0..MaxToolCalls
  /\ execTarget \in 0..nextID
  /\ nextID \in 0..MaxExecs
  /\ sessions \subseteq 1..nextID /\ Cardinality(sessions) <= MaxExecSessions
  /\ processes \in [ExecIds -> SUBSET ProcessKinds]
  /\ killed \subseteq 1..nextID
  /\ done \in [ExecIds -> BOOLEAN]

LoopFits == LoopTypeOK /\ RoundsFit /\ TargetsFit /\ GoneAreDone

LEMMA LoopKeeps == ExecIInv /\ [ExecNext]_execVars => LoopFits'
<1> SUFFICES ASSUME ExecIInv, [ExecNext]_execVars PROVE LoopFits'
  OBVIOUS
<1> USE ExecAssumption DEF ExecIInv, ExecTypeOK, LoopFits, LoopTypeOK, RoundsFit, TargetsFit, GoneAreDone, Busy, Waiting
<1>1. CASE RunBegins
  BY <1>1 DEF RunBegins, processVars, outputVars, ExecStages
<1>2. CASE ModelAnswers
  BY <1>2 DEF ModelAnswers, processVars, outputVars, ExecStages
<1>3. CASE NextIteration
  BY <1>3 DEF NextIteration, MoreIterations, processVars, outputVars, ExecStages
<1>4. CASE OtherCall
  BY <1>4 DEF OtherCall, Calling, CallEnds, processVars, outputVars, ExecStages
<1>5. CASE Exec
  <2>1. Cardinality(sessions') <= MaxExecSessions
    BY <1>5, SessionComes DEF Exec
  <2> QED BY <1>5, <2>1 DEF Exec, Calling, Goes, ExecStages, ExecIds, ProcessKinds
<1>6. CASE YieldEnds
  BY <1>6 DEF YieldEnds, Goes, processVars, ExecStages
<1>7. CASE ReportYield
  <2>1. Cardinality(sessions') <= MaxExecSessions
    BY <1>7, SessionGoes DEF ReportYield
  <2> QED BY <1>7, <2>1 DEF ReportYield, CallEnds, processVars, outputVars, ExecStages
<1>8. CASE CommandEnds
  <2>1. Cardinality(sessions') <= MaxExecSessions
    BY <1>8, SessionGoes DEF CommandEnds
  <2> QED BY <1>8, <2>1 DEF CommandEnds, CallEnds, processVars, ExecStages
<1>9. CASE CommandTimesOut
  <2>1. Cardinality(sessions') <= MaxExecSessions
    BY <1>9, SessionGoes DEF CommandTimesOut
  <2> QED BY <1>9, <2>1 DEF CommandTimesOut, Goes, processVars, ExecStages
<1>10. CASE KillTimedOut
  BY <1>10 DEF KillTimedOut, Kill, Goes, outputVars, ExecStages
<1>11. CASE ReapTimedOut
  BY <1>11 DEF ReapTimedOut, CallEnds, processVars, outputVars, ExecStages
<1>12. ASSUME NEW id \in ExecIds, WriteStdin(id) PROVE LoopFits'
  <2>1. /\ execStage = "tools" /\ execCalls > 0 /\ id \in sessions
        /\ UNCHANGED <<nextID, processes, killed, done, sessions>>
        /\ Goes("polling", id) \/ Goes("writing", id) \/ CallEnds
    BY <1>12 DEF WriteStdin, Calling, processVars
  <2>2. CASE Goes("polling", id) \/ Goes("writing", id)
    <3>1. /\ execStage' = "polling" \/ execStage' = "writing"
          /\ execTarget' = id /\ execRound' = execRound /\ execCalls' = execCalls
      BY <2>2 DEF Goes
    <3>2. id \in 1..nextID /\ nextID \in Nat
      BY <2>1
    <3>3. LoopTypeOK'
      BY <2>1, <3>1, <3>2 DEF ExecStages
    <3>4. RoundsFit' /\ TargetsFit'
      BY <2>1, <3>1, <3>2
    <3>5. GoneAreDone'
      BY <2>1, <3>1
    <3> QED BY <3>3, <3>4, <3>5
  <2>3. CASE CallEnds
    BY <2>1, <2>3 DEF CallEnds, ExecStages
  <2> QED BY <2>1, <2>2, <2>3
<1>13. CASE StdinWritten
  BY <1>13 DEF StdinWritten, Goes, CallEnds, processVars, outputVars, ExecStages
<1>14. CASE PollEnds
  BY <1>14 DEF PollEnds, CallEnds, processVars, ExecStages
<1>15. ASSUME NEW id \in ExecIds, Stop(id) \/ Cleanup(id) PROVE LoopFits'
  <2>1. processes' \in [ExecIds -> SUBSET ProcessKinds] /\ killed' \subseteq killed \cup {id}
    <3>1. KillUnlessDone(id)
      BY <1>15 DEF Stop, Cleanup
    <3>2. CASE done[id]
      BY <3>1, <3>2 DEF KillUnlessDone
    <3>3. CASE ~done[id]
      BY <3>1, <3>3 DEF KillUnlessDone, Kill
    <3> QED BY <3>2, <3>3
  <2>2. CASE Stop(id)
    BY <2>1, <2>2 DEF Stop, Calling, Goes, ExecStages
  <2>3. CASE Cleanup(id)
    BY <2>1, <2>3 DEF Cleanup, Goes, ExecStages
  <2> QED BY <1>15, <2>2, <2>3
<1>16. CASE StopEnds
  <2>1. Cardinality(sessions') <= MaxExecSessions
    BY <1>16, SessionGoes DEF StopEnds
  <2> QED BY <1>16, <2>1 DEF StopEnds, CallEnds, processVars, ExecStages
<1>17. CASE CleanedUp
  <2>1. Cardinality(sessions') <= MaxExecSessions
    BY <1>17, SessionGoes DEF CleanedUp
  <2> QED BY <1>17, <2>1 DEF CleanedUp, Goes, processVars, outputVars, ExecStages
<1>18. CASE TurnReturns
  BY <1>18 DEF TurnReturns, Goes, processVars, outputVars, ExecStages
<1>19. ASSUME NEW id \in ExecIds, Fork(id) \/ ProcessExits(id) \/ WriteOutput(id) \/ CloseDone(id)
       PROVE  LoopFits'
  <2>1. UNCHANGED <<execStage, execRound, execCalls, execTarget, nextID, sessions, killed>>
    BY <1>19 DEF Fork, ProcessExits, WriteOutput, CloseDone, loopVars, processVars
  <2>2. processes' \in [ExecIds -> SUBSET ProcessKinds]
    <3>1. CASE Fork(id)
      <4>1. PICK kind \in {"group", "quiet", "outside"} :
               processes' = [processes EXCEPT ![id] = @ \cup {kind}]
        BY <3>1 DEF Fork
      <4> QED BY <4>1 DEF ProcessKinds
    <3>3. CASE ProcessExits(id)
      <4>1. PICK kind \in processes[id] : processes' = [processes EXCEPT ![id] = @ \ {kind}]
        BY <3>3 DEF ProcessExits
      <4> QED BY <4>1
    <3>2. CASE WriteOutput(id) \/ CloseDone(id)
      BY <3>2 DEF WriteOutput, CloseDone, processVars
    <3> QED BY <1>19, <3>1, <3>2, <3>3
  <2>3. done' \in [ExecIds -> BOOLEAN] /\ \A d \in ExecIds : done[d] => done'[d]
    BY <1>19 DEF Fork, ProcessExits, WriteOutput, CloseDone, processVars
  <2> QED BY <2>1, <2>2, <2>3 DEF ExecIds
<1>20. CASE UNCHANGED execVars
  BY <1>20 DEF execVars
<1> QED BY <1>1, <1>2, <1>3, <1>4, <1>5, <1>6, <1>7, <1>8, <1>9, <1>10, <1>11, <1>12, <1>13, <1>14,
  <1>15, <1>16, <1>17, <1>18, <1>19, <1>20 DEF ExecNext, LoopStep
------------------------------------------------------------------------------
\* The output.  A step writes a chunk, or drains a buffer, or leaves it all alone.

OutputTypeOK ==
  /\ output \in [ExecIds -> [content : Seq(1..MaxWritten), dropped : Nat]]
  /\ written \in [ExecIds -> 0..MaxWritten]
  /\ shown \in [ExecIds -> Seq(1..MaxWritten)]
  /\ omitted \in [ExecIds -> Nat]
  /\ late \subseteq ExecIds

OutputFits == OutputTypeOK /\ OutputIsCounted

\* What is known of one command, as numbers.
LEMMA OutputIs ==
  ASSUME OutputFits, NEW id \in ExecIds
  PROVE  /\ shown[id] \in Seq(Nat) /\ output[id].content \in Seq(Nat)
         /\ shown[id] \in Seq(1..MaxWritten) /\ output[id].content \in Seq(1..MaxWritten)
         /\ output[id] = [content |-> output[id].content, dropped |-> output[id].dropped]
         /\ output[id].dropped \in Nat /\ omitted[id] \in Nat
         /\ written[id] \in 0..MaxWritten /\ written[id] \in Nat
         /\ Continues(shown[id], output[id].content, written[id],
                      written[id] - omitted[id] - output[id].dropped)
<1>1. shown[id] \in Seq(1..MaxWritten) /\ output[id].content \in Seq(1..MaxWritten)
  BY DEF OutputFits, OutputTypeOK
<1>2. shown[id] \in Seq(Nat) /\ output[id].content \in Seq(Nat)
  BY <1>1, ExecAssumption, SeqMonotonic
<1>3. /\ output[id] = [content |-> output[id].content, dropped |-> output[id].dropped]
      /\ output[id].dropped \in Nat /\ omitted[id] \in Nat
      /\ written[id] \in 0..MaxWritten /\ written[id] \in Nat
  BY ExecAssumption DEF OutputFits, OutputTypeOK
<1> QED BY <1>1, <1>2, <1>3 DEF OutputFits, OutputIsCounted

LEMMA DrainKeeps ==
  ASSUME OutputFits, NEW id \in ExecIds, Drain(id)
  PROVE  /\ OutputFits' /\ output'[id] = EmptyOutput
         /\ \A d \in ExecIds : d # id => output'[d] = output[d]
         /\ late' = late \ {id}
<1>0. PICK a \in Seq(Nat), b \in Seq(Nat), gone \in Nat, left \in Nat, n \in Nat :
        /\ a = shown[id] /\ b = output[id].content /\ gone = output[id].dropped
        /\ left = omitted[id] /\ n = written[id]
        /\ a \in Seq(1..MaxWritten) /\ b \in Seq(1..MaxWritten)
        /\ Continues(a, b, n, n - left - gone)
  BY OutputIs
<1>1. PICK cut \in 0..Len(b) :
        /\ shown' = [shown EXCEPT ![id] = @ \o SubSeq(b, cut + 1, Len(b))]
        /\ omitted' = [omitted EXCEPT ![id] = @ + gone + cut]
  BY <1>0 DEF Drain
<1>2. output' = [output EXCEPT ![id] = EmptyOutput] /\ late' = late \ {id} /\ written' = written
  BY DEF Drain
<1>13. PICK k \in Int : k = n - left - gone
  OBVIOUS
<1>14. PICK rest : rest = SubSeq(b, cut + 1, Len(b))
  OBVIOUS
<1>3. rest \in Seq(Nat) /\ Continues(a, rest, n, k - cut)
  <2>1. Continues(a, b, n, k)
    BY <1>0, <1>13
  <2> QED BY <2>1, <1>14, ChunksAreCut, Zenon
<1>4. rest \in Seq(1..MaxWritten)
  <2>1. Len(b) \in Nat /\ cut \in Nat
    OBVIOUS
  <2>2. \A i \in (cut + 1)..Len(b) : b[i] \in 1..MaxWritten
    <3>1. b \in Seq(1..MaxWritten)
      BY <1>0
    <3>2. \A i \in 1..Len(b) : b[i] \in 1..MaxWritten
      BY <3>1, ElementOfSeq, Zenon
    <3>3. \A i \in (cut + 1)..Len(b) : i \in 1..Len(b)
      BY <2>1
    <3> QED BY <3>2, <3>3, Zenon
  <2> QED BY <1>14, <2>1, <2>2, SubSeqProperties
<1>5. PICK new : new = a \o rest /\ new \in Seq(1..MaxWritten) /\ new \in Seq(Nat)
  BY <1>0, <1>3, <1>4, ConcatProperties
<1>6. shown'[id] = new /\ \A d \in ExecIds : d # id => shown'[d] = shown[d]
  BY <1>0, <1>1, <1>5, <1>14 DEF OutputFits, OutputTypeOK
<1>7. omitted'[id] = left + gone + cut
      /\ \A d \in ExecIds : d # id => omitted'[d] = omitted[d]
  BY <1>0, <1>1 DEF OutputFits, OutputTypeOK
<1>8. output'[id] = EmptyOutput /\ \A d \in ExecIds : d # id => output'[d] = output[d]
  BY <1>2 DEF OutputFits, OutputTypeOK
<1>9. Continues(shown'[id], <<>>, n, k - cut)
  <2>1. new \o <<>> = new
    BY <1>5, ConcatEmptySeq
  <2> QED BY <1>3, <1>5, <1>6, <2>1 DEF Continues
<1>10. omitted'[id] \in Nat
  BY <1>7
<1>11. Continues(shown'[id], output'[id].content, n, n - omitted'[id] - output'[id].dropped)
  <2>1. output'[id].content = <<>> /\ output'[id].dropped = 0
    BY <1>8 DEF EmptyOutput
  <2>2. k - cut = n - (left + gone + cut) - 0
    BY <1>13
  <2> QED BY <1>7, <1>9, <2>1, <2>2, Zenon
<1>12. OutputTypeOK'
  <2>1. EmptyOutput \in [content : Seq(1..MaxWritten), dropped : Nat]
    BY EmptySeq DEF EmptyOutput
  <2>2. shown' \in [ExecIds -> Seq(1..MaxWritten)]
    BY <1>1, <1>0, <1>14, <1>5 DEF OutputFits, OutputTypeOK
  <2>3. omitted' \in [ExecIds -> Nat]
    BY <1>0, <1>1, <1>7, <1>10 DEF OutputFits, OutputTypeOK
  <2> QED BY <2>1, <2>2, <2>3, <1>2 DEF OutputFits, OutputTypeOK
<1>16. OutputIsCounted'
  <2> SUFFICES ASSUME NEW d \in ExecIds
               PROVE  Continues(shown'[d], output'[d].content, written'[d],
                                written'[d] - omitted'[d] - output'[d].dropped)
    BY DEF OutputIsCounted
  <2>1. CASE d = id
    BY <2>1, <1>0, <1>2, <1>11
  <2>2. CASE d # id
    BY <2>2, <1>2, <1>6, <1>7, <1>8 DEF OutputFits, OutputIsCounted
  <2> QED BY <2>1, <2>2
<1> QED BY <1>2, <1>8, <1>12, <1>16 DEF OutputFits

LEMMA WriteKeeps ==
  ASSUME OutputFits, NEW id \in ExecIds, WriteOutput(id)
  PROVE  OutputFits' /\ \A d \in ExecIds : d # id => output'[d] = output[d]
<1>0. PICK a \in Seq(Nat), b \in Seq(Nat), gone \in Nat, left \in Nat, n \in Nat :
        /\ a = shown[id] /\ b = output[id].content /\ gone = output[id].dropped
        /\ left = omitted[id] /\ n = written[id]
        /\ a \in Seq(1..MaxWritten) /\ b \in Seq(1..MaxWritten)
        /\ Continues(a, b, n, n - left - gone)
        /\ output[id] = [content |-> b, dropped |-> gone]
  BY OutputIs
<1>6. PICK k \in Int : k = n - left - gone
  OBVIOUS
<1>1. /\ written' = [written EXCEPT ![id] = n + 1] /\ n + 1 \in 1..MaxWritten
      /\ output' = [output EXCEPT ![id] = Capped(output[id], n + 1)]
      /\ UNCHANGED <<shown, omitted>> /\ late' \subseteq late \cup {id}
  <2>1. n < MaxWritten /\ n + 1 \in 1..MaxWritten
    BY <1>0, ExecAssumption, SMTT(30) DEF WriteOutput
  <2> QED BY <1>0, <2>1 DEF WriteOutput
<1>2. PICK c \in Seq(1..MaxWritten), lost \in Nat :
        /\ Capped(output[id], n + 1) = [content |-> c, dropped |-> lost]
        /\ Continues(a, c, n + 1, (n + 1) - left - lost)
  <2>1. CASE Len(b) < OutputCap
    <3>1. Capped(output[id], n + 1) = [content |-> Append(b, n + 1), dropped |-> gone]
      BY <1>0, <2>1 DEF Capped
    <3>2. Append(b, n + 1) \in Seq(1..MaxWritten)
      BY <1>0, <1>1, AppendProperties
    <3>3. Continues(a, Append(b, n + 1), n + 1, k + 1)
      BY <1>0, <1>6, ChunkComes
    <3>4. k + 1 = (n + 1) - left - gone
      BY <1>6
    <3> QED BY <3>1, <3>2, <3>3, <3>4, Zenon
  <2>2. CASE ~(Len(b) < OutputCap)
    <3>1. b # <<>>
      BY <2>2, ExecAssumption, EmptySeq
    <3>2. Tail(b) = SubSeq(b, 1 + 1, Len(b)) /\ 1 \in 0..Len(b)
      BY <3>1, TailIsSubSeq, EmptySeq
    <3>3. PICK r : r = Tail(b)
      OBVIOUS
    <3>4. r = SubSeq(b, 1 + 1, Len(b))
      BY <3>2, <3>3
    <3>5. r \in Seq(Nat) /\ Continues(a, r, n, k - 1)
      <4>1. Continues(a, b, n, k)
        BY <1>0, <1>6
      <4> QED BY <4>1, <3>2, <3>4, ChunksAreCut, Zenon
    <3>6. r \in Seq(1..MaxWritten)
      BY <1>0, <3>1, <3>3, HeadTailProperties
    <3>7. Append(r, n + 1) \in Seq(1..MaxWritten)
      BY <3>6, <1>1, AppendProperties
    <3>8. Continues(a, Append(r, n + 1), n + 1, (k - 1) + 1)
      <4>1. k - 1 \in Int
        OBVIOUS
      <4> QED BY <3>5, <4>1, ChunkComes
    <3>9. Capped(output[id], n + 1) = [content |-> Append(r, n + 1), dropped |-> gone + 1]
      BY <1>0, <2>2, <3>3 DEF Capped
    <3>10. (k - 1) + 1 = (n + 1) - left - (gone + 1) /\ gone + 1 \in Nat
      BY <1>6
    <3> QED BY <3>7, <3>8, <3>9, <3>10, Zenon
  <2> QED BY <2>1, <2>2
<1>3. output'[id] = [content |-> c, dropped |-> lost]
      /\ \A d \in ExecIds : d # id => output'[d] = output[d]
  BY <1>1, <1>2 DEF OutputFits, OutputTypeOK
<1>4. OutputTypeOK'
  BY <1>1, <1>2 DEF OutputFits, OutputTypeOK
<1>5. OutputIsCounted'
  <2> SUFFICES ASSUME NEW d \in ExecIds
               PROVE  Continues(shown'[d], output'[d].content, written'[d],
                                written'[d] - omitted'[d] - output'[d].dropped)
    BY DEF OutputIsCounted
  <2>1. CASE d = id
    <3>1. shown'[id] = a /\ output'[id].content = c /\ output'[id].dropped = lost
      BY <1>0, <1>1, <1>3
    <3>2. written'[id] = n + 1 /\ omitted'[id] = left
      BY <1>0, <1>1 DEF OutputFits, OutputTypeOK
    <3> QED BY <2>1, <3>1, <3>2, <1>2
  <2>2. CASE d # id
    BY <2>2, <1>1, <1>3 DEF OutputFits, OutputIsCounted, OutputTypeOK
  <2> QED BY <2>1, <2>2
<1> QED BY <1>3, <1>4, <1>5 DEF OutputFits

LEMMA OutputStays ==
  ASSUME OutputFits, UNCHANGED outputVars
  PROVE  OutputFits'
  BY DEF outputVars, OutputFits, OutputTypeOK, OutputIsCounted

LEMMA OutputKeeps == ExecIInv /\ [ExecNext]_execVars => OutputFits'
<1> SUFFICES ASSUME ExecIInv, [ExecNext]_execVars PROVE OutputFits'
  OBVIOUS
<1>1. OutputFits
  BY DEF ExecIInv, ExecTypeOK, OutputFits, OutputTypeOK
<1>2. execStage \in Busy => execTarget \in ExecIds
  BY ExecAssumption DEF ExecIInv, ExecTypeOK, TargetsFit, ExecIds
<1>3. CASE UNCHANGED outputVars
  BY <1>1, <1>3, OutputStays
<1>4. ASSUME NEW id \in ExecIds, Drain(id) PROVE OutputFits'
  BY <1>1, <1>4, DrainKeeps
<1>5. CASE LoopStep
  <2>1. UNCHANGED outputVars \/ (\E id \in ExecIds : Drain(id)) \/ (Drain(execTarget) /\ execStage \in Busy)
    BY <1>5 DEF LoopStep, ModelAnswers, NextIteration, OtherCall, Exec, YieldEnds, ReportYield, CommandEnds,
       CommandTimesOut, KillTimedOut, ReapTimedOut, WriteStdin, StdinWritten, PollEnds, Stop, StopEnds,
       Cleanup, CleanedUp, TurnReturns, Busy, Waiting
  <2> QED BY <2>1, <1>2, <1>3, <1>4
<1>6. ASSUME NEW id \in ExecIds, WriteOutput(id) PROVE OutputFits'
  BY <1>1, <1>6, WriteKeeps
<1>7. CASE RunBegins
  BY <1>3, <1>7 DEF RunBegins
<1>8. ASSUME NEW id \in ExecIds, Fork(id) \/ ProcessExits(id) \/ CloseDone(id) PROVE OutputFits'
  BY <1>3, <1>8 DEF Fork, ProcessExits, CloseDone
<1>9. CASE UNCHANGED execVars
  BY <1>3, <1>9 DEF execVars, outputVars
<1> QED BY <1>5, <1>6, <1>7, <1>8, <1>9 DEF ExecNext
------------------------------------------------------------------------------
\* What is left unread.

ReadFits == FreshAreEmpty /\ ReadIsEmpty /\ SettledAreRead

\* A result reads the output of its session, and may be the last to do so.
LEMMA ResultReads ==
  ASSUME ExecIInv, NEW id \in 1..nextID, Drain(id), UNCHANGED nextID,
         execTarget \in {0, id}, sessions \ {id} \subseteq sessions',
         execStage \notin {"cleanup", "over"},
         execTarget' \in {0, id}
  PROVE  ReadFits'
<1>1. OutputFits
  BY DEF ExecIInv, ExecTypeOK, OutputFits, OutputTypeOK
<1>2. id \in ExecIds
  BY ExecAssumption DEF ExecIInv, ExecTypeOK, ExecIds
<1>3. /\ output'[id] = EmptyOutput /\ late' = late \ {id}
      /\ \A d \in ExecIds : d # id => output'[d] = output[d]
  BY <1>1, <1>2, DrainKeeps
<1>4. 0 \notin ExecIds
  BY DEF ExecIds
<1>5. FreshAreEmpty'
  BY <1>2, <1>3 DEF ExecIInv, FreshAreEmpty
<1>6. ReadIsEmpty'
  BY <1>3, <1>4 DEF ReadIsEmpty, Looked
<1>7. SettledAreRead'
  BY <1>3, <1>4 DEF ExecIInv, SettledAreRead, NothingIsUnread
<1> QED BY <1>5, <1>6, <1>7 DEF ReadFits

\* Nothing is read: a call ends or goes on, as far as its session is concerned.
LEMMA OthersReadNothing ==
  ASSUME ExecIInv, UNCHANGED outputVars, nextID <= nextID', nextID' \in Nat,
         execStage' \in {"cleanup", "over"} \/ execStage \notin {"cleanup", "over"},
         \A d \in ExecIds : Looked(d)' => Looked(d),
         \A d \in ExecIds : d \in sessions \cup {execTarget} =>
           d \in sessions' \cup {execTarget'} \/ Looked(d) \/ execStage' \in {"cleanup", "over"}
  PROVE  ReadFits'
<1>1. output' = output /\ late' = late
  BY DEF outputVars
<1>2. FreshAreEmpty'
  BY <1>1, ExecAssumption DEF ExecIInv, ExecTypeOK, FreshAreEmpty, ExecIds
<1>3. ReadIsEmpty'
  BY <1>1 DEF ExecIInv, ReadIsEmpty
<1>4. SettledAreRead'
  BY <1>1 DEF ExecIInv, SettledAreRead, ReadIsEmpty, NothingIsUnread
<1> QED BY <1>2, <1>3, <1>4 DEF ReadFits

LEMMA ReadKeeps == ExecIInv /\ [ExecNext]_execVars => ReadFits'
<1> SUFFICES ASSUME ExecIInv, [ExecNext]_execVars PROVE ReadFits'
  OBVIOUS
<1>1. /\ nextID \in Nat /\ 0 \notin ExecIds /\ 1..nextID \subseteq ExecIds /\ sessions \subseteq 1..nextID
      /\ TargetsFit
  BY ExecAssumption DEF ExecIInv, ExecTypeOK, ExecIds
<1> USE <1>1 DEF Looked, Busy, Waiting, TargetsFit
<1>2. CASE RunBegins \/ ModelAnswers \/ NextIteration
  <2>1. UNCHANGED <<outputVars, nextID, sessions, execTarget>> /\ execStage' \notin {"drained", "killing", "reaping"}
        /\ execStage \notin {"cleanup", "over"}
    BY <1>2 DEF RunBegins, ModelAnswers, NextIteration, processVars
  <2> QED BY <2>1, OthersReadNothing
<1>3. CASE OtherCall
  <2>1. UNCHANGED <<outputVars, nextID, sessions>> /\ execTarget' = 0 /\ execStage' = "tools" /\ execStage = "tools"
    BY <1>3 DEF OtherCall, Calling, CallEnds, processVars
  <2> QED BY <2>1, OthersReadNothing
<1>4. CASE Exec
  <2>1. UNCHANGED outputVars /\ nextID' = nextID + 1 /\ sessions' = sessions \cup {nextID + 1}
        /\ execStage' \in {"yielding", "running"} /\ execStage = "tools"
    BY <1>4 DEF Exec, Calling, Goes
  <2> QED BY <2>1, OthersReadNothing
<1>5. CASE YieldEnds
  BY <1>5, ResultReads DEF YieldEnds, Goes, processVars
<1>6. CASE ReportYield
  <2>1. UNCHANGED <<outputVars, nextID>> /\ sessions \ {execTarget} \subseteq sessions'
        /\ execStage' = "tools" /\ execStage = "drained"
    BY <1>6 DEF ReportYield, CallEnds, processVars
  <2> QED BY <2>1, OthersReadNothing
<1>7. CASE CommandEnds
  BY <1>7, ResultReads DEF CommandEnds, CallEnds, processVars
<1>8. CASE CommandTimesOut
  BY <1>8, ResultReads DEF CommandTimesOut, Goes, processVars
<1>9. CASE KillTimedOut
  <2>1. UNCHANGED <<outputVars, nextID, sessions, execTarget>> /\ execStage' = "reaping" /\ execStage = "killing"
    BY <1>9 DEF KillTimedOut, Goes
  <2> QED BY <2>1, OthersReadNothing
<1>10. CASE ReapTimedOut
  <2>1. UNCHANGED <<outputVars, nextID, sessions>> /\ execStage' = "tools" /\ execStage = "reaping"
    BY <1>10 DEF ReapTimedOut, CallEnds, processVars
  <2> QED BY <2>1, OthersReadNothing
<1>11. ASSUME NEW id \in ExecIds, WriteStdin(id) PROVE ReadFits'
  <2>1. UNCHANGED <<nextID, sessions>> /\ id \in sessions /\ execStage = "tools"
    BY <1>11 DEF WriteStdin, Calling, processVars
  <2>2. CASE (Goes("polling", id) \/ Goes("writing", id)) /\ UNCHANGED outputVars
    <3>1. execTarget' = id /\ execStage' \in {"polling", "writing"}
      BY <2>2 DEF Goes
    <3> QED BY <2>1, <2>2, <3>1, OthersReadNothing
  <2>3. CASE Drain(id) /\ CallEnds
    BY <2>1, <2>3, ResultReads DEF CallEnds
  <2> QED BY <1>11, <2>2, <2>3 DEF WriteStdin
<1>12. CASE StdinWritten
  <2>1. UNCHANGED <<nextID, sessions>> /\ execStage = "writing"
    BY <1>12 DEF StdinWritten, processVars
  <2>2. CASE Goes("polling", execTarget) /\ UNCHANGED outputVars
    <3>1. execTarget' = execTarget /\ execStage' = "polling"
      BY <2>2 DEF Goes
    <3> QED BY <2>1, <2>2, <3>1, OthersReadNothing
  <2>3. CASE Drain(execTarget) /\ CallEnds
    BY <2>1, <2>3, ResultReads DEF CallEnds
  <2> QED BY <1>12, <2>2, <2>3 DEF StdinWritten
<1>13. CASE PollEnds
  BY <1>13, ResultReads DEF PollEnds, CallEnds, processVars
<1>14. ASSUME NEW id \in ExecIds, Stop(id) PROVE ReadFits'
  <2>1. UNCHANGED <<outputVars, nextID, sessions>> /\ execTarget' = id /\ execStage' = "stopping" /\ execStage = "tools"
    BY <1>14 DEF Stop, Calling, Goes
  <2> QED BY <2>1, OthersReadNothing
<1>15. CASE StopEnds
  BY <1>15, ResultReads DEF StopEnds, CallEnds, processVars
<1>16. ASSUME NEW id \in ExecIds, Cleanup(id) PROVE ReadFits'
  <2>1. UNCHANGED <<outputVars, nextID>> /\ execStage' = "cleanup"
    BY <1>16 DEF Cleanup, Goes
  <2> QED BY <2>1, OthersReadNothing
<1>17. CASE CleanedUp \/ TurnReturns
  <2>1. UNCHANGED <<outputVars, nextID>> /\ execStage' \in {"cleanup", "over"}
    BY <1>17 DEF CleanedUp, TurnReturns, Goes, processVars
  <2> QED BY <2>1, OthersReadNothing
<1>18. ASSUME NEW id \in ExecIds, WriteOutput(id) PROVE ReadFits'
  <2>1. /\ UNCHANGED <<execStage, execTarget, nextID, sessions>>
        /\ id <= nextID /\ ~done[id] /\ id \in 1..nextID
        /\ late' = IF Looked(id) THEN late \cup {id} ELSE late
    BY <1>18, <1>1 DEF WriteOutput, loopVars, processVars, ExecIds
  <2>2. \A d \in ExecIds : d # id => output'[d] = output[d]
    BY <1>18 DEF WriteOutput, ExecIInv, ExecTypeOK
  <2>3. id \in sessions \/ id = execTarget
    BY <2>1 DEF ExecIInv, GoneAreDone
  <2>4. FreshAreEmpty'
    BY <2>1, <2>2 DEF ExecIInv, FreshAreEmpty
  <2>5. ReadIsEmpty'
    BY <2>1, <2>2 DEF ExecIInv, ReadIsEmpty
  <2>6. SettledAreRead'
    BY <2>1, <2>2, <2>3 DEF ExecIInv, SettledAreRead, NothingIsUnread
  <2> QED BY <2>4, <2>5, <2>6 DEF ReadFits
<1>19. ASSUME NEW id \in ExecIds, Fork(id) \/ ProcessExits(id) \/ CloseDone(id) PROVE ReadFits'
  <2>1. UNCHANGED <<outputVars, execStage, execTarget, nextID, sessions>>
    BY <1>19 DEF Fork, ProcessExits, CloseDone, loopVars
  <2> QED BY <2>1, OthersReadNothing
<1>20. CASE UNCHANGED execVars
  <2>1. UNCHANGED <<outputVars, execStage, execTarget, nextID, sessions>>
    BY <1>20 DEF execVars, outputVars
  <2> QED BY <2>1, OthersReadNothing
<1> QED BY <1>2, <1>3, <1>4, <1>5, <1>6, <1>7, <1>8, <1>9, <1>10, <1>11, <1>12, <1>13, <1>14,
  <1>15, <1>16, <1>17, <1>18, <1>19, <1>20 DEF ExecNext, LoopStep
------------------------------------------------------------------------------
LEMMA ExecStart == ExecInit => ExecIInv
<1> SUFFICES ASSUME ExecInit PROVE ExecIInv
  OBVIOUS
<1> USE ExecAssumption DEF ExecInit
<1>1. EmptyOutput \in [content : Seq(1..MaxWritten), dropped : Nat] /\ <<>> \in Seq(1..MaxWritten)
  BY EmptySeq DEF EmptyOutput
<1>2. ExecTypeOK
  <2>1. Cardinality(sessions) = 0
    BY FS_EmptySet
  <2> QED BY <1>1, <2>1 DEF ExecTypeOK, ExecStages, ExecIds
<1>3. OutputIsCounted
  <2> SUFFICES ASSUME NEW id \in ExecIds
               PROVE  Continues(shown[id], output[id].content, written[id],
                                written[id] - omitted[id] - output[id].dropped)
    BY DEF OutputIsCounted
  <2>1. <<>> \o <<>> = <<>> /\ Len(<<>>) = 0
    BY EmptySeq, ConcatEmptySeq
  <2>2. Continues(<<>>, <<>>, 0, 0)
    BY <2>1 DEF Continues, Rising, Within
  <2>3. shown[id] = <<>> /\ output[id].content = <<>>
        /\ omitted[id] = 0 /\ output[id].dropped = 0 /\ written[id] = 0
    BY DEF EmptyOutput
  <2> QED BY <2>2, <2>3
<1>4. RoundsFit /\ TargetsFit /\ GoneAreDone
  BY DEF RoundsFit, TargetsFit, GoneAreDone, Busy, Waiting
<1>5. FreshAreEmpty /\ ReadIsEmpty /\ SettledAreRead
  BY DEF FreshAreEmpty, ReadIsEmpty, SettledAreRead, NothingIsUnread
<1> QED BY <1>2, <1>3, <1>4, <1>5 DEF ExecIInv

LEMMA ExecStep == ExecIInv /\ [ExecNext]_execVars => ExecIInv'
<1>1. LoopFits' /\ OutputFits' /\ ReadFits' => ExecIInv'
  BY DEF LoopFits, LoopTypeOK, OutputFits, OutputTypeOK, ReadFits, ExecIInv, ExecTypeOK
<1> QED BY <1>1, LoopKeeps, OutputKeeps, ReadKeeps

\* The invariant holds in every behaviour of a turn of the tool loop.
THEOREM ExecInvariant == ExecSpec => []ExecIInv
  BY ExecStart, ExecStep, PTL DEF ExecSpec

\* Every value keeps its type, rounds and calls end, and no more sessions are open
\* than the loop allows (exec_session.go).
THEOREM ExecTypeCorrect == ExecSpec => []ExecTypeOK
<1>1. ExecIInv => ExecTypeOK
  BY DEF ExecIInv
<1> QED BY <1>1, ExecInvariant, PTL

\* The output of a command is shown once, in order, or counted as omitted, for any
\* commands, limits and sizes.
THEOREM OutputReturns == ExecSpec => []OutputIsReturned
<1>1. ASSUME ExecIInv, NEW id \in ExecIds PROVE OutputIsAccounted(id)
  <2>1. PICK n \in Nat, left \in Nat, gone \in Nat, known \in Seq(Nat) :
          /\ n = written[id] /\ left = omitted[id] /\ gone = output[id].dropped
          /\ known = shown[id] \o output[id].content
          /\ Rising(known) /\ Len(known) = n - left - gone
    <3>1. OutputFits
      BY <1>1 DEF ExecIInv, ExecTypeOK, OutputFits, OutputTypeOK
    <3>2. PICK n \in Nat, left \in Nat, gone \in Nat, a \in Seq(Nat), b \in Seq(Nat) :
            /\ n = written[id] /\ left = omitted[id] /\ gone = output[id].dropped
            /\ a = shown[id] /\ b = output[id].content
            /\ Continues(a, b, n, n - left - gone)
      BY <3>1, OutputIs
    <3>3. a \o b \in Seq(Nat)
      BY ConcatProperties
    <3> QED BY <3>2, <3>3 DEF Continues
  <2>2. Len(known) + left + gone = n
    BY <2>1
  <2> QED BY <2>1, <2>2 DEF OutputIsAccounted, Rising
<1>2. ExecIInv => OutputIsReturned
  BY <1>1 DEF ExecIInv, OutputIsReturned, SettledAreRead
<1> QED BY <1>2, ExecInvariant, PTL
==============================================================================
