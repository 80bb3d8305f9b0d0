----------------------------- MODULE MCServices -----------------------------
(***************************************************************************)
(* Services that share no state, side by side: scheduled jobs, the tool    *)
(* loop of one turn, and the tool that patches files.  A behaviour         *)
(* exercises one of them, so that TLC does not multiply their states.      *)
(***************************************************************************)
EXTENDS ScheduledJobs, ExecSessions, ApplyPatch

VARIABLE part   \* the service a behaviour exercises
vars == <<part, jobsVars, execVars, patchVars>>

Line(words, trailing) == [words |-> words, indented |-> FALSE, trailing |-> trailing]
Blank == Line("", FALSE)
FileLines == {Line("a", FALSE), Line("a", TRUE), Blank}

Chunk(context, old, new, atEnd) == [context |-> context, old |-> old, new |-> new, atEnd |-> atEnd]
Chunks(contexts, new) ==
  {Chunk(context, old, lines, atEnd) :
     context \in contexts, old \in BoundedSeq({Line("a", FALSE), Blank}, 2),
     lines \in {<<>>, <<Line(new, FALSE)>>}, atEnd \in BOOLEAN}
NotEmpty(chunks) == {c \in chunks : c.old # <<>> \/ c.new # <<>>}

Update(p, to, chunks) == [kind |-> "update", path |-> p, to |-> to, chunks |-> chunks]
OneFile(lines) == [p \in PatchPaths |-> IF p = "p" THEN lines ELSE Absent]

\* Two chunks of one file, and two operations on two.
TwoChunks ==
  {[files |-> OneFile(lines), ops |-> <<Update("p", NoPath, <<first, second>>)>>] :
     lines \in BoundedSeq(FileLines, 3), first \in NotEmpty(Chunks({NoContext}, "x")),
     second \in NotEmpty(Chunks({NoContext, Line("a", FALSE)}, "y"))}
Operations ==
  {[kind |-> "add", path |-> p, to |-> NoPath, lines |-> <<Line("z", FALSE)>>] : p \in PatchPaths}
  \cup {[kind |-> "delete", path |-> p, to |-> NoPath] : p \in PatchPaths}
  \cup {Update(p, to, <<Chunk(NoContext, <<Line("a", FALSE)>>, <<Line("x", FALSE), Line("a", FALSE)>>, FALSE)>>) :
           p \in PatchPaths, to \in PatchPaths \cup {NoPath}}
TwoOperations ==
  {[files |-> files, ops |-> <<first, second>>] :
     files \in [PatchPaths -> {Absent, <<Line("a", FALSE)>>}], first \in Operations, second \in Operations}
Patches == TwoChunks \cup TwoOperations
LinesOfPatches == FileLines \cup {Line(words, FALSE) : words \in {"x", "y", "z"}}

Init == part \in {"jobs", "exec", "patch"} /\ JobsInit /\ ExecInit /\ PatchInit

Next ==
  \/ part = "jobs" /\ JobsNext /\ UNCHANGED <<part, execVars, patchVars>>
  \/ part = "exec" /\ ExecNext /\ UNCHANGED <<part, jobsVars, patchVars>>
  \/ part = "patch" /\ PatchNext /\ UNCHANGED <<part, jobsVars, execVars>>

\* No service owes a step in its initial state: fairness asks nothing of those
\* that do not run.
FairSpec == Init /\ [][Next]_vars /\ JobsFairness /\ ExecFairness
==============================================================================
