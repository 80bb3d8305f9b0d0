----------------------------- MODULE ApplyPatch -----------------------------
(***************************************************************************)
(* cmd/apply_patch/patch.go: the tool with which agents edit files.  It    *)
(* applies the operations of a patch one after the other, each with one or *)
(* more calls of the file system; nothing is undone when one fails or the  *)
(* tool is killed.  The chunks of an update are placed in the file as it   *)
(* was, and then written into it from the last to the first.               *)
(*                                                                         *)
(* A line is its words and whether it has blanks before and after them; a  *)
(* file is its lines, each ended by a newline.  The patch comes parsed:    *)
(* markers, and the joining of paths to the directory, are left out.       *)
(***************************************************************************)
EXTENDS Naturals, Sequences, SequencesExt

CONSTANTS
  PatchPaths,
  PatchInputs,   \* patches and the files they meet: [files, ops]
  PatchLines,    \* the lines of both
  Absent,        \* the content of a path without a file
  NoPath,        \* the destination of an update that does not move its file
  NoContext,     \* a chunk without a line after "@@"
  BlankLine

PatchContent == Seq(PatchLines) \cup {Absent}
PatchChunk == [context : PatchLines \cup {NoContext}, old : Seq(PatchLines), new : Seq(PatchLines),
               atEnd : BOOLEAN]

\* Operation, by its kind.
IsOperation(o) ==
  /\ o.kind \in {"add", "delete", "update"} /\ o.path \in PatchPaths
  /\ o.to \in PatchPaths \cup {NoPath}
  /\ o.kind = "add" => o.lines \in Seq(PatchLines)
  /\ o.kind = "update" => o.chunks \in Seq(PatchChunk)

\* A patch has operations, and meets files or none on their paths.
ASSUME PatchAssumption ==
  /\ Absent \notin PatchInputs \cup Seq(PatchLines)
  /\ \A input \in PatchInputs : /\ input.files \in [PatchPaths -> PatchContent]
                                /\ Len(input.ops) \in Nat
                                /\ \A n \in 1..Len(input.ops) : IsOperation(input.ops[n])

VARIABLES
  patchInput,    \* the patch and the files before, Absent before it is read
  patchFiles,    \* what each path holds
  patchDone,     \* operations completed
  patchStage     \* "new", "op", "copied" within a move, "success" or "failed"
patchVars == <<patchInput, patchFiles, patchDone, patchStage>>

PatchInit ==
  /\ patchInput = Absent
  /\ patchFiles = [p \in PatchPaths |-> Absent]
  /\ patchDone = 0 /\ patchStage = "new"
------------------------------------------------------------------------------
(* Where chunks go. *)

\* Three passes compare lines: as they are, without blanks after the words,
\* without blanks around them.
Alike(pass, a, b) ==
  /\ a.words = b.words
  /\ pass < 3 => a.indented = b.indented
  /\ pass < 2 => a.trailing = b.trailing

\* seekSequenceWith: all positions, counted from zero.
Hits(pass, lines, pattern, from) ==
  {i \in from..Len(lines) : /\ i + Len(pattern) <= Len(lines)
                            /\ \A o \in 1..Len(pattern) : Alike(pass, lines[i + o], pattern[o])}

\* seekSequence: the first position of the strictest pass that has one, or none.
\* At the end of the file, what was placed before is not looked at.
Seek(lines, pattern, start, atEnd) ==
  LET from == IF atEnd /\ Len(pattern) <= Len(lines) THEN Len(lines) - Len(pattern) ELSE start
      passes == {pass \in 1..3 : Hits(pass, lines, pattern, from) # {}}
  IN IF pattern = <<>> THEN {start}
     ELSE {i \in 0..Len(lines) : \E pass \in passes :
             /\ \A other \in passes : pass <= other
             /\ i \in Hits(pass, lines, pattern, from)
             /\ \A j \in Hits(pass, lines, pattern, from) : i <= j}

EndsBlank(lines) == lines # <<>> /\ Last(lines) = BlankLine
WithoutEnd(lines) == IF EndsBlank(lines) THEN Front(lines) ELSE lines

\* One turn of the loop of computeReplacements: "at" is lineIndex.
PlaceChunk(lines, placed, chunk) ==
  LET context == IF chunk.context = NoContext THEN {placed.at}
                 ELSE {i + 1 : i \in Seek(lines, <<chunk.context>>, placed.at, FALSE)}
      start == CHOOSE i \in context : TRUE
      whole == Seek(lines, chunk.old, start, chunk.atEnd)
      short == whole = {} /\ EndsBlank(chunk.old)
      old == IF short THEN Front(chunk.old) ELSE chunk.old
      found == IF short THEN Seek(lines, old, start, chunk.atEnd) ELSE whole
      at == CHOOSE i \in found : TRUE
      Edit(where, gone, new) == [start |-> where, gone |-> gone, lines |-> new]
  IN IF ~placed.ok \/ context = {} THEN [placed EXCEPT !.ok = FALSE]
     ELSE IF chunk.old = <<>>
       THEN [placed EXCEPT !.at = start, !.edits = Append(@, Edit(Len(lines), 0, chunk.new))]
     ELSE IF found = {} THEN [placed EXCEPT !.ok = FALSE]
     ELSE [placed EXCEPT !.at = at + Len(old),
             !.edits = Append(@, Edit(at, Len(old), IF short THEN WithoutEnd(chunk.new) ELSE chunk.new))]

\* computeReplacements up to the sort.
PlaceChunks(lines, chunks) ==
  LET placed[n \in 0..Len(chunks)] ==
        IF n = 0 THEN [ok |-> TRUE, at |-> 0, edits |-> <<>>] ELSE PlaceChunk(lines, placed[n - 1], chunks[n])
  IN placed[Len(chunks)]

\* The stable sort by position: an edit comes behind those that start no later.
Insert(sorted, e) ==
  LET k == CHOOSE k \in 0..Len(sorted) : \A i \in 1..Len(sorted) : i <= k <=> sorted[i].start <= e.start
  IN InsertAt(sorted, k + 1, e)
SortEdits(edits) ==
  LET sorted[n \in 0..Len(edits)] == IF n = 0 THEN <<>> ELSE Insert(sorted[n - 1], edits[n])
  IN sorted[Len(edits)]

AtMost(n, limit) == IF n > limit THEN limit ELSE n

Splice(e, lines) ==
  LET from == AtMost(e.start, Len(lines))
      to == AtMost(from + e.gone, Len(lines))
  IN SubSeq(lines, 1, from) \o e.lines \o SubSeq(lines, to + 1, Len(lines))

\* Faulty variant: from the first edit to the last, which moves those behind it.
ApplyEditsForward(lines, edits) ==
  LET step(out, e) == Splice(e, out) IN FoldLeft(step, lines, SortEdits(edits))

\* applyReplacements: from the last to the first.
Spliced(lines, sorted) ==
  LET out[n \in 0..Len(sorted)] ==
        IF n = 0 THEN lines ELSE Splice(sorted[Len(sorted) + 1 - n], out[n - 1])
  IN out[Len(sorted)]
ApplyEdits(lines, edits) == Spliced(lines, SortEdits(edits))

\* deriveNewContents: the text is ended by a newline, for which a blank last
\* line is taken.
Derived(lines, chunks) == WithoutEnd(ApplyEdits(lines, PlaceChunks(lines, chunks).edits))
------------------------------------------------------------------------------
(* The operations. *)

operation == patchInput.ops[patchDone + 1]
Exists(p) == patchFiles[p] # Absent
Moves(o) == o.kind = "update" /\ o.to \notin {NoPath, o.path}

ReadPatchInput ==
  /\ patchStage = "new"
  /\ \E input \in PatchInputs : patchInput' = input /\ patchFiles' = input.files
  /\ patchStage' = "op"
  /\ UNCHANGED patchDone

Working == patchStage \in {"op", "copied"} /\ patchDone < Len(patchInput.ops) /\ UNCHANGED patchInput

Complete == patchDone' = patchDone + 1 /\ patchStage' = "op"
PatchFails == patchStage' = "failed" /\ UNCHANGED patchDone

\* os.WriteFile may fail before it opens the file, and after it has cut it off;
\* the tool may be killed in between.
WriteFails(p, lines) ==
  /\ \/ UNCHANGED patchFiles
     \/ \E n \in 0..Len(lines) : patchFiles' = [patchFiles EXCEPT ![p] = SubSeq(lines, 1, n)]
  /\ PatchFails

ApplyAdd ==
  /\ Working /\ operation.kind = "add"
  /\ \/ patchFiles' = [patchFiles EXCEPT ![operation.path] = operation.lines] /\ Complete
     \/ WriteFails(operation.path, operation.lines)

Removed(p) == patchFiles' = [patchFiles EXCEPT ![p] = Absent]

ApplyDelete ==
  /\ Working /\ operation.kind = "delete"
  /\ \/ Exists(operation.path) /\ Removed(operation.path) /\ Complete
     \/ UNCHANGED patchFiles /\ PatchFails

Updates == Working /\ patchStage = "op" /\ operation.kind = "update"
CanDerive == Exists(operation.path) /\ PlaceChunks(patchFiles[operation.path], operation.chunks).ok
NewContent == Derived(patchFiles[operation.path], operation.chunks)

\* The file cannot be read, or a chunk finds no place.
UpdateFails == Updates /\ UNCHANGED patchFiles /\ PatchFails

ApplyUpdate ==
  /\ Updates /\ ~Moves(operation) /\ CanDerive
  /\ \/ patchFiles' = [patchFiles EXCEPT ![operation.path] = NewContent] /\ Complete
     \/ WriteFails(operation.path, NewContent)

\* Faulty variant: the old path is removed first.
CopyToNewPathLast ==
  /\ Updates /\ Moves(operation) /\ CanDerive
  /\ \/ patchFiles' = [patchFiles EXCEPT ![operation.path] = Absent, ![operation.to] = NewContent] /\ Complete
     \/ Removed(operation.path) /\ PatchFails

\* A move writes the new path, over what is there, ...
CopyToNewPath ==
  /\ Updates /\ Moves(operation) /\ CanDerive
  /\ \/ /\ patchFiles' = [patchFiles EXCEPT ![operation.to] = NewContent]
        /\ patchStage' = "copied" /\ UNCHANGED patchDone
     \/ WriteFails(operation.to, NewContent)

\* ... and then removes the old one.
RemoveOriginal ==
  /\ Working /\ patchStage = "copied"
  /\ \/ Exists(operation.path) /\ Removed(operation.path) /\ Complete
     \/ UNCHANGED patchFiles /\ PatchFails

\* The summary is printed.
Succeed ==
  /\ patchStage = "op" /\ patchDone = Len(patchInput.ops)
  /\ patchStage' = "success"
  /\ UNCHANGED <<patchInput, patchFiles, patchDone>>

PatchNext ==
  \/ ReadPatchInput
  \/ ApplyAdd
  \/ ApplyDelete
  \/ UpdateFails
  \/ ApplyUpdate
  \/ CopyToNewPath
  \/ RemoveOriginal
  \/ Succeed

PatchSpec == PatchInit /\ [][PatchNext]_patchVars
------------------------------------------------------------------------------
(* What a patch promises. *)

\* The state has its types, and within a move both paths have a file.
PatchTypeOK ==
  /\ patchInput = Absent <=> patchStage = "new"
  /\ DOMAIN patchFiles = PatchPaths
  /\ patchDone \in 0..(IF patchInput = Absent THEN 0 ELSE Len(patchInput.ops))
  /\ patchStage \in {"new", "op", "copied", "success", "failed"}
  /\ patchStage = "copied" => Moves(operation) /\ Exists(operation.path)

\* An operation as one step.
Effect(files, o) ==
  CASE o.kind = "add" -> [files EXCEPT ![o.path] = o.lines]
    [] o.kind = "delete" -> [files EXCEPT ![o.path] = Absent]
    [] o.kind = "update" ->
         LET new == Derived(files[o.path], o.chunks)
         IN IF Moves(o) THEN [files EXCEPT ![o.path] = Absent, ![o.to] = new]
                        ELSE [files EXCEPT ![o.path] = new]

\* The files after the first n operations.
After[n \in Nat] ==
  IF n = 0 THEN patchInput.files ELSE Effect(After[n - 1], patchInput.ops[n])

\* The only file a call that fails may leave otherwise than it was.
InTheMaking ==
  IF patchDone = Len(patchInput.ops) \/ operation.kind = "delete" THEN {}
  ELSE IF Moves(operation) THEN {operation.to} ELSE {operation.path}

\* Whenever and wherever a patch ends (patch.go:69), the files are as after some
\* of its first operations, all of them if it says so, but for the file that was
\* being written: a move that fails has its content under one path or the other.
PatchesAreAppliedInPart ==
  patchStage # "new" =>
    /\ \A p \in PatchPaths : patchFiles[p] # After[patchDone][p] => p \in InTheMaking
    /\ patchStage \in {"op", "success"} => patchFiles = After[patchDone]
    /\ patchStage = "success" => patchDone = Len(patchInput.ops)

Overlap(e, f) == e.start < f.start + f.gone /\ f.start < e.start + e.gone
Disjoint(edits) == \A i, j \in DOMAIN edits : i # j => ~Overlap(edits[i], edits[j])

\* What edits put at a position, in their order.
Put(edits, p) ==
  LET put[n \in 0..Len(edits)] ==
        IF n = 0 THEN <<>> ELSE IF edits[n].start = p THEN put[n - 1] \o edits[n].lines ELSE put[n - 1]
  IN put[Len(edits)]

Takes(edits, p) == \E i \in 1..Len(edits) : edits[i].start < p /\ p <= edits[i].start + edits[i].gone

\* The lines with their edits, from the first to the last: each line unless an
\* edit takes it, and what is put behind it.
Rewritten(lines, edits) ==
  LET text[p \in 0..Len(lines)] ==
        IF p = 0 THEN Put(edits, 0)
        ELSE text[p - 1] \o (IF Takes(edits, p) THEN <<>> ELSE <<lines[p]>>) \o Put(edits, p)
  IN text[Len(lines)]

\* An update puts each chunk's lines where its old ones were and leaves all
\* others, up to a blank line at the end of the file, which is dropped
\* (patch.go:346).  Chunks take lines of their own and in their order; one that
\* asks for the end of the file may reach back over another (:417) and undo it.
ChunksKeepTheRest ==
  patchDone > 0 /\ patchStage = "op" /\ patchInput.ops[patchDone].kind = "update" =>
    LET o == patchInput.ops[patchDone]
        lines == After[patchDone - 1][o.path]
        edits == PlaceChunks(lines, o.chunks).edits
        target == IF Moves(o) THEN o.to ELSE o.path
    IN /\ Disjoint(edits) => patchFiles[target] = WithoutEnd(Rewritten(lines, edits))
       /\ (\A i \in DOMAIN o.chunks : ~o.chunks[i].atEnd) =>
            /\ Disjoint(edits)
            /\ \A i, j \in DOMAIN edits :
                 i < j /\ o.chunks[i].old # <<>> => edits[i].start <= edits[j].start
==============================================================================
