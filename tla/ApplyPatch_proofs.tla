-------------------------- MODULE ApplyPatch_proofs --------------------------
(***************************************************************************)
(* Patches, for any patch and files.  One that stops is done in part.  The *)
(* chunks of an update are placed in the order they are in, sorted without *)
(* a change to what they put and take, and written from the last to the    *)
(* first, which leaves the other lines as they were.                       *)
(***************************************************************************)
EXTENDS ApplyPatch, SequenceTheorems, WellFoundedInduction, TLAPS

(* What is shown of a patch. *)

\* The files a failed step leaves.
OthersAreDone ==
  \A p \in PatchPaths : patchFiles[p] # After[patchDone][p] => p \in InTheMaking

\* Between operations the files are as after the completed ones; within a move the
\* new path has its content too.
FilesAreDone ==
  /\ patchStage \in {"op", "success"} => patchFiles = After[patchDone]
  /\ patchStage = "copied" =>
       LET o == operation IN
       /\ patchDone < Len(patchInput.ops) /\ Moves(o)
       /\ patchFiles = [After[patchDone] EXCEPT ![o.to] = Derived(After[patchDone][o.path], o.chunks)]
  /\ patchStage = "failed" => OthersAreDone
  /\ patchStage = "success" => patchDone = Len(patchInput.ops)

\* The patch was read, and all files are on its paths.
PatchIsRead ==
  patchStage # "new" =>
    /\ patchInput \in PatchInputs /\ Len(patchInput.ops) \in Nat
    /\ patchFiles = [p \in PatchPaths |-> patchFiles[p]]

\* The inductive invariant.
PatchIInv == PatchTypeOK /\ PatchIsRead /\ FilesAreDone

\* An update whose chunks find their places.
IsPlaced(files, o) == files[o.path] # Absent /\ PlaceChunks(files[o.path], o.chunks).ok

\* The files after the completed operations are texts, and where the last of them was an
\* update, or a move is under way, its chunks were placed in such a text.
FilesAreTexts ==
  patchStage \in {"op", "copied"} =>
    /\ After[patchDone] \in [PatchPaths -> PatchContent]
    /\ patchStage = "copied" => IsPlaced(After[patchDone], operation)
    /\ patchStage = "op" /\ patchDone > 0 /\ patchInput.ops[patchDone].kind = "update" =>
         /\ After[patchDone - 1] \in [PatchPaths -> PatchContent]
         /\ IsPlaced(After[patchDone - 1], patchInput.ops[patchDone])
TextIInv == PatchIInv /\ FilesAreTexts
------------------------------------------------------------------------------
\* Induction over the natural numbers, for sets of them, from the theorem that
\* their order is well-founded.

LEMMA NaturalOrder ==
  \E R : IsWellFoundedOn(R, Nat) /\ \A x, y \in Nat : x < y => <<x, y>> \in R
<1>1. IsWellFoundedOn({ss \in Nat \X Nat : ss[1] < ss[2]}, Nat)
  BY NatLessThanWellFounded, Zenon DEF OpToRel
<1>2. \A x, y \in Nat : x < y => <<x, y>> \in {ss \in Nat \X Nat : ss[1] < ss[2]}
  OBVIOUS
<1> QED
  BY <1>1, <1>2, Zenon

LEMMA MinimalElement ==
  ASSUME NEW N, NEW T, NEW R, IsWellFoundedOn(R, N), T \subseteq N, T # {}
  PROVE  \E x \in T : \A y \in T : ~(<<y, x>> \in R)
BY WFMin

\* A set of natural numbers has a least one.
LEMMA LeastNumber ==
  ASSUME NEW T, T \subseteq Nat, T # {}
  PROVE  \E x \in T : \A y \in T : x <= y
<1>1. PICK N : N = Nat
  OBVIOUS
<1>2. PICK R : IsWellFoundedOn(R, N) /\ \A x, y \in N : x < y => <<x, y>> \in R
  BY <1>1, NaturalOrder
<1>3. T \subseteq N
  BY <1>1
<1>4. \E x \in T : \A y \in T : ~(<<y, x>> \in R)
  BY ONLY <1>2, <1>3, T # {}, MinimalElement
<1>5. \A x, y \in T : ~(<<y, x>> \in R) => x <= y
  BY <1>1, <1>2
<1> QED
  BY <1>4, <1>5

\* A set with 0 and each successor has all of them.
LEMMA SetInduction ==
  ASSUME NEW S, S \subseteq Nat, 0 \in S, \A n \in S : n + 1 \in S
  PROVE  S = Nat
<1>1. SUFFICES ASSUME Nat \ S # {}
               PROVE  FALSE
  OBVIOUS
<1>2. PICK x \in Nat \ S : \A y \in Nat \ S : x <= y
  BY <1>1, LeastNumber
<1>3. x # 0 /\ x - 1 \in Nat /\ x - 1 < x
  BY <1>2
<1>4. x - 1 \in S
  BY <1>2, <1>3
<1>5. (x - 1) + 1 = x
  BY <1>2
<1> QED
  BY <1>2, <1>4, <1>5

\* What a definition by the results of each step has: f[0] and f[n] from f[n - 1].
Recurs(f, base, F, N) ==
  f = [n \in 0..N |-> IF n = 0 THEN base ELSE F[<<f[n - 1], n>>]]

\* A recursive function exists, if its steps stay in a set.
LEMMA RecursionExists ==
  ASSUME NEW D, NEW base \in D, NEW N \in Nat, NEW F \in [D \X (1..N) -> D]
  PROVE  \E f \in [0..N -> D] : Recurs(f, base, F, N)
<1> DEFINE S == {n \in Nat : n <= N => \E f \in [0..n -> D] : Recurs(f, base, F, n)}
<1>1. 0 \in S
  <2>1. [i \in 0..0 |-> base] \in [0..0 -> D] /\ Recurs([i \in 0..0 |-> base], base, F, 0)
    BY DEF Recurs
  <2> QED
    BY <2>1
<1>2. ASSUME NEW n \in S
      PROVE  n + 1 \in S
  <2>1. SUFFICES ASSUME n + 1 <= N
                 PROVE  \E f \in [0..(n + 1) -> D] : Recurs(f, base, F, n + 1)
    OBVIOUS
  <2>2. PICK f \in [0..n -> D] : Recurs(f, base, F, n)
    BY <2>1
  <2> DEFINE g == [i \in 0..(n + 1) |-> IF i <= n THEN f[i] ELSE F[<<f[n], n + 1>>]]
  <2>3. n \in Nat /\ n + 1 \in 1..N /\ n \in 0..n
    BY <2>1
  <2>4. <<f[n], n + 1>> \in D \X (1..N)
    BY <2>2, <2>3
  <2>5. F[<<f[n], n + 1>>] \in D
    BY <2>4
  <2>6. g \in [0..(n + 1) -> D]
    BY <2>2, <2>3, <2>5
  <2>7. ASSUME NEW i \in 0..(n + 1)
        PROVE  g[i] = IF i = 0 THEN base ELSE F[<<g[i - 1], i>>]
    <3>1. CASE i = n + 1
      <4>1. g[i] = F[<<f[n], n + 1>>] /\ i - 1 = n /\ g[n] = f[n] /\ i # 0
        BY <2>3, <3>1
      <4> QED
        BY <3>1, <4>1
    <3>2. CASE i \in 1..n
      <4>1. g[i] = f[i] /\ g[i - 1] = f[i - 1] /\ i # 0 /\ i \in 0..n
        BY <2>3, <3>2
      <4>2. f[i] = F[<<f[i - 1], i>>]
        BY <2>2, <4>1 DEF Recurs
      <4> QED
        BY <4>1, <4>2
    <3>3. CASE i = 0
      <4>1. g[0] = f[0] /\ f[0] = base
        BY <2>2, <2>3 DEF Recurs
      <4> QED
        BY <3>3, <4>1
    <3> QED
      BY <2>3, <3>1, <3>2, <3>3
  <2>8. Recurs(g, base, F, n + 1)
    <3>1. g = [i \in 0..(n + 1) |-> g[i]]
      OBVIOUS
    <3> HIDE DEF g
    <3> QED
      BY <2>7, <3>1 DEF Recurs
  <2> QED
    BY <2>6, <2>8
<1>3. S = Nat
  <2> HIDE DEF S
  <2>1. S \subseteq Nat
    BY DEF S
  <2> QED
    BY <1>1, <1>2, <2>1, SetInduction
<1> QED
  BY <1>3

\* What holds at the start and is handed on from each step to the next holds throughout.
LEMMA StepByStep ==
  ASSUME NEW N \in Nat, NEW H, 0 \in H, \A n \in 1..N : n - 1 \in H => n \in H
  PROVE  \A n \in 0..N : n \in H
<1> DEFINE S == {n \in Nat : n <= N => n \in H}
<1>1. 0 \in S
  OBVIOUS
<1>2. ASSUME NEW n \in S
      PROVE  n + 1 \in S
  <2>1. SUFFICES ASSUME n + 1 <= N
                 PROVE  n + 1 \in H
    OBVIOUS
  <2>2. n \in Nat /\ n \in H
    BY <2>1
  <2>3. n + 1 \in 1..N /\ (n + 1) - 1 = n
    BY <2>1, <2>2
  <2> QED
    BY <2>2, <2>3
<1>3. S = Nat
  <2> HIDE DEF S
  <2>1. S \subseteq Nat
    BY DEF S
  <2> QED
    BY <1>1, <1>2, <2>1, SetInduction
<1> QED
  BY <1>3

\* Induction over lists, from either end.
LEMMA ListInduction ==
  ASSUME NEW S, NEW H, <<>> \in H, \A s \in Seq(S) : s \in H => \A e \in S : Append(s, e) \in H
  PROVE  \A s \in Seq(S) : s \in H
<1> TAKE s \in Seq(S)
<1>1. Len(s) \in Nat /\ SubSeq(s, 1, 0) = <<>> /\ SubSeq(s, 1, Len(s)) = s
      /\ 0 \in 0..Len(s) /\ Len(s) \in 0..Len(s)
  BY SubSeqEmpty, SubSeqFull
<1> DEFINE G == {n \in 0..Len(s) : SubSeq(s, 1, n) \in H}
<1>2. 0 \in G
  BY <1>1, Zenon
<1>3. ASSUME NEW n \in 1..Len(s), n - 1 \in G
      PROVE  n \in G
  <2>1. SubSeq(s, 1, n - 1) \in H /\ n \in 0..Len(s) /\ s[n] \in S
    BY <1>1, <1>3, ElementOfSeq
  <2>2. /\ SubSeq(s, 1, n - 1) \in Seq(S)
        /\ SubSeq(s, 1, n) = SubSeq(s, 1, n - 1) \o <<s[n]>>
    BY <1>1, SubSeqProperties, SubSeqRecursiveSecond, ElementOfSeq
  <2>3. SubSeq(s, 1, n) = Append(SubSeq(s, 1, n - 1), s[n])
    BY <2>1, <2>2
  <2> QED
    BY <2>1, <2>2, <2>3
<1> HIDE DEF G
<1>4. \A n \in 0..Len(s) : n \in G
  BY <1>1, <1>2, <1>3, StepByStep
<1> QED
  BY <1>1, <1>4, Zenon DEF G

LEMMA ListInductionFront ==
  ASSUME NEW S, NEW H, <<>> \in H, \A s \in Seq(S) : s \in H => \A e \in S : <<e>> \o s \in H
  PROVE  \A s \in Seq(S) : s \in H
<1> TAKE s \in Seq(S)
<1> PICK m : m = Len(s)
  OBVIOUS
<1>1. m \in Nat /\ 0 \in 0..m /\ m \in 0..m
      /\ SubSeq(s, m - 0 + 1, m) = <<>> /\ SubSeq(s, m - m + 1, m) = s
  BY SubSeqEmpty, SubSeqFull
<1> DEFINE G == {n \in 0..m : SubSeq(s, m - n + 1, m) \in H}
<1>2. 0 \in G
  BY <1>1, Zenon
<1>3. ASSUME NEW n \in 1..m, n - 1 \in G
      PROVE  n \in G
  <2> PICK i : i = m - n + 1
    OBVIOUS
  <2>1. i \in 1..m /\ m \in i..m /\ i + 1 = m - (n - 1) + 1 /\ i \in Int /\ i + 1 \in Int /\ n \in 0..m
    BY <1>1
  <2>2. s[i] \in S /\ SubSeq(s, i + 1, m) \in H /\ \A j \in (i + 1)..m : s[j] \in S
    BY <1>1, <1>3, <2>1, ElementOfSeq
  <2>3. SubSeq(s, i + 1, m) \in Seq(S)
    BY <1>1, <2>1, <2>2, SubSeqProperties
  <2>4. SubSeq(s, i, m) = <<s[i]>> \o SubSeq(s, i + 1, m)
    BY <2>1, SubSeqRecursiveFirst
  <2> QED
    BY <2>1, <2>2, <2>3, <2>4
<1> HIDE DEF G
<1>4. \A n \in 0..m : n \in G
  BY <1>1, <1>2, <1>3, StepByStep
<1> QED
  BY <1>1, <1>4, Zenon DEF G
------------------------------------------------------------------------------
\* Where chunks are placed.

\* Edits of a file of n lines.
EditsOf(n) == {e \in [start : 0..n, gone : 0..n, lines : Seq(PatchLines)] : e.start + e.gone <= n}
Placings(n) == [ok : BOOLEAN, at : 0..n, edits : Seq(EditsOf(n))]

\* What is sought is found in the file.
LEMMA SeekFinds ==
  ASSUME NEW lines \in Seq(PatchLines), NEW pattern \in Seq(PatchLines), NEW start \in 0..Len(lines),
         NEW atEnd \in BOOLEAN, NEW i \in Seek(lines, pattern, start, atEnd)
  PROVE  /\ i \in 0..Len(lines) /\ i + Len(pattern) <= Len(lines)
         /\ i >= start \/ (pattern # <<>> /\ atEnd /\ i + Len(pattern) = Len(lines))
<1>0. Len(lines) \in Nat /\ Len(pattern) \in Nat /\ (pattern = <<>> => Len(pattern) = 0)
  OBVIOUS
<1>1. CASE pattern = <<>>
  <2>1. Seek(lines, pattern, start, atEnd) = {start}
    BY <1>1, Zenon DEF Seek
  <2> QED
    BY <1>0, <1>1, <2>1
<1>2. CASE pattern # <<>>
  <2>1. PICK from : from = IF atEnd /\ Len(pattern) <= Len(lines) THEN Len(lines) - Len(pattern) ELSE start
    OBVIOUS
  <2>2. \E pass \in 1..3 : i \in Hits(pass, lines, pattern, from)
    BY <1>2, <2>1 DEF Seek
  <2>3. i \in from..Len(lines) /\ i + Len(pattern) <= Len(lines)
    BY <2>2 DEF Hits
  <2>4. CASE atEnd /\ Len(pattern) <= Len(lines)
    <3>1. from = Len(lines) - Len(pattern)
      BY <2>1, <2>4
    <3> QED
      BY <1>0, <1>2, <2>3, <2>4, <3>1
  <2>5. CASE ~(atEnd /\ Len(pattern) <= Len(lines))
    <3>1. from = start
      BY <2>1, <2>5
    <3> QED
      BY <1>0, <2>3, <3>1
  <2> QED
    BY <2>4, <2>5
<1> QED
  BY <1>1, <1>2
\* All but the last of a list is a list.
LEMMA FrontIsSeq ==
  ASSUME NEW S, NEW s \in Seq(S), s # <<>>
  PROVE  Front(s) \in Seq(S)
<1>1. Len(s) \in Nat /\ \A i \in 1..(Len(s) - 1) : s[i] \in S
  OBVIOUS
<1> QED
  BY <1>1, SubSeqProperties DEF Front

\* What placing a chunk returns: the place after it is where a replaced text ends, and
\* where nothing is replaced it does not move back.
Adds(new, placed, chunk, e, n) ==
  /\ new.edits = Append(placed.edits, e)
  /\ e.start + e.gone <= new.at \/ (e.gone = 0 /\ e.start = n /\ chunk.old = <<>>)
  /\ placed.at <= new.at
  /\ placed.at <= e.start \/ (e.gone > 0 /\ e.start + e.gone = n /\ chunk.atEnd)

\* One chunk is placed, within the file.
LEMMA ChunkIsPlaced ==
  ASSUME NEW lines \in Seq(PatchLines), NEW placed \in Placings(Len(lines)), NEW chunk \in PatchChunk,
         NEW new, new = PlaceChunk(lines, placed, chunk)
  PROVE  /\ new \in Placings(Len(lines))
         /\ new.ok => placed.ok /\ \E e \in EditsOf(Len(lines)) : Adds(new, placed, chunk, e, Len(lines))
<1> DEFINE n == Len(lines)
           context == IF chunk.context = NoContext THEN {placed.at}
                      ELSE {i + 1 : i \in Seek(lines, <<chunk.context>>, placed.at, FALSE)}
           start == CHOOSE i \in context : TRUE
           whole == Seek(lines, chunk.old, start, chunk.atEnd)
           short == whole = {} /\ EndsBlank(chunk.old)
           old == IF short THEN Front(chunk.old) ELSE chunk.old
           found == IF short THEN Seek(lines, old, start, chunk.atEnd) ELSE whole
           at == CHOOSE i \in found : TRUE
           text == IF short THEN WithoutEnd(chunk.new) ELSE chunk.new
           Edit(where, gone, put) == [start |-> where, gone |-> gone, lines |-> put]
<1>1. new = IF ~placed.ok \/ context = {} THEN [placed EXCEPT !.ok = FALSE]
            ELSE IF chunk.old = <<>>
              THEN [placed EXCEPT !.at = start, !.edits = Append(@, Edit(n, 0, chunk.new))]
            ELSE IF found = {} THEN [placed EXCEPT !.ok = FALSE]
            ELSE [placed EXCEPT !.at = at + Len(old), !.edits = Append(@, Edit(at, Len(old), text))]
  BY Zenon DEF PlaceChunk
<1>2. /\ n \in Nat /\ placed.at \in 0..n /\ placed.edits \in Seq(EditsOf(n)) /\ placed.ok \in BOOLEAN
      /\ placed = [ok |-> placed.ok, at |-> placed.at, edits |-> placed.edits]
  BY DEF Placings
<1>3. /\ chunk.context \in PatchLines \cup {NoContext} /\ chunk.atEnd \in BOOLEAN
      /\ chunk.old \in Seq(PatchLines) /\ chunk.new \in Seq(PatchLines)
  BY DEF PatchChunk
<1>4. \/ chunk.context = NoContext /\ context = {placed.at}
      \/ chunk.context # NoContext /\ context = {i + 1 : i \in Seek(lines, <<chunk.context>>, placed.at, FALSE)}
  OBVIOUS
<1>5. context # {} => start \in context
  BY Zenon
<1>6. found # {} => at \in found
  BY Zenon
<1>7. found = Seek(lines, old, start, chunk.atEnd)
  BY Zenon
<1>8. old \in Seq(PatchLines) /\ text \in Seq(PatchLines)
  BY <1>3, FrontIsSeq DEF WithoutEnd, EndsBlank
<1>9. \A where, gone \in 0..n : where + gone <= n => \A put \in Seq(PatchLines) :
        /\ Edit(where, gone, put) \in EditsOf(n)
        /\ Edit(where, gone, put).start = where /\ Edit(where, gone, put).gone = gone
  BY DEF EditsOf
<1> HIDE DEF context, start, whole, short, old, found, at, text, Edit
<1>10. CASE ~placed.ok \/ context = {} \/ (chunk.old # <<>> /\ found = {})
  <2>1. new = [placed EXCEPT !.ok = FALSE]
    BY <1>1, <1>10
  <2> QED
    BY <1>2, <2>1 DEF Placings
<1>11. CASE placed.ok /\ context # {} /\ (chunk.old = <<>> \/ found # {})
  <2>1. start \in placed.at..n
    <3>1. CASE context = {placed.at}
      BY <1>2, <1>5, <1>11, <3>1
    <3>2. CASE /\ chunk.context # NoContext
               /\ context = {i + 1 : i \in Seek(lines, <<chunk.context>>, placed.at, FALSE)}
      <4>1. PICK i \in Seek(lines, <<chunk.context>>, placed.at, FALSE) : start = i + 1
        BY <1>5, <1>11, <3>2
      <4>2. <<chunk.context>> \in Seq(PatchLines) /\ Len(<<chunk.context>>) = 1
        BY <1>3, <3>2
      <4>3. i \in 0..n /\ i + 1 <= n /\ i >= placed.at
        <5> HIDE DEF n
        <5>1. n = Len(lines)
          BY DEF n
        <5> QED
          BY <1>2, <4>2, <5>1, SeekFinds
      <4> QED
        BY <1>2, <4>1, <4>3
    <3> QED
      BY <1>4, <3>1, <3>2
  <2>2. ASSUME NEW at2 \in 0..n, NEW where \in 0..n, NEW gone \in 0..n, where + gone <= n,
               NEW put \in Seq(PatchLines),
               new = [placed EXCEPT !.at = at2, !.edits = Append(@, Edit(where, gone, put))],
               placed.at <= at2, where + gone <= at2 \/ (gone = 0 /\ where = n /\ chunk.old = <<>>),
               placed.at <= where \/ (gone > 0 /\ where + gone = n /\ chunk.atEnd)
        PROVE  /\ new \in Placings(n)
               /\ \E e \in EditsOf(n) : Adds(new, placed, chunk, e, n)
    <3>1. PICK e \in EditsOf(n) : e = Edit(where, gone, put) /\ e.start = where /\ e.gone = gone
      BY <1>9, <2>2
    <3>2. new = [ok |-> placed.ok, at |-> at2, edits |-> Append(placed.edits, e)]
      BY <1>2, <2>2, <3>1
    <3>3. Append(placed.edits, e) \in Seq(EditsOf(n))
      BY <1>2, <3>1, AppendProperties
    <3>4. new \in Placings(n)
      BY <1>2, <3>2, <3>3 DEF Placings
    <3> QED
      BY <2>2, <3>1, <3>2, <3>4 DEF Adds
  <2>3. CASE chunk.old = <<>>
    <3>1. new = [placed EXCEPT !.at = start, !.edits = Append(@, Edit(n, 0, chunk.new))]
      BY <1>1, <1>11, <2>3
    <3>2. start \in 0..n /\ placed.at <= start /\ n \in 0..n /\ 0 \in 0..n /\ n + 0 <= n /\ placed.at <= n
      BY <1>2, <2>1
    <3> QED
      BY <1>3, <1>11, <2>2, <2>3, <3>1, <3>2
  <2>4. CASE chunk.old # <<>>
    <3>1. new = [placed EXCEPT !.at = at + Len(old), !.edits = Append(@, Edit(at, Len(old), text))]
      BY <1>1, <1>11, <2>4
    <3>2. at \in Seek(lines, old, start, chunk.atEnd)
      BY <1>6, <1>7, <1>11, <2>4
    <3>3. start \in 0..Len(lines)
      BY <1>2, <2>1
    <3>4. /\ at \in 0..n /\ at + Len(old) <= n
          /\ at >= start \/ (old # <<>> /\ chunk.atEnd /\ at + Len(old) = n)
      BY <1>3, <1>8, <3>2, <3>3, SeekFinds
    <3>5. Len(old) \in Nat /\ (old # <<>> => Len(old) > 0)
      BY <1>8, EmptySeq, LenProperties
    <3>6. /\ at + Len(old) \in 0..n /\ Len(old) \in 0..n /\ placed.at <= at + Len(old)
          /\ placed.at <= at \/ (Len(old) > 0 /\ at + Len(old) = n /\ chunk.atEnd)
      <4> HIDE DEF n
      <4> QED
        BY <1>2, <2>1, <3>4, <3>5
    <3>7. at + Len(old) <= at + Len(old)
      BY <3>4, <3>5
    <3>8. PICK at2, gone : at2 = at + Len(old) /\ gone = Len(old)
      OBVIOUS
    <3>9. /\ at2 \in 0..n /\ gone \in 0..n /\ at \in 0..n /\ at + gone <= n /\ text \in Seq(PatchLines)
          /\ placed.at <= at2 /\ at + gone <= at2
          /\ placed.at <= at \/ (gone > 0 /\ at + gone = n /\ chunk.atEnd)
          /\ new = [placed EXCEPT !.at = at2, !.edits = Append(@, Edit(at, gone, text))]
      BY <1>8, <3>1, <3>4, <3>6, <3>7, <3>8
    <3>10. n = Len(lines)
      OBVIOUS
    <3> HIDE DEF n
    <3>11. new \in Placings(n)
      BY <2>2, <3>9, Zenon
    <3>12. \E e \in EditsOf(n) : Adds(new, placed, chunk, e, n)
      BY <2>2, <3>9, Zenon
    <3> QED
      BY <1>11, <3>10, <3>11, <3>12
  <2> QED
    BY <1>11, <2>3, <2>4
<1> QED
  BY <1>10, <1>11

\* The places of the chunks, one after the other.
ArePlaced(f, lines, chunks) ==
  /\ f[0] = [ok |-> TRUE, at |-> 0, edits |-> <<>>]
  /\ \A n \in 0..Len(chunks) : f[n] \in Placings(Len(lines))
  /\ \A n \in 1..Len(chunks) : f[n] = PlaceChunk(lines, f[n - 1], chunks[n])

\* PlaceChunks places them so.
LEMMA ChunksArePlaced ==
  ASSUME NEW lines \in Seq(PatchLines), NEW chunks \in Seq(PatchChunk)
  PROVE  \E f : ArePlaced(f, lines, chunks) /\ PlaceChunks(lines, chunks) = f[Len(chunks)]
<1> DEFINE N == Len(chunks)
           D == Placings(Len(lines))
           base == [ok |-> TRUE, at |-> 0, edits |-> <<>>]
           F == [x \in D \X (1..N) |-> PlaceChunk(lines, x[1], chunks[x[2]])]
           Solves(f) == f = [n \in 0..N |-> IF n = 0 THEN base ELSE PlaceChunk(lines, f[n - 1], chunks[n])]
           g == CHOOSE f : Solves(f)
<1>1. N \in Nat /\ Len(lines) \in Nat /\ base \in D
  BY DEF Placings
<1>2. ASSUME NEW d \in D, NEW n \in 1..N
      PROVE  PlaceChunk(lines, d, chunks[n]) \in D
  BY ChunkIsPlaced, ElementOfSeq
<1>3. PlaceChunks(lines, chunks) = g[N]
  BY Zenon DEF PlaceChunks
<1> HIDE DEF D, N, base
<1>4. F \in [D \X (1..N) -> D]
  BY <1>2
<1>5. PICK f \in [0..N -> D] : Recurs(f, base, F, N)
  <2> HIDE DEF F
  <2> QED
    BY <1>1, <1>4, RecursionExists
<1>6. ASSUME NEW n \in 0..N
      PROVE  f[n] = IF n = 0 THEN base ELSE PlaceChunk(lines, f[n - 1], chunks[n])
  <2>1. CASE n = 0
    BY <1>5, <2>1 DEF Recurs
  <2>2. CASE n # 0
    <3>1. n \in 1..N /\ f[n - 1] \in D
      BY <1>1, <1>5, <2>2
    <3>2. f[n] = F[<<f[n - 1], n>>]
      <4> HIDE DEF F
      <4> QED
        BY <1>5, <2>2 DEF Recurs
    <3> QED
      BY <2>2, <3>1, <3>2
  <2> QED
    BY <2>1, <2>2
<1>7. Solves(f)
  <2>1. f = [n \in 0..N |-> f[n]]
    BY <1>5
  <2> QED
    BY <1>6, <2>1
<1>8. Solves(g)
  BY <1>7, Zenon
<1> HIDE DEF g
<1>9. \A n \in 0..N : g[n] = IF n = 0 THEN base ELSE PlaceChunk(lines, g[n - 1], chunks[n])
  BY <1>8
<1>10. \A n \in 0..N : g[n] \in D
  <2> DEFINE H == {n \in 0..N : g[n] \in D}
  <2>1. 0 \in H
    BY <1>1, <1>9
  <2>2. ASSUME NEW n \in 1..N, n - 1 \in H
        PROVE  n \in H
    BY <1>1, <1>2, <1>9, <2>2
  <2> HIDE DEF H
  <2>3. \A n \in 0..N : n \in H
    BY <1>1, <2>1, <2>2, StepByStep
  <2> QED
    BY <2>3 DEF H
<1>11. g[0] = base /\ \A n \in 1..N : g[n] = PlaceChunk(lines, g[n - 1], chunks[n])
  BY <1>1, <1>9
<1> QED
  BY <1>3, <1>10, <1>11 DEF ArePlaced, N, D, base

\* Of two chunks the later is behind the earlier, or ends the file.
Behind(edits, chunks, n) ==
  \A i, j \in 1..Len(edits) :
    i < j => \/ edits[i].gone = 0 /\ edits[i].start = n /\ chunks[i].old = <<>>
             \/ edits[i].start + edits[i].gone <= edits[j].start
             \/ edits[j].gone > 0 /\ edits[j].start + edits[j].gone = n /\ chunks[j].atEnd

BehindPlace(edits, at, chunks, n) ==
  \A i \in 1..Len(edits) :
    \/ edits[i].gone = 0 /\ edits[i].start = n /\ chunks[i].old = <<>>
    \/ edits[i].start + edits[i].gone <= at

\* The fields of an edit.
LEMMA EditIs ==
  ASSUME NEW n \in Nat, NEW e \in EditsOf(n)
  PROVE  e.start \in Nat /\ e.gone \in Nat /\ e.start + e.gone <= n /\ e.lines \in Seq(PatchLines)
  BY DEF EditsOf

\* The order of the edits holds with the next one.
LEMMA OrderGrows ==
  ASSUME NEW n \in Nat, NEW old \in Placings(n), NEW new \in Placings(n), NEW e \in EditsOf(n),
         NEW chunks, Adds(new, old, chunks[Len(old.edits) + 1], e, n),
         BehindPlace(old.edits, old.at, chunks, n), Behind(old.edits, chunks, n)
  PROVE  /\ Len(new.edits) = Len(old.edits) + 1
         /\ BehindPlace(new.edits, new.at, chunks, n) /\ Behind(new.edits, chunks, n)
<1> PICK s, t, a, b, chunk : /\ s = old.edits /\ t = new.edits /\ a = old.at /\ b = new.at
                             /\ chunk = chunks[Len(old.edits) + 1]
  OBVIOUS
<1> DEFINE AtEnd(i) == t[i].gone = 0 /\ t[i].start = n /\ chunks[i].old = <<>>
<1>1. /\ s \in Seq(EditsOf(n)) /\ t = Append(s, e) /\ a \in Nat /\ b \in Nat /\ Len(s) \in Nat
      /\ e.start + e.gone <= b \/ (e.gone = 0 /\ e.start = n /\ chunk.old = <<>>)
      /\ a <= b
      /\ a <= e.start \/ (e.gone > 0 /\ e.start + e.gone = n /\ chunk.atEnd)
  BY DEF Placings, Adds
<1>2. e.start \in Nat /\ e.gone \in Nat
  BY EditIs
<1>3. \A i \in 1..Len(s) : s[i].start \in Nat /\ s[i].gone \in Nat
  BY <1>1, ElementOfSeq, EditIs
<1>4. Len(t) = Len(s) + 1 /\ t[Len(s) + 1] = e /\ \A i \in 1..Len(s) : t[i] = s[i]
  BY <1>1, AppendProperties
<1>5. \A i \in 1..Len(s) : AtEnd(i) \/ s[i].start + s[i].gone <= a
  BY <1>4 DEF BehindPlace
<1>6. \A i \in 1..Len(t) : i = Len(s) + 1 \/ i \in 1..Len(s)
  BY <1>1, <1>4
<1>7. BehindPlace(t, b, chunks, n)
  <2> SUFFICES ASSUME NEW i \in 1..Len(t)
               PROVE  AtEnd(i) \/ t[i].start + t[i].gone <= b
    BY DEF BehindPlace
  <2>1. CASE i = Len(s) + 1
    <3>1. t[i] = e /\ chunks[i] = chunk
      BY <1>4, <2>1
    <3> QED
      BY <1>1, <3>1
  <2>2. CASE i \in 1..Len(s)
    <3>1. PICK x \in Nat, y \in Nat : x = s[i].start /\ y = s[i].gone
      BY <1>3, <2>2
    <3>2. (AtEnd(i) \/ x + y <= a) /\ t[i].start = x /\ t[i].gone = y
      BY <1>4, <1>5, <2>2, <3>1
    <3>3. x + y <= a => x + y <= b
      BY <1>1
    <3> QED
      BY <3>2, <3>3
  <2> QED
    BY <1>6, <2>1, <2>2
<1>8. Behind(t, chunks, n)
  <2> SUFFICES ASSUME NEW i \in 1..Len(t), NEW j \in 1..Len(t), i < j
               PROVE  \/ AtEnd(i)
                      \/ t[i].start + t[i].gone <= t[j].start
                      \/ t[j].gone > 0 /\ t[j].start + t[j].gone = n /\ chunks[j].atEnd
    BY DEF Behind
  <2>1. i \in 1..Len(s)
    BY <1>1, <1>4
  <2>2. CASE j = Len(s) + 1
    <3>1. t[j] = e /\ chunks[j] = chunk /\ t[i] = s[i]
      BY <1>4, <2>1, <2>2
    <3>2. AtEnd(i) \/ s[i].start + s[i].gone <= a
      BY <1>5, <2>1
    <3>3. PICK x \in Nat, y \in Nat : x = s[i].start /\ y = s[i].gone
      BY <1>3, <2>1
    <3>4. PICK u \in Nat, v \in Nat : u = e.start /\ v = e.gone
      BY <1>2
    <3>5. (AtEnd(i) \/ x + y <= a) /\ (a <= u \/ (v > 0 /\ u + v = n /\ chunk.atEnd))
      BY <1>1, <3>2, <3>3, <3>4
    <3>6. AtEnd(i) \/ x + y <= u \/ (v > 0 /\ u + v = n /\ chunk.atEnd)
      BY <1>1, <3>5
    <3> QED
      BY <3>1, <3>3, <3>4, <3>6
  <2>3. CASE j \in 1..Len(s)
    <3>1. t[j] = s[j] /\ t[i] = s[i]
      BY <1>4, <2>1, <2>3
    <3> QED
      BY <2>1, <2>3, <3>1, Zenon DEF Behind
  <2> QED
    BY <1>6, <2>2, <2>3
<1> QED
  BY <1>4, <1>7, <1>8

\* The edits of all chunks, one for each, are in order.
LEMMA ChunksAreInOrder ==
  ASSUME NEW lines \in Seq(PatchLines), NEW chunks \in Seq(PatchChunk),
         NEW edits, edits = PlaceChunks(lines, chunks).edits, PlaceChunks(lines, chunks).ok
  PROVE  /\ edits \in Seq(EditsOf(Len(lines))) /\ Len(edits) = Len(chunks)
         /\ Behind(edits, chunks, Len(lines))
<1>1. PICK f : ArePlaced(f, lines, chunks) /\ PlaceChunks(lines, chunks) = f[Len(chunks)]
  BY ChunksArePlaced
<1> PICK N, L : N = Len(chunks) /\ L = Len(lines)
  OBVIOUS
<1>2. N \in Nat /\ L \in Nat
  OBVIOUS
<1> DEFINE Good(n) ==
      f[n].ok => Len(f[n].edits) = n /\ BehindPlace(f[n].edits, f[n].at, chunks, L) /\ Behind(f[n].edits, chunks, L)
      H == {n \in 0..N : Good(n)}
<1>3. 0 \in H
  BY <1>1, <1>2 DEF ArePlaced, Behind, BehindPlace
<1>4. ASSUME NEW n \in 1..N, n - 1 \in H
      PROVE  n \in H
  <2> PICK old, new, chunk : old = f[n - 1] /\ new = f[n] /\ chunk = chunks[n]
    OBVIOUS
  <2>1. /\ old \in Placings(L) /\ new \in Placings(L) /\ chunk \in PatchChunk
        /\ new = PlaceChunk(lines, old, chunk)
    BY <1>1, <1>2, ElementOfSeq DEF ArePlaced
  <2>2. SUFFICES ASSUME new.ok
                 PROVE  Len(new.edits) = n /\ BehindPlace(new.edits, new.at, chunks, L) /\ Behind(new.edits, chunks, L)
    <3>1. n \in 0..N
      BY <1>2
    <3> QED
      BY <3>1
  <2>3. old.ok /\ \E e \in EditsOf(L) : Adds(new, old, chunk, e, L)
    BY <2>1, <2>2, ChunkIsPlaced
  <2>4. Len(old.edits) = n - 1 /\ BehindPlace(old.edits, old.at, chunks, L) /\ Behind(old.edits, chunks, L)
    BY <1>4, <2>3
  <2>5. PICK e \in EditsOf(L) : Adds(new, old, chunks[Len(old.edits) + 1], e, L)
    BY <2>3, <2>4
  <2>6. Len(new.edits) = Len(old.edits) + 1 /\ BehindPlace(new.edits, new.at, chunks, L) /\ Behind(new.edits, chunks, L)
    BY <1>2, <2>1, <2>4, <2>5, OrderGrows
  <2> QED
    BY <2>4, <2>6
<1> HIDE DEF H
<1>5. \A n \in 0..N : n \in H
  BY <1>2, <1>3, <1>4, StepByStep
<1>6. Good(N)
  BY <1>2, <1>5 DEF H
<1>7. edits = f[N].edits /\ f[N] \in Placings(L) /\ f[N].ok
  BY <1>1, <1>2 DEF ArePlaced
<1> QED
  BY <1>6, <1>7 DEF Placings
\* Chunks that are not for the end of the file take lines of their own, in order.
LEMMA ForwardChunksAreDisjoint ==
  ASSUME NEW n \in Nat, NEW edits \in Seq(EditsOf(n)), NEW chunks, Behind(edits, chunks, n),
         \A i \in 1..Len(edits) : ~chunks[i].atEnd
  PROVE  /\ Disjoint(edits)
         /\ \A i, j \in 1..Len(edits) : i < j /\ chunks[i].old # <<>> => edits[i].start <= edits[j].start
<1>1. ASSUME NEW i \in 1..Len(edits), NEW j \in 1..Len(edits), i < j
      PROVE  /\ ~Overlap(edits[i], edits[j]) /\ ~Overlap(edits[j], edits[i])
             /\ chunks[i].old # <<>> => edits[i].start <= edits[j].start
  <2>1. PICK a \in Nat, x \in Nat, b \in Nat, y \in Nat :
          /\ a = edits[i].start /\ x = edits[i].gone /\ a + x <= n
          /\ b = edits[j].start /\ y = edits[j].gone /\ b + y <= n
    BY ElementOfSeq, EditIs
  <2>2. (x = 0 /\ a = n /\ chunks[i].old = <<>>) \/ a + x <= b
    BY <1>1, <2>1 DEF Behind
  <2>3. /\ ~(a < b + y /\ b < a + x)
        /\ chunks[i].old # <<>> => a <= b
    BY <2>1, <2>2
  <2> QED
    BY <2>1, <2>3 DEF Overlap
<1>2. Len(edits) \in Nat /\ DOMAIN edits = 1..Len(edits)
  BY LenProperties
<1>3. ASSUME NEW i \in 1..Len(edits), NEW j \in 1..Len(edits), i # j
      PROVE  ~Overlap(edits[i], edits[j])
  <2>1. i < j \/ j < i
    BY <1>2, <1>3
  <2> QED
    BY <1>1, <2>1
<1> QED
  BY <1>1, <1>2, <1>3 DEF Disjoint
------------------------------------------------------------------------------
\* What edits put.

\* What an edit puts at a position.
PutBy(e, p) == IF e.start = p THEN e.lines ELSE <<>>

IsPut(f, edits, p) ==
  /\ f[0] = <<>>
  /\ \A n \in 0..Len(edits) : f[n] \in Seq(PatchLines)
  /\ \A n \in 1..Len(edits) : f[n] = f[n - 1] \o PutBy(edits[n], p)

\* It puts lines.
LEMMA PutByIs ==
  ASSUME NEW n \in Nat, NEW e \in EditsOf(n), NEW p
  PROVE  PutBy(e, p) \in Seq(PatchLines)
  BY EditIs DEF PutBy

\* Put adds them up so.
LEMMA PutIs ==
  ASSUME NEW L \in Nat, NEW edits \in Seq(EditsOf(L)), NEW p
  PROVE  \E f : IsPut(f, edits, p) /\ Put(edits, p) = f[Len(edits)]
<1> DEFINE N == Len(edits)
           D == Seq(PatchLines)
           F == [x \in D \X (1..N) |->
                   IF edits[x[2]].start = p THEN x[1] \o edits[x[2]].lines ELSE x[1]]
           Solves(f) == f = [n \in 0..N |-> IF n = 0 THEN <<>>
                               ELSE IF edits[n].start = p THEN f[n - 1] \o edits[n].lines ELSE f[n - 1]]
           g == CHOOSE f : Solves(f)
<1>1. N \in Nat /\ <<>> \in D
  OBVIOUS
<1>2. ASSUME NEW d \in D, NEW n \in 1..N
      PROVE  (IF edits[n].start = p THEN d \o edits[n].lines ELSE d) \in D
  <2>1. edits[n].lines \in Seq(PatchLines)
    BY ElementOfSeq, EditIs
  <2> QED
    BY <2>1, ConcatProperties
<1>3. Put(edits, p) = g[N]
  BY Zenon DEF Put
<1>4. ASSUME NEW d \in D, NEW n \in 1..N
      PROVE  (IF edits[n].start = p THEN d \o edits[n].lines ELSE d) = d \o PutBy(edits[n], p)
  BY ConcatEmptySeq DEF PutBy
<1> HIDE DEF D, N
<1>5. F \in [D \X (1..N) -> D]
  BY <1>2
<1>6. PICK f \in [0..N -> D] : Recurs(f, <<>>, F, N)
  <2> HIDE DEF F
  <2> QED
    BY <1>1, <1>5, RecursionExists
<1>7. ASSUME NEW n \in 0..N
      PROVE  f[n] = IF n = 0 THEN <<>> ELSE IF edits[n].start = p THEN f[n - 1] \o edits[n].lines ELSE f[n - 1]
  <2>1. CASE n = 0
    BY <1>6, <2>1 DEF Recurs
  <2>2. CASE n # 0
    <3>1. n \in 1..N /\ f[n - 1] \in D
      BY <1>1, <1>6, <2>2
    <3>2. f[n] = F[<<f[n - 1], n>>]
      <4> HIDE DEF F
      <4> QED
        BY <1>6, <2>2 DEF Recurs
    <3> QED
      BY <2>2, <3>1, <3>2
  <2> QED
    BY <2>1, <2>2
<1>8. Solves(f)
  <2>1. f = [n \in 0..N |-> f[n]]
    BY <1>6
  <2> QED
    BY <1>7, <2>1
<1>9. Solves(g)
  BY <1>8, Zenon
<1> HIDE DEF g
<1>10. g[0] = <<>>
  BY <1>1, <1>9
<1>11. ASSUME NEW n \in 1..N
       PROVE  g[n] = IF edits[n].start = p THEN g[n - 1] \o edits[n].lines ELSE g[n - 1]
  <2>1. n \in 0..N /\ n # 0
    BY <1>1
  <2> QED
    BY <1>9, <2>1
<1>12. \A n \in 0..N : g[n] \in D
  <2> DEFINE H == {n \in 0..N : g[n] \in D}
  <2>1. 0 \in H
    BY <1>1, <1>10
  <2>2. ASSUME NEW n \in 1..N, n - 1 \in H
        PROVE  n \in H
    BY <1>1, <1>2, <1>11, <2>2
  <2> HIDE DEF H
  <2>3. \A n \in 0..N : n \in H
    BY <1>1, <2>1, <2>2, StepByStep
  <2> QED
    BY <2>3 DEF H
<1>13. \A n \in 1..N : g[n] = g[n - 1] \o PutBy(edits[n], p)
  <2>1. \A n \in 1..N : g[n - 1] \in D
    BY <1>1, <1>12
  <2> QED
    BY <1>4, <1>11, <2>1
<1> QED
  BY <1>3, <1>10, <1>12, <1>13 DEF IsPut, N, D

\* What is put is lines.
LEMMA PutIsText ==
  ASSUME NEW L \in Nat, NEW edits \in Seq(EditsOf(L)), NEW p
  PROVE  Put(edits, p) \in Seq(PatchLines)
<1>1. PICK f : IsPut(f, edits, p) /\ Put(edits, p) = f[Len(edits)]
  BY PutIs
<1>2. Len(edits) \in 0..Len(edits)
  OBVIOUS
<1> QED
  BY <1>1, <1>2 DEF IsPut

\* No edits put nothing.
LEMMA PutEmpty ==
  ASSUME NEW p
  PROVE  Put(<<>>, p) = <<>>
<1>1. <<>> \in Seq(EditsOf(0)) /\ Len(<<>>) = 0
  OBVIOUS
<1> QED
  BY <1>1, PutIs DEF IsPut

\* An edit behind the others puts its lines behind theirs.
LEMMA PutAppend ==
  ASSUME NEW L \in Nat, NEW s \in Seq(EditsOf(L)), NEW e \in EditsOf(L), NEW p
  PROVE  /\ Put(s, p) \in Seq(PatchLines)
         /\ Put(Append(s, e), p) = Put(s, p) \o PutBy(e, p)
<1> PICK t : t = Append(s, e)
  OBVIOUS
<1>1. /\ t \in Seq(EditsOf(L)) /\ Len(s) \in Nat /\ Len(t) = Len(s) + 1
      /\ t[Len(s) + 1] = e /\ \A n \in 1..Len(s) : t[n] = s[n]
  BY AppendProperties
<1>2. PICK f : IsPut(f, s, p) /\ Put(s, p) = f[Len(s)]
  BY PutIs
<1>3. PICK g : IsPut(g, t, p) /\ Put(t, p) = g[Len(t)]
  BY <1>1, PutIs
<1>4. \A n \in 0..Len(s) : g[n] = f[n]
  <2> DEFINE H == {n \in 0..Len(s) : g[n] = f[n]}
  <2>1. 0 \in H
    BY <1>1, <1>2, <1>3 DEF IsPut
  <2>2. ASSUME NEW n \in 1..Len(s), n - 1 \in H
        PROVE  n \in H
    <3>1. n \in 1..Len(t) /\ t[n] = s[n] /\ n \in 0..Len(s)
      BY <1>1
    <3>2. g[n - 1] = f[n - 1]
      BY <2>2
    <3>3. g[n] = g[n - 1] \o PutBy(t[n], p) /\ f[n] = f[n - 1] \o PutBy(s[n], p)
      BY <1>2, <1>3, <3>1 DEF IsPut
    <3> QED
      BY <3>1, <3>2, <3>3
  <2> HIDE DEF H
  <2>3. \A n \in 0..Len(s) : n \in H
    BY <1>1, <2>1, <2>2, StepByStep
  <2> QED
    BY <2>3 DEF H
<1>5. Len(t) \in 1..Len(t) /\ Len(t) - 1 = Len(s) /\ Len(s) \in 0..Len(s)
  BY <1>1
<1>6. Put(t, p) = g[Len(s)] \o PutBy(e, p)
  BY <1>1, <1>3, <1>5 DEF IsPut
<1> QED
  BY <1>2, <1>4, <1>5, <1>6 DEF IsPut

\* Two lists of edits, one behind the other.
LEMMA PutConcat ==
  ASSUME NEW L \in Nat, NEW a \in Seq(EditsOf(L)), NEW p
  PROVE  \A b \in Seq(EditsOf(L)) : Put(a \o b, p) = Put(a, p) \o Put(b, p)
<1> DEFINE H == {b \in Seq(EditsOf(L)) : Put(a \o b, p) = Put(a, p) \o Put(b, p)}
<1>1. \A b \in Seq(EditsOf(L)) : Put(b, p) \in Seq(PatchLines)
  BY PutIsText
<1>2. <<>> \in H
  BY <1>1, PutEmpty, ConcatEmptySeq
<1>3. ASSUME NEW b \in Seq(EditsOf(L)), b \in H, NEW e \in EditsOf(L)
      PROVE  Append(b, e) \in H
  <2>1. a \o b \in Seq(EditsOf(L)) /\ Append(b, e) \in Seq(EditsOf(L))
        /\ a \o Append(b, e) = Append(a \o b, e)
    OBVIOUS
  <2>2. Put(a \o Append(b, e), p) = Put(a \o b, p) \o PutBy(e, p)
    <3>1. Put(Append(a \o b, e), p) = Put(a \o b, p) \o PutBy(e, p)
      BY <2>1, PutAppend, Zenon
    <3> QED
      BY <2>1, <3>1, Zenon
  <2>3. Put(Append(b, e), p) = Put(b, p) \o PutBy(e, p)
    BY PutAppend
  <2>4. Put(a \o b, p) = Put(a, p) \o Put(b, p)
    BY <1>3
  <2>5. (Put(a, p) \o Put(b, p)) \o PutBy(e, p) = Put(a, p) \o (Put(b, p) \o PutBy(e, p))
    BY <1>1, PutByIs, ConcatAssociative
  <2> QED
    BY <2>1, <2>2, <2>3, <2>4, <2>5
<1> HIDE DEF H
<1>4. \A b \in Seq(EditsOf(L)) : b \in H
  BY <1>2, <1>3, ListInduction
<1> QED
  BY <1>4 DEF H

\* Edits elsewhere put nothing at a position.
LEMMA PutNone ==
  ASSUME NEW L \in Nat, NEW p
  PROVE  \A b \in Seq(EditsOf(L)) : (\A i \in 1..Len(b) : b[i].start # p) => Put(b, p) = <<>>
<1> DEFINE H == {b \in Seq(EditsOf(L)) : (\A i \in 1..Len(b) : b[i].start # p) => Put(b, p) = <<>>}
<1>1. <<>> \in H
  BY PutEmpty
<1>2. ASSUME NEW b \in Seq(EditsOf(L)), b \in H, NEW e \in EditsOf(L)
      PROVE  Append(b, e) \in H
  <2> PICK c : c = Append(b, e)
    OBVIOUS
  <2>1. /\ c \in Seq(EditsOf(L)) /\ Len(c) = Len(b) + 1 /\ Len(b) \in Nat
        /\ c[Len(b) + 1] = e /\ \A i \in 1..Len(b) : c[i] = b[i]
    BY AppendProperties
  <2>2. ASSUME \A i \in 1..Len(c) : c[i].start # p
        PROVE  Put(c, p) = <<>>
    <3>1. e.start # p /\ \A i \in 1..Len(b) : b[i].start # p
      BY <2>1, <2>2
    <3>2. Put(b, p) = <<>>
      BY <1>2, <3>1
    <3>3. PutBy(e, p) = <<>>
      BY <3>1 DEF PutBy
    <3>4. Put(c, p) = Put(b, p) \o PutBy(e, p)
      BY PutAppend
    <3> QED
      BY <3>2, <3>3, <3>4
  <2> QED
    BY <2>1, <2>2
<1> HIDE DEF H
<1>3. \A b \in Seq(EditsOf(L)) : b \in H
  BY <1>1, <1>2, ListInduction
<1> QED
  BY <1>3 DEF H

\* An edit before the others puts its lines before theirs.
LEMMA PutBefore ==
  ASSUME NEW L \in Nat, NEW s \in Seq(EditsOf(L)), NEW e \in EditsOf(L), NEW p
  PROVE  Put(<<e>> \o s, p) = PutBy(e, p) \o Put(s, p)
<1> PICK none, one : none = <<>> /\ one = <<e>>
  OBVIOUS
<1>1. one = Append(none, e) /\ none \in Seq(EditsOf(L)) /\ one \in Seq(EditsOf(L))
  OBVIOUS
<1>2. Put(Append(none, e), p) = Put(none, p) \o PutBy(e, p)
  BY <1>1, PutAppend, Zenon
<1>3. Put(none, p) = <<>>
  BY PutEmpty, Zenon
<1>4. <<>> \o PutBy(e, p) = PutBy(e, p)
  BY PutByIs, ConcatEmptySeq
<1>5. Put(one, p) = PutBy(e, p)
  BY <1>1, <1>2, <1>3, <1>4, Zenon
<1>6. Put(one \o s, p) = Put(one, p) \o Put(s, p)
  BY <1>1, PutConcat, Zenon
<1> QED
  BY <1>5, <1>6, Zenon
------------------------------------------------------------------------------
\* The sort.

\* Edits by their places: none starts before one in front of it, or in its lines.
Apart(s) ==
  \A i, j \in 1..Len(s) :
    i < j => s[i].start <= s[j].start /\ (s[i].gone = 0 \/ s[i].start + s[i].gone <= s[j].start)

Ordered(s) == \A i, j \in 1..Len(s) : i < j => s[i].start <= s[j].start

\* An edit is inserted behind those that start no later.
LEMMA Inserted ==
  ASSUME NEW L \in Nat, NEW t \in Seq(EditsOf(L)), NEW e \in EditsOf(L), Ordered(t)
  PROVE  \E a, b \in Seq(EditsOf(L)) :
           /\ t = a \o b /\ Insert(t, e) = (a \o <<e>>) \o b
           /\ \A i \in 1..Len(a) : a[i].start <= e.start
           /\ \A i \in 1..Len(b) : b[i].start > e.start
<1> DEFINE Fits(k) == \A i \in 1..Len(t) : i <= k <=> t[i].start <= e.start
           T == {i \in 1..Len(t) : t[i].start > e.start}
           k == CHOOSE k \in 0..Len(t) : Fits(k)
<1>1. Len(t) \in Nat /\ e.start \in Nat /\ \A i \in 1..Len(t) : t[i].start \in Nat
  BY ElementOfSeq, EditIs, LenProperties
<1>2. \E n \in 0..Len(t) : Fits(n)
  <2>1. CASE T = {}
    <3>1. Fits(Len(t)) /\ Len(t) \in 0..Len(t)
      BY <1>1, <2>1
    <3> QED
      BY <3>1
  <2>2. CASE T # {}
    <3>1. T \subseteq Nat
      BY <1>1
    <3>2. PICK m \in T : \A y \in T : m <= y
      <4> HIDE DEF T
      <4> QED
        BY <2>2, <3>1, LeastNumber
    <3>3. m - 1 \in 0..Len(t)
      BY <1>1, <3>2
    <3>4. ASSUME NEW i \in 1..Len(t)
          PROVE  i <= m - 1 <=> t[i].start <= e.start
      <4>1. m \in 1..Len(t) /\ t[m].start > e.start
        BY <3>2
      <4>2. CASE i <= m - 1
        <5>1. i \notin T
          BY <1>1, <3>2, <4>1, <4>2
        <5> QED
          BY <1>1, <4>2, <5>1
      <4>3. CASE m <= i
        <5>1. t[m].start <= t[i].start
          BY <1>1, <4>1, <4>3 DEF Ordered
        <5> QED
          BY <1>1, <4>1, <4>3, <5>1
      <4> QED
        BY <1>1, <4>1, <4>2, <4>3
    <3> QED
      BY <3>3, <3>4
  <2> QED
    BY <2>1, <2>2
<1>3. k \in 0..Len(t) /\ Fits(k)
  BY <1>2, Zenon
<1>4. Insert(t, e) = InsertAt(t, k + 1, e)
  BY Zenon DEF Insert
<1> HIDE DEF k
<1> PICK a, b : a = SubSeq(t, 1, k) /\ b = SubSeq(t, k + 1, Len(t))
  OBVIOUS
<1>5. /\ k \in Int /\ k + 1 \in Int /\ k + 1 - 1 = k
      /\ \A i \in 1..k : t[i] \in EditsOf(L)
      /\ \A i \in (k + 1)..Len(t) : t[i] \in EditsOf(L)
  BY <1>1, <1>3, ElementOfSeq
<1>6. /\ a \in Seq(EditsOf(L)) /\ Len(a) = k /\ \A i \in 1..k : a[i] = t[i]
  BY <1>3, <1>5, SubSeqProperties
<1>7. /\ b \in Seq(EditsOf(L)) /\ Len(b) = Len(t) - k /\ \A i \in 1..(Len(t) - k) : b[i] = t[k + i]
  BY <1>1, <1>3, <1>5, SubSeqProperties
<1>8. t = a \o b
  <2>1. 1 \in 1..(Len(t) + 1) /\ k \in (1 - 1)..Len(t) /\ Len(t) \in k..Len(t)
    BY <1>1, <1>3
  <2>2. SubSeq(t, 1, k) \o SubSeq(t, k + 1, Len(t)) = SubSeq(t, 1, Len(t))
    BY <2>1, ConcatAdjacentSubSeq
  <2> QED
    BY <2>2, SubSeqFull
<1>9. Insert(t, e) = (a \o <<e>>) \o b
  <2>1. PICK n : n = k + 1
    OBVIOUS
  <2>2. InsertAt(t, n, e) = (SubSeq(t, 1, n - 1) \o <<e>>) \o SubSeq(t, n, Len(t))
    BY Zenon DEF InsertAt
  <2>3. n - 1 = k
    BY <1>5, <2>1
  <2> QED
    BY <1>4, <2>1, <2>2, <2>3, Zenon
<1>10. \A i \in 1..Len(a) : a[i].start <= e.start
  BY <1>1, <1>3, <1>6
<1>11. \A i \in 1..Len(b) : b[i].start > e.start
  <2> TAKE i \in 1..Len(b)
  <2>1. k + i \in 1..Len(t) /\ ~(k + i <= k) /\ b[i] = t[k + i]
    BY <1>1, <1>3, <1>7
  <2> QED
    BY <1>1, <1>3, <2>1
<1> QED
  BY <1>6, <1>7, <1>8, <1>9, <1>10, <1>11

\* Where the others are then.
LEMMA InsertedIs ==
  ASSUME NEW S, NEW a \in Seq(S), NEW b \in Seq(S), NEW e \in S,
         NEW r, r = (a \o <<e>>) \o b
  PROVE  /\ r \in Seq(S) /\ Len(r) = Len(a) + 1 + Len(b)
         /\ \A i \in 1..Len(a) : r[i] = a[i]
         /\ r[Len(a) + 1] = e
         /\ \A i \in 1..Len(b) : r[Len(a) + 1 + i] = b[i]
<1> PICK one : one = <<e>>
  OBVIOUS
<1>1. one \in Seq(S) /\ Len(one) = 1 /\ one[1] = e /\ Len(a) \in Nat /\ Len(b) \in Nat
  OBVIOUS
<1> PICK c : c = a \o one
  OBVIOUS
<1>2. /\ c \in Seq(S) /\ Len(c) = Len(a) + 1
      /\ \A i \in 1..(Len(a) + 1) : c[i] = IF i <= Len(a) THEN a[i] ELSE one[i - Len(a)]
  BY <1>1, ConcatProperties
<1>3. r = c \o b
  OBVIOUS
<1>4. /\ r \in Seq(S) /\ Len(r) = Len(c) + Len(b)
      /\ \A i \in 1..(Len(c) + Len(b)) : r[i] = IF i <= Len(c) THEN c[i] ELSE b[i - Len(c)]
  BY <1>2, <1>3, ConcatProperties
<1>5. \A i \in 1..Len(a) : r[i] = a[i]
  BY <1>1, <1>2, <1>4
<1>6. r[Len(a) + 1] = e
  BY <1>1, <1>2, <1>4
<1>7. ASSUME NEW i \in 1..Len(b)
      PROVE  r[Len(a) + 1 + i] = b[i]
  <2>1. Len(c) + i \in 1..(Len(c) + Len(b)) /\ ~(Len(c) + i <= Len(c)) /\ (Len(c) + i) - Len(c) = i
    BY <1>1, <1>2
  <2> QED
    BY <1>2, <1>4, <2>1
<1> QED
  BY <1>2, <1>4, <1>5, <1>6, <1>7

\* Edits do not overlap, and a later one that starts with an earlier one does not
\* find it taking lines.
Separate(s) ==
  \A i, j \in 1..Len(s) :
    i < j => ~Overlap(s[i], s[j]) /\ ~Overlap(s[j], s[i])
             /\ (s[i].gone = 0 \/ s[i].start + s[i].gone <= s[j].start)

\* Edits of chunks are separate if they do not overlap.
LEMMA DisjointIsSeparate ==
  ASSUME NEW L \in Nat, NEW s \in Seq(EditsOf(L)), NEW chunks, Behind(s, chunks, L), Disjoint(s)
  PROVE  Separate(s)
<1> SUFFICES ASSUME NEW i \in 1..Len(s), NEW j \in 1..Len(s), i < j
             PROVE  ~Overlap(s[i], s[j]) /\ ~Overlap(s[j], s[i])
                    /\ (s[i].gone = 0 \/ s[i].start + s[i].gone <= s[j].start)
  BY DEF Separate
<1>1. DOMAIN s = 1..Len(s) /\ i # j
  BY LenProperties
<1>2. ~Overlap(s[i], s[j]) /\ ~Overlap(s[j], s[i])
  BY <1>1 DEF Disjoint
<1>3. PICK a \in Nat, x \in Nat, b \in Nat, y \in Nat :
        /\ a = s[i].start /\ x = s[i].gone /\ a + x <= L
        /\ b = s[j].start /\ y = s[j].gone /\ b + y <= L
  BY ElementOfSeq, EditIs
<1>4. x = 0 \/ a + x <= b \/ (y > 0 /\ b + y = L)
  BY <1>3 DEF Behind
<1>5. ~(a < b + y /\ b < a + x)
  BY <1>2, <1>3 DEF Overlap
<1>6. x = 0 \/ a + x <= b
  BY <1>3, <1>4, <1>5
<1> QED
  BY <1>2, <1>3, <1>6

\* Of two that do not overlap the one that starts later is behind the other.
LEMMA StartsBehind ==
  ASSUME NEW x \in Nat, NEW y \in Nat, NEW u \in Nat, NEW v \in Nat,
         u > x, ~(u < x + y /\ x < u + v)
  PROVE  x <= u /\ (y = 0 \/ x + y <= u)
  OBVIOUS

\* What is in a list.
In(x, s) == \E i \in 1..Len(s) : s[i] = x

\* What an edit that comes after those of a list finds taken there.
ComesAfter(e, t) ==
  \A i \in 1..Len(t) : ~Overlap(t[i], e) /\ (t[i].gone = 0 \/ t[i].start + t[i].gone <= e.start)

\* Inserting an edit keeps the order, and what is put; one that overlaps none is apart.
LEMMA InsertKeeps ==
  ASSUME NEW L \in Nat, NEW t \in Seq(EditsOf(L)), NEW e \in EditsOf(L), Ordered(t)
  PROVE  /\ Insert(t, e) \in Seq(EditsOf(L)) /\ Ordered(Insert(t, e))
         /\ Apart(t) /\ ComesAfter(e, t) => Apart(Insert(t, e))
         /\ \A x : In(x, Insert(t, e)) <=> In(x, t) \/ x = e
         /\ \A p : Put(Insert(t, e), p) = Put(t, p) \o PutBy(e, p)
<1>1. PICK a \in Seq(EditsOf(L)), b \in Seq(EditsOf(L)) :
        /\ t = a \o b /\ Insert(t, e) = (a \o <<e>>) \o b
        /\ \A i \in 1..Len(a) : a[i].start <= e.start
        /\ \A i \in 1..Len(b) : b[i].start > e.start
  BY Inserted
<1> PICK r : r = Insert(t, e)
  OBVIOUS
<1> PICK m, n : m = Len(a) /\ n = Len(b)
  OBVIOUS
<1>2. /\ r \in Seq(EditsOf(L)) /\ Len(r) = m + 1 + n /\ m \in Nat /\ n \in Nat
      /\ \A i \in 1..m : r[i] = a[i]
      /\ r[m + 1] = e
      /\ \A i \in 1..n : r[m + 1 + i] = b[i]
  BY <1>1, InsertedIs, LenProperties
<1>3. /\ Len(t) = m + n /\ \A i \in 1..m : t[i] = a[i]
      /\ \A i \in 1..n : t[m + i] = b[i]
  <2>1. Len(t) = m + n /\ \A i \in 1..(m + n) : t[i] = IF i <= m THEN a[i] ELSE b[i - m]
    BY <1>1, ConcatProperties
  <2>2. ASSUME NEW i \in 1..n PROVE t[m + i] = b[i]
    <3>1. m + i \in 1..(m + n) /\ ~(m + i <= m) /\ (m + i) - m = i
      BY <1>2
    <3> QED
      BY <2>1, <3>1
  <2>3. \A i \in 1..m : i \in 1..(m + n) /\ i <= m
    BY <1>2
  <2> QED
    BY <2>1, <2>2, <2>3
<1>4. \A i \in 1..(m + 1 + n) : i \in 1..m \/ i = m + 1 \/ (i - m - 1 \in 1..n /\ m + 1 + (i - m - 1) = i)
  BY <1>2
\* A pair of the new list is one of the old list, or has e first or last.
<1>5. ASSUME NEW i \in 1..(m + 1 + n), NEW j \in 1..(m + 1 + n), i < j
      PROVE  \/ \E k, l \in 1..Len(t) : k < l /\ r[i] = t[k] /\ r[j] = t[l]
             \/ \E l \in 1..Len(t) : r[i] = e /\ r[j] = t[l] /\ t[l].start > e.start
             \/ \E k \in 1..Len(t) : r[i] = t[k] /\ r[j] = e /\ t[k].start <= e.start
  <2>1. CASE i = m + 1
    <3> PICK l : l = j - m - 1
      OBVIOUS
    <3>1. l \in 1..n /\ j = m + 1 + l /\ m + l \in 1..Len(t)
      BY <1>2, <1>3, <1>5, <2>1
    <3>2. r[i] = e /\ r[j] = b[l] /\ t[m + l] = b[l] /\ b[l].start > e.start
      BY <1>1, <1>2, <1>3, <2>1, <3>1
    <3> QED
      BY <3>1, <3>2
  <2>2. CASE j = m + 1
    <3>1. i \in 1..m /\ i \in 1..Len(t)
      BY <1>2, <1>3, <1>5, <2>2
    <3>2. r[j] = e /\ r[i] = a[i] /\ t[i] = a[i] /\ a[i].start <= e.start
      BY <1>1, <1>2, <1>3, <2>2, <3>1
    <3> QED
      BY <3>1, <3>2
  <2>3. ASSUME NEW k \in 1..(m + 1 + n), k # m + 1
        PROVE  LET l == IF k <= m THEN k ELSE k - 1 IN l \in 1..(m + n) /\ r[k] = t[l]
    <3>1. CASE k \in 1..m
      BY <1>2, <1>3, <3>1
    <3>2. CASE k - m - 1 \in 1..n /\ m + 1 + (k - m - 1) = k
      <4> PICK l : l = k - m - 1
        OBVIOUS
      <4>1. l \in 1..n /\ k = m + 1 + l /\ k - 1 = m + l /\ ~(k <= m) /\ m + l \in 1..(m + n)
        BY <1>2, <3>2
      <4>2. r[k] = b[l] /\ t[m + l] = b[l]
        BY <1>2, <1>3, <4>1
      <4> QED
        BY <4>1, <4>2
    <3> QED
      BY <1>4, <2>3, <3>1, <3>2
  <2>4. CASE i # m + 1 /\ j # m + 1
    <3> PICK k, l : k = (IF i <= m THEN i ELSE i - 1) /\ l = (IF j <= m THEN j ELSE j - 1)
      OBVIOUS
    <3>1. k \in 1..(m + n) /\ l \in 1..(m + n) /\ r[i] = t[k] /\ r[j] = t[l]
      BY <2>3, <2>4
    <3>2. k < l /\ Len(t) = m + n
      BY <1>2, <1>3, <1>5, <2>4
    <3> QED
      BY <3>1, <3>2
  <2> QED
    BY <2>1, <2>2, <2>4
<1>8. \A i \in 1..Len(t) : t[i].start \in Nat /\ t[i].gone \in Nat /\ e.start \in Nat /\ e.gone \in Nat
  BY ElementOfSeq, EditIs
<1>9. Ordered(r)
  <2>1. SUFFICES ASSUME NEW i \in 1..(m + 1 + n), NEW j \in 1..(m + 1 + n), i < j
                 PROVE  r[i].start <= r[j].start
    BY <1>2 DEF Ordered
  <2>2. CASE \E k, l \in 1..Len(t) : k < l /\ r[i] = t[k] /\ r[j] = t[l]
    BY <2>2 DEF Ordered
  <2>3. CASE \E l \in 1..Len(t) : r[i] = e /\ r[j] = t[l] /\ t[l].start > e.start
    BY <1>8, <2>3
  <2>4. CASE \E k \in 1..Len(t) : r[i] = t[k] /\ r[j] = e /\ t[k].start <= e.start
    BY <2>4
  <2> QED
    BY <1>5, <2>1, <2>2, <2>3, <2>4
<1>10. ASSUME Apart(t), ComesAfter(e, t)
       PROVE  Apart(r)
  <2> DEFINE Fine(u, v) == u.start <= v.start /\ (u.gone = 0 \/ u.start + u.gone <= v.start)
  <2>1. SUFFICES ASSUME NEW i \in 1..(m + 1 + n), NEW j \in 1..(m + 1 + n), i < j
                 PROVE  Fine(r[i], r[j])
    BY <1>2 DEF Apart
  <2>2. CASE \E k, l \in 1..Len(t) : k < l /\ r[i] = t[k] /\ r[j] = t[l]
    BY <1>10, <2>2 DEF Apart
  <2>3. CASE \E l \in 1..Len(t) : r[i] = e /\ r[j] = t[l] /\ t[l].start > e.start
    <3>1. PICK l \in 1..Len(t) : r[i] = e /\ r[j] = t[l] /\ t[l].start > e.start
      BY <2>3
    <3>2. PICK x \in Nat, y \in Nat, u \in Nat, v \in Nat :
            x = e.start /\ y = e.gone /\ u = t[l].start /\ v = t[l].gone
      BY <1>8
    <3>3. u > x /\ ~(u < x + y /\ x < u + v)
      BY <1>10, <3>1, <3>2 DEF ComesAfter, Overlap
    <3>4. x <= u /\ (y = 0 \/ x + y <= u)
      BY <3>3, StartsBehind
    <3> QED
      BY <3>1, <3>2, <3>4
  <2>4. CASE \E k \in 1..Len(t) : r[i] = t[k] /\ r[j] = e /\ t[k].start <= e.start
    BY <1>10, <2>4 DEF ComesAfter
  <2> HIDE DEF Fine
  <2> QED
    BY <1>5, <2>1, <2>2, <2>3, <2>4
<1>6. \A x : In(x, r) <=> In(x, t) \/ x = e
  <2> TAKE x
  <2>1. \A i \in 1..m : i \in 1..Len(r) /\ i \in 1..Len(t)
    BY <1>2, <1>3
  <2>2. \A i \in 1..n : m + i \in 1..Len(t) /\ m + 1 + i \in 1..Len(r)
    BY <1>2, <1>3
  <2>3. m + 1 \in 1..Len(r)
    BY <1>2
  <2>4. \A i \in 1..Len(t) : i \in 1..m \/ (i - m \in 1..n /\ m + (i - m) = i)
    BY <1>2, <1>3
  <2>5. ASSUME In(x, t)
        PROVE  In(x, r)
    <3>1. PICK i \in 1..Len(t) : t[i] = x
      BY <2>5 DEF In
    <3>2. CASE i \in 1..m
      BY <1>2, <1>3, <2>1, <3>1, <3>2 DEF In
    <3>3. CASE i - m \in 1..n /\ m + (i - m) = i
      <4>1. r[m + 1 + (i - m)] = x /\ m + 1 + (i - m) \in 1..Len(r)
        BY <1>2, <1>3, <2>2, <3>1, <3>3
      <4> QED
        BY <4>1 DEF In
    <3> QED
      BY <2>4, <3>2, <3>3
  <2>6. ASSUME In(x, r), x # e
        PROVE  In(x, t)
    <3>1. PICK i \in 1..Len(r) : r[i] = x
      BY <2>6 DEF In
    <3>2. CASE i \in 1..m
      BY <1>2, <1>3, <2>1, <3>1, <3>2 DEF In
    <3>3. CASE i - m - 1 \in 1..n /\ m + 1 + (i - m - 1) = i
      <4> PICK l : l = i - m - 1
        OBVIOUS
      <4>1. l \in 1..n /\ r[m + 1 + l] = x
        BY <3>1, <3>3
      <4>2. t[m + l] = x /\ m + l \in 1..Len(t)
        BY <1>2, <1>3, <2>2, <4>1
      <4> QED
        BY <4>2 DEF In
    <3>4. i # m + 1
      BY <1>2, <2>6, <3>1
    <3> QED
      BY <1>2, <1>4, <3>1, <3>2, <3>3, <3>4
  <2>7. In(e, r)
    BY <1>2, <2>3 DEF In
  <2> QED
    BY <2>5, <2>6, <2>7
<1>7. \A p : Put(r, p) = Put(t, p) \o PutBy(e, p)
  <2> TAKE p
  <2> PICK c, x, y, z : c = Append(a, e) /\ x = Put(a, p) /\ y = Put(b, p) /\ z = PutBy(e, p)
    OBVIOUS
  <2>1. c \in Seq(EditsOf(L)) /\ r = c \o b
    BY <1>1
  <2>2. Put(t, p) = x \o y /\ Put(r, p) = Put(c, p) \o y /\ Put(c, p) = x \o z
    <3>1. Put(a \o b, p) = Put(a, p) \o Put(b, p)
      BY PutConcat
    <3>2. Put(c \o b, p) = Put(c, p) \o Put(b, p)
      BY <2>1, PutConcat
    <3>3. Put(Append(a, e), p) = Put(a, p) \o PutBy(e, p)
      BY PutAppend
    <3> QED
      BY <1>1, <2>1, <3>1, <3>2, <3>3, Zenon
  <2>3. x \in Seq(PatchLines) /\ y \in Seq(PatchLines) /\ z \in Seq(PatchLines)
    BY PutAppend, PutByIs
  <2>4. y = <<>> \/ z = <<>>
    <3>1. CASE p = e.start
      <4>1. \A i \in 1..Len(b) : b[i].start # p
        <5>1. \A i \in 1..Len(b) : b[i].start \in Nat /\ e.start \in Nat
          BY ElementOfSeq, EditIs
        <5> QED
          BY <1>1, <3>1, <5>1
      <4> QED
        BY <4>1, PutNone
    <3>2. CASE p # e.start
      BY <3>2 DEF PutBy
    <3> QED
      BY <3>1, <3>2
  <2>5. (x \o z) \o y = (x \o y) \o z
    <3>1. x \o z \in Seq(PatchLines) /\ x \o y \in Seq(PatchLines)
      BY <2>3, ConcatProperties
    <3>2. CASE y = <<>>
      <4>1. (x \o z) \o <<>> = x \o z /\ x \o <<>> = x
        BY <2>3, <3>1, ConcatEmptySeq
      <4> QED
        BY <3>2, <4>1, Zenon
    <3>3. CASE z = <<>>
      <4>1. (x \o y) \o <<>> = x \o y /\ x \o <<>> = x
        BY <2>3, <3>1, ConcatEmptySeq
      <4> QED
        BY <3>3, <4>1, Zenon
    <3> QED
      BY <2>4, <3>2, <3>3
  <2> QED
    BY <2>2, <2>5
<1> QED
  BY <1>2, <1>6, <1>7, <1>9, <1>10

\* A sorted list of the first n edits.
Sorted(t, edits, n, L) ==
  /\ t \in Seq(EditsOf(L)) /\ Ordered(t)
  /\ Separate(edits) => Apart(t)
  /\ \A x : In(x, t) <=> \E i \in 1..n : edits[i] = x
  /\ \A p : Put(t, p) = Put(SubSeq(edits, 1, n), p)

\* Sorting one more.
LEMMA SortStep ==
  ASSUME NEW L \in Nat, NEW edits \in Seq(EditsOf(L)),
         NEW n \in 1..Len(edits), NEW t, Sorted(t, edits, n - 1, L)
  PROVE  Sorted(Insert(t, edits[n]), edits, n, L)
<1> PICK e, r, k : e = edits[n] /\ r = Insert(t, e) /\ k = n - 1
  OBVIOUS
<1>1. /\ Len(edits) \in Nat /\ k \in Nat /\ k < n /\ e \in EditsOf(L)
      /\ \A i \in 1..n : i \in 1..k \/ i = n
      /\ \A i \in 1..k : i \in 1..n /\ i \in 1..Len(edits) /\ i < n
      /\ n \in 1..n
  BY ElementOfSeq
<1>2. t \in Seq(EditsOf(L)) /\ Ordered(t) /\ (Separate(edits) => Apart(t)) /\ (\A x : In(x, t) <=> \E i \in 1..k : edits[i] = x)
      /\ \A p : Put(t, p) = Put(SubSeq(edits, 1, k), p)
  BY DEF Sorted
<1>3. ASSUME Separate(edits)
      PROVE  ComesAfter(e, t)
  <2>1. SUFFICES ASSUME NEW i \in 1..Len(t)
                 PROVE  ~Overlap(t[i], e) /\ (t[i].gone = 0 \/ t[i].start + t[i].gone <= e.start)
    BY DEF ComesAfter
  <2>2. In(t[i], t)
    BY DEF In
  <2>3. PICK j \in 1..k : edits[j] = t[i]
    BY <1>2, <2>2
  <2> QED
    BY <1>1, <1>3, <2>3 DEF Separate
<1>4. /\ r \in Seq(EditsOf(L)) /\ Ordered(r) /\ (Separate(edits) => Apart(r))
      /\ \A x : In(x, r) <=> In(x, t) \/ x = e
      /\ \A p : Put(r, p) = Put(t, p) \o PutBy(e, p)
  BY <1>1, <1>2, <1>3, InsertKeeps
<1>5. \A x : In(x, r) <=> \E i \in 1..n : edits[i] = x
  BY <1>1, <1>2, <1>4
<1>6. \A p : Put(r, p) = Put(SubSeq(edits, 1, n), p)
  <2> TAKE p
  <2> PICK a, b : a = SubSeq(edits, 1, k) /\ b = SubSeq(edits, 1, n)
    OBVIOUS
  <2>1. a \in Seq(EditsOf(L))
    BY <1>1, SubSeqProperties, ElementOfSeq
  <2>2. b = Append(a, e)
    BY <1>1, <2>1, SubSeqRecursiveSecond
  <2>3. Put(Append(a, e), p) = Put(a, p) \o PutBy(e, p)
    BY <1>1, <2>1, PutAppend
  <2> QED
    BY <1>2, <1>4, <2>2, <2>3, Zenon
<1> QED
  BY <1>4, <1>5, <1>6 DEF Sorted

\* The edits of an update are sorted, each of them once.
LEMMA SortsWell ==
  ASSUME NEW L \in Nat, NEW edits \in Seq(EditsOf(L))
  PROVE  Sorted(SortEdits(edits), edits, Len(edits), L)
<1> DEFINE N == Len(edits)
           D == Seq(EditsOf(L))
           F == [x \in D \X (1..N) |->
                   IF Insert(x[1], edits[x[2]]) \in D THEN Insert(x[1], edits[x[2]]) ELSE <<>>]
           Solves(f) == f = [n \in 0..N |-> IF n = 0 THEN <<>> ELSE Insert(f[n - 1], edits[n])]
           g == CHOOSE f : Solves(f)
<1>1. N \in Nat /\ <<>> \in D
  OBVIOUS
<1>2. SortEdits(edits) = g[N]
  BY Zenon DEF SortEdits
<1>3. Sorted(<<>>, edits, 0, L)
  <2>1. SubSeq(edits, 1, 0) = <<>>
    BY SubSeqEmpty
  <2>2. \A p : Put(<<>>, p) = Put(SubSeq(edits, 1, 0), p)
    BY <2>1, Zenon
  <2>3. Len(<<>>) = 0 /\ 1..0 = {}
    OBVIOUS
  <2>4. Ordered(<<>>) /\ Apart(<<>>)
    BY <2>3 DEF Ordered, Apart
  <2>5. \A x : In(x, <<>>) <=> \E i \in 1..0 : edits[i] = x
    BY <2>3 DEF In
  <2> QED
    BY <1>1, <2>2, <2>4, <2>5 DEF Sorted
<1>4. ASSUME NEW h, h[0] = <<>>,
             \A n \in 1..N : h[n - 1] \in D /\ Insert(h[n - 1], edits[n]) \in D
                               => h[n] = Insert(h[n - 1], edits[n])
      PROVE  \A n \in 0..N : Sorted(h[n], edits, n, L)
  <2> DEFINE H == {n \in 0..N : Sorted(h[n], edits, n, L)}
  <2>1. 0 \in H
    BY <1>1, <1>3, <1>4
  <2>2. ASSUME NEW n \in 1..N, n - 1 \in H
        PROVE  n \in H
    <3>1. Sorted(h[n - 1], edits, n - 1, L) /\ n \in 0..N
      BY <1>1, <2>2
    <3>2. Sorted(Insert(h[n - 1], edits[n]), edits, n, L)
      BY <3>1, SortStep
    <3>3. h[n] = Insert(h[n - 1], edits[n])
      BY <1>4, <3>1, <3>2 DEF Sorted
    <3> QED
      BY <3>1, <3>2, <3>3
  <2> HIDE DEF H
  <2>3. \A n \in 0..N : n \in H
    BY <1>1, <2>1, <2>2, StepByStep
  <2> QED
    BY <2>3 DEF H
<1> HIDE DEF D, N
<1>5. F \in [D \X (1..N) -> D]
  BY <1>1
<1>6. PICK f \in [0..N -> D] : Recurs(f, <<>>, F, N)
  <2> HIDE DEF F
  <2> QED
    BY <1>1, <1>5, RecursionExists
<1>7. /\ f[0] = <<>>
      /\ \A n \in 1..N : f[n - 1] \in D
      /\ \A n \in 1..N : f[n] = F[<<f[n - 1], n>>]
  <2> HIDE DEF F
  <2>1. \A n \in 1..N : n \in 0..N /\ n # 0 /\ n - 1 \in 0..N
    BY <1>1
  <2> QED
    BY <1>1, <1>6, <2>1 DEF Recurs
<1>8. \A n \in 1..N : Insert(f[n - 1], edits[n]) \in D => f[n] = Insert(f[n - 1], edits[n])
  BY <1>7
<1>9. \A n \in 0..N : Sorted(f[n], edits, n, L)
  BY <1>4, <1>7, <1>8
<1>10. ASSUME NEW n \in 1..N
       PROVE  f[n] = Insert(f[n - 1], edits[n])
  <2>1. Sorted(f[n - 1], edits, n - 1, L)
    BY <1>1, <1>9
  <2>2. Sorted(Insert(f[n - 1], edits[n]), edits, n, L)
    BY <2>1, SortStep DEF N
  <2> QED
    BY <1>8, <2>2 DEF Sorted, D
<1>11. Solves(f)
  <2>1. \A n \in 0..N : n # 0 => n \in 1..N
    BY <1>1
  <2>2. \A n \in 0..N : f[n] = IF n = 0 THEN <<>> ELSE Insert(f[n - 1], edits[n])
    BY <1>7, <1>10, <2>1
  <2>3. f = [n \in 0..N |-> f[n]]
    BY <1>6
  <2> QED
    BY <2>2, <2>3
<1>12. Solves(g)
  BY <1>11, Zenon
<1> HIDE DEF g
<1>13. g[0] = <<>> /\ \A n \in 1..N : g[n] = Insert(g[n - 1], edits[n])
  BY <1>1, <1>12
<1>14. \A n \in 0..N : Sorted(g[n], edits, n, L)
  BY <1>4, <1>13
<1>15. N \in 0..N
  BY <1>1
<1> QED
  BY <1>2, <1>14, <1>15 DEF N
------------------------------------------------------------------------------
\* The texts.

\* Splicing an edit in makes lines of lines.
LEMMA SpliceIs ==
  ASSUME NEW L \in Nat, NEW e \in EditsOf(L), NEW text \in Seq(PatchLines)
  PROVE  Splice(e, text) \in Seq(PatchLines)
<1> DEFINE from == AtMost(e.start, Len(text))
           to == AtMost(from + e.gone, Len(text))
<1>1. e.start \in Nat /\ e.gone \in Nat /\ e.lines \in Seq(PatchLines) /\ Len(text) \in Nat
  BY EditIs, LenProperties
<1>2. from \in 0..Len(text) /\ to \in 0..Len(text)
  BY <1>1 DEF AtMost
<1>3. Splice(e, text) = (SubSeq(text, 1, from) \o e.lines) \o SubSeq(text, to + 1, Len(text))
  BY Zenon DEF Splice
<1> HIDE DEF from, to
<1>4. (\A i \in 1..from : text[i] \in PatchLines) /\ \A i \in (to + 1)..Len(text) : text[i] \in PatchLines
  BY <1>1, <1>2, ElementOfSeq
<1>5. SubSeq(text, 1, from) \in Seq(PatchLines) /\ SubSeq(text, to + 1, Len(text)) \in Seq(PatchLines)
  BY <1>1, <1>2, <1>4, SubSeqProperties
<1> QED
  BY <1>1, <1>3, <1>5, ConcatProperties

IsOut(f, lines, s) ==
  /\ f[0] = lines
  /\ \A n \in 0..Len(s) : f[n] \in Seq(PatchLines)
  /\ \A n \in 1..Len(s) : f[n] = Splice(s[Len(s) + 1 - n], f[n - 1])

\* Spliced makes the edits so.
LEMMA SplicedIs ==
  ASSUME NEW L \in Nat, NEW s \in Seq(EditsOf(L)), NEW lines \in Seq(PatchLines)
  PROVE  \E f : IsOut(f, lines, s) /\ Spliced(lines, s) = f[Len(s)]
<1> DEFINE N == Len(s)
           D == Seq(PatchLines)
           F == [x \in D \X (1..N) |-> Splice(s[N + 1 - x[2]], x[1])]
           Solves(f) == f = [n \in 0..N |-> IF n = 0 THEN lines ELSE Splice(s[N + 1 - n], f[n - 1])]
           g == CHOOSE f : Solves(f)
<1>1. N \in Nat
  OBVIOUS
<1>2. ASSUME NEW d \in D, NEW n \in 1..N
      PROVE  Splice(s[N + 1 - n], d) \in D
  <2>1. N + 1 - n \in 1..Len(s)
    OBVIOUS
  <2> QED
    BY <2>1, ElementOfSeq, SpliceIs
<1>3. Spliced(lines, s) = g[N]
  BY Zenon DEF Spliced
<1>4. lines \in D
  OBVIOUS
<1> HIDE DEF D, N
<1>5. F \in [D \X (1..N) -> D]
  BY <1>2
<1>6. PICK f \in [0..N -> D] : Recurs(f, lines, F, N)
  <2> HIDE DEF F
  <2> QED
    BY <1>1, <1>4, <1>5, RecursionExists
<1>7. ASSUME NEW n \in 0..N
      PROVE  f[n] = IF n = 0 THEN lines ELSE Splice(s[N + 1 - n], f[n - 1])
  <2>1. CASE n = 0
    BY <1>6, <2>1 DEF Recurs
  <2>2. CASE n # 0
    <3>1. n \in 1..N /\ f[n - 1] \in D
      BY <1>1, <1>6, <2>2
    <3>2. f[n] = F[<<f[n - 1], n>>]
      <4> HIDE DEF F
      <4> QED
        BY <1>6, <2>2 DEF Recurs
    <3> QED
      BY <2>2, <3>1, <3>2
  <2> QED
    BY <2>1, <2>2
<1>8. Solves(f)
  <2>1. f = [n \in 0..N |-> f[n]]
    BY <1>6
  <2> QED
    BY <1>7, <2>1
<1>9. Solves(g)
  BY <1>8, Zenon
<1> HIDE DEF g
<1>10. g[0] = lines /\ \A n \in 1..N : g[n] = Splice(s[N + 1 - n], g[n - 1])
  BY <1>1, <1>9
<1>11. \A n \in 0..N : g[n] \in D
  <2> DEFINE H == {n \in 0..N : g[n] \in D}
  <2>1. 0 \in H
    BY <1>1, <1>4, <1>10
  <2>2. ASSUME NEW n \in 1..N, n - 1 \in H
        PROVE  n \in H
    BY <1>1, <1>2, <1>10, <2>2
  <2> HIDE DEF H
  <2>3. \A n \in 0..N : n \in H
    BY <1>1, <2>1, <2>2, StepByStep
  <2> QED
    BY <2>3 DEF H
<1> QED
  BY <1>3, <1>10, <1>11 DEF IsOut, N, D

\* No edits change nothing.
LEMMA SplicedEmpty ==
  ASSUME NEW lines \in Seq(PatchLines)
  PROVE  Spliced(lines, <<>>) = lines
<1> PICK none : none = <<>>
  OBVIOUS
<1>1. none \in Seq(EditsOf(0)) /\ Len(none) = 0 /\ 0 \in Nat
  OBVIOUS
<1>2. PICK f : IsOut(f, lines, none) /\ Spliced(lines, none) = f[Len(none)]
  BY <1>1, SplicedIs
<1>3. Spliced(lines, none) = f[0]
  BY <1>1, <1>2, Zenon
<1> QED
  BY <1>2, <1>3, Zenon DEF IsOut

\* The first edit is made last.
LEMMA SplicedFront ==
  ASSUME NEW L \in Nat, NEW t \in Seq(EditsOf(L)), NEW e \in EditsOf(L), NEW lines \in Seq(PatchLines)
  PROVE  /\ Spliced(lines, t) \in Seq(PatchLines)
         /\ Spliced(lines, <<e>> \o t) = Splice(e, Spliced(lines, t))
<1> PICK one, s, m : one = <<e>> /\ s = <<e>> \o t /\ m = Len(t)
  OBVIOUS
<1>1. /\ one \in Seq(EditsOf(L)) /\ Len(one) = 1 /\ one[1] = e /\ m \in Nat /\ s = one \o t
  OBVIOUS
<1>2. /\ s \in Seq(EditsOf(L)) /\ Len(s) = 1 + m
      /\ \A i \in 1..(1 + m) : s[i] = IF i <= 1 THEN one[i] ELSE t[i - 1]
  BY <1>1, ConcatProperties
<1>3. PICK f : IsOut(f, lines, t) /\ Spliced(lines, t) = f[m]
  BY SplicedIs
<1>4. PICK g : IsOut(g, lines, s) /\ Spliced(lines, s) = g[m + 1]
  <2>1. Len(s) = m + 1
    BY <1>1, <1>2
  <2> QED
    BY <1>2, <2>1, SplicedIs
<1>5. \A n \in 0..m : g[n] = f[n]
  <2> DEFINE H == {n \in 0..m : g[n] = f[n]}
  <2>1. 0 \in H
    BY <1>1, <1>3, <1>4 DEF IsOut
  <2>2. ASSUME NEW n \in 1..m, n - 1 \in H
        PROVE  n \in H
    <3>1. PICK i : i = m + 1 - n
      OBVIOUS
    <3>2. /\ n \in 1..Len(s) /\ n \in 1..Len(t) /\ n \in 0..m
          /\ Len(s) + 1 - n = i + 1 /\ Len(t) + 1 - n = i
          /\ i + 1 \in 1..(1 + m) /\ ~(i + 1 <= 1) /\ (i + 1) - 1 = i
      BY <1>1, <1>2, <3>1
    <3>3. s[i + 1] = t[i] /\ g[n - 1] = f[n - 1]
      BY <1>2, <2>2, <3>2
    <3>4. g[n] = Splice(s[i + 1], g[n - 1]) /\ f[n] = Splice(t[i], f[n - 1])
      BY <1>3, <1>4, <3>2 DEF IsOut
    <3> QED
      BY <3>2, <3>3, <3>4
  <2> HIDE DEF H
  <2>3. \A n \in 0..m : n \in H
    BY <1>1, <2>1, <2>2, StepByStep
  <2> QED
    BY <2>3 DEF H
<1>6. m \in 0..m /\ m + 1 \in 1..Len(s) /\ (m + 1) - 1 = m /\ Len(s) + 1 - (m + 1) = 1 /\ 1 \in 1..(1 + m)
  BY <1>1, <1>2
<1>7. s[1] = e
  BY <1>1, <1>2, <1>6
<1>8. g[m + 1] = Splice(e, g[m])
  BY <1>4, <1>6, <1>7 DEF IsOut
<1>9. f[m] \in Seq(PatchLines)
  BY <1>3, <1>6 DEF IsOut
<1> QED
  BY <1>3, <1>4, <1>5, <1>6, <1>8, <1>9

\* What becomes of a line.
Line(lines, edits, p) == IF Takes(edits, p) THEN <<>> ELSE <<lines[p]>>

IsText(f, lines, edits) ==
  /\ f[0] = Put(edits, 0)
  /\ \A p \in 0..Len(lines) : f[p] \in Seq(PatchLines)
  /\ \A p \in 1..Len(lines) : f[p] = (f[p - 1] \o Line(lines, edits, p)) \o Put(edits, p)

\* Rewritten adds the lines up so.
LEMMA RewrittenIs ==
  ASSUME NEW L \in Nat, NEW edits \in Seq(EditsOf(L)), NEW lines \in Seq(PatchLines)
  PROVE  \E f : IsText(f, lines, edits) /\ Rewritten(lines, edits) = f[Len(lines)]
<1> DEFINE N == Len(lines)
           D == Seq(PatchLines)
           base == Put(edits, 0)
           Next(d, p) == (d \o Line(lines, edits, p)) \o Put(edits, p)
           F == [x \in D \X (1..N) |-> Next(x[1], x[2])]
           Solves(f) == f = [p \in 0..N |-> IF p = 0 THEN Put(edits, 0)
             ELSE (f[p - 1] \o (IF Takes(edits, p) THEN <<>> ELSE <<lines[p]>>)) \o Put(edits, p)]
           g == CHOOSE f : Solves(f)
<1>1. N \in Nat
  OBVIOUS
<1>2. \A p : Put(edits, p) \in D
  BY PutIsText
<1>3. ASSUME NEW d \in D, NEW p \in 1..N
      PROVE  Next(d, p) \in D
  <2>1. Line(lines, edits, p) \in Seq(PatchLines)
    BY ElementOfSeq DEF Line
  <2> QED
    BY <1>2, <2>1, ConcatProperties
<1>4. Rewritten(lines, edits) = g[N]
  BY Zenon DEF Rewritten
<1>5. base \in D
  BY <1>2
<1> HIDE DEF D, N, base, Next
<1>6. F \in [D \X (1..N) -> D]
  BY <1>3
<1>7. PICK f \in [0..N -> D] : Recurs(f, base, F, N)
  <2> HIDE DEF F
  <2> QED
    BY <1>1, <1>5, <1>6, RecursionExists
<1>8. ASSUME NEW n \in 0..N
      PROVE  f[n] = IF n = 0 THEN base ELSE Next(f[n - 1], n)
  <2>1. CASE n = 0
    BY <1>7, <2>1 DEF Recurs
  <2>2. CASE n # 0
    <3>1. n \in 1..N /\ f[n - 1] \in D
      BY <1>1, <1>7, <2>2
    <3>2. f[n] = F[<<f[n - 1], n>>]
      <4> HIDE DEF F
      <4> QED
        BY <1>7, <2>2 DEF Recurs
    <3> QED
      BY <2>2, <3>1, <3>2
  <2> QED
    BY <2>1, <2>2
<1>9. Solves(f)
  <2>1. f = [n \in 0..N |-> f[n]]
    BY <1>7
  <2> QED
    BY <1>8, <2>1 DEF Next, base, Line
<1>10. Solves(g)
  BY <1>9, Zenon
<1>11. g = [p \in 0..N |-> IF p = 0 THEN base ELSE Next(g[p - 1], p)]
  BY <1>10, Zenon DEF Next, base, Line
<1> HIDE DEF g
<1>12. g[0] = base /\ \A p \in 1..N : g[p] = Next(g[p - 1], p)
  BY <1>1, <1>11
<1>13. \A n \in 0..N : g[n] \in D
  <2> DEFINE H == {n \in 0..N : g[n] \in D}
  <2>1. 0 \in H
    BY <1>1, <1>5, <1>12
  <2>2. ASSUME NEW n \in 1..N, n - 1 \in H
        PROVE  n \in H
    BY <1>1, <1>3, <1>12, <2>2
  <2> HIDE DEF H
  <2>3. \A n \in 0..N : n \in H
    BY <1>1, <2>1, <2>2, StepByStep
  <2> QED
    BY <2>3 DEF H
<1> QED
  BY <1>4, <1>12, <1>13 DEF IsText, N, D, base, Next

\* Parts of texts.
LEMMA StartIs ==
  ASSUME NEW S, NEW s \in Seq(S), NEW n \in 0..Len(s)
  PROVE  SubSeq(s, 1, n) \in Seq(S) /\ Len(SubSeq(s, 1, n)) = n /\ \A i \in 1..n : SubSeq(s, 1, n)[i] = s[i]
<1>1. n \in Int /\ n \in Nat /\ Len(s) \in Nat /\ \A i \in 1..n : s[i] \in S
  BY ElementOfSeq
<1> QED
  BY <1>1, SubSeqProperties

\* The start of a text is that of its first part.
LEMMA StartOfText ==
  ASSUME NEW S, NEW s \in Seq(S), NEW x \in Seq(S), NEW n \in 0..Len(s)
  PROVE  SubSeq(s \o x, 1, n) = SubSeq(s, 1, n)
<1> PICK t : t = s \o x
  OBVIOUS
<1>1. /\ t \in Seq(S) /\ Len(t) = Len(s) + Len(x) /\ Len(s) \in Nat /\ Len(x) \in Nat
      /\ \A i \in 1..(Len(s) + Len(x)) : t[i] = IF i <= Len(s) THEN s[i] ELSE x[i - Len(s)]
  BY ConcatProperties
<1>2. n \in 0..Len(t) /\ \A i \in 1..n : t[i] = s[i]
  BY <1>1
<1> PICK a, b : a = SubSeq(s, 1, n) /\ b = SubSeq(t, 1, n)
  OBVIOUS
<1>3. a \in Seq(S) /\ b \in Seq(S) /\ Len(a) = n /\ Len(b) = n /\ \A i \in 1..n : a[i] = b[i]
  BY <1>1, <1>2, StartIs
<1>4. a = b
  BY <1>3, SeqEqual
<1> QED
  BY <1>4

\* The part of a text behind its first n elements.
LEMMA RestIs ==
  ASSUME NEW S, NEW t \in Seq(S), NEW n \in Nat, NEW m \in Nat, Len(t) = n + m
  PROVE  /\ SubSeq(t, n + 1, n + m) \in Seq(S) /\ Len(SubSeq(t, n + 1, n + m)) = m
         /\ \A i \in 1..m : SubSeq(t, n + 1, n + m)[i] = t[n + i]
<1>1. PICK k \in Int, l \in Int : k = n + 1 /\ l = n + m
  OBVIOUS
<1>2. \A i \in k..l : t[i] \in S
  BY <1>1, ElementOfSeq
<1>3. /\ SubSeq(t, k, l) \in Seq(S)
      /\ Len(SubSeq(t, k, l)) = IF k <= l THEN l - k + 1 ELSE 0
      /\ \A i \in 1..(l - k + 1) : SubSeq(t, k, l)[i] = t[k + i - 1]
  BY <1>2, SubSeqProperties
<1>4. l - k + 1 = m /\ (k <= l <=> m # 0) /\ \A i \in 1..m : k + i - 1 = n + i
  BY <1>1
<1> QED
  BY <1>1, <1>3, <1>4

\* The end of a text is its last part.
LEMMA EndOfText ==
  ASSUME NEW S, NEW s \in Seq(S), NEW x \in Seq(S), NEW n, n = Len(s)
  PROVE  SubSeq(s \o x, n + 1, n + Len(x)) = x
<1> PICK t, m : t = s \o x /\ m = Len(x)
  OBVIOUS
<1>1. /\ t \in Seq(S) /\ Len(t) = n + m /\ n \in Nat /\ m \in Nat
      /\ \A i \in 1..(n + m) : t[i] = IF i <= n THEN s[i] ELSE x[i - n]
  BY ConcatProperties
<1> PICK b : b = SubSeq(t, n + 1, n + m)
  OBVIOUS
<1>3. b \in Seq(S) /\ Len(b) = m /\ \A i \in 1..m : b[i] = t[n + i]
  BY <1>1, RestIs
<1>4. \A i \in 1..m : b[i] = x[i]
  BY <1>1, <1>3
<1>5. b = x
  BY <1>3, <1>4, SeqEqual
<1> QED
  BY <1>5

\* The start of a start is a start.
LEMMA StartOfStart ==
  ASSUME NEW S, NEW s \in Seq(S), NEW b \in 0..Len(s), NEW a \in 0..b
  PROVE  SubSeq(SubSeq(s, 1, b), 1, a) = SubSeq(s, 1, a)
<1> PICK t, u, v : t = SubSeq(s, 1, b) /\ u = SubSeq(t, 1, a) /\ v = SubSeq(s, 1, a)
  OBVIOUS
<1>1. Len(s) \in Nat /\ a \in 0..Len(s) /\ \A i \in 1..a : i \in 1..b
  OBVIOUS
<1>2. t \in Seq(S) /\ Len(t) = b /\ \A i \in 1..b : t[i] = s[i]
  BY StartIs
<1>3. v \in Seq(S) /\ Len(v) = a /\ \A i \in 1..a : v[i] = s[i]
  BY <1>1, StartIs
<1>4. u \in Seq(S) /\ Len(u) = a /\ \A i \in 1..a : u[i] = t[i]
  BY <1>2, StartIs
<1>5. u = v
  BY <1>1, <1>2, <1>3, <1>4, SeqEqual
<1> QED
  BY <1>5

\* An edit in a text that starts with the lines up to the edit's end.
LEMMA SpliceAt ==
  ASSUME NEW L \in Nat, NEW e \in EditsOf(L), NEW lines \in Seq(PatchLines), Len(lines) = L,
         NEW x \in Seq(PatchLines)
  PROVE  Splice(e, SubSeq(lines, 1, e.start + e.gone) \o x) = (SubSeq(lines, 1, e.start) \o e.lines) \o x
<1>1. PICK a \in Nat, w \in Nat : a = e.start /\ w = e.gone /\ a + w <= L
  BY EditIs
<1> PICK b, head, text : b = a + w /\ head = SubSeq(lines, 1, b) /\ text = head \o x
  OBVIOUS
<1>2. b \in 0..Len(lines) /\ a \in 0..b /\ b \in Nat /\ b = e.start + e.gone
  BY <1>1
<1>3. head \in Seq(PatchLines) /\ Len(head) = b
  BY <1>2, StartIs
<1>4. text \in Seq(PatchLines) /\ Len(text) = b + Len(x) /\ Len(x) \in Nat
  BY <1>3, ConcatProperties
<1>5. AtMost(a, Len(text)) = a /\ AtMost(a + w, Len(text)) = b
  BY <1>1, <1>2, <1>4 DEF AtMost
<1>6. Splice(e, text) = (SubSeq(text, 1, a) \o e.lines) \o SubSeq(text, b + 1, Len(text))
  <2>1. Splice(e, text) = (SubSeq(text, 1, AtMost(e.start, Len(text))) \o e.lines)
          \o SubSeq(text, AtMost(AtMost(e.start, Len(text)) + e.gone, Len(text)) + 1, Len(text))
    BY Zenon DEF Splice
  <2> QED
    BY <1>1, <1>5, <2>1, Zenon
<1>7. SubSeq(text, 1, a) = SubSeq(lines, 1, a)
  <2>1. SubSeq(head \o x, 1, a) = SubSeq(head, 1, a)
    BY <1>2, <1>3, StartOfText
  <2>2. SubSeq(head, 1, a) = SubSeq(lines, 1, a)
    BY <1>2, StartOfStart
  <2> QED
    BY <2>1, <2>2
<1>8. SubSeq(text, b + 1, Len(text)) = x
  <2>1. SubSeq(head \o x, b + 1, b + Len(x)) = x
    BY <1>3, EndOfText
  <2> QED
    BY <1>4, <2>1
<1> QED
  BY <1>1, <1>2, <1>6, <1>7, <1>8, Zenon

\* Nothing is put before a place or taken up to it.
Untouched(edits, a) ==
  /\ \A q \in 0..a : q < a => Put(edits, q) = <<>>
  /\ \A q \in 1..a : ~Takes(edits, q)

\* Up to where the first lines are put the text is as it was.
LEMMA TextStarts ==
  ASSUME NEW L \in Nat, NEW edits \in Seq(EditsOf(L)), NEW lines \in Seq(PatchLines),
         NEW f, IsText(f, lines, edits), NEW a \in 0..Len(lines),
         Untouched(edits, a)
  PROVE  f[a] = SubSeq(lines, 1, a) \o Put(edits, a)
<1> DEFINE Start(p) == SubSeq(lines, 1, p)
           G == {p \in 0..a : f[p] = Start(p) \o Put(edits, p)}
<1>1. Len(lines) \in Nat /\ a \in Nat /\ a <= Len(lines) /\ a \in 0..a
  OBVIOUS
<1>2. \A p : Put(edits, p) \in Seq(PatchLines)
  BY PutIsText
<1>3. 0 \in G
  <2>1. Start(0) = <<>>
    BY SubSeqEmpty
  <2>2. <<>> \o Put(edits, 0) = Put(edits, 0)
    BY <1>2, ConcatEmptySeq
  <2>3. f[0] = Put(edits, 0)
    BY DEF IsText
  <2>4. f[0] = Start(0) \o Put(edits, 0)
    BY <2>1, <2>2, <2>3, Zenon
  <2>5. 0 \in 0..a
    BY <1>1
  <2> QED
    BY <2>4, <2>5
<1>4. ASSUME NEW p \in 1..a, p - 1 \in G
      PROVE  p \in G
  <2> PICK k : k = p - 1
    OBVIOUS
  <2>1. k \in 0..a /\ k < a /\ k \in 0..Len(lines) /\ p \in 1..Len(lines) /\ p \in 0..a /\ Len(lines) \in p..Len(lines)
        /\ p \in 1..p /\ p \in p..Len(lines)
    BY <1>1
  <2>2. f[k] = Start(k) \o <<>> /\ ~Takes(edits, p)
    BY <1>4, <2>1 DEF Untouched
  <2>3. Start(k) \in Seq(PatchLines)
    BY <2>1, StartIs
  <2>4. f[k] = Start(k)
    BY <2>2, <2>3, ConcatEmptySeq, Zenon
  <2>5. f[p] = (f[k] \o <<lines[p]>>) \o Put(edits, p)
    BY <2>1, <2>2 DEF IsText, Line
  <2>6. Start(p) = Start(k) \o <<lines[p]>>
    BY <2>1, SubSeqRecursiveSecond
  <2> QED
    BY <2>1, <2>4, <2>5, <2>6
<1> HIDE DEF G
<1>5. \A p \in 0..a : p \in G
  BY <1>1, <1>3, <1>4, StepByStep
<1> QED
  BY <1>1, <1>5 DEF G

\* Edits that put and take nothing.
LEMMA RewrittenAsIs ==
  ASSUME NEW L \in Nat, NEW edits \in Seq(EditsOf(L)), NEW lines \in Seq(PatchLines),
         \A p : Put(edits, p) = <<>>, \A p : ~Takes(edits, p)
  PROVE  Rewritten(lines, edits) = lines
<1> PICK N : N = Len(lines)
  OBVIOUS
<1>1. N \in 0..Len(lines)
  OBVIOUS
<1>2. PICK f : IsText(f, lines, edits) /\ Rewritten(lines, edits) = f[N]
  BY RewrittenIs
<1>3. f[N] = SubSeq(lines, 1, N) \o Put(edits, N)
  <2>1. Untouched(edits, N)
    BY DEF Untouched
  <2> QED
    BY <1>1, <1>2, <2>1, TextStarts
<1>4. f[N] = lines
  BY <1>3, SubSeqFull, ConcatEmptySeq, Zenon
<1> QED
  BY <1>2, <1>4, Zenon

\* No edits leave a text as it is.
LEMMA RewrittenEmpty ==
  ASSUME NEW lines \in Seq(PatchLines)
  PROVE  Rewritten(lines, <<>>) = lines
<1> PICK none : none = <<>>
  OBVIOUS
<1>1. none \in Seq(EditsOf(0)) /\ Len(none) = 0 /\ 0 \in Nat
  OBVIOUS
<1>2. (\A p : Put(none, p) = <<>>) /\ \A p : ~Takes(none, p)
  BY <1>1, PutEmpty DEF Takes
<1>3. Rewritten(lines, none) = lines
  BY <1>1, <1>2, RewrittenAsIs
<1> QED
  BY <1>3

\* The first of edits that are apart: the others start behind it.
LEMMA FirstEdit ==
  ASSUME NEW L \in Nat, NEW t \in Seq(EditsOf(L)), NEW e \in EditsOf(L), NEW s, s = <<e>> \o t, Apart(s)
  PROVE  /\ s \in Seq(EditsOf(L)) /\ Apart(t)
         /\ \A i \in 1..Len(t) : t[i].start >= e.start + e.gone
         /\ \A p : Takes(s, p) <=> (e.start < p /\ p <= e.start + e.gone) \/ Takes(t, p)
<1> PICK one, m : one = <<e>> /\ m = Len(t)
  OBVIOUS
<1>1. one \in Seq(EditsOf(L)) /\ Len(one) = 1 /\ one[1] = e /\ m \in Nat /\ s = one \o t
  OBVIOUS
<1>2. /\ s \in Seq(EditsOf(L)) /\ Len(s) = 1 + m
      /\ \A i \in 1..(1 + m) : s[i] = IF i <= 1 THEN one[i] ELSE t[i - 1]
  BY <1>1, ConcatProperties
<1>3. s[1] = e /\ 1 \in 1..Len(s)
  BY <1>1, <1>2
<1>4. \A i \in 1..m : s[i + 1] = t[i] /\ i + 1 \in 1..Len(s) /\ 1 < i + 1
  BY <1>1, <1>2
<1>5. Apart(t)
  <2>1. SUFFICES ASSUME NEW i \in 1..m, NEW j \in 1..m, i < j
                 PROVE  t[i].start <= t[j].start /\ (t[i].gone = 0 \/ t[i].start + t[i].gone <= t[j].start)
    BY DEF Apart
  <2>2. i + 1 < j + 1
    BY <1>1, <2>1
  <2> QED
    BY <1>4, <2>2 DEF Apart
<1>6. ASSUME NEW i \in 1..m
      PROVE  t[i].start >= e.start + e.gone
  <2>1. e.start <= t[i].start /\ (e.gone = 0 \/ e.start + e.gone <= t[i].start)
    BY <1>3, <1>4 DEF Apart
  <2>2. PICK a \in Nat, w \in Nat, u \in Nat : a = e.start /\ w = e.gone /\ u = t[i].start
    BY ElementOfSeq, EditIs
  <2> QED
    BY <2>1, <2>2
<1>7. \A p : Takes(s, p) <=> (e.start < p /\ p <= e.start + e.gone) \/ Takes(t, p)
  <2> TAKE p
  <2> DEFINE Of(x) == x.start < p /\ p <= x.start + x.gone
  <2>1. Takes(s, p) <=> \E i \in 1..Len(s) : Of(s[i])
    BY DEF Takes
  <2>2. Takes(t, p) <=> \E i \in 1..m : Of(t[i])
    BY DEF Takes
  <2>3. \A i \in 1..Len(s) : i = 1 \/ (i - 1 \in 1..m /\ (i - 1) + 1 = i)
    BY <1>1, <1>2
  <2> HIDE DEF Of
  <2>4. Takes(s, p) <=> Of(e) \/ Takes(t, p)
    BY <1>3, <1>4, <2>1, <2>2, <2>3
  <2> QED
    BY <2>4 DEF Of
<1> QED
  BY <1>2, <1>5, <1>6, <1>7

\* Concatenation of texts is associative.
LEMMA ConcatThree ==
  \A c, x, y \in Seq(PatchLines) : (c \o x) \o y = c \o (x \o y)
  BY ConcatAssociative

\* Places between a and a + w.
LEMMA Positions ==
  ASSUME NEW a \in Nat, NEW w \in Nat, NEW L \in Nat, a + w <= L, NEW n \in 1..w
  PROVE  /\ a + (n - 1) \in Nat /\ a + (n - 1) < a + w /\ a + n \in 1..L
         /\ (a + n) - 1 = a + (n - 1) /\ a < a + n /\ a + n <= a + w /\ n \in 0..w
  OBVIOUS

\* Edits s are those of t and one before them, of the lines from a to b.
Leads(s, t, a, b, new) ==
  /\ \A i \in 1..Len(t) : t[i].start >= b
  /\ \A p : Takes(s, p) <=> (a < p /\ p <= b) \/ Takes(t, p)
  /\ \A p : Put(s, p) = (IF p = a THEN new ELSE <<>>) \o Put(t, p)

TextsOf(n) == {x \in Seq(PatchLines) : Len(x) = n}

\* The texts of both differ in these lines.
Differ(x, lines, t, s, a, b, new) ==
  /\ Rewritten(lines, t) = SubSeq(lines, 1, b) \o x
  /\ Rewritten(lines, s) = (SubSeq(lines, 1, a) \o new) \o x

\* They do, for what comes behind is the same.
LEMMA TextsDiffer ==
  ASSUME NEW L \in Nat, NEW lines \in TextsOf(L),
         NEW t \in Seq(EditsOf(L)), NEW s \in Seq(EditsOf(L)), NEW new \in Seq(PatchLines),
         NEW a \in Nat, NEW w \in Nat, NEW b \in Nat, b = a + w, b <= L, Leads(s, t, a, b, new)
  PROVE  \E x \in Seq(PatchLines) : Differ(x, lines, t, s, a, b, new)
<1>1. a + w <= L
  OBVIOUS
<1>a. lines \in Seq(PatchLines) /\ L = Len(lines)
  BY DEF TextsOf
<1>0. PICK A, B : A = SubSeq(lines, 1, a) /\ B = SubSeq(lines, 1, b)
  OBVIOUS
<1>2. a \in 0..L /\ b \in 0..L /\ a <= b /\ a \in 0..Len(lines) /\ b \in 0..Len(lines)
  BY <1>a
<1>3. /\ \A i \in 1..Len(t) : t[i].start >= b
      /\ \A p : Takes(s, p) <=> (a < p /\ p <= b) \/ Takes(t, p)
      /\ \A p : Put(s, p) = (IF p = a THEN new ELSE <<>>) \o Put(t, p)
  BY DEF Leads
<1>4. /\ A \in Seq(PatchLines) /\ B \in Seq(PatchLines)
      /\ \A p : Put(t, p) \in Seq(PatchLines) /\ Put(s, p) \in Seq(PatchLines)
  BY <1>0, <1>a, <1>2, StartIs, PutIsText
<1>5. \A i \in 1..Len(t) : t[i].start \in Nat
  BY <1>a, <1>2, ElementOfSeq, EditIs
<1>6. ASSUME NEW p \in Nat, p < b
      PROVE  Put(t, p) = <<>>
  <2>1. \A i \in 1..Len(t) : t[i].start # p
    BY <1>a, <1>2, <1>3, <1>5, <1>6
  <2> QED
    BY <1>a, <1>2, <2>1, PutNone
<1>7. ASSUME NEW p \in Nat, p <= b
      PROVE  ~Takes(t, p)
  BY <1>a, <1>2, <1>3, <1>5, <1>7 DEF Takes
<1>8. /\ Put(s, a) = new \o Put(t, a)
      /\ \A p : p # a => Put(s, p) = Put(t, p)
  <2>3. \A p : <<>> \o Put(t, p) = Put(t, p)
    BY <1>4, ConcatEmptySeq
  <2>4. Put(s, a) = new \o Put(t, a)
    BY <1>3, Zenon
  <2>5. ASSUME NEW p, p # a
        PROVE  Put(s, p) = Put(t, p)
    BY <1>3, <2>3, <2>5, Zenon
  <2> QED
    BY <2>4, <2>5
<1>9. PICK f : IsText(f, lines, t) /\ Rewritten(lines, t) = f[L]
  BY <1>a, <1>2, RewrittenIs
<1>10. PICK g : IsText(g, lines, s) /\ Rewritten(lines, s) = g[L]
  BY <1>a, <1>2, <1>3, RewrittenIs
<1>11. f[b] = B \o Put(t, b)
  <2>1. \A q \in 0..b : q < b => Put(t, q) = <<>>
    BY <1>a, <1>2, <1>6
  <2>2. \A q \in 1..b : ~Takes(t, q)
    BY <1>a, <1>2, <1>7
  <2>3. f[b] = SubSeq(lines, 1, b) \o Put(t, b)
    <3>1. Untouched(t, b)
      BY <2>1, <2>2 DEF Untouched
    <3> QED
      BY <1>a, <1>2, <1>9, <3>1, TextStarts
  <2> QED
    BY <1>0, <2>3
<1>12. g[a] = (A \o new) \o Put(t, a)
  <2>1. \A q \in 0..a : q < a => Put(s, q) = <<>>
    BY <1>a, <1>2, <1>6, <1>8
  <2>2. ASSUME NEW q \in 1..a
        PROVE  ~Takes(s, q)
    <3>1. q \in Nat /\ q <= b /\ ~(a < q)
      BY <1>a, <1>2
    <3> QED
      BY <1>3, <1>7, <3>1, Zenon
  <2>3. g[a] = SubSeq(lines, 1, a) \o Put(s, a)
    <3>1. Untouched(s, a)
      BY <2>1, <2>2 DEF Untouched
    <3> QED
      BY <1>a, <1>2, <1>10, <3>1, TextStarts
  <2>4. A \o (new \o Put(t, a)) = (A \o new) \o Put(t, a)
    <3>1. Put(t, a) \in Seq(PatchLines) /\ A \in Seq(PatchLines)
      BY <1>4
    <3> QED
      BY <3>1, ConcatThree, Zenon
  <2> QED
    BY <1>0, <1>8, <2>3, <2>4, Zenon
<1>13. A \o new \in Seq(PatchLines)
  BY <1>4, ConcatProperties
\* The lines the edit takes are skipped.
<1>14. g[b] = (A \o new) \o Put(t, b)
  <2> DEFINE G == {n \in 0..w : g[a + n] = (A \o new) \o Put(t, a + n)}
  <2>1. 0 \in G
    <3>1. a + 0 = a /\ 0 \in 0..w
      BY <1>1
    <3> QED
      BY <1>12, <3>1
  <2>2. ASSUME NEW n \in 1..w, n - 1 \in G
        PROVE  n \in G
    <3> PICK k, p : k = a + (n - 1) /\ p = a + n
      OBVIOUS
    <3>1. /\ k \in Nat /\ k < b /\ p \in 1..Len(lines) /\ p # a /\ p - 1 = k /\ a < p /\ p <= b /\ n \in 0..w
      <4>1. k \in Nat /\ k < b /\ p \in 1..L /\ p - 1 = k /\ a < p /\ p <= b /\ n \in 0..w
        <5>1. /\ a + (n - 1) \in Nat /\ a + (n - 1) < a + w /\ a + n \in 1..L
              /\ (a + n) - 1 = a + (n - 1) /\ a < a + n /\ a + n <= a + w /\ n \in 0..w
          BY <1>1, Positions
        <5> QED
          BY <1>a, <1>2, <5>1, Zenon
      <4> QED
        BY <1>a, <1>2, <4>1
    <3>2. g[k] = (A \o new) \o Put(t, k) /\ Put(t, k) = <<>>
      BY <1>6, <2>2, <3>1
    <3>3. Takes(s, p) /\ Put(s, p) = Put(t, p)
      BY <1>3, <1>8, <3>1
    <3>4. g[k] = A \o new
      BY <1>13, <3>2, ConcatEmptySeq, Zenon
    <3>5. g[p] = (g[k] \o <<>>) \o Put(t, p)
      BY <1>a, <1>10, <3>1, <3>3 DEF IsText, Line
    <3>6. (A \o new) \o <<>> = A \o new
      BY <1>13, ConcatEmptySeq
    <3>7. g[p] = (A \o new) \o Put(t, p)
      BY <3>4, <3>5, <3>6, Zenon
    <3> QED
      BY <3>1, <3>7
  <2> HIDE DEF G
  <2>3. \A n \in 0..w : n \in G
    BY <1>1, <2>1, <2>2, StepByStep
  <2>4. w \in 0..w /\ a + w = b
    BY <1>0, <1>1
  <2> QED
    BY <2>3, <2>4 DEF G
\* And what comes behind is the same.
<1>15. \E x \in Seq(PatchLines) : f[L] = B \o x /\ g[L] = (A \o new) \o x
  <2> DEFINE Same(p) == \E x \in Seq(PatchLines) : f[p] = B \o x /\ g[p] = (A \o new) \o x
             N == L - b
             G == {n \in 0..N : Same(b + n)}
  <2>1. N \in Nat /\ b + N = L /\ N \in 0..N /\ b + 0 = b
    BY <1>a, <1>2
  <2>2. 0 \in G
    <3>1. Same(b)
      BY <1>4, <1>11, <1>14
    <3> HIDE DEF Same
    <3> QED
      BY <2>1, <3>1
  <2>3. ASSUME NEW n \in 1..N, n - 1 \in G
        PROVE  n \in G
    <3>0. PICK k, p : k = b + (n - 1) /\ p = b + n
      OBVIOUS
    <3>1. p \in 1..Len(lines) /\ p # a /\ p - 1 = k /\ ~(p <= b) /\ n \in 0..N
      <4>1. p \in 1..L /\ p - 1 = k /\ b < p /\ n \in 0..N
        <5> HIDE DEF N
        <5> QED
          BY <1>a, <1>2, <2>1, <3>0, Positions
      <4> QED
        BY <1>a, <1>2, <4>1
    <3>2. PICK x \in Seq(PatchLines) : f[k] = B \o x /\ g[k] = (A \o new) \o x
      BY <2>3, <3>0
    <3>3. Put(s, p) = Put(t, p) /\ (Takes(s, p) <=> Takes(t, p))
      BY <1>3, <1>8, <3>1
    <3>4. Line(lines, t, p) \in Seq(PatchLines) /\ Line(lines, t, p) = Line(lines, s, p)
      <4>1. lines[p] \in PatchLines
        BY <1>a, <3>1, ElementOfSeq
      <4> QED
        BY <3>3, <4>1 DEF Line
    <3>5. PICK y \in Seq(PatchLines), z \in Seq(PatchLines) :
            y = Line(lines, t, p) /\ y = Line(lines, s, p) /\ z = Put(t, p) /\ z = Put(s, p)
      BY <1>4, <3>3, <3>4
    <3>6. f[p] = (f[k] \o y) \o z /\ g[p] = (g[k] \o y) \o z
      BY <1>a, <1>9, <1>10, <3>1, <3>5 DEF IsText
    <3>7. x \o y \in Seq(PatchLines) /\ (x \o y) \o z \in Seq(PatchLines)
      BY ConcatProperties
    <3>8. ASSUME NEW c \in Seq(PatchLines)
          PROVE  ((c \o x) \o y) \o z = c \o ((x \o y) \o z)
      <4>1. PICK u \in Seq(PatchLines) : u = x \o y
        BY ConcatProperties
      <4>2. (c \o u) \o z = c \o (u \o z)
        BY ConcatThree, Zenon
      <4>3. (c \o x) \o y = c \o (x \o y)
        BY ConcatThree, Zenon
      <4> QED
        BY <4>1, <4>2, <4>3, Zenon
    <3>9. f[p] = B \o ((x \o y) \o z)
      BY <1>4, <3>2, <3>6, <3>8, Zenon
    <3>10. g[p] = (A \o new) \o ((x \o y) \o z)
      BY <1>13, <3>2, <3>6, <3>8, Zenon
    <3>11. Same(p)
      BY <3>7, <3>9, <3>10
    <3> HIDE DEF Same
    <3> QED
      BY <3>0, <3>1, <3>11
  <2> HIDE DEF G, N
  <2>4. \A n \in 0..N : n \in G
    BY <2>1, <2>2, <2>3, StepByStep
  <2> QED
    BY <2>1, <2>4 DEF G
<1> QED
  BY <1>0, <1>9, <1>10, <1>15, Zenon DEF Differ

\* Writing the first edit last makes the text of all of them.
LEMMA WrittenLast ==
  ASSUME NEW L \in Nat, NEW lines \in TextsOf(L), NEW t \in Seq(EditsOf(L)),
         NEW e \in EditsOf(L)
  PROVE  Apart(<<e>> \o t) => Splice(e, Rewritten(lines, t)) = Rewritten(lines, <<e>> \o t)
<1>0. SUFFICES ASSUME NEW s, s = <<e>> \o t, Apart(s)
               PROVE  Splice(e, Rewritten(lines, t)) = Rewritten(lines, s)
  OBVIOUS
<1>1. PICK a \in Nat, w \in Nat, new \in Seq(PatchLines) :
        a = e.start /\ w = e.gone /\ a + w <= L /\ new = e.lines
  BY EditIs
<1>2. PICK b \in Nat : b = a + w /\ b = e.start + e.gone /\ b <= L
  BY <1>1
<1>3. /\ s \in Seq(EditsOf(L)) /\ \A i \in 1..Len(t) : t[i].start >= b
      /\ \A p : Takes(s, p) <=> (a < p /\ p <= b) \/ Takes(t, p)
  BY <1>0, <1>1, <1>2, FirstEdit
<1>4. \A p : Put(s, p) = (IF p = a THEN new ELSE <<>>) \o Put(t, p)
  <2>1. \A p : Put(s, p) = PutBy(e, p) \o Put(t, p)
    <3>1. \A p : Put(<<e>> \o t, p) = PutBy(e, p) \o Put(t, p)
      BY PutBefore, Zenon
    <3> QED
      BY <1>0, <3>1, Zenon
  <2>2. \A p : PutBy(e, p) = IF p = a THEN new ELSE <<>>
    BY <1>1 DEF PutBy
  <2> QED
    BY <2>1, <2>2, Zenon
<1>5. Leads(s, t, a, b, new)
  BY <1>3, <1>4, Zenon DEF Leads
<1>6. PICK x \in Seq(PatchLines) : Differ(x, lines, t, s, a, b, new)
  <2>2. s \in Seq(EditsOf(L)) /\ b = a + w /\ b <= L
    BY <1>2, <1>3
  <2> QED
    BY <1>5, <2>2, TextsDiffer
<1>7. Splice(e, SubSeq(lines, 1, e.start + e.gone) \o x) = (SubSeq(lines, 1, e.start) \o e.lines) \o x
  BY SpliceAt DEF TextsOf
<1> QED
  BY <1>1, <1>2, <1>6, <1>7, Zenon DEF Differ

\* Written from the last to the first, edits that are apart make the text.
LEMMA SplicedIsRewritten ==
  ASSUME NEW L \in Nat, NEW lines \in TextsOf(L)
  PROVE  \A s \in Seq(EditsOf(L)) :
           /\ Spliced(lines, s) \in Seq(PatchLines)
           /\ Apart(s) => Spliced(lines, s) = Rewritten(lines, s)
<1> DEFINE H == {s \in Seq(EditsOf(L)) :
                   /\ Spliced(lines, s) \in Seq(PatchLines)
                   /\ Apart(s) => Spliced(lines, s) = Rewritten(lines, s)}
<1>1. lines \in Seq(PatchLines)
  BY DEF TextsOf
<1>2. <<>> \in H
  <2>1. Spliced(lines, <<>>) = lines /\ Rewritten(lines, <<>>) = lines
    BY <1>1, SplicedEmpty, RewrittenEmpty, Zenon
  <2>2. <<>> \in Seq(EditsOf(L))
    OBVIOUS
  <2> QED
    BY <1>1, <2>1, <2>2, Zenon
<1>3. ASSUME NEW s \in Seq(EditsOf(L)), s \in H, NEW e \in EditsOf(L)
      PROVE  <<e>> \o s \in H
  <2>1. PICK r : r = <<e>> \o s
    OBVIOUS
  <2>2. Spliced(lines, s) \in Seq(PatchLines) /\ (Apart(s) => Spliced(lines, s) = Rewritten(lines, s))
    BY <1>3
  <2>3. r \in Seq(EditsOf(L))
    BY <2>1, ConcatProperties
  <2>4. Spliced(lines, r) = Splice(e, Spliced(lines, s))
    BY <1>1, <2>1, SplicedFront, Zenon
  <2>5. Spliced(lines, r) \in Seq(PatchLines)
    BY <2>2, <2>4, SpliceIs
  <2>6. ASSUME Apart(r)
        PROVE  Spliced(lines, r) = Rewritten(lines, r)
    <3>1. Apart(s)
      BY <2>1, <2>6, FirstEdit, Zenon
    <3>2. Splice(e, Rewritten(lines, s)) = Rewritten(lines, r)
      BY <2>1, <2>6, WrittenLast, Zenon
    <3> QED
      BY <2>2, <2>4, <3>1, <3>2
  <2>7. r \in H
    BY <2>3, <2>5, <2>6
  <2> HIDE DEF H
  <2> QED
    BY <2>1, <2>7
<1> HIDE DEF H
<1>4. \A s \in Seq(EditsOf(L)) : s \in H
  BY <1>2, <1>3, ListInductionFront
<1> QED
  BY <1>4 DEF H

\* A text depends on what is put and what is taken only.
LEMMA SameText ==
  ASSUME NEW L \in Nat, NEW lines \in TextsOf(L), NEW s \in Seq(EditsOf(L)), NEW t \in Seq(EditsOf(L)),
         \A p : Put(s, p) = Put(t, p), \A p : Takes(s, p) <=> Takes(t, p)
  PROVE  Rewritten(lines, s) = Rewritten(lines, t)
<1>1. lines \in Seq(PatchLines) /\ Len(lines) \in Nat
  BY LenProperties DEF TextsOf
<1>2. PICK f : IsText(f, lines, s) /\ Rewritten(lines, s) = f[Len(lines)]
  BY <1>1, RewrittenIs
<1>3. PICK g : IsText(g, lines, t) /\ Rewritten(lines, t) = g[Len(lines)]
  BY <1>1, RewrittenIs
<1> DEFINE N == Len(lines)
           G == {p \in 0..N : f[p] = g[p]}
<1>4. 0 \in G
  BY <1>1, <1>2, <1>3 DEF IsText
<1>5. ASSUME NEW p \in 1..N, p - 1 \in G
      PROVE  p \in G
  <2>1. f[p] = (f[p - 1] \o Line(lines, s, p)) \o Put(s, p)
    BY <1>2 DEF IsText
  <2>2. g[p] = (g[p - 1] \o Line(lines, t, p)) \o Put(t, p)
    BY <1>3 DEF IsText
  <2>3. Line(lines, s, p) = Line(lines, t, p) /\ Put(s, p) = Put(t, p)
    BY DEF Line
  <2>4. f[p - 1] = g[p - 1]
    BY <1>5
  <2>5. f[p] = g[p]
    BY <2>1, <2>2, <2>3, <2>4, Zenon
  <2> QED
    BY <1>1, <2>5
<1> HIDE DEF N, G
<1>6. \A p \in 0..N : p \in G
  BY <1>1, <1>4, <1>5, StepByStep DEF N
<1>7. N \in 0..N
  BY <1>1 DEF N
<1> QED
  BY <1>2, <1>3, <1>6, <1>7 DEF G, N

\* Applying edits makes a text; where they are separate, the one they stand for.
LEMMA AppliedIsRewritten ==
  ASSUME NEW L \in Nat, NEW lines \in TextsOf(L), NEW edits \in Seq(EditsOf(L))
  PROVE  /\ ApplyEdits(lines, edits) \in Seq(PatchLines)
         /\ Separate(edits) => ApplyEdits(lines, edits) = Rewritten(lines, edits)
<1>1. PICK s : s = SortEdits(edits)
  OBVIOUS
<1>2. Sorted(s, edits, Len(edits), L)
  BY <1>1, SortsWell
<1>3. s \in Seq(EditsOf(L)) /\ (Separate(edits) => Apart(s))
  BY <1>2 DEF Sorted
<1>4. ApplyEdits(lines, edits) = Spliced(lines, s)
  BY <1>1 DEF ApplyEdits
<1>5. \A p : Put(s, p) = Put(edits, p)
  <2>1. SubSeq(edits, 1, Len(edits)) = edits
    BY SubSeqFull
  <2>2. \A p : Put(s, p) = Put(SubSeq(edits, 1, Len(edits)), p)
    BY <1>2, Zenon DEF Sorted
  <2> QED
    BY <2>1, <2>2, Zenon
<1>6. \A p : Takes(s, p) <=> Takes(edits, p)
  <2>1. \A x : In(x, s) <=> In(x, edits)
    BY <1>2 DEF Sorted, In
  <2>2. \A p : Takes(s, p) <=> \E x : In(x, s) /\ x.start < p /\ p <= x.start + x.gone
    BY Zenon DEF Takes, In
  <2>3. \A p : Takes(edits, p) <=> \E x : In(x, edits) /\ x.start < p /\ p <= x.start + x.gone
    BY Zenon DEF Takes, In
  <2> QED
    BY <2>1, <2>2, <2>3, Zenon
<1>7. Rewritten(lines, s) = Rewritten(lines, edits)
  BY <1>3, <1>5, <1>6, SameText
<1>8. Spliced(lines, s) \in Seq(PatchLines) /\ (Apart(s) => Spliced(lines, s) = Rewritten(lines, s))
  BY <1>3, SplicedIsRewritten
<1> QED
  BY <1>3, <1>4, <1>7, <1>8

\* The text of an update, whose chunks are placed.
LEMMA DerivedIs ==
  ASSUME NEW lines \in Seq(PatchLines), NEW chunks \in Seq(PatchChunk), PlaceChunks(lines, chunks).ok
  PROVE  LET edits == PlaceChunks(lines, chunks).edits IN
         /\ Derived(lines, chunks) \in Seq(PatchLines)
         /\ Disjoint(edits) => Derived(lines, chunks) = WithoutEnd(Rewritten(lines, edits))
<1>1. PICK L \in Nat : L = Len(lines)
  BY LenProperties
<1>2. PICK edits : edits = PlaceChunks(lines, chunks).edits
  OBVIOUS
<1>3. edits \in Seq(EditsOf(L)) /\ Behind(edits, chunks, L)
  BY <1>1, <1>2, ChunksAreInOrder
<1>4. lines \in TextsOf(L)
  BY <1>1 DEF TextsOf
<1>5. Disjoint(edits) => Separate(edits)
  BY <1>3, DisjointIsSeparate
<1>6. /\ ApplyEdits(lines, edits) \in Seq(PatchLines)
      /\ Separate(edits) => ApplyEdits(lines, edits) = Rewritten(lines, edits)
  BY <1>3, <1>4, AppliedIsRewritten
<1>7. Derived(lines, chunks) = WithoutEnd(ApplyEdits(lines, edits))
  BY <1>2 DEF Derived
<1>8. Derived(lines, chunks) \in Seq(PatchLines)
  BY <1>6, <1>7, FrontIsSeq DEF WithoutEnd, EndsBlank
<1> QED
  BY <1>2, <1>5, <1>6, <1>7, <1>8
------------------------------------------------------------------------------
\* The files after n operations.

\* What After is for operations ops on files, up to n of them.
Follows(f, files, ops, n) ==
  \A i \in 0..n : f[i] = IF i = 0 THEN files ELSE Effect(f[i - 1], ops[i])

\* There is one for every n.
LEMMA FollowersExist ==
  ASSUME NEW files, NEW ops
  PROVE  \A n \in Nat : \E f : Follows(f, files, ops, n)
<1> DEFINE S == {n \in Nat : \E f : Follows(f, files, ops, n)}
<1>1. 0 \in S
  <2>1. Follows([i \in Nat |-> files], files, ops, 0)
    BY DEF Follows
  <2> QED
    BY <2>1
<1>2. ASSUME NEW n \in S
      PROVE  n + 1 \in S
  <2>1. PICK f : Follows(f, files, ops, n)
    OBVIOUS
  <2> DEFINE g == [i \in Nat |-> IF i <= n THEN f[i] ELSE Effect(f[n], ops[n + 1])]
  <2>2. \A i \in 0..n : g[i] = f[i]
    OBVIOUS
  <2>3. g[n + 1] = Effect(g[n], ops[n + 1])
    OBVIOUS
  <2> HIDE DEF g
  <2>4. ASSUME NEW i \in 0..(n + 1)
        PROVE  g[i] = IF i = 0 THEN files ELSE Effect(g[i - 1], ops[i])
    <3>1. CASE i = n + 1
      BY <2>3, <3>1
    <3>2. CASE i \in 0..n
      BY <2>1, <2>2, <3>2 DEF Follows
    <3> QED
      BY <3>1, <3>2
  <2>5. Follows(g, files, ops, n + 1)
    BY <2>4 DEF Follows
  <2> QED
    BY <2>5
<1>3. S = Nat
  <2> HIDE DEF S
  <2>1. S \subseteq Nat
    BY DEF S
  <2> QED
    BY <1>1, <1>2, <2>1, SetInduction
<1> QED
  BY <1>3

\* And they agree.
LEMMA FollowersAgree ==
  ASSUME NEW files, NEW ops, NEW f, NEW g, NEW m \in Nat,
         Follows(f, files, ops, m), Follows(g, files, ops, m)
  PROVE  \A i \in 0..m : f[i] = g[i]
<1> DEFINE S == {n \in Nat : n <= m => f[n] = g[n]}
<1>1. 0 \in S
  BY DEF Follows
<1>2. ASSUME NEW n \in S
      PROVE  n + 1 \in S
  BY DEF Follows
<1>3. S = Nat
  <2> HIDE DEF S
  <2>1. S \subseteq Nat
    BY DEF S
  <2> QED
    BY <1>1, <1>2, <2>1, SetInduction
<1> QED
  BY <1>3

\* The recursive definition has a solution, After.
LEMMA AfterIsDefined ==
  /\ After[0] = patchInput.files
  /\ \A n \in Nat : After[n + 1] = Effect(After[n], patchInput.ops[n + 1])
<1>0. PICK files, ops : files = patchInput.files /\ ops = patchInput.ops
  OBVIOUS
<1> DEFINE f == [n \in Nat |-> (CHOOSE g : Follows(g, files, ops, n))[n]]
<1>1. \A n \in Nat : Follows(CHOOSE g : Follows(g, files, ops, n), files, ops, n)
  BY FollowersExist
<1>2. ASSUME NEW n \in Nat
      PROVE  f[n] = IF n = 0 THEN files ELSE Effect(f[n - 1], ops[n])
  <2>1. PICK g : g = CHOOSE h : Follows(h, files, ops, n)
    OBVIOUS
  <2>2. Follows(g, files, ops, n) /\ f[n] = g[n]
    BY <1>1, <2>1
  <2>3. CASE n = 0
    BY <2>2, <2>3 DEF Follows
  <2>4. CASE n # 0
    <3>1. n - 1 \in Nat /\ n - 1 \in 0..(n - 1) /\ n \in 0..n
      BY <2>4
    <3>2. PICK h : h = CHOOSE e : Follows(e, files, ops, n - 1)
      OBVIOUS
    <3>3. Follows(h, files, ops, n - 1) /\ f[n - 1] = h[n - 1]
      BY <1>1, <3>1, <3>2
    <3>4. Follows(g, files, ops, n - 1)
      BY <2>2 DEF Follows
    <3>5. h[n - 1] = g[n - 1]
      BY <3>1, <3>3, <3>4, FollowersAgree
    <3> QED
      BY <2>2, <2>4, <3>1, <3>3, <3>5 DEF Follows
  <2> QED
    BY <2>3, <2>4
<1>3. f = [n \in Nat |-> IF n = 0 THEN files ELSE Effect(f[n - 1], ops[n])]
  <2>1. f = [n \in Nat |-> f[n]]
    OBVIOUS
  <2> HIDE DEF f
  <2> QED
    BY <1>2, <2>1
<1>4. \E e : e = [n \in Nat |-> IF n = 0 THEN patchInput.files ELSE Effect(e[n - 1], patchInput.ops[n])]
  <2> HIDE DEF f
  <2> QED
    BY <1>0, <1>3
<1>5. After = [n \in Nat |-> IF n = 0 THEN patchInput.files ELSE Effect(After[n - 1], patchInput.ops[n])]
  BY <1>4 DEF After
<1>6. PICK a : a = After
  OBVIOUS
<1>7. \A n \in Nat : a[n] = IF n = 0 THEN patchInput.files ELSE Effect(a[n - 1], patchInput.ops[n])
  BY <1>5, <1>6
<1>8. a[0] = patchInput.files
  BY <1>7
<1>9. ASSUME NEW n \in Nat
      PROVE  a[n + 1] = Effect(a[n], patchInput.ops[n + 1])
  <2>1. n + 1 \in Nat /\ n + 1 # 0 /\ (n + 1) - 1 = n
    OBVIOUS
  <2> QED
    BY <1>7, <2>1
<1> QED
  BY <1>6, <1>8, <1>9
\* Before the first operation the files are as they were.
LEMMA AfterNone == After[0] = patchInput.files
BY AfterIsDefined
------------------------------------------------------------------------------
\* Steps of a patch.

\* Reading the patch, the files are as given.
LEMMA PatchReads ==
  ASSUME PatchAssumption, ReadPatchInput, PatchIInv
  PROVE  PatchIInv'
<1>1. PICK input \in PatchInputs : patchInput' = input /\ patchFiles' = input.files
  BY DEF ReadPatchInput
<1>2. patchStage' = "op" /\ patchDone' = 0
  BY DEF ReadPatchInput, PatchIInv, PatchTypeOK
<1>3. PatchIsRead'
  BY <1>1, <1>2 DEF PatchIsRead, PatchAssumption
<1>4. DOMAIN input.files = PatchPaths /\ input # Absent /\ Len(input.ops) \in Nat
  BY <1>1 DEF PatchAssumption
<1>5. PatchTypeOK'
  BY <1>1, <1>2, <1>4 DEF PatchTypeOK
<1>6. (After[0] = patchInput.files)'
  BY AfterNone, PTL
<1>7. patchFiles' = After[patchDone]'
  BY <1>1, <1>2, <1>6
<1> QED
  BY <1>2, <1>3, <1>5, <1>7 DEF PatchIInv, FilesAreDone

\* Where a patch works it has an operation to do.
LEMMA Works ==
  ASSUME PatchIInv, Working
  PROVE  /\ patchInput' = patchInput /\ patchInput \in PatchInputs /\ patchInput # Absent
         /\ patchDone \in Nat /\ patchDone < Len(patchInput.ops) /\ Len(patchInput.ops) \in Nat
         /\ DOMAIN patchFiles = PatchPaths /\ patchFiles = [p \in PatchPaths |-> patchFiles[p]]
         /\ After' = After
         /\ patchStage = "op" => patchFiles = After[patchDone]
         /\ patchStage = "copied" => Moves(operation)
<1>1. patchInput' = patchInput /\ patchStage # "new" /\ patchDone < Len(patchInput.ops)
  BY DEF Working
<1>2. After' = After
  BY <1>1 DEF After
<1>3. patchInput \in PatchInputs /\ patchInput # Absent /\ Len(patchInput.ops) \in Nat
      /\ patchFiles = [p \in PatchPaths |-> patchFiles[p]] /\ DOMAIN patchFiles = PatchPaths
  BY <1>1 DEF PatchIInv, PatchTypeOK, PatchIsRead
<1>4. patchDone \in Nat
  BY <1>3 DEF PatchIInv, PatchTypeOK
<1> QED
  BY <1>1, <1>2, <1>3, <1>4 DEF PatchIInv, FilesAreDone

\* An operation that completes with its effect on the files.
LEMMA CompletesWell ==
  ASSUME PatchIInv, Working, Complete, patchFiles' = Effect(After[patchDone], operation),
         patchFiles' = [p \in PatchPaths |-> patchFiles'[p]]
  PROVE  PatchIInv'
<1>1. patchDone' = patchDone + 1 /\ patchStage' = "op"
  BY DEF Complete
<1>2. PatchIsRead'
  BY <1>1, Works DEF PatchIsRead
<1>3. DOMAIN patchFiles' = PatchPaths
  OBVIOUS
<1>4. PatchTypeOK'
  BY <1>1, <1>3, Works DEF PatchTypeOK
<1>5. After[patchDone + 1] = Effect(After[patchDone], operation)
  BY AfterIsDefined, Works DEF operation
<1>6. patchFiles' = After'[patchDone']
  BY <1>1, <1>5, Works
<1> QED
  BY <1>1, <1>2, <1>4, <1>6 DEF PatchIInv, FilesAreDone

\* One that fails leaves all files it was not making.
LEMMA FailsWell ==
  ASSUME PatchIInv, Working, PatchFails, patchFiles' = [p \in PatchPaths |-> patchFiles'[p]],
         \A p \in PatchPaths : patchFiles'[p] # After[patchDone][p] => p \in InTheMaking
  PROVE  PatchIInv'
<1>1. patchDone' = patchDone /\ patchStage' = "failed"
  BY DEF PatchFails
<1>2. PatchIsRead'
  BY <1>1, Works DEF PatchIsRead
<1>3. DOMAIN patchFiles' = PatchPaths
  OBVIOUS
<1>4. PatchTypeOK'
  BY <1>1, <1>3, Works DEF PatchTypeOK
<1>5. InTheMaking' = InTheMaking
  BY <1>1, Works DEF InTheMaking, operation, Moves
<1>6. OthersAreDone'
  BY <1>1, <1>5, Works DEF OthersAreDone
<1> QED
  BY <1>1, <1>2, <1>4, <1>6 DEF PatchIInv, FilesAreDone

\* A write that fails touches the file it was writing only.
LEMMA WriteFailsWell ==
  ASSUME PatchIInv, Working, patchStage = "op", NEW p, NEW lines, WriteFails(p, lines),
         p \in InTheMaking
  PROVE  PatchIInv'
<1>1. \A q \in PatchPaths : q # p => patchFiles'[q] = patchFiles[q]
  BY Works DEF WriteFails
<1>2. patchFiles' = [q \in PatchPaths |-> patchFiles'[q]]
  BY Works DEF WriteFails
<1> QED
  BY <1>1, <1>2, Works, FailsWell DEF WriteFails

\* What a move copies is what its effect has in the new path.
LEMMA MoveEffect ==
  ASSUME NEW files, NEW o, o.kind = "update", Moves(o)
  PROVE  Effect(files, o) =
           [files EXCEPT ![o.path] = Absent, ![o.to] = Derived(files[o.path], o.chunks)]
BY DEF Effect

\* Each step of a patch keeps the invariant.
LEMMA PatchKeeps ==
  ASSUME PatchAssumption, PatchIInv, PatchNext
  PROVE  PatchIInv'
<1> DEFINE o == operation
<1>1. CASE ReadPatchInput
  BY <1>1, PatchReads
<1>2. CASE ApplyAdd
  <2>1. Working /\ o.kind = "add" /\ patchStage = "op" /\ ~Moves(o)
    BY <1>2, Works DEF ApplyAdd, Working, Moves
  <2>2. CASE patchFiles' = [patchFiles EXCEPT ![o.path] = o.lines] /\ Complete
    <3>1. patchFiles' = Effect(After[patchDone], o)
      BY <2>1, <2>2, Works DEF Effect
    <3>2. patchFiles' = [p \in PatchPaths |-> patchFiles'[p]]
      BY <2>1, <2>2, Works
    <3> QED
      BY <2>1, <2>2, <3>1, <3>2, CompletesWell
  <2>3. CASE WriteFails(o.path, o.lines)
    <3>1. o.path \in InTheMaking
      BY <2>1, Works DEF InTheMaking
    <3> QED
      BY <2>1, <2>3, <3>1, WriteFailsWell
  <2> QED
    BY <1>2, <2>2, <2>3 DEF ApplyAdd
<1>3. ASSUME Working, UNCHANGED patchFiles, PatchFails,
             patchStage = "copied" \/ patchStage = "op"
      PROVE  PatchIInv'
  <2>1. CASE patchStage = "op"
    BY <1>3, <2>1, Works, FailsWell
  <2>2. CASE patchStage = "copied"
    <3>1. /\ Moves(o)
          /\ patchFiles = [After[patchDone] EXCEPT ![o.to] = Derived(After[patchDone][o.path], o.chunks)]
      BY <2>2 DEF PatchIInv, FilesAreDone
    <3>2. o.to \in InTheMaking
      BY <1>3, <3>1, Works DEF InTheMaking, Moves
    <3>3. DOMAIN After[patchDone] = PatchPaths
      BY <1>3, <3>1, Works
    <3>4. \A p \in PatchPaths : p # o.to => patchFiles[p] = After[patchDone][p]
      BY <3>1, <3>3
    <3> QED
      BY <1>3, <3>2, <3>4, Works, FailsWell
  <2> QED
    BY <1>3, <2>1, <2>2
<1>4. CASE ApplyDelete
  <2>1. Working /\ o.kind = "delete" /\ patchStage = "op"
    BY <1>4, Works DEF ApplyDelete, Working, Moves
  <2>2. CASE Removed(o.path) /\ Complete
    <3>1. patchFiles' = Effect(After[patchDone], o)
      BY <2>1, <2>2, Works DEF Effect, Removed
    <3>2. patchFiles' = [p \in PatchPaths |-> patchFiles'[p]]
      BY <2>1, <2>2, Works DEF Removed
    <3> QED
      BY <2>1, <2>2, <3>1, <3>2, CompletesWell
  <2> QED
    BY <1>3, <1>4, <2>1, <2>2 DEF ApplyDelete
<1>5. CASE UpdateFails
  BY <1>3, <1>5 DEF UpdateFails, Updates
<1>6. CASE ApplyUpdate
  <2>1. Working /\ o.kind = "update" /\ patchStage = "op" /\ ~Moves(o)
    BY <1>6 DEF ApplyUpdate, Updates
  <2>2. CASE patchFiles' = [patchFiles EXCEPT ![o.path] = NewContent] /\ Complete
    <3>1. patchFiles' = Effect(After[patchDone], o)
      BY <2>1, <2>2, Works DEF Effect, NewContent
    <3>2. patchFiles' = [p \in PatchPaths |-> patchFiles'[p]]
      BY <2>1, <2>2, Works
    <3> QED
      BY <2>1, <2>2, <3>1, <3>2, CompletesWell
  <2>3. CASE WriteFails(o.path, NewContent)
    <3>1. o.path \in InTheMaking
      BY <2>1, Works DEF InTheMaking
    <3> QED
      BY <2>1, <2>3, <3>1, WriteFailsWell
  <2> QED
    BY <1>6, <2>2, <2>3 DEF ApplyUpdate
<1>7. CASE CopyToNewPath
  <2>1. Working /\ o.kind = "update" /\ patchStage = "op" /\ Moves(o) /\ Exists(o.path)
    BY <1>7 DEF CopyToNewPath, Updates, CanDerive
  <2>2. CASE /\ patchFiles' = [patchFiles EXCEPT ![o.to] = NewContent]
             /\ patchStage' = "copied" /\ UNCHANGED patchDone
    <3>1. operation' = operation
      BY <2>1, <2>2, Works DEF operation
    <3>2. patchFiles' = [After[patchDone] EXCEPT ![o.to] = Derived(After[patchDone][o.path], o.chunks)]
      BY <2>1, <2>2, Works DEF NewContent
    <3>3. FilesAreDone'
      BY <2>1, <2>2, <3>1, <3>2, Works DEF FilesAreDone, Moves
    <3>4. /\ patchFiles' = [p \in PatchPaths |-> patchFiles'[p]] /\ DOMAIN patchFiles' = PatchPaths
      BY <2>1, <2>2, Works
    <3>5. PatchIsRead'
      BY <2>1, <2>2, <3>4, Works DEF PatchIsRead
    <3>6. patchFiles'[o.path] = patchFiles[o.path]
      BY <2>1, <2>2, Works DEF Moves
    <3>7. PatchTypeOK'
      <4>1. Moves(operation)' /\ Exists(operation.path)'
        BY <2>1, <3>1, <3>6 DEF Moves, Exists
      <4> QED
        BY <2>1, <2>2, <3>4, <4>1, Works DEF PatchTypeOK
    <3> QED
      BY <3>3, <3>5, <3>7 DEF PatchIInv
  <2>3. CASE WriteFails(o.to, NewContent)
    <3>1. o.to \in InTheMaking
      BY <2>1, Works DEF InTheMaking
    <3> QED
      BY <2>1, <2>3, <3>1, WriteFailsWell
  <2> QED
    BY <1>7, <2>2, <2>3 DEF CopyToNewPath
<1>8. CASE RemoveOriginal
  <2>1. Working /\ patchStage = "copied"
    BY <1>8 DEF RemoveOriginal
  <2>2. /\ Moves(o) /\ o.kind = "update" /\ o.to # o.path
        /\ patchFiles = [After[patchDone] EXCEPT ![o.to] = Derived(After[patchDone][o.path], o.chunks)]
    BY <2>1 DEF PatchIInv, FilesAreDone, Moves
  <2>3. CASE Removed(o.path) /\ Complete
    <3>1. patchFiles' = [patchFiles EXCEPT ![o.path] = Absent]
      BY <2>3 DEF Removed
    <3>2. patchFiles' = Effect(After[patchDone], o)
      <4>1. patchFiles' = [After[patchDone] EXCEPT ![o.path] = Absent,
                             ![o.to] = Derived(After[patchDone][o.path], o.chunks)]
        BY <2>2, <3>1
      <4> QED
        BY <2>2, <4>1, MoveEffect
    <3>3. patchFiles' = [p \in PatchPaths |-> patchFiles'[p]]
      BY <2>1, <3>1, Works
    <3> QED
      BY <2>1, <2>3, <3>2, <3>3, CompletesWell
  <2> QED
    BY <1>3, <1>8, <2>1, <2>3 DEF RemoveOriginal
<1>9. CASE Succeed
  <2>1. /\ patchStage = "op" /\ patchDone = Len(patchInput.ops) /\ patchStage' = "success"
        /\ UNCHANGED <<patchInput, patchFiles, patchDone>>
    BY <1>9 DEF Succeed
  <2>2. After' = After
    BY <2>1 DEF After
  <2>3. FilesAreDone'
    BY <2>1, <2>2 DEF PatchIInv, FilesAreDone
  <2>4. PatchIsRead' /\ PatchTypeOK'
    BY <2>1 DEF PatchIInv, PatchIsRead, PatchTypeOK
  <2> QED
    BY <2>3, <2>4 DEF PatchIInv
<1> QED
  BY <1>1, <1>2, <1>4, <1>5, <1>6, <1>7, <1>8, <1>9 DEF PatchNext

\* So does a stutter.
LEMMA PatchStep ==
  ASSUME PatchAssumption, PatchIInv, [PatchNext]_patchVars
  PROVE  PatchIInv'
<1>1. CASE PatchNext
  BY <1>1, PatchKeeps
<1>2. CASE UNCHANGED patchVars
  <2> USE <1>2 DEF patchVars
  <2>1. After' = After /\ operation' = operation
    BY DEF After, operation
  <2>2. InTheMaking' = InTheMaking
    BY <2>1 DEF InTheMaking, Moves
  <2>3. FilesAreDone'
    BY <2>1, <2>2 DEF PatchIInv, FilesAreDone, OthersAreDone, Moves
  <2>4. PatchIsRead' /\ PatchTypeOK'
    BY <2>1 DEF PatchIInv, PatchIsRead, PatchTypeOK, Exists, Moves
  <2> QED
    BY <2>3, <2>4 DEF PatchIInv
<1> QED
  BY <1>1, <1>2
------------------------------------------------------------------------------
\* The files are texts.

\* An operation makes texts of texts.
LEMMA EffectIsText ==
  ASSUME NEW files \in [PatchPaths -> PatchContent], NEW o, IsOperation(o),
         o.kind = "update" => IsPlaced(files, o)
  PROVE  Effect(files, o) \in [PatchPaths -> PatchContent]
<1>1. o.path \in PatchPaths /\ files[o.path] \in PatchContent
  BY DEF IsOperation
<1>2. CASE o.kind = "add"
  <2>1. Effect(files, o) = [files EXCEPT ![o.path] = o.lines]
    BY <1>2 DEF Effect
  <2>2. o.lines \in PatchContent
    BY <1>2 DEF IsOperation, PatchContent
  <2> QED
    BY <1>1, <2>1, <2>2
<1>3. CASE o.kind = "delete"
  <2>1. Effect(files, o) = [files EXCEPT ![o.path] = Absent]
    BY <1>3 DEF Effect
  <2>2. Absent \in PatchContent
    BY DEF PatchContent
  <2> QED
    BY <1>1, <2>1, <2>2
<1>4. CASE o.kind = "update"
  <2>1. PICK new : new = Derived(files[o.path], o.chunks)
    OBVIOUS
  <2>2. files[o.path] \in Seq(PatchLines) /\ o.chunks \in Seq(PatchChunk)
        /\ PlaceChunks(files[o.path], o.chunks).ok
    BY <1>1, <1>4 DEF IsOperation, IsPlaced, PatchContent
  <2>3. new \in PatchContent /\ Absent \in PatchContent
    BY <2>1, <2>2, DerivedIs DEF PatchContent
  <2>4. Effect(files, o) = IF Moves(o) THEN [files EXCEPT ![o.path] = Absent, ![o.to] = new]
                           ELSE [files EXCEPT ![o.path] = new]
    BY <1>4, <2>1 DEF Effect
  <2>5. [files EXCEPT ![o.path] = Absent, ![o.to] = new] \in [PatchPaths -> PatchContent]
    BY <2>3
  <2>6. [files EXCEPT ![o.path] = new] \in [PatchPaths -> PatchContent]
    BY <2>3
  <2> QED
    BY <2>4, <2>5, <2>6
<1> QED
  BY <1>2, <1>3, <1>4 DEF IsOperation

\* An operation that completes.
LEMMA CompletedTexts ==
  ASSUME PatchAssumption, TextIInv, Working, Complete,
         operation.kind = "update" => IsPlaced(After[patchDone], operation)
  PROVE  FilesAreTexts'
<1>1. /\ patchDone' = patchDone + 1 /\ patchStage' = "op" /\ patchInput' = patchInput /\ After' = After
      /\ patchDone \in Nat /\ patchDone < Len(patchInput.ops) /\ Len(patchInput.ops) \in Nat
      /\ patchInput \in PatchInputs
  BY Works DEF Complete, TextIInv
<1>2. PICK n, files, o : n = patchDone /\ files = After[n] /\ o = operation
  OBVIOUS
<1>3. n \in Nat /\ patchDone' = n + 1 /\ (n + 1) - 1 = n /\ n + 1 \in 1..Len(patchInput.ops)
  BY <1>1, <1>2
<1>4. o = patchInput.ops[n + 1] /\ IsOperation(o)
  BY <1>1, <1>2, <1>3 DEF operation, PatchAssumption
<1>5. files \in [PatchPaths -> PatchContent]
  BY <1>2 DEF TextIInv, FilesAreTexts, Working
<1>6. After[n + 1] = Effect(files, o)
  BY <1>2, <1>3, <1>4, AfterIsDefined
<1>7. After[n + 1] \in [PatchPaths -> PatchContent]
  BY <1>2, <1>4, <1>5, <1>6, EffectIsText
<1>8. o.kind = "update" => IsPlaced(files, o)
  BY <1>2
<1>9. /\ After'[n + 1] \in [PatchPaths -> PatchContent]
      /\ patchInput'.ops[n + 1].kind = "update" =>
           After'[n] \in [PatchPaths -> PatchContent] /\ IsPlaced(After'[n], patchInput'.ops[n + 1])
  BY <1>1, <1>2, <1>4, <1>5, <1>7, <1>8
<1> QED
  BY <1>1, <1>3, <1>9 DEF FilesAreTexts, IsPlaced

\* And each step keeps them.
LEMMA TextsKeep ==
  ASSUME PatchAssumption, TextIInv, PatchNext
  PROVE  FilesAreTexts'
<1> DEFINE o == operation
<1>0. PatchIInv
  BY DEF TextIInv
<1>1. CASE ReadPatchInput
  <2>1. PICK input \in PatchInputs : patchInput' = input
    BY <1>1 DEF ReadPatchInput
  <2>2. patchStage' = "op" /\ patchDone' = 0
    BY <1>0, <1>1 DEF ReadPatchInput, PatchIInv, PatchTypeOK
  <2>3. (After[0] = patchInput.files)'
    BY AfterNone, PTL
  <2>4. After'[0] \in [PatchPaths -> PatchContent]
    BY <2>1, <2>3 DEF PatchAssumption
  <2> QED
    BY <2>2, <2>4 DEF FilesAreTexts
<1>2. ASSUME PatchFails
      PROVE  FilesAreTexts'
  BY <1>2 DEF PatchFails, FilesAreTexts
<1>3. CASE ApplyAdd
  BY <1>2, <1>3, CompletedTexts DEF ApplyAdd, WriteFails
<1>4. CASE ApplyDelete
  BY <1>2, <1>4, CompletedTexts DEF ApplyDelete
<1>5. CASE UpdateFails
  BY <1>2, <1>5 DEF UpdateFails
<1>6. ASSUME Updates, CanDerive
      PROVE  IsPlaced(After[patchDone], o) /\ patchStage = "op" /\ After' = After /\ patchInput' = patchInput
  BY <1>0, <1>6, Works DEF Updates, CanDerive, Exists, IsPlaced
<1>7. CASE ApplyUpdate
  BY <1>2, <1>6, <1>7, CompletedTexts DEF ApplyUpdate, WriteFails, Updates
<1>8. CASE CopyToNewPath
  <2>1. CASE patchStage' = "copied" /\ UNCHANGED patchDone
    <3>1. IsPlaced(After[patchDone], o) /\ patchStage = "op" /\ After' = After /\ patchInput' = patchInput
      BY <1>6, <1>8 DEF CopyToNewPath
    <3>2. operation' = operation /\ After[patchDone] \in [PatchPaths -> PatchContent]
      BY <2>1, <3>1 DEF operation, TextIInv, FilesAreTexts
    <3>3. After'[patchDone'] = After[patchDone]
      BY <2>1, <3>1
    <3> QED
      BY <2>1, <3>1, <3>2, <3>3 DEF FilesAreTexts, IsPlaced
  <2> QED
    BY <1>2, <1>8, <2>1 DEF CopyToNewPath, WriteFails
<1>9. CASE RemoveOriginal
  <2>1. IsPlaced(After[patchDone], o)
    BY <1>9 DEF RemoveOriginal, TextIInv, FilesAreTexts
  <2> QED
    BY <1>2, <1>9, <2>1, CompletedTexts DEF RemoveOriginal
<1>10. CASE Succeed
  BY <1>10 DEF Succeed, FilesAreTexts
<1> QED
  BY <1>1, <1>3, <1>4, <1>5, <1>7, <1>8, <1>9, <1>10 DEF PatchNext

\* The invariant with the texts is inductive.
LEMMA TextStep ==
  ASSUME PatchAssumption, TextIInv, [PatchNext]_patchVars
  PROVE  TextIInv'
<1>1. PatchIInv'
  BY PatchStep DEF TextIInv
<1>2. CASE PatchNext
  BY <1>1, <1>2, TextsKeep DEF TextIInv
<1>3. CASE UNCHANGED patchVars
  <2> USE <1>3 DEF patchVars
  <2>1. After' = After /\ operation' = operation
    BY DEF After, operation
  <2>2. FilesAreTexts'
    BY <2>1 DEF TextIInv, FilesAreTexts, IsPlaced
  <2> QED
    BY <1>1, <2>2 DEF TextIInv
<1> QED
  BY <1>2, <1>3
------------------------------------------------------------------------------
\* Theorems.

\* While a patch is applied the inductive invariant holds.
THEOREM PatchInvariant == PatchSpec => []PatchIInv
<1>1. PatchInit => PatchIInv
  BY DEF PatchInit, PatchIInv, PatchTypeOK, PatchIsRead, FilesAreDone
<1>2. PatchIInv /\ [PatchNext]_patchVars => PatchIInv'
  BY PatchAssumption, PatchStep
<1> QED
  BY <1>1, <1>2, PTL DEF PatchSpec

\* The state has its types, and within a move both paths have a file (patch.go).
THEOREM PatchTypeCorrect == PatchSpec => []PatchTypeOK
<1>1. PatchIInv => PatchTypeOK
  BY DEF PatchIInv
<1> QED
  BY <1>1, PatchInvariant, PTL

\* Whenever an operation fails or the tool is killed, the files are as after some of
\* the first operations, but for the one file that was being written (Applier.Apply).
THEOREM PatchesEndBetweenOperations == PatchSpec => []PatchesAreAppliedInPart
<1>1. PatchIInv => PatchesAreAppliedInPart
  <2> SUFFICES ASSUME PatchIInv, patchStage # "new"
               PROVE  PatchesAreAppliedInPart
    BY DEF PatchesAreAppliedInPart
  <2>1. CASE patchStage \in {"op", "success"}
    BY <2>1 DEF PatchIInv, FilesAreDone, PatchesAreAppliedInPart
  <2>2. CASE patchStage = "failed"
    BY <2>2 DEF PatchIInv, FilesAreDone, OthersAreDone, PatchesAreAppliedInPart
  <2>3. CASE patchStage = "copied"
    <3>1. /\ Moves(operation) /\ patchDone < Len(patchInput.ops) /\ Len(patchInput.ops) \in Nat
          /\ patchFiles = [After[patchDone] EXCEPT
               ![operation.to] = Derived(After[patchDone][operation.path], operation.chunks)]
          /\ DOMAIN patchFiles = PatchPaths
      BY <2>3 DEF PatchIInv, FilesAreDone, PatchTypeOK, PatchIsRead
    <3>2. DOMAIN After[patchDone] = PatchPaths
      BY <3>1
    <3>3. \A p \in PatchPaths : p # operation.to => patchFiles[p] = After[patchDone][p]
      BY <3>1, <3>2
    <3>4. operation.to \in InTheMaking
      BY <3>1 DEF InTheMaking, Moves, PatchIInv, PatchTypeOK
    <3> QED
      BY <2>3, <3>3, <3>4 DEF PatchesAreAppliedInPart
  <2> QED
    BY <2>1, <2>2, <2>3 DEF PatchIInv, PatchTypeOK
<1> QED
  BY <1>1, PatchInvariant, PTL

\* While a patch is applied the files are texts, and updates are placed in them.
THEOREM TextInvariant == PatchSpec => []TextIInv
<1>1. PatchInit => TextIInv
  BY DEF PatchInit, TextIInv, FilesAreTexts, PatchIInv, PatchTypeOK, PatchIsRead, FilesAreDone
<1>2. TextIInv /\ [PatchNext]_patchVars => TextIInv'
  BY PatchAssumption, TextStep
<1> QED
  BY <1>1, <1>2, PTL DEF PatchSpec

\* An update puts each chunk's lines where its old ones were and leaves all others, unless
\* chunks overlap, which takes one that asks for the end of the file (computeReplacements,
\* applyReplacements).
THEOREM UpdatesKeepTheRest == PatchSpec => []ChunksKeepTheRest
<1>1. TextIInv => ChunksKeepTheRest
  <2>1. SUFFICES ASSUME TextIInv, patchDone > 0, patchStage = "op",
                        patchInput.ops[patchDone].kind = "update"
                 PROVE  ChunksKeepTheRest
    BY DEF ChunksKeepTheRest
  <2>2. PICK o, n, files : o = patchInput.ops[patchDone] /\ n = patchDone - 1 /\ files = After[n]
    OBVIOUS
  <2>3. /\ patchInput \in PatchInputs /\ Len(patchInput.ops) \in Nat /\ patchFiles = After[patchDone]
        /\ patchDone \in 0..Len(patchInput.ops) /\ n \in Nat /\ patchDone = n + 1
    BY <2>1, <2>2 DEF TextIInv, PatchIInv, PatchTypeOK, PatchIsRead, FilesAreDone
  <2>4. IsOperation(o) /\ o.kind = "update"
    BY <2>1, <2>2, <2>3, PatchAssumption DEF PatchAssumption
  <2>5. files \in [PatchPaths -> PatchContent] /\ IsPlaced(files, o)
    BY <2>1, <2>2 DEF TextIInv, FilesAreTexts
  <2>6. patchFiles = Effect(files, o)
    BY <2>2, <2>3, AfterIsDefined
  <2>7. PICK lines, chunks, edits, target :
          /\ lines = files[o.path] /\ chunks = o.chunks /\ edits = PlaceChunks(lines, chunks).edits
          /\ target = IF Moves(o) THEN o.to ELSE o.path
    OBVIOUS
  <2>8. /\ lines \in Seq(PatchLines) /\ chunks \in Seq(PatchChunk) /\ PlaceChunks(lines, chunks).ok
        /\ o.path \in PatchPaths /\ target \in PatchPaths /\ (Moves(o) => o.to # o.path)
    BY <2>4, <2>5, <2>7 DEF IsOperation, IsPlaced, PatchContent, Moves
  <2>9. patchFiles[target] = Derived(lines, chunks)
    <3>1. CASE Moves(o)
      <4>1. patchFiles = [files EXCEPT ![o.path] = Absent, ![o.to] = Derived(lines, chunks)]
        BY <2>4, <2>6, <2>7, <3>1 DEF Effect
      <4> QED
        BY <2>5, <2>7, <2>8, <3>1, <4>1
    <3>2. CASE ~Moves(o)
      <4>1. patchFiles = [files EXCEPT ![o.path] = Derived(lines, chunks)]
        BY <2>4, <2>6, <2>7, <3>2 DEF Effect
      <4> QED
        BY <2>5, <2>7, <2>8, <3>2, <4>1
    <3> QED
      BY <3>1, <3>2
  <2>10. Disjoint(edits) => patchFiles[target] = WithoutEnd(Rewritten(lines, edits))
    BY <2>7, <2>8, <2>9, DerivedIs
  <2>11. PICK L \in Nat : L = Len(lines)
    BY <2>8, LenProperties
  <2>12. edits \in Seq(EditsOf(L)) /\ Len(edits) = Len(chunks) /\ Behind(edits, chunks, L)
    BY <2>7, <2>8, <2>11, ChunksAreInOrder
  <2>13. DOMAIN edits = 1..Len(edits) /\ DOMAIN chunks = 1..Len(edits)
    BY <2>8, <2>12, LenProperties
  <2>14. ASSUME \A i \in DOMAIN chunks : ~chunks[i].atEnd
         PROVE  /\ Disjoint(edits)
                /\ \A i, j \in DOMAIN edits : i < j /\ chunks[i].old # <<>> => edits[i].start <= edits[j].start
    BY <2>12, <2>13, <2>14, ForwardChunksAreDisjoint
  <2> QED
    BY <2>2, <2>7, <2>10, <2>14, Zenon DEF ChunksKeepTheRest
<1> QED
  BY <1>1, TextInvariant, PTL
==============================================================================
