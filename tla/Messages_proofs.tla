--------------------------- MODULE Messages_proofs ---------------------------
(***************************************************************************)
(* What becomes of a message before its turn, for any channels, topics,    *)
(* calls and commands. Thread mapping: two unique indexes keep the         *)
(* messages of a topic in one thread, although nobody locks anything.      *)
(* Admission: a message is handed on or stays in a dropped event, and      *)
(* records of unknown channels count their messages.                       *)
(***************************************************************************)
EXTENDS ThreadMapping, Inbound, FiniteSetTheorems, TLAPS
------------------------------------------------------------------------------
\* Thread mapping: its invariant.

\* A call creates at most one thread, when it is settled which one it uses.
Settled == {c \in Calls : pc[c] \notin {"idle", "missed"}}
ThreadsAreCounted == threads <= Cardinality(Settled)

\* Calls look up and bind commands check; a writer has a topic, and then a thread.
WritersAreSet ==
  \A w \in Writers :
    /\ (pc[w] = "missed" => w \in Calls) /\ (pc[w] = "checking" => w \in Binders)
    /\ pc[w] # "idle" => topic[w] \in Topics
    /\ pc[w] \notin {"idle", "missed"} => thread[w] \in Threads

\* Threads are created before they are mapped.
MappedThreadsExist ==
  \A th \in Threads, s \in Sources : mapping[th][s] # NoTopic => th <= threads

\* The unique index on topics.
OneThreadEach == \A t \in Topics : \A th, u \in Mapped(t) : th = u

\* Topics that claim the same mapping are contested.
RivalsAreContested ==
  \A th \in Threads, s \in Sources : \A t, u \in Claims(th, s) : t # u => t \in contested

IInv ==
  /\ TypeOK /\ ThreadsAreCounted /\ WritersAreSet /\ MappedThreadsExist
  /\ OneThreadEach /\ RivalsAreContested /\ TopicsAreReached
------------------------------------------------------------------------------
\* No more calls are settled than there are.
LEMMA SettledFinite ==
  /\ IsFiniteSet(Settled) /\ Cardinality(Settled) \in Nat
  /\ Cardinality(Calls) \in Nat /\ Cardinality(Settled) <= Cardinality(Calls)
<1>1. IsFiniteSet(Calls) /\ Settled \subseteq Calls
  BY MappingAssumption DEF Settled
<1> QED
  BY <1>1, FS_Subset, FS_CardinalityType

\* There is a thread left for a call that is not settled.
LEMMA ThreadLeft ==
  ASSUME ThreadsAreCounted, NEW c \in Calls \ Settled, threads \in Nat
  PROVE  /\ threads + 1 \in Threads
         /\ Settled' = Settled \cup {c} => threads + 1 <= Cardinality(Settled')
<1>1. IsFiniteSet(Settled \cup {c}) /\ Cardinality(Settled \cup {c}) = Cardinality(Settled) + 1
  BY SettledFinite, FS_AddElement
<1>2. Settled \cup {c} \subseteq Calls /\ IsFiniteSet(Calls)
  BY MappingAssumption DEF Settled
<1>3. Cardinality(Settled \cup {c}) <= Cardinality(Calls)
  BY <1>2, FS_Subset
<1> QED
  BY <1>1, <1>3, SettledFinite DEF ThreadsAreCounted, Threads

\* Threads that are found or reused exist.
LEMMA ReusableExist ==
  ASSUME MappedThreadsExist, NEW t \in Topics, NEW th \in Mapped(t) \cup Reusable(t)
  PROVE  th \in Threads /\ th <= threads
BY MappingAssumption DEF Reusable, Mapped, MappedThreadsExist, Sources

\* What every step leaves intact, unless it saves a mapping: claims only come
\* to the mapping of a writer that sets out, and contention is remembered.
LEMMA SetOutKeeps ==
  ASSUME TypeOK, WritersAreSet, RivalsAreContested, NEW w \in Writers, NEW th \in Threads,
         pc[w] \in {"missed", "checking"}, SetOut(w, th, topic[w]),
         topic' = topic, thread'[w] = th, \A v \in Writers \ {w} : thread'[v] = thread[v],
         mapping' = mapping
  PROVE  RivalsAreContested' /\ contested \subseteq contested' /\ contested' \subseteq Topics
<1> DEFINE t == topic[w]
           claims == Claims(th, Component[t]) \cup {t}
<1>1. t \in Topics /\ Component[t] \in Sources
  BY DEF WritersAreSet, Sources
<1>2. claims \subseteq Topics
  BY <1>1 DEF Claims, TypeOK, WritersAreSet
<1>3. contested \subseteq contested' /\ contested' \subseteq Topics /\ (claims # {t} => claims \subseteq contested')
  BY <1>2 DEF SetOut, TypeOK
<1>4. ASSUME NEW u \in Threads, NEW s \in Sources
      PROVE  Claims(u, s)' \subseteq Claims(u, s) \cup (IF u = th /\ s = Component[t] THEN {t} ELSE {})
  BY DEF Claims, SetOut, Go, TypeOK
<1>5. RivalsAreContested'
  <2> SUFFICES ASSUME NEW u \in Threads, NEW s \in Sources,
                      NEW a \in Claims(u, s)', NEW b \in Claims(u, s)', a # b
               PROVE  a \in contested'
    BY DEF RivalsAreContested
  <2>1. CASE u = th /\ s = Component[t]
    <3>1. a \in claims /\ b \in claims
      BY <1>4, <2>1
    <3> QED
      BY <1>3, <3>1
  <2>2. CASE ~(u = th /\ s = Component[t])
    BY <1>3, <1>4, <2>2 DEF RivalsAreContested
  <2> QED
    BY <2>1, <2>2
<1> QED
  BY <1>3, <1>5

\* Contention stays recorded while no claim is added.
LEMMA ClaimsKept ==
  ASSUME RivalsAreContested, contested \subseteq contested',
         \A th \in Threads, s \in Sources : Claims(th, s)' \subseteq Claims(th, s)
  PROVE  RivalsAreContested'
BY DEF RivalsAreContested

\* Without a new mapping, what was reached stays reached.
LEMMA ReachedKept ==
  ASSUME TopicsAreReached, mapping' = mapping, contested \subseteq contested',
         \A c \in Calls : pc'[c] \in {"found", "refused"} =>
           /\ pc[c] \in {"found", "refused"} /\ pc'[c] = pc[c]
           /\ topic'[c] = topic[c] /\ thread'[c] = thread[c]
  PROVE  TopicsAreReached'
BY DEF TopicsAreReached, Mapped

\* Nothing is mapped at first.
LEMMA InitInv == Init => IInv
<1> SUFFICES ASSUME Init
             PROVE  IInv
  OBVIOUS
<1> USE DEF Init
<1>1. TypeOK
  BY DEF TypeOK, NoThread
<1>2. ThreadsAreCounted
  BY SettledFinite DEF ThreadsAreCounted
<1>3. WritersAreSet
  BY DEF WritersAreSet
<1>4. OneThreadEach
  BY MappingAssumption DEF OneThreadEach, Mapped, Sources
<1>7. MappedThreadsExist
  BY DEF MappedThreadsExist
<1>5. RivalsAreContested
  <2>1. \A th \in Threads, s \in Sources : Claims(th, s) = {}
    BY DEF Claims
  <2> QED
    BY <2>1 DEF RivalsAreContested
<1>6. TopicsAreReached
  BY DEF TopicsAreReached, Writers
<1> QED
  BY <1>1, <1>2, <1>3, <1>4, <1>5, <1>6, <1>7 DEF IInv
------------------------------------------------------------------------------
Places == {"idle", "missed", "checking", "chosen", "saving", "found", "refused"}

\* The ranges of the variables, for the steps below.
LEMMA Types ==
  ASSUME IInv
  PROVE  /\ pc \in [Writers -> Places] /\ topic \in [Writers -> Topics \cup {NoTopic}]
         /\ thread \in [Writers -> NoThread..threads] /\ threads \in Nat
         /\ threads <= Cardinality(Calls) /\ Cardinality(Calls) \in Nat
BY SettledFinite DEF IInv, TypeOK, Places, Threads, NoThread

\* A step that leaves the tables alone, and brings no claim.
LEMMA TablesKept ==
  ASSUME IInv, UNCHANGED <<threads, mapping>>, TypeOK', WritersAreSet',
         Settled \subseteq Settled',
         RivalsAreContested', contested \subseteq contested',
         \A c \in Calls : pc'[c] \in {"found", "refused"} /\ pc'[c] # pc[c] =>
           pc'[c] = "found" /\ Mapped(topic'[c]) = {thread'[c]},
         \A c \in Calls : pc[c] \in {"found", "refused"} =>
           pc'[c] = pc[c] /\ topic'[c] = topic[c] /\ thread'[c] = thread[c]
  PROVE  IInv'
<1>1. Settled' \subseteq Calls /\ IsFiniteSet(Settled')
  BY MappingAssumption, FS_Subset DEF Settled
<1>2. Cardinality(Settled) <= Cardinality(Settled') /\ Cardinality(Settled') \in Nat
  BY <1>1, FS_Subset, FS_CardinalityType
<1>3. ThreadsAreCounted'
  BY <1>2, SettledFinite, Types DEF IInv, ThreadsAreCounted
<1>4. OneThreadEach' /\ MappedThreadsExist'
  BY DEF IInv, OneThreadEach, Mapped, MappedThreadsExist
<1>5. TopicsAreReached'
  BY DEF IInv, TopicsAreReached, Mapped
<1> QED
  BY <1>3, <1>4, <1>5 DEF IInv

\* A look-up adds no claim; what it finds is the only thread of its topic.
LEMMA EnsureThreadInv ==
  ASSUME IInv, NEW c \in Calls, NEW t \in Topics, EnsureThread(c, t)
  PROVE  IInv'
<1>1. /\ UNCHANGED <<threads, mapping, known, contested>>
      /\ pc[c] = "idle" /\ topic'[c] = t
      /\ \A w \in Writers \ {c} : pc'[w] = pc[w] /\ topic'[w] = topic[w] /\ thread'[w] = thread[w]
      /\ pc' \in [Writers -> Places] /\ topic' \in [Writers -> Topics \cup {NoTopic}]
      /\ thread' \in [Writers -> NoThread..threads]
      /\ pc'[c] = "missed" \/ (pc'[c] = "found" /\ thread'[c] \in Mapped(t))
  <2>1. \A th \in Mapped(t) : th \in NoThread..threads
    BY ReusableExist, Types DEF IInv, Threads, NoThread
  <2> QED
    BY <2>1, Types DEF EnsureThread, Go, Writers, Places
<1>2. TypeOK'
  BY <1>1 DEF IInv, TypeOK, Places
<1>3. WritersAreSet'
  BY <1>1, ReusableExist DEF IInv, WritersAreSet
<1>4. RivalsAreContested'
  <2>1. \A u \in Threads, s \in Sources : Claims(u, s)' \subseteq Claims(u, s)
    BY <1>1 DEF Claims
  <2> QED
    BY <1>1, <2>1, ClaimsKept DEF IInv
<1>5. pc'[c] = "found" => Mapped(topic'[c]) = {thread'[c]}
  BY <1>1 DEF IInv, OneThreadEach
<1>6. Settled \subseteq Settled'
  BY <1>1 DEF Settled, Writers
<1> QED
  BY <1>1, <1>2, <1>3, <1>4, <1>5, <1>6, TablesKept DEF Writers

\* A bind command claims nothing until it has checked the component.
LEMMA BeginBindInv ==
  ASSUME IInv, NEW b \in Binders, NEW th \in Threads, NEW t \in Topics, BeginBind(b, th, t)
  PROVE  IInv'
<1>1. /\ UNCHANGED <<threads, mapping, known, contested>>
      /\ pc[b] = "idle" /\ pc'[b] = "checking" /\ topic'[b] = t /\ thread'[b] = th
      /\ \A w \in Writers \ {b} : pc'[w] = pc[w] /\ topic'[w] = topic[w] /\ thread'[w] = thread[w]
      /\ pc' \in [Writers -> Places] /\ topic' \in [Writers -> Topics \cup {NoTopic}]
      /\ thread' \in [Writers -> NoThread..threads]
  <2>1. th \in NoThread..threads
    BY Types DEF BeginBind, Threads, NoThread
  <2> QED
    BY <2>1, Types DEF BeginBind, Go, Writers, Places
<1>2. TypeOK'
  BY <1>1 DEF IInv, TypeOK, Places
<1>3. WritersAreSet'
  BY <1>1 DEF IInv, WritersAreSet
<1>4. RivalsAreContested'
  <2>1. \A u \in Threads, s \in Sources : Claims(u, s)' \subseteq Claims(u, s)
    BY <1>1 DEF Claims
  <2> QED
    BY <1>1, <2>1, ClaimsKept DEF IInv
<1>5. \A c \in Calls : c \in Writers \ {b}
  BY MappingAssumption DEF Writers
<1>6. Settled \subseteq Settled'
  BY <1>1, <1>5 DEF Settled
<1> QED
  BY <1>1, <1>2, <1>3, <1>4, <1>5, <1>6, TablesKept

\* A bind command sets out for a mapping that it found free.
LEMMA CheckComponentInv ==
  ASSUME IInv, NEW b \in Writers, CheckComponent(b)
  PROVE  IInv'
<1>1. /\ UNCHANGED <<threads, mapping, topic, thread, known>>
      /\ pc[b] = "checking" /\ pc'[b] \in {"chosen", "refused"}
      /\ \A w \in Writers \ {b} : pc'[w] = pc[w]
      /\ pc' \in [Writers -> Places]
  BY Types DEF CheckComponent, SetOut, Go, Places
<1>2. RivalsAreContested' /\ contested \subseteq contested' /\ contested' \subseteq Topics
  <2>1. CASE mapping[thread[b]][Component[topic[b]]] = NoTopic
    <3>1. thread[b] \in Threads
      BY <1>1 DEF IInv, WritersAreSet
    <3> QED
      BY <1>1, <2>1, <3>1, SetOutKeeps DEF CheckComponent, IInv
  <2>2. CASE mapping[thread[b]][Component[topic[b]]] # NoTopic
    <3>1. contested' = contested /\ pc'[b] = "refused"
      BY <1>1, <2>2, Types DEF CheckComponent, Go
    <3>2. \A u \in Threads, s \in Sources : Claims(u, s)' \subseteq Claims(u, s)
      BY <1>1, <3>1 DEF Claims
    <3> QED
      BY <3>1, <3>2, ClaimsKept DEF IInv, TypeOK
  <2> QED
    BY <2>1, <2>2
<1>3. TypeOK'
  BY <1>1, <1>2 DEF IInv, TypeOK, Places
<1>4. WritersAreSet'
  BY <1>1 DEF IInv, WritersAreSet
<1>5. Settled \subseteq Settled'
  BY <1>1 DEF Settled, Writers
<1>6. b \notin Calls
  BY <1>1, MappingAssumption DEF IInv, WritersAreSet
<1> QED
  BY <1>1, <1>2, <1>3, <1>4, <1>5, <1>6, TablesKept DEF Writers

\* A call that found nothing sets out for a thread, a new one at need.
LEMMA ChooseThreadInv ==
  ASSUME IInv, NEW c \in Writers, ChooseThread(c)
  PROVE  IInv'
<1>1. /\ pc[c] = "missed" /\ c \in Calls \ Settled /\ topic[c] \in Topics
      /\ UNCHANGED <<mapping, topic, known>>
  BY DEF ChooseThread, Choose, IInv, WritersAreSet, Settled
<1>2. PICK th : /\ Choose(c, th) /\ th \in Threads /\ th <= threads'
                /\ (threads' = threads \/ (threads' = threads + 1 /\ threads' \in Threads))
  <2>1. CASE Reusable(topic[c]) # {}
    BY <1>1, <2>1, ReusableExist, Types DEF ChooseThread, IInv
  <2>2. CASE Reusable(topic[c]) = {}
    BY <1>1, <2>2, ThreadLeft, Types DEF ChooseThread, IInv
  <2> QED
    BY <2>1, <2>2
<1>3. /\ pc'[c] = "chosen" /\ thread'[c] = th
      /\ \A w \in Writers \ {c} : pc'[w] = pc[w] /\ thread'[w] = thread[w]
      /\ pc' \in [Writers -> Places] /\ thread' \in [Writers -> NoThread..threads']
      /\ threads' \in Nat /\ threads <= threads'
  BY <1>2, Types DEF Choose, SetOut, Go, Places, NoThread, Threads
<1>4. RivalsAreContested' /\ contested \subseteq contested' /\ contested' \subseteq Topics
  BY <1>1, <1>2, <1>3, SetOutKeeps DEF Choose, IInv
<1>5. TypeOK'
  BY <1>1, <1>2, <1>3, <1>4 DEF IInv, TypeOK, Places
<1>6. WritersAreSet'
  BY <1>1, <1>2, <1>3 DEF IInv, WritersAreSet
<1>7. ThreadsAreCounted'
  <2>1. Settled' = Settled \cup {c}
    BY <1>1, <1>3 DEF Settled, Writers
  <2>2. threads + 1 <= Cardinality(Settled')
    BY <1>1, <2>1, ThreadLeft, Types DEF IInv
  <2>3. Cardinality(Settled') \in Nat
    BY <1>1, <2>1, SettledFinite, FS_AddElement, FS_CardinalityType
  <2> QED
    BY <1>2, <2>2, <2>3, Types DEF ThreadsAreCounted
<1>8. OneThreadEach' /\ MappedThreadsExist'
  BY <1>1, <1>3, Types DEF IInv, OneThreadEach, Mapped, MappedThreadsExist, Threads
<1>9. TopicsAreReached'
  BY <1>1, <1>3, <1>4, ReachedKept DEF IInv, Writers
<1> QED
  BY <1>4, <1>5, <1>6, <1>7, <1>8, <1>9 DEF IInv

\* Reading the row changes no table.
LEMMA FindRowInv ==
  ASSUME IInv, NEW w \in Writers, FindRow(w)
  PROVE  IInv'
<1>1. /\ UNCHANGED <<threads, mapping, topic, thread, contested>>
      /\ pc[w] = "chosen" /\ pc'[w] = "saving" /\ known' \subseteq Writers
      /\ \A v \in Writers \ {w} : pc'[v] = pc[v]
      /\ pc' \in [Writers -> Places]
  BY Types DEF FindRow, Go, Places, IInv, TypeOK
<1>2. RivalsAreContested'
  <2>1. \A u \in Threads, s \in Sources : Claims(u, s)' \subseteq Claims(u, s)
    BY <1>1 DEF Claims
  <2> QED
    BY <1>1, <2>1, ClaimsKept DEF IInv
<1>3. TypeOK'
  BY <1>1 DEF IInv, TypeOK, Places
<1>4. WritersAreSet'
  BY <1>1 DEF IInv, WritersAreSet
<1>5. Settled \subseteq Settled'
  BY <1>1 DEF Settled, Writers
<1> QED
  BY <1>1, <1>2, <1>3, <1>4, <1>5, TablesKept DEF Writers

\* A save is where the indexes and the contention meet.
LEMMA SaveInv ==
  ASSUME IInv, NEW w \in Writers, Save(w)
  PROVE  IInv'
<1> DEFINE t == topic[w]
           th == thread[w]
           s == Component[t]
           old == mapping[th][s]
<1>1. /\ UNCHANGED <<threads, topic, thread, known, contested>>
      /\ pc[w] = "saving" /\ pc'[w] \in {"found", "refused"}
      /\ \A v \in Writers \ {w} : pc'[v] = pc[v]
      /\ pc' \in [Writers -> Places]
      /\ pc'[w] = "found" => Unique(w) /\ mapping' = [mapping EXCEPT ![th][s] = t]
      /\ pc'[w] = "refused" => ~Unique(w) /\ mapping' = mapping
  BY Types DEF Save, SaveIf, Go, Places
<1>2. /\ t \in Topics /\ th \in Threads /\ th <= threads /\ s \in Sources
      /\ mapping \in [Threads -> [Sources -> Topics \cup {NoTopic}]] /\ t # NoTopic
  <2>1. t \in Topics /\ th \in Threads
    BY <1>1 DEF IInv, WritersAreSet
  <2>2. th <= threads
    BY Types DEF NoThread
  <2> QED
    BY <2>1, <2>2, MappingAssumption DEF IInv, TypeOK, Sources
<1>3. mapping' \in [Threads -> [Sources -> Topics \cup {NoTopic}]]
  BY <1>1, <1>2
<1>4. /\ pc'[w] = "found" => mapping'[th][s] = t
      /\ \A u \in Threads, r \in Sources :
           mapping'[u][r] # mapping[u][r] => u = th /\ r = s /\ pc'[w] = "found"
  BY <1>1, <1>2
<1>5. t \in Claims(th, s) /\ (old # NoTopic => old \in Claims(th, s))
  BY <1>1 DEF Claims
<1>6. old \notin {NoTopic, t} => t \in contested /\ old \in contested
  BY <1>2, <1>5 DEF IInv, RivalsAreContested
<1>7. TypeOK'
  BY <1>1, <1>3 DEF IInv, TypeOK, Places
<1>8. WritersAreSet'
  BY <1>1 DEF IInv, WritersAreSet
<1>9. ThreadsAreCounted'
  <2>1. Settled' = Settled
    BY <1>1 DEF Settled, Writers
  <2> QED
    BY <1>1, <2>1 DEF IInv, ThreadsAreCounted
<1>10. MappedThreadsExist'
  BY <1>1, <1>2, <1>4 DEF IInv, MappedThreadsExist
<1>11. /\ \A x \in Topics \ {t} : Mapped(x)' \subseteq Mapped(x)
       /\ \A x \in Topics \ {old} : Mapped(x) \subseteq Mapped(x)'
       /\ pc'[w] = "found" => \A x \in {t} : Mapped(x)' = {th} /\ Mapped(x) \subseteq {th}
       /\ pc'[w] = "refused" => \A x : Mapped(x)' = Mapped(x)
  <2>1. \A x \in Topics : Component[x] \in Sources
    BY DEF Sources
  <2>2. \A x \in Topics \ {t} : Mapped(x)' \subseteq Mapped(x)
    BY <1>4, <2>1 DEF Mapped
  <2>3. \A x \in Topics \ {old} : Mapped(x) \subseteq Mapped(x)'
    BY <1>4, <2>1 DEF Mapped
  <2>4. pc'[w] = "found" => \A x \in {t} : Mapped(x)' = {th} /\ Mapped(x) \subseteq {th}
    BY <1>1, <1>2, <1>4 DEF Mapped, Unique
  <2>5. pc'[w] = "refused" => \A x : Mapped(x)' = Mapped(x)
    BY <1>1 DEF Mapped
  <2> QED
    BY <2>2, <2>3, <2>4, <2>5
<1>12. OneThreadEach'
  <2> SUFFICES ASSUME NEW x \in Topics, NEW u \in Mapped(x)', NEW v \in Mapped(x)'
               PROVE  u = v
    BY DEF OneThreadEach
  <2>1. CASE x = t /\ pc'[w] = "found"
    BY <1>11, <2>1
  <2>2. CASE x # t \/ pc'[w] = "refused"
    <3>1. Mapped(x)' \subseteq Mapped(x)
      BY <1>11, <2>2
    <3>2. u \in Mapped(x) /\ v \in Mapped(x)
      BY <3>1
    <3> QED
      BY <3>2 DEF IInv, OneThreadEach
  <2> QED
    BY <1>1, <2>1, <2>2
<1>13. RivalsAreContested'
  <2>1. \A u \in Threads, r \in Sources : Claims(u, r)' \subseteq Claims(u, r)
    <3> SUFFICES ASSUME NEW u \in Threads, NEW r \in Sources, NEW x \in Claims(u, r)'
                 PROVE  x \in Claims(u, r)
      OBVIOUS
    <3>1. CASE x = mapping'[u][r] /\ x # NoTopic
      BY <1>1, <1>4, <1>5, <3>1 DEF Claims
    <3>2. CASE \E v \in Writers : /\ pc'[v] \in {"chosen", "saving"} /\ thread'[v] = u
                                  /\ Component[topic'[v]] = r /\ x = topic'[v]
      BY <1>1, <3>2 DEF Claims
    <3> QED
      BY <3>1, <3>2 DEF Claims
  <2> QED
    BY <1>1, <2>1, ClaimsKept DEF IInv
<1>14. TopicsAreReached'
  <2> SUFFICES ASSUME NEW c \in Calls, pc'[c] \in {"found", "refused"}, NEW x \in Topics,
                      topic[c] = x, x \notin contested
               PROVE  /\ Mapped(x)' # {}
                      /\ pc'[c] = "found" => Mapped(x)' = {thread[c]}
    <3>1. \A c \in Calls : pc'[c] \in {"found", "refused"} => topic[c] \in Topics
      BY <1>1, <1>8 DEF WritersAreSet, Writers
    <3> QED
      BY <1>1, <3>1 DEF TopicsAreReached
  <2>1. CASE c = w /\ pc'[w] = "found"
    BY <1>11, <2>1
  <2>2. CASE c = w /\ pc'[w] = "refused"
    <3>1. Mapped(x) # {}
      BY <1>1, <1>2, <1>6, <2>2 DEF Unique, Mapped
    <3> QED
      BY <1>11, <2>2, <3>1
  <2>3. CASE c # w
    <3>1. pc'[c] = pc[c]
      BY <1>1, <2>3 DEF Writers
    <3>2. Mapped(x) # {} /\ (pc[c] = "found" => Mapped(x) = {thread[c]})
      BY <3>1 DEF IInv, TopicsAreReached
    <3>3. CASE pc'[w] = "refused"
      BY <1>11, <3>1, <3>2, <3>3
    <3>4. CASE pc'[w] = "found" /\ x = t
      BY <1>11, <3>1, <3>2, <3>4
    <3>5. CASE pc'[w] = "found" /\ x # t
      <4>1. x # old
        BY <1>6, <3>5, MappingAssumption
      <4>2. Mapped(x)' = Mapped(x)
        BY <1>11, <3>5, <4>1
      <4> QED
        BY <3>1, <3>2, <4>2
    <3> QED
      BY <1>1, <3>3, <3>4, <3>5
  <2> QED
    BY <1>1, <2>1, <2>2, <2>3
<1> QED
  BY <1>7, <1>8, <1>9, <1>10, <1>12, <1>13, <1>14 DEF IInv

\* Every step keeps the invariant.
LEMMA NextInv == IInv /\ [Next]_vars => IInv'
<1> SUFFICES ASSUME IInv, [Next]_vars
             PROVE  IInv'
  OBVIOUS
<1>1. ASSUME NEW w \in Writers, Step(w)
      PROVE  IInv'
  BY <1>1, ChooseThreadInv, CheckComponentInv, FindRowInv, SaveInv DEF Step
<1>2. CASE \E c \in Calls, t \in Topics : EnsureThread(c, t)
  BY <1>2, EnsureThreadInv
<1>3. CASE \E b \in Binders, th \in Threads, t \in Topics : BeginBind(b, th, t)
  BY <1>3, BeginBindInv
<1>4. CASE UNCHANGED vars
  BY <1>4 DEF vars, IInv, TypeOK, ThreadsAreCounted, Settled, WritersAreSet, MappedThreadsExist,
              OneThreadEach, Mapped, RivalsAreContested, Claims, TopicsAreReached
<1> QED
  BY <1>1, <1>2, <1>3, <1>4 DEF Next
------------------------------------------------------------------------------
\* The inductive invariant holds: each part of it is kept by every action.
THEOREM Invariant == Spec => []IInv
<1> QED
  BY InitInv, NextInv, PTL DEF Spec

\* A thread a writer names exists: no call runs out of threads.
THEOREM TypeCorrect == Spec => []TypeOK
<1>1. IInv => TypeOK
  BY DEF IInv
<1> QED
  BY Invariant, <1>1, PTL

\* A message that got a thread can be found again, and one that lost its save
\* leaves a topic that is mapped.
THEOREM Reached == Spec => []TopicsAreReached
<1>1. IInv => TopicsAreReached
  BY DEF IInv
<1> QED
  BY Invariant, <1>1, PTL

\* Messages of one topic are in one conversation, whoever races for it.
THEOREM OneConversation == Spec => []TopicsAreOneConversation
<1>1. IInv => TopicsAreOneConversation
  BY DEF IInv, TopicsAreReached, TopicsAreOneConversation
<1> QED
  BY Invariant, <1>1, PTL

------------------------------------------------------------------------------
\* Admission: its invariant.

\* Rows have numbers given out, and what a replay has read is the event of its row
\* for as long as that number is in use.
Replayed == {call[c].row : c \in {d \in InboundCalls : IsReplay(d)}}
RowsAreNumbered ==
  /\ \A r \in dropped \cup Replayed : r.id <= rowIds
  /\ \A r, q \in dropped \cup Replayed : r.id = q.id => r.event = q.event
ReplaysFit == \A c \in InboundCalls : IsReplay(c) => Event(c) = call[c].row.event

\* A message that needs no call any more: its open row is not one that a replay
\* is about to mark.
Marking(c, row) == In(c, "finish") /\ IsReplay(c) /\ call[c].row.id = row.id
IsKept(m) ==
  \/ m \in handed \cup excused
  \/ \E lapsed \in overdue : lapsed[2] = m
  \/ \E row \in dropped :
       row.event.message = m /\ row.status = "open" /\ \A c \in InboundCalls : ~Marking(c, row)

MessagesAreKept ==
  \A m \in 1..messages :
    IsKept(m) \/ \E c \in InboundCalls :
                   Event(c).message = m /\ ~IsReplay(c) /\ call[c].stage \notin {"turn", "finish"}
TurnsAreHanded == \A c \in InboundCalls : In(c, "turn") => Event(c).message \in handed

\* Where no recordings overlapped there is one at most, with the record as it is.
RecordingsAreAlone ==
  \A ch \in Channels \ contended : \A c, d \in Recording(ch) : c = d
CopiesAreTrue ==
  \A ch \in Channels \ contended : \A c \in Recording(ch) :
    IF drops[ch] = NoRecord THEN In(c, "record") => call[c].copy.count = 0
    ELSE In(c, "record") /\ call[c].copy = drops[ch]

\* The inductive invariant.
InboundIInv ==
  /\ InboundTypeOK /\ RowsAreNumbered /\ ReplaysFit /\ MessagesAreKept /\ TurnsAreHanded
  /\ RecordingsAreAlone /\ CopiesAreTrue /\ DropCountsAreTrue

------------------------------------------------------------------------------
\* Calls and their parts.

\* A call that is not idle has an event and its parts, and an idle one is NoCall.
LEMMA CallParts ==
  ASSUME InboundTypeOK, NEW c \in InboundCalls
  PROVE  /\ In(c, "idle") => call[c] = NoCall
         /\ ~In(c, "idle") => /\ call[c] \in CallRecord
                              /\ Event(c) \in EventRecord
                              /\ call[c].row \in DroppedRecord \cup {NoRecord}
                              /\ call[c].copy \in DropRecord \cup {NoRecord}
<1>1. call[c] \in CallRecord \cup {NoCall}
  BY DEF InboundTypeOK
<1>2. CASE call[c] = NoCall
  BY <1>2 DEF In, NoCall
<1>3. CASE call[c] \in CallRecord
  BY <1>3 DEF In, CallRecord, Event
<1> QED
  BY <1>1, <1>2, <1>3

\* An idle call is no replay, of message 0.
LEMMA IdleParts ==
  ASSUME InboundTypeOK, NEW c \in InboundCalls, In(c, "idle")
  PROVE  ~IsReplay(c) /\ Event(c).message = 0
BY CallParts DEF NoCall, NoEvent, IsReplay, Event

CallStages == {"admit", "look", "adopt", "record", "filter", "reject", "route", "turn", "finish"}

\* Moving a call to another stage keeps its event, row and copy.
LEMMA Moved ==
  ASSUME InboundTypeOK, NEW c \in InboundCalls, ~In(c, "idle"), NEW stage \in CallStages,
         Goto(c, stage)
  PROVE  /\ call' \in [InboundCalls -> CallRecord \cup {NoCall}]
         /\ call'[c].stage = stage /\ call'[c].event = call[c].event
         /\ call'[c].row = call[c].row /\ call'[c].copy = call[c].copy
         /\ \A d \in InboundCalls : d # c => call'[d] = call[d]
<1>1. call[c] \in CallRecord /\ call \in [InboundCalls -> CallRecord \cup {NoCall}]
  BY CallParts DEF InboundTypeOK
<1>2. call' = [call EXCEPT ![c] = [call[c] EXCEPT !.stage = stage]]
  BY <1>1 DEF Goto
<1>3. /\ [call[c] EXCEPT !.stage = stage].stage = stage
      /\ [call[c] EXCEPT !.stage = stage].event = call[c].event
      /\ [call[c] EXCEPT !.stage = stage].row = call[c].row
      /\ [call[c] EXCEPT !.stage = stage].copy = call[c].copy
      /\ [call[c] EXCEPT !.stage = stage] \in CallRecord
  BY <1>1 DEF CallRecord, CallStages
<1>4. call'[c] = [call[c] EXCEPT !.stage = stage]
  BY <1>1, <1>2
<1>5. \A d \in InboundCalls : d # c => call'[d] = call[d]
  BY <1>1, <1>2
<1>6. call' \in [InboundCalls -> CallRecord \cup {NoCall}]
  BY <1>1, <1>2, <1>3, Zenon
<1> QED
  BY <1>3, <1>4, <1>5, <1>6, Zenon

\* A call that ends is NoCall, the others stay.
LEMMA Left ==
  ASSUME InboundTypeOK, NEW c \in InboundCalls, Leave(c)
  PROVE  /\ call' \in [InboundCalls -> CallRecord \cup {NoCall}]
         /\ call'[c] = NoCall
         /\ \A d \in InboundCalls : d # c => call'[d] = call[d]
BY DEF InboundTypeOK, Leave

\* A call that starts has its event and row.
LEMMA Entered ==
  ASSUME InboundTypeOK, NEW c \in InboundCalls, NEW event \in EventRecord,
         NEW row \in DroppedRecord \cup {NoRecord}, Enter(c, event, row)
  PROVE  /\ call' \in [InboundCalls -> CallRecord \cup {NoCall}]
         /\ call'[c] = [stage |-> "admit", event |-> event, row |-> row, copy |-> NoRecord]
         /\ \A d \in InboundCalls : d # c => call'[d] = call[d]
BY DEF InboundTypeOK, Enter, CallRecord

------------------------------------------------------------------------------
\* Rows and messages.

RowsAndMessages == RowsAreNumbered /\ ReplaysFit /\ MessagesAreKept /\ TurnsAreHanded

\* What a call does in a step that begins none: it ends, or keeps its event and row,
\* and before its message leaves its care the message is handed or excused.
Carries(c) ==
  \/ /\ call'[c] = NoCall
     /\ ~IsReplay(c) /\ call[c].stage \notin {"turn", "finish"} =>
          Event(c).message \in handed' \cup excused' \cup {0}
  \/ /\ call'[c].event = call[c].event /\ call'[c].row = call[c].row
     /\ call'[c].stage \in {"turn", "finish"} /\ call'[c].stage # call[c].stage =>
          Event(c).message \in handed' \cup excused'
     /\ call'[c].stage = "turn" => Event(c).message \in handed'

\* Such steps, which may also delete rows past their retention.
LEMMA CallsCarry ==
  ASSUME InboundTypeOK, RowsAndMessages,
         dropped' \subseteq dropped, \A r \in dropped \ dropped' : Overdue(r),
         messages' = messages, rowIds' \in Nat, rowIds' >= rowIds,
         overdue \subseteq overdue', handed \subseteq handed', excused \subseteq excused',
         \A c \in InboundCalls : Carries(c)
  PROVE  RowsAndMessages'
<1>1. \A c \in InboundCalls : IsReplay(c)' =>
         IsReplay(c) /\ call'[c].row = call[c].row /\ call'[c].event = call[c].event
  BY DEF Carries, IsReplay, NoCall
<1>2. (dropped \cup Replayed)' \subseteq dropped \cup Replayed
  BY <1>1 DEF Replayed
<1>3. \A r \in dropped \cup Replayed : r.id \in Nat
  BY CallParts, IdleParts DEF InboundTypeOK, Replayed, IsReplay, DroppedRecord
<1>4. RowsAreNumbered'
  <2>1. \A r \in (dropped \cup Replayed)' : r.id <= rowIds'
    BY <1>2, <1>3 DEF RowsAndMessages, RowsAreNumbered, InboundTypeOK
  <2>2. \A r, q \in (dropped \cup Replayed)' : r.id = q.id => r.event = q.event
    BY <1>2 DEF RowsAndMessages, RowsAreNumbered
  <2> QED
    BY <2>1, <2>2 DEF RowsAreNumbered
<1>5. ReplaysFit'
  BY <1>1 DEF RowsAndMessages, ReplaysFit, Event
<1>6. TurnsAreHanded'
  BY DEF RowsAndMessages, TurnsAreHanded, Carries, In, NoCall, Event
<1>7. ASSUME NEW m \in 1..messages, IsKept(m)
      PROVE  IsKept(m)'
  <2>1. CASE m \in handed \cup excused \/ \E lapsed \in overdue : lapsed[2] = m
    BY <2>1 DEF IsKept
  <2>2. ASSUME NEW row \in dropped, row.event.message = m, row.status = "open",
               \A c \in InboundCalls : ~Marking(c, row)
        PROVE  IsKept(m)'
    <3>1. CASE row \notin dropped'
      <4>1. <<row.id, row.event.message>> \in overdue'
        BY <3>1 DEF Overdue
      <4> QED
        BY <4>1, <2>2 DEF IsKept
    <3>2. CASE \E c \in InboundCalls : Marking(c, row)'
      <4>1. PICK c \in InboundCalls : Marking(c, row)'
        BY <3>2
      <4>2. /\ call'[c].stage = "finish" /\ IsReplay(c) /\ call[c].row.id = row.id
            /\ call'[c].stage # call[c].stage
        BY <4>1, <1>1, <2>2 DEF Marking, In
      <4>3. call'[c] # NoCall
        BY <4>2 DEF NoCall
      <4>4. Event(c).message \in handed' \cup excused'
        BY <4>2, <4>3 DEF Carries
      <4>5. call[c].row \in Replayed
        BY <4>2 DEF Replayed
      <4>6. Event(c) = row.event
        BY <4>2, <4>5 DEF RowsAndMessages, RowsAreNumbered, ReplaysFit
      <4> QED
        BY <4>4, <4>6, <2>2 DEF IsKept
    <3>3. CASE row \in dropped' /\ \A c \in InboundCalls : ~Marking(c, row)'
      BY <3>3, <2>2 DEF IsKept, Marking
    <3> QED
      BY <3>1, <3>2, <3>3
  <2> QED
    BY <1>7, <2>1, <2>2 DEF IsKept
<1>8. ASSUME NEW m \in 1..messages, NEW c \in InboundCalls,
             Event(c).message = m, ~IsReplay(c), call[c].stage \notin {"turn", "finish"}
      PROVE  \/ IsKept(m)'
             \/ Event(c)'.message = m /\ ~IsReplay(c)' /\ call'[c].stage \notin {"turn", "finish"}
  <2>1. m # 0
    BY DEF InboundTypeOK
  <2>2. CASE m \in handed' \cup excused'
    BY <2>2 DEF IsKept
  <2>3. CASE m \notin handed' \cup excused'
    BY <2>1, <2>3, <1>8 DEF Carries, Event, IsReplay
  <2> QED
    BY <2>2, <2>3
<1>9. MessagesAreKept'
  BY <1>7, <1>8 DEF RowsAndMessages, MessagesAreKept
<1> QED
  BY <1>4, <1>5, <1>6, <1>9 DEF RowsAndMessages

\* A message that arrives is in the care of its call.
LEMMA ArrivesWell ==
  ASSUME InboundTypeOK, RowsAndMessages,
         NEW c \in InboundCalls, NEW ch \in Channels, HandleInbound(c, ch)
  PROVE  RowsAndMessages'
<1> DEFINE event == [message |-> messages + 1, channel |-> ch]
<1>1. event \in EventRecord /\ Enter(c, event, NoRecord) /\ In(c, "idle")
  BY DEF InboundTypeOK, EventRecord, HandleInbound, Enter
<1>2. /\ call'[c] = [stage |-> "admit", event |-> event, row |-> NoRecord, copy |-> NoRecord]
      /\ \A d \in InboundCalls : d # c => call'[d] = call[d]
  BY <1>1, Entered
<1>3. /\ messages' = messages + 1 /\ messages \in Nat
      /\ UNCHANGED <<dropped, rowIds, overdue, handed, excused>>
  BY DEF HandleInbound, Enter, inboundHistory, InboundTypeOK
<1>4. /\ ~IsReplay(c) /\ ~IsReplay(c)' /\ Event(c)'.message = messages + 1
      /\ call'[c].stage = "admit" /\ Event(c).message = 0
  BY <1>1, <1>2, IdleParts DEF IsReplay, Event
<1> HIDE DEF event
<1>5. \A d \in InboundCalls :
        /\ IsReplay(d)' <=> IsReplay(d)
        /\ IsReplay(d) => call'[d] = call[d]
  BY <1>2, <1>4 DEF IsReplay
<1>6. Replayed' = Replayed
  BY <1>5 DEF Replayed
<1>7. RowsAreNumbered'
  BY <1>3, <1>6 DEF RowsAreNumbered, RowsAndMessages
<1>8. ReplaysFit'
  BY <1>5 DEF ReplaysFit, Event, RowsAndMessages
<1>9. TurnsAreHanded'
  BY <1>2, <1>3, <1>4 DEF TurnsAreHanded, RowsAndMessages, In, Event
<1>10. \A m : IsKept(m) => IsKept(m)'
  <2>1. \A d \in InboundCalls, row \in dropped : Marking(d, row)' => Marking(d, row)
    BY <1>2, <1>4 DEF Marking, In, IsReplay
  <2> QED
    BY <2>1, <1>3 DEF IsKept
<1>11. MessagesAreKept'
  <2>1. SUFFICES ASSUME NEW m \in 1..messages'
                 PROVE  IsKept(m)' \/ \E d \in InboundCalls :
                          /\ Event(d)'.message = m /\ ~IsReplay(d)'
                          /\ call'[d].stage \notin {"turn", "finish"}
    BY DEF MessagesAreKept
  <2>2. CASE m = messages + 1
    BY <1>4, <2>2
  <2>3. CASE m \in 1..messages
    <3>1. CASE IsKept(m)
      BY <3>1, <1>10
    <3>2. ASSUME NEW d \in InboundCalls, Event(d).message = m, ~IsReplay(d),
                 call[d].stage \notin {"turn", "finish"}
          PROVE  /\ Event(d)'.message = m /\ ~IsReplay(d)'
                 /\ call'[d].stage \notin {"turn", "finish"}
      <4>1. d # c
        BY <1>4, <2>3, <3>2
      <4> QED
        BY <4>1, <1>2, <3>2 DEF Event, IsReplay
    <3> QED
      BY <2>3, <3>1, <3>2 DEF RowsAndMessages, MessagesAreKept
  <2>4. m = messages + 1 \/ m \in 1..messages
    BY <1>3
  <2> QED
    BY <2>2, <2>3, <2>4
<1> QED
  BY <1>7, <1>8, <1>9, <1>11 DEF RowsAndMessages

\* A replay begins with the event of a row that is there.
LEMMA ReplayBeginsWell ==
  ASSUME InboundAssumption, InboundTypeOK, RowsAndMessages,
         NEW c \in InboundCalls, NEW row \in dropped, AllowDropped(c, row)
  PROVE  RowsAndMessages'
<1>1. row.event \in EventRecord /\ row \in DroppedRecord /\ row # NoRecord
  BY DEF InboundTypeOK, DroppedRecord, InboundAssumption
<1>2. Enter(c, row.event, row) /\ In(c, "idle") /\ ~IsReplay(c) /\ Event(c).message = 0
  BY IdleParts DEF AllowDropped, Enter
<1>3. /\ call'[c] = [stage |-> "admit", event |-> row.event, row |-> row, copy |-> NoRecord]
      /\ \A d \in InboundCalls : d # c => call'[d] = call[d]
  BY <1>1, <1>2, Entered
<1>4. UNCHANGED <<messages, dropped, rowIds, overdue, handed, excused>>
  BY DEF AllowDropped, Enter, inboundHistory
<1>5. /\ Event(c)' = row.event /\ call'[c].row = row /\ call'[c].stage = "admit"
  BY <1>3 DEF Event
<1>6. (dropped \cup Replayed)' \subseteq dropped \cup Replayed
  BY <1>3, <1>4, <1>5 DEF Replayed, IsReplay
<1>7. RowsAreNumbered'
  BY <1>4, <1>6 DEF RowsAreNumbered, RowsAndMessages
<1>8. ReplaysFit'
  BY <1>3, <1>5 DEF ReplaysFit, Event, RowsAndMessages, IsReplay
<1>9. TurnsAreHanded'
  BY <1>3, <1>4, <1>5 DEF TurnsAreHanded, RowsAndMessages, In, Event
<1>10. \A m : IsKept(m) => IsKept(m)'
  BY <1>3, <1>4, <1>5 DEF IsKept, Marking, In, IsReplay
<1>11. \A m \in 1..messages : \A d \in InboundCalls :
         Event(d).message = m /\ ~IsReplay(d) => call'[d] = call[d]
  BY <1>2, <1>3 DEF InboundTypeOK
<1>12. MessagesAreKept'
  BY <1>4, <1>10, <1>11 DEF RowsAndMessages, MessagesAreKept, Event, IsReplay
<1> QED
  BY <1>7, <1>8, <1>9, <1>12 DEF RowsAndMessages

\* A rejected message gets a row of its own, which no replay under way will mark.
LEMMA DropsWell ==
  ASSUME InboundTypeOK, RowsAndMessages, NEW c \in InboundCalls, DropEvent(c)
  PROVE  RowsAndMessages'
<1> DEFINE new == [id |-> rowIds + 1, event |-> Event(c), status |-> "open"]
<1>1. /\ In(c, "reject") /\ ~In(c, "idle") /\ Event(c) \in EventRecord
      /\ Goto(c, "finish") /\ "finish" \in CallStages /\ rowIds \in Nat
  BY CallParts DEF DropEvent, In, CallStages, InboundTypeOK
<1>2. /\ call'[c].stage = "finish" /\ call'[c].event = call[c].event
      /\ call'[c].row = call[c].row
      /\ \A d \in InboundCalls : d # c => call'[d] = call[d]
  BY <1>1, Moved
<1>3. /\ rowIds' = rowIds + 1 /\ UNCHANGED <<messages, overdue, handed, excused>>
      /\ dropped' = Unexpired \cup {new}
  BY DEF DropEvent, Drop, inboundHistory
<1>4. new.id = rowIds + 1 /\ new.event = Event(c) /\ new.status = "open"
  OBVIOUS
<1> HIDE DEF new
<1>5. \A d \in InboundCalls : /\ IsReplay(d)' <=> IsReplay(d)
                              /\ call'[d].row = call[d].row /\ call'[d].event = call[d].event
  BY <1>2 DEF IsReplay
<1>6. Replayed' = Replayed
  BY <1>5 DEF Replayed
<1>7. \A r \in dropped \cup Replayed : r.id \in Nat /\ r.id <= rowIds
  BY CallParts, IdleParts DEF InboundTypeOK, Replayed, IsReplay, DroppedRecord,
     RowsAndMessages, RowsAreNumbered
<1>8. Unexpired \subseteq dropped
  BY DEF Unexpired
<1>9. RowsAreNumbered'
  <2>1. \A r \in (dropped \cup Replayed)' : r = new \/ r \in dropped \cup Replayed
    BY <1>3, <1>6, <1>8
  <2>2. \A r \in (dropped \cup Replayed)' : r.id <= rowIds'
    BY <2>1, <1>1, <1>3, <1>4, <1>7
  <2>3. \A r \in dropped \cup Replayed : r.id # new.id
    BY <1>1, <1>4, <1>7
  <2>4. \A r, q \in (dropped \cup Replayed)' : r.id = q.id => r.event = q.event
    BY <2>1, <2>3 DEF RowsAndMessages, RowsAreNumbered
  <2> QED
    BY <2>2, <2>4 DEF RowsAreNumbered
<1>10. ReplaysFit'
  BY <1>5 DEF ReplaysFit, Event, RowsAndMessages
<1>11. TurnsAreHanded'
  BY <1>2, <1>3 DEF TurnsAreHanded, RowsAndMessages, In, Event
<1>12. \A m : m = Event(c).message => IsKept(m)'
  <2>1. ASSUME NEW d \in InboundCalls, IsReplay(d)
        PROVE  call'[d].row.id # rowIds + 1
    <3>1. call[d].row \in Replayed
      BY <2>1 DEF Replayed
    <3>2. call[d].row.id \in Nat /\ call[d].row.id <= rowIds
      BY <3>1, <1>7
    <3> QED
      BY <3>2, <1>1, <1>5
  <2>2. new \in dropped' /\ \A d \in InboundCalls : call'[d].row.id = new.id => ~IsReplay(d)'
    BY <2>1, <1>3, <1>4, <1>5
  <2>3. PICK row : row = new
    OBVIOUS
  <2>4. \A d \in InboundCalls : ~Marking(d, row)'
    BY <2>2, <2>3 DEF Marking
  <2> QED
    BY <2>2, <2>3, <2>4, <1>4 DEF IsKept
<1>13. ASSUME NEW m \in 1..messages, IsKept(m)
       PROVE  IsKept(m)'
  <2>1. CASE m \in handed \cup excused \/ \E lapsed \in overdue : lapsed[2] = m
    BY <2>1, <1>3 DEF IsKept
  <2>2. ASSUME NEW row \in dropped, row.event.message = m, row.status = "open",
               \A d \in InboundCalls : ~Marking(d, row)
        PROVE  IsKept(m)'
    <3>1. CASE Overdue(row)
      BY <3>1, <1>3, <2>2 DEF IsKept, Overdue
    <3>2. CASE ~Overdue(row) /\ Marking(c, row)'
      <4>1. Event(c) = row.event
        <5>1. IsReplay(c) /\ call[c].row.id = row.id /\ call[c].row \in Replayed
          BY <3>2, <1>5 DEF Marking, Replayed
        <5> QED
          BY <5>1 DEF RowsAndMessages, RowsAreNumbered, ReplaysFit
      <4> QED
        BY <4>1, <1>12, <2>2
    <3>3. CASE ~Overdue(row) /\ ~Marking(c, row)'
      <4>1. row \in dropped'
        BY <3>3, <1>3 DEF Unexpired
      <4>2. \A d \in InboundCalls : ~Marking(d, row)'
        BY <3>3, <2>2, <1>2 DEF Marking, In, IsReplay
      <4> QED
        BY <4>1, <4>2, <2>2 DEF IsKept
    <3> QED
      BY <3>1, <3>2, <3>3
  <2> QED
    BY <1>13, <2>1, <2>2 DEF IsKept
<1>14. MessagesAreKept'
  <2>1. ASSUME NEW m \in 1..messages, NEW d \in InboundCalls, Event(d).message = m,
               ~IsReplay(d), call[d].stage \notin {"turn", "finish"}
        PROVE  \/ IsKept(m)'
               \/ /\ Event(d)'.message = m /\ ~IsReplay(d)'
                  /\ call'[d].stage \notin {"turn", "finish"}
    BY <2>1, <1>2, <1>12 DEF Event, IsReplay
  <2> QED
    BY <2>1, <1>3, <1>13 DEF RowsAndMessages, MessagesAreKept
<1> QED
  BY <1>9, <1>10, <1>11, <1>14 DEF RowsAndMessages

\* The end of a call: a replay marks its row, and no row that keeps a message.
LEMMA FinishesWell ==
  ASSUME InboundTypeOK, RowsAndMessages, NEW c \in InboundCalls, Finish(c)
  PROVE  RowsAndMessages'
<1>1. In(c, "finish") /\ ~In(c, "idle") /\ Leave(c)
      /\ UNCHANGED <<messages, rowIds, overdue, handed, excused>>
  BY DEF Finish, In, inboundCounters, inboundHistory
<1>2. call'[c] = NoCall /\ \A d \in InboundCalls : d # c => call'[d] = call[d]
  BY <1>1, Left
<1>3. ~IsReplay(c)' /\ call'[c].stage = "idle"
  BY <1>2 DEF IsReplay, NoCall
<1>4. CASE ~IsReplay(c)
  <2>1. dropped' = dropped
    BY <1>4 DEF Finish
  <2>2. \A d \in InboundCalls : Carries(d)
    <3>1. Carries(c)
      BY <1>1, <1>2 DEF Carries, In
    <3>2. ASSUME NEW d \in InboundCalls, d # c
          PROVE  Carries(d)
      BY <3>2, <1>1, <1>2 DEF Carries, RowsAndMessages, TurnsAreHanded, In
    <3> QED
      BY <3>1, <3>2
  <2> QED
    BY <1>1, <2>1, <2>2, CallsCarry DEF InboundTypeOK
<1>5. CASE IsReplay(c)
  <2> DEFINE marked == [call[c].row EXCEPT !.status = "replayed"]
  <2>1. dropped' = {r \in dropped : r.id # call[c].row.id} \cup {marked}
    BY <1>5 DEF Finish, SaveDroppedEvent
  <2>2. call[c].row \in DroppedRecord /\ call[c].row \in Replayed
    BY <1>1, <1>5, CallParts DEF IsReplay, Replayed
  <2>3. marked.id = call[c].row.id /\ marked.event = call[c].row.event
    BY <2>2 DEF DroppedRecord
  <2> HIDE DEF marked
  <2>4. \A d \in InboundCalls : IsReplay(d)' => call'[d] = call[d] /\ IsReplay(d)
    BY <1>2, <1>3 DEF IsReplay
  <2>5. Replayed' \subseteq Replayed
    BY <2>4 DEF Replayed
  <2>6. \A r \in (dropped \cup Replayed)' :
          \E q \in dropped \cup Replayed : r.id = q.id /\ r.event = q.event
    BY <2>1, <2>2, <2>3, <2>5
  <2>7. RowsAreNumbered'
    <3>1. \A r \in (dropped \cup Replayed)' : r.id <= rowIds'
      BY <2>6, <1>1 DEF RowsAndMessages, RowsAreNumbered
    <3>2. \A r, q \in (dropped \cup Replayed)' : r.id = q.id => r.event = q.event
      BY <2>6 DEF RowsAndMessages, RowsAreNumbered
    <3> QED
      BY <3>1, <3>2 DEF RowsAreNumbered
  <2>8. ReplaysFit'
    BY <2>4 DEF ReplaysFit, Event, RowsAndMessages
  <2>9. TurnsAreHanded'
    BY <1>1, <1>2, <1>3 DEF TurnsAreHanded, RowsAndMessages, In, Event
  <2>10. ASSUME NEW m, IsKept(m)
         PROVE  IsKept(m)'
    <3>1. CASE m \in handed \cup excused \/ \E lapsed \in overdue : lapsed[2] = m
      BY <3>1, <1>1 DEF IsKept
    <3>2. ASSUME NEW row \in dropped, row.event.message = m, row.status = "open",
                 \A d \in InboundCalls : ~Marking(d, row)
          PROVE  IsKept(m)'
      <4>1. row \in dropped'
        BY <1>1, <1>5, <2>1, <3>2 DEF Marking
      <4>2. \A d \in InboundCalls : ~Marking(d, row)'
        BY <3>2, <2>4 DEF Marking, In
      <4> QED
        BY <4>1, <4>2, <3>2 DEF IsKept
    <3> QED
      BY <2>10, <3>1, <3>2 DEF IsKept
  <2>11. \A m \in 1..messages : \A d \in InboundCalls :
           ~IsReplay(d) => call'[d] = call[d]
    BY <1>2, <1>5
  <2>12. MessagesAreKept'
    BY <1>1, <2>10, <2>11 DEF RowsAndMessages, MessagesAreKept, Event, IsReplay
  <2> QED
    BY <2>7, <2>8, <2>9, <2>12 DEF RowsAndMessages
<1> QED
  BY <1>4, <1>5

------------------------------------------------------------------------------
\* The records of unknown channels.

Records == RecordingsAreAlone /\ CopiesAreTrue /\ DropCountsAreTrue

\* A call that records stays as it is, or ends.
LEMMA RecordingsStay ==
  ASSUME Records, UNCHANGED <<drops, recorded, contended>>,
         \A c \in InboundCalls :
           call'[c].stage \in {"adopt", "record"} => call'[c] = call[c]
  PROVE  Records'
<1>1. \A ch : Recording(ch)' \subseteq Recording(ch)
  BY DEF Recording, Event
<1>2. \A ch, c : c \in Recording(ch)' => call'[c] = call[c]
  BY DEF Recording
<1>3. RecordingsAreAlone'
  BY <1>1 DEF Records, RecordingsAreAlone
<1>4. CopiesAreTrue'
  BY <1>1, <1>2 DEF Records, CopiesAreTrue, In
<1>5. DropCountsAreTrue'
  BY DEF Records, DropCountsAreTrue
<1> QED
  BY <1>3, <1>4, <1>5 DEF Records

\* What a step of a call that records, or begins to, leaves of the others.
LEMMA OtherRecordings ==
  ASSUME NEW c \in InboundCalls, \A d \in InboundCalls : d # c => call'[d] = call[d],
         Event(c)' = Event(c)
  PROVE  \A ch : /\ Recording(ch)' \subseteq Recording(ch) \cup {c}
                 /\ ch # Event(c).channel => Recording(ch)' \subseteq Recording(ch) \ {c}
BY DEF Recording, Event

\* A call that finds the only recording of its channel has the record as it is.
LEMMA LooksWell ==
  ASSUME InboundTypeOK, Records, NEW c \in InboundCalls, LookForDrop(c)
  PROVE  Records'
<1> DEFINE own == Event(c).channel
<1>1. /\ In(c, "look") /\ ~In(c, "idle") /\ call[c] \in CallRecord
      /\ call \in [InboundCalls -> CallRecord \cup {NoCall}]
  BY CallParts DEF LookForDrop, In, InboundTypeOK
<1>2. call' = [call EXCEPT ![c] = [call[c] EXCEPT !.copy = drops[own],
                 !.stage = IF drops[own] = NoRecord THEN "adopt" ELSE "record"]]
  BY <1>1 DEF LookForDrop
<1>3. /\ call'[c] = [call[c] EXCEPT !.copy = drops[own],
                 !.stage = IF drops[own] = NoRecord THEN "adopt" ELSE "record"]
      /\ \A d \in InboundCalls : d # c => call'[d] = call[d]
  BY <1>1, <1>2
<1>4. /\ call'[c].event = call[c].event /\ call'[c].copy = drops[own]
      /\ call'[c].stage = IF drops[own] = NoRecord THEN "adopt" ELSE "record"
  BY <1>1, <1>3 DEF CallRecord
<1>5. UNCHANGED <<drops, recorded>>
      /\ contended' = IF Recording(own) = {} THEN contended ELSE contended \cup {own}
  BY DEF LookForDrop
<1>6. \A ch : /\ Recording(ch)' \subseteq Recording(ch) \cup {c}
              /\ ch # own => Recording(ch)' \subseteq Recording(ch) \ {c}
  BY <1>3, <1>4, OtherRecordings DEF Event
<1>7. c \notin Recording(own)
  BY <1>1 DEF Recording, In
<1>8. ASSUME NEW ch \in Channels \ contended'
      PROVE  /\ \A d, e \in Recording(ch)' : d = e
             /\ \A d \in Recording(ch)' :
                  IF drops'[ch] = NoRecord THEN In(d, "record")' => call'[d].copy.count = 0
                  ELSE In(d, "record")' /\ call'[d].copy = drops'[ch]
  <2>1. ch \in Channels \ contended
    BY <1>5, <1>8
  <2>2. CASE ch = own
    <3>1. Recording(ch)' \subseteq {c}
      BY <1>5, <1>6, <1>8, <2>2
    <3> QED
      BY <3>1, <1>4, <1>5, <2>2 DEF In
  <2>3. CASE ch # own
    <3>1. \A d \in Recording(ch)' : d \in Recording(ch) /\ call'[d] = call[d]
      BY <1>3, <1>6, <2>3 DEF Recording
    <3> QED
      BY <3>1, <2>1, <1>5 DEF Records, RecordingsAreAlone, CopiesAreTrue, In
  <2> QED
    BY <2>2, <2>3
<1>9. DropCountsAreTrue'
  BY <1>5 DEF Records, DropCountsAreTrue
<1> QED
  BY <1>8, <1>9 DEF Records, RecordingsAreAlone, CopiesAreTrue

\* A record that does not exist yet begins at 0.
LEMMA AdoptsWell ==
  ASSUME InboundTypeOK, Records, NEW c \in InboundCalls, AdoptDrop(c)
  PROVE  Records'
<1> DEFINE own == Event(c).channel
           adopted == [id |-> IF drops[own] = NoRecord THEN rowIds + 1 ELSE drops[own].id,
                       count |-> 0]
<1>1. /\ In(c, "adopt") /\ ~In(c, "idle") /\ call[c] \in CallRecord
      /\ call \in [InboundCalls -> CallRecord \cup {NoCall}]
  BY CallParts DEF AdoptDrop, In, InboundTypeOK
<1>2. call' = [call EXCEPT ![c] = [call[c] EXCEPT !.stage = "record", !.copy = adopted]]
  BY <1>1 DEF AdoptDrop
<1>3. adopted.count = 0
  OBVIOUS
<1> HIDE DEF adopted
<1>4. /\ call'[c] = [call[c] EXCEPT !.stage = "record", !.copy = adopted]
      /\ \A d \in InboundCalls : d # c => call'[d] = call[d]
  BY <1>1, <1>2
<1>5. call'[c].event = call[c].event /\ call'[c].copy = adopted /\ call'[c].stage = "record"
  BY <1>1, <1>4 DEF CallRecord
<1>6. UNCHANGED <<drops, recorded, contended>>
  BY DEF AdoptDrop, inboundHistory
<1>7. \A ch : Recording(ch)' = Recording(ch)
  <2>1. \A d \in InboundCalls :
          /\ Event(d)' = Event(d)
          /\ call'[d].stage \in {"adopt", "record"} <=> call[d].stage \in {"adopt", "record"}
    BY <1>1, <1>4, <1>5 DEF Event, In
  <2> QED
    BY <2>1 DEF Recording
<1>8. ASSUME NEW ch \in Channels \ contended, NEW d \in Recording(ch)
      PROVE  IF drops'[ch] = NoRecord THEN In(d, "record")' => call'[d].copy.count = 0
             ELSE In(d, "record")' /\ call'[d].copy = drops'[ch]
  <2>1. d \in InboundCalls
    BY DEF Recording
  <2>2. CASE d # c
    BY <1>4, <1>6, <2>1, <2>2 DEF Records, CopiesAreTrue, In
  <2>3. CASE d = c
    <3>1. drops[ch] = NoRecord
      BY <1>1, <2>3 DEF Records, CopiesAreTrue, In
    <3> QED
      BY <3>1, <1>3, <1>5, <1>6, <2>3
  <2> QED
    BY <2>2, <2>3
<1>9. DropCountsAreTrue'
  BY <1>6 DEF Records, DropCountsAreTrue
<1> QED
  BY <1>6, <1>7, <1>8, <1>9 DEF Records, RecordingsAreAlone, CopiesAreTrue

\* A record that is written counts one more than before.
LEMMA SavesWell ==
  ASSUME InboundAssumption, InboundTypeOK, Records, NEW c \in InboundCalls, SaveDrop(c)
  PROVE  Records'
<1> DEFINE own == Event(c).channel
           copy == call[c].copy
<1>1. /\ In(c, "record") /\ ~In(c, "idle") /\ Event(c) \in EventRecord /\ copy \in DropRecord
      /\ own \in Channels
  BY CallParts DEF SaveDrop, In, InboundTypeOK, EventRecord
<1>2. contended' = contended
  BY DEF SaveDrop
<1>3. c \in Recording(own)
  BY <1>1 DEF Recording, In
<1>4. CASE ~(drops[own] # NoRecord => drops[own].id = copy.id)
  <2>1. Leave(c) /\ UNCHANGED <<drops, recorded>>
    BY <1>4 DEF SaveDrop
  <2>2. call'[c] = NoCall /\ \A d \in InboundCalls : d # c => call'[d] = call[d]
    BY <2>1, Left
  <2> QED
    BY <1>2, <2>1, <2>2, RecordingsStay DEF NoCall
<1>5. CASE drops[own] # NoRecord => drops[own].id = copy.id
  <2>1. /\ Goto(c, "reject") /\ drops' = [drops EXCEPT ![own] = CountOne(copy)]
        /\ recorded' = [recorded EXCEPT ![own] = @ + 1]
    BY <1>5 DEF SaveDrop
  <2>2. /\ call'[c].stage = "reject" /\ call'[c].event = call[c].event
        /\ \A d \in InboundCalls : d # c => call'[d] = call[d]
    BY <1>1, <2>1, Moved DEF CallStages
  <2>3. CountOne(copy) \in DropRecord /\ CountOne(copy).count = copy.count + 1
    BY <1>1 DEF CountOne, DropRecord
  <2>4. CountOne(copy) # NoRecord
    BY <2>3 DEF InboundAssumption
  <2> HIDE DEF own, copy
  <2>5. /\ drops \in [Channels -> DropRecord \cup {NoRecord}] /\ recorded \in [Channels -> Nat]
    BY DEF InboundTypeOK
  <2>6. /\ drops'[own] = CountOne(copy) /\ recorded'[own] = recorded[own] + 1
        /\ \A ch \in Channels \ {own} : drops'[ch] = drops[ch] /\ recorded'[ch] = recorded[ch]
    BY <1>1, <2>1, <2>5
  <2>7. \A ch \in Channels : \A d \in Recording(ch)' :
          d \in Recording(ch) /\ d # c /\ call'[d] = call[d]
    BY <2>2 DEF Recording, Event
  <2>8. ASSUME NEW ch \in Channels \ contended, ch = own
        PROVE  Recording(ch)' = {}
    BY <1>3, <2>7, <2>8 DEF Records, RecordingsAreAlone
  <2>9. RecordingsAreAlone'
    BY <1>2, <2>7 DEF Records, RecordingsAreAlone
  <2>10. CopiesAreTrue'
    <3>1. SUFFICES ASSUME NEW ch \in Channels \ contended, NEW d \in Recording(ch)'
                   PROVE  IF drops'[ch] = NoRecord THEN In(d, "record")' => call'[d].copy.count = 0
                          ELSE In(d, "record")' /\ call'[d].copy = drops'[ch]
      BY <1>2 DEF CopiesAreTrue
    <3>2. ch # own
      BY <2>8, <3>1
    <3> QED
      BY <2>6, <2>7, <3>2 DEF Records, CopiesAreTrue, In
  <2>11. DropCountsAreTrue'
    <3>1. SUFFICES ASSUME NEW ch \in Channels \ contended
                   PROVE  recorded'[ch] = IF drops'[ch] = NoRecord THEN 0 ELSE drops'[ch].count
      BY <1>2 DEF DropCountsAreTrue
    <3>2. CASE ch # own
      BY <2>6, <3>2 DEF Records, DropCountsAreTrue
    <3>3. CASE ch = own
      <4>1. recorded[own] = copy.count
        <5>1. IF drops[own] = NoRecord THEN copy.count = 0 ELSE copy = drops[own]
          BY <1>1, <1>3, <3>3 DEF Records, CopiesAreTrue, copy
        <5> QED
          BY <5>1, <3>3 DEF Records, DropCountsAreTrue
      <4> QED
        BY <4>1, <2>3, <2>4, <2>6, <3>3
    <3> QED
      BY <3>2, <3>3
  <2> QED
    BY <2>9, <2>10, <2>11 DEF Records
<1> QED
  BY <1>4, <1>5

\* chat bind begins anew, unless a recording is under way.
LEMMA BindsWell ==
  ASSUME InboundTypeOK, Records, NEW ch \in Channels, BindChat(ch)
  PROVE  Records'
<1>1. /\ UNCHANGED call /\ drops' = [drops EXCEPT ![ch] = NoRecord]
      /\ recorded' = [recorded EXCEPT ![ch] = 0]
      /\ contended' = IF Recording(ch) = {} THEN contended \ {ch} ELSE contended \cup {ch}
  BY DEF BindChat, Command, DeleteDrop
<1>2. \A other : Recording(other)' = Recording(other)
  BY <1>1 DEF Recording, Event
<1>3. /\ drops'[ch] = NoRecord /\ recorded'[ch] = 0
      /\ \A other \in Channels \ {ch} :
           drops'[other] = drops[other] /\ recorded'[other] = recorded[other]
  BY <1>1 DEF InboundTypeOK
<1>4. \A other \in Channels \ contended' :
        \/ other = ch /\ Recording(ch) = {}
        \/ other # ch /\ other \in Channels \ contended
  BY <1>1
<1>5. RecordingsAreAlone'
  BY <1>2, <1>4 DEF Records, RecordingsAreAlone
<1>6. CopiesAreTrue'
  BY <1>1, <1>2, <1>3, <1>4 DEF Records, CopiesAreTrue, In
<1>7. DropCountsAreTrue'
  BY <1>3, <1>4 DEF Records, DropCountsAreTrue
<1> QED
  BY <1>5, <1>6, <1>7 DEF Records

------------------------------------------------------------------------------
\* The start and the steps.

\* It holds at the start.
LEMMA InboundStarts ==
  ASSUME InboundInit
  PROVE  InboundIInv
<1> USE DEF InboundInit
<1>1. \A c \in InboundCalls : call[c] = NoCall /\ ~IsReplay(c) /\ call[c].stage = "idle"
  BY DEF NoCall, IsReplay
<1>2. InboundTypeOK
  BY <1>1 DEF InboundTypeOK, In
<1>3. Replayed = {}
  BY <1>1 DEF Replayed
<1>4. RowsAreNumbered /\ ReplaysFit
  BY <1>1, <1>3 DEF RowsAreNumbered, ReplaysFit
<1>5. MessagesAreKept /\ TurnsAreHanded
  BY <1>1 DEF MessagesAreKept, TurnsAreHanded, In
<1>6. \A ch : Recording(ch) = {}
  BY <1>1 DEF Recording
<1>7. RecordingsAreAlone /\ CopiesAreTrue /\ DropCountsAreTrue
  BY <1>6 DEF RecordingsAreAlone, CopiesAreTrue, DropCountsAreTrue
<1> QED
  BY <1>2, <1>4, <1>5, <1>7 DEF InboundIInv

\* The parts but the types.
Kept == RowsAndMessages /\ Records

\* Every action keeps them, the types given.
LEMMA InboundKeeps ==
  ASSUME InboundAssumption, InboundTypeOK, InboundTypeOK', Kept, InboundNext
  PROVE  Kept'
<1> USE DEF Kept
<1>0. rowIds' \in Nat /\ messages \in Nat /\ rowIds \in Nat
  BY DEF InboundTypeOK
<1>1. ASSUME NEW c \in InboundCalls, NEW ch \in Channels, HandleInbound(c, ch)
      PROVE  Kept'
  <2>1. [message |-> messages + 1, channel |-> ch] \in EventRecord
    BY <1>0 DEF EventRecord
  <2>2. /\ \A d \in InboundCalls : d # c => call'[d] = call[d]
        /\ call'[c].stage = "admit"
        /\ UNCHANGED <<drops, recorded, contended>>
    BY <1>1, <2>1, Entered DEF HandleInbound, Enter, inboundHistory
  <2> QED
    BY <1>1, <2>2, ArrivesWell, RecordingsStay
<1>2. ASSUME NEW c \in InboundCalls, NEW row \in dropped, AllowDropped(c, row)
      PROVE  Kept'
  <2>1. row.event \in EventRecord /\ row \in DroppedRecord
    BY DEF InboundTypeOK, DroppedRecord
  <2>2. /\ \A d \in InboundCalls : d # c => call'[d] = call[d]
        /\ call'[c].stage = "admit"
        /\ UNCHANGED <<drops, recorded, contended>>
    BY <1>2, <2>1, Entered DEF AllowDropped, Enter, inboundHistory
  <2> QED
    BY <1>2, <2>2, ReplayBeginsWell, RecordingsStay
<1>3. ASSUME NEW c \in InboundCalls, CallFails(c)
      PROVE  Kept'
  <2>1. call'[c] = NoCall /\ \A d \in InboundCalls : d # c => call'[d] = call[d]
    BY <1>3, Left DEF CallFails
  <2>2. /\ UNCHANGED <<dropped, messages, rowIds, overdue, handed, drops, recorded, contended>>
        /\ excused \subseteq excused' /\ (~IsReplay(c) => Event(c).message \in excused')
    BY <1>3 DEF CallFails, Excuse
  <2>3. \A d \in InboundCalls : Carries(d)
    BY <2>1, <2>2 DEF Carries, RowsAndMessages, TurnsAreHanded, In
  <2> QED
    BY <1>0, <2>1, <2>2, <2>3, CallsCarry, RecordingsStay DEF NoCall
<1>4. CASE InboundCrash
  <2>1. \A d \in InboundCalls : call'[d] = NoCall
    BY <1>4 DEF InboundCrash
  <2>2. /\ UNCHANGED <<dropped, messages, rowIds, overdue, handed, drops, recorded, contended>>
        /\ excused \subseteq excused'
        /\ \A d \in InboundCalls : ~In(d, "idle") /\ ~IsReplay(d) => Event(d).message \in excused'
    BY <1>4 DEF InboundCrash, Excuse
  <2>3. \A d \in InboundCalls : Carries(d)
    BY <2>1, <2>2, IdleParts DEF Carries
  <2> QED
    BY <1>0, <2>1, <2>2, <2>3, CallsCarry, RecordingsStay DEF NoCall
<1>5. ASSUME NEW c \in InboundCalls, ~In(c, "idle"), NEW stage \in CallStages, Goto(c, stage),
             stage \notin {"adopt", "record"},
             stage \in {"turn", "finish"} => Event(c).message \in handed' \cup excused',
             stage = "turn" => Event(c).message \in handed',
             dropped' \subseteq dropped, \A r \in dropped \ dropped' : Overdue(r),
             UNCHANGED <<drops, messages, rowIds, overdue, recorded, contended>>,
             handed \subseteq handed', excused \subseteq excused'
      PROVE  Kept'
  <2>1. /\ call'[c].stage = stage /\ call'[c].event = call[c].event
        /\ call'[c].row = call[c].row /\ \A d \in InboundCalls : d # c => call'[d] = call[d]
    BY <1>5, Moved
  <2>2. \A d \in InboundCalls : Carries(d)
    BY <1>5, <2>1 DEF Carries, RowsAndMessages, TurnsAreHanded, In
  <2> QED
    BY <1>0, <1>5, <2>1, <2>2, CallsCarry, RecordingsStay
<1>6. ASSUME NEW c \in InboundCalls, AdmitInbound(c)
      PROVE  Kept'
  <2>1. PICK stage \in {"look", "reject", "route", "filter"} : Goto(c, stage)
    BY <1>6 DEF AdmitInbound
  <2> QED
    BY <1>5, <1>6, <2>1 DEF AdmitInbound, In, CallStages, inboundCounters, inboundHistory
<1>7. ASSUME NEW c \in InboundCalls, LookForDrop(c)
      PROVE  Kept'
  <2>1. /\ call[c] \in CallRecord /\ In(c, "look")
        /\ UNCHANGED <<dropped, messages, rowIds, overdue, handed, excused>>
    BY <1>7, CallParts DEF LookForDrop, In, inboundCounters
  <2>2. /\ call'[c].event = call[c].event /\ call'[c].row = call[c].row
        /\ call'[c].stage \in {"adopt", "record"}
        /\ \A d \in InboundCalls : d # c => call'[d] = call[d]
    BY <1>7, <2>1 DEF LookForDrop, InboundTypeOK, CallRecord
  <2>3. \A d \in InboundCalls : Carries(d)
    BY <2>1, <2>2 DEF Carries, RowsAndMessages, TurnsAreHanded, In
  <2> QED
    BY <1>0, <1>7, <2>1, <2>3, CallsCarry, LooksWell
<1>8. ASSUME NEW c \in InboundCalls, AdoptDrop(c)
      PROVE  Kept'
  <2>1. /\ call[c] \in CallRecord /\ In(c, "adopt") /\ rowIds' = rowIds + 1
        /\ UNCHANGED <<dropped, messages, overdue, handed, excused>>
    BY <1>8, CallParts DEF AdoptDrop, In, inboundHistory
  <2>2. /\ call'[c].event = call[c].event /\ call'[c].row = call[c].row
        /\ call'[c].stage = "record"
        /\ \A d \in InboundCalls : d # c => call'[d] = call[d]
    BY <1>8, <2>1 DEF AdoptDrop, InboundTypeOK, CallRecord
  <2>3. \A d \in InboundCalls : Carries(d)
    BY <2>1, <2>2 DEF Carries, RowsAndMessages, TurnsAreHanded, In
  <2> QED
    BY <1>0, <1>8, <2>1, <2>3, CallsCarry, AdoptsWell
<1>9. ASSUME NEW c \in InboundCalls, SaveDrop(c)
      PROVE  Kept'
  <2>1. /\ In(c, "record") /\ ~In(c, "idle")
        /\ UNCHANGED <<dropped, messages, rowIds, overdue, handed>>
    BY <1>9 DEF SaveDrop, In, inboundCounters
  <2>2. CASE Goto(c, "reject") /\ excused' = excused
    <3>1. /\ call'[c].event = call[c].event /\ call'[c].row = call[c].row
          /\ call'[c].stage = "reject"
          /\ \A d \in InboundCalls : d # c => call'[d] = call[d]
      BY <2>1, <2>2, Moved DEF CallStages
    <3>2. \A d \in InboundCalls : Carries(d)
      BY <2>1, <3>1 DEF Carries, RowsAndMessages, TurnsAreHanded, In
    <3> QED
      BY <1>0, <1>9, <2>1, <2>2, <3>2, CallsCarry, SavesWell
  <2>3. CASE Leave(c) /\ Excuse({c})
    <3>1. call'[c] = NoCall /\ \A d \in InboundCalls : d # c => call'[d] = call[d]
      BY <2>3, Left
    <3>2. excused \subseteq excused' /\ (~IsReplay(c) => Event(c).message \in excused')
      BY <2>3 DEF Excuse
    <3>3. \A d \in InboundCalls : Carries(d)
      BY <2>1, <3>1, <3>2 DEF Carries, RowsAndMessages, TurnsAreHanded, In
    <3> QED
      BY <1>0, <1>9, <2>1, <3>2, <3>3, CallsCarry, SavesWell
  <2> QED
    BY <1>9, <2>2, <2>3 DEF SaveDrop
<1>10. ASSUME NEW c \in InboundCalls, RunFilters(c)
       PROVE  Kept'
  <2>1. PICK stage \in {"reject", "route"} : Goto(c, stage)
    BY <1>10 DEF RunFilters
  <2> QED
    BY <1>5, <1>10, <2>1 DEF RunFilters, In, CallStages, inboundCounters, inboundHistory
<1>11. ASSUME NEW c \in InboundCalls, DropEvent(c)
       PROVE  Kept'
  <2>1. In(c, "reject") /\ ~In(c, "idle") /\ Goto(c, "finish")
        /\ UNCHANGED <<drops, recorded, contended>>
    BY <1>11 DEF DropEvent, In, inboundHistory
  <2>2. call'[c].stage = "finish" /\ \A d \in InboundCalls : d # c => call'[d] = call[d]
    BY <2>1, Moved DEF CallStages
  <2> QED
    BY <1>11, <2>1, <2>2, DropsWell, RecordingsStay
<1>12. ASSUME NEW c \in InboundCalls, DropFails(c)
       PROVE  Kept'
  <2>1. dropped' \subseteq dropped /\ \A r \in dropped \ dropped' : Overdue(r)
    BY <1>12 DEF DropFails, Unexpired
  <2> QED
    BY <1>5, <1>12, <2>1 DEF DropFails, In, CallStages
<1>13. ASSUME NEW c \in InboundCalls, BeginTurn(c)
       PROVE  Kept'
  BY <1>5, <1>13 DEF BeginTurn, In, CallStages, inboundCounters
<1>14. ASSUME NEW c \in InboundCalls, TurnEnds(c)
       PROVE  Kept'
  <2>1. /\ In(c, "turn") /\ ~In(c, "idle") /\ Event(c).message \in handed
        /\ UNCHANGED <<dropped, drops, messages, rowIds, overdue, handed, excused,
                       recorded, contended>>
    BY <1>14 DEF TurnEnds, In, inboundCounters, inboundHistory, RowsAndMessages, TurnsAreHanded
  <2>2. CASE Goto(c, "finish")
    BY <1>5, <2>1, <2>2 DEF CallStages
  <2>3. CASE Leave(c)
    <3>1. call'[c] = NoCall /\ \A d \in InboundCalls : d # c => call'[d] = call[d]
      BY <2>3, Left
    <3>2. \A d \in InboundCalls : Carries(d)
      BY <2>1, <3>1 DEF Carries, RowsAndMessages, TurnsAreHanded, In
    <3> QED
      BY <1>0, <2>1, <3>1, <3>2, CallsCarry, RecordingsStay DEF NoCall
  <2> QED
    BY <1>14, <2>2, <2>3 DEF TurnEnds
<1>15. ASSUME NEW c \in InboundCalls, Finish(c)
       PROVE  Kept'
  <2>1. call'[c] = NoCall /\ \A d \in InboundCalls : d # c => call'[d] = call[d]
    BY <1>15, Left DEF Finish
  <2>2. UNCHANGED <<drops, recorded, contended>>
    BY <1>15 DEF Finish, inboundHistory
  <2> QED
    BY <1>15, <2>1, <2>2, FinishesWell, RecordingsStay DEF NoCall
<1>16. ASSUME UNCHANGED <<call, dropped, messages, rowIds, handed, excused>>,
              overdue \subseteq overdue'
       PROVE  RowsAndMessages'
  <2>1. \A d \in InboundCalls : Carries(d)
    BY <1>16 DEF Carries, RowsAndMessages, TurnsAreHanded, In
  <2> QED
    BY <1>0, <1>16, <2>1, CallsCarry
<1>17. ASSUME NEW ch \in Channels, BindChat(ch)
       PROVE  Kept'
  BY <1>16, <1>17, BindsWell DEF BindChat, Command
<1>18. ASSUME NEW ch \in Channels, ChangeChat(ch)
       PROVE  Kept'
  BY <1>16, <1>18, RecordingsStay DEF ChangeChat, Command
<1>19. ASSUME NEW row \in dropped, Expire(row)
       PROVE  Kept'
  <2>1. /\ UNCHANGED <<call, dropped, messages, rowIds, handed, excused>>
        /\ UNCHANGED <<drops, recorded, contended>> /\ overdue \subseteq overdue'
    BY <1>19 DEF Expire, inboundCounters, inboundHistory
  <2> QED
    BY <2>1, <1>16, RecordingsStay
<1> QED
  BY <1>1, <1>2, <1>3, <1>4, <1>6, <1>7, <1>8, <1>9, <1>10, <1>11, <1>12, <1>13, <1>14, <1>15,
     <1>17, <1>18, <1>19 DEF InboundNext

\* Every action keeps the types.
LEMMA InboundTypeStep ==
  ASSUME InboundAssumption, InboundTypeOK, InboundNext
  PROVE  InboundTypeOK'
<1>a. ASSUME NEW c \in InboundCalls, NEW ch \in Channels, HandleInbound(c, ch)
      PROVE  /\ call' \in [InboundCalls -> CallRecord \cup {NoCall}] /\ call'[c].stage = "admit"
             /\ \A d \in InboundCalls : d # c => call'[d] = call[d]
  <2>1. [message |-> messages + 1, channel |-> ch] \in EventRecord
    BY DEF InboundTypeOK, EventRecord
  <2> QED
    BY <1>a, <2>1, Entered DEF HandleInbound, Enter
<1>b. ASSUME NEW c \in InboundCalls, NEW row \in dropped, AllowDropped(c, row)
      PROVE  /\ call' \in [InboundCalls -> CallRecord \cup {NoCall}] /\ call'[c].stage = "admit"
             /\ \A d \in InboundCalls : d # c => call'[d] = call[d]
  <2>1. row.event \in EventRecord /\ row \in DroppedRecord
    BY DEF InboundTypeOK, DroppedRecord
  <2> QED
    BY <1>b, <2>1, Entered DEF AllowDropped, Enter
<1> USE DEF InboundTypeOK
<1> DEFINE CallsFit == /\ call \in [InboundCalls -> CallRecord \cup {NoCall}]
                       /\ \A c \in InboundCalls : In(c, "record") => call[c].copy # NoRecord
           RecordsFit == /\ channel \in [Channels -> {"unknown", "enabled", "disabled"}]
                         /\ drops \in [Channels -> DropRecord \cup {NoRecord}]
                         /\ recorded \in [Channels -> Nat]
<1>0. \A c \in InboundCalls : ~In(c, "idle") => Event(c).message \in Nat /\ Event(c).channel \in Channels
  BY CallParts DEF EventRecord
<1>1. ASSUME NEW c \in InboundCalls, Excuse({c}), ~In(c, "idle")
      PROVE  excused' \subseteq Nat
  BY <1>0, <1>1 DEF Excuse
<1>2. ASSUME NEW c \in InboundCalls, NEW ch \in Channels, HandleInbound(c, ch)
      PROVE  InboundTypeOK'
  <2>1. /\ call' \in [InboundCalls -> CallRecord \cup {NoCall}] /\ call'[c].stage = "admit"
        /\ \A d \in InboundCalls : d # c => call'[d] = call[d]
    BY <1>2, <1>a
  <2>2. CallsFit'
    BY <2>1 DEF In
  <2> QED
    BY <1>2, <2>2 DEF HandleInbound, Enter, inboundHistory
<1>3. ASSUME NEW c \in InboundCalls, NEW row \in dropped, AllowDropped(c, row)
      PROVE  InboundTypeOK'
  <2>1. /\ call' \in [InboundCalls -> CallRecord \cup {NoCall}] /\ call'[c].stage = "admit"
        /\ \A d \in InboundCalls : d # c => call'[d] = call[d]
    BY <1>3, <1>b
  <2>2. CallsFit'
    BY <2>1 DEF In
  <2> QED
    BY <1>3, <2>2 DEF AllowDropped, Enter, inboundHistory
<1>4. ASSUME NEW c \in InboundCalls, Leave(c)
      PROVE  CallsFit'
  BY <1>4, Left DEF In, NoCall
<1>5. ASSUME NEW c \in InboundCalls, ~In(c, "idle"), NEW stage \in CallStages, Goto(c, stage),
             stage # "record"
      PROVE  CallsFit'
  BY <1>5, Moved DEF In
<1>6. ASSUME NEW c \in InboundCalls, CallFails(c)
      PROVE  InboundTypeOK'
  BY <1>1, <1>4, <1>6 DEF CallFails, Trouble
<1>7. CASE InboundCrash
  <2>1. excused' \subseteq Nat
    BY <1>0, <1>7 DEF InboundCrash, Excuse
  <2>2. CallsFit'
    BY <1>7 DEF InboundCrash, In, NoCall
  <2> QED
    BY <1>7, <2>1, <2>2 DEF InboundCrash, Trouble
<1>8. ASSUME NEW c \in InboundCalls, AdmitInbound(c)
      PROVE  InboundTypeOK'
  <2>1. PICK stage \in {"look", "reject", "route", "filter"} : Goto(c, stage)
    BY <1>8 DEF AdmitInbound
  <2>2. CallsFit'
    BY <1>5, <1>8, <2>1 DEF AdmitInbound, In, CallStages
  <2> QED
    BY <1>8, <2>2 DEF AdmitInbound, inboundCounters, inboundHistory
<1>9. ASSUME NEW c \in InboundCalls, LookForDrop(c)
      PROVE  InboundTypeOK'
  <2>1. call[c] \in CallRecord /\ Event(c).channel \in Channels
    BY <1>0, <1>9, CallParts DEF LookForDrop, In
  <2>2. PICK copy \in DropRecord \cup {NoRecord}, stage \in {"adopt", "record"} :
          /\ call' = [call EXCEPT ![c] = [call[c] EXCEPT !.copy = copy, !.stage = stage]]
          /\ stage = "record" => copy # NoRecord
    BY <1>9, <2>1 DEF LookForDrop
  <2>3. /\ call'[c] = [call[c] EXCEPT !.copy = copy, !.stage = stage]
        /\ \A d \in InboundCalls : d # c => call'[d] = call[d]
    BY <2>2
  <2>4. call'[c] \in CallRecord /\ call'[c].stage = stage /\ call'[c].copy = copy
    BY <2>1, <2>3 DEF CallRecord
  <2>5. call' \in [InboundCalls -> CallRecord \cup {NoCall}]
    BY <2>2, <2>3, <2>4
  <2>6. CallsFit'
    BY <2>2, <2>3, <2>4, <2>5 DEF In
  <2> QED
    BY <1>9, <2>1, <2>6 DEF LookForDrop, inboundCounters
<1>10. ASSUME NEW c \in InboundCalls, AdoptDrop(c)
       PROVE  InboundTypeOK'
  <2>1. call[c] \in CallRecord /\ Event(c).channel \in Channels
    BY <1>0, <1>10, CallParts DEF AdoptDrop, In
  <2>2. drops[Event(c).channel] # NoRecord => drops[Event(c).channel].id \in Nat
    BY <2>1 DEF DropRecord
  <2> DEFINE adopted == [id |-> IF drops[Event(c).channel] = NoRecord THEN rowIds + 1
                                ELSE drops[Event(c).channel].id, count |-> 0]
  <2>3. adopted \in DropRecord
    BY <2>2 DEF DropRecord
  <2>4. call' = [call EXCEPT ![c] = [call[c] EXCEPT !.stage = "record", !.copy = adopted]]
    BY <1>10, <2>1 DEF AdoptDrop
  <2>5. PICK copy \in DropRecord :
          call' = [call EXCEPT ![c] = [call[c] EXCEPT !.stage = "record", !.copy = copy]]
    BY <2>3, <2>4, Zenon
  <2>6. /\ call'[c] = [call[c] EXCEPT !.stage = "record", !.copy = copy]
        /\ \A d \in InboundCalls : d # c => call'[d] = call[d]
    BY <2>5
  <2>7. call'[c] \in CallRecord /\ call'[c].copy = copy /\ copy # NoRecord
    BY <2>1, <2>6 DEF CallRecord, InboundAssumption
  <2>8. call' \in [InboundCalls -> CallRecord \cup {NoCall}]
    BY <2>5, <2>6, <2>7
  <2>9. CallsFit'
    BY <2>6, <2>7, <2>8 DEF In
  <2> QED
    BY <1>10, <2>9 DEF AdoptDrop, inboundHistory
<1>11. ASSUME NEW c \in InboundCalls, SaveDrop(c)
       PROVE  InboundTypeOK'
  <2>1. /\ In(c, "record") /\ ~In(c, "idle") /\ call[c].copy \in DropRecord
        /\ Event(c).channel \in Channels
    BY <1>0, <1>11, CallParts DEF SaveDrop, In
  <2>2. CountOne(call[c].copy) \in DropRecord
    BY <2>1 DEF CountOne, DropRecord
  <2>3. CallsFit'
    BY <1>4, <1>5, <1>11, <2>1 DEF SaveDrop, CallStages
  <2>4. excused' \subseteq Nat
    BY <1>1, <1>11, <2>1 DEF SaveDrop
  <2>5. drops' \in [Channels -> DropRecord \cup {NoRecord}]
    BY <1>11, <2>2 DEF SaveDrop
  <2>6. recorded' \in [Channels -> Nat]
    BY <1>11 DEF SaveDrop
  <2> QED
    BY <1>11, <2>3, <2>4, <2>5, <2>6 DEF SaveDrop, inboundCounters
<1>12. ASSUME NEW c \in InboundCalls, RunFilters(c)
       PROVE  InboundTypeOK'
  <2>1. CallsFit'
    BY <1>5, <1>12 DEF RunFilters, In, CallStages
  <2> QED
    BY <1>12, <2>1 DEF RunFilters, inboundCounters, inboundHistory
<1>13. ASSUME NEW c \in InboundCalls, DropEvent(c)
       PROVE  InboundTypeOK'
  <2>1. CallsFit'
    BY <1>5, <1>13 DEF DropEvent, In, CallStages
  <2>2. Event(c) \in EventRecord
    BY <1>13, CallParts DEF DropEvent, In
  <2>3. dropped' \subseteq DroppedRecord
    BY <1>13, <2>2 DEF DropEvent, Drop, Unexpired, DroppedRecord
  <2> QED
    BY <1>13, <2>1, <2>3 DEF DropEvent, inboundHistory
<1>14. ASSUME NEW c \in InboundCalls, DropFails(c)
       PROVE  InboundTypeOK'
  <2>1. CallsFit' /\ ~In(c, "idle")
    BY <1>5, <1>14 DEF DropFails, In, CallStages
  <2>2. dropped' \subseteq DroppedRecord /\ excused' \subseteq Nat
    BY <1>0, <1>14, <2>1 DEF DropFails, Unexpired
  <2> QED
    BY <1>14, <2>1, <2>2 DEF DropFails, Trouble
<1>15. ASSUME NEW c \in InboundCalls, BeginTurn(c)
       PROVE  InboundTypeOK'
  <2>1. CallsFit' /\ ~In(c, "idle")
    BY <1>5, <1>15 DEF BeginTurn, In, CallStages
  <2> QED
    BY <1>0, <1>15, <2>1 DEF BeginTurn, inboundCounters
<1>16. ASSUME NEW c \in InboundCalls, TurnEnds(c)
       PROVE  InboundTypeOK'
  <2>1. CallsFit'
    BY <1>4, <1>5, <1>16 DEF TurnEnds, In, CallStages
  <2> QED
    BY <1>16, <2>1 DEF TurnEnds, inboundCounters, inboundHistory
<1>17. ASSUME NEW c \in InboundCalls, Finish(c)
       PROVE  InboundTypeOK'
  <2>1. CallsFit' /\ ~In(c, "idle")
    BY <1>4, <1>17 DEF Finish, In
  <2>2. dropped' \subseteq DroppedRecord
    <3>1. CASE IsReplay(c)
      <4>1. call[c].row \in DroppedRecord
        BY <2>1, <3>1, CallParts DEF IsReplay
      <4>2. [call[c].row EXCEPT !.status = "replayed"] \in DroppedRecord
        BY <4>1 DEF DroppedRecord
      <4> QED
        BY <1>17, <3>1, <4>2 DEF Finish, SaveDroppedEvent
    <3>2. CASE ~IsReplay(c)
      BY <1>17, <3>2 DEF Finish
    <3> QED
      BY <3>1, <3>2
  <2> QED
    BY <1>17, <2>1, <2>2 DEF Finish, inboundCounters, inboundHistory
<1>18. ASSUME UNCHANGED call
       PROVE  CallsFit'
  BY <1>18 DEF In
<1>19. ASSUME NEW ch \in Channels, BindChat(ch)
       PROVE  InboundTypeOK'
  <2>1. CallsFit' /\ RecordsFit'
    BY <1>18, <1>19 DEF BindChat, Command, DeleteDrop
  <2> QED
    BY <1>19, <2>1 DEF BindChat, Command
<1>20. ASSUME NEW ch \in Channels, ChangeChat(ch)
       PROVE  InboundTypeOK'
  <2>1. CallsFit' /\ RecordsFit'
    BY <1>18, <1>20 DEF ChangeChat, Command
  <2> QED
    BY <1>20, <2>1 DEF ChangeChat, Command
<1>21. ASSUME NEW row \in dropped, Expire(row)
       PROVE  InboundTypeOK'
  <2>1. <<row.id, row.event.message>> \in Nat \X Nat
    BY DEF DroppedRecord, EventRecord
  <2> QED
    BY <1>18, <1>21, <2>1 DEF Expire, inboundCounters, inboundHistory
<1> QED
  BY <1>2, <1>3, <1>6, <1>7, <1>8, <1>9, <1>10, <1>11, <1>12, <1>13, <1>14, <1>15, <1>16, <1>17,
     <1>19, <1>20, <1>21 DEF InboundNext

\* Every step keeps the whole invariant.
LEMMA InboundStep ==
  ASSUME InboundAssumption, InboundIInv, [InboundNext]_inboundVars
  PROVE  InboundIInv'
<1>1. CASE InboundNext
  <2>1. InboundTypeOK'
    BY <1>1, InboundTypeStep DEF InboundIInv
  <2>2. Kept'
    BY <1>1, <2>1, InboundKeeps DEF InboundIInv, Kept, RowsAndMessages, Records
  <2> QED
    BY <2>1, <2>2 DEF InboundIInv, Kept, RowsAndMessages, Records
<1>2. CASE UNCHANGED inboundVars
  <2> USE <1>2 DEF inboundVars
  <2>1. InboundTypeOK'
    BY DEF InboundIInv, InboundTypeOK, In
  <2>2. Replayed' = Replayed /\ \A ch : Recording(ch)' = Recording(ch)
    BY DEF Replayed, Recording, IsReplay, Event
  <2>3. RowsAreNumbered' /\ ReplaysFit'
    BY <2>2 DEF InboundIInv, RowsAreNumbered, ReplaysFit, IsReplay, Event
  <2>4. \A m : IsKept(m)' <=> IsKept(m)
    BY DEF IsKept, Marking, In, IsReplay
  <2>5. MessagesAreKept' /\ TurnsAreHanded'
    BY <2>4 DEF InboundIInv, MessagesAreKept, TurnsAreHanded, In, IsReplay, Event
  <2>6. RecordingsAreAlone' /\ CopiesAreTrue' /\ DropCountsAreTrue'
    BY <2>2 DEF InboundIInv, RecordingsAreAlone, CopiesAreTrue, DropCountsAreTrue, In
  <2> QED
    BY <2>1, <2>3, <2>5, <2>6 DEF InboundIInv
<1> QED
  BY <1>1, <1>2
------------------------------------------------------------------------------
\* Theorems.

\* In every reachable state of the admission of messages the inductive invariant holds.
THEOREM InboundInvariant == InboundSpec => []InboundIInv
<1>1. InboundInit => InboundIInv
  BY InboundStarts
<1>2. InboundIInv /\ [InboundNext]_inboundVars => InboundIInv'
  BY InboundAssumption, InboundStep
<1> QED
  BY <1>1, <1>2, PTL DEF InboundSpec

\* The state always has its types (the entities of internal/repository).
THEOREM InboundTypeCorrect == InboundSpec => []InboundTypeOK
<1>1. InboundIInv => InboundTypeOK
  BY DEF InboundIInv
<1> QED
  BY <1>1, InboundInvariant, PTL

\* However calls, replays and commands about channels interleave, a message whose
\* handling ended reached a turn or is in an open dropped event until its retention
\* ends, errors and stops apart, and records of unknown channels that did not overlap
\* count their messages (handleInbound, AllowDropped and RecordInboundDrop).
THEOREM NothingIsLost == InboundSpec => []InboundIsRecorded
<1>1. InboundIInv => InboundIsRecorded
  <2>1. ASSUME NEW m, IsKept(m)
        PROVE  \/ m \in handed \cup excused
               \/ \E lapsed \in overdue : lapsed[2] = m
               \/ \E row \in dropped : row.event.message = m /\ row.status = "open"
    BY <2>1 DEF IsKept
  <2>2. MessagesAreKept => EventsAreKept
    BY <2>1 DEF MessagesAreKept, EventsAreKept
  <2> QED
    BY <2>2 DEF InboundIInv, InboundIsRecorded
<1> QED
  BY <1>1, InboundInvariant, PTL
==============================================================================
