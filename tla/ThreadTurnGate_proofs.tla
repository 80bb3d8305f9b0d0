----------------------- MODULE ThreadTurnGate_proofs -----------------------
(***************************************************************************)
(* The turn gate is correct for any number of threads, callers and heap    *)
(* cells: the inductive invariant IInv, the safety invariants that follow  *)
(* from it, and the refinement of TurnAdmission.                           *)
(***************************************************************************)
EXTENDS ThreadTurnGate, FiniteSetTheorems, TLAPS

Users(s) == {c \in Callers : gate[c] = s}

\* A caller inside Acquire or a turn points to the semaphore that its thread
\* is mapped to; a caller outside points to nothing.
PointersAgree ==
  \A c \in Callers :
    IF pc[c] = "idle"
      THEN gate[c] = NoSemaphore /\ scope[c] = NoThread
      ELSE scope[c] \in Threads /\ gate[c] \in Semaphores /\ gates[scope[c]] = gate[c]

\* Threads do not share a semaphore, and every mapped one has a user.
MapIsTight ==
  /\ \A t, u \in Threads : gates[t] = gates[u] /\ gates[t] # NoSemaphore => t = u
  /\ \A t \in Threads : gates[t] # NoSemaphore => \E c \in Callers : gate[c] = gates[t]

RefsCountUsers == \A s \in Semaphores : refs[s] = Cardinality(Users(s))

\* The token of a semaphore is out exactly while one caller runs on it.
TokenIsHeld ==
  /\ \A c \in Callers : pc[c] = "running" => sem[gate[c]] = 1
  /\ \A s \in Semaphores :
       sem[s] = 1 => \E c \in Callers : pc[c] = "running" /\ gate[c] = s
  /\ \A c, d \in Callers :
       pc[c] = "running" /\ pc[d] = "running" /\ gate[c] = gate[d] => c = d

IInv ==
  /\ TypeOK
  /\ PointersAgree
  /\ MapIsTight
  /\ RefsCountUsers
  /\ TokenIsHeld
  /\ IdleShutdownIsFinal
------------------------------------------------------------------------------
\* Users of a semaphore are counted by natural numbers, and a semaphore with
\* a user has a positive count.
LEMMA UsersFinite ==
  ASSUME NEW s
  PROVE  /\ IsFiniteSet(Users(s))
         /\ Cardinality(Users(s)) \in Nat
         /\ Cardinality(Users(s)) = 0 <=> Users(s) = {}
<1>1. IsFiniteSet(Users(s))
  BY GateAssumption, FS_Subset DEF Users
<1> QED
  BY <1>1, FS_CardinalityType, FS_EmptySet

\* One caller more on a semaphore raises its number of users by one.
LEMMA UsersJoin ==
  ASSUME NEW c \in Callers, NEW s, gate \in [Callers -> Semaphores \cup {NoSemaphore}],
         gate[c] # s, gate' = [gate EXCEPT ![c] = s]
  PROVE  Cardinality(Users(s)') = Cardinality(Users(s)) + 1
<1>1. Users(s)' = Users(s) \cup {c}
  BY DEF Users
<1>2. c \notin Users(s)
  BY DEF Users
<1> QED
  BY <1>1, <1>2, UsersFinite, FS_AddElement

\* One caller less lowers it by one.
LEMMA UsersLeave ==
  ASSUME NEW c \in Callers, NEW s, gate \in [Callers -> Semaphores \cup {NoSemaphore}],
         gate[c] = s, s # NoSemaphore, gate' = [gate EXCEPT ![c] = NoSemaphore]
  PROVE  Cardinality(Users(s)') = Cardinality(Users(s)) - 1
<1>1. Users(s)' = Users(s) \ {c}
  BY DEF Users
<1>2. c \in Users(s)
  BY DEF Users
<1> QED
  BY <1>1, <1>2, UsersFinite, FS_RemoveElement

\* A pointer that moves between other semaphores leaves the users of s alone.
LEMMA UsersSame ==
  ASSUME NEW c \in Callers, NEW s, NEW r,
         gate \in [Callers -> Semaphores \cup {NoSemaphore}],
         gate[c] # s, r # s, gate' = [gate EXCEPT ![c] = r]
  PROVE  Users(s)' = Users(s)
BY DEF Users

\* The initial state satisfies the inductive invariant.
LEMMA InitIInv == Init => IInv
<1> SUFFICES ASSUME Init PROVE IInv
  OBVIOUS
<1>1. TypeOK
  BY DEF Init, TypeOK
<1>2. PointersAgree /\ MapIsTight /\ IdleShutdownIsFinal
  BY DEF Init, PointersAgree, MapIsTight, IdleShutdownIsFinal
<1>3. TokenIsHeld
  BY DEF Init, TokenIsHeld
<1>4. RefsCountUsers
  <2> SUFFICES ASSUME NEW s \in Semaphores PROVE refs[s] = Cardinality(Users(s))
    BY DEF RefsCountUsers
  <2>1. Users(s) = {}
    BY GateAssumption DEF Init, Users
  <2> QED
    BY <2>1, UsersFinite DEF Init
<1> QED
  BY <1>1, <1>2, <1>3, <1>4 DEF IInv

\* Joining a semaphore: the caller is counted on it, the map entry of its
\* thread points to it, and a new semaphore is empty and was used by nobody.
LEMMA RetainIInv ==
  ASSUME IInv, NEW c \in Callers, NEW t \in Threads, Retain(c, t)
  PROVE  IInv'
<1> USE GateAssumption
<1>0. PICK s \in Semaphores :
        /\ IF gates[t] = NoSemaphore THEN Unreferenced(s) ELSE s = gates[t]
        /\ refs' = [refs EXCEPT ![s] = IF gates[t] = NoSemaphore THEN 1 ELSE @ + 1]
        /\ sem' = [sem EXCEPT ![s] = IF gates[t] = NoSemaphore THEN 0 ELSE @]
        /\ gates' = [gates EXCEPT ![t] = s]
        /\ gate' = [gate EXCEPT ![c] = s]
  BY DEF Retain, RetainIf
<1>1. /\ pc[c] = "idle" /\ ~closing
      /\ pc' = [pc EXCEPT ![c] = "waiting"]
      /\ scope' = [scope EXCEPT ![c] = t]
      /\ UNCHANGED <<closing, ctxDone, reply>>
  BY DEF Retain, RetainIf
<1>2. TypeOK /\ gate[c] = NoSemaphore
  BY <1>1 DEF IInv, PointersAgree
<1>3. TypeOK'
  BY <1>0, <1>1, <1>2 DEF TypeOK
<1>4. \A d \in Callers : gate[d] = s => d # c /\ scope[d] = t /\ gates[t] = s
  BY <1>0, <1>1 DEF IInv, PointersAgree, MapIsTight, Unreferenced, TypeOK
<1>5. PointersAgree'
  BY <1>0, <1>1, <1>2, <1>4 DEF IInv, PointersAgree, TypeOK
<1>6. MapIsTight'
  <2>1. \A u \in Threads : gates[u] = s => u = t
    BY <1>0 DEF IInv, MapIsTight, Unreferenced
  <2>2. gate'[c] = gates'[t] /\ gate'[c] = s
    BY <1>0, <1>2 DEF TypeOK
  <2>3. ASSUME NEW u \in Threads, u # t, gates'[u] # NoSemaphore
        PROVE  \E d \in Callers : gate'[d] = gates'[u]
    BY <2>3, <1>0, <1>2 DEF IInv, MapIsTight, TypeOK
  <2> QED
    BY <2>1, <2>2, <2>3, <1>0, <1>2 DEF IInv, MapIsTight, TypeOK
<1>7. RefsCountUsers'
  <2> SUFFICES ASSUME NEW r \in Semaphores PROVE refs'[r] = Cardinality(Users(r)')
    BY DEF RefsCountUsers, Users
  <2>1. CASE r # s
    BY <2>1, <1>0, <1>2, UsersSame DEF IInv, RefsCountUsers, TypeOK
  <2>2. CASE r = s
    <3>1. Cardinality(Users(s)') = Cardinality(Users(s)) + 1
      BY <1>0, <1>2, UsersJoin DEF TypeOK
    <3>2. gates[t] = NoSemaphore => Cardinality(Users(s)) = 0
      BY <1>4, UsersFinite DEF Users
    <3> QED
      BY <2>2, <3>1, <3>2, <1>0, <1>2 DEF IInv, RefsCountUsers, TypeOK
  <2> QED
    BY <2>1, <2>2
<1>8. TokenIsHeld'
  <2>1. \A d \in Callers : pc'[d] = "running" => d # c /\ pc[d] = "running" /\ gate'[d] = gate[d]
    BY <1>0, <1>1, <1>2 DEF TypeOK
  <2>2. \A d \in Callers : pc[d] = "running" => pc'[d] = "running" /\ gate'[d] = gate[d]
    BY <1>0, <1>1, <1>2 DEF TypeOK
  <2>3. \A d \in Callers : pc[d] = "running" => gate[d] \in Semaphores /\ sem'[gate[d]] = sem[gate[d]]
    BY <1>0, <1>2, <1>4 DEF IInv, PointersAgree, TypeOK
  <2>4. \A r \in Semaphores : sem'[r] = 1 => sem[r] = 1
    BY <1>0, <1>2 DEF TypeOK
  <2> QED
    BY <2>1, <2>2, <2>3, <2>4 DEF IInv, TokenIsHeld
<1>9. IdleShutdownIsFinal'
  BY <1>1 DEF IInv, IdleShutdownIsFinal
<1> QED
  BY <1>3, <1>5, <1>6, <1>7, <1>8, <1>9 DEF IInv

\* Taking the token: nobody runs on an empty semaphore, so the caller is alone.
LEMMA EnterIInv ==
  ASSUME IInv, NEW c \in Callers, Enter(c)
  PROVE  IInv'
<1>1. /\ pc[c] = "waiting" /\ sem[gate[c]] = 0
      /\ sem' = [sem EXCEPT ![gate[c]] = 1]
      /\ pc' = [pc EXCEPT ![c] = "running"]
      /\ UNCHANGED <<gates, closing, refs, scope, gate, ctxDone, reply>>
  BY DEF Enter
<1>2. TypeOK /\ gate[c] \in Semaphores
  BY <1>1 DEF IInv, PointersAgree
<1>3. TypeOK'
  BY <1>1, <1>2 DEF TypeOK
<1>4. PointersAgree' /\ MapIsTight'
  BY <1>1, <1>2 DEF IInv, PointersAgree, MapIsTight, TypeOK
<1>5. RefsCountUsers'
  BY <1>1 DEF IInv, RefsCountUsers, Users
<1>6. TokenIsHeld'
  <2>1. \A d \in Callers : pc[d] = "running" => gate[d] # gate[c]
    BY <1>1 DEF IInv, TokenIsHeld
  <2>2. \A d \in Callers : pc'[d] = "running" <=> d = c \/ pc[d] = "running"
    BY <1>1, <1>2 DEF TypeOK
  <2>3. \A s \in Semaphores : sem'[s] = IF s = gate[c] THEN 1 ELSE sem[s]
    BY <1>1, <1>2 DEF TypeOK
  <2>4. \A d \in Callers : pc[d] = "running" => gate[d] \in Semaphores
    BY DEF IInv, PointersAgree
  <2> QED
    BY <2>1, <2>2, <2>3, <2>4, <1>1, <1>2 DEF IInv, TokenIsHeld
<1>7. IdleShutdownIsFinal'
  BY <1>1 DEF IInv, IdleShutdownIsFinal
<1> QED
  BY <1>3, <1>4, <1>5, <1>6, <1>7 DEF IInv

\* Giving up the wait leaves the gate as it is.
LEMMA AbandonIInv ==
  ASSUME IInv, NEW c \in Callers, Abandon(c)
  PROVE  IInv'
<1>1. /\ pc[c] = "waiting"
      /\ pc' = [pc EXCEPT ![c] = "leaving"]
      /\ UNCHANGED <<gates, closing, refs, sem, scope, gate, ctxDone, reply>>
  BY DEF Abandon, gateVars
<1>2. TypeOK'
  BY <1>1 DEF IInv, TypeOK
<1>3. \A d \in Callers : /\ pc'[d] = "running" <=> pc[d] = "running"
                         /\ pc'[d] = "idle" <=> pc[d] = "idle"
  BY <1>1 DEF IInv, TypeOK
<1>4. PointersAgree' /\ MapIsTight' /\ RefsCountUsers'
  BY <1>1, <1>3 DEF IInv, PointersAgree, MapIsTight, RefsCountUsers, Users
<1>5. TokenIsHeld'
  BY <1>1, <1>3 DEF IInv, TokenIsHeld
<1>6. IdleShutdownIsFinal'
  BY <1>1, <1>3 DEF IInv, IdleShutdownIsFinal
<1> QED
  BY <1>2, <1>4, <1>5, <1>6 DEF IInv

\* Giving the token back: the caller was the only one running on it.
LEMMA DrainIInv ==
  ASSUME IInv, NEW c \in Callers, Drain(c)
  PROVE  IInv'
<1>1. /\ pc[c] = "running"
      /\ sem' = [sem EXCEPT ![gate[c]] = 0]
      /\ pc' = [pc EXCEPT ![c] = "leaving"]
      /\ UNCHANGED <<gates, closing, refs, scope, gate, ctxDone, reply>>
  BY DEF Drain
<1>2. TypeOK /\ gate[c] \in Semaphores
  BY <1>1 DEF IInv, PointersAgree
<1>3. TypeOK'
  BY <1>1, <1>2 DEF TypeOK
<1>4. PointersAgree' /\ MapIsTight'
  BY <1>1, <1>2 DEF IInv, PointersAgree, MapIsTight, TypeOK
<1>5. RefsCountUsers'
  BY <1>1 DEF IInv, RefsCountUsers, Users
<1>6. TokenIsHeld'
  <2>1. \A d \in Callers : pc[d] = "running" /\ gate[d] = gate[c] => d = c
    BY <1>1 DEF IInv, TokenIsHeld
  <2>2. \A d \in Callers : pc'[d] = "running" <=> d # c /\ pc[d] = "running"
    BY <1>1, <1>2 DEF TypeOK
  <2>3. \A s \in Semaphores : sem'[s] = IF s = gate[c] THEN 0 ELSE sem[s]
    BY <1>1, <1>2 DEF TypeOK
  <2>4. \A d \in Callers : pc[d] = "running" => gate[d] \in Semaphores
    BY DEF IInv, PointersAgree
  <2> QED
    BY <2>1, <2>2, <2>3, <2>4, <1>1, <1>2 DEF IInv, TokenIsHeld
<1>7. IdleShutdownIsFinal'
  BY <1>1 DEF IInv, IdleShutdownIsFinal
<1> QED
  BY <1>3, <1>4, <1>5, <1>6, <1>7 DEF IInv

\* The last user deletes the entry, and it is its own entry that goes.
LEMMA ReleaseIInv ==
  ASSUME IInv, NEW c \in Callers, Release(c)
  PROVE  IInv'
<1>0. PICK s : s = gate[c]
  OBVIOUS
<1> DEFINE last == refs[s] - 1 <= 0 /\ sem[s] = 0
<1>1. /\ pc[c] = "leaving"
      /\ refs' = [refs EXCEPT ![s] = @ - 1]
      /\ gates' = IF last THEN [gates EXCEPT ![scope[c]] = NoSemaphore] ELSE gates
      /\ pc' = [pc EXCEPT ![c] = "idle"]
      /\ scope' = [scope EXCEPT ![c] = NoThread]
      /\ gate' = [gate EXCEPT ![c] = NoSemaphore]
      /\ ctxDone' = ctxDone \ {c}
      /\ UNCHANGED <<closing, sem, reply>>
  BY <1>0 DEF Release, ReleaseAnd
<1>2. TypeOK /\ s \in Semaphores /\ s # NoSemaphore /\ scope[c] \in Threads /\ gates[scope[c]] = s
  BY <1>0, <1>1, GateAssumption DEF IInv, PointersAgree
<1>3. /\ refs[s] = Cardinality(Users(s))
      /\ Cardinality(Users(s)) \in Nat
      /\ Cardinality(Users(s)') = Cardinality(Users(s)) - 1
      /\ Cardinality(Users(s)') = 0 <=> Users(s)' = {}
      /\ Cardinality(Users(s)') \in Nat
  <2>1. gate[c] = s /\ gate' = [gate EXCEPT ![c] = NoSemaphore]
    BY <1>0, <1>1
  <2>2. Cardinality(Users(s)') = Cardinality(Users(s)) - 1
    BY <2>1, <1>2, UsersLeave DEF TypeOK
  <2>3. Users(s)' = Users(s) \ {c}
    BY <2>1, <1>2 DEF Users, TypeOK
  <2>4. IsFiniteSet(Users(s)')
    BY <2>3, UsersFinite, FS_RemoveElement
  <2> QED
    BY <2>2, <2>4, <1>2, UsersFinite, FS_CardinalityType, FS_EmptySet DEF IInv, RefsCountUsers
<1>4. \A d \in Callers : gate'[d] = IF d = c THEN NoSemaphore ELSE gate[d]
  BY <1>1, <1>2 DEF TypeOK
<1>5. last <=> \A d \in Callers : gate'[d] # s
  <2>1. last => Users(s)' = {}
    BY <1>3
  <2>2. Users(s)' = {} => refs[s] - 1 <= 0
    BY <1>3
  <2>3. Users(s)' = {d \in Callers : gate'[d] = s}
    BY <1>2 DEF Users
  <2>4. Users(s)' = {} => sem[s] = 0
    <3>1. \A d \in Callers : gate[d] = s /\ pc[d] = "running" => d # c
      BY <1>1
    <3> QED
      BY <3>1, <2>3, <1>2, <1>4 DEF IInv, TokenIsHeld, TypeOK
  <2> QED
    BY <2>1, <2>2, <2>3, <2>4
<1>6. TypeOK'
  BY <1>1, <1>2, <1>3 DEF TypeOK
<1>7. \A d \in Callers : d # c => pc'[d] = pc[d] /\ scope'[d] = scope[d] /\ gate'[d] = gate[d]
  BY <1>1, <1>2 DEF TypeOK
<1>8. pc'[c] = "idle" /\ scope'[c] = NoThread /\ gate'[c] = NoSemaphore
  BY <1>1, <1>2 DEF TypeOK
<1>9. \A t \in Threads : gates'[t] = IF last /\ t = scope[c] THEN NoSemaphore ELSE gates[t]
  BY <1>1, <1>2 DEF TypeOK
<1> HIDE DEF last
<1>10. PointersAgree'
  <2> SUFFICES ASSUME NEW d \in Callers, d # c, pc[d] # "idle"
               PROVE  gates'[scope[d]] = gate[d]
    BY <1>7, <1>8 DEF IInv, PointersAgree
  <2>1. scope[d] \in Threads /\ gates[scope[d]] = gate[d]
    BY DEF IInv, PointersAgree
  <2>2. last => scope[d] # scope[c]
    BY <2>1, <1>2, <1>5, <1>7
  <2> QED
    BY <2>1, <2>2, <1>9
<1>11. MapIsTight'
  <2>1. ASSUME NEW t \in Threads, NEW u \in Threads, gates'[t] = gates'[u], gates'[t] # NoSemaphore
        PROVE  t = u
    BY <2>1, <1>9 DEF IInv, MapIsTight
  <2>2. ASSUME NEW t \in Threads, gates'[t] # NoSemaphore
        PROVE  \E d \in Callers : gate'[d] = gates'[t]
    <3>1. gates'[t] = gates[t]
      BY <2>2, <1>9
    <3>2. CASE gates[t] = s
      <4>1. t = scope[c]
        BY <3>2, <1>2 DEF IInv, MapIsTight
      <4>2. ~last
        BY <4>1, <2>2, <1>9
      <4> QED
        BY <4>2, <3>1, <3>2, <1>5
    <3>3. CASE gates[t] # s
      <4>1. PICK d \in Callers : gate[d] = gates[t]
        BY <3>1, <2>2 DEF IInv, MapIsTight
      <4>2. d # c
        BY <4>1, <3>3, <1>0
      <4> QED
        BY <4>1, <4>2, <3>1, <1>7
    <3> QED
      BY <3>2, <3>3
  <2> QED
    BY <2>1, <2>2 DEF MapIsTight
<1>12. RefsCountUsers'
  <2> SUFFICES ASSUME NEW r \in Semaphores PROVE refs'[r] = Cardinality(Users(r)')
    BY DEF RefsCountUsers, Users
  <2>1. CASE r = s
    BY <2>1, <1>1, <1>2, <1>3 DEF TypeOK
  <2>2. CASE r # s
    <3>1. gate[c] # r /\ NoSemaphore # r /\ gate' = [gate EXCEPT ![c] = NoSemaphore]
      BY <2>2, <1>0, <1>1, GateAssumption
    <3>2. Users(r)' = Users(r)
      BY <3>1, <1>2, UsersSame DEF TypeOK
    <3> QED
      BY <3>2, <2>2, <1>1, <1>2 DEF IInv, RefsCountUsers, TypeOK
  <2> QED
    BY <2>1, <2>2
<1>13. TokenIsHeld'
  <2>1. \A d \in Callers : pc'[d] = "running" <=> pc[d] = "running"
    BY <1>1, <1>7, <1>8
  <2>2. \A d \in Callers : pc[d] = "running" => gate'[d] = gate[d]
    BY <1>1, <1>7
  <2> QED
    BY <2>1, <2>2, <1>1 DEF IInv, TokenIsHeld
<1>14. IdleShutdownIsFinal'
  BY <1>1 DEF IInv, IdleShutdownIsFinal
<1> QED
  BY <1>6, <1>10, <1>11, <1>12, <1>13, <1>14 DEF IInv

\* A polite shutdown sees every caller, because each is counted on a mapped
\* semaphore from retain until release.
LEMMA BeginShutdownIInv ==
  ASSUME IInv, NEW force \in BOOLEAN, BeginShutdown(force)
  PROVE  IInv'
<1>1. UNCHANGED <<gates, refs, sem, pc, scope, gate, ctxDone>>
  BY DEF BeginShutdown, callerVars
<1>2. TypeOK'
  BY <1>1 DEF BeginShutdown, IInv, TypeOK
<1>3. PointersAgree' /\ MapIsTight' /\ RefsCountUsers' /\ TokenIsHeld'
  BY <1>1 DEF IInv, PointersAgree, MapIsTight, RefsCountUsers, TokenIsHeld, Users
<1>4. IdleShutdownIsFinal'
  <2> SUFFICES ASSUME reply' = "idle" PROVE closing' /\ \A c \in Callers : pc[c] = "idle"
    BY <1>1 DEF IdleShutdownIsFinal
  <2>1. ~Outstanding /\ closing'
    BY DEF BeginShutdown
  <2>2. ASSUME NEW c \in Callers, pc[c] # "idle" PROVE FALSE
    <3>1. scope[c] \in Threads /\ gates[scope[c]] = gate[c] /\ gate[c] \in Semaphores
      BY <2>2 DEF IInv, PointersAgree
    <3>2. Users(gate[c]) # {}
      BY DEF Users
    <3>3. refs[gate[c]] > 0
      BY <3>1, <3>2, UsersFinite DEF IInv, RefsCountUsers
    <3> QED
      BY <3>1, <3>3, <2>1, GateAssumption DEF Outstanding
  <2> QED
    BY <2>1, <2>2
<1> QED
  BY <1>2, <1>3, <1>4 DEF IInv

\* IInv is preserved by every step.
LEMMA NextIInv == IInv /\ [Next]_vars => IInv'
<1> SUFFICES ASSUME IInv, [Next]_vars PROVE IInv'
  OBVIOUS
<1>1. ASSUME NEW c \in Callers, CallerStep(c) PROVE IInv'
  <2>1. ASSUME CancelContext(c) PROVE IInv'
    BY <2>1 DEF CancelContext, gateVars, IInv, TypeOK, PointersAgree, MapIsTight,
                RefsCountUsers, TokenIsHeld, IdleShutdownIsFinal, Users
  <2> QED
    BY <1>1, <2>1, RetainIInv, EnterIInv, AbandonIInv, DrainIInv, ReleaseIInv DEF CallerStep
<1>2. ASSUME UNCHANGED vars PROVE IInv'
  BY <1>2 DEF vars, IInv, TypeOK, PointersAgree, MapIsTight, RefsCountUsers, TokenIsHeld,
              IdleShutdownIsFinal, Users
<1> QED
  BY <1>1, <1>2, BeginShutdownIInv DEF Next

\* The inductive invariant holds in every reachable state.
THEOREM Invariant == Spec => []IInv
  BY InitIInv, NextIInv, PTL DEF Spec
------------------------------------------------------------------------------
\* Type correctness of the gate, for every value of the constants.
THEOREM TypeCorrect == Spec => []TypeOK
<1>1. IInv => TypeOK
  BY DEF IInv
<1> QED
  BY <1>1, Invariant, PTL

\* At most one turn runs per thread: two turns of one thread point to the one
\* semaphore the thread is mapped to, and its token is held once.
THEOREM TurnsExclude == Spec => []MutualExclusion
<1>1. IInv => MutualExclusion
  BY DEF IInv, PointersAgree, TokenIsHeld, MutualExclusion
<1> QED
  BY <1>1, Invariant, PTL

\* After BeginShutdown reported an idle gate no turn runs or ever starts.
THEOREM ShutdownIsFinal == Spec => []IdleShutdownIsFinal
<1>1. IInv => IdleShutdownIsFinal
  BY DEF IInv
<1> QED
  BY <1>1, Invariant, PTL

\* The map has an entry for a thread exactly while a caller uses it.
THEOREM MapHasNoLeaks == Spec => []EntriesAreUsed
<1>1. IInv => EntriesAreUsed
  <2> SUFFICES ASSUME IInv, NEW t \in Threads, NEW s \in Semaphores
               PROVE  gates[t] = s <=> \E c \in Callers : scope[c] = t /\ gate[c] = s
    BY DEF EntriesAreUsed
  <2>1. s # NoSemaphore /\ t # NoThread
    BY GateAssumption
  <2>2. ASSUME gates[t] = s PROVE \E c \in Callers : scope[c] = t /\ gate[c] = s
    <3>1. PICK c \in Callers : gate[c] = s
      BY <2>1, <2>2 DEF IInv, MapIsTight
    <3>2. scope[c] \in Threads /\ gates[scope[c]] = s
      BY <3>1, <2>1 DEF IInv, PointersAgree
    <3> QED
      BY <3>1, <3>2, <2>1, <2>2 DEF IInv, MapIsTight
  <2>3. ASSUME NEW c \in Callers, scope[c] = t, gate[c] = s PROVE gates[t] = s
    BY <2>1, <2>3 DEF IInv, PointersAgree
  <2> QED
    BY <2>2, <2>3
<1> QED
  BY <1>1, Invariant, PTL

\* Busy is exact: a thread is busy exactly while a turn runs in it.
THEOREM BusyIsExact == Spec => []BusyIffRunning
<1>1. IInv => BusyIffRunning
  <2> SUFFICES ASSUME IInv, NEW t \in Threads
               PROVE  Busy(t) <=> \E c \in Callers : pc[c] = "running" /\ scope[c] = t
    BY DEF BusyIffRunning
  <2>1. ASSUME Busy(t) PROVE \E c \in Callers : pc[c] = "running" /\ scope[c] = t
    <3>1. gates[t] \in Semaphores /\ sem[gates[t]] = 1
      BY <2>1 DEF Busy, IInv, TypeOK
    <3>2. PICK c \in Callers : pc[c] = "running" /\ gate[c] = gates[t]
      BY <3>1 DEF IInv, TokenIsHeld
    <3>3. scope[c] \in Threads /\ gates[scope[c]] = gates[t]
      BY <3>2 DEF IInv, PointersAgree
    <3>4. gates[t] # NoSemaphore
      BY <3>1, GateAssumption
    <3> QED
      BY <3>2, <3>3, <3>4 DEF IInv, MapIsTight
  <2>2. ASSUME NEW c \in Callers, pc[c] = "running", scope[c] = t PROVE Busy(t)
    BY <2>2, GateAssumption DEF Busy, IInv, PointersAgree, TokenIsHeld
  <2> QED
    BY <2>1, <2>2
<1> QED
  BY <1>1, Invariant, PTL

------------------------------------------------------------------------------
\* The gate implements the abstract admission: its initial state is open and
\* empty, retain queues, the token starts a turn, draining or abandoning ends
\* a call, shutdown closes, and releasing the reference changes nothing there.
THEOREM GateImplementsAdmission == Spec => ImplementsAdmission
<1>1. Init => Admission!Init
  BY DEF Init, Admission!Init
<1>2. IInv /\ [Next]_vars => [Admission!Next]_(Admission!vars)
  <2> SUFFICES ASSUME IInv, [Next]_vars PROVE [Admission!Next]_(Admission!vars)
    OBVIOUS
  <2>0. TypeOK
    BY DEF IInv
  <2>1. ASSUME NEW c \in Callers, NEW t \in Threads, Retain(c, t)
        PROVE  Admission!Queue(c, t)
    BY <2>0, <2>1 DEF Retain, RetainIf, TypeOK, Admission!Queue
  <2>2. ASSUME NEW c \in Callers, Enter(c) PROVE Admission!Start(c)
    <3>1. \A d \in Callers : pc[d] = "running" => scope[d] # scope[c]
      BY <2>2 DEF Enter, IInv, PointersAgree, TokenIsHeld
    <3> QED
      BY <2>0, <2>2, <3>1 DEF Enter, TypeOK, Admission!Start
  <2>3. ASSUME NEW c \in Callers, Abandon(c) PROVE Admission!Depart(c)
    BY <2>0, <2>3 DEF Abandon, gateVars, TypeOK, Admission!Depart
  <2>4. ASSUME NEW c \in Callers, Drain(c) PROVE Admission!Depart(c)
    BY <2>0, <2>4 DEF Drain, TypeOK, Admission!Depart
  <2>5. ASSUME NEW c \in Callers, Release(c) PROVE UNCHANGED Admission!vars
    BY <2>0, <2>5 DEF Release, ReleaseAnd, TypeOK, Admission!vars
  <2>6. ASSUME NEW c \in Callers, CancelContext(c) PROVE UNCHANGED Admission!vars
    BY <2>6 DEF CancelContext, gateVars, Admission!vars
  <2>7. ASSUME NEW force \in BOOLEAN, BeginShutdown(force)
        PROVE  Admission!Close(force) \/ UNCHANGED Admission!vars
    <3>1. UNCHANGED <<pc, scope>>
      BY <2>7 DEF BeginShutdown, callerVars
    <3>2. CASE Outstanding /\ ~force
      BY <2>7, <3>1, <3>2 DEF BeginShutdown, Admission!vars
    <3>3. CASE ~Outstanding
      <4>1. reply' = "idle" /\ closing'
        BY <2>7, <3>3 DEF BeginShutdown
      <4>2. \A c \in Callers : pc[c] = "idle"
        BY <2>7, <3>1, <4>1, BeginShutdownIInv DEF IInv, IdleShutdownIsFinal
      <4> QED
        BY <3>1, <4>1, <4>2 DEF Admission!Close
    <3>4. CASE force
      BY <2>7, <3>1, <3>4 DEF BeginShutdown, Admission!Close
    <3> QED
      BY <3>2, <3>3, <3>4
  <2>8. ASSUME UNCHANGED vars PROVE UNCHANGED Admission!vars
    BY <2>8 DEF vars, Admission!vars
  <2> QED
    BY <2>1, <2>2, <2>3, <2>4, <2>5, <2>6, <2>7, <2>8
       DEF Next, CallerStep, Admission!Next
<1> QED
  BY <1>1, <1>2, Invariant, PTL DEF Spec, ImplementsAdmission, Admission!Spec

============================================================================
