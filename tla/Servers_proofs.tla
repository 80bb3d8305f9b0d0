--------------------------- MODULE Servers_proofs ---------------------------
(***************************************************************************)
(* Servers that others wait for.  The hostbridge's queue keeps one line    *)
(* per key, for any number of keys and callers: no lane is shared, kept or *)
(* lost, and nobody who waits is forgotten.  The llama.cpp server of a     *)
(* model stays with the sessions that use it, and nothing of it is left    *)
(* when the run has closed it, for any number of sessions, commands and    *)
(* faults.                                                                 *)
(***************************************************************************)
EXTENDS AliasExecutionQueue, InferenceServer, SequenceTheorems, FiniteSetTheorems, TLAPS

(* The execution queue. *)

Listed(s, c) == \E i \in 1..Len(s) : s[i] = c
Distinct(s) == \A i, j \in 1..Len(s) : s[i] = s[j] => i = j

\* A key is in the map exactly while a caller has its lane, and then one has it.
EntriesHaveHolders ==
  /\ \A k \in Keys : keys[k] # NoEntry => keys[k].active /\ \E c \in Callers : Holds(c, k)
  /\ \A k \in Keys, c \in Callers : Holds(c, k) => keys[k] # NoEntry

HoldersAreAlone == \A k \in Keys, c, d \in Callers : Holds(c, k) /\ Holds(d, k) => c = d

\* A caller inside is inside one lane, and only a waiter has a result to take.
CallersFit ==
  \A c \in Callers :
    /\ IF pc[c] = "out" THEN lane[c] = NoKey ELSE lane[c] \in Keys
    /\ result[c] # "none" => pc[c] \in {"waiting", "abandoning"}

\* A caller that waits for a result still.
Waits(c, k) == lane[c] = k /\ pc[c] \in {"waiting", "abandoning"} /\ result[c] = "none"

\* The lists hold these callers, and nobody else.
WaitersAreListed == \A c \in Callers, k \in Keys : Listed(WaitersOf(k), c) <=> Waits(c, k)

ClosedListsAreEmpty == closed => \A k \in Keys : WaitersOf(k) = <<>>

\* The inductive invariant.
QueueIInv ==
  /\ QueueTypeOK /\ EntriesHaveHolders /\ HoldersAreAlone /\ CallersFit
  /\ WaitersAreListed /\ ClosedListsAreEmpty
------------------------------------------------------------------------------
\* Lists.

\* Who is in a list, and in which order, after the last comer joined it.
LEMMA Joined ==
  ASSUME NEW S, NEW s \in Seq(S), NEW c \in S, Distinct(s), ~Listed(s, c)
  PROVE  /\ Append(s, c) \in Seq(S) /\ Append(s, c) # <<>>
         /\ Distinct(Append(s, c))
         /\ \A d : Listed(Append(s, c), d) <=> Listed(s, d) \/ d = c
<1> DEFINE t == Append(s, c)
<1>1. /\ t \in Seq(S) /\ t # <<>> /\ Len(t) = Len(s) + 1 /\ Len(s) \in Nat
      /\ \A i \in 1..Len(s) : t[i] = s[i]
      /\ t[Len(s) + 1] = c
  BY AppendProperties, LenProperties
<1> HIDE DEF t
<1>2. Distinct(t)
  BY <1>1 DEF Distinct, Listed
<1>3. \A d : Listed(t, d) <=> Listed(s, d) \/ d = c
  BY <1>1 DEF Listed
<1> QED BY <1>1, <1>2, <1>3 DEF t

\* The same after the first has left.
LEMMA FirstLeft ==
  ASSUME NEW S, NEW s \in Seq(S), s # <<>>, Distinct(s)
  PROVE  /\ Head(s) \in S /\ Tail(s) \in Seq(S) /\ Listed(s, Head(s))
         /\ Distinct(Tail(s))
         /\ \A d : Listed(Tail(s), d) <=> Listed(s, d) /\ d # Head(s)
<1> DEFINE t == Tail(s)
<1>1. /\ t \in Seq(S) /\ Len(s) \in Nat \ {0} /\ Len(t) = Len(s) - 1 /\ Head(s) \in S
      /\ \A i \in 1..Len(t) : t[i] = s[i + 1]
      /\ Head(s) = s[1]
  BY HeadTailProperties, EmptySeq
<1> HIDE DEF t
<1>2. Distinct(t)
  BY <1>1 DEF Distinct
<1>3. ASSUME NEW d PROVE Listed(t, d) <=> Listed(s, d) /\ d # s[1]
  <2>1. ASSUME Listed(t, d) PROVE Listed(s, d) /\ d # s[1]
    <3>1. PICK i \in 1..Len(t) : t[i] = d
      BY <2>1 DEF Listed
    <3>2. i + 1 \in 1..Len(s) /\ s[i + 1] = d /\ i + 1 # 1 /\ 1 \in 1..Len(s)
      BY <1>1, <3>1
    <3> QED BY <3>2 DEF Distinct, Listed
  <2>2. ASSUME Listed(s, d), d # s[1] PROVE Listed(t, d)
    <3>1. PICK i \in 1..Len(s) : s[i] = d
      BY <2>2 DEF Listed
    <3>2. i - 1 \in 1..Len(t) /\ t[i - 1] = d
      BY <1>1, <2>2, <3>1
    <3> QED BY <3>2 DEF Listed
  <2> QED BY <2>1, <2>2
<1>4. Listed(s, s[1])
  BY <1>1 DEF Listed
<1> QED BY <1>1, <1>2, <1>3, <1>4 DEF t

\* The elements that Remove leaves.
LEMMA Removed ==
  ASSUME NEW S, NEW s \in Seq(S), NEW i \in 1..Len(s)
  PROVE  /\ Remove(s, i) \in Seq(S) /\ Len(Remove(s, i)) = Len(s) - 1
         /\ \A j \in 1..Len(s) - 1 : Remove(s, i)[j] = IF j < i THEN s[j] ELSE s[j + 1]
<1> DEFINE front == SubSeq(s, 1, i - 1)
           back == SubSeq(s, i + 1, Len(s))
<1>1. Len(s) \in Nat /\ i \in Nat /\ \A j \in 1..Len(s) : s[j] \in S
  BY LenProperties, ElementOfSeq
<1>2. /\ front \in Seq(S) /\ Len(front) = i - 1
      /\ \A j \in 1..i - 1 : front[j] = s[j]
  <2>1. \A j \in 1..i - 1 : s[j] \in S
    BY <1>1
  <2>2. /\ front \in Seq(S) /\ Len(front) = IF 1 <= i - 1 THEN (i - 1) - 1 + 1 ELSE 0
        /\ \A j \in 1..(i - 1) - 1 + 1 : front[j] = s[1 + j - 1]
    BY <1>1, <2>1, SubSeqProperties
  <2> QED BY <1>1, <2>2
<1>3. /\ back \in Seq(S) /\ Len(back) = Len(s) - i
      /\ \A j \in 1..Len(s) - i : back[j] = s[i + j]
  <2>1. \A j \in i + 1..Len(s) : s[j] \in S
    BY <1>1
  <2>2. /\ back \in Seq(S) /\ Len(back) = IF i + 1 <= Len(s) THEN Len(s) - (i + 1) + 1 ELSE 0
        /\ \A j \in 1..Len(s) - (i + 1) + 1 : back[j] = s[(i + 1) + j - 1]
    BY <1>1, <2>1, SubSeqProperties
  <2> QED BY <1>1, <2>2
<1> HIDE DEF front, back
<1>4. /\ front \o back \in Seq(S) /\ Len(front \o back) = Len(front) + Len(back)
      /\ \A j \in 1..Len(front) + Len(back) :
           (front \o back)[j] = IF j <= Len(front) THEN front[j] ELSE back[j - Len(front)]
  BY <1>2, <1>3, ConcatProperties
<1>5. Remove(s, i) = front \o back
  BY DEF Remove, front, back
<1>6. Remove(s, i) \in Seq(S) /\ Len(Remove(s, i)) = Len(s) - 1
  BY <1>1, <1>2, <1>3, <1>4, <1>5
<1>7. ASSUME NEW j \in 1..Len(s) - 1
      PROVE  Remove(s, i)[j] = IF j < i THEN s[j] ELSE s[j + 1]
  <2>1. (front \o back)[j] = IF j <= i - 1 THEN front[j] ELSE back[j - (i - 1)]
    BY <1>1, <1>2, <1>3, <1>4
  <2>2. CASE j < i
    BY <1>1, <1>2, <1>5, <2>1, <2>2
  <2>3. CASE ~(j < i)
    <3>1. j - (i - 1) \in 1..Len(s) - i /\ i + (j - (i - 1)) = j + 1 /\ ~(j <= i - 1)
      BY <1>1, <2>3
    <3>2. back[j - (i - 1)] = s[j + 1]
      BY <1>3, <3>1
    <3> QED BY <1>5, <2>1, <2>3, <3>1, <3>2
  <2> QED BY <2>2, <2>3
<1> QED BY <1>6, <1>7

\* Who is in a list after one that gave up has left it.
LEMMA OneLeft ==
  ASSUME NEW S, NEW s \in Seq(S), NEW i \in 1..Len(s), Distinct(s)
  PROVE  /\ Distinct(Remove(s, i))
         /\ \A d : Listed(Remove(s, i), d) <=> Listed(s, d) /\ d # s[i]
<1> DEFINE t == Remove(s, i)
<1>1. /\ Len(s) \in Nat /\ i \in Nat /\ Len(t) = Len(s) - 1
      /\ \A j \in 1..Len(s) - 1 : t[j] = IF j < i THEN s[j] ELSE s[j + 1]
  BY Removed, LenProperties
<1> HIDE DEF t
<1>2. Distinct(t)
  BY <1>1 DEF Distinct
<1>3. ASSUME NEW d, Listed(t, d) PROVE Listed(s, d) /\ d # s[i]
  <2>1. PICK j \in 1..Len(t) : t[j] = d
    BY <1>3 DEF Listed
  <2>2. PICK m \in 1..Len(s) : s[m] = d /\ m # i
    BY <1>1, <2>1
  <2> QED BY <2>2 DEF Listed, Distinct
<1>4. ASSUME NEW d, Listed(s, d), d # s[i] PROVE Listed(t, d)
  <2>1. PICK m \in 1..Len(s) : s[m] = d
    BY <1>4 DEF Listed
  <2>2. \E j \in 1..Len(t) : t[j] = d
    <3>1. CASE m < i
      BY <1>1, <2>1, <3>1
    <3>2. CASE m > i
      <4>1. m - 1 \in 1..Len(t) /\ t[m - 1] = d
        BY <1>1, <2>1, <3>2
      <4> QED BY <4>1
    <3> QED BY <1>1, <1>4, <2>1, <3>1, <3>2
  <2> QED BY <2>2 DEF Listed
<1> QED BY <1>2, <1>3, <1>4 DEF t
------------------------------------------------------------------------------
\* The sections under the mutex.

Entry == [active : BOOLEAN, waiters : Seq(Callers)]

LEMMA Lists ==
  ASSUME QueueTypeOK
  PROVE  /\ \A k \in Keys : WaitersOf(k) \in Seq(Callers) /\ Distinct(WaitersOf(k))
         /\ \A k \in Keys : keys[k] = NoEntry \/ keys[k] \in Entry
         /\ NoEntry \notin Entry
<1>1. \A k \in Keys : keys[k] = NoEntry \/ keys[k] \in Entry
  BY DEF QueueTypeOK, Entry
<1>2. \A k \in Keys : WaitersOf(k) \in Seq(Callers)
  BY <1>1, EmptySeq DEF WaitersOf, Entry
<1>3. \A k \in Keys : Distinct(WaitersOf(k))
  BY DEF QueueTypeOK, Distinct
<1> QED BY <1>1, <1>2, <1>3, KeyAssumption DEF Entry

\* A caller with a lane leaves it, in whichever way.
HandsOver(c) ==
  /\ Holds(c, lane[c]) /\ pc[c] # "out"
  /\ ReleaseLane(lane[c], [result EXCEPT ![c] = "none"])
  /\ Return(c)
  /\ UNCHANGED closed

LEMMA LanesAreHandedOver ==
  ASSUME QueueIInv, NEW c \in Callers
  PROVE  /\ Confirm(c) /\ closed => HandsOver(c)
         /\ Withdraw(c) /\ result[c] = "granted" => HandsOver(c)
         /\ EndExecution(c) => HandsOver(c)
<1> USE DEF QueueIInv, QueueTypeOK, CallersFit, HandsOver, Holds
<1>1. pc[c] \in {"granted", "running", "lingering"} => [result EXCEPT ![c] = "none"] = result
  OBVIOUS
<1>2. Confirm(c) /\ closed => HandsOver(c)
  BY <1>1 DEF Confirm
<1>3. Withdraw(c) /\ result[c] = "granted" => HandsOver(c)
  BY DEF Withdraw
<1>4. EndExecution(c) => HandsOver(c)
  BY <1>1 DEF EndExecution
<1> QED BY <1>2, <1>3, <1>4

\* What leaving does: the key goes from the map, or the first waiter has the lane.
LEMMA HandOverEffect ==
  ASSUME QueueIInv, NEW c \in Callers, HandsOver(c)
  PROVE  LET k == lane[c]
             first == Head(WaitersOf(k)) IN
         /\ k \in Keys
         /\ pc' = [pc EXCEPT ![c] = "out"] /\ lane' = [lane EXCEPT ![c] = NoKey] /\ closed' = closed
         /\ \A j \in Keys \ {k} : keys'[j] = keys[j]
         /\ keys' \in [Keys -> Entry \cup {NoEntry}]
         /\ IF WaitersOf(k) = <<>>
              THEN /\ keys'[k] = NoEntry
                   /\ result' = [result EXCEPT ![c] = "none"]
              ELSE /\ keys'[k] = [active |-> keys[k].active, waiters |-> Tail(WaitersOf(k))]
                   /\ keys[k] # NoEntry /\ keys'[k] # NoEntry
                   /\ result' = [result EXCEPT ![c] = "none", ![first] = "granted"]
                   /\ ~closed /\ first \in Callers \ {c}
<1> DEFINE k == lane[c]
<1>1. k \in Keys /\ keys[k] # NoEntry /\ keys[k].active /\ keys[k] \in Entry
  BY Lists DEF QueueIInv, HandsOver, CallersFit, EntriesHaveHolders
<1>2. WaitersOf(k) = keys[k].waiters /\ WaitersOf(k) \in Seq(Callers)
  BY <1>1, Lists DEF WaitersOf, QueueIInv
<1>3. closed => WaitersOf(k) = <<>>
  BY <1>1 DEF QueueIInv, ClosedListsAreEmpty
<1>4. keys \in [Keys -> Entry \cup {NoEntry}]
  BY DEF QueueIInv, QueueTypeOK, Entry
<1>5. /\ pc' = [pc EXCEPT ![c] = "out"] /\ lane' = [lane EXCEPT ![c] = NoKey] /\ closed' = closed
      /\ ReleaseLane(k, [result EXCEPT ![c] = "none"])
  BY DEF HandsOver, Return
<1>6. CASE WaitersOf(k) = <<>>
  <2>1. keys' = [keys EXCEPT ![k] = NoEntry] /\ result' = [result EXCEPT ![c] = "none"]
    BY <1>1, <1>2, <1>5, <1>6 DEF ReleaseLane
  <2> QED BY <1>1, <1>4, <1>5, <1>6, <2>1
<1>7. CASE WaitersOf(k) # <<>>
  <2> DEFINE first == Head(WaitersOf(k))
  <2>1. first \in Callers /\ Tail(WaitersOf(k)) \in Seq(Callers) /\ Listed(WaitersOf(k), first)
    BY <1>1, <1>2, <1>7, FirstLeft, Lists DEF QueueIInv
  <2>2. first # c
    BY <1>1, <2>1 DEF QueueIInv, WaitersAreListed, Waits, HandsOver, Holds
  <2>3. /\ keys' = [keys EXCEPT ![k].waiters = Tail(@)]
        /\ result' = [[result EXCEPT ![c] = "none"] EXCEPT ![first] = "granted"]
    BY <1>1, <1>2, <1>3, <1>5, <1>7 DEF ReleaseLane
  <2>4. keys'[k] = [active |-> keys[k].active, waiters |-> Tail(WaitersOf(k))]
    BY <1>1, <1>2, <1>4, <2>3 DEF Entry
  <2>5. keys'[k] \in Entry
    BY <1>1, <2>1, <2>4 DEF Entry
  <2>6. keys' \in [Keys -> Entry \cup {NoEntry}] /\ \A j \in Keys \ {k} : keys'[j] = keys[j]
    BY <1>1, <1>4, <2>3, <2>5
  <2>7. keys'[k] # NoEntry
    BY <1>1, <2>5, Lists DEF QueueIInv
  <2> QED BY <1>1, <1>3, <1>5, <1>7, <2>1, <2>2, <2>3, <2>4, <2>6, <2>7
<1> QED BY <1>6, <1>7

\* Who has a lane, and who waits for one, after a caller left its own.
LEMMA HandOverRoles ==
  ASSUME QueueIInv, NEW c \in Callers, HandsOver(c)
  PROVE  LET k == lane[c]
             w == WaitersOf(k) IN
         /\ \A j \in Keys : WaitersOf(j)' = IF j = k /\ w # <<>> THEN Tail(w) ELSE WaitersOf(j)
         /\ \A d \in Callers, j \in Keys :
              Holds(d, j)' <=> IF j = k THEN w # <<>> /\ d = Head(w) ELSE Holds(d, j)
         /\ \A d \in Callers, j \in Keys : Listed(WaitersOf(j), d)' <=> Waits(d, j)'
<1> DEFINE k == lane[c]
           w == WaitersOf(k)
           first == Head(w)
<1>0. /\ k \in Keys /\ Holds(c, k)
      /\ pc' = [pc EXCEPT ![c] = "out"] /\ lane' = [lane EXCEPT ![c] = NoKey] /\ closed' = closed
      /\ \A j \in Keys \ {k} : keys'[j] = keys[j]
      /\ IF w = <<>>
           THEN /\ keys'[k] = NoEntry
                /\ result' = [result EXCEPT ![c] = "none"]
           ELSE /\ keys'[k] = [active |-> keys[k].active, waiters |-> Tail(w)]
                /\ keys[k] # NoEntry /\ keys'[k] # NoEntry
                /\ result' = [result EXCEPT ![c] = "none", ![first] = "granted"]
                /\ ~closed /\ first \in Callers \ {c}
  BY HandOverEffect DEF HandsOver
<1>1. /\ pc \in [Callers -> {"out", "waiting", "granted", "abandoning", "running", "lingering"}]
      /\ lane \in [Callers -> Keys \cup {NoKey}]
      /\ result \in [Callers -> {"none", "granted", "closed"}]
      /\ NoKey \notin Keys
      /\ w \in Seq(Callers) /\ Distinct(w)
  BY <1>0, Lists, KeyAssumption DEF QueueIInv, QueueTypeOK
<1>2. w # <<>> =>
        /\ Tail(w) \in Seq(Callers) /\ Listed(w, first)
        /\ \A d : Listed(Tail(w), d) <=> Listed(w, d) /\ d # first
  BY <1>1, FirstLeft
<1>3. w # <<>> => Waits(first, k)
  BY <1>0, <1>2 DEF QueueIInv, WaitersAreListed
<1>4. \A j \in Keys : WaitersOf(j)' = IF j = k /\ w # <<>> THEN Tail(w) ELSE WaitersOf(j)
  <2> TAKE j \in Keys
  <2>1. CASE j # k
    BY <1>0, <2>1 DEF WaitersOf
  <2>2. CASE j = k /\ w = <<>>
    BY <1>0, <2>2 DEF WaitersOf
  <2>3. CASE j = k /\ w # <<>>
    <3>1. keys'[k] = [active |-> keys[k].active, waiters |-> Tail(w)] /\ keys'[k] # NoEntry
      BY <1>0, <2>3
    <3>2. keys'[k].waiters = Tail(w)
      BY <3>1
    <3> HIDE DEF w
    <3> QED BY <2>3, <3>1, <3>2 DEF WaitersOf
  <2> QED BY <2>1, <2>2, <2>3
<1>5. \A d \in Callers, j \in Keys :
        Holds(d, j)' <=> IF j = k THEN w # <<>> /\ d = first ELSE Holds(d, j)
  <2> TAKE d \in Callers, j \in Keys
  <2> HIDE DEF w
  <2>1. CASE d = c
    BY <1>0, <1>1, <2>1 DEF Holds
  <2>2. CASE d # c /\ ~(w # <<>> /\ d = first)
    <3>1. Holds(d, j)' <=> Holds(d, j)
      BY <1>0, <1>1, <2>2 DEF Holds
    <3>2. Holds(d, k) => FALSE
      BY <1>0, <2>2 DEF QueueIInv, HoldersAreAlone
    <3> QED BY <2>2, <3>1, <3>2
  <2>3. CASE w # <<>> /\ d = first
    BY <1>0, <1>1, <1>3, <2>3 DEF Holds, Waits
  <2> QED BY <2>1, <2>2, <2>3
<1>6. \A d \in Callers, j \in Keys : Waits(d, j)' <=> Waits(d, j) /\ ~(w # <<>> /\ d = first)
  <2> TAKE d \in Callers, j \in Keys
  <2> HIDE DEF w
  <2>1. CASE d = c
    BY <1>0, <1>1, <2>1 DEF Waits, Holds
  <2>2. CASE d # c
    BY <1>0, <1>1, <2>2 DEF Waits
  <2> QED BY <2>1, <2>2
<1>7. \A d \in Callers, j \in Keys : Listed(WaitersOf(j), d)' <=> Waits(d, j)'
  <2> TAKE d \in Callers, j \in Keys
  <2>1. Listed(WaitersOf(j), d)' <=> Listed(WaitersOf(j)', d)
    BY DEF Listed
  <2>2. Listed(WaitersOf(j), d) <=> Waits(d, j)
    BY DEF QueueIInv, WaitersAreListed
  <2>3. w # <<>> /\ j # k => ~Waits(first, j)
    BY <1>3 DEF Waits
  <2> QED BY <1>2, <1>4, <1>6, <2>1, <2>2, <2>3
<1> QED BY <1>4, <1>5, <1>7

\* A hand-over keeps the invariant.
LEMMA HandOverKeeps ==
  ASSUME QueueIInv, NEW c \in Callers, HandsOver(c)
  PROVE  QueueIInv'
<1> DEFINE k == lane[c]
           w == WaitersOf(k)
           first == Head(w)
<1>0. /\ k \in Keys
      /\ pc' = [pc EXCEPT ![c] = "out"] /\ lane' = [lane EXCEPT ![c] = NoKey] /\ closed' = closed
      /\ \A j \in Keys \ {k} : keys'[j] = keys[j]
      /\ keys' \in [Keys -> Entry \cup {NoEntry}]
      /\ IF w = <<>>
           THEN /\ keys'[k] = NoEntry
                /\ result' = [result EXCEPT ![c] = "none"]
           ELSE /\ keys'[k] = [active |-> keys[k].active, waiters |-> Tail(w)]
                /\ keys[k] # NoEntry /\ keys'[k] # NoEntry
                /\ result' = [result EXCEPT ![c] = "none", ![first] = "granted"]
                /\ ~closed /\ first \in Callers \ {c}
  BY HandOverEffect
<1>1. /\ \A j \in Keys : WaitersOf(j)' = IF j = k /\ w # <<>> THEN Tail(w) ELSE WaitersOf(j)
      /\ \A d \in Callers, j \in Keys :
           Holds(d, j)' <=> IF j = k THEN w # <<>> /\ d = first ELSE Holds(d, j)
      /\ \A d \in Callers, j \in Keys : Listed(WaitersOf(j), d)' <=> Waits(d, j)'
  BY HandOverRoles
<1>2. /\ closed \in BOOLEAN
      /\ pc \in [Callers -> {"out", "waiting", "granted", "abandoning", "running", "lingering"}]
      /\ lane \in [Callers -> Keys \cup {NoKey}]
      /\ result \in [Callers -> {"none", "granted", "closed"}]
      /\ \A j \in Keys : WaitersOf(j) \in Seq(Callers) /\ Distinct(WaitersOf(j))
      /\ NoKey \notin Keys
  BY Lists, KeyAssumption DEF QueueIInv, QueueTypeOK
<1>3. w # <<>> => Tail(w) \in Seq(Callers) /\ Distinct(Tail(w)) /\ Waits(first, k)
  BY <1>0, <1>2, FirstLeft DEF QueueIInv, WaitersAreListed
<1> HIDE DEF w
<1>4. QueueTypeOK'
  <2>1. \A j \in Keys : Distinct(WaitersOf(j)')
    BY <1>1, <1>2, <1>3
  <2>2. \A j \in Keys : \A i, m \in 1..Len(WaitersOf(j)') :
          WaitersOf(j)'[i] = WaitersOf(j)'[m] => i = m
    BY <2>1 DEF Distinct
  <2>3. /\ closed' \in BOOLEAN
        /\ keys' \in [Keys -> [active : BOOLEAN, waiters : Seq(Callers)] \cup {NoEntry}]
        /\ pc' \in [Callers -> {"out", "waiting", "granted", "abandoning", "running", "lingering"}]
        /\ lane' \in [Callers -> Keys \cup {NoKey}]
    BY <1>0, <1>2 DEF Entry
  <2>4. result' \in [Callers -> {"none", "granted", "closed"}]
    BY <1>0, <1>2
  <2> QED BY <2>2, <2>3, <2>4 DEF QueueTypeOK
<1>5. HoldersAreAlone'
  BY <1>1 DEF QueueIInv, HoldersAreAlone
<1>6. EntriesHaveHolders'
  <2> SUFFICES ASSUME NEW j \in Keys
               PROVE  /\ keys'[j] # NoEntry => keys'[j].active /\ \E d \in Callers : Holds(d, j)'
                      /\ \A d \in Callers : Holds(d, j)' => keys'[j] # NoEntry
    BY DEF EntriesHaveHolders
  <2>1. CASE j # k
    BY <1>0, <1>1, <2>1 DEF QueueIInv, EntriesHaveHolders
  <2>2. CASE j = k /\ w = <<>>
    BY <1>0, <1>1, <2>2
  <2>3. CASE j = k /\ w # <<>>
    <3>1. keys'[j].active <=> keys[j].active
      BY <1>0, <2>3
    <3>2. keys[j].active
      BY <1>0, <2>3 DEF QueueIInv, EntriesHaveHolders
    <3> QED BY <1>0, <1>1, <2>3, <3>1, <3>2
  <2> QED BY <2>1, <2>2, <2>3
<1>7. CallersFit'
  <2> SUFFICES ASSUME NEW d \in Callers
               PROVE  /\ IF pc'[d] = "out" THEN lane'[d] = NoKey ELSE lane'[d] \in Keys
                      /\ result'[d] # "none" => pc'[d] \in {"waiting", "abandoning"}
    BY DEF CallersFit
  <2>1. CASE d = c
    BY <1>0, <1>2, <2>1
  <2>2. CASE d # c /\ ~(w # <<>> /\ d = first)
    BY <1>0, <1>2, <2>2 DEF QueueIInv, CallersFit
  <2>3. CASE w # <<>> /\ d = first
    BY <1>0, <1>2, <1>3, <2>3 DEF Waits
  <2> QED BY <2>1, <2>2, <2>3
<1>8. WaitersAreListed'
  BY <1>1 DEF WaitersAreListed
<1>9. ClosedListsAreEmpty'
  BY <1>0, <1>1 DEF QueueIInv, ClosedListsAreEmpty
<1> QED BY <1>4, <1>5, <1>6, <1>7, <1>8, <1>9 DEF QueueIInv

\* The steps of a caller that leave the map alone.
LEMMA CallersKeep ==
  ASSUME QueueIInv, NEW c \in Callers,
         Receive(c) \/ Abandon(c) \/ (Confirm(c) /\ ~closed) \/ Linger(c)
  PROVE  /\ QueueIInv'
         /\ \A d \in Callers, k \in Keys : Holds(d, k)' <=> Holds(d, k)
         /\ UNCHANGED <<keys, closed>>
<1>1. /\ closed \in BOOLEAN
      /\ pc \in [Callers -> {"out", "waiting", "granted", "abandoning", "running", "lingering"}]
      /\ lane \in [Callers -> Keys \cup {NoKey}]
      /\ result \in [Callers -> {"none", "granted", "closed"}]
      /\ NoKey \notin Keys
  BY KeyAssumption DEF QueueIInv, QueueTypeOK
<1>2. /\ UNCHANGED <<keys, closed>>
      /\ \A d \in Callers \ {c} : pc'[d] = pc[d] /\ lane'[d] = lane[d] /\ result'[d] = result[d]
      /\ pc' \in [Callers -> {"out", "waiting", "granted", "abandoning", "running", "lingering"}]
      /\ lane' \in [Callers -> Keys \cup {NoKey}]
      /\ result' \in [Callers -> {"none", "granted", "closed"}]
  BY <1>1 DEF Receive, Return, Abandon, Confirm, Linger
<1>3. \A k \in Keys : Holds(c, k)' <=> Holds(c, k)
  BY <1>1 DEF Receive, Return, Abandon, Confirm, Linger, Holds, QueueIInv, CallersFit
<1>4. \A k \in Keys : Waits(c, k)' <=> Waits(c, k)
  BY <1>1 DEF Receive, Return, Abandon, Confirm, Linger, Waits, QueueIInv, CallersFit
<1>5. \A d \in Callers, k \in Keys : Holds(d, k)' <=> Holds(d, k)
  BY <1>2, <1>3 DEF Holds
<1>6. \A d \in Callers, k \in Keys : Waits(d, k)' <=> Waits(d, k)
  BY <1>2, <1>4 DEF Waits
<1>7. \A k \in Keys : WaitersOf(k)' = WaitersOf(k)
  BY <1>2 DEF WaitersOf
<1>8. QueueTypeOK'
  BY <1>2, <1>7 DEF QueueIInv, QueueTypeOK
<1>9. EntriesHaveHolders' /\ HoldersAreAlone'
  BY <1>2, <1>5 DEF QueueIInv, EntriesHaveHolders, HoldersAreAlone
<1>10. CallersFit'
  <2>1. IF pc'[c] = "out" THEN lane'[c] = NoKey ELSE lane'[c] \in Keys
    BY <1>1 DEF Receive, Return, Abandon, Confirm, Linger, QueueIInv, CallersFit
  <2>2. result'[c] # "none" => pc'[c] \in {"waiting", "abandoning"}
    BY <1>1 DEF Receive, Return, Abandon, Confirm, Linger, QueueIInv, CallersFit
  <2> QED BY <1>2, <2>1, <2>2 DEF QueueIInv, CallersFit
<1>11. WaitersAreListed'
  <2>1. \A d, k : Listed(WaitersOf(k), d)' <=> Listed(WaitersOf(k)', d)
    BY DEF Listed
  <2> QED BY <1>6, <1>7, <2>1 DEF QueueIInv, WaitersAreListed
<1>12. ClosedListsAreEmpty'
  BY <1>2, <1>7 DEF QueueIInv, ClosedListsAreEmpty
<1> QED BY <1>2, <1>5, <1>8, <1>9, <1>10, <1>11, <1>12 DEF QueueIInv

\* Close sends all away that wait, and takes no lane from its holder.
LEMMA CloseKeeps ==
  ASSUME QueueIInv, Close
  PROVE  /\ QueueIInv'
         /\ \A d \in Callers, k \in Keys : Holds(d, k)' <=> Holds(d, k)
         /\ \A k \in Keys : WaitersOf(k)' = <<>> /\ (keys'[k] = NoEntry <=> keys[k] = NoEntry)
<1>1. /\ pc \in [Callers -> {"out", "waiting", "granted", "abandoning", "running", "lingering"}]
      /\ lane \in [Callers -> Keys \cup {NoKey}]
      /\ result \in [Callers -> {"none", "granted", "closed"}]
      /\ closed' = TRUE /\ pc' = pc /\ lane' = lane
  BY DEF QueueIInv, QueueTypeOK, Close
<1>2. ASSUME NEW k \in Keys
      PROVE  /\ keys'[k] \in Entry \cup {NoEntry}
             /\ keys'[k] = NoEntry <=> keys[k] = NoEntry
             /\ keys[k] # NoEntry => keys'[k].active
             /\ WaitersOf(k)' = <<>>
  <2>1. keys'[k] = IF keys[k] = NoEntry \/ ~keys[k].active THEN NoEntry
                   ELSE [keys[k] EXCEPT !.waiters = <<>>]
    BY DEF Close
  <2>2. CASE keys[k] = NoEntry
    BY <2>1, <2>2 DEF WaitersOf
  <2>3. CASE keys[k] # NoEntry
    <3>1. keys[k] \in Entry /\ keys[k].active /\ NoEntry \notin Entry
      BY <2>3, Lists DEF QueueIInv, EntriesHaveHolders
    <3>2. keys'[k] = [keys[k] EXCEPT !.waiters = <<>>]
      BY <2>1, <2>3, <3>1
    <3>3. keys'[k] \in Entry /\ keys'[k].waiters = <<>> /\ (keys'[k].active <=> keys[k].active)
      BY <3>1, <3>2, EmptySeq DEF Entry
    <3> QED BY <2>3, <3>1, <3>3 DEF WaitersOf
  <2> QED BY <2>2, <2>3
<1>3. result' = [d \in Callers |->
        IF \E k \in Keys : Listed(WaitersOf(k), d) THEN "closed" ELSE result[d]]
  <2>1. \A d \in Callers, k \in Keys :
          Listed(WaitersOf(k), d)
            <=> keys[k] # NoEntry /\ \E i \in 1..Len(keys[k].waiters) : keys[k].waiters[i] = d
    <3> TAKE d \in Callers, k \in Keys
    <3>1. CASE keys[k] = NoEntry
      BY <3>1, EmptySeq DEF WaitersOf, Listed
    <3>2. CASE keys[k] # NoEntry
      BY <3>2 DEF WaitersOf, Listed
    <3> QED BY <3>1, <3>2
  <2> QED BY <2>1 DEF Close
<1>4. \A d \in Callers :
        result'[d] = IF \E k \in Keys : Waits(d, k) THEN "closed" ELSE result[d]
  BY <1>3 DEF QueueIInv, WaitersAreListed
<1>5. \A d \in Callers, k \in Keys : Holds(d, k)' <=> Holds(d, k)
  BY <1>1, <1>4 DEF Holds, Waits
<1>6. QueueTypeOK'
  <2>1. keys' \in [Keys -> Entry \cup {NoEntry}]
    <3>1. keys' = [k \in Keys |-> keys'[k]]
      BY DEF Close
    <3> QED BY <1>2, <3>1
  <2>2. result' \in [Callers -> {"none", "granted", "closed"}]
    BY <1>1, <1>3
  <2>3. \A k \in Keys : 1..Len(WaitersOf(k)') = {}
    BY <1>2, EmptySeq
  <2> QED BY <1>1, <2>1, <2>2, <2>3 DEF QueueTypeOK, Entry
<1>7. EntriesHaveHolders' /\ HoldersAreAlone'
  BY <1>2, <1>5 DEF QueueIInv, EntriesHaveHolders, HoldersAreAlone
<1>8. CallersFit'
  BY <1>1, <1>4 DEF QueueIInv, CallersFit, Waits
<1>9. WaitersAreListed'
  <2>1. \A d \in Callers, k \in Keys : ~Listed(WaitersOf(k), d)'
    BY <1>2, EmptySeq DEF Listed
  <2>2. \A d \in Callers, k \in Keys : ~Waits(d, k)'
    BY <1>1, <1>4 DEF Waits
  <2> QED BY <2>1, <2>2 DEF WaitersAreListed
<1>10. ClosedListsAreEmpty'
  BY <1>2 DEF ClosedListsAreEmpty
<1> QED BY <1>2, <1>5, <1>6, <1>7, <1>8, <1>9, <1>10 DEF QueueIInv

\* A free lane is taken at once.
LEMMA FreeLaneIsTaken ==
  ASSUME QueueIInv, NEW c \in Callers, NEW k \in Keys, Acquire(c, k), keys[k] = NoEntry
  PROVE  /\ QueueIInv'
         /\ \A d \in Callers, j \in Keys : Holds(d, j)' <=> Holds(d, j) \/ (d = c /\ j = k)
         /\ \A j \in Keys : WaitersOf(j)' = WaitersOf(j)
         /\ keys'[k] # NoEntry /\ \A j \in Keys \ {k} : keys'[j] = keys[j]
         /\ pc' = [pc EXCEPT ![c] = "running"] /\ closed' = closed
<1>1. /\ closed \in BOOLEAN /\ ~closed
      /\ pc \in [Callers -> {"out", "waiting", "granted", "abandoning", "running", "lingering"}]
      /\ lane \in [Callers -> Keys \cup {NoKey}]
      /\ result \in [Callers -> {"none", "granted", "closed"}]
      /\ keys \in [Keys -> Entry \cup {NoEntry}]
      /\ pc[c] = "out" /\ lane[c] = NoKey /\ result[c] = "none" /\ NoKey \notin Keys
  BY KeyAssumption DEF QueueIInv, QueueTypeOK, CallersFit, Acquire, Entry
<1>2. /\ keys' = [keys EXCEPT ![k] = [active |-> TRUE, waiters |-> <<>>]]
      /\ pc' = [pc EXCEPT ![c] = "running"] /\ lane' = [lane EXCEPT ![c] = k]
      /\ closed' = closed /\ result' = result
  BY DEF Acquire
<1>3. /\ keys'[k].active /\ keys'[k].waiters = <<>> /\ keys'[k] # NoEntry
      /\ keys' \in [Keys -> Entry \cup {NoEntry}]
      /\ \A j \in Keys \ {k} : keys'[j] = keys[j]
  <2> DEFINE entry == [active |-> TRUE, waiters |-> <<>>]
  <2>1. entry \in Entry /\ entry.active /\ entry.waiters = <<>> /\ NoEntry \notin Entry
    BY EmptySeq, Lists DEF Entry, QueueIInv
  <2> HIDE DEF entry
  <2>2. keys' = [keys EXCEPT ![k] = entry]
    BY <1>2 DEF entry
  <2> QED BY <1>1, <2>1, <2>2
<1>4. \A j \in Keys : WaitersOf(j)' = WaitersOf(j)
  BY <1>3 DEF WaitersOf
<1>5. \A d \in Callers, j \in Keys : Holds(d, j)' <=> Holds(d, j) \/ (d = c /\ j = k)
  BY <1>1, <1>2 DEF Holds
<1>6. \A d \in Callers, j \in Keys : Waits(d, j)' <=> Waits(d, j)
  BY <1>1, <1>2 DEF Waits
<1>7. \A d \in Callers : ~Holds(d, k)
  BY DEF QueueIInv, EntriesHaveHolders
<1>8. QueueTypeOK'
  <2>1. /\ pc' \in [Callers -> {"out", "waiting", "granted", "abandoning", "running", "lingering"}]
        /\ lane' \in [Callers -> Keys \cup {NoKey}]
    BY <1>1, <1>2
  <2> QED BY <1>1, <1>2, <1>3, <1>4, <2>1 DEF QueueIInv, QueueTypeOK, Entry
<1>9. EntriesHaveHolders' /\ HoldersAreAlone'
  BY <1>3, <1>5, <1>7 DEF QueueIInv, EntriesHaveHolders, HoldersAreAlone
<1>10. CallersFit'
  BY <1>1, <1>2 DEF QueueIInv, CallersFit
<1>11. WaitersAreListed'
  <2>1. \A d, j : Listed(WaitersOf(j), d)' <=> Listed(WaitersOf(j)', d)
    BY DEF Listed
  <2> QED BY <1>4, <1>6, <2>1 DEF QueueIInv, WaitersAreListed
<1>12. ClosedListsAreEmpty'
  BY <1>1, <1>2 DEF ClosedListsAreEmpty
<1> QED BY <1>2, <1>3, <1>4, <1>5, <1>8, <1>9, <1>10, <1>11, <1>12 DEF QueueIInv

\* A caller that finds its lane taken is the last of its list.
LEMMA TakenLaneIsAwaited ==
  ASSUME QueueIInv, NEW c \in Callers, NEW k \in Keys, Acquire(c, k), keys[k] # NoEntry
  PROVE  /\ QueueIInv'
         /\ \A d \in Callers, j \in Keys : Holds(d, j)' <=> Holds(d, j)
         /\ \A j \in Keys : WaitersOf(j)' = IF j = k THEN Append(WaitersOf(j), c) ELSE WaitersOf(j)
         /\ \A j \in Keys : keys'[j] = NoEntry <=> keys[j] = NoEntry
         /\ pc' = [pc EXCEPT ![c] = "waiting"] /\ closed' = closed
<1> DEFINE w == WaitersOf(k)
<1>1. /\ closed \in BOOLEAN /\ ~closed
      /\ pc \in [Callers -> {"out", "waiting", "granted", "abandoning", "running", "lingering"}]
      /\ lane \in [Callers -> Keys \cup {NoKey}]
      /\ result \in [Callers -> {"none", "granted", "closed"}]
      /\ keys \in [Keys -> Entry \cup {NoEntry}]
      /\ pc[c] = "out" /\ lane[c] = NoKey /\ result[c] = "none" /\ NoKey \notin Keys
  BY KeyAssumption DEF QueueIInv, QueueTypeOK, CallersFit, Acquire, Entry
<1>2. /\ keys[k] \in Entry /\ keys[k].active /\ NoEntry \notin Entry
      /\ w = keys[k].waiters /\ w \in Seq(Callers) /\ Distinct(w)
  BY Lists DEF QueueIInv, EntriesHaveHolders, WaitersOf
<1>3. /\ keys' = [keys EXCEPT ![k].waiters = Append(@, c)]
      /\ pc' = [pc EXCEPT ![c] = "waiting"] /\ lane' = [lane EXCEPT ![c] = k]
      /\ closed' = closed /\ result' = result
  BY <1>2 DEF Acquire
<1>4. ~Listed(w, c)
  BY <1>1 DEF QueueIInv, WaitersAreListed, Waits
<1>5. /\ Append(w, c) \in Seq(Callers) /\ Distinct(Append(w, c))
      /\ \A d : Listed(Append(w, c), d) <=> Listed(w, d) \/ d = c
  BY <1>2, <1>4, Joined
<1> HIDE DEF w
<1>6. /\ keys'[k] = [keys[k] EXCEPT !.waiters = Append(w, c)]
      /\ \A j \in Keys \ {k} : keys'[j] = keys[j]
  BY <1>1, <1>2, <1>3
<1>7. /\ keys'[k] \in Entry /\ keys'[k].waiters = Append(w, c) /\ (keys'[k].active <=> keys[k].active)
  BY <1>2, <1>5, <1>6 DEF Entry
<1>8. keys' \in [Keys -> Entry \cup {NoEntry}]
  BY <1>1, <1>3, <1>6, <1>7
<1>9. \A j \in Keys : WaitersOf(j)' = IF j = k THEN Append(WaitersOf(j), c) ELSE WaitersOf(j)
  BY <1>2, <1>6, <1>7 DEF WaitersOf, w
<1>10. \A d \in Callers, j \in Keys : Holds(d, j)' <=> Holds(d, j)
  BY <1>1, <1>3 DEF Holds
<1>11. \A d \in Callers, j \in Keys : Waits(d, j)' <=> Waits(d, j) \/ (d = c /\ j = k)
  BY <1>1, <1>3 DEF Waits
<1>12. \A j \in Keys : keys'[j] = NoEntry <=> keys[j] = NoEntry
  BY <1>2, <1>6, <1>7
<1>13. QueueTypeOK'
  <2>1. /\ pc' \in [Callers -> {"out", "waiting", "granted", "abandoning", "running", "lingering"}]
        /\ lane' \in [Callers -> Keys \cup {NoKey}]
    BY <1>1, <1>3
  <2>2. \A j \in Keys : Distinct(WaitersOf(j)')
    BY <1>5, <1>9, Lists DEF QueueIInv, w
  <2>3. \A j \in Keys : \A i, m \in 1..Len(WaitersOf(j)') :
          WaitersOf(j)'[i] = WaitersOf(j)'[m] => i = m
    BY <2>2 DEF Distinct
  <2> QED BY <1>1, <1>3, <1>8, <2>1, <2>3 DEF QueueTypeOK, Entry
<1>14. EntriesHaveHolders' /\ HoldersAreAlone'
  BY <1>2, <1>6, <1>7, <1>10, <1>12 DEF QueueIInv, EntriesHaveHolders, HoldersAreAlone
<1>15. CallersFit'
  BY <1>1, <1>3 DEF QueueIInv, CallersFit
<1>16. WaitersAreListed'
  <2>1. \A d, j : Listed(WaitersOf(j), d)' <=> Listed(WaitersOf(j)', d)
    BY DEF Listed
  <2>2. \A d \in Callers, j \in Keys : Listed(WaitersOf(j), d)' <=> Listed(WaitersOf(j), d) \/ (d = c /\ j = k)
    BY <1>5, <1>9, <2>1 DEF w
  <2> QED BY <1>11, <2>2 DEF QueueIInv, WaitersAreListed
<1>17. ClosedListsAreEmpty'
  BY <1>1, <1>3 DEF ClosedListsAreEmpty
<1> QED BY <1>3, <1>9, <1>10, <1>12, <1>13, <1>14, <1>15, <1>16, <1>17 DEF QueueIInv

\* A waiter that was not granted the lane leaves its list, if it is still in one.
LEMMA WaiterGivesUp ==
  ASSUME QueueIInv, NEW c \in Callers, Withdraw(c), result[c] # "granted"
  PROVE  LET k == lane[c]
             w == WaitersOf(k) IN
         /\ QueueIInv'
         /\ \A d \in Callers, j \in Keys : Holds(d, j)' <=> Holds(d, j)
         /\ k \in Keys
         /\ \/ \A j \in Keys : WaitersOf(j)' = WaitersOf(j)
            \/ \E i \in 1..Len(w) :
                 /\ w[i] = c
                 /\ \A j \in Keys : WaitersOf(j)' = IF j = k THEN Remove(w, i) ELSE WaitersOf(j)
         /\ \A j \in Keys : keys'[j] = NoEntry <=> keys[j] = NoEntry
         /\ pc[c] = "abandoning" /\ pc' = [pc EXCEPT ![c] = "out"] /\ closed' = closed
<1> DEFINE k == lane[c]
           w == WaitersOf(k)
<1>1. /\ closed \in BOOLEAN
      /\ pc \in [Callers -> {"out", "waiting", "granted", "abandoning", "running", "lingering"}]
      /\ lane \in [Callers -> Keys \cup {NoKey}]
      /\ result \in [Callers -> {"none", "granted", "closed"}]
      /\ keys \in [Keys -> Entry \cup {NoEntry}]
      /\ pc[c] = "abandoning" /\ k \in Keys /\ NoKey \notin Keys
      /\ result[c] # "granted"
  BY KeyAssumption DEF QueueIInv, QueueTypeOK, CallersFit, Withdraw, Entry
<1>2. /\ pc' = [pc EXCEPT ![c] = "out"] /\ lane' = [lane EXCEPT ![c] = NoKey]
      /\ closed' = closed /\ result' = [result EXCEPT ![c] = "none"]
      /\ RemoveWaiter(c, k)
  BY DEF Withdraw, Return
<1>3. /\ w \in Seq(Callers) /\ Distinct(w)
      /\ keys[k] # NoEntry => keys[k] \in Entry /\ keys[k].active /\ w = keys[k].waiters
      /\ NoEntry \notin Entry
  BY <1>1, Lists DEF QueueIInv, EntriesHaveHolders, WaitersOf
<1> HIDE DEF w
<1>4. \/ keys' = keys /\ ~Listed(w, c)
      \/ \E i \in 1..Len(w) : w[i] = c /\ keys[k] # NoEntry /\ keys' = [keys EXCEPT ![k].waiters = Remove(w, i)]
  <2>1. CASE keys[k] # NoEntry
    <3>1. CASE Listed(w, c)
      <4>1. PICK i \in 1..Len(w) :
              /\ w[i] = c
              /\ keys' = [keys EXCEPT ![k] =
                   IF ~@.active /\ Remove(w, i) = <<>> THEN NoEntry ELSE [@ EXCEPT !.waiters = Remove(w, i)]]
        BY <1>2, <1>3, <2>1, <3>1 DEF RemoveWaiter, Listed
      <4> QED BY <1>3, <2>1, <4>1
    <3>2. CASE ~Listed(w, c)
      BY <1>2, <1>3, <2>1, <3>2 DEF RemoveWaiter, Listed
    <3> QED BY <3>1, <3>2
  <2>2. CASE keys[k] = NoEntry
    <3>1. w = <<>>
      BY <2>2 DEF WaitersOf, w
    <3> QED BY <1>2, <2>2, <3>1, EmptySeq DEF RemoveWaiter, Listed
  <2> QED BY <2>1, <2>2
<1>5. /\ keys' \in [Keys -> Entry \cup {NoEntry}]
      /\ \A j \in Keys : keys'[j] = NoEntry <=> keys[j] = NoEntry
      /\ \A j \in Keys : keys[j] # NoEntry => (keys'[j].active <=> keys[j].active)
      /\ \A j \in Keys : Distinct(WaitersOf(j)')
      /\ \A j \in Keys, d \in Callers : Listed(WaitersOf(j)', d) <=> Listed(WaitersOf(j), d) /\ ~(j = k /\ d = c)
      /\ \/ \A j \in Keys : WaitersOf(j)' = WaitersOf(j)
         \/ \E i \in 1..Len(w) :
               /\ w[i] = c
               /\ \A j \in Keys : WaitersOf(j)' = IF j = k THEN Remove(w, i) ELSE WaitersOf(j)
  <2>1. CASE keys' = keys /\ ~Listed(w, c)
    <3>1. \A j \in Keys : WaitersOf(j)' = WaitersOf(j)
      BY <2>1 DEF WaitersOf
    <3> QED BY <1>1, <2>1, <3>1, Lists DEF QueueIInv, w
  <2>2. ASSUME NEW i \in 1..Len(w), w[i] = c, keys[k] # NoEntry, keys' = [keys EXCEPT ![k].waiters = Remove(w, i)]
        PROVE  <1>5!1 /\ <1>5!2 /\ <1>5!3 /\ <1>5!4 /\ <1>5!5 /\ <1>5!6!2
    <3> DEFINE left == Remove(w, i)
    <3>1. /\ left \in Seq(Callers) /\ Distinct(left)
          /\ \A d : Listed(left, d) <=> Listed(w, d) /\ d # c
      BY <1>3, <2>2, Removed, OneLeft
    <3> HIDE DEF left
    <3>2. /\ keys'[k] = [keys[k] EXCEPT !.waiters = left]
          /\ \A j \in Keys \ {k} : keys'[j] = keys[j]
      BY <1>1, <2>2 DEF left
    <3>3. /\ keys'[k] \in Entry /\ keys'[k].waiters = left /\ (keys'[k].active <=> keys[k].active)
      BY <1>3, <2>2, <3>1, <3>2 DEF Entry
    <3>4. \A j \in Keys : WaitersOf(j)' = IF j = k THEN left ELSE WaitersOf(j)
      BY <1>3, <3>2, <3>3 DEF WaitersOf
    <3>5. keys' \in [Keys -> Entry \cup {NoEntry}]
      BY <1>1, <2>2, <3>2, <3>3
    <3>6. \A j \in Keys : Distinct(WaitersOf(j)')
      BY <3>1, <3>4, Lists DEF QueueIInv
    <3>7. \A j \in Keys, d \in Callers : Listed(WaitersOf(j)', d) <=> Listed(WaitersOf(j), d) /\ ~(j = k /\ d = c)
      BY <3>1, <3>4 DEF w
    <3> QED BY <1>3, <2>2, <3>2, <3>3, <3>4, <3>5, <3>6, <3>7 DEF left
  <2> QED BY <1>4, <2>1, <2>2
<1>6. \A d \in Callers, j \in Keys : Holds(d, j)' <=> Holds(d, j)
  BY <1>1, <1>2 DEF Holds
<1>7. \A d \in Callers, j \in Keys : Waits(d, j)' <=> Waits(d, j) /\ d # c
  BY <1>1, <1>2 DEF Waits
<1>8. QueueTypeOK'
  <2>1. /\ pc' \in [Callers -> {"out", "waiting", "granted", "abandoning", "running", "lingering"}]
        /\ lane' \in [Callers -> Keys \cup {NoKey}]
        /\ result' \in [Callers -> {"none", "granted", "closed"}]
    BY <1>1, <1>2
  <2>2. \A j \in Keys : \A i, m \in 1..Len(WaitersOf(j)') :
          WaitersOf(j)'[i] = WaitersOf(j)'[m] => i = m
    BY <1>5 DEF Distinct
  <2> QED BY <1>1, <1>2, <1>5, <2>1, <2>2 DEF QueueTypeOK, Entry
<1>9. EntriesHaveHolders' /\ HoldersAreAlone'
  BY <1>5, <1>6 DEF QueueIInv, EntriesHaveHolders, HoldersAreAlone
<1>10. CallersFit'
  BY <1>1, <1>2 DEF QueueIInv, CallersFit
<1>11. WaitersAreListed'
  <2>1. \A d, j : Listed(WaitersOf(j), d)' <=> Listed(WaitersOf(j)', d)
    BY DEF Listed
  <2>2. \A j \in Keys : j # k => ~Waits(c, j)
    BY DEF Waits
  <2> QED BY <1>5, <1>7, <2>1, <2>2 DEF QueueIInv, WaitersAreListed
<1>12. ClosedListsAreEmpty'
  <2> SUFFICES ASSUME closed PROVE \A j \in Keys : WaitersOf(j)' = <<>>
    BY <1>2 DEF ClosedListsAreEmpty
  <2>1. w = <<>> /\ \A j \in Keys : WaitersOf(j) = <<>>
    BY <1>1 DEF QueueIInv, ClosedListsAreEmpty, w
  <2>2. 1..Len(w) = {}
    BY <2>1, EmptySeq
  <2> QED BY <1>5, <2>1, <2>2
<1> QED BY <1>1, <1>2, <1>5, <1>6, <1>8, <1>9, <1>10, <1>11, <1>12 DEF QueueIInv, w
------------------------------------------------------------------------------
\* The invariant.

LEMMA QueueStart == QueueInit => QueueIInv
<1> SUFFICES ASSUME QueueInit PROVE QueueIInv
  OBVIOUS
<1>1. \A k \in Keys : WaitersOf(k) = <<>> /\ 1..Len(WaitersOf(k)) = {}
  <2>1. \A k \in Keys : WaitersOf(k) = <<>>
    BY DEF QueueInit, WaitersOf
  <2>2. 1..Len(<<>>) = {}
    BY EmptySeq
  <2> QED BY <2>1, <2>2
<1>2. \A c \in Callers, k \in Keys : ~Holds(c, k) /\ ~Waits(c, k)
  BY DEF QueueInit, Holds, Waits
<1>3. QueueTypeOK
  BY <1>1 DEF QueueInit, QueueTypeOK
<1>4. WaitersAreListed
  BY <1>1, <1>2 DEF WaitersAreListed, Listed
<1>5. EntriesHaveHolders /\ HoldersAreAlone
  BY <1>2 DEF EntriesHaveHolders, HoldersAreAlone, QueueInit
<1> QED BY <1>3, <1>4, <1>5 DEF QueueInit, QueueIInv, CallersFit, ClosedListsAreEmpty

LEMMA QueueStep == QueueIInv /\ [QueueNext]_queueVars => QueueIInv'
<1> SUFFICES ASSUME QueueIInv, [QueueNext]_queueVars PROVE QueueIInv'
  OBVIOUS
<1>1. CASE Close
  BY <1>1, CloseKeeps
<1>2. ASSUME NEW c \in Callers, CallerStep(c) PROVE QueueIInv'
  <2>1. ASSUME NEW k \in Keys, Acquire(c, k) PROVE QueueIInv'
    <3>1. CASE keys[k] = NoEntry
      BY <2>1, <3>1, FreeLaneIsTaken
    <3>2. CASE keys[k] # NoEntry
      BY <2>1, <3>2, TakenLaneIsAwaited
    <3> QED BY <3>1, <3>2
  <2>2. CASE Receive(c) \/ Abandon(c) \/ (Confirm(c) /\ ~closed) \/ Linger(c)
    BY <2>2, CallersKeep
  <2>3. CASE (Confirm(c) /\ closed) \/ (Withdraw(c) /\ result[c] = "granted") \/ EndExecution(c)
    <3>1. HandsOver(c)
      BY <2>3, LanesAreHandedOver
    <3> QED BY <3>1, HandOverKeeps
  <2>4. CASE Withdraw(c) /\ result[c] # "granted"
    BY <2>4, WaiterGivesUp
  <2> QED BY <1>2, <2>1, <2>2, <2>3, <2>4 DEF CallerStep
<1>3. CASE UNCHANGED queueVars
  BY <1>3 DEF queueVars, QueueIInv, QueueTypeOK, EntriesHaveHolders, HoldersAreAlone, CallersFit,
       WaitersAreListed, ClosedListsAreEmpty, Holds, Waits, Listed, WaitersOf
<1> QED BY <1>1, <1>2, <1>3 DEF QueueNext

\* The invariant holds in every behaviour of the queue.
THEOREM QueueInvariant == QueueSpec => []QueueIInv
  BY QueueStart, QueueStep, PTL DEF QueueSpec

\* Every value keeps its type, and no caller has two places in the lists.
THEOREM QueueTypeCorrect == QueueSpec => []QueueTypeOK
<1>1. QueueIInv => QueueTypeOK
  BY DEF QueueIInv
<1> QED BY <1>1, QueueInvariant, PTL

\* Whoever still waits is in the list of a key whose lane somebody has, and who
\* will hand it on: no order of hand-overs, cancellations and Close leaves a
\* waiter behind that nobody knows of (execution_queue.go:158).
NobodyIsStranded ==
  \A c \in Callers :
    pc[c] = "waiting" /\ result[c] = "none" =>
      /\ Listed(WaitersOf(lane[c]), c)
      /\ \E d \in Callers : d # c /\ Holds(d, lane[c])

\* No caller of the execution queue is left waiting with nobody to wake it, for any
\* callers and keys.
THEOREM NoWaiterIsStranded == QueueSpec => []NobodyIsStranded
<1>1. QueueIInv => NobodyIsStranded
  <2> SUFFICES ASSUME QueueIInv, NEW c \in Callers, pc[c] = "waiting", result[c] = "none"
               PROVE  Listed(WaitersOf(lane[c]), c) /\ \E d \in Callers : d # c /\ Holds(d, lane[c])
    BY DEF NobodyIsStranded
  <2>1. lane[c] \in Keys /\ ~Holds(c, lane[c])
    BY DEF QueueIInv, CallersFit, Holds
  <2>2. Listed(WaitersOf(lane[c]), c)
    BY <2>1 DEF QueueIInv, WaitersAreListed, Waits
  <2>3. keys[lane[c]] # NoEntry
    BY <2>2, EmptySeq DEF Listed, WaitersOf
  <2> QED BY <2>1, <2>2, <2>3 DEF QueueIInv, EntriesHaveHolders
<1> QED BY <1>1, QueueInvariant, PTL
------------------------------------------------------------------------------
\* The refinement of FifoLine.

\* What a line of the queue stands for.
LinesFit ==
  \A k \in Keys :
    /\ keys[k] = NoEntry => line[k] = <<>>
    /\ keys[k] # NoEntry => \E c \in Callers : Holds(c, k)
    /\ \A c \in Callers : Holds(c, k) => keys[k] # NoEntry /\ line[k] = <<c>> \o WaitersOf(k)

LEMMA LinesAre == QueueIInv => LinesFit
<1> SUFFICES ASSUME QueueIInv, NEW k \in Keys
             PROVE  /\ keys[k] = NoEntry => line[k] = <<>>
                    /\ keys[k] # NoEntry => \E c \in Callers : Holds(c, k)
                    /\ \A c \in Callers : Holds(c, k) => keys[k] # NoEntry /\ line[k] = <<c>> \o WaitersOf(k)
  BY DEF LinesFit
<1>1. ASSUME NEW c \in Callers, Holds(c, k)
      PROVE  keys[k] # NoEntry /\ line[k] = <<c>> \o WaitersOf(k)
  <2>1. Owner(k) \in Callers /\ Holds(Owner(k), k)
    BY <1>1 DEF Owner
  <2>2. Owner(k) = c
    BY <1>1, <2>1 DEF QueueIInv, HoldersAreAlone
  <2>3. keys[k] # NoEntry
    BY <1>1 DEF QueueIInv, EntriesHaveHolders
  <2> QED BY <2>2, <2>3 DEF line, WaitersOf
<1> QED BY <1>1 DEF line, QueueIInv, EntriesHaveHolders

LEMMA NextLinesAre == QueueIInv' => LinesFit'
  BY LinesAre, PTL

\* A line of one caller in front of others.
LEMMA InFront ==
  ASSUME NEW c \in Callers, NEW s \in Seq(Callers)
  PROVE  LET t == <<c>> \o s IN
         /\ t \in Seq(Callers) /\ t # <<>> /\ Head(t) = c /\ t[1] = c /\ Len(t) = Len(s) + 1
         /\ \A i \in 1..Len(s) : t[i + 1] = s[i]
         /\ SubSeq(t, 1, 0) \o SubSeq(t, 2, Len(t)) = s
<1> DEFINE t == <<c>> \o s
<1>1. /\ <<c>> \in Seq(Callers) /\ Len(<<c>>) = 1 /\ <<c>>[1] = c /\ Len(s) \in Nat
  BY LenProperties
<1>2. /\ t \in Seq(Callers) /\ Len(t) = 1 + Len(s)
      /\ \A i \in 1..1 + Len(s) : t[i] = IF i <= 1 THEN <<c>>[i] ELSE s[i - 1]
  BY <1>1, ConcatProperties
<1> HIDE DEF t
<1>3. t[1] = c /\ \A i \in 1..Len(s) : t[i + 1] = s[i]
  BY <1>1, <1>2
<1>4. t # <<>> /\ Head(t) = c
  BY <1>1, <1>2, <1>3, EmptySeq
<1>5. Remove(t, 1) = s
  <2>0. 1 \in 1..Len(t)
    BY <1>1, <1>2
  <2>1. /\ Remove(t, 1) \in Seq(Callers) /\ Len(Remove(t, 1)) = Len(t) - 1
        /\ \A j \in 1..Len(t) - 1 : Remove(t, 1)[j] = IF j < 1 THEN t[j] ELSE t[j + 1]
    BY <1>2, <2>0, Removed
  <2>2. Len(Remove(t, 1)) = Len(s) /\ \A j \in 1..Len(s) : Remove(t, 1)[j] = s[j]
    BY <1>1, <1>2, <1>3, <2>1
  <2> QED BY <2>1, <2>2, SeqEqual
<1>6. SubSeq(t, 1, 0) \o SubSeq(t, 2, Len(t)) = s
  BY <1>5 DEF Remove
<1> QED BY <1>1, <1>2, <1>3, <1>4, <1>6 DEF t

\* A sequence is its head before its tail.
LEMMA HeadAndTail ==
  ASSUME NEW w \in Seq(Callers), w # <<>>
  PROVE  <<Head(w)>> \o Tail(w) = w
<1>1. /\ Len(w) \in Nat \ {0} /\ Head(w) \in Callers /\ Head(w) = w[1]
      /\ Tail(w) \in Seq(Callers) /\ Len(Tail(w)) = Len(w) - 1
      /\ \A i \in 1..Len(Tail(w)) : Tail(w)[i] = w[i + 1]
  BY HeadTailProperties, EmptySeq
<1> DEFINE t == Tail(w)
           u == <<Head(w)>> \o t
<1>2. /\ u \in Seq(Callers) /\ u[1] = Head(w) /\ Len(u) = Len(t) + 1
      /\ \A i \in 1..Len(t) : u[i + 1] = t[i]
  BY <1>1, InFront
<1> HIDE DEF u, t
<1>3. Len(u) = Len(w)
  BY <1>1, <1>2 DEF t
<1>4. ASSUME NEW i \in 1..Len(w) PROVE u[i] = w[i]
  <2>1. CASE i = 1
    BY <1>1, <1>2, <2>1
  <2>2. CASE i # 1
    <3>1. i - 1 \in 1..Len(t) /\ (i - 1) + 1 = i
      BY <1>1, <2>2 DEF t
    <3>2. u[(i - 1) + 1] = t[i - 1] /\ t[i - 1] = w[(i - 1) + 1]
      BY <1>1, <1>2, <3>1 DEF t
    <3> QED BY <3>1, <3>2
  <2> QED BY <2>1, <2>2
<1> QED BY <1>2, <1>3, <1>4, SeqEqual DEF u, t

\* Behind that caller, others come and go.
LEMMA BehindIt ==
  ASSUME NEW c \in Callers, NEW s \in Seq(Callers)
  PROVE  /\ \A d \in Callers : <<c>> \o Append(s, d) = Append(<<c>> \o s, d)
         /\ \A i \in 1..Len(s) : <<c>> \o Remove(s, i) = Remove(<<c>> \o s, i + 1)
<1> DEFINE t == <<c>> \o s
<1>1. /\ t \in Seq(Callers) /\ t[1] = c /\ Len(t) = Len(s) + 1 /\ Len(s) \in Nat
      /\ \A i \in 1..Len(s) : t[i + 1] = s[i]
  BY InFront, LenProperties
<1> HIDE DEF t
<1>2. ASSUME NEW d \in Callers PROVE <<c>> \o Append(s, d) = Append(t, d)
  <2>1. /\ <<c>> \in Seq(Callers) /\ <<d>> \in Seq(Callers)
        /\ Append(s, d) = s \o <<d>> /\ Append(t, d) = t \o <<d>>
    BY <1>1, AppendIsConcat
  <2> QED BY <2>1, ConcatAssociative DEF t
<1>3. ASSUME NEW i \in 1..Len(s) PROVE <<c>> \o Remove(s, i) = Remove(t, i + 1)
  <2> DEFINE r == Remove(s, i)
             u == <<c>> \o r
             v == Remove(t, i + 1)
  <2>1. /\ r \in Seq(Callers) /\ Len(r) = Len(s) - 1
        /\ \A j \in 1..Len(s) - 1 : r[j] = IF j < i THEN s[j] ELSE s[j + 1]
    BY Removed
  <2>2. /\ u \in Seq(Callers) /\ u[1] = c /\ Len(u) = Len(r) + 1
        /\ \A j \in 1..Len(r) : u[j + 1] = r[j]
    BY <2>1, InFront
  <2>3. i + 1 \in 1..Len(t)
    BY <1>1
  <2>4. /\ v \in Seq(Callers) /\ Len(v) = Len(t) - 1
        /\ \A j \in 1..Len(t) - 1 : v[j] = IF j < i + 1 THEN t[j] ELSE t[j + 1]
    BY <1>1, <2>3, Removed
  <2> HIDE DEF r, u, v
  <2>5. Len(u) = Len(s) /\ Len(v) = Len(s)
    BY <1>1, <2>1, <2>2, <2>4
  <2>6. ASSUME NEW j \in 1..Len(s) PROVE u[j] = v[j]
    <3>1. CASE j = 1
      BY <1>1, <2>2, <2>4, <3>1
    <3>2. CASE j # 1
      <4> DEFINE m == j - 1
      <4>1. m \in 1..Len(s) - 1 /\ m + 1 \in 1..Len(s) /\ j = m + 1 /\ m \in 1..Len(r) /\ m \in 1..Len(s)
        BY <1>1, <2>1, <3>2
      <4> HIDE DEF m
      <4>2. u[j] = IF m < i THEN s[m] ELSE s[m + 1]
        BY <2>1, <2>2, <4>1
      <4>3. v[j] = IF m < i THEN t[m + 1] ELSE t[(m + 1) + 1]
        BY <1>1, <2>4, <4>1
      <4> QED BY <1>1, <4>1, <4>2, <4>3
    <3> QED BY <3>1, <3>2
  <2> QED BY <2>2, <2>4, <2>5, <2>6, SeqEqual DEF r, u, v
<1> QED BY <1>2, <1>3 DEF t

\* Where a step keeps holders and lists, it keeps the lines.
LEMMA LinesStay ==
  ASSUME QueueIInv, QueueIInv', NEW j \in Keys,
         \A d \in Callers : Holds(d, j)' <=> Holds(d, j),
         WaitersOf(j)' = WaitersOf(j), keys'[j] = NoEntry <=> keys[j] = NoEntry
  PROVE  line'[j] = line[j]
<1>0. LinesFit /\ LinesFit'
  BY LinesAre, NextLinesAre
<1>1. CASE keys[j] = NoEntry
  BY <1>0, <1>1 DEF LinesFit
<1>2. CASE keys[j] # NoEntry
  <2>1. PICK d \in Callers : Holds(d, j)
    BY <1>0, <1>2 DEF LinesFit
  <2>2. line[j] = <<d>> \o WaitersOf(j)
    BY <1>0, <2>1 DEF LinesFit
  <2>3. line'[j] = <<d>> \o WaitersOf(j)'
    <3>1. Holds(d, j)'
      BY <2>1
    <3> QED BY <1>0, <3>1 DEF LinesFit
  <2> QED BY <2>2, <2>3
<1> QED BY <1>1, <1>2

LEMMA AllLinesStay ==
  ASSUME QueueIInv, QueueIInv',
         \A d \in Callers, j \in Keys : Holds(d, j)' <=> Holds(d, j),
         \A j \in Keys : WaitersOf(j)' = WaitersOf(j) /\ (keys'[j] = NoEntry <=> keys[j] = NoEntry)
  PROVE  line' = line
<1>1. \A j \in Keys : line'[j] = line[j]
  BY LinesStay
<1>2. line = [j \in Keys |-> line[j]] /\ line' = [j \in Keys |-> line'[j]]
  BY DEF line
<1> QED BY <1>1, <1>2

\* A caller that has its lane is at the head of the line, and leaves it there.
LEMMA HandOverLeaves ==
  ASSUME QueueIInv, QueueIInv', NEW c \in Callers, HandsOver(c)
  PROVE  Line!Leave(lane[c], 1) /\ lane[c] \in Keys /\ 1 \in 1..Len(line[lane[c]])
<1>0. LinesFit /\ LinesFit'
  BY LinesAre, NextLinesAre
<1>1. PICK k \in Keys : k = lane[c] /\ Holds(c, k)
  BY HandOverEffect DEF HandsOver
<1> DEFINE w == WaitersOf(k)
<1>2. /\ pc' = [pc EXCEPT ![c] = "out"] /\ closed' = closed
      /\ \A j \in Keys \ {k} : keys'[j] = keys[j]
      /\ w = <<>> => keys'[k] = NoEntry
  BY <1>1, HandOverEffect
<1>3. /\ \A j \in Keys : WaitersOf(j)' = IF j = k /\ w # <<>> THEN Tail(w) ELSE WaitersOf(j)
      /\ \A d \in Callers, j \in Keys :
           Holds(d, j)' <=> IF j = k THEN w # <<>> /\ d = Head(w) ELSE Holds(d, j)
  BY <1>1, HandOverRoles
<1>4. /\ pc \in [Callers -> {"out", "waiting", "granted", "abandoning", "running", "lingering"}]
      /\ w \in Seq(Callers)
  BY Lists DEF QueueIInv, QueueTypeOK
<1>5. line[k] = <<c>> \o w
  BY <1>0, <1>1 DEF LinesFit
<1> HIDE DEF w
<1>6. line'[k] = w
  <2>1. CASE w = <<>>
    BY <1>0, <1>2, <2>1 DEF LinesFit
  <2>2. CASE w # <<>>
    <3>1. PICK d \in Callers : d = Head(w)
      BY <1>4, <2>2, HeadTailProperties
    <3>2. Holds(d, k)'
      BY <1>3, <2>2, <3>1
    <3>3. line'[k] = <<Head(w)>> \o Tail(w)
      BY <1>0, <1>3, <2>2, <3>1, <3>2 DEF LinesFit
    <3> QED BY <1>4, <2>2, <3>3, HeadAndTail
  <2> QED BY <2>1, <2>2
<1>7. ASSUME NEW j \in Keys \ {k} PROVE line'[j] = line[j]
  <2>1. /\ \A d \in Callers : Holds(d, j)' <=> Holds(d, j)
        /\ WaitersOf(j)' = WaitersOf(j) /\ (keys'[j] = NoEntry <=> keys[j] = NoEntry)
    BY <1>2, <1>3
  <2> QED BY <2>1, LinesStay
<1>8. SubSeq(line[k], 1, 0) \o SubSeq(line[k], 2, Len(line[k])) = w /\ line[k][1] = c
      /\ 1 \in 1..Len(line[k])
  BY <1>4, <1>5, InFront, LenProperties
<1>9. line' = [line EXCEPT ![k] = w]
  <2>1. line = [j \in Keys |-> line[j]] /\ line' = [j \in Keys |-> line'[j]]
    BY DEF line
  <2> QED BY <1>6, <1>7, <2>1
<1>10. running' = running \ {c}
  BY <1>2, <1>4 DEF running
<1>11. line' = [line EXCEPT ![k] = SubSeq(@, 1, 1 - 1) \o SubSeq(@, 1 + 1, Len(@))]
  <2>1. 1 - 1 = 0 /\ 1 + 1 = 2
    OBVIOUS
  <2>2. SubSeq(line[k], 1, 1 - 1) \o SubSeq(line[k], 1 + 1, Len(line[k])) = w
    BY ONLY <1>8, <2>1, Zenon
  <2> QED BY ONLY <1>9, <2>2, Zenon
<1> QED BY <1>1, <1>2, <1>8, <1>10, <1>11 DEF Line!Leave

\* Every step of the queue is a step of the lines, or none.
LEMMA StepRefines ==
  ASSUME QueueIInv, QueueIInv', NEW c \in Callers, CallerStep(c)
  PROVE  [Line!Next]_(Line!vars)
<1>0. LinesFit /\ LinesFit'
  BY LinesAre, NextLinesAre
<1>1. /\ pc \in [Callers -> {"out", "waiting", "granted", "abandoning", "running", "lingering"}]
      /\ \A k \in Keys : WaitersOf(k) \in Seq(Callers)
      /\ line = [k \in Keys |-> line[k]] /\ line' = [k \in Keys |-> line'[k]]
  BY Lists DEF QueueIInv, QueueTypeOK, line
<1>2. ASSUME NEW k \in Keys, Acquire(c, k), keys[k] = NoEntry PROVE Line!Join(c, k)
  <2>1. /\ \A d \in Callers, j \in Keys : Holds(d, j)' <=> Holds(d, j) \/ (d = c /\ j = k)
        /\ \A j \in Keys : WaitersOf(j)' = WaitersOf(j)
        /\ keys'[k] # NoEntry /\ \A j \in Keys \ {k} : keys'[j] = keys[j]
        /\ pc' = [pc EXCEPT ![c] = "running"] /\ closed' = closed /\ ~closed
    BY <1>2, FreeLaneIsTaken DEF Acquire
  <2>2. line[k] = <<>> /\ WaitersOf(k) = <<>>
    BY <1>0, <1>2 DEF LinesFit, WaitersOf
  <2>3. line'[k] = <<c>> \o WaitersOf(k)'
    BY <1>0, <2>1 DEF LinesFit
  <2>4. line'[k] = Append(<<>>, c)
    <3>1. WaitersOf(k)' = <<>>
      BY <2>1, <2>2
    <3>2. <<c>> \o <<>> = <<c>> /\ Append(<<>>, c) = <<c>>
      BY ConcatEmptySeq
    <3> QED BY <2>3, <3>1, <3>2
  <2>5. ASSUME NEW j \in Keys \ {k} PROVE line'[j] = line[j]
    <3>1. /\ \A d \in Callers : Holds(d, j)' <=> Holds(d, j)
          /\ WaitersOf(j)' = WaitersOf(j) /\ (keys'[j] = NoEntry <=> keys[j] = NoEntry)
      BY <2>1
    <3> QED BY <3>1, LinesStay
  <2>6. running' = running \cup {c}
    BY <1>1, <2>1 DEF running
  <2>7. line' = [line EXCEPT ![k] = Append(@, c)]
    BY <1>1, <2>2, <2>4, <2>5
  <2> QED BY <2>1, <2>2, <2>6, <2>7 DEF Line!Join
<1>3. ASSUME NEW k \in Keys, Acquire(c, k), keys[k] # NoEntry PROVE Line!Join(c, k)
  <2>1. /\ \A d \in Callers, j \in Keys : Holds(d, j)' <=> Holds(d, j)
        /\ \A j \in Keys : WaitersOf(j)' = IF j = k THEN Append(WaitersOf(j), c) ELSE WaitersOf(j)
        /\ \A j \in Keys : keys'[j] = NoEntry <=> keys[j] = NoEntry
        /\ pc' = [pc EXCEPT ![c] = "waiting"] /\ closed' = closed /\ ~closed /\ pc[c] = "out"
    BY <1>3, TakenLaneIsAwaited DEF Acquire
  <2>2. PICK d \in Callers : Holds(d, k)
    BY <1>0, <1>3 DEF LinesFit
  <2>3. line[k] = <<d>> \o WaitersOf(k)
    BY <1>0, <2>2 DEF LinesFit
  <2>4. line'[k] = <<d>> \o Append(WaitersOf(k), c)
    BY <1>0, <2>1, <2>2 DEF LinesFit
  <2>5. line'[k] = Append(line[k], c) /\ line[k] # <<>>
    <3>1. <<d>> \o Append(WaitersOf(k), c) = Append(<<d>> \o WaitersOf(k), c)
      BY <1>1, BehindIt
    <3>2. <<d>> \o WaitersOf(k) # <<>>
      BY <1>1, InFront
    <3> QED BY <2>3, <2>4, <3>1, <3>2
  <2>6. ASSUME NEW j \in Keys \ {k} PROVE line'[j] = line[j]
    BY <2>1, LinesStay
  <2>7. running' = running
    BY <1>1, <2>1 DEF running
  <2>8. line' = [line EXCEPT ![k] = Append(@, c)]
    BY <1>1, <2>5, <2>6
  <2> QED BY <2>1, <2>5, <2>7, <2>8 DEF Line!Join
<1>4. CASE Receive(c) \/ Abandon(c) \/ Linger(c)
  <2>1. line' = line
    <3>1. /\ \A d \in Callers, j \in Keys : Holds(d, j)' <=> Holds(d, j)
          /\ keys' = keys /\ closed' = closed
      BY <1>4, CallersKeep
    <3>2. \A j \in Keys : WaitersOf(j)' = WaitersOf(j)
      BY <3>1 DEF WaitersOf
    <3> QED BY <3>1, <3>2, AllLinesStay
  <2>2. running' = running /\ closed' = closed
    BY <1>1, <1>4 DEF running, Receive, Return, Abandon, Linger
  <2> QED BY <2>1, <2>2 DEF Line!vars
<1>5. CASE Confirm(c) /\ ~closed
  <2>1. /\ \A d \in Callers, j \in Keys : Holds(d, j)' <=> Holds(d, j)
        /\ keys' = keys /\ closed' = closed
    BY <1>5, CallersKeep
  <2>2. line' = line
    <3>1. \A j \in Keys : WaitersOf(j)' = WaitersOf(j)
      BY <2>1 DEF WaitersOf
    <3> QED BY <2>1, <3>1, AllLinesStay
  <2>3. PICK k \in Keys : Holds(c, k)
    BY <1>5 DEF Confirm, Holds, QueueIInv, CallersFit
  <2>4. line[k] # <<>> /\ Head(line[k]) = c
    <3>1. line[k] = <<c>> \o WaitersOf(k)
      BY <1>0, <2>3 DEF LinesFit
    <3>2. <<c>> \o WaitersOf(k) # <<>> /\ Head(<<c>> \o WaitersOf(k)) = c
      BY <1>1, InFront
    <3> QED BY <3>1, <3>2
  <2>5. running' = running \cup {c}
    BY <1>1, <1>5 DEF running, Confirm
  <2>6. Line!Enter(c, k)
    BY <1>5, <2>1, <2>2, <2>4, <2>5 DEF Line!Enter
  <2> QED BY <2>6 DEF Line!Next
<1>6. CASE (Confirm(c) /\ closed) \/ (Withdraw(c) /\ result[c] = "granted") \/ EndExecution(c)
  <2>1. HandsOver(c)
    BY <1>6, LanesAreHandedOver
  <2>2. Line!Leave(lane[c], 1) /\ lane[c] \in Keys /\ 1 \in 1..Len(line[lane[c]])
    BY <2>1, HandOverLeaves
  <2> QED BY <2>2 DEF Line!Next
<1>7. CASE Withdraw(c) /\ result[c] # "granted"
  <2>1. PICK k \in Keys : k = lane[c]
    BY <1>7, WaiterGivesUp
  <2>2. /\ \A d \in Callers, j \in Keys : Holds(d, j)' <=> Holds(d, j)
        /\ \/ \A j \in Keys : WaitersOf(j)' = WaitersOf(j)
           \/ \E i \in 1..Len(WaitersOf(k)) :
                /\ WaitersOf(k)[i] = c
                /\ \A j \in Keys : WaitersOf(j)' = IF j = k THEN Remove(WaitersOf(k), i) ELSE WaitersOf(j)
        /\ \A j \in Keys : keys'[j] = NoEntry <=> keys[j] = NoEntry
        /\ pc[c] = "abandoning" /\ pc' = [pc EXCEPT ![c] = "out"] /\ closed' = closed
    BY <1>7, <2>1, WaiterGivesUp
  <2>3. running' = running \ {c} /\ running' = running
    BY <1>1, <2>2 DEF running
  <2>4. CASE \A j \in Keys : WaitersOf(j)' = WaitersOf(j)
    <3>1. line' = line
      BY <2>2, <2>4, AllLinesStay
    <3> QED BY <2>2, <2>3, <3>1 DEF Line!vars
  <2>5. ASSUME NEW i \in 1..Len(WaitersOf(k)),
               WaitersOf(k)[i] = c,
               \A j \in Keys : WaitersOf(j)' = IF j = k THEN Remove(WaitersOf(k), i) ELSE WaitersOf(j)
        PROVE  Line!Leave(k, i + 1) /\ i + 1 \in 1..Len(line[k])
    <3> DEFINE w == WaitersOf(k)
    <3>0. w \in Seq(Callers) /\ Len(w) \in Nat /\ i \in 1..Len(w) /\ w[i] = c
      BY <1>1, <2>5, LenProperties
    <3>1. keys[k] # NoEntry
      <4>1. Len(<<>>) = 0
        BY EmptySeq
      <4> QED BY <3>0, <4>1 DEF WaitersOf
    <3>2. PICK d \in Callers : Holds(d, k)
      BY <1>0, <3>1 DEF LinesFit
    <3>3. line[k] = <<d>> \o w
      BY <1>0, <3>2 DEF LinesFit
    <3>4. line'[k] = <<d>> \o Remove(w, i)
      BY <1>0, <2>2, <2>5, <3>2 DEF LinesFit
    <3> HIDE DEF w
    <3>5. line'[k] = Remove(line[k], i + 1) /\ line[k][i + 1] = c /\ i + 1 \in 1..Len(line[k])
      <4>1. <<d>> \o Remove(w, i) = Remove(<<d>> \o w, i + 1)
        BY <3>0, BehindIt
      <4>2. (<<d>> \o w)[i + 1] = c /\ Len(<<d>> \o w) = Len(w) + 1
        BY <3>0, InFront
      <4>3. i + 1 \in 1..Len(w) + 1
        BY <3>0
      <4> QED BY <3>3, <3>4, <4>1, <4>2, <4>3
    <3>6. ASSUME NEW j \in Keys \ {k} PROVE line'[j] = line[j]
      BY <2>2, <2>5, LinesStay
    <3>7. line' = [line EXCEPT ![k] = Remove(@, i + 1)]
      BY <1>1, <3>5, <3>6
    <3>8. line' = [line EXCEPT ![k] = SubSeq(@, 1, (i + 1) - 1) \o SubSeq(@, (i + 1) + 1, Len(@))]
      BY <3>7 DEF Remove
    <3> QED BY <2>2, <2>3, <3>5, <3>8 DEF Line!Leave
  <2> QED BY <2>2, <2>4, <2>5 DEF Line!Next
<1> QED BY <1>2, <1>3, <1>4, <1>5, <1>6, <1>7 DEF CallerStep, Line!Next

LEMMA CloseRefines ==
  ASSUME QueueIInv, QueueIInv', Close
  PROVE  Line!Close
<1>0. LinesFit /\ LinesFit'
  BY LinesAre, NextLinesAre
<1>1. /\ \A d \in Callers, k \in Keys : Holds(d, k)' <=> Holds(d, k)
      /\ \A k \in Keys : WaitersOf(k)' = <<>> /\ (keys'[k] = NoEntry <=> keys[k] = NoEntry)
      /\ closed' = TRUE /\ pc' = pc
  BY CloseKeeps DEF Close
<1>2. ASSUME NEW k \in Keys PROVE line'[k] = IF line[k] = <<>> THEN <<>> ELSE <<Head(line[k])>>
  <2>1. CASE keys[k] = NoEntry
    BY <1>0, <1>1, <2>1 DEF LinesFit
  <2>2. CASE keys[k] # NoEntry
    <3>1. PICK d \in Callers : Holds(d, k)
      BY <1>0, <2>2 DEF LinesFit
    <3>2. line[k] # <<>> /\ Head(line[k]) = d
      <4>1. line[k] = <<d>> \o WaitersOf(k)
        BY <1>0, <3>1 DEF LinesFit
      <4>2. WaitersOf(k) \in Seq(Callers)
        BY Lists DEF QueueIInv
      <4>3. <<d>> \o WaitersOf(k) # <<>> /\ Head(<<d>> \o WaitersOf(k)) = d
        BY <4>2, InFront
      <4> QED BY <4>1, <4>3
    <3>3. line'[k] = <<d>> \o <<>>
      BY <1>0, <1>1, <3>1 DEF LinesFit
    <3>4. <<d>> \o <<>> = <<d>>
      BY ConcatEmptySeq
    <3> QED BY <3>2, <3>3, <3>4
  <2> QED BY <2>1, <2>2
<1>3. line' = [k \in Keys |-> line'[k]]
  BY DEF line
<1>4. line' = [k \in Keys |-> IF line[k] = <<>> THEN <<>> ELSE <<Head(line[k])>>]
  BY <1>2, <1>3
<1> QED BY <1>1, <1>4 DEF Line!Close, running

\* The queue implements one line per key, for any keys and callers.
THEOREM QueueImplementsFifoLine == QueueSpec => ImplementsFifoLine
<1>1. QueueInit => Line!Init
  BY DEF QueueInit, Line!Init, line, running
<1>2. QueueIInv /\ QueueIInv' /\ [QueueNext]_queueVars => [Line!Next]_(Line!vars)
  <2> SUFFICES ASSUME QueueIInv, QueueIInv', [QueueNext]_queueVars PROVE [Line!Next]_(Line!vars)
    OBVIOUS
  <2>1. CASE Close
    BY <2>1, CloseRefines DEF Line!Next
  <2>2. ASSUME NEW c \in Callers, CallerStep(c) PROVE [Line!Next]_(Line!vars)
    BY <2>2, StepRefines
  <2>3. CASE UNCHANGED queueVars
    <3>1. \A d \in Callers, j \in Keys : Holds(d, j)' <=> Holds(d, j)
      BY <2>3 DEF queueVars, Holds
    <3>2. \A j \in Keys : WaitersOf(j)' = WaitersOf(j) /\ (keys'[j] = NoEntry <=> keys[j] = NoEntry)
      BY <2>3 DEF queueVars, WaitersOf
    <3>3. line' = line
      BY <3>1, <3>2, AllLinesStay
    <3> QED BY <2>3, <3>3 DEF queueVars, running, Line!vars
  <2> QED BY <2>1, <2>2, <2>3 DEF QueueNext
<1> QED BY <1>1, <1>2, QueueInvariant, PTL DEF QueueSpec, ImplementsFifoLine, Line!Spec
------------------------------------------------------------------------------
(* The inference server. *)

InUse == {"open", "waiting", "inferring", "served"}
Beginning == {"looked", "starting"}

\* A child that is not ready yet has somebody waiting for it, with the mutex of
\* the backend; nobody stops it behind the back of a start.
StartsAreMinded ==
  /\ starter # Nobody => process \in {"starting", "ended", "stuck"}
  /\ process = "starting" => starter # Nobody
  /\ \A s \in LlamaSessions : llamaSession[s] = "starting" <=> starter = s

\* The timer that counts is of a server that is the component's and has no user.
TimersAreOfIdleServers ==
  manager.idle # Nobody =>
    manager.auto /\ \A s \in LlamaSessions : llamaSession[s] \notin InUse \cup Beginning

\* A stop is decided when the last session leaves: the ones that come before it
\* is carried out may miss their server.
StopsSpareNobody ==
  \A s, d \in LlamaSessions :
    (llamaSession[s] = "stopping" \/ idleTimer[s] = "stopping") /\ llamaSession[d] \in InUse \cup Beginning
      => d \in cutOff

\* From its end on the run owes no session a server.
ClosingCutsOff == closing # "open" => cutOff = LlamaSessions

\* As long as a user minds the server nothing of the sessions would stop it, and
\* a session that sees it alive has not found it stopped.
UsersServerIsLeft ==
  owner = "user" =>
    /\ ~manager.auto
    /\ \A s \in LlamaSessions :
         /\ llamaSession[s] \notin {"stopping", "starting"} /\ idleTimer[s] # "stopping"
         /\ llamaSession[s] = "looked" /\ Alive => wasRunning[s]

\* Sessions have their server, session by session.
UsersAreServed ==
  \A s \in LlamaSessions : llamaSession[s] \in InUse => s \in cutOff \/ process = "ready"

\* The inductive invariant.
LlamaIInv ==
  /\ LlamaTypeOK /\ StartsAreMinded /\ TimersAreOfIdleServers /\ StopsSpareNobody
  /\ ClosingCutsOff /\ UsersServerIsLeft /\ UsersAreServed /\ ClosedServersAreGone
------------------------------------------------------------------------------
\* Who uses the server, counted.

UsersAre == \A s \in LlamaSessions : s \in Using <=> llamaSession[s] \in InUse

LEMMA Users == UsersAre /\ Using \subseteq LlamaSessions
  BY DEF UsersAre, Using, At, InUse

LEMMA UsersAreFinite ==
  /\ IsFiniteSet(Using) /\ Cardinality(Using) \in 0..Cardinality(LlamaSessions)
  /\ Cardinality(LlamaSessions) \in Nat
<1>1. IsFiniteSet(LlamaSessions)
  BY LlamaAssumption
<1>2. IsFiniteSet(Using) /\ Cardinality(Using) <= Cardinality(LlamaSessions)
  BY <1>1, Users, FS_Subset
<1> QED BY <1>1, <1>2, FS_CardinalityType

\* A session that comes counts one more, and one that goes one less.
LEMMA UserComes ==
  ASSUME NEW s \in LlamaSessions, s \notin Using, Using' = Using \cup {s}
  PROVE  Cardinality(Using') = Cardinality(Using) + 1
  BY UsersAreFinite, FS_AddElement

LEMMA UserGoes ==
  ASSUME NEW s \in LlamaSessions, s \in Using, Using' = Using \ {s}
  PROVE  Cardinality(Using') = Cardinality(Using) - 1 /\ Cardinality(Using) > 0
<1>1. Cardinality(Using \ {s}) = Cardinality(Using) - 1
  BY UsersAreFinite, FS_RemoveElement
<1>2. Cardinality(Using) # 0
  BY UsersAreFinite, FS_EmptySet
<1> QED BY <1>1, <1>2, UsersAreFinite

LEMMA UsersStay ==
  ASSUME llamaSession' = llamaSession
  PROVE  Using' = Using
  BY DEF Using, At

LEMMA UsersMove ==
  ASSUME LlamaTypeOK, NEW s \in LlamaSessions, NEW place, MoveTo(s, place)
  PROVE  /\ place \in InUse => Using' = Using \cup {s}
         /\ place \notin InUse => Using' = Using \ {s}
  BY DEF LlamaTypeOK, MoveTo, Using, At, InUse

LEMMA LlamaStart == LlamaInit => LlamaIInv
<1> SUFFICES ASSUME LlamaInit PROVE LlamaIInv
  OBVIOUS
<1>1. Using = {}
  BY DEF LlamaInit, Using, At
<1>2. Cardinality(Using) = 0
  BY <1>1, FS_EmptySet
<1>3. LlamaTypeOK
  BY <1>2, UsersAreFinite, LlamaAssumption DEF LlamaInit, LlamaTypeOK
<1> QED BY <1>3, LlamaAssumption DEF LlamaInit, LlamaIInv, StartsAreMinded, TimersAreOfIdleServers,
  StopsSpareNobody, ClosingCutsOff, UsersServerIsLeft, UsersAreServed, ClosedServersAreGone, InUse, Beginning, Alive

LEMMA TypesKeep == LlamaTypeOK /\ StartsAreMinded /\ [LlamaNext]_llamaVars => LlamaTypeOK'
<1> SUFFICES ASSUME LlamaTypeOK, StartsAreMinded, [LlamaNext]_llamaVars PROVE LlamaTypeOK'
  OBVIOUS
<1> USE LlamaAssumption, UsersAreFinite
<1>1. ASSUME NEW s \in LlamaSessions, Look(s) PROVE LlamaTypeOK'
  <2>1. Using' = Using
    <3>1. MoveTo(s, "looked") /\ llamaSession[s] = "new"
      BY <1>1 DEF Look
    <3> QED BY <3>1, UsersMove, Users DEF InUse, UsersAre
  <2> QED BY <1>1, <2>1 DEF Look, LlamaTypeOK, MoveTo, Disarmed, Alive
<1>2. ASSUME NEW s \in LlamaSessions, Unbound(s) PROVE LlamaTypeOK'
  <2>1. Using' = Using
    BY <1>2, UsersMove, Users DEF Unbound, InUse, UsersAre
  <2> QED BY <1>2, <2>1 DEF Unbound, LlamaTypeOK, MoveTo
<1>3. ASSUME NEW s \in LlamaSessions, llamaSession[s] \in Beginning, Opened(s)
      PROVE  /\ llamaSession' = [llamaSession EXCEPT ![s] = "open"]
             /\ manager' \in [active : 0..Cardinality(LlamaSessions), auto : BOOLEAN,
                              idle : LlamaSessions \cup {Nobody}]
             /\ manager'.active = Cardinality(Using')
             /\ llamaSession' \in [LlamaSessions -> {"new", "looked", "starting", "open", "waiting",
                                         "inferring", "served", "stopping", "ended"}]
  <2>1. Using' = Using \cup {s} /\ s \notin Using
    BY <1>3, UsersMove, Users DEF Opened, InUse, UsersAre, Beginning
  <2>2. Cardinality(Using') = Cardinality(Using) + 1
    BY <2>1, UserComes
  <2>3. Cardinality(Using') <= Cardinality(LlamaSessions)
    BY <2>1, Users, FS_Subset
  <2>4. llamaSession' = [llamaSession EXCEPT ![s] = "open"]
    BY <1>3 DEF Opened, MoveTo
  <2>5. manager'.active = manager.active + 1 /\ manager'.idle = manager.idle
    BY <1>3 DEF Opened, LlamaTypeOK
  <2>6. manager'.auto \in BOOLEAN /\ manager' = [active |-> manager'.active, auto |-> manager'.auto, idle |-> manager'.idle]
    BY <1>3 DEF Opened, LlamaTypeOK
  <2>7. manager'.active \in 0..Cardinality(LlamaSessions) /\ manager'.active = Cardinality(Using')
    BY <2>2, <2>3, <2>5 DEF LlamaTypeOK
  <2>8. manager' \in [active : 0..Cardinality(LlamaSessions), auto : BOOLEAN,
                      idle : LlamaSessions \cup {Nobody}]
    BY <2>5, <2>6, <2>7 DEF LlamaTypeOK
  <2> QED BY <2>4, <2>7, <2>8 DEF LlamaTypeOK
<1>4. ASSUME NEW s \in LlamaSessions, Join(s) PROVE LlamaTypeOK'
  BY <1>3, <1>4 DEF Join, LlamaTypeOK, Beginning
<1>5. ASSUME NEW s \in LlamaSessions, StartServer(s) PROVE LlamaTypeOK'
  <2>1. Using' = Using
    BY <1>5, UsersMove, Users DEF StartServer, InUse, UsersAre
  <2> QED BY <1>5, <2>1 DEF StartServer, LlamaTypeOK, MoveTo, Spawn
<1>6. ASSUME NEW s \in LlamaSessions, Ready(s) PROVE LlamaTypeOK'
  BY <1>3, <1>6 DEF Ready, LlamaTypeOK, Beginning, StartsAreMinded
<1>7. ASSUME StopChild
      PROVE  process' \in {"stuck", "dying", "none"} /\ faultsMet' \in 0..MaxServerFaults
  BY <1>7 DEF StopChild, LlamaTypeOK, ServerFault
<1>8. ASSUME NEW s \in LlamaSessions, BeginFails(s) PROVE LlamaTypeOK'
  <2>1. Using' = Using
    BY <1>8, UsersMove, Users DEF BeginFails, InUse, UsersAre, StartsAreMinded
  <2> QED BY <1>7, <1>8, <2>1 DEF BeginFails, StartFails, LlamaTypeOK, MoveTo
<1>9. ASSUME NEW s \in LlamaSessions, Infer(s) PROVE LlamaTypeOK'
  <2>1. Using' = Using
    BY <1>9, UsersMove, Users DEF Infer, InUse, UsersAre
  <2> QED BY <1>9, <2>1 DEF Infer, LlamaTypeOK, MoveTo
<1>10. ASSUME NEW s \in LlamaSessions, Release(s) PROVE LlamaTypeOK'
  <2>1. Using' = Using \ {s} /\ s \in Using
    BY <1>10, UsersMove, Users DEF Release, InUse, UsersAre
  <2>2. Cardinality(Using') = Cardinality(Using) - 1 /\ Cardinality(Using) > 0
    BY <2>1, UserGoes
  <2>3. manager'.active = Cardinality(Using')
    BY <1>10, <2>2, ZenonT(90) DEF Release, LlamaTypeOK
  <2>4. /\ manager' = [active |-> manager'.active, auto |-> manager'.auto, idle |-> manager'.idle]
        /\ manager'.auto \in BOOLEAN /\ manager'.idle \in LlamaSessions \cup {Nobody}
    BY <1>10, ZenonT(90) DEF Release, LlamaTypeOK
  <2>5. manager' \in [active : 0..Cardinality(LlamaSessions), auto : BOOLEAN,
                      idle : LlamaSessions \cup {Nobody}]
    BY <2>2, <2>3, <2>4
  <2>6. llamaSession' \in [LlamaSessions -> {"new", "looked", "starting", "open", "waiting",
                                         "inferring", "served", "stopping", "ended"}]
    BY <1>10 DEF Release, LlamaTypeOK, MoveTo
  <2>7. idleTimer' \in [LlamaSessions -> {"none", "armed", "fired", "stopping"}]
    BY <1>10 DEF Release, LlamaTypeOK, Disarmed
  <2> QED BY <1>10, <2>3, <2>5, <2>6, <2>7 DEF Release, LlamaTypeOK
<1>11. ASSUME NEW s \in LlamaSessions, StopNow(s) PROVE LlamaTypeOK'
  <2>1. Using' = Using
    BY <1>11, UsersMove, Users DEF StopNow, InUse, UsersAre
  <2> QED BY <1>7, <1>11, <2>1 DEF StopNow, StopAfterInference, LlamaTypeOK, MoveTo
<1>12. ASSUME NEW s \in LlamaSessions, TimerStep(s) PROVE LlamaTypeOK'
  <2>1. Using' = Using
    BY <1>12, UsersStay DEF TimerStep, TimerFires, IdleStop, TimerStops
  <2>2. CASE TimerFires(s)
    BY <2>1, <2>2 DEF TimerFires, LlamaTypeOK
  <2>3. CASE IdleStop(s)
    <3>1. /\ manager' = [active |-> manager'.active, auto |-> manager'.auto, idle |-> manager'.idle]
          /\ manager'.auto \in BOOLEAN /\ manager'.idle \in LlamaSessions \cup {Nobody}
          /\ manager'.active = manager.active
      BY <2>3, ZenonT(90) DEF IdleStop, LlamaTypeOK
    <3>2. manager' \in [active : 0..Cardinality(LlamaSessions), auto : BOOLEAN,
                        idle : LlamaSessions \cup {Nobody}]
      BY <3>1 DEF LlamaTypeOK
    <3>3. idleTimer' \in [LlamaSessions -> {"none", "armed", "fired", "stopping"}]
      BY <2>3 DEF IdleStop, LlamaTypeOK
    <3> QED BY <2>1, <2>3, <3>1, <3>2, <3>3 DEF IdleStop, LlamaTypeOK
  <2>4. CASE TimerStops(s)
    BY <1>7, <2>1, <2>4 DEF TimerStops, StopAfterInference, LlamaTypeOK
  <2> QED BY <1>12, <2>2, <2>3, <2>4 DEF TimerStep
<1>13. ASSUME StartCommand \/ StartCommandEnds \/ StopCommand \/ ChildExits \/ CancelStarts \/ CloseServer
       PROVE  LlamaTypeOK'
  <2>1. Using' = Using /\ Using \subseteq LlamaSessions
    BY <1>13, UsersStay, Users DEF StartCommand, StartCommandEnds, StopCommand, ChildExits, CancelStarts, CloseServer
  <2>2. CASE StartCommand
    BY <2>1, <2>2 DEF StartCommand, GiveCommand, Spawn, LlamaTypeOK
  <2>3. CASE StartCommandEnds
    BY <1>7, <2>1, <2>3 DEF StartCommandEnds, StartFails, LlamaTypeOK
  <2>4. CASE StopCommand
    BY <1>7, <2>1, <2>4 DEF StopCommand, GiveCommand, LlamaTypeOK
  <2>5. CASE ChildExits
    BY <2>1, <2>5 DEF ChildExits, ServerFault, LlamaTypeOK
  <2>6. CASE CancelStarts
    BY <2>1, <2>6 DEF CancelStarts, LlamaTypeOK
  <2>7. CASE CloseServer
    BY <1>7, <2>1, <2>7 DEF CloseServer, LlamaTypeOK
  <2> QED BY <1>13, <2>2, <2>3, <2>4, <2>5, <2>6, <2>7
<1>14. CASE UNCHANGED llamaVars
  <2>1. Using' = Using
    BY <1>14, UsersStay DEF llamaVars
  <2> QED BY <1>14, <2>1 DEF llamaVars, LlamaTypeOK
<1> QED BY <1>1, <1>2, <1>4, <1>5, <1>6, <1>8, <1>9, <1>10, <1>11, <1>12, <1>13, <1>14
  DEF LlamaNext, SessionStep
------------------------------------------------------------------------------
LEMMA ClosedKeep == LlamaIInv /\ [LlamaNext]_llamaVars => StartsAreMinded' /\ ClosedServersAreGone' /\ ClosingCutsOff'
<1> SUFFICES ASSUME LlamaIInv, [LlamaNext]_llamaVars
             PROVE  StartsAreMinded' /\ ClosedServersAreGone' /\ ClosingCutsOff'
  OBVIOUS
<1> USE LlamaAssumption DEF LlamaIInv, LlamaTypeOK, StartsAreMinded, ClosedServersAreGone, ClosingCutsOff
<1>1. ASSUME NEW s \in LlamaSessions, Look(s)
      PROVE  StartsAreMinded' /\ ClosedServersAreGone' /\ ClosingCutsOff'
  BY <1>1 DEF Look, MoveTo
<1>2. ASSUME NEW s \in LlamaSessions, Unbound(s) \/ Infer(s)
      PROVE  StartsAreMinded' /\ ClosedServersAreGone' /\ ClosingCutsOff'
  BY <1>2 DEF Unbound, Infer, MoveTo
<1>3. ASSUME NEW s \in LlamaSessions, Join(s)
      PROVE  StartsAreMinded' /\ ClosedServersAreGone' /\ ClosingCutsOff'
  BY <1>3 DEF Join, Opened, MoveTo
<1>4. ASSUME NEW s \in LlamaSessions, StartServer(s)
      PROVE  StartsAreMinded' /\ ClosedServersAreGone' /\ ClosingCutsOff'
  BY <1>4 DEF StartServer, Spawn, MoveTo, StartRefused, ServerIsFree
<1>5. ASSUME NEW s \in LlamaSessions, Ready(s)
      PROVE  StartsAreMinded' /\ ClosedServersAreGone' /\ ClosingCutsOff'
  BY <1>5 DEF Ready, Opened, MoveTo
<1>6. ASSUME NEW s \in LlamaSessions, BeginFails(s)
      PROVE  StartsAreMinded' /\ ClosedServersAreGone' /\ ClosingCutsOff'
  BY <1>6 DEF BeginFails, StartFails, StopChild, MoveTo, ServerIsFree
<1>7. ASSUME NEW s \in LlamaSessions, Release(s)
      PROVE  StartsAreMinded' /\ ClosedServersAreGone' /\ ClosingCutsOff'
  BY <1>7 DEF Release, MoveTo
<1>8. ASSUME NEW s \in LlamaSessions, StopNow(s)
      PROVE  StartsAreMinded' /\ ClosedServersAreGone' /\ ClosingCutsOff'
  BY <1>8 DEF StopNow, StopAfterInference, StopChild, MoveTo, ServerIsFree
<1>9. ASSUME NEW s \in LlamaSessions, TimerStep(s)
      PROVE  StartsAreMinded' /\ ClosedServersAreGone' /\ ClosingCutsOff'
  BY <1>9 DEF TimerStep, TimerFires, IdleStop, TimerStops, StopAfterInference, StopChild, ServerIsFree
<1>10. CASE StartCommand
  BY <1>10 DEF StartCommand, GiveCommand, Spawn, StartRefused, ServerIsFree
<1>11. CASE StartCommandEnds
  BY <1>11 DEF StartCommandEnds, StartFails, StopChild
<1>12. CASE StopCommand
  BY <1>12, Users DEF StopCommand, GiveCommand, StopChild, ServerIsFree
<1>13. CASE ChildExits
  BY <1>13, Users DEF ChildExits, ServerFault
<1>14. CASE CancelStarts
  BY <1>14 DEF CancelStarts
<1>15. CASE CloseServer
  BY <1>15 DEF CloseServer, StopChild, ServerIsFree
<1>16. CASE UNCHANGED llamaVars
  BY <1>16 DEF llamaVars
<1> QED BY <1>1, <1>2, <1>3, <1>4, <1>5, <1>6, <1>7, <1>8, <1>9, <1>10, <1>11, <1>12, <1>13,
  <1>14, <1>15, <1>16 DEF LlamaNext, SessionStep

LEMMA OnlyUser ==
  ASSUME NEW s \in LlamaSessions, LlamaTypeOK, llamaSession[s] \in InUse, LastOne,
         NEW d \in LlamaSessions, llamaSession[d] \in InUse
  PROVE  d = s
<1>1. s \in Using /\ d \in Using /\ Cardinality(Using) <= 1
  BY Users DEF UsersAre, LastOne, LlamaTypeOK
<1>2. Cardinality(Using \ {s}) = Cardinality(Using) - 1 /\ IsFiniteSet(Using \ {s})
  BY <1>1, UsersAreFinite, FS_RemoveElement
<1>3. Cardinality(Using \ {s}) = 0
  BY <1>1, <1>2, UsersAreFinite, FS_CardinalityType
<1>4. Using \ {s} = {}
  BY <1>2, <1>3, FS_EmptySet
<1> QED BY <1>1, <1>4

LEMMA FreeManager ==
  ManagerIsFree <=> \A s \in LlamaSessions : llamaSession[s] \notin Beginning
  BY DEF ManagerIsFree, At, Beginning

LEMMA PendingStop ==
  StopPending <=> \E s \in LlamaSessions : llamaSession[s] = "stopping" \/ idleTimer[s] = "stopping"
  BY DEF StopPending, At

LEMMA StopsKeep == LlamaIInv /\ [LlamaNext]_llamaVars => TimersAreOfIdleServers' /\ StopsSpareNobody'
<1> SUFFICES ASSUME LlamaIInv, [LlamaNext]_llamaVars PROVE TimersAreOfIdleServers' /\ StopsSpareNobody'
  OBVIOUS
<1> USE LlamaAssumption DEF LlamaIInv, LlamaTypeOK, TimersAreOfIdleServers, StopsSpareNobody, InUse, Beginning
<1>1. ASSUME NEW s \in LlamaSessions, Look(s) PROVE TimersAreOfIdleServers' /\ StopsSpareNobody'
  <2>1. /\ manager'.idle = Nobody /\ llamaSession' = [llamaSession EXCEPT ![s] = "looked"]
        /\ \A d \in LlamaSessions : idleTimer'[d] = "stopping" => idleTimer[d] = "stopping"
        /\ cutOff \subseteq cutOff' /\ (StopPending => s \in cutOff')
    BY <1>1 DEF Look, MoveTo, Disarmed
  <2>2. TimersAreOfIdleServers'
    BY <2>1
  <2>3. StopsSpareNobody'
    BY <2>1, PendingStop
  <2> QED BY <2>2, <2>3
<1>2. ASSUME NEW s \in LlamaSessions, Unbound(s) \/ Infer(s) PROVE TimersAreOfIdleServers' /\ StopsSpareNobody'
  BY <1>2 DEF Unbound, Infer, MoveTo
<1>3. ASSUME NEW s \in LlamaSessions, llamaSession[s] \in Beginning, Opened(s),
             idleTimer' = idleTimer, cutOff \subseteq cutOff' PROVE TimersAreOfIdleServers' /\ StopsSpareNobody'
  BY <1>3 DEF Opened, MoveTo
<1>4. ASSUME NEW s \in LlamaSessions, Join(s) \/ Ready(s) PROVE TimersAreOfIdleServers' /\ StopsSpareNobody'
  BY <1>3, <1>4 DEF Join, Ready, StartsAreMinded
<1>5. ASSUME NEW s \in LlamaSessions, StartServer(s) PROVE TimersAreOfIdleServers' /\ StopsSpareNobody'
  BY <1>5 DEF StartServer, MoveTo
<1>6. ASSUME NEW s \in LlamaSessions, BeginFails(s) PROVE TimersAreOfIdleServers' /\ StopsSpareNobody'
  BY <1>6 DEF BeginFails, MoveTo
<1>7. ASSUME NEW s \in LlamaSessions, Release(s) PROVE TimersAreOfIdleServers' /\ StopsSpareNobody'
  <2>1. manager.idle = Nobody /\ llamaSession[s] \in InUse /\ cutOff' = cutOff
        /\ \A d \in LlamaSessions : llamaSession[d] \notin Beginning
    BY <1>7, FreeManager DEF Release
  <2>2. CASE ~LastOne \/ ~manager.auto \/ KeepRunning
    <3>1. manager'.idle = Nobody /\ MoveTo(s, "ended") /\ idleTimer' = idleTimer
      BY <1>7, <2>1, <2>2 DEF Release
    <3> QED BY <2>1, <3>1 DEF MoveTo
  <2>3. CASE LastOne /\ manager.auto
    <3>1. \A d \in LlamaSessions : llamaSession[d] \notin InUse \/ d = s
      BY <2>1, <2>3, OnlyUser
    <3>2. CASE manager'.idle = Nobody /\ MoveTo(s, "stopping")
      BY <2>1, <3>1, <3>2 DEF MoveTo
    <3>3. CASE manager'.auto /\ MoveTo(s, "ended")
      BY <2>1, <3>1, <3>3 DEF MoveTo
    <3>4. (manager'.idle = Nobody /\ MoveTo(s, "stopping")) \/ (manager'.auto /\ MoveTo(s, "ended"))
          \/ KeepRunning
      BY <1>7, <2>1, <2>3, ZenonT(90) DEF Release
    <3> QED BY <2>2, <3>2, <3>3, <3>4
  <2> QED BY <2>2, <2>3
<1>8. ASSUME NEW s \in LlamaSessions, StopNow(s) PROVE TimersAreOfIdleServers' /\ StopsSpareNobody'
  BY <1>8 DEF StopNow, MoveTo
<1>9. ASSUME NEW s \in LlamaSessions, TimerStep(s) PROVE TimersAreOfIdleServers' /\ StopsSpareNobody'
  <2>1. CASE TimerFires(s)
    BY <2>1 DEF TimerFires
  <2>2. CASE IdleStop(s)
    <3>1. CASE manager.idle = s
      <4>1. manager'.idle = Nobody /\ idleTimer' = [idleTimer EXCEPT ![s] = "stopping"]
            /\ llamaSession' = llamaSession /\ cutOff' = cutOff
        BY <2>2, <3>1 DEF IdleStop, IsCurrent
      <4> QED BY <3>1, <4>1
    <3>2. CASE manager.idle # s
      <4>1. manager' = manager /\ idleTimer' = [idleTimer EXCEPT ![s] = "none"]
            /\ llamaSession' = llamaSession /\ cutOff' = cutOff
        BY <2>2, <3>2 DEF IdleStop, IsCurrent
      <4> QED BY <4>1
    <3> QED BY <3>1, <3>2
  <2>3. CASE TimerStops(s)
    BY <2>3 DEF TimerStops
  <2> QED BY <1>9, <2>1, <2>2, <2>3 DEF TimerStep
<1>10. CASE StartCommand \/ StartCommandEnds \/ StopCommand \/ ChildExits \/ CancelStarts \/ CloseServer
  <2>1. llamaSession' = llamaSession /\ manager' = manager /\ idleTimer' = idleTimer /\ cutOff \subseteq cutOff'
    BY <1>10, Users DEF StartCommand, StartCommandEnds, StopCommand, ChildExits, CancelStarts, CloseServer
  <2> QED BY <2>1
<1>11. CASE UNCHANGED llamaVars
  BY <1>11 DEF llamaVars
<1> QED BY <1>1, <1>2, <1>4, <1>5, <1>6, <1>7, <1>8, <1>9, <1>10, <1>11 DEF LlamaNext, SessionStep

LEMMA ServersKeep == LlamaIInv /\ [LlamaNext]_llamaVars => UsersAreServed'
<1> SUFFICES ASSUME LlamaIInv, [LlamaNext]_llamaVars PROVE UsersAreServed'
  OBVIOUS
<1> USE LlamaAssumption DEF LlamaIInv, LlamaTypeOK, UsersAreServed, InUse, Beginning
<1>1. ASSUME process = "ready" => process' = "ready", cutOff \subseteq cutOff',
             \A d \in LlamaSessions : llamaSession'[d] \in InUse => llamaSession[d] \in InUse
      PROVE  UsersAreServed'
  BY <1>1
<1>2. ASSUME NEW s \in LlamaSessions, Look(s) PROVE UsersAreServed'
  BY <1>1, <1>2 DEF Look, MoveTo
<1>3. ASSUME NEW s \in LlamaSessions, Unbound(s) \/ Infer(s) \/ Release(s) PROVE UsersAreServed'
  BY <1>1, <1>3 DEF Unbound, Infer, Release, MoveTo
<1>4. ASSUME NEW s \in LlamaSessions, Join(s) PROVE UsersAreServed'
  BY <1>4 DEF Join, Opened, MoveTo, StartsAreMinded, Alive, ServerIsFree
<1>5. ASSUME NEW s \in LlamaSessions, StartServer(s) PROVE UsersAreServed'
  BY <1>1, <1>5 DEF StartServer, Spawn, MoveTo, Alive
<1>6. ASSUME NEW s \in LlamaSessions, Ready(s) PROVE UsersAreServed'
  BY <1>6 DEF Ready, Opened, MoveTo
<1>7. ASSUME NEW s \in LlamaSessions, BeginFails(s) PROVE UsersAreServed'
  BY <1>1, <1>7 DEF BeginFails, MoveTo, StartsAreMinded
<1>8. ASSUME NEW s \in LlamaSessions, llamaSession[s] = "stopping" \/ idleTimer[s] = "stopping",
             cutOff' = cutOff,
             \A d \in LlamaSessions : llamaSession'[d] \in InUse => llamaSession[d] \in InUse
      PROVE  UsersAreServed'
  BY <1>8 DEF StopsSpareNobody
<1>9. ASSUME NEW s \in LlamaSessions, StopNow(s) PROVE UsersAreServed'
  BY <1>8, <1>9 DEF StopNow, MoveTo
<1>10. ASSUME NEW s \in LlamaSessions, TimerStep(s) PROVE UsersAreServed'
  <2>1. CASE TimerFires(s) \/ IdleStop(s)
    BY <1>1, <2>1 DEF TimerFires, IdleStop
  <2>2. CASE TimerStops(s)
    BY <1>8, <2>2 DEF TimerStops
  <2> QED BY <1>10, <2>1, <2>2 DEF TimerStep
<1>11. CASE StartCommand \/ StartCommandEnds
  BY <1>1, <1>11 DEF StartCommand, StartCommandEnds, Spawn, StartsAreMinded, Alive
<1>12. CASE StopCommand \/ ChildExits
  BY <1>12, Users DEF StopCommand, ChildExits, UsersAre
<1>13. CASE CancelStarts \/ CloseServer
  BY <1>13 DEF CancelStarts, CloseServer, ClosingCutsOff
<1>14. CASE UNCHANGED llamaVars
  BY <1>14 DEF llamaVars
<1> QED BY <1>2, <1>3, <1>4, <1>5, <1>6, <1>7, <1>9, <1>10, <1>11, <1>12, <1>13, <1>14
  DEF LlamaNext, SessionStep

LEMMA UsersServerKeeps == LlamaIInv /\ [LlamaNext]_llamaVars => UsersServerIsLeft'
<1> SUFFICES ASSUME LlamaIInv, [LlamaNext]_llamaVars PROVE UsersServerIsLeft'
  OBVIOUS
<1> USE LlamaAssumption DEF LlamaIInv, LlamaTypeOK, UsersServerIsLeft, StartsAreMinded
<1>1. ASSUME owner' = owner, manager'.auto => manager.auto, Alive' => Alive,
             \A s \in LlamaSessions :
               /\ llamaSession'[s] \in {"stopping", "starting"} => llamaSession[s] \in {"stopping", "starting"}
               /\ idleTimer'[s] = "stopping" => idleTimer[s] = "stopping"
               /\ llamaSession'[s] = "looked" => llamaSession[s] = "looked" /\ wasRunning'[s] = wasRunning[s]
      PROVE  UsersServerIsLeft'
  BY <1>1
<1>2. ASSUME NEW s \in LlamaSessions, Look(s) PROVE UsersServerIsLeft'
  <2>1. /\ manager'.auto = manager.auto /\ llamaSession' = [llamaSession EXCEPT ![s] = "looked"]
        /\ \A d \in LlamaSessions : idleTimer'[d] = "stopping" => idleTimer[d] = "stopping"
        /\ wasRunning' = [wasRunning EXCEPT ![s] = Alive] /\ process' = process /\ owner' = owner
    BY <1>2 DEF Look, MoveTo, Disarmed
  <2> QED BY <2>1 DEF Alive
<1>3. ASSUME NEW s \in LlamaSessions, Unbound(s) \/ Infer(s) PROVE UsersServerIsLeft'
  BY <1>1, <1>3 DEF Unbound, Infer, MoveTo, Alive
<1>4. ASSUME NEW s \in LlamaSessions, Join(s) PROVE UsersServerIsLeft'
  BY <1>4 DEF Join, Opened, MoveTo, Alive
<1>5. ASSUME NEW s \in LlamaSessions, StartServer(s) PROVE UsersServerIsLeft'
  BY <1>5 DEF StartServer
<1>6. ASSUME NEW s \in LlamaSessions, Ready(s) PROVE UsersServerIsLeft'
  BY <1>6 DEF Ready
<1>7. ASSUME NEW s \in LlamaSessions, BeginFails(s) PROVE UsersServerIsLeft'
  <2>1. CASE owner = "user"
    BY <1>7, <2>1 DEF BeginFails, MoveTo, Alive
  <2>2. CASE owner # "user"
    BY <1>7, <2>2 DEF BeginFails
  <2> QED BY <2>1, <2>2
<1>8. ASSUME NEW s \in LlamaSessions, Release(s) PROVE UsersServerIsLeft'
  <2>1. CASE owner = "user"
    <3>1. /\ manager'.auto = manager.auto /\ MoveTo(s, "ended") /\ idleTimer' = idleTimer
          /\ process' = process /\ owner' = owner /\ wasRunning' = wasRunning
      BY <1>8, <2>1 DEF Release
    <3> QED BY <1>1, <3>1 DEF MoveTo, Alive
  <2>2. CASE owner # "user"
    BY <1>8, <2>2 DEF Release
  <2> QED BY <2>1, <2>2
<1>9. ASSUME NEW s \in LlamaSessions, StopNow(s) PROVE UsersServerIsLeft'
  BY <1>9 DEF StopNow
<1>10. ASSUME NEW s \in LlamaSessions, TimerStep(s) PROVE UsersServerIsLeft'
  <2>1. CASE TimerFires(s)
    BY <1>1, <2>1 DEF TimerFires, Alive
  <2>2. CASE IdleStop(s)
    BY <2>2 DEF IdleStop, IsCurrent, TimersAreOfIdleServers, Alive
  <2>3. CASE TimerStops(s)
    BY <2>3 DEF TimerStops
  <2> QED BY <1>10, <2>1, <2>2, <2>3 DEF TimerStep
<1>11. CASE StartCommand
  <2>1. CASE manager.auto \/ StopPending \/ ~ManagerIsFree
    BY <1>11, <2>1 DEF StartCommand
  <2>2. CASE ~(manager.auto \/ StopPending \/ ~ManagerIsFree)
    BY <1>11, <2>2, PendingStop, FreeManager DEF StartCommand, Beginning
  <2> QED BY <2>1, <2>2
<1>12. CASE StartCommandEnds \/ StopCommand \/ ChildExits \/ CancelStarts \/ CloseServer
  <2>1. Alive' => Alive
    BY <1>12 DEF StartCommandEnds, StartFails, StopCommand, ChildExits, CancelStarts, CloseServer, StopChild,
       ServerFault, Alive
  <2>2. llamaSession' = llamaSession /\ wasRunning' = wasRunning /\ manager' = manager
        /\ idleTimer' = idleTimer /\ owner' = owner
    BY <1>12 DEF StartCommandEnds, StopCommand, ChildExits, CancelStarts, CloseServer
  <2> QED BY <1>1, <2>1, <2>2
<1>13. CASE UNCHANGED llamaVars
  BY <1>1, <1>13 DEF llamaVars, Alive
<1> QED BY <1>2, <1>3, <1>4, <1>5, <1>6, <1>7, <1>8, <1>9, <1>10, <1>11, <1>12, <1>13
  DEF LlamaNext, SessionStep

LEMMA LlamaStep == LlamaIInv /\ [LlamaNext]_llamaVars => LlamaIInv'
<1>1. LlamaIInv => LlamaTypeOK /\ StartsAreMinded
  BY DEF LlamaIInv
<1> QED BY <1>1, TypesKeep, ClosedKeep, StopsKeep, ServersKeep, UsersServerKeeps DEF LlamaIInv

\* The invariant holds in every behaviour of the server and its sessions.
THEOREM LlamaInvariant == LlamaSpec => []LlamaIInv
  BY LlamaStart, LlamaStep, PTL DEF LlamaSpec

\* Every value keeps its type, and the manager counts the sessions that use the server.
THEOREM LlamaTypeCorrect == LlamaSpec => []LlamaTypeOK
<1>1. LlamaIInv => LlamaTypeOK
  BY DEF LlamaIInv
<1> QED BY <1>1, LlamaInvariant, PTL

\* No session loses its server to another session or to an idle timer
\* (component.go:169, :307), for any sessions.
THEOREM SessionsKeepTheirServer == LlamaSpec => []SessionsHaveServer
<1>1. LlamaIInv => SessionsHaveServer
  BY Users DEF LlamaIInv, UsersAreServed, SessionsHaveServer, UsersAre
<1> QED BY <1>1, LlamaInvariant, PTL

\* Once the run has closed its servers none starts or runs on (native.go:71).
THEOREM ClosingIsFinal == LlamaSpec => []ClosedServersAreGone
<1>1. LlamaIInv => ClosedServersAreGone
  BY DEF LlamaIInv
<1> QED BY <1>1, LlamaInvariant, PTL

\* Sessions do not stop the server that a user has started (component.go:177).
THEOREM UsersKeepTheirServer == LlamaSpec => UsersServerStays
<1> DEFINE Stopped == owner = "user" /\ process = "ready" /\ process' # "ready"
           Reason == commandsGiven' # commandsGiven \/ faultsMet' # faultsMet \/ closing # "open"
<1>1. ASSUME LlamaIInv, [LlamaNext]_llamaVars PROVE [Stopped => Reason]_llamaVars
  <2> SUFFICES ASSUME LlamaNext, Stopped PROVE Reason
    BY <1>1 DEF llamaVars
  <2> USE <1>1, LlamaAssumption DEF LlamaIInv, LlamaTypeOK, UsersServerIsLeft, StartsAreMinded
  <2>1. ASSUME NEW s \in LlamaSessions,
               Look(s) \/ Unbound(s) \/ Join(s) \/ Infer(s) \/ Release(s) \/ TimerFires(s) \/ IdleStop(s)
        PROVE  FALSE
    BY <2>1 DEF Look, Unbound, Join, Infer, Release, TimerFires, IdleStop
  <2>2. ASSUME NEW s \in LlamaSessions,
               StartServer(s) \/ Ready(s) \/ BeginFails(s) \/ StopNow(s) \/ TimerStops(s)
        PROVE  FALSE
    BY <2>2 DEF StartServer, Ready, BeginFails, StopNow, TimerStops, Alive
  <2>3. CASE StartCommand \/ StopCommand
    BY <2>3 DEF StartCommand, StopCommand, GiveCommand
  <2>4. CASE StartCommandEnds
    BY <2>4 DEF StartCommandEnds
  <2>5. CASE ChildExits
    BY <2>5 DEF ChildExits, ServerFault
  <2>6. CASE CancelStarts \/ CloseServer
    BY <2>6 DEF CancelStarts, CloseServer
  <2> QED BY <2>1, <2>2, <2>3, <2>4, <2>5, <2>6 DEF LlamaNext, SessionStep, TimerStep
<1> QED BY <1>1, LlamaInvariant, PTL DEF LlamaSpec, UsersServerStays
==============================================================================
