----------------------------- MODULE Turns_proofs -----------------------------
(***************************************************************************)
(* Turns, for any threads, calls, purges, commands and failures.  In the   *)
(* conversations they do not mix, tell their user one thing, and do not    *)
(* resume a session that was purged at rest.  In the sandbox of an agent a *)
(* turn answers with its own message, is silent only if an interrupt met   *)
(* it, and leaves no container up without a reason.                        *)
(***************************************************************************)
EXTENDS Conversations, AgentSandbox, TLAPS

(* The conversations. *)

Outside == {"idle", "done", "silent"}

\* A call is in the gate exactly while its program counter says so.
Placed ==
  \A c \in Calls :
    /\ stage[c] = "out" <=> pc[c] \in Outside
    /\ stage[c] = "queued" <=> pc[c] = "queued"
    /\ stage[c] # "out" => scope[c] \in Threads

\* What the gate promises.
Exclusive ==
  \A c, d \in Calls : stage[c] = "running" /\ stage[d] = "running" /\ scope[c] = scope[d] => c = d

\* A stored message belongs to a turn that has begun, in its thread.
Owned ==
  \A th \in Threads : \A i \in DOMAIN messages[th] : \A c \in Calls :
    messages[th][i].call = c =>
      pc[c] \notin {"idle", "queued"} /\ (stage[c] = "running" => scope[c] = th)

\* After a message of a turn that runs there are only its own.
LastOnes ==
  \A th \in Threads : \A i, j \in DOMAIN messages[th] : \A c \in Calls :
    i < j /\ messages[th][i].call = c /\ stage[c] = "running" => messages[th][j].call = c

\* What a call has told its user, by where it is.
Told(c) ==
  /\ pc[c] \in {"idle", "queued", "stored"} => sent[c] = "no"
  /\ pc[c] \notin {"ending", "done"} =>
       /\ replies[c].errors = 0
       /\ replies[c].answers = IF sent[c] = "relayed" THEN 1 ELSE 0
  /\ replies[c].answers \in 0..1
  /\ pc[c] \in {"ending", "done"} /\ c \notin disturbed =>
       /\ replies[c].answers + replies[c].errors >= 1
       /\ replies[c].answers + replies[c].errors = 2 => sent[c] = "relayed"
Counted == \A c \in Calls : Told(c)

Running(c) == pc[c] = "running"

\* The session of a call that has not begun to run is nowhere.
Fresh ==
  \A c \in Calls : pc[c] \in {"idle", "queued", "stored"} =>
    /\ c \notin forgotten
    /\ \A th \in Threads : session[th] # c
    /\ \A d \in Calls : Running(d) => resumed[d] # c

\* A session is in one place: mapped to one thread, or run by one call there.
OnePlace ==
  /\ \A c \in Calls : Running(c) => resumed[c] \in Calls
  /\ \A t, u \in Threads : session[t] = session[u] /\ session[t] # NoSession => t = u
  /\ \A c \in Calls, t \in Threads : Running(c) /\ session[t] = resumed[c] => scope[c] = t
  /\ \A c, d \in Calls : Running(c) /\ Running(d) /\ resumed[c] = resumed[d] => c = d

\* A session that was purged at rest is gone.
Gone ==
  \A s \in forgotten \ overrun :
    /\ \A th \in Threads : session[th] # s
    /\ \A c \in Calls : Running(c) => resumed[c] # s

IInv ==
  /\ TypeOK /\ Placed /\ Exclusive
  /\ Owned /\ LastOnes /\ TurnsAreContiguous
  /\ Counted
  /\ Fresh /\ OnePlace /\ Gone

------------------------------------------------------------------------------
Kinds == {"in", "text", "final", "error"}
Entries == [call : Calls, kind : Kinds]

\* What Store appends is the last message of its thread; the others stay.
LEMMA StoreAppends ==
  ASSUME TypeOK, NEW c \in Calls, scope[c] \in Threads, NEW kind \in Kinds, Store(c, kind)
  PROVE  /\ messages' \in [Threads -> Seq(Entries)]
         /\ \A th \in Threads \ {scope[c]} : messages'[th] = messages[th]
         /\ LET old == messages[scope[c]]
                new == messages'[scope[c]]
            IN  /\ Len(new) = Len(old) + 1
                /\ \A i \in 1..Len(old) : new[i] = old[i]
                /\ new[Len(old) + 1] = [call |-> c, kind |-> kind]
<1> DEFINE e == [call |-> c, kind |-> kind]
           old == messages[scope[c]]
<1>1. e \in Entries
  BY DEF Entries
<1>2. messages \in [Threads -> Seq(Entries)]
  BY DEF TypeOK, Entries, Kinds
<1>3. old \in Seq(Entries)
  BY <1>2
<1>4. messages' = [messages EXCEPT ![scope[c]] = Append(old, e)]
  BY DEF Store, thread
<1> HIDE DEF e, old
<1>5. /\ Append(old, e) \in Seq(Entries)
      /\ Len(Append(old, e)) = Len(old) + 1
      /\ \A i \in 1..Len(old) : Append(old, e)[i] = old[i]
      /\ Append(old, e)[Len(old) + 1] = e
  BY <1>1, <1>3
<1>6. messages'[scope[c]] = Append(old, e)
  BY <1>2, <1>4
<1>7. /\ messages' \in [Threads -> Seq(Entries)]
      /\ \A th \in Threads \ {scope[c]} : messages'[th] = messages[th]
  BY <1>2, <1>4, <1>5
<1> QED
  BY <1>5, <1>6, <1>7 DEF e, old

\* Finalize changes the kind of one message.
LEMMA FinalizeKeepsCalls ==
  ASSUME TypeOK, NEW c \in Calls, scope[c] \in Threads, Finalize(c)
  PROVE  /\ messages' \in [Threads -> Seq(Entries)]
         /\ \A th \in Threads :
              /\ Len(messages'[th]) = Len(messages[th])
              /\ \A i \in 1..Len(messages[th]) : messages'[th][i].call = messages[th][i].call
<1> DEFINE old == messages[scope[c]]
<1>1. messages \in [Threads -> Seq(Entries)]
  BY DEF TypeOK, Entries, Kinds
<1>2. CASE UNCHANGED messages
  BY <1>1, <1>2
<1>3. CASE \E i \in DOMAIN old : messages' = [messages EXCEPT ![scope[c]][i].kind = "final"]
  <2>1. PICK i \in DOMAIN old : messages' = [messages EXCEPT ![scope[c]][i].kind = "final"]
    BY <1>3
  <2> DEFINE e == [old[i] EXCEPT !.kind = "final"]
             new == [old EXCEPT ![i] = e]
  <2>2. old \in Seq(Entries) /\ i \in 1..Len(old)
    BY <1>1
  <2>3. e \in Entries /\ e.call = old[i].call
    <3> DEFINE m == old[i]
    <3>1. m \in Entries
      BY <2>2
    <3> HIDE DEF m
    <3>2. [m EXCEPT !.kind = "final"] \in Entries /\ [m EXCEPT !.kind = "final"].call = m.call
      BY <3>1 DEF Entries, Kinds
    <3> QED
      BY <3>2 DEF m
  <2>4. messages' = [messages EXCEPT ![scope[c]] = new]
    BY <2>1
  <2> HIDE DEF e, old
  <2>5. new \in Seq(Entries) /\ Len(new) = Len(old) /\ \A j \in 1..Len(old) : new[j].call = old[j].call
    BY <2>2, <2>3
  <2> HIDE DEF new
  <2> QED
    BY <1>1, <2>4, <2>5 DEF old
<1> QED
  BY <1>2, <1>3 DEF Finalize, thread

\* The messages of each thread are kept, up to their kinds, or purged.
Kept ==
  \A th \in Threads : \/ messages'[th] = <<>>
                      \/ /\ Len(messages'[th]) = Len(messages[th])
                         /\ \A i \in 1..Len(messages[th]) : messages'[th][i].call = messages[th][i].call

\* No call but those in "cs" begins to run, or falls back before its beginning.
SettledBut(cs) ==
  \A c \in Calls \ cs :
    /\ stage'[c] = "running" => stage[c] = "running" /\ scope'[c] = scope[c]
    /\ pc[c] \notin {"idle", "queued"} => pc'[c] \notin {"idle", "queued"}

MessagesInOrder == Owned /\ LastOnes /\ TurnsAreContiguous

LEMMA KeptInOrder ==
  ASSUME messages \in [Threads -> Seq(Entries)], messages' \in [Threads -> Seq(Entries)],
         MessagesInOrder, Kept, SettledBut({})
  PROVE  MessagesInOrder'
<1>1. \A th \in Threads : /\ DOMAIN messages[th] = 1..Len(messages[th])
                         /\ DOMAIN messages'[th] = 1..Len(messages'[th])
  OBVIOUS
<1>2. \A th \in Threads : \A i \in DOMAIN messages'[th] :
        i \in DOMAIN messages[th] /\ messages'[th][i].call = messages[th][i].call
  BY <1>1 DEF Kept
<1>3. Owned'
  BY <1>2, SMTT(30) DEF MessagesInOrder, Owned, SettledBut
<1>4. LastOnes'
  BY <1>2 DEF MessagesInOrder, LastOnes, SettledBut
<1>5. TurnsAreContiguous'
  BY <1>2 DEF MessagesInOrder, TurnsAreContiguous
<1> QED
  BY <1>3, <1>4, <1>5 DEF MessagesInOrder

\* A call stores a message while it runs in its thread alone.
LEMMA StoredInOrder ==
  ASSUME TypeOK, MessagesInOrder, Exclusive', NEW c \in Calls, NEW kind \in Kinds,
         scope[c] \in Threads, scope'[c] = scope[c], stage'[c] = "running",
         stage[c] = "running" \/ pc[c] = "queued",
         pc'[c] \notin {"idle", "queued"},
         SettledBut({c}), Store(c, kind)
  PROVE  MessagesInOrder'
<1> DEFINE n == Len(messages[scope[c]])
<1>1. messages \in [Threads -> Seq(Entries)]
  BY DEF TypeOK, Entries, Kinds
<1>2. /\ messages' \in [Threads -> Seq(Entries)]
      /\ \A th \in Threads \ {scope[c]} : messages'[th] = messages[th]
      /\ Len(messages'[scope[c]]) = n + 1
      /\ \A i \in 1..n : messages'[scope[c]][i] = messages[scope[c]][i]
      /\ messages'[scope[c]][n + 1] = [call |-> c, kind |-> kind]
  BY StoreAppends
<1>3. /\ \A th \in Threads : DOMAIN messages[th] = 1..Len(messages[th])
      /\ \A th \in Threads : DOMAIN messages'[th] = 1..Len(messages'[th])
      /\ n \in Nat
  BY <1>1, <1>2
<1> HIDE DEF n
\* The messages that were there already.
<1>4. \A th \in Threads : \A i \in DOMAIN messages[th] :
        i \in DOMAIN messages'[th] /\ messages'[th][i] = messages[th][i]
  <2> SUFFICES ASSUME NEW th \in Threads, NEW i \in DOMAIN messages[th]
               PROVE  i \in DOMAIN messages'[th] /\ messages'[th][i] = messages[th][i]
    OBVIOUS
  <2>2. CASE th = scope[c]
    <3>1. i \in 1..n /\ i \in 1..n + 1
      BY <1>3, <2>2 DEF n
    <3>2. DOMAIN messages'[th] = 1..n + 1
      BY <1>2, <1>3, <2>2
    <3> QED
      BY <1>2, <2>2, <3>1, <3>2
  <2> QED
    BY <1>2, <2>2
<1>5. \A th \in Threads : \A i \in DOMAIN messages'[th] :
        \/ i \in DOMAIN messages[th]
        \/ /\ th = scope[c] /\ i = n + 1 /\ messages'[th][i].call = c
           /\ \A j \in DOMAIN messages'[th] : j <= i
  BY <1>2, <1>3 DEF n
<1>6. Owned'
  BY <1>4, <1>5 DEF MessagesInOrder, Owned, SettledBut
\* A call that runs now has run before, if it has a message.
<1>7. \A th \in Threads : \A i \in DOMAIN messages[th] : \A d \in Calls :
        messages[th][i].call = d /\ stage'[d] = "running" => stage[d] = "running"
  BY DEF MessagesInOrder, Owned, SettledBut
<1>8. LastOnes'
  <2> SUFFICES ASSUME NEW th \in Threads, NEW i \in DOMAIN messages'[th], NEW j \in DOMAIN messages'[th],
                      NEW d \in Calls, i < j, messages'[th][i].call = d, stage'[d] = "running"
               PROVE  messages'[th][j].call = d
    BY DEF LastOnes
  <2>1. i \in Nat /\ j \in Nat
    BY <1>3
  <2>2. i \in DOMAIN messages[th]
    BY <1>5, <2>1
  <2>3. CASE j \in DOMAIN messages[th]
    BY <1>4, <1>7, <2>2, <2>3 DEF MessagesInOrder, LastOnes
  <2>4. CASE th = scope[c] /\ messages'[th][j].call = c
    BY <1>6, <2>4 DEF Owned, Exclusive
  <2> QED
    BY <1>5, <2>3, <2>4
<1>9. TurnsAreContiguous'
  <2> SUFFICES ASSUME NEW th \in Threads, NEW i \in DOMAIN messages'[th], NEW j \in DOMAIN messages'[th],
                      NEW k \in DOMAIN messages'[th],
                      i < j, j < k, messages'[th][i].call = messages'[th][k].call
               PROVE  messages'[th][j].call = messages'[th][i].call
    BY DEF TurnsAreContiguous
  <2>1. i \in Nat /\ j \in Nat /\ k \in Nat
    BY <1>3
  <2>2. i \in DOMAIN messages[th] /\ j \in DOMAIN messages[th]
    BY <1>5, <2>1
  <2>3. CASE k \in DOMAIN messages[th]
    BY <1>4, <2>2, <2>3 DEF MessagesInOrder, TurnsAreContiguous
  <2>4. CASE messages'[th][k].call = c
    BY <1>8, <2>4 DEF LastOnes
  <2> QED
    BY <1>5, <2>3, <2>4
<1> QED
  BY <1>6, <1>8, <1>9 DEF MessagesInOrder
------------------------------------------------------------------------------
\* Steps.

\* A step within a turn, the gate left alone, disturbs neither.
LEMMA WithinTurn ==
  ASSUME TypeOK, Placed, Exclusive, NEW c \in Calls, NEW where,
         pc[c] \notin Outside \cup {"queued"}, where \notin Outside \cup {"queued"},
         Go(c, where), UNCHANGED gateVars
  PROVE  Placed' /\ Exclusive'
<1>1. stage' = stage /\ scope' = scope
  BY DEF gateVars
<1>2. \A d \in Calls : pc'[d] = IF d = c THEN where ELSE pc[d]
  BY DEF TypeOK, Go
<1>3. \A d \in Calls : /\ pc'[d] \in Outside <=> pc[d] \in Outside
                       /\ pc'[d] = "queued" <=> pc[d] = "queued"
  BY <1>2
<1>4. Placed'
  <2> SUFFICES ASSUME NEW d \in Calls
               PROVE  /\ stage[d] = "out" <=> pc'[d] \in Outside
                      /\ stage[d] = "queued" <=> pc'[d] = "queued"
                      /\ stage[d] # "out" => scope[d] \in Threads
    BY <1>1 DEF Placed, Outside
  <2> QED
    BY <1>3 DEF Placed
<1> QED
  BY <1>1, <1>4 DEF Exclusive

\* Every step keeps the gate's bookkeeping.
LEMMA GateStep ==
  ASSUME TypeOK, Placed, Exclusive, Next
  PROVE  Placed' /\ Exclusive'
<1> USE DEF TypeOK, Placed, Exclusive, Outside, Go
<1>1. ASSUME NEW c \in Calls, NEW th \in Threads, HandleResolvedInbound(c, th)
      PROVE  Placed' /\ Exclusive'
  BY <1>1 DEF HandleResolvedInbound, Gate!Queue
<1>2. ASSUME NEW c \in Calls, StartTurn(c)
      PROVE  Placed' /\ Exclusive'
  BY <1>2 DEF StartTurn, Begin, Gate!Start
<1>3. ASSUME NEW c \in Calls, BeginAgent(c)
      PROVE  Placed' /\ Exclusive'
  <2>1. pc[c] = "stored" /\ UNCHANGED gateVars /\ (Go(c, "failed") \/ Go(c, "running"))
    BY <1>3 DEF BeginAgent
  <2> HIDE DEF TypeOK, Placed, Exclusive, Go
  <2> QED
    BY <2>1, WithinTurn
<1>4. ASSUME NEW c \in Calls, Send(c)
      PROVE  Placed' /\ Exclusive'
  BY <1>4 DEF Send, gateVars
<1>5. ASSUME NEW c \in Calls, EndAgent(c)
      PROVE  Placed' /\ Exclusive'
  <2>1. pc[c] = "running" /\ UNCHANGED gateVars
        /\ \E where \in {"answered", "failed", "interrupted"} : Go(c, where)
    BY <1>5 DEF EndAgent
  <2> HIDE DEF TypeOK, Placed, Exclusive, Go
  <2> QED
    BY <2>1, WithinTurn
<1>6. ASSUME NEW c \in Calls, RelayFinal(c)
      PROVE  Placed' /\ Exclusive'
  <2>1. pc[c] = "answered" /\ UNCHANGED gateVars /\ (Go(c, "failed") \/ Go(c, "ending"))
    BY <1>6 DEF RelayFinal, Answer, Finalize, StoreAndRelay
  <2> HIDE DEF TypeOK, Placed, Exclusive, Go
  <2> QED
    BY <2>1, WithinTurn
<1>7. ASSUME NEW c \in Calls, FailConversation(c)
      PROVE  Placed' /\ Exclusive'
  BY <1>7 DEF FailConversation, Report, gateVars
<1>8. ASSUME NEW c \in Calls, EndTurn(c)
      PROVE  Placed' /\ Exclusive'
  BY <1>8 DEF EndTurn, Gate!Depart
<1>9. ASSUME NEW th \in Threads, PurgeThread(th) \/ AgentPurge(th)
      PROVE  Placed' /\ Exclusive'
  BY <1>9 DEF PurgeThread, AgentPurge, Purge, gateVars
<1>10. ASSUME NEW force \in BOOLEAN, BeginShutdown(force)
       PROVE  Placed' /\ Exclusive'
  BY <1>10 DEF BeginShutdown, Gate!Close
<1> QED
  BY <1>1, <1>2, <1>3, <1>4, <1>5, <1>6, <1>7, <1>8, <1>9, <1>10 DEF Next

Places == {"idle", "queued", "stored", "running", "answered", "failed",
           "interrupted", "ending", "done", "silent"}

LEMMA TypeStep ==
  ASSUME TypeOK, Placed, Counted, OnePlace, Next
  PROVE  TypeOK'
<1> USE DEF Go, gateVars, historyVars
<1> DEFINE MessagesTyped == messages \in [Threads -> Seq(Entries)]
           RepliesTyped == replies \in [Calls -> [answers : 0..2, errors : 0..1]]
<1>a. MessagesTyped /\ RepliesTyped
  BY DEF TypeOK, Entries, Kinds
<1> HIDE DEF MessagesTyped, RepliesTyped
\* The rest of TypeOK, with the types of messages and replies put away.
<1>b. ASSUME NEW c \in Calls, stage[c] = "running"
      PROVE  scope[c] \in Threads
  BY <1>b DEF Placed, TypeOK
<1>c. ASSUME NEW c \in Calls, pc[c] \in {"stored", "running", "answered", "failed"}
      PROVE  scope[c] \in Threads
  BY <1>c DEF Placed, TypeOK, Outside
<1>d. ASSUME NEW c \in Calls, NEW what \in {"answers", "errors"}, Relays(c, what),
             pc[c] \notin {"ending", "done"}, what = "answers" => sent[c] # "relayed"
      PROVE  RepliesTyped' /\ failures' \in 0..MaxFailures /\ disturbed' \subseteq Calls
  <2>1. replies[c] \in [answers : 0..2, errors : 0..1] /\ replies[c][what] = 0
    BY <1>a, <1>d DEF Counted, Told, RepliesTyped
  <2>2. [replies[c] EXCEPT ![what] = 1] \in [answers : 0..2, errors : 0..1]
    BY <2>1
  <2>3. replies' = [replies EXCEPT ![c] = [replies[c] EXCEPT ![what] = 1]]
    BY <1>d, <2>1 DEF Relays
  <2>4. RepliesTyped'
    BY <1>a, <2>2, <2>3 DEF RepliesTyped
  <2> QED
    BY <1>d, <2>4 DEF Relays, TypeOK
<1>e. ASSUME NEW c \in Calls, RelayFails(c)
      PROVE  RepliesTyped' /\ failures' \in 0..MaxFailures /\ disturbed' \subseteq Calls
  BY <1>a, <1>e, ConversationAssumption DEF RelayFails, RepliesTyped, TypeOK
<1>f. ASSUME MessagesTyped', RepliesTyped',
             session' \in [Threads -> Calls \cup {NoSession}],
             pc' \in [Calls -> Places],
             resumed' \in [Calls -> Calls \cup {NoSession}],
             sent' \in [Calls -> {"no", "relayed", "failed"}],
             stage' \in [Calls -> {"out", "queued", "running"}],
             scope' \in [Calls -> Threads \cup {NoThread}],
             open' \in BOOLEAN, purges' \in 0..MaxPurges, failures' \in 0..MaxFailures,
             disturbed' \subseteq Calls, forgotten' \subseteq Calls, overrun' \subseteq Calls
      PROVE  TypeOK'
  BY <1>f DEF TypeOK, MessagesTyped, RepliesTyped, Entries, Kinds, Places
<1>g. ASSUME NEW c \in Calls, NEW where \in Places, Go(c, where)
      PROVE  pc' \in [Calls -> Places]
  <2>1. pc \in [Calls -> Places]
    BY DEF TypeOK, Places
  <2> QED
    BY <1>g, <2>1
<1>1. ASSUME NEW c \in Calls, NEW th \in Threads, HandleResolvedInbound(c, th)
      PROVE  TypeOK'
  BY <1>1 DEF HandleResolvedInbound, Gate!Queue, TypeOK
<1>2. ASSUME NEW c \in Calls, StartTurn(c)
      PROVE  TypeOK'
  <2>1. scope[c] \in Threads /\ "in" \in Kinds
    BY <1>2 DEF StartTurn, Gate!Start, Placed, Kinds
  <2>2. MessagesTyped'
    BY <1>2, <2>1, StoreAppends DEF StartTurn, Begin, MessagesTyped
  <2>3. pc' \in [Calls -> Places]
    BY <1>2, <1>g DEF StartTurn, Begin, Places
  <2>4. stage' \in [Calls -> {"out", "queued", "running"}]
    BY <1>2 DEF StartTurn, Gate!Start, TypeOK
  <2>5. UNCHANGED <<scope, open, session, resumed, sent, purges, failures, historyVars>>
    BY <1>2 DEF StartTurn, Begin, Gate!Start
  <2> QED
    BY <1>a, <2>2, <2>3, <2>4, <2>5, <1>f DEF TypeOK, RepliesTyped
<1>3. ASSUME NEW c \in Calls, BeginAgent(c)
      PROVE  TypeOK'
  <2>0. pc[c] = "stored"
    BY <1>3 DEF BeginAgent
  <2>1. scope[c] \in Threads
    BY <2>0, <1>c
  <2>2. resumed' \in [Calls -> Calls \cup {NoSession}]
    <3>1. \/ resumed' = resumed
          \/ \E s \in {c, session[scope[c]]} : resumed' = [resumed EXCEPT ![c] = s]
      BY <1>3 DEF BeginAgent, thread
    <3>2. session[scope[c]] \in Calls \cup {NoSession} /\ resumed \in [Calls -> Calls \cup {NoSession}]
      BY <2>1 DEF TypeOK
    <3> QED
      BY <3>1, <3>2
  <2>3. pc' \in [Calls -> Places]
    BY <1>3, <1>g DEF BeginAgent, Places
  <2> QED
    BY <1>3, <1>a, <2>2, <2>3, <1>f DEF BeginAgent, TypeOK, MessagesTyped, RepliesTyped
<1>4. ASSUME NEW c \in Calls, Send(c)
      PROVE  TypeOK'
  <2>1. scope[c] \in Threads /\ "text" \in Kinds
    BY <1>4, <1>c DEF Send, Kinds
  <2>2. MessagesTyped'
    BY <1>4, <2>1, StoreAppends DEF Send, MessagesTyped
  <2>3. RepliesTyped' /\ failures' \in 0..MaxFailures /\ disturbed' \subseteq Calls
    <3>1. CASE Relays(c, "answers")
      BY <1>4, <1>d, <3>1 DEF Send, TypeOK
    <3>2. CASE RelayFails(c)
      BY <1>e, <3>2
    <3> QED
      BY <1>4, <3>1, <3>2 DEF Send
  <2> QED
    BY <1>4, <2>2, <2>3, <1>f DEF Send, TypeOK, Places
<1>5. ASSUME NEW c \in Calls, EndAgent(c)
      PROVE  TypeOK'
  <2>1. session' \in [Threads -> Calls \cup {NoSession}]
    BY <1>5 DEF EndAgent, thread, TypeOK
  <2>2. pc' \in [Calls -> Places]
    BY <1>5, <1>g DEF EndAgent, Places
  <2> QED
    BY <1>5, <1>a, <2>1, <2>2, <1>f DEF EndAgent, TypeOK, MessagesTyped, RepliesTyped
<1>6. ASSUME NEW c \in Calls, RelayFinal(c)
      PROVE  TypeOK'
  <2>1. scope[c] \in Threads /\ "final" \in Kinds
    BY <1>6, <1>c DEF RelayFinal, Answer, Kinds
  <2>2. CASE sent[c] = "relayed"
    <3>1. MessagesTyped'
      BY <1>6, <2>1, <2>2, FinalizeKeepsCalls DEF RelayFinal, Answer, MessagesTyped
    <3> QED
      BY <1>6, <1>a, <2>2, <3>1, <1>f DEF RelayFinal, Answer, Finalize, TypeOK, RepliesTyped, Places
  <2>3. CASE sent[c] # "relayed"
    <3>1. MessagesTyped'
      BY <1>6, <2>1, <2>3, StoreAppends DEF RelayFinal, Answer, StoreAndRelay, MessagesTyped
    <3>2. RepliesTyped' /\ failures' \in 0..MaxFailures /\ disturbed' \subseteq Calls
      <4>1. CASE Relays(c, "answers")
        BY <1>6, <1>d, <2>3, <4>1 DEF RelayFinal, Answer, TypeOK
      <4>2. CASE RelayFails(c)
        BY <1>e, <4>2
      <4> QED
        BY <1>6, <2>3, <4>1, <4>2 DEF RelayFinal, Answer, StoreAndRelay
    <3> QED
      BY <1>6, <2>3, <3>1, <3>2, <1>f DEF RelayFinal, Answer, StoreAndRelay, TypeOK, Places
  <2> QED
    BY <2>2, <2>3
<1>7. ASSUME NEW c \in Calls, FailConversation(c)
      PROVE  TypeOK'
  <2>1. scope[c] \in Threads /\ "error" \in Kinds
    BY <1>7, <1>c DEF FailConversation, Report, Kinds
  <2>2. MessagesTyped'
    BY <1>7, <2>1, StoreAppends DEF FailConversation, Report, MessagesTyped
  <2>3. RepliesTyped' /\ failures' \in 0..MaxFailures /\ disturbed' \subseteq Calls
    BY <1>7, <1>d, <1>e DEF FailConversation, Report, TypeOK
  <2> QED
    BY <1>7, <2>2, <2>3, <1>f DEF FailConversation, Report, TypeOK, Places
<1>8. ASSUME NEW c \in Calls, EndTurn(c)
      PROVE  TypeOK'
  BY <1>8 DEF EndTurn, Gate!Depart, TypeOK
<1>9. ASSUME NEW th \in Threads, PurgeThread(th) \/ AgentPurge(th)
      PROVE  TypeOK'
  <2>1. PICK left \in {<<>>, messages[th]} : Purge(th, left, NoSession)
    BY <1>9 DEF PurgeThread, AgentPurge
  <2>2. left \in Seq(Entries)
    <3>1. <<>> \in Seq(Entries) /\ messages[th] \in Seq(Entries)
      BY <1>a DEF MessagesTyped
    <3> QED
      BY <3>1
  <2>3. MessagesTyped'
    BY <1>a, <2>1, <2>2 DEF Purge, MessagesTyped
  <2>4. overrun' \subseteq Calls /\ forgotten' \subseteq Calls /\ disturbed' \subseteq Calls
    BY <2>1 DEF Purge, TypeOK, InTurn, OnePlace, Running
  <2>5. purges' \in 0..MaxPurges
    BY <2>1, ConversationAssumption DEF Purge, TypeOK
  <2> QED
    BY <1>a, <2>1, <2>3, <2>4, <2>5, <1>f DEF Purge, TypeOK, RepliesTyped, Places
<1>10. ASSUME NEW force \in BOOLEAN, BeginShutdown(force)
       PROVE  TypeOK'
  BY <1>10 DEF BeginShutdown, Gate!Close, TypeOK
<1> QED
  BY <1>1, <1>2, <1>3, <1>4, <1>5, <1>6, <1>7, <1>8, <1>9, <1>10 DEF Next

LEMMA MessagesStep ==
  ASSUME TypeOK, Placed, MessagesInOrder, TypeOK', Exclusive', Next
  PROVE  MessagesInOrder'
<1> USE DEF Go, gateVars, historyVars
<1>a. messages \in [Threads -> Seq(Entries)] /\ messages' \in [Threads -> Seq(Entries)]
  BY DEF TypeOK, Entries, Kinds
<1>b. ASSUME NEW c \in Calls, pc[c] \in {"stored", "running", "answered", "failed", "interrupted", "ending"}
      PROVE  scope[c] \in Threads /\ stage[c] = "running"
  BY <1>b DEF Placed, TypeOK, Outside
<1>c. ASSUME NEW c \in Calls, UNCHANGED <<stage, scope>>, pc[c] \notin {"idle", "queued"},
             NEW where \in {"running", "answered", "failed", "interrupted", "ending"}, Go(c, where)
      PROVE  SettledBut({})
  BY <1>c DEF SettledBut, TypeOK
<1>d. ASSUME SettledBut({}), NEW c \in Calls
      PROVE  SettledBut({c})
  BY <1>d DEF SettledBut
<1>e. ASSUME UNCHANGED messages
      PROVE  Kept
  BY <1>e DEF Kept
<1>1. ASSUME NEW c \in Calls, NEW th \in Threads, HandleResolvedInbound(c, th)
      PROVE  MessagesInOrder'
  <2>1. SettledBut({})
    BY <1>1 DEF HandleResolvedInbound, Gate!Queue, SettledBut, TypeOK
  <2> QED
    BY <1>1, <1>a, <1>e, <2>1, KeptInOrder DEF HandleResolvedInbound
<1>2. ASSUME NEW c \in Calls, StartTurn(c)
      PROVE  MessagesInOrder'
  <2>1. /\ pc[c] = "queued" /\ pc'[c] = "stored" /\ Store(c, "in") /\ "in" \in Kinds
        /\ scope[c] \in Threads /\ scope'[c] = scope[c] /\ stage'[c] = "running"
    BY <1>2 DEF StartTurn, Begin, Gate!Start, TypeOK, Placed, Kinds
  <2>2. SettledBut({c})
    BY <1>2 DEF StartTurn, Begin, Gate!Start, SettledBut, TypeOK
  <2> QED
    BY <2>1, <2>2, StoredInOrder
<1>3. ASSUME NEW c \in Calls, BeginAgent(c)
      PROVE  MessagesInOrder'
  <2>1. SettledBut({}) /\ UNCHANGED messages
    BY <1>3, <1>c DEF BeginAgent
  <2> QED
    BY <1>a, <1>e, <2>1, KeptInOrder
<1>4. ASSUME NEW c \in Calls, Send(c)
      PROVE  MessagesInOrder'
  <2>1. /\ Store(c, "text") /\ "text" \in Kinds
        /\ scope[c] \in Threads /\ stage[c] = "running" /\ UNCHANGED <<pc, stage, scope>>
    BY <1>4, <1>b DEF Send, Kinds
  <2>2. SettledBut({c}) /\ pc'[c] = "running"
    BY <1>4, <2>1 DEF Send, SettledBut
  <2> QED
    BY <2>1, <2>2, StoredInOrder
<1>5. ASSUME NEW c \in Calls, EndAgent(c)
      PROVE  MessagesInOrder'
  <2>1. SettledBut({}) /\ UNCHANGED messages
    BY <1>5, <1>c DEF EndAgent
  <2> QED
    BY <1>a, <1>e, <2>1, KeptInOrder
<1>6. ASSUME NEW c \in Calls, RelayFinal(c)
      PROVE  MessagesInOrder'
  <2>1. pc[c] = "answered" /\ UNCHANGED <<stage, scope>> /\ (Go(c, "failed") \/ Go(c, "ending"))
    BY <1>6 DEF RelayFinal, Answer, Finalize, StoreAndRelay
  <2>2. scope[c] \in Threads /\ stage[c] = "running" /\ SettledBut({})
    BY <1>b, <1>c, <2>1
  <2>3. CASE sent[c] = "relayed"
    <3>1. Kept
      BY <1>6, <2>2, <2>3, FinalizeKeepsCalls DEF RelayFinal, Answer, Kept
    <3> QED
      BY <1>a, <2>2, <3>1, KeptInOrder
  <2>4. CASE sent[c] # "relayed"
    <3>1. Store(c, "final") /\ "final" \in Kinds
      BY <1>6, <2>4 DEF RelayFinal, Answer, StoreAndRelay, Kinds
    <3>2. pc'[c] \notin {"idle", "queued"} /\ SettledBut({c})
      BY <1>d, <2>1, <2>2 DEF TypeOK
    <3> QED
      BY <2>1, <2>2, <3>1, <3>2, StoredInOrder
  <2> QED
    BY <2>3, <2>4
<1>7. ASSUME NEW c \in Calls, FailConversation(c)
      PROVE  MessagesInOrder'
  <2>1. /\ pc[c] = "failed" /\ UNCHANGED <<stage, scope>> /\ Go(c, "ending")
        /\ Store(c, "error") /\ "error" \in Kinds
    BY <1>7 DEF FailConversation, Report, Kinds
  <2>2. scope[c] \in Threads /\ stage[c] = "running" /\ SettledBut({c})
    BY <1>b, <1>c, <1>d, <2>1
  <2>3. pc'[c] \notin {"idle", "queued"}
    BY <2>1 DEF TypeOK
  <2> QED
    BY <2>1, <2>2, <2>3, StoredInOrder
<1>8. ASSUME NEW c \in Calls, EndTurn(c)
      PROVE  MessagesInOrder'
  <2>1. SettledBut({}) /\ UNCHANGED messages
    BY <1>8 DEF EndTurn, Gate!Depart, SettledBut, TypeOK
  <2> QED
    BY <1>a, <1>e, <2>1, KeptInOrder
<1>9. ASSUME NEW th \in Threads, PurgeThread(th) \/ AgentPurge(th)
      PROVE  MessagesInOrder'
  <2>1. PICK left \in {<<>>, messages[th]} : Purge(th, left, NoSession)
    BY <1>9 DEF PurgeThread, AgentPurge
  <2>2. Kept
    BY <1>a, <2>1 DEF Purge, Kept
  <2>3. SettledBut({})
    BY <2>1 DEF Purge, SettledBut
  <2> QED
    BY <1>a, <2>2, <2>3, KeptInOrder
<1>10. ASSUME NEW force \in BOOLEAN, BeginShutdown(force)
       PROVE  MessagesInOrder'
  <2>1. SettledBut({}) /\ UNCHANGED messages
    BY <1>10 DEF BeginShutdown, Gate!Close, SettledBut
  <2> QED
    BY <1>a, <1>e, <2>1, KeptInOrder
<1> QED
  BY <1>1, <1>2, <1>3, <1>4, <1>5, <1>6, <1>7, <1>8, <1>9, <1>10 DEF Next

\* A step that leaves the account of a call alone.
SameAccount(c) == UNCHANGED <<sent[c], replies[c]>> /\ (c \in disturbed => c \in disturbed')

LEMMA CountedStep ==
  ASSUME TypeOK, Counted, Next
  PROVE  Counted'
<1> USE DEF Go, gateVars, historyVars
<1>a. /\ pc \in [Calls -> Places] /\ sent \in [Calls -> {"no", "relayed", "failed"}]
      /\ replies \in [Calls -> [answers : 0..2, errors : 0..1]]
  BY DEF TypeOK, Places
<1>b. ASSUME NEW c \in Calls, SameAccount(c), pc'[c] = pc[c]
      PROVE  Told(c)'
  BY <1>b DEF Counted, Told, SameAccount
<1>c. ASSUME NEW c \in Calls, SameAccount(c),
             pc[c] \notin {"ending", "done"}, pc'[c] \notin {"ending", "done"},
             pc'[c] \in {"idle", "queued", "stored"} => pc[c] \in {"idle", "queued", "stored"}
      PROVE  Told(c)'
  BY <1>c DEF Counted, Told, SameAccount
<1>d. ASSUME NEW c \in Calls, NEW what \in {"answers", "errors"}, Relays(c, what)
      PROVE  /\ what = "answers" => /\ replies'[c].answers = replies[c].answers + 1
                                   /\ replies'[c].errors = replies[c].errors
             /\ what = "errors" => /\ replies'[c].answers = replies[c].answers
                                  /\ replies'[c].errors = replies[c].errors + 1
             /\ \A d \in Calls \ {c} : replies'[d] = replies[d]
             /\ disturbed' = disturbed
  <2> DEFINE r == replies[c]
  <2>1. r \in [answers : 0..2, errors : 0..1]
    BY <1>a
  <2> HIDE DEF r
  <2>2. replies'[c] = [r EXCEPT ![what] = r[what] + 1]
    BY <1>a, <1>d DEF Relays, r
  <2>3. CASE what = "answers"
    BY <1>a, <1>d, <2>1, <2>2, <2>3 DEF Relays, r
  <2>4. CASE what = "errors"
    BY <1>a, <1>d, <2>1, <2>2, <2>4 DEF Relays, r
  <2> QED
    BY <2>3, <2>4
<1>e. ASSUME NEW c \in Calls, RelayFails(c)
      PROVE  replies' = replies /\ c \in disturbed' /\ disturbed \subseteq disturbed'
  BY <1>e DEF RelayFails
<1>f. ASSUME NEW c \in Calls, Told(c)', NEW where \in Places, Go(c, where),
             \A d \in Calls \ {c} : SameAccount(d)
      PROVE  Counted'
  BY <1>a, <1>b, <1>f DEF Counted
<1>1. ASSUME NEW c \in Calls, NEW th \in Threads, HandleResolvedInbound(c, th)
      PROVE  Counted'
  BY <1>a, <1>1, <1>b, <1>c DEF HandleResolvedInbound, Counted, SameAccount
<1>2. ASSUME NEW c \in Calls, StartTurn(c)
      PROVE  Counted'
  BY <1>a, <1>2, <1>b, <1>c DEF StartTurn, Begin, Counted, SameAccount
<1>3. ASSUME NEW c \in Calls, BeginAgent(c)
      PROVE  Counted'
  BY <1>a, <1>3, <1>b, <1>c DEF BeginAgent, Counted, SameAccount
<1>4. ASSUME NEW c \in Calls, Send(c)
      PROVE  Counted'
  <2>1. pc[c] = "running" /\ sent[c] = "no" /\ pc' = pc
    BY <1>4 DEF Send
  <2>2. replies[c].answers = 0 /\ replies[c].errors = 0
    BY <2>1 DEF Counted, Told
  <2>3. CASE Relays(c, "answers") /\ sent' = [sent EXCEPT ![c] = "relayed"]
    <3>1. replies'[c].answers = 1 /\ replies'[c].errors = 0 /\ sent'[c] = "relayed"
      BY <1>a, <1>d, <2>2, <2>3
    <3>2. Told(c)'
      BY <2>1, <3>1 DEF Told
    <3> QED
      BY <1>a, <1>b, <1>d, <2>1, <2>3, <3>2 DEF Counted, SameAccount
  <2>4. CASE RelayFails(c) /\ sent' = [sent EXCEPT ![c] = "failed"]
    <3>1. Told(c)'
      BY <1>a, <1>e, <2>1, <2>2, <2>4 DEF Told
    <3> QED
      BY <1>a, <1>b, <1>e, <2>1, <2>4, <3>1 DEF Counted, SameAccount
  <2> QED
    BY <1>4, <2>3, <2>4 DEF Send
<1>5. ASSUME NEW c \in Calls, EndAgent(c)
      PROVE  Counted'
  BY <1>a, <1>5, <1>b, <1>c DEF EndAgent, Counted, SameAccount
<1>6. ASSUME NEW c \in Calls, RelayFinal(c)
      PROVE  Counted'
  <2>1. /\ pc[c] = "answered" /\ sent' = sent
        /\ replies[c].errors = 0 /\ replies[c].answers = IF sent[c] = "relayed" THEN 1 ELSE 0
    BY <1>6 DEF RelayFinal, Answer, Counted, Told
  <2>2. CASE sent[c] = "relayed"
    <3>1. UNCHANGED <<replies, disturbed>> /\ (Go(c, "failed") \/ Go(c, "ending"))
      BY <1>6, <2>2 DEF RelayFinal, Answer, Finalize
    <3>2. Told(c)'
      BY <1>a, <2>1, <2>2, <3>1 DEF Told
    <3> QED
      BY <1>f, <2>1, <3>1, <3>2 DEF SameAccount, Places
  <2>3. CASE sent[c] # "relayed" /\ Relays(c, "answers") /\ Go(c, "ending")
    <3>1. replies'[c].answers = 1 /\ replies'[c].errors = 0
      BY <1>a, <1>d, <2>1, <2>3
    <3>2. Told(c)'
      BY <1>a, <2>3, <3>1 DEF Told
    <3> QED
      BY <1>d, <1>f, <2>1, <2>3, <3>2 DEF SameAccount, Places
  <2>4. CASE sent[c] # "relayed" /\ RelayFails(c) /\ Go(c, "failed")
    <3>1. Told(c)'
      BY <1>a, <1>e, <2>1, <2>4 DEF Told
    <3> QED
      BY <1>e, <1>f, <2>1, <2>4, <3>1 DEF SameAccount, Places
  <2> QED
    BY <1>6, <2>2, <2>3, <2>4 DEF RelayFinal, Answer, StoreAndRelay
<1>7. ASSUME NEW c \in Calls, FailConversation(c)
      PROVE  Counted'
  <2>1. /\ pc[c] = "failed" /\ sent' = sent /\ Go(c, "ending")
        /\ replies[c].errors = 0 /\ replies[c].answers = IF sent[c] = "relayed" THEN 1 ELSE 0
    BY <1>7 DEF FailConversation, Report, Counted, Told
  <2>2. CASE Relays(c, "errors")
    <3>1. replies'[c].answers = replies[c].answers /\ replies'[c].errors = 1
      BY <1>a, <1>d, <2>1, <2>2
    <3>2. Told(c)'
      BY <1>a, <2>1, <3>1 DEF Told
    <3> QED
      BY <1>d, <1>f, <2>1, <2>2, <3>2 DEF SameAccount, Places
  <2>3. CASE RelayFails(c)
    <3>1. Told(c)'
      BY <1>a, <1>e, <2>1, <2>3 DEF Told
    <3> QED
      BY <1>e, <1>f, <2>1, <2>3, <3>1 DEF SameAccount, Places
  <2> QED
    BY <1>7, <2>2, <2>3 DEF FailConversation, Report
<1>8. ASSUME NEW c \in Calls, EndTurn(c)
      PROVE  Counted'
  <2>1. /\ UNCHANGED <<sent, replies, disturbed>>
        /\ (pc[c] = "ending" /\ Go(c, "done")) \/ (pc[c] = "interrupted" /\ Go(c, "silent"))
    <3>1. UNCHANGED <<sent, replies, disturbed>>
      BY <1>8 DEF EndTurn
    <3>2. (pc[c] = "ending" /\ Go(c, "done")) \/ (pc[c] = "interrupted" /\ Go(c, "silent"))
      BY <1>8 DEF EndTurn
    <3> QED
      BY <3>1, <3>2
  <2>2. Told(c)'
    BY <1>a, <2>1 DEF Counted, Told
  <2> QED
    BY <1>f, <2>1, <2>2 DEF SameAccount, Places
<1>9. ASSUME NEW th \in Threads, PurgeThread(th) \/ AgentPurge(th)
      PROVE  Counted'
  BY <1>9, <1>b DEF PurgeThread, AgentPurge, Purge, Counted, SameAccount
<1>10. ASSUME NEW force \in BOOLEAN, BeginShutdown(force)
       PROVE  Counted'
  BY <1>10, <1>b DEF BeginShutdown, Counted, SameAccount
<1> QED
  BY <1>1, <1>2, <1>3, <1>4, <1>5, <1>6, <1>7, <1>8, <1>9, <1>10 DEF Next

Sessions == Fresh /\ OnePlace /\ Gone

\* A step by which no session is mapped, run or purged, and no call falls back.
SameSessions ==
  /\ UNCHANGED <<session, resumed, forgotten, overrun>>
  /\ \A c \in Calls : /\ Running(c)' => Running(c) /\ scope'[c] = scope[c]
                      /\ pc'[c] \in {"idle", "queued", "stored"} => pc[c] \in {"idle", "queued", "stored"}

LEMMA SessionsStep ==
  ASSUME TypeOK, Placed, Exclusive, Sessions, Next
  PROVE  Sessions'
<1> USE DEF Go, gateVars, historyVars
<1>a. /\ pc \in [Calls -> Places] /\ resumed \in [Calls -> Calls \cup {NoSession}]
      /\ session \in [Threads -> Calls \cup {NoSession}] /\ NoSession \notin Calls
      /\ scope \in [Calls -> Threads \cup {NoThread}]
      /\ forgotten \subseteq Calls /\ overrun \subseteq Calls
  BY ConversationAssumption DEF TypeOK, Places
<1>b. ASSUME SameSessions
      PROVE  Sessions'
  BY <1>b DEF Sessions, Fresh, OnePlace, Gone, SameSessions, Running
<1>c. \A c \in Calls : pc[c] \in {"stored", "running"} => scope[c] \in Threads /\ stage[c] = "running"
  BY DEF Placed, TypeOK, Outside
<1>1. ASSUME NEW c \in Calls, NEW th \in Threads, HandleResolvedInbound(c, th)
      PROVE  Sessions'
  <2>1. SameSessions
    BY <1>a, <1>1 DEF HandleResolvedInbound, Gate!Queue, SameSessions, Running
  <2> QED
    BY <1>b, <2>1
<1>2. ASSUME NEW c \in Calls, StartTurn(c)
      PROVE  Sessions'
  <2>1. SameSessions
    BY <1>a, <1>2 DEF StartTurn, Begin, Gate!Start, SameSessions, Running
  <2> QED
    BY <1>b, <2>1
<1>3. ASSUME NEW c \in Calls, BeginAgent(c)
      PROVE  Sessions'
  <2>1. CASE Go(c, "failed") /\ UNCHANGED resumed
    <3>1. SameSessions
      BY <1>a, <1>3, <2>1 DEF BeginAgent, SameSessions, Running
    <3> QED
      BY <1>b, <3>1
  <2>2. CASE /\ Go(c, "running")
             /\ resumed' = [resumed EXCEPT ![c] = IF session[scope[c]] = NoSession THEN c ELSE session[scope[c]]]
    <3>1. /\ pc[c] = "stored" /\ UNCHANGED <<session, scope, stage, forgotten, overrun>>
          /\ scope[c] \in Threads /\ stage[c] = "running"
          /\ pc'[c] = "running" /\ \A d \in Calls \ {c} : pc'[d] = pc[d] /\ resumed'[d] = resumed[d]
          /\ resumed'[c] \in Calls
      BY <1>a, <1>c, <1>3, <2>2 DEF BeginAgent
    <3>2. \/ resumed'[c] = c
          \/ resumed'[c] = session[scope[c]] /\ session[scope[c]] # NoSession
      BY <1>a, <2>2
    <3>3. \A d \in Calls : Running(d)' => d = c \/ Running(d)
      BY <3>1 DEF Running
    <3>4. Fresh'
      BY <3>1, <3>2 DEF Sessions, Fresh, Running
    <3>5. \A d \in Calls : Running(d) => d # c /\ resumed[d] # resumed'[c]
      <4> SUFFICES ASSUME NEW d \in Calls, Running(d)
                   PROVE  d # c /\ resumed[d] # resumed'[c]
        OBVIOUS
      <4>1. d # c /\ stage[d] = "running"
        BY <1>c, <3>1 DEF Running
      <4>2. resumed[d] # c
        BY <3>1 DEF Sessions, Fresh
      <4>3. session[scope[c]] = resumed[d] => scope[d] = scope[c]
        BY <3>1 DEF Sessions, OnePlace
      <4> QED
        BY <3>1, <3>2, <4>1, <4>2, <4>3 DEF Exclusive
    <3>6. \A th \in Threads : session[th] = resumed'[c] => th = scope[c]
      BY <3>1, <3>2 DEF Sessions, Fresh, OnePlace
    <3>7. OnePlace'
      BY <3>1, <3>3, <3>5, <3>6 DEF Sessions, OnePlace, Running
    <3>8. Gone'
      BY <3>1, <3>2, <3>3 DEF Sessions, Fresh, Gone, Running
    <3> QED
      BY <3>4, <3>7, <3>8 DEF Sessions
  <2> QED
    BY <1>3, <2>1, <2>2 DEF BeginAgent, thread
<1>4. ASSUME NEW c \in Calls, Send(c)
      PROVE  Sessions'
  <2>1. SameSessions
    BY <1>a, <1>4 DEF Send, SameSessions, Running
  <2> QED
    BY <1>b, <2>1
<1>5. ASSUME NEW c \in Calls, EndAgent(c)
      PROVE  Sessions'
  <2>1. /\ pc[c] = "running" /\ UNCHANGED <<resumed, scope, forgotten, overrun>>
        /\ scope[c] \in Threads
        /\ session' \in {session, [session EXCEPT ![scope[c]] = resumed[c]]}
        /\ pc'[c] \in {"answered", "failed", "interrupted"} /\ \A d \in Calls \ {c} : pc'[d] = pc[d]
    BY <1>a, <1>c, <1>5 DEF EndAgent, thread
  <2>2. \A d \in Calls : Running(d)' => Running(d) /\ d # c
    BY <2>1 DEF Running
  <2>3. Running(c) /\ resumed[c] \in Calls
    BY <2>1 DEF Running, Sessions, OnePlace
  <2>4. \A th \in Threads : session'[th] # session[th] => th = scope[c] /\ session'[th] = resumed[c]
    BY <1>a, <2>1
  <2>5. Fresh'
    BY <2>1, <2>2, <2>3, <2>4 DEF Sessions, Fresh
  <2>6. OnePlace'
    <3>1. \A t, u \in Threads : session'[t] = session'[u] /\ session'[t] # NoSession => t = u
      BY <2>3, <2>4 DEF Sessions, OnePlace
    <3>2. \A d \in Calls, t \in Threads : Running(d)' /\ session'[t] = resumed[d] => scope[d] = t
      BY <2>2, <2>3, <2>4 DEF Sessions, OnePlace
    <3> QED
      BY <2>1, <2>2, <3>1, <3>2 DEF Sessions, OnePlace
  <2>7. Gone'
    BY <2>1, <2>2, <2>3, <2>4 DEF Sessions, Gone
  <2> QED
    BY <2>5, <2>6, <2>7 DEF Sessions
<1>6. ASSUME NEW c \in Calls, RelayFinal(c)
      PROVE  Sessions'
  <2>1. /\ pc[c] = "answered" /\ UNCHANGED <<session, resumed, scope, forgotten, overrun>>
        /\ Go(c, "failed") \/ Go(c, "ending")
    BY <1>6 DEF RelayFinal, Answer, Finalize, StoreAndRelay
  <2>2. SameSessions
    BY <1>a, <2>1 DEF SameSessions, Running
  <2> QED
    BY <1>b, <2>2
<1>7. ASSUME NEW c \in Calls, FailConversation(c)
      PROVE  Sessions'
  <2>1. SameSessions
    BY <1>a, <1>7 DEF FailConversation, Report, SameSessions, Running
  <2> QED
    BY <1>b, <2>1
<1>8. ASSUME NEW c \in Calls, EndTurn(c)
      PROVE  Sessions'
  <2>1. SameSessions
    BY <1>a, <1>8 DEF EndTurn, Gate!Depart, SameSessions, Running
  <2> QED
    BY <1>b, <2>1
<1>9. ASSUME NEW th \in Threads, PurgeThread(th) \/ AgentPurge(th)
      PROVE  Sessions'
  <2>1. PICK left \in {<<>>, messages[th]} : Purge(th, left, NoSession)
    BY <1>9 DEF PurgeThread, AgentPurge
  <2>2. /\ UNCHANGED <<pc, resumed, scope>> /\ session' = [session EXCEPT ![th] = NoSession]
        /\ forgotten' = forgotten \cup ({session[th]} \ {NoSession})
        /\ overrun' = overrun \cup {resumed[c] : c \in {d \in InTurn(th) : pc[d] = "running"}}
    BY <2>1 DEF Purge
  <2>3. \A t \in Threads : session'[t] # NoSession => t # th /\ session'[t] = session[t]
    BY <1>a, <2>2
  <2>4. Fresh'
    BY <1>a, <2>2, <2>3 DEF Sessions, Fresh, Running
  <2>5. OnePlace'
    BY <1>a, <2>2, <2>3 DEF Sessions, OnePlace, Running
  \* The session that is purged ran in this thread, or it is nowhere else.
  <2>6. session[th] \in overrun' \/ \A c \in Calls : Running(c) => resumed[c] # session[th]
    <3> SUFFICES ASSUME NEW c \in Calls, Running(c), resumed[c] = session[th]
                 PROVE  session[th] \in overrun'
      OBVIOUS
    <3>1. scope[c] = th /\ stage[c] = "running"
      BY <1>c DEF Sessions, OnePlace, Running
    <3>2. c \in {d \in InTurn(th) : pc[d] = "running"}
      BY <3>1 DEF InTurn, Running
    <3> QED
      BY <2>2, <3>2
  <2>7. Gone'
    <3> SUFFICES ASSUME NEW s \in forgotten' \ overrun'
                 PROVE  /\ \A t \in Threads : session'[t] # s
                        /\ \A c \in Calls : Running(c) => resumed[c] # s
      BY <2>2 DEF Gone, Running
    <3>1. s \in Calls /\ s # NoSession
      BY <1>a, <2>2
    <3>2. CASE s \in forgotten \ overrun
      BY <2>3, <3>1, <3>2 DEF Sessions, Gone
    <3>3. CASE s = session[th]
      BY <2>3, <2>6, <3>1, <3>3 DEF Sessions, OnePlace
    <3> QED
      BY <2>2, <3>2, <3>3
  <2> QED
    BY <2>4, <2>5, <2>7 DEF Sessions
<1>10. ASSUME NEW force \in BOOLEAN, BeginShutdown(force)
       PROVE  Sessions'
  <2>1. SameSessions
    BY <1>10 DEF BeginShutdown, Gate!Close, SameSessions, Running
  <2> QED
    BY <1>b, <2>1
<1> QED
  BY <1>1, <1>2, <1>3, <1>4, <1>5, <1>6, <1>7, <1>8, <1>9, <1>10 DEF Next

LEMMA InitInv == Init => IInv
<1> SUFFICES ASSUME Init
             PROVE  IInv
  OBVIOUS
<1> USE ConversationAssumption DEF Init, Gate!Init
<1>1. TypeOK
  <2>1. <<>> \in Seq([call : Calls, kind : {"in", "text", "final", "error"}])
    OBVIOUS
  <2> QED
    BY <2>1 DEF TypeOK
<1>2. Placed /\ Exclusive
  BY DEF Placed, Exclusive, Outside
<1>3. MessagesInOrder
  BY DEF MessagesInOrder, Owned, LastOnes, TurnsAreContiguous
<1>4. Counted
  BY DEF Counted, Told
<1>5. Sessions
  BY DEF Sessions, Fresh, OnePlace, Gone, Running
<1> QED
  BY <1>1, <1>2, <1>3, <1>4, <1>5 DEF IInv, MessagesInOrder, Sessions

LEMMA NextInv == IInv /\ [Next]_vars => IInv'
<1>1. ASSUME IInv, Next
      PROVE  IInv'
  <2>1. Placed' /\ Exclusive'
    BY <1>1, GateStep DEF IInv
  <2>2. TypeOK'
    BY <1>1, TypeStep DEF IInv
  <2>3. MessagesInOrder'
    BY <1>1, <2>1, <2>2, MessagesStep DEF IInv, MessagesInOrder
  <2>4. Counted'
    BY <1>1, CountedStep DEF IInv
  <2>5. Sessions'
    BY <1>1, SessionsStep DEF IInv, Sessions
  <2> QED
    BY <2>1, <2>2, <2>3, <2>4, <2>5 DEF IInv, MessagesInOrder, Sessions
<1>2. ASSUME IInv, UNCHANGED vars
      PROVE  IInv'
  <2> USE <1>2 DEF vars
  <2>1. TypeOK'
    BY DEF IInv, TypeOK
  <2>2. Placed' /\ Exclusive'
    BY DEF IInv, Placed, Exclusive
  <2>3. Owned' /\ LastOnes' /\ TurnsAreContiguous'
    BY DEF IInv, Owned, LastOnes, TurnsAreContiguous
  <2>4. Counted'
    BY DEF IInv, Counted, Told
  <2>5. Fresh' /\ OnePlace' /\ Gone'
    BY DEF IInv, Fresh, OnePlace, Gone, Running
  <2> QED
    BY <2>1, <2>2, <2>3, <2>4, <2>5 DEF IInv
<1> QED
  BY <1>1, <1>2

\* The inductive invariant holds: each part of it is kept by every action.
THEOREM Invariant == Spec => []IInv
  BY InitInv, NextInv, PTL DEF Spec
------------------------------------------------------------------------------
\* The state of a conversation has its types; no call is told an error twice.
THEOREM TypeCorrect == Spec => []TypeOK
<1>1. IInv => TypeOK
  BY DEF IInv
<1> QED
  BY <1>1, Invariant, PTL

\* What turns store in a thread does not mix.
THEOREM TurnsDoNotMix == Spec => []TurnsAreContiguous
<1>1. IInv => TurnsAreContiguous
  BY DEF IInv
<1> QED
  BY <1>1, Invariant, PTL

\* A turn that meets no purge and no failed relay tells its user one thing.
THEOREM TurnsReplyOnce == Spec => []OneReplyEach
<1>1. IInv => OneReplyEach
  <2> SUFFICES ASSUME IInv, NEW c \in Calls, pc[c] \in {"done", "silent"}, c \notin disturbed
               PROVE  LET r == replies[c] IN
                      /\ r.answers <= 1 /\ r.errors <= 1
                      /\ r.answers + r.errors = 0 => pc[c] = "silent"
                      /\ r.answers + r.errors = 2 => sent[c] = "relayed"
    BY DEF OneReplyEach
  <2>1. replies[c] \in [answers : 0..2, errors : 0..1] /\ Told(c)
    BY DEF IInv, TypeOK, Counted
  <2> QED
    BY <2>1 DEF Told
<1> QED
  BY <1>1, Invariant, PTL

\* A session that was purged while it did not run is not resumed.
THEOREM PurgesAtRestAreKept == Spec => QuietPurgeIsKept
<1> DEFINE Resumes == \A c \in Calls : pc[c] = "stored" /\ pc'[c] = "running" /\ resumed'[c] # c
                        => resumed'[c] \notin forgotten \ overrun
<1>1. ASSUME IInv, IInv', Next
      PROVE  Resumes
  <2> SUFFICES ASSUME NEW c \in Calls, pc[c] = "stored", pc'[c] = "running"
               PROVE  resumed'[c] \notin forgotten \ overrun
    OBVIOUS
  <2>1. ASSUME NEW d \in Calls,
               \/ StartTurn(d) \/ BeginAgent(d) \/ Send(d) \/ EndAgent(d)
               \/ RelayFinal(d) \/ FailConversation(d) \/ EndTurn(d)
               \/ \E th \in Threads : HandleResolvedInbound(d, th)
        PROVE  UNCHANGED <<forgotten, overrun>>
    BY <2>1 DEF StartTurn, Begin, BeginAgent, Send, EndAgent, RelayFinal, Answer, FailConversation, Report,
                EndTurn, HandleResolvedInbound, historyVars
  <2>2. ASSUME NEW th \in Threads, PurgeThread(th) \/ AgentPurge(th)
        PROVE  pc' = pc
    BY <2>2 DEF PurgeThread, AgentPurge, Purge
  <2>3. ASSUME NEW force \in BOOLEAN, BeginShutdown(force)
        PROVE  pc' = pc
    BY <2>3 DEF BeginShutdown
  <2>4. UNCHANGED <<forgotten, overrun>> \/ pc' = pc
    BY <1>1, <2>1, <2>2, <2>3 DEF Next
  <2>5. UNCHANGED <<forgotten, overrun>>
    BY <2>4
  <2> QED
    BY <1>1, <2>5 DEF IInv, Gone, Running
<1>2. ASSUME UNCHANGED vars
      PROVE  Resumes
  BY <1>2 DEF vars
<1>3. IInv /\ IInv' /\ [Next]_vars => [Resumes]_vars
  BY <1>1, <1>2
<1> QED
  BY <1>3, Invariant, PTL DEF Spec, QuietPurgeIsKept
------------------------------------------------------------------------------
(* The sandbox. *)

Busy(c) == at[c] \notin {"new", "end"}

\* What is done where, by turns and by commands.
CallersFit ==
  /\ doing \in [SandboxCallers -> StartCommands \cup StopCommands \cup
                  {"nothing", "run", "read", "refresh", "purge", "interrupt"}]
  /\ reply \in [AgentTurns -> {"open", "error", "silent"} \cup AgentTurns]
  /\ \A t \in AgentTurns :
       /\ at[t] \in {"new", "ensure", "bootstrap", "go", "begun", "running", "finish", "end"}
       /\ at[t] \in {"ensure", "bootstrap", "go"} => doing[t] \in {"run", "read"}
       /\ at[t] \in {"begun", "running"} => doing[t] = "run"
  /\ \A c \in SandboxCommands :
       /\ at[c] \in {"new", "ensure", "bootstrap", "inspect", "set", "stop", "remove", "kill", "end"}
       /\ at[c] = "ensure" => doing[c] \in StartCommands
       /\ at[c] \in {"bootstrap", "inspect"} => doing[c] = "start"
       /\ doing[c] \notin {"run", "read"}

\* The turn gate, and what overlapping commands excuse.
OneAtATime ==
  /\ \A t, u \in AgentTurns : Busy(t) /\ Busy(u) => t = u
  /\ \A c, d \in SandboxCommands : Busy(c) /\ Busy(d) => c = d \/ excused

\* A turn whose agent is still to run has no answer yet.
FreshTurnsAreOpen ==
  \A t \in AgentTurns :
    at[t] = "new" \/ (at[t] \in {"ensure", "bootstrap", "go", "begun"} /\ doing[t] = "run") =>
      reply[t] = "open" /\ t \notin launched

\* A mark that is there after a turn's agent was started was set by an interrupt
\* that met the turn.
MarksAreNew == \A t \in launched : at[t] # "end" /\ interrupted => t \in hit

\* An agent without its turn is of a turn that was cut off.
AgentsAreMinded ==
  /\ \A t \in agents : at[t] = "running" \/ t \in cutTurns
  /\ \A t \in AgentTurns : at[t] = "running" => t \in launched

\* A turn that has no answer yet, and reads the file, finds its own message, none,
\* or that of an agent that was left alive.
TurnsReadTheirOwn ==
  \A t \in AgentTurns :
    doing[t] = "read" /\ at[t] \in {"ensure", "bootstrap", "go"} /\ reply[t] = "open" =>
      lastMessage \in {t, NoOne} \cup cutTurns

\* Who has the container up, if it is not to be kept.
ForATurn == \E t \in AgentTurns : Busy(t)
ForACommand ==
  \E c \in SandboxCommands :
    at[c] \in {"bootstrap", "inspect"} \/ (at[c] = "set" /\ doing[c] \in StartCommands)
UpForAReason ==
  ~excused =>
    /\ Up => keepRunning \/ ForATurn \/ ForACommand
    /\ \A c \in SandboxCommands :
         /\ at[c] = "ensure" /\ doing[c] = "start kept" => keepRunning
         /\ at[c] = "set" /\ doing[c] \notin StartCommands /\ Up => ForATurn

\* The inductive invariant.
SandboxIInv ==
  /\ SandboxTypeOK /\ CallersFit /\ OneAtATime /\ FreshTurnsAreOpen /\ MarksAreNew
  /\ AgentsAreMinded /\ TurnsReadTheirOwn /\ UpForAReason
  /\ OwnAnswers /\ SilentTurnsWereInterrupted
------------------------------------------------------------------------------

SandboxPlaces == {"new", "ensure", "bootstrap", "inspect", "go", "begun", "running", "finish", "stop",
                  "remove", "set", "kill", "end"}

\* A caller that goes to a place, does something else, or gets its answer, and nobody else.
Moved(c, place) ==
  /\ at' \in [SandboxCallers -> SandboxPlaces] /\ at'[c] = place
  /\ \A d \in SandboxCallers \ {c} : at'[d] = at[d]
Did(c, kind) ==
  /\ doing' \in [SandboxCallers -> StartCommands \cup StopCommands \cup
                   {"nothing", "run", "read", "refresh", "purge", "interrupt"}]
  /\ doing'[c] = kind
  /\ \A d \in SandboxCallers \ {c} : doing'[d] = doing[d]
Answered(t, r) ==
  /\ reply' \in [AgentTurns -> {"open", "error", "silent"} \cup AgentTurns]
  /\ reply'[t] = IF reply[t] = "open" THEN r ELSE reply[t]
  /\ \A u \in AgentTurns \ {t} : reply'[u] = reply[u]
------------------------------------------------------------------------------
LEMMA SandboxInitHolds ==
  SandboxInit => SandboxIInv
<1> SUFFICES ASSUME SandboxInit PROVE SandboxIInv
  OBVIOUS
<1> USE SandboxAssumption DEF SandboxInit
<1>1. SandboxTypeOK
  <2>1. 0 \in 0..MaxSandboxFaults
    OBVIOUS
  <2> QED BY <2>1 DEF SandboxTypeOK, Up
<1>2. CallersFit /\ OneAtATime /\ FreshTurnsAreOpen /\ MarksAreNew /\ AgentsAreMinded
  BY DEF CallersFit, OneAtATime, FreshTurnsAreOpen, MarksAreNew, AgentsAreMinded, SandboxCallers, Busy
<1>3. TurnsReadTheirOwn /\ UpForAReason /\ OwnAnswers /\ SilentTurnsWereInterrupted
  BY DEF TurnsReadTheirOwn, UpForAReason, OwnAnswers, SilentTurnsWereInterrupted, SandboxCallers, Up
<1> QED BY <1>1, <1>2, <1>3 DEF SandboxIInv

\* What the pieces of a step do.
LEMMA GoToMoves ==
  ASSUME SandboxIInv, NEW c \in SandboxCallers, NEW place \in SandboxPlaces, GoTo(c, place)
  PROVE  Moved(c, place)
BY DEF GoTo, Moved, SandboxPlaces, SandboxIInv, SandboxTypeOK

LEMMA ReplyAnswers ==
  ASSUME SandboxIInv, NEW t \in AgentTurns, NEW r \in {"error", "silent"} \cup AgentTurns, Reply(t, r)
  PROVE  Answered(t, r)
BY DEF Reply, Answered, SandboxIInv, CallersFit

LEMMA GiveUpSteps ==
  ASSUME SandboxIInv, NEW c \in SandboxCallers, GiveUp(c)
  PROVE  /\ c \in SandboxCommands => Moved(c, "end") /\ doing' = doing /\ reply' = reply
         /\ c \in AgentTurns => Answered(c, "error")
         /\ c \in AgentTurns /\ doing[c] = "run" => Moved(c, "ensure") /\ Did(c, "read")
         /\ c \in AgentTurns /\ doing[c] = "read" => Moved(c, "finish") /\ doing' = doing
<1>1. c \in AgentTurns => Answered(c, "error")
  BY ReplyAnswers DEF GiveUp
<1>2. c \in SandboxCommands => Moved(c, "end") /\ doing' = doing /\ reply' = reply
  <2> SUFFICES ASSUME c \in SandboxCommands PROVE Moved(c, "end") /\ doing' = doing /\ reply' = reply
    OBVIOUS
  <2>1. doing[c] \notin {"run", "read"} /\ c \notin AgentTurns
    BY SandboxAssumption DEF SandboxIInv, CallersFit
  <2>2. at' = [at EXCEPT ![c] = "end"] /\ doing' = [doing EXCEPT ![c] = doing[c]] /\ reply' = reply
    BY <2>1 DEF GiveUp
  <2> QED BY <2>2 DEF Moved, SandboxPlaces, SandboxIInv, SandboxTypeOK, CallersFit
<1>3. c \in AgentTurns /\ doing[c] = "run" => Moved(c, "ensure") /\ Did(c, "read")
  <2> SUFFICES ASSUME doing[c] = "run" PROVE Moved(c, "ensure") /\ Did(c, "read")
    OBVIOUS
  <2>1. at' = [at EXCEPT ![c] = "ensure"] /\ doing' = [doing EXCEPT ![c] = "read"]
    BY DEF GiveUp
  <2> QED BY <2>1 DEF Moved, Did, SandboxPlaces, SandboxIInv, SandboxTypeOK, CallersFit
<1>4. c \in AgentTurns /\ doing[c] = "read" => Moved(c, "finish") /\ doing' = doing
  <2> SUFFICES ASSUME doing[c] = "read" PROVE Moved(c, "finish") /\ doing' = doing
    OBVIOUS
  <2>1. at' = [at EXCEPT ![c] = "finish"] /\ doing' = [doing EXCEPT ![c] = doing[c]]
    BY DEF GiveUp
  <2> QED BY <2>1 DEF Moved, SandboxPlaces, SandboxIInv, SandboxTypeOK, CallersFit
<1> QED BY <1>1, <1>2, <1>3, <1>4

\* Where a command goes that has its container.
Onward(c) == IF doing[c] = "start kept" THEN "end" ELSE IF doing[c] = "start thread" THEN "set" ELSE "inspect"

LEMMA ProceedMoves ==
  ASSUME SandboxIInv, NEW c \in SandboxCallers, at[c] \in {"ensure", "bootstrap"}, Proceed(c)
  PROVE  /\ c \in AgentTurns => Moved(c, "go")
         /\ c \notin AgentTurns => Moved(c, Onward(c))
<1>1. c \in AgentTurns => GoTo(c, "go")
  BY DEF Proceed, SandboxIInv, CallersFit
<1>2. c \notin AgentTurns => GoTo(c, Onward(c))
  BY DEF Proceed, Onward
<1> QED BY <1>1, <1>2, GoToMoves DEF SandboxPlaces, Onward

LEMMA FaultsCount ==
  ASSUME SandboxIInv, SandboxFault
  PROVE  sandboxFaults' \in 0..MaxSandboxFaults
BY SandboxAssumption DEF SandboxFault, SandboxIInv, SandboxTypeOK

\* What ensureReady does to the container.
LEMMA EnsureSteps ==
  ASSUME SandboxIInv
  PROVE  /\ EnsureReady => /\ container' = "running" /\ lastMessage' \in {lastMessage, NoOne}
                           /\ sandboxFaults' = sandboxFaults
         /\ ScriptFails => /\ container' = "running" /\ lastMessage' \in {lastMessage, NoOne}
                           /\ sandboxFaults' \in 0..MaxSandboxFaults
         /\ EnsureFails => /\ container' \in {container, "running"} \/ (container = "missing" /\ container' = "created")
                           /\ lastMessage' = lastMessage /\ sandboxFaults' \in 0..MaxSandboxFaults
BY FaultsCount DEF EnsureReady, ScriptFails, EnsureFails, Restart
------------------------------------------------------------------------------

\* A step in which nobody becomes busy.
LEMMA BusyKeeps ==
  ASSUME OneAtATime, excused => excused', \A c \in SandboxCallers : Busy(c)' => Busy(c)
  PROVE  OneAtATime'
BY DEF OneAtATime, SandboxCallers

\* A step that lets nobody go leaves the lock taken.
LEMMA LockStays ==
  ASSUME SandboxIInv, active' = active,
         \A t \in AgentTurns : at[t] \in {"begun", "running"} => at'[t] \in {"begun", "running"}
  PROVE  active' # NoOne => ~LockIsFree'
BY DEF SandboxIInv, SandboxTypeOK, LockIsFree

\* A turn that goes on is reason enough for its container.
LEMMA TurnIsAReason ==
  ASSUME SandboxIInv, NEW t \in AgentTurns, Busy(t)',
         \A c \in SandboxCommands : at'[c] = at[c] /\ doing'[c] = doing[c],
         keepRunning' = keepRunning, excused' = excused
  PROVE  UpForAReason'
<1>1. ForATurn'
  BY DEF ForATurn
<1> QED BY <1>1 DEF SandboxIInv, UpForAReason

LEMMA EnsureKeeps ==
  ASSUME SandboxIInv, NEW c \in SandboxCallers, Ensure(c)
  PROVE  SandboxIInv'
<1>1. /\ at[c] = "ensure" /\ LockIsFree
      /\ UNCHANGED <<agents, keepRunning, keepCopy, active, interrupted, launched, hit, cutTurns>>
  BY DEF Ensure
<1>2. \/ /\ container' = "running" /\ lastMessage' \in {lastMessage, NoOne} /\ sandboxFaults' = sandboxFaults
         /\ prepared' = (prepared /\ Up) /\ doing' = doing /\ reply' = reply /\ excused' = excused
         /\ \/ c \in AgentTurns /\ Moved(c, "go")
            \/ c \in AgentTurns /\ Moved(c, "bootstrap")
            \/ c \in SandboxCommands /\ doing[c] = "start" /\ Moved(c, "bootstrap")
            \/ c \in SandboxCommands /\ doing[c] = "start" /\ Moved(c, "inspect")
            \/ c \in SandboxCommands /\ doing[c] = "start thread" /\ Moved(c, "set")
            \/ c \in SandboxCommands /\ doing[c] = "start kept" /\ Moved(c, "end")
      \/ /\ container' \in {container, "running"} \/ (container = "missing" /\ container' = "created")
         /\ lastMessage' = lastMessage /\ sandboxFaults' \in 0..MaxSandboxFaults /\ prepared' = prepared
         /\ excused' \in BOOLEAN /\ (excused => excused')
         /\ \/ c \in SandboxCommands /\ Moved(c, "end") /\ doing' = doing /\ reply' = reply
               /\ (Up' => Up \/ excused')
            \/ c \in AgentTurns /\ doing[c] = "run" /\ Moved(c, "ensure") /\ Did(c, "read") /\ Answered(c, "error")
               /\ excused' = excused
            \/ c \in AgentTurns /\ doing[c] = "read" /\ Moved(c, "finish") /\ doing' = doing /\ Answered(c, "error")
               /\ excused' = excused
  <2>1. c \in AgentTurns => doing[c] \in {"run", "read"}
    BY <1>1 DEF SandboxIInv, CallersFit
  <2>2. c \notin AgentTurns => c \in SandboxCommands /\ doing[c] \in {"start", "start thread", "start kept"}
    BY <1>1 DEF SandboxIInv, CallersFit, SandboxCallers, StartCommands
  <2>3. CASE /\ EnsureReady /\ prepared' = (prepared /\ Up) /\ UNCHANGED <<doing, reply, excused>>
             /\ IF Up \/ doing[c] \in {"start thread", "start kept"} THEN Proceed(c) ELSE GoTo(c, "bootstrap")
    <3>1. container' = "running" /\ lastMessage' \in {lastMessage, NoOne} /\ sandboxFaults' = sandboxFaults
      BY <2>3, EnsureSteps
    <3>2. Proceed(c) \/ (GoTo(c, "bootstrap") /\ doing[c] \notin {"start thread", "start kept"})
      BY <2>3
    <3>3. GoTo(c, "bootstrap") => Moved(c, "bootstrap")
      BY GoToMoves DEF SandboxPlaces
    <3>4. Proceed(c) => /\ c \in AgentTurns => Moved(c, "go")
                        /\ c \notin AgentTurns => Moved(c, Onward(c))
      BY <1>1, ProceedMoves
    <3> QED BY <2>1, <2>2, <2>3, <3>1, <3>2, <3>3, <3>4 DEF Onward
  <2>4. CASE /\ EnsureFails /\ GiveUp(c) /\ UNCHANGED prepared
             /\ excused' = (excused \/ (c \in SandboxCommands /\ ~Up /\ container' = "running"))
    <3>1. /\ container' \in {container, "running"} \/ (container = "missing" /\ container' = "created")
          /\ lastMessage' = lastMessage /\ sandboxFaults' \in 0..MaxSandboxFaults /\ prepared' = prepared
      BY <2>4, EnsureSteps
    <3>2. excused' \in BOOLEAN /\ (excused => excused') /\ (c \in SandboxCommands /\ Up' => Up \/ excused')
      BY <2>4 DEF Up, SandboxIInv, SandboxTypeOK
    <3>3. c \in AgentTurns => excused' = excused
      BY <2>4, SandboxAssumption DEF SandboxIInv, SandboxTypeOK
    <3> QED BY <2>1, <2>2, <2>4, <3>1, <3>2, <3>3, GiveUpSteps
  <2> QED BY <2>3, <2>4 DEF Ensure
<1>3. SandboxTypeOK'
  <2>1. active' # NoOne => ~LockIsFree'
    BY <1>1 DEF SandboxIInv, SandboxTypeOK
  <2>2. at' \in [SandboxCallers -> SandboxPlaces] /\ reply' \in [AgentTurns -> {"open", "error", "silent"} \cup AgentTurns]
    BY <1>2 DEF Moved, Answered, SandboxIInv, CallersFit
  <2>3. container' \in {"missing", "created", "exited", "running"} /\ sandboxFaults' \in 0..MaxSandboxFaults
        /\ prepared' \in BOOLEAN /\ lastMessage' \in AgentTurns \cup {NoOne} /\ excused' \in BOOLEAN
    BY <1>2 DEF SandboxIInv, SandboxTypeOK
  <2>4. (prepared' => Up') /\ (agents' # {} => Up')
    <3>1. container' = "running" \/ (prepared' = prepared /\ (container' = container \/ container = "missing"))
      BY <1>2
    <3>2. (prepared => container = "running") /\ (agents # {} => container = "running")
      BY DEF SandboxIInv, SandboxTypeOK, Up
    <3> QED BY <1>1, <3>1, <3>2 DEF Up
  <2> QED BY <1>1, <2>1, <2>2, <2>3, <2>4 DEF SandboxIInv, SandboxTypeOK, SandboxPlaces
<1>4. CallersFit'
  BY <1>1, <1>2, SandboxAssumption DEF Moved, Did, Answered, SandboxIInv, CallersFit, SandboxCallers, StartCommands
<1>5. OneAtATime'
  <2>1. excused => excused'
    BY <1>2
  <2>2. \A d \in SandboxCallers : Busy(d)' => Busy(d)
    BY <1>1, <1>2 DEF Moved, Busy
  <2> QED BY <2>1, <2>2, BusyKeeps DEF SandboxIInv
<1>6. FreshTurnsAreOpen'
  BY <1>1, <1>2, SandboxAssumption DEF SandboxIInv, FreshTurnsAreOpen, Moved, Did, Answered, SandboxCallers
<1>7. MarksAreNew' /\ AgentsAreMinded'
  BY <1>1, <1>2, SandboxAssumption DEF SandboxIInv, SandboxTypeOK, MarksAreNew, AgentsAreMinded, Moved, SandboxCallers
<1>8. TurnsReadTheirOwn'
  BY <1>1, <1>2, SandboxAssumption DEF SandboxIInv, TurnsReadTheirOwn, Moved, Did, Answered, SandboxCallers
<1>9. OwnAnswers' /\ SilentTurnsWereInterrupted'
  BY <1>1, <1>2, SandboxAssumption DEF SandboxIInv, OwnAnswers, SilentTurnsWereInterrupted, Answered
<1>10. UpForAReason'
  <2>1. CASE c \in AgentTurns
    <3>1. Busy(c)' /\ excused' = excused /\ \A d \in SandboxCommands : at'[d] = at[d] /\ doing'[d] = doing[d]
      BY <1>2, <2>1, SandboxAssumption DEF Moved, Did, Busy, SandboxCallers
    <3> QED BY <1>1, <2>1, <3>1, TurnIsAReason
  <2>2. CASE excused'
    BY <2>2 DEF UpForAReason
  <2>3. CASE c \in SandboxCommands /\ ~excused'
    <3>1. c \notin AgentTurns /\ doing' = doing /\ \A d \in SandboxCallers \ {c} : at'[d] = at[d]
      BY <1>2, <2>3, SandboxAssumption DEF Moved
    <3>2. ForATurn => ForATurn'
      BY <2>3, <3>1 DEF ForATurn, Busy, SandboxCallers
    <3>3. \/ Up' /\ (at'[c] \in {"bootstrap", "inspect"} \/ (at'[c] = "set" /\ doing[c] \in StartCommands))
          \/ Up' /\ at'[c] = "end" /\ doing[c] = "start kept"
          \/ (Up' => Up) /\ at'[c] = "end"
      BY <1>2, <2>3, <3>1 DEF Moved, Up, StartCommands
    <3>4. ~excused
      BY <1>2, <2>3
    <3> QED BY <1>1, <1>2, <2>3, <3>1, <3>2, <3>3, <3>4 DEF SandboxIInv, OneAtATime, UpForAReason, ForACommand, Busy, SandboxCallers
  <2> QED BY <2>1, <2>2, <2>3 DEF SandboxCallers
<1> QED BY <1>3, <1>4, <1>5, <1>6, <1>7, <1>8, <1>9, <1>10 DEF SandboxIInv

LEMMA BootstrapKeeps ==
  ASSUME SandboxIInv, NEW c \in SandboxCallers, Bootstrap(c)
  PROVE  SandboxIInv'
<1>1. /\ at[c] = "bootstrap"
      /\ UNCHANGED <<agents, keepRunning, keepCopy, active, interrupted, launched, hit, cutTurns>>
  BY DEF Bootstrap
<1>2. /\ \/ container' = "running"
         \/ prepared' = prepared /\ (container' \in {container, "running"} \/ (container = "missing" /\ container' = "created"))
      /\ prepared' \in BOOLEAN /\ lastMessage' \in {lastMessage, NoOne} /\ sandboxFaults' \in 0..MaxSandboxFaults
      /\ \/ /\ container' = "running" /\ doing' = doing /\ reply' = reply /\ excused' = excused
            /\ \/ c \in AgentTurns /\ Moved(c, "go")
               \/ c \in SandboxCommands /\ doing[c] = "start" /\ Moved(c, "inspect")
         \/ c \in SandboxCommands /\ Moved(c, "end") /\ doing' = doing /\ reply' = reply /\ excused'
         \/ c \in AgentTurns /\ doing[c] = "run" /\ Moved(c, "ensure") /\ Did(c, "read") /\ Answered(c, "error")
            /\ excused' = excused
         \/ c \in AgentTurns /\ doing[c] = "read" /\ Moved(c, "finish") /\ doing' = doing /\ Answered(c, "error")
            /\ excused' = excused
  <2>1. /\ c \in AgentTurns => doing[c] \in {"run", "read"} /\ c \notin SandboxCommands
        /\ c \notin AgentTurns => c \in SandboxCommands /\ doing[c] = "start"
    BY <1>1, SandboxAssumption DEF SandboxIInv, CallersFit, SandboxCallers
  <2>2. prepared \in BOOLEAN /\ excused \in BOOLEAN /\ sandboxFaults \in 0..MaxSandboxFaults
    BY DEF SandboxIInv, SandboxTypeOK
  <2>3. CASE EnsureReady /\ prepared' = TRUE /\ Proceed(c) /\ UNCHANGED <<doing, reply, excused>>
    <3>1. container' = "running" /\ lastMessage' \in {lastMessage, NoOne} /\ sandboxFaults' = sandboxFaults
      BY <2>3, EnsureSteps
    <3>2. /\ c \in AgentTurns => Moved(c, "go")
          /\ c \notin AgentTurns => Moved(c, Onward(c))
      BY <1>1, <2>3, ProceedMoves
    <3> QED BY <2>1, <2>2, <2>3, <3>1, <3>2 DEF Onward
  <2>4. CASE /\ \/ EnsureFails /\ UNCHANGED prepared
                \/ ScriptFails /\ prepared' \in {prepared /\ Up, TRUE}
             /\ GiveUp(c) /\ excused' = (excused \/ c \in SandboxCommands)
    <3>1. /\ \/ container' = "running"
             \/ prepared' = prepared /\ (container' \in {container, "running"} \/ (container = "missing" /\ container' = "created"))
          /\ prepared' \in BOOLEAN /\ lastMessage' \in {lastMessage, NoOne} /\ sandboxFaults' \in 0..MaxSandboxFaults
      BY <2>2, <2>4, EnsureSteps DEF Up
    <3>2. /\ c \in SandboxCommands => excused'
          /\ c \notin SandboxCommands => excused' = excused
      BY <2>2, <2>4
    <3> QED BY <2>1, <2>4, <3>1, <3>2, GiveUpSteps
  <2> QED BY <2>3, <2>4 DEF Bootstrap
<1>3. SandboxTypeOK'
  <2>1. active' # NoOne => ~LockIsFree'
    <3>1. \A t \in AgentTurns : at[t] \in {"begun", "running"} => at'[t] = at[t]
      BY <1>1, <1>2 DEF Moved, SandboxCallers
    <3> QED BY <1>1, <3>1, LockStays
  <2>2. at' \in [SandboxCallers -> SandboxPlaces] /\ reply' \in [AgentTurns -> {"open", "error", "silent"} \cup AgentTurns]
    BY <1>2 DEF Moved, Answered, SandboxIInv, CallersFit
  <2>3. container' \in {"missing", "created", "exited", "running"} /\ lastMessage' \in AgentTurns \cup {NoOne}
        /\ excused' \in BOOLEAN
    <3>1. excused' = excused \/ excused' = TRUE
      BY DEF Bootstrap, SandboxIInv, SandboxTypeOK
    <3> QED BY <1>2, <3>1 DEF SandboxIInv, SandboxTypeOK
  <2>4. (prepared' => Up') /\ (agents' # {} => Up')
    <3>1. container' = "running" \/ (prepared' = prepared /\ (container' = container \/ container = "missing"))
      BY <1>2
    <3>2. (prepared => container = "running") /\ (agents # {} => container = "running")
      BY DEF SandboxIInv, SandboxTypeOK, Up
    <3> QED BY <1>1, <3>1, <3>2 DEF Up
  <2> QED BY <1>1, <1>2, <2>1, <2>2, <2>3, <2>4 DEF SandboxIInv, SandboxTypeOK, SandboxPlaces
<1>4. CallersFit'
  BY <1>1, <1>2, SandboxAssumption DEF Moved, Did, Answered, SandboxIInv, CallersFit, SandboxCallers, StartCommands
<1>5. OneAtATime'
  BY <1>1, <1>2, BusyKeeps DEF SandboxIInv, Moved, Busy
<1>6. FreshTurnsAreOpen'
  BY <1>1, <1>2, SandboxAssumption DEF SandboxIInv, FreshTurnsAreOpen, Moved, Did, Answered, SandboxCallers
<1>7. MarksAreNew' /\ AgentsAreMinded'
  BY <1>1, <1>2, SandboxAssumption DEF SandboxIInv, SandboxTypeOK, MarksAreNew, AgentsAreMinded, Moved, SandboxCallers
<1>8. TurnsReadTheirOwn'
  BY <1>1, <1>2, SandboxAssumption DEF SandboxIInv, TurnsReadTheirOwn, Moved, Did, Answered, SandboxCallers
<1>9. OwnAnswers' /\ SilentTurnsWereInterrupted'
  BY <1>1, <1>2, SandboxAssumption DEF SandboxIInv, OwnAnswers, SilentTurnsWereInterrupted, Answered
<1>10. UpForAReason'
  <2>1. CASE c \in AgentTurns
    <3>1. Busy(c)' /\ (\A d \in SandboxCommands : at'[d] = at[d] /\ doing'[d] = doing[d]) /\ excused' = excused
      BY <1>2, <2>1, SandboxAssumption DEF Moved, Did, Busy, SandboxCallers
    <3> QED BY <1>1, <2>1, <3>1, TurnIsAReason
  <2>2. CASE excused'
    BY <2>2 DEF UpForAReason
  <2>3. CASE c \in SandboxCommands /\ ~excused'
    <3>1. /\ c \notin AgentTurns /\ doing' = doing /\ \A d \in SandboxCallers \ {c} : at'[d] = at[d]
          /\ at'[c] = "inspect" /\ excused' = excused
      BY <1>2, <2>3, SandboxAssumption DEF Moved, StartCommands
    <3>2. ForACommand'
      BY <2>3, <3>1 DEF ForACommand
    <3> QED BY <1>1, <2>3, <3>1, <3>2 DEF SandboxIInv, OneAtATime, UpForAReason, Busy, SandboxCallers
  <2> QED BY <2>1, <2>2, <2>3 DEF SandboxCallers
<1> QED BY <1>3, <1>4, <1>5, <1>6, <1>7, <1>8, <1>9, <1>10 DEF SandboxIInv

LEMMA BeginTurnKeeps ==
  ASSUME SandboxIInv, NEW t \in AgentTurns, BeginTurn(t)
  PROVE  SandboxIInv'
<1>1. /\ at[t] = "new" /\ Moved(t, "ensure") /\ Did(t, "run")
      /\ \A u \in AgentTurns : ~Busy(u)
      /\ keepCopy' \in [AgentTurns -> BOOLEAN]
      /\ UNCHANGED <<container, prepared, agents, lastMessage, keepRunning, active, interrupted,
                     reply, sandboxFaults, launched, hit, cutTurns, excused>>
  <2>1. Moved(t, "ensure")
    BY GoToMoves DEF BeginTurn, SandboxCallers, SandboxPlaces
  <2>2. Did(t, "run")
    BY DEF BeginTurn, Did, SandboxIInv, CallersFit, SandboxCallers
  <2> QED BY <2>1, <2>2 DEF BeginTurn, InProgress, Busy, SandboxIInv, SandboxTypeOK
<1>2. SandboxTypeOK'
  <2>1. \A u \in AgentTurns : at[u] \in {"begun", "running"} => at'[u] = at[u]
    BY <1>1 DEF Moved, SandboxCallers
  <2>2. active' # NoOne => ~LockIsFree'
    BY <1>1, <2>1, LockStays
  <2> QED BY <1>1, <2>2 DEF SandboxIInv, SandboxTypeOK, Moved, SandboxPlaces, Up
<1>3. CallersFit'
  BY <1>1, SandboxAssumption DEF SandboxIInv, CallersFit, Moved, Did, SandboxCallers
<1>4. OneAtATime'
  BY <1>1, SandboxAssumption DEF SandboxIInv, OneAtATime, Busy, Moved, SandboxCallers
<1>5. FreshTurnsAreOpen'
  BY <1>1 DEF SandboxIInv, FreshTurnsAreOpen, Moved, Did, SandboxCallers
<1>6. MarksAreNew' /\ AgentsAreMinded'
  BY <1>1 DEF SandboxIInv, SandboxTypeOK, FreshTurnsAreOpen, MarksAreNew, AgentsAreMinded, Moved, SandboxCallers
<1>7. TurnsReadTheirOwn'
  BY <1>1 DEF SandboxIInv, TurnsReadTheirOwn, Moved, Did, SandboxCallers
<1>8. OwnAnswers' /\ SilentTurnsWereInterrupted'
  BY <1>1 DEF SandboxIInv, OwnAnswers, SilentTurnsWereInterrupted
<1>9. UpForAReason'
  <2>1. Busy(t)' /\ \A d \in SandboxCommands : at'[d] = at[d] /\ doing'[d] = doing[d]
    BY <1>1, SandboxAssumption DEF Moved, Did, Busy, SandboxCallers
  <2> QED BY <1>1, <2>1, TurnIsAReason
<1> QED BY <1>2, <1>3, <1>4, <1>5, <1>6, <1>7, <1>8, <1>9 DEF SandboxIInv

LEMMA TakeSandboxKeeps ==
  ASSUME SandboxIInv, NEW t \in AgentTurns, TakeSandbox(t)
  PROVE  SandboxIInv'
<1>1. /\ at[t] = "go" /\ doing[t] = "run" /\ LockIsFree
      /\ UNCHANGED <<agents, keepRunning, keepCopy, interrupted, launched, hit, cutTurns, excused>>
  BY DEF TakeSandbox
<1>2. \/ /\ container' = "running" /\ lastMessage' \in {lastMessage, NoOne} /\ sandboxFaults' = sandboxFaults
         /\ Moved(t, "begun") /\ active' = t /\ prepared' = (prepared /\ Up) /\ doing' = doing /\ reply' = reply
      \/ /\ container' \in {container, "running"} \/ (container = "missing" /\ container' = "created")
         /\ lastMessage' = lastMessage /\ sandboxFaults' \in 0..MaxSandboxFaults
         /\ active' = active /\ prepared' = prepared
         /\ \/ Moved(t, "finish") /\ Answered(t, "silent") /\ doing' = doing
            \/ Moved(t, "ensure") /\ Did(t, "read") /\ Answered(t, "error")
  <2>1. t \in SandboxCallers /\ "begun" \in SandboxPlaces /\ "finish" \in SandboxPlaces
    BY DEF SandboxCallers, SandboxPlaces
  <2>2. CASE /\ EnsureReady /\ GoTo(t, "begun") /\ active' = t
             /\ prepared' = (prepared /\ Up) /\ UNCHANGED <<doing, reply>>
    BY <2>1, <2>2, GoToMoves, EnsureSteps
  <2>3. CASE /\ EnsureFails /\ UNCHANGED <<active, prepared>>
             /\ IF interrupted THEN GoTo(t, "finish") /\ Reply(t, "silent") /\ UNCHANGED doing
                               ELSE GiveUp(t)
    <3>1. CASE GoTo(t, "finish") /\ Reply(t, "silent") /\ UNCHANGED doing
      BY <2>1, <2>3, <3>1, GoToMoves, ReplyAnswers, EnsureSteps
    <3>2. CASE GiveUp(t)
      BY <1>1, <2>1, <2>3, <3>2, GiveUpSteps, EnsureSteps
    <3> QED BY <2>3, <3>1, <3>2
  <2> QED BY <2>2, <2>3 DEF TakeSandbox
<1>3. active = NoOne
  BY <1>1 DEF SandboxIInv, SandboxTypeOK
<1>4. SandboxTypeOK'
  <2>1. active' # NoOne => ~LockIsFree'
    BY <1>2, <1>3 DEF LockIsFree, Moved
  <2>2. at' \in [SandboxCallers -> SandboxPlaces] /\ reply' \in [AgentTurns -> {"open", "error", "silent"} \cup AgentTurns]
    BY <1>2 DEF Moved, Answered, SandboxIInv, CallersFit
  <2>3. container' \in {"missing", "created", "exited", "running"} /\ sandboxFaults' \in 0..MaxSandboxFaults
        /\ prepared' \in BOOLEAN /\ lastMessage' \in AgentTurns \cup {NoOne} /\ active' \in AgentTurns \cup {NoOne}
    BY <1>2, <1>3 DEF SandboxIInv, SandboxTypeOK
  <2>4. (prepared' => Up') /\ (agents' # {} => Up')
    <3>1. container' = "running" \/ (prepared' = prepared /\ (container' = container \/ container = "missing"))
      BY <1>2
    <3>2. (prepared => container = "running") /\ (agents # {} => container = "running")
      BY DEF SandboxIInv, SandboxTypeOK, Up
    <3> QED BY <1>1, <3>1, <3>2 DEF Up
  <2> QED BY <1>1, <2>1, <2>2, <2>3, <2>4 DEF SandboxIInv, SandboxTypeOK, SandboxPlaces
<1>5. CallersFit'
  BY <1>1, <1>2, SandboxAssumption DEF Moved, Did, Answered, SandboxIInv, CallersFit, SandboxCallers
<1>6. OneAtATime'
  BY <1>1, <1>2, BusyKeeps DEF SandboxIInv, Moved, Busy
<1>7. FreshTurnsAreOpen'
  BY <1>1, <1>2 DEF SandboxIInv, FreshTurnsAreOpen, Moved, Did, Answered, SandboxCallers
<1>8. MarksAreNew' /\ AgentsAreMinded'
  BY <1>1, <1>2 DEF SandboxIInv, SandboxTypeOK, MarksAreNew, AgentsAreMinded, Moved, SandboxCallers
<1>9. TurnsReadTheirOwn'
  BY <1>1, <1>2, SandboxAssumption DEF SandboxIInv, FreshTurnsAreOpen, TurnsReadTheirOwn, Moved, Did, Answered, SandboxCallers
<1>10. OwnAnswers' /\ SilentTurnsWereInterrupted'
  BY <1>1, <1>2 DEF SandboxIInv, FreshTurnsAreOpen, OwnAnswers, SilentTurnsWereInterrupted, Answered
<1>11. UpForAReason'
  <2>1. Busy(t)' /\ \A d \in SandboxCommands : at'[d] = at[d] /\ doing'[d] = doing[d]
    BY <1>2, SandboxAssumption DEF Moved, Did, Busy, SandboxCallers
  <2> QED BY <1>1, <2>1, TurnIsAReason
<1> QED BY <1>4, <1>5, <1>6, <1>7, <1>8, <1>9, <1>10, <1>11 DEF SandboxIInv

LEMMA LaunchKeeps ==
  ASSUME SandboxIInv, NEW t \in AgentTurns, Launch(t)
  PROVE  SandboxIInv'
<1>1. /\ at[t] = "begun" /\ Moved(t, "running") /\ interrupted' = FALSE
      /\ agents' = IF Up THEN agents \cup {t} ELSE agents
      /\ launched' = launched \cup {t}
      /\ UNCHANGED <<doing, container, prepared, lastMessage, keepRunning, keepCopy, active, reply,
                     sandboxFaults, hit, cutTurns, excused>>
  BY GoToMoves DEF Launch, SandboxCallers, SandboxPlaces
<1>2. SandboxTypeOK'
  <2>1. \A u \in AgentTurns : at[u] \in {"begun", "running"} => at'[u] \in {"begun", "running"}
    BY <1>1 DEF Moved, SandboxCallers
  <2>2. active' # NoOne => ~LockIsFree'
    BY <1>1, <2>1, LockStays
  <2>3. agents' \subseteq AgentTurns /\ (agents' # {} => Up')
    BY <1>1 DEF SandboxIInv, SandboxTypeOK, Up
  <2> QED BY <1>1, <2>2, <2>3 DEF SandboxIInv, SandboxTypeOK, Moved, SandboxPlaces, Up
<1>3. CallersFit'
  BY <1>1, SandboxAssumption DEF SandboxIInv, CallersFit, Moved, SandboxCallers
<1>4. OneAtATime'
  BY <1>1, BusyKeeps DEF SandboxIInv, Moved, Busy
<1>5. doing[t] = "run" /\ reply[t] = "open"
  BY <1>1 DEF SandboxIInv, CallersFit, FreshTurnsAreOpen
<1>6. FreshTurnsAreOpen'
  BY <1>1 DEF SandboxIInv, FreshTurnsAreOpen, Moved, SandboxCallers
<1>7. MarksAreNew' /\ AgentsAreMinded'
  BY <1>1 DEF SandboxIInv, SandboxTypeOK, MarksAreNew, AgentsAreMinded, Moved, SandboxCallers
<1>8. TurnsReadTheirOwn'
  BY <1>1 DEF SandboxIInv, TurnsReadTheirOwn, Moved, SandboxCallers
<1>9. OwnAnswers' /\ SilentTurnsWereInterrupted'
  BY <1>1, <1>5 DEF SandboxIInv, OwnAnswers, SilentTurnsWereInterrupted
<1>10. UpForAReason'
  <2>1. Busy(t)' /\ \A d \in SandboxCommands : at'[d] = at[d] /\ doing'[d] = doing[d]
    BY <1>1, SandboxAssumption DEF Moved, Busy, SandboxCallers
  <2> QED BY <1>1, <2>1, TurnIsAReason
<1> QED BY <1>2, <1>3, <1>4, <1>6, <1>7, <1>8, <1>9, <1>10 DEF SandboxIInv

LEMMA RunEndsKeeps ==
  ASSUME SandboxIInv, NEW t \in AgentTurns, RunEnds(t)
  PROVE  SandboxIInv'
<1>1. /\ at[t] = "running" /\ active' = NoOne /\ t \in launched /\ doing[t] = "run"
      /\ UNCHANGED <<container, prepared, keepRunning, keepCopy, interrupted, launched, hit, excused>>
  BY DEF RunEnds, SandboxIInv, AgentsAreMinded, CallersFit
<1>2. interrupted => t \in hit
  BY <1>1 DEF SandboxIInv, MarksAreNew
<1>3. \/ /\ agents' = agents \ {t} /\ cutTurns' = cutTurns /\ sandboxFaults' = sandboxFaults
         /\ \/ lastMessage' = t /\ Moved(t, "ensure") /\ Did(t, "read") /\ reply' = reply
            \/ /\ lastMessage' = lastMessage
               /\ \/ interrupted /\ Moved(t, "finish") /\ Answered(t, "silent") /\ doing' = doing
                  \/ Moved(t, "ensure") /\ Did(t, "read") /\ Answered(t, "error")
      \/ /\ agents' = agents /\ cutTurns' = cutTurns \cup {t} /\ sandboxFaults' \in 0..MaxSandboxFaults
         /\ lastMessage' = lastMessage /\ Moved(t, "finish") /\ doing' = doing
         /\ Answered(t, "error") \/ (interrupted /\ Answered(t, "silent"))
  <2>1. /\ GoTo(t, "ensure") => Moved(t, "ensure")
        /\ GoTo(t, "finish") => Moved(t, "finish")
    BY GoToMoves DEF SandboxCallers, SandboxPlaces
  <2>2. /\ Reply(t, "error") => Answered(t, "error")
        /\ Reply(t, "silent") => Answered(t, "silent")
    BY ReplyAnswers
  <2>3. ToRead(t) => Moved(t, "ensure") /\ Did(t, "read")
    BY <2>1 DEF ToRead, Did, SandboxIInv, CallersFit, SandboxCallers
  <2>4. CASE AgentSucceeds(t) /\ UNCHANGED <<cutTurns, sandboxFaults>>
    BY <2>3, <2>4 DEF AgentSucceeds
  <2>5. CASE AgentFails(t) /\ UNCHANGED <<cutTurns, sandboxFaults>>
    BY <2>1, <2>2, <2>3, <2>5 DEF AgentFails
  <2>6. CASE AgentCutOff(t) /\ SandboxFault /\ cutTurns' = cutTurns \cup {t}
    BY <2>1, <2>2, <2>6, FaultsCount DEF AgentCutOff
  <2> QED BY <2>4, <2>5, <2>6 DEF RunEnds
<1>4. SandboxTypeOK'
  <2>1. at' \in [SandboxCallers -> SandboxPlaces] /\ reply' \in [AgentTurns -> {"open", "error", "silent"} \cup AgentTurns]
    BY <1>3 DEF Moved, Answered, SandboxIInv, CallersFit
  <2>2. lastMessage' \in AgentTurns \cup {NoOne} /\ agents' \subseteq agents /\ cutTurns' \subseteq launched
        /\ sandboxFaults' \in 0..MaxSandboxFaults
    BY <1>1, <1>3 DEF SandboxIInv, SandboxTypeOK
  <2> QED BY <1>1, <2>1, <2>2 DEF SandboxIInv, SandboxTypeOK, SandboxPlaces, Up
<1>5. CallersFit'
  BY <1>1, <1>3, SandboxAssumption DEF Moved, Did, Answered, SandboxIInv, CallersFit, SandboxCallers
<1>6. OneAtATime'
  BY <1>1, <1>3, BusyKeeps DEF SandboxIInv, Moved, Busy
<1>7. FreshTurnsAreOpen'
  BY <1>1, <1>3 DEF SandboxIInv, FreshTurnsAreOpen, Moved, Did, Answered, SandboxCallers
<1>8. MarksAreNew' /\ AgentsAreMinded'
  BY <1>1, <1>3 DEF SandboxIInv, SandboxTypeOK, MarksAreNew, AgentsAreMinded, Moved, SandboxCallers
<1>9. TurnsReadTheirOwn'
  <2>1. \A u \in AgentTurns \ {t} : ~Busy(u)
    BY <1>1 DEF SandboxIInv, OneAtATime, Busy
  <2>2. ASSUME NEW u \in AgentTurns \ {t} PROVE at'[u] \notin {"ensure", "bootstrap", "go"}
    BY <1>3, <2>1 DEF Moved, Busy, SandboxCallers
  <2>3. at'[t] \in {"ensure", "bootstrap", "go"} /\ reply'[t] = "open" => lastMessage' = t
    BY <1>3 DEF Moved, Answered
  <2> QED BY <2>2, <2>3 DEF TurnsReadTheirOwn
<1>10. OwnAnswers' /\ SilentTurnsWereInterrupted'
  BY <1>1, <1>2, <1>3 DEF SandboxIInv, OwnAnswers, SilentTurnsWereInterrupted, Answered
<1>11. UpForAReason'
  <2>1. Busy(t)' /\ \A d \in SandboxCommands : at'[d] = at[d] /\ doing'[d] = doing[d]
    BY <1>3, SandboxAssumption DEF Moved, Did, Busy, SandboxCallers
  <2> QED BY <1>1, <2>1, TurnIsAReason
<1> QED BY <1>4, <1>5, <1>6, <1>7, <1>8, <1>9, <1>10, <1>11 DEF SandboxIInv

LEMMA ReadMessageKeeps ==
  ASSUME SandboxIInv, NEW t \in AgentTurns, ReadMessage(t)
  PROVE  SandboxIInv'
<1>1. /\ at[t] = "go" /\ doing[t] = "read" /\ LockIsFree /\ Moved(t, "finish")
      /\ UNCHANGED <<doing, agents, keepRunning, keepCopy, active, interrupted, launched, hit, cutTurns, excused>>
  BY GoToMoves DEF ReadMessage, SandboxCallers, SandboxPlaces
<1>2. /\ \/ container' = "running" /\ prepared' = (prepared /\ Up)
         \/ prepared' = prepared /\ (container' \in {container, "running"} \/ (container = "missing" /\ container' = "created"))
      /\ lastMessage' \in {lastMessage, NoOne} /\ sandboxFaults' \in 0..MaxSandboxFaults
      /\ \/ lastMessage # NoOne /\ Answered(t, lastMessage)
         \/ interrupted /\ Answered(t, "silent")
         \/ Answered(t, "error")
  <2>1. \A r \in {"error", "silent"} \cup AgentTurns : Reply(t, r) => Answered(t, r)
    BY ReplyAnswers
  <2>2. lastMessage \in AgentTurns \cup {NoOne} /\ sandboxFaults \in 0..MaxSandboxFaults
    BY DEF SandboxIInv, SandboxTypeOK
  <2>3. CASE /\ EnsureReady /\ prepared' = (prepared /\ Up)
             /\ Reply(t, IF lastMessage' # NoOne THEN lastMessage' ELSE IF interrupted THEN "silent" ELSE "error")
    BY <2>1, <2>2, <2>3, EnsureSteps
  <2>4. CASE EnsureFails /\ UNCHANGED prepared /\ Reply(t, IF interrupted THEN "silent" ELSE "error")
    BY <2>1, <2>4, EnsureSteps
  <2> QED BY <2>3, <2>4 DEF ReadMessage
<1>3. SandboxTypeOK'
  <2>1. \A u \in AgentTurns : at[u] \in {"begun", "running"} => at'[u] = at[u]
    BY <1>1 DEF LockIsFree
  <2>2. active' # NoOne => ~LockIsFree'
    BY <1>1, <2>1, LockStays
  <2>3. at' \in [SandboxCallers -> SandboxPlaces] /\ reply' \in [AgentTurns -> {"open", "error", "silent"} \cup AgentTurns]
    BY <1>1, <1>2 DEF Moved, Answered
  <2>4. container' \in {"missing", "created", "exited", "running"}
        /\ prepared' \in BOOLEAN /\ lastMessage' \in AgentTurns \cup {NoOne}
    BY <1>2 DEF SandboxIInv, SandboxTypeOK
  <2>5. (prepared' => Up') /\ (agents' # {} => Up')
    <3>1. container' = "running" \/ (prepared' = prepared /\ (container' = container \/ container = "missing"))
      BY <1>2
    <3>2. (prepared => container = "running") /\ (agents # {} => container = "running")
      BY DEF SandboxIInv, SandboxTypeOK, Up
    <3> QED BY <1>1, <3>1, <3>2 DEF Up
  <2> QED BY <1>1, <1>2, <2>2, <2>3, <2>4, <2>5 DEF SandboxIInv, SandboxTypeOK, SandboxPlaces
<1>4. CallersFit'
  BY <1>1, <1>2, SandboxAssumption DEF Moved, Answered, SandboxIInv, CallersFit, SandboxCallers
<1>5. OneAtATime'
  BY <1>1, BusyKeeps DEF SandboxIInv, Moved, Busy
<1>6. FreshTurnsAreOpen'
  BY <1>1, <1>2 DEF SandboxIInv, FreshTurnsAreOpen, Moved, Answered, SandboxCallers
<1>7. MarksAreNew' /\ AgentsAreMinded'
  BY <1>1 DEF SandboxIInv, SandboxTypeOK, MarksAreNew, AgentsAreMinded, Moved, SandboxCallers
<1>8. TurnsReadTheirOwn'
  BY <1>1, <1>2 DEF SandboxIInv, TurnsReadTheirOwn, Moved, Answered, SandboxCallers
<1>9. OwnAnswers'
  <2>1. reply[t] = "open" => lastMessage \in {t, NoOne} \cup cutTurns
    BY <1>1 DEF SandboxIInv, TurnsReadTheirOwn
  <2> QED BY <1>1, <1>2, <2>1 DEF SandboxIInv, OwnAnswers, Answered
<1>10. SilentTurnsWereInterrupted'
  <2>1. interrupted /\ t \in launched => t \in hit
    BY <1>1 DEF SandboxIInv, MarksAreNew
  <2>2. (lastMessage # NoOne => lastMessage # "silent") /\ reply[t] \in {"open", "error", "silent"} \cup AgentTurns
    BY SandboxAssumption DEF SandboxIInv, SandboxTypeOK, CallersFit
  <2> QED BY <1>1, <1>2, <2>1, <2>2 DEF SandboxIInv, SilentTurnsWereInterrupted, Answered
<1>11. UpForAReason'
  <2>1. Busy(t)' /\ \A d \in SandboxCommands : at'[d] = at[d] /\ doing'[d] = doing[d]
    BY <1>1, SandboxAssumption DEF Moved, Busy, SandboxCallers
  <2> QED BY <1>1, <2>1, TurnIsAReason
<1> QED BY <1>3, <1>4, <1>5, <1>6, <1>7, <1>8, <1>9, <1>10, <1>11 DEF SandboxIInv

\* What stopping or removing the container does to it.
LEMMA TakeDownSteps ==
  ASSUME SandboxIInv, StopContainer \/ TakeDown("missing") \/ TakeDown("exited") \/ Unmoved
  PROVE  /\ container' \in {"missing", "created", "exited", "running"}
         /\ prepared' \in BOOLEAN /\ (prepared' => Up') /\ agents' \subseteq agents /\ (agents' # {} => Up')
         /\ lastMessage' \in {lastMessage, NoOne} /\ (Up' => Up)
<1> USE DEF SandboxIInv, SandboxTypeOK, Up
<1>1. CASE Unmoved
  BY <1>1 DEF Unmoved
<1>2. CASE TakeDown("exited")
  BY <1>2 DEF TakeDown
<1>3. CASE TakeDown("missing")
  BY <1>3 DEF TakeDown
<1> QED BY <1>1, <1>2, <1>3 DEF StopContainer

LEMMA FinishTurnKeeps ==
  ASSUME SandboxIInv, NEW t \in AgentTurns, FinishTurn(t)
  PROVE  SandboxIInv'
<1>1. /\ at[t] = "finish" /\ Moved(t, "end")
      /\ UNCHANGED <<doing, keepRunning, keepCopy, active, interrupted, reply, launched, hit, cutTurns>>
  BY GoToMoves DEF FinishTurn, SandboxCallers, SandboxPlaces
<1>2. /\ StopContainer \/ Unmoved
      /\ sandboxFaults' \in 0..MaxSandboxFaults /\ excused' \in BOOLEAN /\ (excused => excused')
      /\ ~excused' => ~Up' \/ (keepRunning /\ \A c \in SandboxCommands : ~Busy(c))
  <2>1. sandboxFaults \in 0..MaxSandboxFaults /\ excused \in BOOLEAN /\ keepRunning \in BOOLEAN
    BY DEF SandboxIInv, SandboxTypeOK
  <2>2. InProgress(SandboxCommands) = {} => \A c \in SandboxCommands : ~Busy(c)
    BY DEF InProgress, Busy
  <2>3. CASE keepCopy[t]
    BY <2>1, <2>2, <2>3 DEF FinishTurn
  <2>4. CASE ~keepCopy[t] /\ StopContainer /\ UNCHANGED <<sandboxFaults, excused>>
    <3>1. ~Up'
      BY <2>4 DEF StopContainer, TakeDown, Unmoved, Up
    <3> QED BY <2>1, <2>4, <3>1
  <2>5. CASE ~keepCopy[t] /\ Unmoved /\ SandboxFault /\ excused' = TRUE
    BY <2>5, FaultsCount
  <2> QED BY <2>3, <2>4, <2>5 DEF FinishTurn
<1>3. SandboxTypeOK'
  <2>1. \A u \in AgentTurns : at[u] \in {"begun", "running"} => at'[u] = at[u]
    BY <1>1 DEF Moved, SandboxCallers
  <2>2. active' # NoOne => ~LockIsFree'
    BY <1>1, <2>1, LockStays
  <2>3. /\ container' \in {"missing", "created", "exited", "running"}
        /\ prepared' \in BOOLEAN /\ (prepared' => Up') /\ agents' \subseteq agents /\ (agents' # {} => Up')
        /\ lastMessage' \in {lastMessage, NoOne}
    BY <1>2, TakeDownSteps
  <2> QED BY <1>1, <1>2, <2>2, <2>3 DEF SandboxIInv, SandboxTypeOK, Moved, SandboxPlaces
<1>4. agents' \subseteq agents /\ lastMessage' \in {lastMessage, NoOne} /\ (Up' => Up)
  BY <1>2, TakeDownSteps
<1>5. CallersFit'
  BY <1>1, SandboxAssumption DEF Moved, SandboxIInv, CallersFit, SandboxCallers
<1>6. OneAtATime'
  BY <1>1, <1>2, BusyKeeps DEF SandboxIInv, Moved, Busy
<1>7. FreshTurnsAreOpen'
  BY <1>1 DEF SandboxIInv, FreshTurnsAreOpen, Moved, SandboxCallers
<1>8. MarksAreNew' /\ AgentsAreMinded'
  BY <1>1, <1>4 DEF SandboxIInv, SandboxTypeOK, MarksAreNew, AgentsAreMinded, Moved, SandboxCallers
<1>9. TurnsReadTheirOwn'
  BY <1>1, <1>4 DEF SandboxIInv, TurnsReadTheirOwn, Moved, SandboxCallers
<1>10. OwnAnswers' /\ SilentTurnsWereInterrupted'
  BY <1>1 DEF SandboxIInv, OwnAnswers, SilentTurnsWereInterrupted
<1>11. UpForAReason'
  <2>1. \A c \in SandboxCommands : at'[c] = at[c] /\ doing'[c] = doing[c]
    BY <1>1, SandboxAssumption DEF Moved, SandboxCallers
  <2> QED BY <1>1, <1>2, <2>1 DEF SandboxIInv, UpForAReason, Busy
<1> QED BY <1>3, <1>5, <1>6, <1>7, <1>8, <1>9, <1>10, <1>11 DEF SandboxIInv

\* An agent that was left alive ends, or the container exits.
LEMMA LeftAgentEndsKeeps ==
  ASSUME SandboxIInv, NEW t \in AgentTurns, LeftAgentEnds(t)
  PROVE  SandboxIInv'
<1>1. /\ t \in agents /\ at[t] # "running" /\ agents' = agents \ {t} /\ lastMessage' \in {t, lastMessage}
      /\ UNCHANGED <<at, doing, container, prepared, keepRunning, keepCopy, active, interrupted, reply,
                     sandboxFaults, launched, hit, cutTurns, excused>>
  BY DEF LeftAgentEnds
<1>2. t \in cutTurns
  BY <1>1 DEF SandboxIInv, AgentsAreMinded
<1>3. SandboxTypeOK' /\ CallersFit' /\ OneAtATime'
  BY <1>1 DEF SandboxIInv, SandboxTypeOK, CallersFit, OneAtATime, Busy, Up, LockIsFree
<1>4. FreshTurnsAreOpen' /\ MarksAreNew' /\ AgentsAreMinded' /\ OwnAnswers' /\ SilentTurnsWereInterrupted'
  BY <1>1 DEF SandboxIInv, FreshTurnsAreOpen, MarksAreNew, AgentsAreMinded, OwnAnswers, SilentTurnsWereInterrupted
<1>5. TurnsReadTheirOwn'
  BY <1>1, <1>2 DEF SandboxIInv, TurnsReadTheirOwn
<1>6. UpForAReason'
  BY <1>1 DEF SandboxIInv, UpForAReason, ForATurn, ForACommand, Busy, Up
<1> QED BY <1>3, <1>4, <1>5, <1>6 DEF SandboxIInv

LEMMA ContainerExitsKeeps ==
  ASSUME SandboxIInv, ContainerExits
  PROVE  SandboxIInv'
<1>1. /\ TakeDown("exited") /\ SandboxFault
      /\ UNCHANGED <<at, doing, keepRunning, keepCopy, active, interrupted, reply, launched, hit,
                     cutTurns, excused>>
  BY DEF ContainerExits
<1>2. /\ container' \in {"missing", "created", "exited", "running"} /\ container' = "exited"
      /\ prepared' \in BOOLEAN /\ (prepared' => Up') /\ agents' \subseteq agents /\ (agents' # {} => Up')
      /\ lastMessage' \in {lastMessage, NoOne}
  BY <1>1, TakeDownSteps DEF TakeDown
<1>3. SandboxTypeOK' /\ CallersFit' /\ OneAtATime'
  <2>1. sandboxFaults' \in 0..MaxSandboxFaults
    BY <1>1, FaultsCount
  <2> QED BY <1>1, <1>2, <2>1 DEF SandboxIInv, SandboxTypeOK, CallersFit, OneAtATime, Busy, LockIsFree
<1>4. FreshTurnsAreOpen' /\ MarksAreNew' /\ AgentsAreMinded' /\ OwnAnswers' /\ SilentTurnsWereInterrupted'
  BY <1>1, <1>2 DEF SandboxIInv, FreshTurnsAreOpen, MarksAreNew, AgentsAreMinded, OwnAnswers, SilentTurnsWereInterrupted
<1>5. TurnsReadTheirOwn'
  BY <1>1, <1>2 DEF SandboxIInv, TurnsReadTheirOwn
<1>6. UpForAReason'
  BY <1>1, <1>2 DEF SandboxIInv, UpForAReason, Up
<1> QED BY <1>3, <1>4, <1>5, <1>6 DEF SandboxIInv

------------------------------------------------------------------------------
\* Commands.

\* A step of a command leaves the answers of turns as they are, but for the marks.
LEMMA CommandKeepsAnswers ==
  ASSUME SandboxIInv, NEW c \in SandboxCommands, NEW place \in SandboxPlaces, Moved(c, place),
         doing' = doing \/ \E kind : Did(c, kind),
         agents' \subseteq agents, lastMessage' \in {lastMessage, NoOne},
         interrupted' = interrupted \/ \A t \in AgentTurns : at[t] \notin {"new", "end"} => t \in hit',
         hit \subseteq hit', reply' = reply, launched' = launched, cutTurns' = cutTurns
  PROVE  /\ FreshTurnsAreOpen' /\ MarksAreNew' /\ AgentsAreMinded' /\ TurnsReadTheirOwn'
         /\ OwnAnswers' /\ SilentTurnsWereInterrupted'
<1>1. \A t \in AgentTurns : at'[t] = at[t] /\ doing'[t] = doing[t]
  BY SandboxAssumption DEF Moved, Did, SandboxCallers
<1>2. \A t \in launched : t \in AgentTurns /\ at[t] # "new"
  BY DEF SandboxIInv, SandboxTypeOK, FreshTurnsAreOpen
<1>3. FreshTurnsAreOpen' /\ AgentsAreMinded'
  BY <1>1 DEF SandboxIInv, SandboxTypeOK, FreshTurnsAreOpen, AgentsAreMinded
<1>4. MarksAreNew'
  BY <1>1, <1>2 DEF SandboxIInv, MarksAreNew
<1>5. TurnsReadTheirOwn' /\ OwnAnswers' /\ SilentTurnsWereInterrupted'
  BY <1>1 DEF SandboxIInv, TurnsReadTheirOwn, OwnAnswers, SilentTurnsWereInterrupted
<1> QED BY <1>3, <1>4, <1>5

LEMMA GiveSandboxCommandKeeps ==
  ASSUME SandboxIInv, NEW c \in SandboxCommands, GiveSandboxCommand(c)
  PROVE  SandboxIInv'
<1>1. PICK kind \in StartCommands \cup StopCommands \cup {"refresh", "purge", "interrupt"} :
        /\ kind \in {"start kept", "stop kept"} => keepRunning
        /\ doing' = [doing EXCEPT ![c] = kind]
        /\ GoTo(c, CASE kind \in StartCommands -> "ensure" [] kind \in StopCommands -> "stop"
                     [] kind = "interrupt" -> "kill" [] OTHER -> "remove")
  BY DEF GiveSandboxCommand
<1>2. /\ at[c] = "new" /\ excused' = (excused \/ InProgress(SandboxCommands) # {})
      /\ UNCHANGED <<container, prepared, agents, lastMessage, keepRunning, keepCopy, active,
                     interrupted, reply, sandboxFaults, launched, hit, cutTurns>>
  BY DEF GiveSandboxCommand
<1>3. PICK place \in {"ensure", "stop", "kill", "remove"} :
        Moved(c, place) /\ (place = "ensure" => kind \in StartCommands)
  <2>1. \E place \in {"ensure", "stop", "kill", "remove"} :
          GoTo(c, place) /\ (place = "ensure" => kind \in StartCommands)
    BY <1>1 DEF StartCommands, StopCommands
  <2> QED BY <2>1, GoToMoves DEF SandboxPlaces, SandboxCallers
<1>4. Did(c, kind)
  BY <1>1 DEF Did, SandboxIInv, CallersFit, SandboxCallers
<1>5. /\ excused' \in BOOLEAN /\ (excused => excused')
      /\ ~excused' => \A d \in SandboxCommands : ~Busy(d)
  BY <1>2 DEF SandboxIInv, SandboxTypeOK, InProgress, Busy
<1>6. \A t \in AgentTurns : at'[t] = at[t] /\ doing'[t] = doing[t]
  BY <1>3, <1>4, SandboxAssumption DEF Moved, Did, SandboxCallers
<1>7. SandboxTypeOK'
  <2>1. active' # NoOne => ~LockIsFree'
    BY <1>2, <1>6, LockStays
  <2> QED BY <1>2, <1>3, <1>5, <2>1 DEF SandboxIInv, SandboxTypeOK, Moved, SandboxPlaces, Up
<1>8. CallersFit'
  <2>1. kind \notin {"run", "read"}
    BY DEF StartCommands, StopCommands
  <2> QED BY <1>2, <1>3, <1>4, <1>6, <2>1 DEF SandboxIInv, CallersFit, Moved, Did, SandboxCallers
<1>9. OneAtATime'
  <2>1. \A d \in SandboxCommands \ {c} : at'[d] = at[d]
    BY <1>3 DEF Moved, SandboxCallers
  <2> QED BY <1>5, <1>6, <2>1 DEF SandboxIInv, OneAtATime, Busy
<1>10. /\ FreshTurnsAreOpen' /\ MarksAreNew' /\ AgentsAreMinded' /\ TurnsReadTheirOwn'
       /\ OwnAnswers' /\ SilentTurnsWereInterrupted'
  BY <1>2, <1>3, <1>4, CommandKeepsAnswers DEF SandboxPlaces
<1>11. UpForAReason'
  <2>1. \A d \in SandboxCommands \ {c} : at'[d] = at[d] /\ doing'[d] = doing[d]
    BY <1>3, <1>4 DEF Moved, Did, SandboxCallers
  <2>2. at'[c] # "set" /\ doing'[c] = kind
    BY <1>3, <1>4 DEF Moved, Did
  <2>3. ~excused' => /\ Up' => keepRunning' \/ ForATurn'
                     /\ \A d \in SandboxCommands : at'[d] = "ensure" /\ doing'[d] = "start kept" => keepRunning'
    BY <1>1, <1>2, <1>5, <1>6, <2>1, <2>2 DEF SandboxIInv, UpForAReason, ForATurn, ForACommand, Busy, Up
  <2>4. ~excused' => \A d \in SandboxCommands : at'[d] # "set"
    BY <1>5, <2>1, <2>2 DEF Busy
  <2> QED BY <2>3, <2>4 DEF UpForAReason
<1> QED BY <1>7, <1>8, <1>9, <1>10, <1>11 DEF SandboxIInv

LEMMA StopOrRemoveKeeps ==
  ASSUME SandboxIInv, NEW c \in SandboxCommands, StopOrRemove(c)
  PROVE  SandboxIInv'
<1>1. /\ at[c] \in {"stop", "remove"}
      /\ UNCHANGED <<doing, keepRunning, keepCopy, active, interrupted, reply, launched, hit, cutTurns, excused>>
  BY DEF StopOrRemove
<1>2. /\ StopContainer \/ TakeDown("missing") \/ Unmoved
      /\ sandboxFaults' \in 0..MaxSandboxFaults
      /\ \/ ~Up' /\ (Moved(c, "set") \/ Moved(c, "end"))
         \/ Moved(c, "end")
  <2>1. /\ \A place \in {"set", "end"} : GoTo(c, place) => Moved(c, place)
        /\ sandboxFaults \in 0..MaxSandboxFaults
    BY GoToMoves DEF SandboxPlaces, SandboxCallers, SandboxIInv, SandboxTypeOK
  <2>2. StopContainer \/ TakeDown("missing") => ~Up'
    BY DEF StopContainer, TakeDown, Unmoved, Up
  <2>3. CASE /\ IF at[c] = "stop" THEN StopContainer ELSE TakeDown("missing")
             /\ GoTo(c, IF doing[c] \in {"stop", "purge"} THEN "set" ELSE "end")
             /\ UNCHANGED <<sandboxFaults, excused>>
    BY <2>1, <2>2, <2>3
  <2>4. CASE Unmoved /\ SandboxFault /\ GoTo(c, "end") /\ UNCHANGED excused
    BY <2>1, <2>4, FaultsCount
  <2> QED BY <2>3, <2>4 DEF StopOrRemove
<1>3. /\ container' \in {"missing", "created", "exited", "running"}
      /\ prepared' \in BOOLEAN /\ (prepared' => Up') /\ agents' \subseteq agents /\ (agents' # {} => Up')
      /\ lastMessage' \in {lastMessage, NoOne} /\ (Up' => Up)
  BY <1>2, TakeDownSteps
<1>4. /\ at' \in [SandboxCallers -> SandboxPlaces] /\ \A d \in SandboxCallers \ {c} : at'[d] = at[d]
      /\ at'[c] = "end" \/ (at'[c] = "set" /\ ~Up')
  BY <1>2 DEF Moved
<1>5. \A t \in AgentTurns : at'[t] = at[t]
  BY <1>4, SandboxAssumption DEF SandboxCallers
<1>6. SandboxTypeOK'
  <2>1. active' # NoOne => ~LockIsFree'
    BY <1>1, <1>5, LockStays
  <2> QED BY <1>1, <1>2, <1>3, <1>4, <2>1 DEF SandboxIInv, SandboxTypeOK, SandboxPlaces
<1>7. CallersFit'
  BY <1>1, <1>4, <1>5 DEF SandboxIInv, CallersFit, SandboxCallers
<1>8. OneAtATime'
  BY <1>1, <1>4, BusyKeeps DEF SandboxIInv, Busy
<1>9. /\ FreshTurnsAreOpen' /\ MarksAreNew' /\ AgentsAreMinded' /\ TurnsReadTheirOwn'
      /\ OwnAnswers' /\ SilentTurnsWereInterrupted'
  BY <1>1, <1>2, <1>3, CommandKeepsAnswers DEF SandboxPlaces
<1>10. UpForAReason'
  <2> SUFFICES ASSUME ~excused PROVE UpForAReason'
    BY <1>1 DEF UpForAReason
  <2>1. \A d \in SandboxCommands \ {c} : ~Busy(d) /\ at'[d] = at[d]
    BY <1>1, <1>4 DEF SandboxIInv, OneAtATime, Busy, SandboxCallers
  <2>2. \A d \in SandboxCommands : at'[d] # "ensure" /\ (at'[d] = "set" => d = c)
    BY <1>4, <2>1 DEF Busy
  <2>3. Up' => keepRunning' \/ ForATurn'
    <3>1. ForACommand => FALSE
      BY <1>1, <2>1 DEF ForACommand, Busy
    <3> QED BY <1>1, <1>3, <1>5, <3>1 DEF SandboxIInv, UpForAReason, ForATurn, Busy
  <2> QED BY <1>4, <2>2, <2>3 DEF UpForAReason
<1> QED BY <1>6, <1>7, <1>8, <1>9, <1>10 DEF SandboxIInv

LEMMA InspectStatusKeeps ==
  ASSUME SandboxIInv, NEW c \in SandboxCommands, InspectStatus(c)
  PROVE  SandboxIInv'
<1>1. /\ at[c] = "inspect" /\ doing[c] = "start"
      /\ UNCHANGED <<doing, container, prepared, agents, lastMessage, keepRunning, keepCopy, active,
                     interrupted, reply, launched, hit, cutTurns>>
      /\ sandboxFaults' \in 0..MaxSandboxFaults
      /\ \/ Moved(c, "set") /\ excused' = excused
         \/ Moved(c, "end") /\ excused' = TRUE
  <2>1. sandboxFaults \in 0..MaxSandboxFaults /\ (at[c] = "inspect" => doing[c] = "start")
    BY DEF SandboxIInv, SandboxTypeOK, CallersFit
  <2> QED BY <2>1, GoToMoves, FaultsCount DEF InspectStatus, SandboxPlaces, SandboxCallers
<1>2. PICK place \in {"set", "end"} : Moved(c, place)
  BY <1>1
<1>3. \A t \in AgentTurns : at'[t] = at[t]
  BY <1>2, SandboxAssumption DEF Moved, SandboxCallers
<1>4. SandboxTypeOK'
  <2>1. active' # NoOne => ~LockIsFree'
    BY <1>1, <1>3, LockStays
  <2> QED BY <1>1, <1>2, <2>1 DEF SandboxIInv, SandboxTypeOK, Moved, SandboxPlaces, Up
<1>5. CallersFit'
  BY <1>1, <1>2, <1>3 DEF SandboxIInv, CallersFit, Moved, SandboxCallers
<1>6. OneAtATime'
  BY <1>1, <1>2, BusyKeeps DEF SandboxIInv, Moved, Busy
<1>7. /\ FreshTurnsAreOpen' /\ MarksAreNew' /\ AgentsAreMinded' /\ TurnsReadTheirOwn'
      /\ OwnAnswers' /\ SilentTurnsWereInterrupted'
  BY <1>1, <1>2, CommandKeepsAnswers DEF SandboxPlaces
<1>8. UpForAReason'
  <2> SUFFICES ASSUME ~excused' PROVE UpForAReason'
    BY DEF UpForAReason
  <2>1. ~excused /\ at'[c] = "set" /\ doing'[c] \in StartCommands
    <3>1. excused' = excused /\ Moved(c, "set")
      BY <1>1
    <3> QED BY <1>1, <3>1 DEF Moved, StartCommands
  <2>2. \A d \in SandboxCommands \ {c} : ~Busy(d) /\ at'[d] = at[d]
    BY <1>1, <1>2, <2>1 DEF SandboxIInv, OneAtATime, Busy, Moved, SandboxCallers
  <2>3. ForACommand'
    BY <2>1 DEF ForACommand
  <2> QED BY <2>1, <2>2, <2>3 DEF UpForAReason, Busy
<1> QED BY <1>4, <1>5, <1>6, <1>7, <1>8 DEF SandboxIInv

LEMMA SetKeepRunningKeeps ==
  ASSUME SandboxIInv, NEW c \in SandboxCommands, SetKeepRunning(c)
  PROVE  SandboxIInv'
<1>1. /\ at[c] = "set" /\ Moved(c, "end")
      /\ UNCHANGED <<doing, container, prepared, agents, lastMessage, keepCopy, active, interrupted,
                     reply, launched, hit, cutTurns>>
      /\ sandboxFaults' \in 0..MaxSandboxFaults /\ excused' \in BOOLEAN /\ (excused => excused')
      /\ \/ keepRunning' = (doing[c] \in StartCommands)
         \/ keepRunning' = keepRunning /\ (doing[c] \in StartCommands => excused')
  <2>1. sandboxFaults \in 0..MaxSandboxFaults /\ excused \in BOOLEAN
    BY DEF SandboxIInv, SandboxTypeOK
  <2> QED BY <2>1, GoToMoves, FaultsCount DEF SetKeepRunning, SandboxPlaces, SandboxCallers
<1>2. \A t \in AgentTurns : at'[t] = at[t]
  BY <1>1, SandboxAssumption DEF Moved, SandboxCallers
<1>3. SandboxTypeOK'
  <2>1. active' # NoOne => ~LockIsFree'
    BY <1>1, <1>2, LockStays
  <2>2. keepRunning' \in BOOLEAN
    <3>1. keepRunning \in BOOLEAN
      BY DEF SandboxIInv, SandboxTypeOK
    <3>2. CASE keepRunning' = (doing[c] \in StartCommands)
      BY <3>2
    <3>3. CASE keepRunning' = keepRunning
      BY <3>1, <3>3
    <3> QED BY <1>1, <3>2, <3>3
  <2> QED BY <1>1, <2>1, <2>2 DEF SandboxIInv, SandboxTypeOK, Moved, SandboxPlaces, Up
<1>4. CallersFit'
  BY <1>1, <1>2 DEF SandboxIInv, CallersFit, Moved, SandboxCallers
<1>5. OneAtATime'
  BY <1>1, BusyKeeps DEF SandboxIInv, Moved, Busy
<1>6. /\ FreshTurnsAreOpen' /\ MarksAreNew' /\ AgentsAreMinded' /\ TurnsReadTheirOwn'
      /\ OwnAnswers' /\ SilentTurnsWereInterrupted'
  BY <1>1, CommandKeepsAnswers DEF SandboxPlaces
<1>7. UpForAReason'
  <2> SUFFICES ASSUME ~excused' PROVE UpForAReason'
    BY DEF UpForAReason
  <2>1. \A d \in SandboxCommands \ {c} : ~Busy(d) /\ at'[d] = at[d]
    BY <1>1 DEF SandboxIInv, OneAtATime, Busy, Moved, SandboxCallers
  <2>2. \A d \in SandboxCommands : at'[d] # "ensure" /\ at'[d] # "set"
    BY <1>1, <2>1 DEF Busy, Moved
  <2>3. Up' => keepRunning' \/ ForATurn'
    BY <1>1, <1>2 DEF SandboxIInv, UpForAReason, ForATurn, Busy, Up
  <2> QED BY <2>2, <2>3 DEF UpForAReason
<1> QED BY <1>3, <1>4, <1>5, <1>6, <1>7 DEF SandboxIInv

LEMMA InterruptKeeps ==
  ASSUME SandboxIInv, NEW c \in SandboxCommands, Interrupt(c)
  PROVE  SandboxIInv'
<1>1. /\ at[c] = "kill" /\ Moved(c, "end") /\ interrupted' = TRUE /\ hit' = hit \cup InProgress(AgentTurns)
      /\ UNCHANGED <<doing, container, prepared, agents, lastMessage, keepRunning, keepCopy, active,
                     reply, sandboxFaults, launched, cutTurns, excused>>
  BY GoToMoves DEF Interrupt, SandboxPlaces, SandboxCallers
<1>2. \A t \in AgentTurns : at'[t] = at[t]
  BY <1>1, SandboxAssumption DEF Moved, SandboxCallers
<1>3. hit' \subseteq AgentTurns /\ \A t \in AgentTurns : at[t] \notin {"new", "end"} => t \in hit'
  BY <1>1 DEF InProgress, SandboxIInv, SandboxTypeOK
<1>4. SandboxTypeOK'
  <2>1. active' # NoOne => ~LockIsFree'
    BY <1>1, <1>2, LockStays
  <2> QED BY <1>1, <1>3, <2>1 DEF SandboxIInv, SandboxTypeOK, Moved, SandboxPlaces, Up
<1>5. CallersFit'
  BY <1>1, <1>2 DEF SandboxIInv, CallersFit, Moved, SandboxCallers
<1>6. OneAtATime'
  BY <1>1, BusyKeeps DEF SandboxIInv, Moved, Busy
<1>7. /\ FreshTurnsAreOpen' /\ MarksAreNew' /\ AgentsAreMinded' /\ TurnsReadTheirOwn'
      /\ OwnAnswers' /\ SilentTurnsWereInterrupted'
  BY <1>1, <1>3, CommandKeepsAnswers DEF SandboxPlaces
<1>8. UpForAReason'
  <2>1. \A d \in SandboxCommands \ {c} : at'[d] = at[d]
    BY <1>1 DEF Moved, SandboxCallers
  <2>2. at[c] = "kill" /\ at'[c] = "end"
    BY <1>1 DEF Moved
  <2> QED BY <1>1, <1>2, <2>1, <2>2 DEF SandboxIInv, UpForAReason, ForATurn, ForACommand, Busy, Up
<1> QED BY <1>4, <1>5, <1>6, <1>7, <1>8 DEF SandboxIInv

------------------------------------------------------------------------------
LEMMA SandboxKeeps ==
  ASSUME SandboxIInv, [SandboxNext]_sandboxVars
  PROVE  SandboxIInv'
<1>1. ASSUME NEW c \in SandboxCallers, Ensure(c) \/ Bootstrap(c) PROVE SandboxIInv'
  BY <1>1, EnsureKeeps, BootstrapKeeps
<1>2. ASSUME NEW t \in AgentTurns,
             BeginTurn(t) \/ TakeSandbox(t) \/ Launch(t) \/ RunEnds(t) \/ ReadMessage(t) \/ FinishTurn(t)
             \/ LeftAgentEnds(t)
      PROVE  SandboxIInv'
  BY <1>2, BeginTurnKeeps, TakeSandboxKeeps, LaunchKeeps, RunEndsKeeps, ReadMessageKeeps, FinishTurnKeeps,
     LeftAgentEndsKeeps
<1>3. ASSUME NEW c \in SandboxCommands,
             GiveSandboxCommand(c) \/ StopOrRemove(c) \/ InspectStatus(c) \/ SetKeepRunning(c)
             \/ Interrupt(c)
      PROVE  SandboxIInv'
  BY <1>3, GiveSandboxCommandKeeps, StopOrRemoveKeeps, InspectStatusKeeps, SetKeepRunningKeeps,
     InterruptKeeps
<1>4. CASE ContainerExits
  BY <1>4, ContainerExitsKeeps
<1>5. CASE UNCHANGED sandboxVars
  <2>1. UNCHANGED <<at, doing, container, prepared, agents, lastMessage, keepRunning, keepCopy,
                    active, interrupted, reply, sandboxFaults, launched, hit, cutTurns, excused>>
    BY <1>5 DEF sandboxVars
  <2>2. SandboxTypeOK' /\ CallersFit' /\ OneAtATime'
    BY <2>1 DEF SandboxIInv, SandboxTypeOK, CallersFit, OneAtATime, Busy, Up, LockIsFree
  <2>3. FreshTurnsAreOpen' /\ MarksAreNew' /\ AgentsAreMinded' /\ OwnAnswers' /\ SilentTurnsWereInterrupted'
    BY <2>1 DEF SandboxIInv, FreshTurnsAreOpen, MarksAreNew, AgentsAreMinded, OwnAnswers, SilentTurnsWereInterrupted
  <2>4. TurnsReadTheirOwn' /\ UpForAReason'
    BY <2>1 DEF SandboxIInv, TurnsReadTheirOwn, UpForAReason, ForATurn, ForACommand, Busy, Up
  <2> QED BY <2>2, <2>3, <2>4 DEF SandboxIInv
<1> QED BY <1>1, <1>2, <1>3, <1>4, <1>5 DEF SandboxNext

\* The invariant of the sandbox holds in every reachable state.
THEOREM SandboxInvariant == SandboxSpec => []SandboxIInv
<1>1. SandboxInit => SandboxIInv
  BY SandboxInitHolds
<1>2. SandboxIInv /\ [SandboxNext]_sandboxVars => SandboxIInv'
  BY SandboxKeeps
<1> QED BY <1>1, <1>2, PTL DEF SandboxSpec

\* Type correctness of the sandbox; the lock is held while an agent runs.
THEOREM SandboxTypeCorrect == SandboxSpec => []SandboxTypeOK
<1>1. SandboxIInv => SandboxTypeOK
  BY DEF SandboxIInv
<1> QED BY <1>1, SandboxInvariant, PTL

\* A turn answers with its own message, whatever replaces the container and whatever
\* earlier turns left in it - but for agents left alive by a turn that was cut off.
THEOREM AnswersAreOwn == SandboxSpec => []OwnAnswers
<1>1. SandboxIInv => OwnAnswers
  BY DEF SandboxIInv
<1> QED BY <1>1, SandboxInvariant, PTL

\* A turn whose agent was started is silent only if an interrupt met that turn.
THEOREM SilenceIsForAnInterrupt == SandboxSpec => []SilentTurnsWereInterrupted
<1>1. SandboxIInv => SilentTurnsWereInterrupted
  BY DEF SandboxIInv
<1> QED BY <1>1, SandboxInvariant, PTL

\* No container stays up without a reason when turns and commands are over.
THEOREM IdleSandboxesAreDown == SandboxSpec => []SandboxesStop
<1>1. SandboxIInv => SandboxesStop
  <2> SUFFICES ASSUME SandboxIInv, InProgress(SandboxCallers) = {}, Up, ~excused PROVE keepRunning
    BY DEF SandboxesStop
  <2>1. \A c \in SandboxCallers : ~Busy(c)
    BY DEF InProgress, Busy
  <2> QED BY <2>1 DEF SandboxIInv, UpForAReason, ForATurn, ForACommand, Busy, SandboxCallers
<1> QED BY <1>1, SandboxInvariant, PTL
===============================================================================
