--------------------------- MODULE ThreadMapping ---------------------------
(***************************************************************************)
(* Which conversation a message belongs to: internal/threadmapping finds   *)
(* or creates the thread of a provider topic, and a command can bind a     *)
(* topic to a thread (internal/messaging).  Both look into the tables in   *)
(* one step and save in a later one, without a transaction.                *)
(*                                                                         *)
(* One chat.  The table of mappings has two unique indexes: on (thread,    *)
(* component), which is the shape of "mapping", and on (component, topic), *)
(* by which a save can fail.  Mappings of sources are never deleted while  *)
(* their component exists.  A call is the inbound event of one goroutine,  *)
(* which has passed admission.  Left out: errors of the storage itself.    *)
(***************************************************************************)
EXTENDS Naturals, FiniteSets

CONSTANTS
  Topics,         \* provider topics
  ChannelTopics,  \*   those that are the external channel id of their binding
  VisibleTopics,  \*   those named "0" or "default"
  Component,      \* the source component of each topic
  Calls,          \* goroutines, each with one inbound event
  Binders,        \* bind commands
  NoTopic

ASSUME MappingAssumption ==
  /\ IsFiniteSet(Calls) /\ Calls \cap Binders = {}
  /\ ChannelTopics \cup VisibleTopics \subseteq Topics /\ NoTopic \notin Topics

Sources == {Component[t] : t \in Topics}
Writers == Calls \cup Binders
Threads == 1..Cardinality(Calls)   \* a call creates at most one
NoThread == 0

VARIABLES
  threads,    \* how many threads exist: 1..threads
  mapping,    \* per thread and source, the topic mapped to it
  pc, topic, thread,   \* where a writer is, its topic and its thread
  known,      \* writers that have read the row they save
  contested   \* history: topics with a writer that set out to map a thread to one
              \*   while it was mapped, or about to be, to another of the component

vars == <<threads, mapping, pc, topic, thread, known, contested>>

Init ==
  /\ threads = 0
  /\ mapping = [th \in Threads |-> [s \in Sources |-> NoTopic]]
  /\ pc = [w \in Writers |-> "idle"]
  /\ topic = [w \in Writers |-> NoTopic]
  /\ thread = [w \in Writers |-> NoThread]
  /\ known = {} /\ contested = {}

Go(w, where) == pc' = [pc EXCEPT ![w] = where]

\* FindByChatComponentAndThreadID: the threads a topic is mapped to.
Mapped(t) == {th \in Threads : mapping[th][Component[t]] = t}

\* reusableVisibleThread: the threads of visible topics of other components.
Reusable(t) ==
  IF t \in ChannelTopics
    THEN UNION {Mapped(v) : v \in {u \in VisibleTopics : Component[u] # Component[t]}}
    ELSE {}

\* Topics that component s of thread th has or is about to have.
Claims(th, s) ==
  {topic[w] : w \in {v \in Writers : pc[v] \in {"chosen", "saving"}
                                     /\ thread[v] = th /\ Component[topic[v]] = s}}
  \cup ({mapping[th][s]} \ {NoTopic})

SetOut(w, th, t) ==
  /\ Go(w, "chosen")
  /\ LET claims == Claims(th, Component[t]) \cup {t} IN
     contested' = IF claims = {t} THEN contested ELSE contested \cup claims

\* EnsureThread looks the topic up.
EnsureThread(c, t) ==
  /\ pc[c] = "idle"
  /\ topic' = [topic EXCEPT ![c] = t]
  /\ IF Mapped(t) = {}
       THEN Go(c, "missed") /\ UNCHANGED thread
       ELSE Go(c, "found") /\ \E th \in Mapped(t) : thread' = [thread EXCEPT ![c] = th]
  /\ UNCHANGED <<threads, mapping, known, contested>>

Choose(c, th) ==
  /\ pc[c] = "missed"
  /\ thread' = [thread EXCEPT ![c] = th]
  /\ SetOut(c, th, topic[c])
  /\ UNCHANGED <<mapping, topic, known>>

\* Without a mapping it takes a thread to be reused, or saves a new one.
ChooseThread(c) ==
  \/ \E th \in Reusable(topic[c]) : Choose(c, th) /\ UNCHANGED threads
  \/ Reusable(topic[c]) = {} /\ Choose(c, threads + 1) /\ threads' = threads + 1

\* BindThreadComponent refuses a topic that is mapped, then a component that is.
BeginBind(b, th, t) ==
  /\ pc[b] = "idle" /\ th <= threads /\ Mapped(t) = {}
  /\ topic' = [topic EXCEPT ![b] = t] /\ thread' = [thread EXCEPT ![b] = th]
  /\ Go(b, "checking")
  /\ UNCHANGED <<threads, mapping, known, contested>>

CheckComponent(b) ==
  /\ pc[b] = "checking"
  /\ IF mapping[thread[b]][Component[topic[b]]] = NoTopic
       THEN SetOut(b, thread[b], topic[b])
       ELSE Go(b, "refused") /\ UNCHANGED contested
  /\ UNCHANGED <<threads, mapping, topic, thread, known>>

\* Save looks for the thread's row, whose id it then writes.
FindRow(w) ==
  /\ pc[w] = "chosen" /\ Go(w, "saving")
  /\ known' = IF mapping[thread[w]][Component[topic[w]]] = NoTopic THEN known ELSE known \cup {w}
  /\ UNCHANGED <<threads, mapping, topic, thread, contested>>

\* The unique indexes: the topic has no other thread, and no row was inserted
\* since the writer looked for one.
Unique(w) ==
  /\ Mapped(topic[w]) \subseteq {thread[w]}
  /\ w \in known \/ mapping[thread[w]][Component[topic[w]]] = NoTopic

\* An error ends a call; its component logs it.
SaveIf(w, unique) ==
  /\ pc[w] = "saving"
  /\ IF unique
       THEN Go(w, "found") /\ mapping' = [mapping EXCEPT ![thread[w]][Component[topic[w]]] = topic[w]]
       ELSE Go(w, "refused") /\ UNCHANGED mapping
  /\ UNCHANGED <<threads, topic, thread, known, contested>>

\* Faulty variants: without the index on topics; with an index on threads alone.
SaveUnindexed(w) == SaveIf(w, TRUE)
SavePerThread(w) == SaveIf(w, Unique(w) /\ \A s \in Sources : mapping[thread[w]][s] = NoTopic)

Save(w) == SaveIf(w, Unique(w))

Step(w) == ChooseThread(w) \/ CheckComponent(w) \/ FindRow(w) \/ Save(w)

Next ==
  \/ \E w \in Writers : Step(w)
  \/ \E c \in Calls, t \in Topics : EnsureThread(c, t)
  \/ \E b \in Binders, th \in Threads, t \in Topics : BeginBind(b, th, t)

Spec == Init /\ [][Next]_vars
------------------------------------------------------------------------------
TypeOK ==
  /\ threads \in {NoThread} \cup Threads
  /\ mapping \in [Threads -> [Sources -> Topics \cup {NoTopic}]]
  /\ pc \in [Writers -> {"idle", "missed", "checking", "chosen", "saving", "found", "refused"}]
  /\ topic \in [Writers -> Topics \cup {NoTopic}]
  /\ thread \in [Writers -> NoThread..threads]
  /\ known \in SUBSET Writers
  /\ contested \in SUBSET Topics

\* Messages of one topic are in one conversation, however first messages, bind
\* commands and fallbacks to a visible thread race: two calls are given one
\* thread for one topic, unless writers contended for its mapping.
TopicsAreOneConversation ==
  \A c, d \in Calls :
    pc[c] = "found" /\ pc[d] = "found" /\ topic[c] = topic[d] /\ topic[c] \notin contested
      => thread[c] = thread[d]

\* However they race, a call that ends has a thread that is mapped to its topic,
\* or its message is lost and the next one of its topic will find a thread.
TopicsAreReached ==
  \A c \in Calls : pc[c] \in {"found", "refused"} /\ topic[c] \notin contested =>
    /\ Mapped(topic[c]) # {}
    /\ pc[c] = "found" => Mapped(topic[c]) = {thread[c]}

==============================================================================
