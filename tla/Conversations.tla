--------------------------- MODULE Conversations ---------------------------
(***************************************************************************)
(* Turns of a conversation: the broker stores a message inside the turn    *)
(* gate, the agent resumes the provider session mapped to the thread and   *)
(* maps it again at its end, and the answer is stored and relayed.         *)
(* Operators purge threads at any time and outside the gate.               *)
(*                                                                         *)
(* Threads of one chat with one agent and one relay.  The gate is the      *)
(* abstract TurnAdmission that ThreadTurnGate implements.                  *)
(* A session is named by the call it began in.  Left out: attachments and  *)
(* voice, what commands store and relay outside the gate, errors of the    *)
(* storage, and limits of time, which end an agent's run as any failure.   *)
(***************************************************************************)
EXTENDS Naturals, Sequences

CONSTANTS
  Threads,
  Calls,          \* goroutines, each with one message resolved to a thread
  MaxPurges,      \* bound on purges
  MaxFailures,    \* bound on failed relays
  NoThread, NoSession

ASSUME ConversationAssumption ==
  /\ NoThread \notin Threads /\ NoSession \notin Calls
  /\ MaxPurges \in Nat /\ MaxFailures \in Nat

VARIABLES
  session,    \* per thread, the session mapped to it
  messages,   \* per thread, the stored messages
  pc,         \* where a call is
  resumed,    \* the session a call's turn works in
  sent,       \* whether the agent has sent its answer itself: "no", "relayed", "failed"
  stage, scope, open,   \* turn admission; "scope" is the thread of a call in the gate
  purges, failures,
  replies,    \* history: per call, relayed answers and errors
  disturbed,  \* history: calls whose turn met a purge or a failed relay
  forgotten,  \* history: sessions that were mapped to a thread when it was purged
  overrun     \* history: sessions that ran in a thread when it was purged

gateVars == <<stage, scope, open>>
historyVars == <<replies, disturbed, forgotten, overrun>>
vars == <<session, messages, pc, resumed, sent, stage, scope, open, purges, failures,
          replies, disturbed, forgotten, overrun>>

Gate == INSTANCE TurnAdmission WITH Callers <- Calls
Go(c, where) == pc' = [pc EXCEPT ![c] = where]
thread(c) == scope[c]

Init ==
  /\ session = [th \in Threads |-> NoSession]
  /\ messages = [th \in Threads |-> <<>>]
  /\ pc = [c \in Calls |-> "idle"]
  /\ resumed = [c \in Calls |-> NoSession]
  /\ sent = [c \in Calls |-> "no"]
  /\ Gate!Init
  /\ purges = 0 /\ failures = 0
  /\ replies = [c \in Calls |-> [answers |-> 0, errors |-> 0]]
  /\ disturbed = {} /\ forgotten = {} /\ overrun = {}
------------------------------------------------------------------------------
Store(c, kind) == messages' = [messages EXCEPT ![thread(c)] = Append(@, [call |-> c, kind |-> kind])]

\* Relaying to the chat's bindings may fail, which the bound limits.
Relays(c, what) == replies' = [replies EXCEPT ![c][what] = @ + 1] /\ UNCHANGED <<failures, disturbed>>
RelayFails(c) ==
  /\ failures < MaxFailures /\ failures' = failures + 1
  /\ disturbed' = disturbed \cup {c}
  /\ UNCHANGED replies

HandleResolvedInbound(c, th) ==
  /\ pc[c] = "idle" /\ Go(c, "queued")
  /\ Gate!Queue(c, th)
  /\ UNCHANGED <<session, messages, resumed, sent, purges, failures, historyVars>>

Begin(c) ==
  /\ pc[c] = "queued" /\ Go(c, "stored")
  /\ Store(c, "in")
  /\ UNCHANGED <<session, resumed, sent, purges, failures, historyVars>>

\* A faulty variant: the message is handled although the gate is taken.
StartTurnUngated(c) == Begin(c) /\ stage' = [stage EXCEPT ![c] = "running"] /\ UNCHANGED <<scope, open>>

\* handleResolvedInboundTurn stores the message once the gate is passed.
StartTurn(c) == Begin(c) /\ Gate!Start(c)

\* The chat's runtime cannot be had, or HandleTurn reads the session to resume;
\* without one the provider begins one.
BeginAgent(c) ==
  /\ pc[c] = "stored"
  /\ \/ Go(c, "failed") /\ UNCHANGED resumed
     \/ /\ Go(c, "running")
        /\ resumed' = [resumed EXCEPT ![c] = IF session[thread(c)] = NoSession THEN c ELSE session[thread(c)]]
  /\ UNCHANGED <<session, messages, sent, gateVars, purges, failures, historyVars>>

\* The agent sends its answer while it runs: deliverPayload stores it, then
\* relays it, and only then is it remembered as the last text.
Send(c) ==
  /\ pc[c] = "running" /\ sent[c] = "no"
  /\ Store(c, "text")
  /\ \/ Relays(c, "answers") /\ sent' = [sent EXCEPT ![c] = "relayed"]
     \/ RelayFails(c) /\ sent' = [sent EXCEPT ![c] = "failed"]
  /\ UNCHANGED <<session, pc, resumed, gateVars, purges, forgotten, overrun>>

\* The agent's run ends with an answer, in an error, or interrupted.  With an
\* answer the session is mapped to the thread; otherwise it may be.
EndAgent(c) ==
  /\ pc[c] = "running"
  /\ \/ Go(c, "answered") /\ session' = [session EXCEPT ![thread(c)] = resumed[c]]
     \/ \E where \in {"failed", "interrupted"} :
          Go(c, where) /\ session' \in {session, [session EXCEPT ![thread(c)] = resumed[c]]}
  /\ UNCHANGED <<messages, resumed, sent, gateVars, purges, failures, historyVars>>

\* Finalize: the answer that was sent becomes the final one, if it is still stored.
Finalize(c) ==
  LET texts == {i \in DOMAIN messages[thread(c)] : messages[thread(c)][i] = [call |-> c, kind |-> "text"]} IN
  /\ \/ texts = {} /\ Go(c, "failed") /\ UNCHANGED messages
     \/ Go(c, "ending") /\ \E i \in texts : messages' = [messages EXCEPT ![thread(c)][i].kind = "final"]
  /\ UNCHANGED <<failures, replies, disturbed>>

StoreAndRelay(c) ==
  /\ Store(c, "final")
  /\ \/ Relays(c, "answers") /\ Go(c, "ending")
     \/ RelayFails(c) /\ Go(c, "failed")

Answer(c, alreadyRelayed) ==
  /\ pc[c] = "answered"
  /\ IF alreadyRelayed THEN Finalize(c) ELSE StoreAndRelay(c)
  /\ UNCHANGED <<session, resumed, sent, gateVars, purges, forgotten, overrun>>

\* A faulty variant: the answer is relayed although the agent has sent it.
RelayFinalAgain(c) == Answer(c, FALSE)

RelayFinal(c) == Answer(c, sent[c] = "relayed")

\* failConversation: the error is stored and relayed; a failing relay is logged.
Report(c, where) ==
  /\ pc[c] = "failed" /\ Go(c, where)
  /\ Store(c, "error")
  /\ Relays(c, "errors") \/ RelayFails(c)
  /\ UNCHANGED <<session, resumed, sent, gateVars, purges, forgotten, overrun>>

FailConversation(c) == Report(c, "ending")

EndTurn(c) ==
  /\ \/ pc[c] = "ending" /\ Go(c, "done")
     \/ pc[c] = "interrupted" /\ Go(c, "silent")
  /\ Gate!Depart(c)
  /\ UNCHANGED <<session, messages, resumed, sent, purges, failures, historyVars>>
BeginShutdown(force) ==
  /\ open /\ Gate!Close(force)
  /\ UNCHANGED <<session, messages, pc, resumed, sent, purges, failures, historyVars>>
------------------------------------------------------------------------------
InTurn(th) == {c \in Calls : scope[c] = th /\ stage[c] = "running"}

Purge(th, left, kept) ==
  /\ purges < MaxPurges /\ purges' = purges + 1
  /\ session' = [session EXCEPT ![th] = kept]
  /\ messages' = [messages EXCEPT ![th] = left]
  /\ disturbed' = disturbed \cup InTurn(th)
  /\ forgotten' = forgotten \cup ({session[th]} \ {NoSession})
  /\ overrun' = overrun \cup {resumed[c] : c \in {d \in InTurn(th) : pc[d] = "running"}}
  /\ UNCHANGED <<pc, resumed, sent, gateVars, failures, replies>>

\* A faulty variant: the messages go and the agent's mapping stays.
PurgeMessagesOnly(th) == Purge(th, <<>>, session[th])

\* "thread purge", in one transaction.
PurgeThread(th) == Purge(th, <<>>, NoSession)

\* An agent's own purge; that it also stops the container may end a run.
AgentPurge(th) == Purge(th, messages[th], NoSession)

Next ==
  \/ \E c \in Calls :
       \/ StartTurn(c) \/ BeginAgent(c) \/ Send(c) \/ EndAgent(c)
       \/ RelayFinal(c) \/ FailConversation(c) \/ EndTurn(c)
       \/ \E th \in Threads : HandleResolvedInbound(c, th)
  \/ \E th \in Threads : PurgeThread(th) \/ AgentPurge(th)
  \/ \E force \in BOOLEAN : BeginShutdown(force)

Spec == Init /\ [][Next]_vars
------------------------------------------------------------------------------
TypeOK ==
  /\ session \in [Threads -> Calls \cup {NoSession}]
  /\ messages \in [Threads -> Seq([call : Calls, kind : {"in", "text", "final", "error"}])]
  /\ pc \in [Calls -> {"idle", "queued", "stored", "running", "answered", "failed",
                       "interrupted", "ending", "done", "silent"}]
  /\ resumed \in [Calls -> Calls \cup {NoSession}]
  /\ sent \in [Calls -> {"no", "relayed", "failed"}]
  /\ stage \in [Calls -> {"out", "queued", "running"}]
  /\ scope \in [Calls -> Threads \cup {NoThread}]
  /\ open \in BOOLEAN
  /\ purges \in 0..MaxPurges /\ failures \in 0..MaxFailures
  /\ replies \in [Calls -> [answers : 0..2, errors : 0..1]]
  /\ disturbed \subseteq Calls /\ forgotten \subseteq Calls /\ overrun \subseteq Calls

\* What a turn stores is contiguous: no other turn's message or answer comes
\* in between, also when a purge takes away what was stored before.
TurnsAreContiguous ==
  \A th \in Threads : \A i, j, k \in DOMAIN messages[th] :
    i < j /\ j < k /\ messages[th][i].call = messages[th][k].call
      => messages[th][j].call = messages[th][i].call

\* A turn that meets no purge and no failed relay tells its user one thing: an
\* answer, or an error; an answer that the agent sent before its run failed may
\* stand beside the error, and only an interrupted run may say nothing.
OneReplyEach ==
  \A c \in Calls : pc[c] \in {"done", "silent"} /\ c \notin disturbed =>
    LET r == replies[c] IN
    /\ r.answers <= 1 /\ r.errors <= 1
    /\ r.answers + r.errors = 0 => pc[c] = "silent"
    /\ r.answers + r.errors = 2 => sent[c] = "relayed"

\* A session that was purged while it did not run is not resumed.
QuietPurgeIsKept ==
  [][\A c \in Calls : pc[c] = "stored" /\ pc'[c] = "running" /\ resumed'[c] # c
       => resumed'[c] \notin forgotten \ overrun]_vars

==============================================================================
