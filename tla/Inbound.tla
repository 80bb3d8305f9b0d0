------------------------------ MODULE Inbound ------------------------------
(***************************************************************************)
(* What comes before a turn: admission of inbound messages by channel and  *)
(* filter (internal/app, internal/inbound, component/filter), the records  *)
(* of unknown channels and of dropped messages, the replay of a dropped    *)
(* message (internal/broker), and the operator's commands about channels.  *)
(*                                                                         *)
(* Messages arrive one after the other but are handled concurrently, each  *)
(* in a goroutine of its source; a replay is handled in the goroutine of   *)
(* the command.  A channel is unknown (no source binding), enabled, or     *)
(* bound but not open: the chat disabled or missing, or without a relay.   *)
(*                                                                         *)
(* A turn is an interval here (see Conversations); notices and the answer  *)
(* to /init are messages that change none of this state.                   *)
(***************************************************************************)
EXTENDS Integers

CONSTANTS
  Channels,
  InboundCalls,     \* slots for calls of handleInbound under way
  NoRecord,
  MaxMessages,      \* bound on messages
  MaxReplays,       \* bound on replay commands
  MaxChannelCommands, \* bound on commands about channels
  MaxTroubles       \* bound on errors of the database and restarts of the process

EventRecord == [message : Nat, channel : Channels]
DropRecord == [id : Nat, count : Nat]
DroppedRecord == [id : Nat, event : EventRecord, status : {"open", "replayed"}]

ASSUME InboundAssumption ==
  /\ NoRecord \notin DropRecord \cup DroppedRecord
  /\ MaxMessages \in Nat /\ MaxReplays \in Nat /\ MaxChannelCommands \in Nat
  /\ MaxTroubles \in Nat

VARIABLES
  channel,     \* [Channels -> "unknown", "enabled", "disabled"]
  drops,       \* inbound_drops: [Channels -> [id, count] or NoRecord]
  dropped,     \* dropped_events: a set of rows
  call,        \* per slot: the call of handleInbound under way
  messages, replays, channelCommands, troubles, rowIds,
  overdue,     \* dropped events past their retention, as <<id, message>>
  handed,      \* history: messages whose turn began
  excused,     \* history: messages that met an error, a stop, or a first record
  recorded,    \* history: per channel, messages recorded since chat bind
  contended    \* history: channels two of whose recordings overlapped, or one and a bind

inboundCounters == <<messages, replays, channelCommands, troubles, rowIds>>
inboundHistory == <<handed, excused, recorded, contended>>
inboundVars == <<channel, drops, dropped, call, messages, replays, channelCommands,
                 troubles, rowIds, overdue, handed, excused, recorded, contended>>

NoEvent == [message |-> 0, channel |-> NoRecord]
\* row is the dropped event a replay is for, copy the record of an unknown channel.
NoCall == [stage |-> "idle", event |-> NoEvent, row |-> NoRecord, copy |-> NoRecord]

InboundInit ==
  /\ channel \in [Channels -> {"unknown", "enabled"}]
  /\ drops = [ch \in Channels |-> NoRecord]
  /\ dropped = {}
  /\ call = [c \in InboundCalls |-> NoCall]
  /\ messages = 0 /\ replays = 0 /\ channelCommands = 0
  /\ troubles = 0 /\ rowIds = 0
  /\ overdue = {} /\ handed = {} /\ excused = {}
  /\ recorded = [ch \in Channels |-> 0]
  /\ contended = {}
------------------------------------------------------------------------------
\* Calls.

In(c, stage) == call[c].stage = stage
Event(c) == call[c].event
IsReplay(c) == call[c].row # NoRecord
Recording(ch) ==
  {c \in InboundCalls : Event(c).channel = ch /\ call[c].stage \in {"adopt", "record"}}

Enter(c, event, row) ==
  /\ In(c, "idle")
  /\ call' = [call EXCEPT ![c] =
       [stage |-> "admit", event |-> event, row |-> row, copy |-> NoRecord]]
  /\ UNCHANGED <<channel, drops, dropped, channelCommands, troubles,
                 rowIds, overdue, inboundHistory>>

Goto(c, stage) == call' = [call EXCEPT ![c].stage = stage]
Leave(c) == call' = [call EXCEPT ![c] = NoCall]

HandleInbound(c, ch) ==
  /\ messages < MaxMessages
  /\ messages' = messages + 1
  /\ Enter(c, [message |-> messages + 1, channel |-> ch], NoRecord)
  /\ UNCHANGED replays

\* AllowDropped: the row is read once, and its status is not looked at.
AllowDropped(c, row) ==
  /\ replays < MaxReplays
  /\ replays' = replays + 1
  /\ Enter(c, row.event, row)
  /\ UNCHANGED messages

\* The message of a call that ends here may be lost; that of a replay has its row.
Excuse(calls) == excused' = excused \cup {Event(c).message : c \in {d \in calls : ~IsReplay(d)}}

Trouble == troubles < MaxTroubles /\ troubles' = troubles + 1

\* Any statement of the call may fail: it ends with an error, which is logged.
CallFails(c) ==
  /\ ~In(c, "idle")
  /\ Trouble
  /\ Leave(c)
  /\ Excuse({c})
  /\ UNCHANGED <<channel, drops, dropped, messages, replays, channelCommands, rowIds,
                 overdue, handed, recorded, contended>>

InboundCrash ==
  /\ Trouble
  /\ Excuse({c \in InboundCalls : ~In(c, "idle")})
  /\ call' = [c \in InboundCalls |-> NoCall]
  /\ UNCHANGED <<channel, drops, dropped, messages, replays, channelCommands, rowIds,
                 overdue, handed, recorded, contended>>
------------------------------------------------------------------------------
\* Admission.

AdmitInbound(c) ==
  /\ In(c, "admit")
  /\ Goto(c, CASE channel[Event(c).channel] = "unknown" -> "look"
               [] channel[Event(c).channel] = "disabled" -> "reject"
               [] OTHER -> IF IsReplay(c) THEN "route" ELSE "filter")
  /\ UNCHANGED <<channel, drops, dropped, inboundCounters, overdue, inboundHistory>>

\* RecordInboundDrop reads the record of the channel, or begins one ...
LookForDrop(c) ==
  LET ch == Event(c).channel IN
  /\ In(c, "look")
  /\ call' = [call EXCEPT ![c].copy = drops[ch],
                          ![c].stage = IF drops[ch] = NoRecord THEN "adopt" ELSE "record"]
  /\ contended' = IF Recording(ch) = {} THEN contended ELSE contended \cup {ch}
  /\ UNCHANGED <<channel, drops, dropped, inboundCounters, overdue, handed, excused, recorded>>

\* ... Save of a record without an id looks once more, and takes that id ...
AdoptDrop(c) ==
  LET existing == drops[Event(c).channel] IN
  /\ In(c, "adopt")
  /\ call' = [call EXCEPT ![c].stage = "record",
       ![c].copy = [id |-> IF existing = NoRecord THEN rowIds + 1 ELSE existing.id, count |-> 0]]
  /\ rowIds' = rowIds + 1
  /\ UNCHANGED <<channel, drops, dropped, messages, replays, channelCommands, troubles,
                 overdue, inboundHistory>>

CountOne(copy) == [copy EXCEPT !.count = @ + 1]

\* ... and writes it by its id.  The unique channel refuses a second record,
\* and then the message is an error: neither admitted nor kept.
SaveDrop(c) ==
  LET ch == Event(c).channel  copy == call[c].copy IN
  /\ In(c, "record")
  /\ IF drops[ch] # NoRecord => drops[ch].id = copy.id
       THEN /\ drops' = [drops EXCEPT ![ch] = CountOne(copy)]
            /\ recorded' = [recorded EXCEPT ![ch] = @ + 1]
            /\ Goto(c, "reject")
            /\ UNCHANGED excused
       ELSE /\ Leave(c)
            /\ Excuse({c})
            /\ UNCHANGED <<drops, recorded>>
  /\ UNCHANGED <<channel, dropped, inboundCounters, overdue, handed, contended>>

\* FilterChain.Run: the first filter that drops or quarantines, by its list of
\* senders or by the answer of a model, ends the chain.
RunFilters(c) ==
  /\ In(c, "filter")
  /\ Goto(c, "reject") \/ Goto(c, "route")
  /\ UNCHANGED <<channel, drops, dropped, inboundCounters, overdue, inboundHistory>>

Overdue(row) == <<row.id, row.event.message>> \in overdue
Unexpired == {row \in dropped : ~Overdue(row)}

\* Faulty variant: a replay that is dropped again keeps its row.
DropOnce(c) == IF IsReplay(c) THEN Unexpired \cup {call[c].row}
               ELSE Unexpired \cup {[id |-> rowIds + 1, event |-> Event(c), status |-> "open"]}

\* The rows after DropEvent: expired ones go, the rejected message gets a new one.
Drop(c) ==
  Unexpired \cup {[id |-> rowIds + 1, event |-> Event(c), status |-> "open"]}

\* handleInboundRejection
DropEvent(c) ==
  /\ In(c, "reject")
  /\ dropped' = Drop(c)
  /\ rowIds' = rowIds + 1
  /\ Goto(c, "finish")
  /\ UNCHANGED <<channel, drops, messages, replays, channelCommands, troubles,
                 overdue, inboundHistory>>

\* A row that cannot be saved is only logged, and the call goes on.
DropFails(c) ==
  /\ In(c, "reject")
  /\ Trouble
  /\ dropped' = Unexpired
  /\ excused' = excused \cup {Event(c).message}
  /\ Goto(c, "finish")
  /\ UNCHANGED <<channel, drops, messages, replays, channelCommands, rowIds,
                 overdue, handed, recorded, contended>>
------------------------------------------------------------------------------
\* The turn, and the end of the call.

BeginTurn(c) ==
  /\ In(c, "route")
  /\ handed' = handed \cup {Event(c).message}
  /\ Goto(c, "turn")
  /\ UNCHANGED <<channel, drops, dropped, inboundCounters, overdue, excused, recorded, contended>>

\* A turn that failed leaves the row of a replay as it was.
TurnEnds(c) ==
  /\ In(c, "turn")
  /\ Goto(c, "finish") \/ Leave(c)
  /\ UNCHANGED <<channel, drops, dropped, inboundCounters, overdue, inboundHistory>>

\* A replay saves the row it read, now as replayed, even if it is gone by now.
SaveDroppedEvent(row) ==
  dropped' = {r \in dropped : r.id # row.id} \cup {[row EXCEPT !.status = "replayed"]}

Finish(c) ==
  /\ In(c, "finish")
  /\ IF IsReplay(c) THEN SaveDroppedEvent(call[c].row) ELSE UNCHANGED dropped
  /\ Leave(c)
  /\ UNCHANGED <<channel, drops, inboundCounters, overdue, inboundHistory>>
------------------------------------------------------------------------------
\* Operators, and time.

DeleteDrop(ch) == drops' = [drops EXCEPT ![ch] = NoRecord]

Command ==
  /\ channelCommands < MaxChannelCommands
  /\ channelCommands' = channelCommands + 1
  /\ UNCHANGED <<call, dropped, messages, replays, troubles, rowIds,
                 overdue, handed, excused>>

\* chat bind: one transaction creates the chat and deletes the channel's record.
BindChat(ch) ==
  /\ channel[ch] = "unknown"
  /\ channel' = [channel EXCEPT ![ch] = "enabled"]
  /\ DeleteDrop(ch)
  /\ recorded' = [recorded EXCEPT ![ch] = 0]
  /\ contended' = IF Recording(ch) = {} THEN contended \ {ch} ELSE contended \cup {ch}
  /\ Command

\* A source or relay component is added to a chat or removed from one: unlike
\* chat bind, adding a source leaves the channel's record.
ChangeChat(ch) ==
  /\ \E state \in {"unknown", "enabled", "disabled"} \ {channel[ch]} :
       channel' = [channel EXCEPT ![ch] = state]
  /\ UNCHANGED <<drops, recorded, contended>>
  /\ Command

\* The retention of a row ends; the next drop deletes it.
Expire(row) ==
  /\ ~Overdue(row)
  /\ overdue' = overdue \cup {<<row.id, row.event.message>>}
  /\ UNCHANGED <<channel, drops, dropped, call, inboundCounters, inboundHistory>>
------------------------------------------------------------------------------
InboundNext ==
  \/ \E c \in InboundCalls, ch \in Channels : HandleInbound(c, ch)
  \/ \E c \in InboundCalls, row \in dropped : AllowDropped(c, row)
  \/ \E c \in InboundCalls : CallFails(c)
  \/ InboundCrash
  \/ \E c \in InboundCalls : AdmitInbound(c)
  \/ \E c \in InboundCalls : LookForDrop(c)
  \/ \E c \in InboundCalls : AdoptDrop(c)
  \/ \E c \in InboundCalls : SaveDrop(c)
  \/ \E c \in InboundCalls : RunFilters(c)
  \/ \E c \in InboundCalls : DropEvent(c)
  \/ \E c \in InboundCalls : DropFails(c)
  \/ \E c \in InboundCalls : BeginTurn(c)
  \/ \E c \in InboundCalls : TurnEnds(c)
  \/ \E c \in InboundCalls : Finish(c)
  \/ \E ch \in Channels : BindChat(ch)
  \/ \E ch \in Channels : ChangeChat(ch)
  \/ \E row \in dropped : Expire(row)

InboundSpec == InboundInit /\ [][InboundNext]_inboundVars
------------------------------------------------------------------------------
CallRecord ==
  [stage : {"admit", "look", "adopt", "record", "filter", "reject", "route", "turn", "finish"},
   event : EventRecord, row : DroppedRecord \cup {NoRecord}, copy : DropRecord \cup {NoRecord}]

\* The state has its types, and a call that writes a channel's record has one.
InboundTypeOK ==
  /\ channel \in [Channels -> {"unknown", "enabled", "disabled"}]
  /\ drops \in [Channels -> DropRecord \cup {NoRecord}]
  /\ dropped \subseteq DroppedRecord
  /\ call \in [InboundCalls -> CallRecord \cup {NoCall}]
  /\ \A c \in InboundCalls : In(c, "record") => call[c].copy # NoRecord
  /\ messages \in Nat /\ replays \in Nat /\ channelCommands \in Nat /\ rowIds \in Nat
  /\ troubles \in Nat
  /\ overdue \subseteq Nat \X Nat
  /\ handed \subseteq Nat /\ excused \subseteq Nat
  /\ recorded \in [Channels -> Nat]
  /\ contended \subseteq Channels

\* A message whose handling ended reached a turn or can still be found and
\* replayed, even after replays that were dropped again, until its retention
\* ends.  Lost are only messages that met an error or a stop, or that were
\* refused because two first messages of an unknown channel met.
EventsAreKept ==
  \A m \in 1..messages :
    \/ m \in handed \cup excused
    \/ \E c \in InboundCalls : Event(c).message = m /\ ~IsReplay(c)
    \/ \E lapsed \in overdue : lapsed[2] = m
    \/ \E row \in dropped : row.event.message = m /\ row.status = "open"

\* The record of an unknown channel counts its messages since chat bind last
\* removed it, and a channel bound by chat bind has none - unless recordings
\* overlapped each other, which loses counts, or chat bind, which brings the
\* record back.
DropCountsAreTrue ==
  \A ch \in Channels \ contended :
    recorded[ch] = IF drops[ch] = NoRecord THEN 0 ELSE drops[ch].count

\* Nothing an unknown channel or sender said is lost, or counted wrong.
InboundIsRecorded == EventsAreKept /\ DropCountsAreTrue
==============================================================================
