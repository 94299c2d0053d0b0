--------------------------- MODULE ChannelManager ---------------------------
(***************************************************************************)
(* The channel manager with one running channel: the outbound consumer,    *)
(* which sends each answer in chunks under the channel's mutex, the        *)
(* listener that turns lifecycle events into typing indicators, and        *)
(* stop_all.  The agent loop is reduced to what it emits for a run: the    *)
(* Started event, then the answer on the outbound channel and Completed or *)
(* Error; a streamed answer has no outbound message and a run that timed   *)
(* out no closing event.  The event bus drops the oldest events of a       *)
(* listener that lags.                                                     *)
(*                                                                         *)
(* A typing task is keyed by the session key; the consumer of an answer    *)
(* only knows the chat, so the key it clears has no thread in it.          *)
(***************************************************************************)
EXTENDS Integers, Sequences

CONSTANTS
  Sessions,     \* session keys of the platform
  ChatKey,      \* "platform:chat_id", the key without its thread
  MaxRuns,      \* runs of the agent
  EventCap,     \* capacity of the broadcast channel
  OutCap,       \* capacity of the outbound channel
  Chunks,       \* chunks of an answer
  NoSession     \* not a session key

ManagerAssumption ==
  /\ {MaxRuns, EventCap, OutCap, Chunks} \subseteq Nat \ {0}
  /\ ChatKey \in [Sessions -> Sessions] /\ NoSession \notin Sessions

VARIABLES
  run, step, runs,    \* the agent: its session, what it has still to emit
  events,             \* lifecycle events the typing listener has not read
  outbound,           \* the outbound channel
  typing,             \* keys of typing_tasks
  sending,            \* the answer whose channel mutex the consumer holds
  chunk, format,      \* the chunk being sent, and the format tried
  shown,              \* the chunks of this answer the user sees
  stopping, open,     \* stop_all began; the channel is in running_channels
  connected,          \* it was not disconnected yet
  unclosed            \* history: sessions whose last run emitted no closing
                      \* event, or whose closing event was lost to the lag

agent == <<run, step, runs>>
consumer == <<sending, chunk, format, shown>>
shutdown == <<stopping, open, connected>>
vars == <<agent, events, outbound, typing, consumer, shutdown, unclosed>>

Event == [kind : {"started", "closed"}, session : Sessions]
Formats == <<"MarkdownV2", "HTML", "plain">>

TypeOK ==
  /\ run \in Sessions \union {NoSession} /\ step \in {"idle", "reply", "close"}
  /\ Len(events) <= EventCap /\ \A i \in DOMAIN events : events[i] \in Event
  /\ Len(outbound) <= OutCap
  /\ typing \subseteq Sessions /\ unclosed \subseteq Sessions
  /\ sending \in Sessions \union {NoSession}
  /\ chunk \in 1 .. Chunks /\ format \in DOMAIN Formats
  /\ {stopping, open, connected} \subseteq BOOLEAN

Init ==
  /\ run = NoSession /\ step = "idle" /\ runs = 0
  /\ events = <<>> /\ outbound = <<>> /\ typing = {}
  /\ sending = NoSession /\ chunk = 1 /\ format = 1 /\ shown = <<>>
  /\ stopping = FALSE /\ open = TRUE /\ connected = TRUE /\ unclosed = {}

-----------------------------------------------------------------------------
(* The agent loop                                                          *)

\* The bus delivers e; a full buffer loses its oldest event.
Emit(e) ==
  LET full == Len(events) = EventCap
      lost == IF full /\ events[1].kind = "closed" THEN {events[1].session} ELSE {}
  IN  /\ events' = Append(IF full THEN Tail(events) ELSE events, e)
      /\ unclosed' = (IF e.kind = "started" THEN unclosed \ {e.session} ELSE unclosed)
                       \union lost

Begin(s) ==
  /\ step = "idle" /\ runs < MaxRuns
  /\ runs' = runs + 1 /\ run' = s /\ step' = "reply"
  /\ Emit([kind |-> "started", session |-> s])
  /\ UNCHANGED <<outbound, typing, consumer, shutdown>>

\* The answer, or the error text, is published; then comes Completed or Error.
Reply ==
  /\ step = "reply" /\ Len(outbound) < OutCap
  /\ outbound' = Append(outbound, run)
  /\ step' = "close"
  /\ UNCHANGED <<run, runs, events, typing, consumer, shutdown, unclosed>>

\* The answer was streamed: Completed only.
Streamed ==
  /\ step = "reply"
  /\ step' = "close"
  /\ UNCHANGED <<run, runs, events, outbound, typing, consumer, shutdown, unclosed>>

\* Message processing timed out: an apology, no event.
TimeOut ==
  /\ step = "reply" /\ Len(outbound) < OutCap
  /\ outbound' = Append(outbound, run)
  /\ unclosed' = unclosed \union {run}
  /\ step' = "idle" /\ run' = NoSession
  /\ UNCHANGED <<runs, events, typing, consumer, shutdown>>

Close ==
  /\ step = "close"
  /\ Emit([kind |-> "closed", session |-> run])
  /\ step' = "idle" /\ run' = NoSession
  /\ UNCHANGED <<runs, outbound, typing, consumer, shutdown>>

-----------------------------------------------------------------------------
(* The typing listener                                                     *)

\* start_typing does nothing without a running channel.
StartTyping(s) == typing' = IF open THEN typing \union {s} ELSE typing

\* Fault: an error leaves the indicator on.
StopNever(s) == UNCHANGED typing

StopTyping(s) == typing' = typing \ {s}

Listen ==
  /\ events # <<>>
  /\ events' = Tail(events)
  /\ LET e == Head(events)
     IN  IF e.kind = "started" THEN StartTyping(e.session) ELSE StopTyping(e.session)
  /\ UNCHANGED <<agent, outbound, consumer, shutdown, unclosed>>

-----------------------------------------------------------------------------
(* The outbound consumer: handle_outbound and the channel's send_message   *)

\* The channel is looked up and locked, until the whole answer was sent.
TakeOutbound ==
  /\ sending = NoSession /\ outbound # <<>> /\ open
  /\ sending' = Head(outbound)
  /\ chunk' = 1 /\ format' = 1 /\ shown' = <<>>
  /\ outbound' = Tail(outbound)
  /\ UNCHANGED <<agent, events, typing, shutdown, unclosed>>

\* No running channel: the answer is dropped.
DropOutbound ==
  /\ sending = NoSession /\ outbound # <<>> /\ ~open
  /\ outbound' = Tail(outbound)
  /\ StopTyping(ChatKey[Head(outbound)])
  /\ UNCHANGED <<agent, events, consumer, shutdown, unclosed>>

\* Fault: the formats are tried for the whole answer, from its first chunk.
RestartAnswer == chunk' = 1

SameChunk == UNCHANGED chunk

\* The platform shows the chunk, cannot parse it, or there is no telling.  Only
\* the second is tried again, in the next format, and the plain text has none;
\* after a failure the rest of the answer is not sent.
SendChunk(outcome) ==
  /\ sending # NoSession
  /\ CASE outcome = "shown" ->
            /\ shown' = Append(shown, chunk)
            /\ format' = 1
            /\ chunk' = IF chunk < Chunks THEN chunk + 1 ELSE 1
            /\ sending' = IF chunk < Chunks THEN sending ELSE NoSession
       [] outcome = "unparsable" ->
            /\ format < Len(Formats)
            /\ format' = format + 1
            /\ SameChunk
            /\ UNCHANGED <<sending, shown>>
       [] outcome = "failed" ->
            /\ shown' \in {shown, Append(shown, chunk)}
            /\ chunk' = 1 /\ format' = 1 /\ sending' = NoSession
  /\ IF sending' = NoSession THEN StopTyping(ChatKey[sending]) ELSE UNCHANGED typing
  /\ UNCHANGED <<agent, events, outbound, shutdown, unclosed>>

-----------------------------------------------------------------------------
(* stop_all                                                                *)

AbortTyping ==
  /\ ~stopping
  /\ stopping' = TRUE
  /\ typing' = {}
  /\ UNCHANGED <<agent, events, outbound, consumer, open, connected, unclosed>>

\* stop_channel removes the entry, for which nobody may be reading it.
RemoveChannel ==
  /\ stopping /\ open /\ sending = NoSession
  /\ open' = FALSE
  /\ UNCHANGED <<agent, events, outbound, typing, consumer, stopping, connected, unclosed>>

DisconnectChannel ==
  /\ ~open /\ connected
  /\ connected' = FALSE
  /\ UNCHANGED <<agent, events, outbound, typing, consumer, stopping, open, unclosed>>

Outcomes == {"shown", "unparsable", "failed"}

Agent == Reply \/ Streamed \/ TimeOut \/ Close
Consumer == TakeOutbound \/ DropOutbound \/ \E outcome \in Outcomes : SendChunk(outcome)

Next ==
  \/ \E s \in Sessions : Begin(s)
  \/ Agent \/ Listen \/ Consumer
  \/ AbortTyping \/ RemoveChannel \/ DisconnectChannel

\* The agent ends what it began, and the listener reads.
Spec == Init /\ [][Next]_vars /\ WF_vars(Agent) /\ WF_vars(Listen)

-----------------------------------------------------------------------------
(* Properties                                                              *)

\* An answer is shown in the order of its chunks and none of them twice,
\* although each may be sent in three formats.
ShownInOrder == \A i \in DOMAIN shown : shown[i] = i

\* stop_all never disconnects a channel in the middle of an answer.
NotCutByStop == sending # NoSession => connected

\* No indicator stays on without a reason: while the agent is not running the
\* session, some event or answer that will stop it is still on its way, unless
\* the closing event was lost or never emitted.
TypingHasReason ==
  \A s \in typing :
    \/ run = s \/ s \in unclosed
    \/ \E i \in DOMAIN events : events[i] = [kind |-> "closed", session |-> s]

\* So an indicator goes off sooner or later (or stays until the session's
\* next run when its closing event is missing).
Indicates == \E s \in typing : s \notin unclosed

TypingEnds == Indicates ~> ~Indicates

=============================================================================
