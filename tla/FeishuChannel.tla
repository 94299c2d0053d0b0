---------------------------- MODULE FeishuChannel ----------------------------
(***************************************************************************)
(* The Feishu adapter's long connection: discovery of the endpoint, the    *)
(* frames of a connection, the acknowledgement of an event after it was    *)
(* handed to the bus, and the loop that reconnects.                        *)
(*                                                                         *)
(* Feishu is external: it pushes events over the open connection, and      *)
(* pushes again, on the same connection or on the next, one that was not   *)
(* acknowledged; the dispatcher in src deduplicates nothing on this path.  *)
(***************************************************************************)
EXTENDS Integers, Sequences

CONSTANTS
  MaxEvents,   \* events of users
  Unreadable,  \* those whose payload cannot be parsed
  InboxCap,    \* capacity of the bus's inbound channel
  MaxFaults    \* connections and acknowledgements that are lost

Events == 1 .. MaxEvents

FeishuAssumption ==
  /\ {MaxEvents, InboxCap} \subseteq Nat \ {0} /\ MaxFaults \in Nat
  /\ Unreadable \subseteq Events

VARIABLES
  phase, running,   \* the loop's task, and the flag it shares with the channel
  frames,           \* what Feishu has sent on the open connection: events, or Ping
  holding,          \* the event that waits for room in the inbound channel, or 0
  inbox,            \* the bus's inbound channel
  happened, acked,  \* Feishu: how many events there are, those it considers done
  faults,
  handled, late     \* history: events handed to the bus; how many after disconnect

loop == <<phase, holding>>
feishu == <<happened, acked, faults>>
history == <<handled, late>>
vars == <<loop, running, frames, inbox, feishu, history>>

Ping == 0

TypeOK ==
  /\ phase \in {"off", "connect", "listen", "wait", "over"} /\ running \in BOOLEAN
  /\ \A i \in DOMAIN frames : frames[i] \in Events \union {Ping}
  /\ holding \in Events \union {0} /\ Len(inbox) <= InboxCap
  /\ happened \in 0 .. MaxEvents /\ acked \subseteq Events /\ handled \subseteq Events

Init ==
  /\ phase = "off" /\ running = FALSE /\ frames = <<>> /\ holding = 0 /\ inbox = <<>>
  /\ happened = 0 /\ acked = {} /\ faults = 0 /\ handled = {} /\ late = 0

Fault == faults < MaxFaults /\ faults' = faults + 1

-----------------------------------------------------------------------------
(* connect, disconnect, run_ws_event_loop                                  *)

\* A token was obtained.
Connect ==
  /\ phase = "off"
  /\ running' = TRUE /\ phase' = "connect"
  /\ UNCHANGED <<holding, frames, inbox, feishu, history>>

\* Nothing wakes the loop.
Disconnect ==
  /\ running
  /\ running' = FALSE
  /\ UNCHANGED <<loop, frames, inbox, feishu, history>>

\* ws_connect_and_listen returned, with an error or without.
Back == phase' = IF running THEN "wait" ELSE "over"

\* Five seconds later.
Reconnect ==
  /\ phase = "wait"
  /\ phase' = IF running THEN "connect" ELSE "over"
  /\ UNCHANGED <<holding, running, frames, inbox, feishu, history>>

-----------------------------------------------------------------------------
(* ws_connect_and_listen                                                   *)

\* No endpoint, or no connection to it.
ConnectFails ==
  /\ phase = "connect" /\ Fault
  /\ Back
  /\ UNCHANGED <<holding, running, frames, inbox, happened, acked, history>>

Open ==
  /\ phase = "connect"
  /\ phase' = "listen" /\ frames' = <<>>
  /\ UNCHANGED <<holding, running, inbox, feishu, history>>

\* Fault: the flag is only looked at between connections.
Unnoticed == FALSE

Stopped == ~running

Reads == phase = "listen" /\ holding = 0 /\ frames # <<>>

\* The flag is looked at when a frame has arrived, and the frame is dropped.
NoticeStop ==
  /\ Reads /\ Stopped
  /\ Back /\ frames' = <<>>
  /\ UNCHANGED <<holding, running, inbox, feishu, history>>

Pong ==
  /\ Reads /\ ~Stopped /\ Head(frames) = Ping
  /\ frames' = Tail(frames)
  /\ UNCHANGED <<loop, running, inbox, feishu, history>>

\* Fault: every event is acknowledged as it arrives.
AckAll(e) == acked' = acked \union {e}

AckUnreadable(e) == acked' = IF e \in Unreadable THEN acked \union {e} ELSE acked

\* A data frame with an event; one that cannot be parsed is acknowledged too.
ReadEvent ==
  /\ Reads /\ ~Stopped /\ Head(frames) # Ping
  /\ frames' = Tail(frames)
  /\ AckUnreadable(Head(frames))
  /\ holding' = IF Head(frames) \in Unreadable THEN 0 ELSE Head(frames)
  /\ UNCHANGED <<phase, running, inbox, happened, faults, history>>

\* handler.send goes through, and the acknowledgement follows; one that cannot
\* be written is only logged.
Dispatch(lost) ==
  /\ holding # 0 /\ Len(inbox) < InboxCap
  /\ IF lost THEN Fault /\ UNCHANGED acked
             ELSE acked' = acked \union {holding} /\ UNCHANGED faults
  /\ inbox' = Append(inbox, holding)
  /\ handled' = handled \union {holding}
  /\ late' = late + (IF running THEN 0 ELSE 1)
  /\ holding' = 0
  /\ UNCHANGED <<phase, running, frames, happened>>

\* A read error, a close or a pong that cannot be written.
Closed ==
  /\ phase = "listen" /\ holding = 0 /\ Fault
  /\ Back /\ frames' = <<>>
  /\ UNCHANGED <<holding, running, inbox, happened, acked, history>>

-----------------------------------------------------------------------------
(* Feishu, its users and the agent loop                                    *)

Happen ==
  /\ happened < MaxEvents
  /\ happened' = happened + 1
  /\ UNCHANGED <<loop, running, frames, inbox, acked, faults, history>>

\* One frame is under way at a time.
Push(frame) ==
  /\ phase = "listen" /\ frames = <<>>
  /\ frame = Ping \/ (frame <= happened /\ frame \notin acked \union {holding})
  /\ frames' = <<frame>>
  /\ UNCHANGED <<loop, running, inbox, feishu, history>>

\* The event it has waited for longest.
PushOldest ==
  \E e \in 1 .. happened :
    /\ e \notin acked /\ \A d \in 1 .. e - 1 : d \in acked
    /\ Push(e)

ConsumeInbound ==
  /\ inbox # <<>>
  /\ inbox' = Tail(inbox)
  /\ UNCHANGED <<loop, running, frames, feishu, history>>

Loop == Reconnect \/ Open \/ NoticeStop \/ Pong \/ ReadEvent \/ \E lost \in BOOLEAN : Dispatch(lost)

Next ==
  \/ Connect \/ Disconnect \/ Loop \/ ConnectFails \/ Closed
  \/ Happen \/ ConsumeInbound \/ \E frame \in Events \union {Ping} : Push(frame)

\* The loop and the agent go on; Feishu pushes again what is not acknowledged.
Spec ==
  /\ Init /\ [][Next]_vars /\ WF_vars(Loop) /\ WF_vars(ConsumeInbound)
  /\ SF_vars(PushOldest)

-----------------------------------------------------------------------------
(* Properties                                                              *)

\* Feishu never considers an event done that the agent was not given, lost
\* connections and acknowledgements notwithstanding.
AckedWasHandled == acked \subseteq handled \union Unreadable

\* After disconnect at most the one event is handed over that was waiting.
StopsTaking == late <= 1

\* An event is handed over sooner or later, unless it cannot be parsed or the
\* channel is stopped.
Unheard == running /\ \E e \in 1 .. happened : e \notin handled \union Unreadable

Heard == Unheard ~> ~Unheard

=============================================================================
