-------------------------- MODULE WebSocketChannel --------------------------
(***************************************************************************)
(* The WebSocket adapter: the accept loop, and for each connection a read  *)
(* loop and a write loop that share nothing but the map of clients, whose  *)
(* entry is the sending half of the connection's unbounded frame queue;    *)
(* the consumer that forwards stream chunks, and the sending of answers.   *)
(*                                                                         *)
(* A connection is one client id.  The peer is external: it sends frames,  *)
(* and may close at any time.  The agent is reduced to what it does for a  *)
(* message: chunks on the stream channel, then the answer on the outbound  *)
(* channel, which are two queues read by two tasks.                        *)
(***************************************************************************)
EXTENDS Integers, Sequences

CONSTANTS
  Clients,       \* connections
  AuthRequired,  \* auth_required
  MaxFrames,     \* frames a peer sends on one connection
  InboxCap,      \* capacity of the bus's inbound channel
  StreamCap,     \* capacity of the bus's stream (broadcast) channel
  Chunks,        \* chunks of an answer
  NoClient       \* not a connection

WebSocketAssumption ==
  /\ AuthRequired \in BOOLEAN /\ NoClient \notin Clients
  /\ {MaxFrames, InboxCap, StreamCap, Chunks} \subseteq Nat \ {0}

VARIABLES
  running, accepting,   \* the channel's flag; the accept loop is alive
  hand,                 \* the connection whose handshake is awaited
  clients,              \* the map: connections frames can be sent to
  reader, writer,       \* the two loops of each connection
  up,                   \* connections whose socket is open at both ends
  sent,                 \* frames each peer sent
  queue,                \* frames waiting for each write loop
  got,                  \* history: frames each peer received
  inbox,                \* the inbound channel: the clients of the messages
  interrupts,           \* history: clients whose run was asked to be cancelled
  turn, said,           \* the client the agent answers; chunks published so far
  stream, streaming,    \* the stream channel; the stream consumer is alive
  outbound              \* the outbound channel

server == <<running, accepting, hand>>
loops == <<clients, reader, writer, up, queue>>
agent == <<turn, said>>
vars == <<server, loops, sent, got, inbox, interrupts, agent, stream, streaming, outbound>>

Frames == {"welcome", "error", "pong", "reply", "chunk", "message", "done"}

TypeOK ==
  /\ {running, accepting, streaming} \subseteq BOOLEAN
  /\ hand \in Clients \union {NoClient}
  /\ clients \subseteq Clients /\ up \subseteq Clients /\ interrupts \subseteq Clients
  /\ reader \in [Clients -> {"none", "pending", "open", "over"}]
  /\ writer \in [Clients -> {"none", "on", "over"}]
  /\ \A c \in Clients : \A i \in DOMAIN queue[c] : queue[c][i] \in Frames
  /\ turn \in Clients \union {NoClient} /\ said \in 0 .. Chunks
  /\ Len(inbox) <= InboxCap /\ Len(stream) <= StreamCap

Init ==
  /\ running = TRUE /\ accepting = TRUE /\ hand = NoClient
  /\ clients = {} /\ up = {} /\ interrupts = {}
  /\ reader = [c \in Clients |-> "none"] /\ writer = [c \in Clients |-> "none"]
  /\ sent = [c \in Clients |-> 0]
  /\ queue = [c \in Clients |-> <<>>] /\ got = [c \in Clients |-> <<>>]
  /\ inbox = <<>> /\ turn = NoClient /\ said = 0
  /\ stream = <<>> /\ streaming = TRUE /\ outbound = <<>>

\* clients.get(c) finds a sender, and the frame is queued.
Queued(c, frame) ==
  [queue EXCEPT ![c] = IF c \in clients THEN Append(@, frame) ELSE @]

-----------------------------------------------------------------------------
(* run_accept_loop, disconnect                                             *)

Accept(c) ==
  /\ accepting /\ hand = NoClient /\ writer[c] = "none" /\ c \notin up
  /\ hand' = c
  /\ up' = up \union {c}
  /\ UNCHANGED <<running, accepting, clients, reader, writer, queue, sent, got, inbox,
                 interrupts, agent, stream, streaming, outbound>>

\* Fault: the write loop looks at the flag after its first frame only.
NoFirstLook == TRUE

FirstLook == running

\* The client is entered and its loops are spawned, whatever running says by now.
HandshakeDone ==
  /\ hand # NoClient
  /\ clients' = clients \union {hand}
  /\ reader' = [reader EXCEPT ![hand] = IF AuthRequired THEN "pending" ELSE "open"]
  /\ writer' = [writer EXCEPT ![hand] = IF FirstLook THEN "on" ELSE "over"]
  /\ queue' = [queue EXCEPT ![hand] = IF AuthRequired THEN <<>> ELSE <<"welcome">>]
  /\ hand' = NoClient
  /\ up' = IF FirstLook THEN up ELSE up \ {hand}
  /\ UNCHANGED <<running, accepting, sent, got, inbox, interrupts, agent, stream, streaming,
                 outbound>>

\* No WebSocket handshake, or a wrong token in its query: dropped.
HandshakeFails ==
  /\ hand # NoClient
  /\ up' = up \ {hand}
  /\ hand' = NoClient
  /\ UNCHANGED <<running, accepting, clients, reader, writer, queue, sent, got, inbox,
                 interrupts, agent, stream, streaming, outbound>>

AcceptLoopEnds ==
  /\ accepting /\ hand = NoClient /\ ~running
  /\ accepting' = FALSE
  /\ UNCHANGED <<running, hand, loops, sent, got, inbox, interrupts, agent, stream,
                 streaming, outbound>>

Disconnect ==
  /\ running
  /\ running' = FALSE
  /\ clients' = {}
  /\ UNCHANGED <<accepting, hand, reader, writer, up, queue, sent, got, inbox, interrupts,
                 agent, stream, streaming, outbound>>

-----------------------------------------------------------------------------
(* read_loop                                                               *)

CancelRun(c) == interrupts' = interrupts \union {c}

\* The end of the loop: the client is forgotten and its run cancelled.
ReaderEnds(c) ==
  /\ reader' = [reader EXCEPT ![c] = "over"]
  /\ clients' = clients \ {c}
  /\ CancelRun(c)

\* The stream ended, by a close, an error or the write loop's closing.
ReadEnd(c) ==
  /\ reader[c] \in {"pending", "open"} /\ c \notin up
  /\ ReaderEnds(c)
  /\ UNCHANGED <<server, writer, up, queue, sent, got, inbox, agent, stream, streaming, outbound>>

Reads(c) ==
  /\ reader[c] \in {"pending", "open"} /\ c \in up
  /\ sent[c] < MaxFrames
  /\ sent' = [sent EXCEPT ![c] = @ + 1]

\* A frame after the channel was stopped only ends the loop.
ReadStopped(c) ==
  /\ Reads(c) /\ ~running
  /\ ReaderEnds(c)
  /\ UNCHANGED <<server, writer, up, queue, got, inbox, agent, stream, streaming, outbound>>

\* Not JSON, or binary; for an open client also an unknown or empty envelope,
\* a ping, or a command: one frame back.
ReadAnswered(c, frame) ==
  /\ Reads(c) /\ running
  /\ frame \in (IF reader[c] = "open" THEN {"error", "pong", "reply"} ELSE {"error"})
  /\ queue' = Queued(c, frame)
  /\ UNCHANGED <<server, clients, reader, writer, up, got, inbox, interrupts, agent, stream,
                 streaming, outbound>>

Admits(authorised) == authorised

\* The auth gate of a pending client: the token opens it, anything else that
\* parses is answered by an error and the end.
ReadPending(c, authorised) ==
  /\ Reads(c) /\ running /\ reader[c] = "pending"
  /\ queue' = Queued(c, IF authorised THEN "welcome" ELSE "error")
  /\ IF Admits(authorised)
     THEN reader' = [reader EXCEPT ![c] = "open"] /\ UNCHANGED <<clients, interrupts>>
     ELSE ReaderEnds(c)
  /\ UNCHANGED <<server, writer, up, got, inbox, agent, stream, streaming, outbound>>

\* A message, as an envelope or in the legacy format.
ReadMessage(c) ==
  /\ Reads(c) /\ running /\ reader[c] = "open" /\ Len(inbox) < InboxCap
  /\ inbox' = Append(inbox, c)
  /\ UNCHANGED <<server, loops, got, interrupts, agent, stream, streaming, outbound>>

-----------------------------------------------------------------------------
(* write_loop                                                              *)

CloseSink(c) == up' = up \ {c}

WriterEnds(c) ==
  /\ writer' = [writer EXCEPT ![c] = "over"]
  /\ clients' = clients \ {c}
  /\ CloseSink(c)

\* rx.recv(): None when the map no longer holds the sender and nothing waits.
WriteEnd(c) ==
  /\ writer[c] = "on" /\ queue[c] = <<>> /\ c \notin clients
  /\ WriterEnds(c)
  /\ UNCHANGED <<server, reader, queue, sent, got, inbox, interrupts, agent, stream,
                 streaming, outbound>>

\* A frame is written, or fails because the socket is closed; running is looked
\* at between two frames.
Write(c) ==
  /\ writer[c] = "on" /\ queue[c] # <<>>
  /\ queue' = [queue EXCEPT ![c] = Tail(@)]
  /\ got' = [got EXCEPT ![c] = IF c \in up THEN Append(@, Head(queue[c])) ELSE @]
  /\ IF c \in up /\ running THEN UNCHANGED <<writer, clients, up>> ELSE WriterEnds(c)
  /\ UNCHANGED <<server, reader, sent, inbox, interrupts, agent, stream, streaming, outbound>>

-----------------------------------------------------------------------------
(* run_ws_stream_consumer and send_message_with_trace                      *)

\* Publishing to a full broadcast channel: its receiver will find that it
\* lagged, an error at which the consumer's loop ends.
Publish(c) ==
  IF Len(stream) < StreamCap
  THEN stream' = Append(stream, c) /\ UNCHANGED streaming
  ELSE stream' = <<>> /\ streaming' = FALSE

ForwardChunk ==
  /\ streaming /\ stream # <<>>
  /\ queue' = Queued(Head(stream), "chunk")
  /\ stream' = Tail(stream)
  /\ UNCHANGED <<server, clients, reader, writer, up, sent, got, inbox, interrupts, agent,
                 streaming, outbound>>

\* The answer and, since it replies to a message, the done signal.
SendAnswer ==
  /\ outbound # <<>>
  /\ LET c == Head(outbound)
     IN  queue' = [queue EXCEPT ![c] =
                     IF c \in clients THEN @ \o <<"message", "done">> ELSE @]
  /\ outbound' = Tail(outbound)
  /\ UNCHANGED <<server, clients, reader, writer, up, sent, got, inbox, interrupts, agent,
                 stream, streaming>>

-----------------------------------------------------------------------------
(* The agent and the peers                                                 *)

BeginTurn ==
  /\ turn = NoClient /\ inbox # <<>>
  /\ turn' = Head(inbox) /\ said' = 0
  /\ inbox' = Tail(inbox)
  /\ UNCHANGED <<server, loops, sent, got, interrupts, stream, streaming, outbound>>

SayChunk ==
  /\ turn # NoClient /\ said < Chunks
  /\ said' = said + 1
  /\ IF streaming THEN Publish(turn) ELSE UNCHANGED <<stream, streaming>>
  /\ UNCHANGED <<server, loops, sent, got, inbox, interrupts, turn, outbound>>

\* A cancelled run publishes no answer.
EndTurn ==
  /\ turn # NoClient /\ (said = Chunks \/ turn \in interrupts)
  /\ outbound' = IF turn \in interrupts THEN outbound ELSE Append(outbound, turn)
  /\ turn' = NoClient /\ said' = 0
  /\ UNCHANGED <<server, loops, sent, got, inbox, interrupts, stream, streaming>>

PeerCloses(c) ==
  /\ c \in up /\ hand # c
  /\ up' = up \ {c}
  /\ UNCHANGED <<server, clients, reader, writer, queue, sent, got, inbox, interrupts, agent,
                 stream, streaming, outbound>>

Loops(c) == ReadEnd(c) \/ WriteEnd(c) \/ Write(c)
Services == HandshakeDone \/ AcceptLoopEnds \/ ForwardChunk \/ SendAnswer

Next ==
  \/ \E c \in Clients :
       \/ Accept(c) \/ Loops(c) \/ ReadStopped(c) \/ ReadMessage(c) \/ PeerCloses(c)
       \/ \E frame \in Frames : ReadAnswered(c, frame)
       \/ \E authorised \in BOOLEAN : ReadPending(c, authorised)
  \/ Services \/ HandshakeFails \/ Disconnect
  \/ BeginTurn \/ SayChunk \/ EndTurn

\* The server's tasks; a peer may stay silent for ever.
Spec ==
  /\ Init /\ [][Next]_vars /\ WF_vars(Services)
  /\ \A c \in Clients : WF_vars(ReadEnd(c)) /\ WF_vars(WriteEnd(c)) /\ WF_vars(Write(c))

-----------------------------------------------------------------------------
(* Properties                                                              *)

\* A client hears nothing but errors before its welcome, and nothing is done
\* for it before: no message in the bus, no turn, no chunk.
WelcomeFirst ==
  \A c \in Clients :
    /\ \A i \in DOMAIN got[c] :
         got[c][i] \in {"error", "welcome"} \/ \E j \in 1 .. i : got[c][j] = "welcome"
    /\ reader[c] = "pending" =>
         turn # c /\ \A i \in DOMAIN inbox : inbox[i] # c

\* One loop of a connection never outlives the other for good, and nothing is
\* kept of a connection that ended: the socket is closed, the map forgets the
\* client and its run is cancelled.
HalfOver ==
  \E c \in Clients :
    /\ reader[c] = "over" \/ writer[c] = "over"
    /\ ~(reader[c] = "over" /\ writer[c] = "over" /\ c \notin clients \union up /\ c \in interrupts)

\* Stopping the channel ends every connection, those included whose handshake
\* was under way when the map was cleared.
Outlives ==
  /\ ~running
  /\ accepting \/ clients # {} \/ \E c \in Clients : reader[c] \in {"pending", "open"}

ConnectionsEnd == HalfOver \/ Outlives ~> ~(HalfOver \/ Outlives)

=============================================================================
