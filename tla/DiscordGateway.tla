--------------------------- MODULE DiscordGateway ---------------------------
(***************************************************************************)
(* The Discord adapter's gateway listener: connect, HELLO, RESUME or       *)
(* IDENTIFY, the event loop, and the outer loop that reconnects with an    *)
(* exponential back-off until a budget of attempts is spent.               *)
(*                                                                         *)
(* Discord is external: it numbers the events of a session (the position   *)
(* in log), goes on logging while the bot is away, replays the events      *)
(* after the number a RESUME names, and may forget a session while nobody  *)
(* is connected to it.  A message is a number in the order of posting.     *)
(* Heartbeats only matter by what follows when one cannot be written, the  *)
(* end of the connection.                                                  *)
(***************************************************************************)
EXTENDS Integers, Sequences

CONSTANTS
  MaxPosts,     \* messages users post
  Commands,     \* those that are built-in commands, answered by the adapter
  Blank,        \* those without content
  MaxAttempts,  \* MAX_RECONNECT_ATTEMPTS
  MaxBackoff,   \* MAX_BACKOFF_SECS
  InboxCap      \* capacity of the bus's inbound channel

GatewayAssumption ==
  /\ {MaxPosts, MaxAttempts, MaxBackoff, InboxCap} \subseteq Nat \ {0}
  /\ Commands \union Blank \subseteq 1 .. MaxPosts

VARIABLES
  phase,      \* where the listener task is
  running,    \* the flag shared with the channel object
  connected,  \* the channel object's own flag, what is_connected returns
  session, lastSeq,      \* GatewaySessionState; 0 is None
  attempt, backoff,      \* of run_gateway
  holding,    \* the message that waits for room in the inbound channel, or 0
  live,       \* Discord: the session it knows, 0 when it forgot
  log,        \* Discord: the events of that session
  cursor,     \* the next event to arrive on the open connection
  posted,     \* messages posted so far
  inbox,      \* the inbound channel
  taken,      \* history: the messages the adapter took from the gateway, in order
  late        \* history: how many of them after disconnect

client == <<phase, session, lastSeq, attempt, backoff, holding, taken, late>>
flags == <<running, connected>>
discord == <<live, log, cursor, posted>>
vars == <<client, flags, discord, inbox>>

Posts == 1 .. MaxPosts
Ready == 0      \* the two events that are no message
Resumed == -1

Phases == {"off", "connect", "hello", "events", "waiting", "stopped"}

TypeOK ==
  /\ phase \in Phases /\ {running, connected} \subseteq BOOLEAN
  /\ session \in Nat /\ lastSeq \in Nat
  /\ attempt \in 0 .. MaxAttempts /\ backoff \in 1 .. MaxBackoff
  /\ holding \in Posts \union {0}
  /\ Len(inbox) <= InboxCap /\ posted \in 0 .. MaxPosts

Init ==
  /\ phase = "off" /\ running = FALSE /\ connected = FALSE
  /\ session = 0 /\ lastSeq = 0 /\ attempt = 0 /\ backoff = 1
  /\ holding = 0 /\ live = 0 /\ log = <<>> /\ cursor = 0 /\ posted = 0
  /\ inbox = <<>> /\ taken = <<>> /\ late = 0

-----------------------------------------------------------------------------
(* The channel object                                                      *)

\* The token is valid: the listener task is spawned.
Connect ==
  /\ phase = "off"
  /\ connected' = TRUE /\ running' = TRUE
  /\ phase' = "connect"
  /\ UNCHANGED <<session, lastSeq, attempt, backoff, holding, taken, late,
                 discord, inbox>>

Disconnect ==
  /\ connected
  /\ connected' = FALSE /\ running' = FALSE
  /\ UNCHANGED <<client, discord, inbox>>

-----------------------------------------------------------------------------
(* run_gateway: what the outer loop does with the outcome of a session     *)

\* Fault: no maximum.
Doubled == 2 * backoff

NextBackoff == IF 2 * backoff < MaxBackoff THEN 2 * backoff ELSE MaxBackoff

Forget(forget) ==
  /\ session' = IF forget THEN 0 ELSE session
  /\ lastSeq' = IF forget THEN 0 ELSE lastSeq

\* A session ended; nothing is done about it once the channel is stopped.
\* "again" is INVALID_SESSION with d: true, which has a delay of its own.
Ended(outcome) ==
  /\ IF running
     THEN /\ phase' = "waiting"
          /\ attempt' = attempt + 1
          /\ backoff' = IF outcome = "again" THEN backoff ELSE NextBackoff
          /\ Forget(outcome = "fresh")
     ELSE phase' = "stopped" /\ UNCHANGED <<attempt, backoff, session, lastSeq>>

\* The sleep is over.
Retry ==
  /\ phase = "waiting"
  /\ phase' = IF running /\ attempt < MaxAttempts THEN "connect" ELSE "stopped"
  /\ UNCHANGED <<session, lastSeq, attempt, backoff, holding, taken, late,
                 flags, discord, inbox>>

-----------------------------------------------------------------------------
(* run_gateway_session                                                     *)

ConnectFails ==
  /\ phase = "connect"
  /\ Ended("resume")
  /\ UNCHANGED <<holding, taken, late, flags, discord, inbox>>

Opens ==
  /\ phase = "connect"
  /\ phase' = "hello"
  /\ UNCHANGED <<session, lastSeq, attempt, backoff, holding, taken, late,
                 flags, discord, inbox>>

\* A HELLO that cannot be parsed is fatal.
BadHello ==
  /\ phase = "hello"
  /\ phase' = "stopped"
  /\ UNCHANGED <<session, lastSeq, attempt, backoff, holding, taken, late,
                 flags, discord, inbox>>

\* Without a session to resume: IDENTIFY, to which Discord opens a new one.
Identify ==
  /\ phase = "hello" /\ session = 0
  /\ phase' = IF running THEN "events" ELSE "stopped"
  /\ live' = attempt + 1 /\ log' = <<Ready>> /\ cursor' = 1
  /\ UNCHANGED <<session, lastSeq, attempt, backoff, holding, taken, late,
                 flags, posted, inbox>>

ResumeSeq == lastSeq

\* RESUME: Discord replays what follows and ends with RESUMED, if it still
\* knows the session; otherwise an INVALID_SESSION is all that will come.
Resume ==
  /\ phase = "hello" /\ session # 0
  /\ phase' = IF running THEN "events" ELSE "stopped"
  /\ IF session = live
     THEN cursor' = ResumeSeq + 1 /\ log' = Append(log, Resumed)
     ELSE cursor' = 0 /\ UNCHANGED log
  /\ UNCHANGED <<session, lastSeq, attempt, backoff, holding, taken, late,
                 flags, live, posted, inbox>>

InLoop == phase = "events" /\ holding = 0

\* The condition of the loop, after an event.
Loop == phase' = IF running THEN "events" ELSE "stopped"
Arrives == InLoop /\ cursor \in 1 .. Len(log)

CountEvent == lastSeq' = cursor

\* READY and RESUMED.
Greeting ==
  /\ Arrives /\ log[cursor] \in {Ready, Resumed}
  /\ CountEvent
  /\ session' = IF log[cursor] = Ready THEN live ELSE session
  /\ cursor' = cursor + 1
  /\ Loop
  /\ UNCHANGED <<attempt, backoff, holding, taken, late, flags, live, log, posted, inbox>>

\* MESSAGE_CREATE: a command is answered and a blank message skipped on the
\* spot, anything else has to find room in the inbound channel.
MessageEvent ==
  /\ Arrives /\ log[cursor] \in Posts
  /\ CountEvent
  /\ taken' = Append(taken, log[cursor])
  /\ late' = late + (IF running THEN 0 ELSE 1)
  /\ cursor' = cursor + 1
  /\ IF log[cursor] \in Commands \union Blank
     THEN Loop /\ UNCHANGED holding
     ELSE holding' = log[cursor] /\ UNCHANGED phase
  /\ UNCHANGED <<session, attempt, backoff, flags, live, log, posted, inbox>>

\* dispatch_message: handler.send(inbound).await goes through.
DispatchMessage ==
  /\ holding # 0 /\ Len(inbox) < InboxCap
  /\ inbox' = Append(inbox, holding)
  /\ holding' = 0
  /\ Loop
  /\ UNCHANGED <<session, lastSeq, attempt, backoff, taken, late, flags, discord>>

\* INVALID_SESSION, d: false, in answer to a RESUME of a forgotten session.
Rejected ==
  /\ InLoop /\ cursor = 0
  /\ Ended("fresh")
  /\ UNCHANGED <<holding, taken, late, flags, discord, inbox>>

\* INVALID_SESSION at any other time.
InvalidSession(resumable) ==
  /\ InLoop /\ cursor # 0
  /\ Ended(IF resumable THEN "again" ELSE "fresh")
  /\ live' = IF resumable THEN live ELSE 0
  /\ log' = IF resumable THEN log ELSE <<>>
  /\ UNCHANGED <<cursor, posted, holding, taken, late, flags, inbox>>

\* The heartbeat's tick wakes a loop to which nothing arrives.
HeartbeatTick ==
  /\ InLoop /\ ~running
  /\ Loop
  /\ UNCHANGED <<session, lastSeq, attempt, backoff, holding, taken, late,
                 flags, discord, inbox>>

\* RECONNECT, a close, a read error, a heartbeat that cannot be written, or
\* the same before HELLO.
Dropped ==
  /\ InLoop \/ phase = "hello"
  /\ Ended("resume")
  /\ UNCHANGED <<holding, taken, late, flags, discord, inbox>>

Progress ==
  \/ Retry \/ Opens \/ Identify \/ Resume \/ Greeting \/ MessageEvent
  \/ DispatchMessage \/ Rejected \/ HeartbeatTick

Faults ==
  ConnectFails \/ BadHello \/ Dropped \/ \E resumable \in BOOLEAN : InvalidSession(resumable)

-----------------------------------------------------------------------------
(* Discord's users, Discord and the agent loop                             *)

\* Without a session there is nobody Discord would keep the event for.
Post ==
  /\ posted < MaxPosts
  /\ posted' = posted + 1
  /\ log' = IF live = 0 THEN log ELSE Append(log, posted + 1)
  /\ UNCHANGED <<live, cursor, client, flags, inbox>>

SessionForgotten ==
  /\ live # 0 /\ phase \in {"waiting", "connect"}
  /\ live' = 0 /\ log' = <<>>
  /\ UNCHANGED <<cursor, posted, client, flags, inbox>>

ConsumeInbound ==
  /\ inbox # <<>>
  /\ inbox' = Tail(inbox)
  /\ UNCHANGED <<client, flags, discord>>

Next ==
  \/ Connect \/ Disconnect \/ Progress \/ Faults
  \/ Post \/ SessionForgotten \/ ConsumeInbound

\* What the listener does by itself; Discord, users and faults may do nothing.
Spec == Init /\ [][Next]_vars /\ WF_vars(Progress) /\ WF_vars(ConsumeInbound)

-----------------------------------------------------------------------------
(* Properties                                                              *)

\* The agent is handed the events in the order Discord has them, none of them
\* twice, and none that arrived or was replayed is passed over, through any
\* number of dropped connections and resumed sessions.
EachEventOnce ==
  /\ \A i, j \in DOMAIN taken : i < j => taken[i] < taken[j]
  /\ live # 0 =>
       \A i \in DOMAIN log : i < cursor /\ log[i] \in Posts => \E j \in DOMAIN taken : taken[j] = log[i]

\* After disconnect the listener takes at most the one event its select was
\* already waiting for.
StopsTaking == late <= 1

\* What a user posts while Discord keeps a session for the bot is taken from
\* the gateway sooner or later, unless the session is given up (by Discord, or
\* because its READY was lost and the bot identified anew) or the listener
\* ends, by disconnect, a bad HELLO or a spent budget of attempts.
Unheard ==
  /\ phase # "stopped"
  /\ \E i \in DOMAIN log : log[i] \in Posts /\ \A j \in DOMAIN taken : taken[j] # log[i]

Heard == Unheard ~> ~Unheard
=============================================================================
