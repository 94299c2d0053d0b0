----------------------------- MODULE AgentLoop -----------------------------
(***************************************************************************)
(* The agent loop of the gateway: AgentLoop::run takes inbound messages    *)
(* from the bus one at a time and drives each through process_message      *)
(* under the per-message deadline, while a background listener turns       *)
(* InterruptRequested events into cancelled tokens.                        *)
(*                                                                         *)
(* A step of the main task ends where the code can be descheduled: at the  *)
(* await of the select, of a publish, of the LLM call, of the backoff      *)
(* sleep, of the stream consumer's handle and of the hooks.  The token of  *)
(* a run is named by the message it was created for.                       *)
(*                                                                         *)
(* process_message's re-planning branch (the session already has a live    *)
(* token) and with it pending_messages are not modelled: run() is the only *)
(* caller that shares the map with anyone, and NoTokenAtSelect, proved in  *)
(* AgentLoopProofs, says it can never find a token there.                  *)
(***************************************************************************)
EXTENDS Integers, Sequences, FiniteSets

CONSTANTS
  Messages,       \* inbound messages
  Sessions,       \* session keys
  SessionOf,      \* InboundMessage::session_key
  StopMessages,   \* the messages whose content is "/stop"
  NoMessage,      \* no message in process, no token registered
  InboundCap,     \* capacity of the inbound mpsc channel
  OutboundCap,    \* capacity of the outbound mpsc channel
  EventCap,       \* capacity of the event broadcast channel
  MaxRetries,     \* max_retries of process_message
  MaxInterrupts,  \* bound on the InterruptRequested events of the channels
  Streaming       \* is a StreamConsumer spawned for each attempt?

ASSUME MessageAssumption ==
  /\ SessionOf \in [Messages -> Sessions]
  /\ StopMessages \subseteq Messages
  /\ NoMessage \notin Messages
ASSUME BoundAssumption ==
  /\ InboundCap \in Nat \ {0}
  /\ OutboundCap \in Nat \ {0}
  /\ EventCap \in Nat \ {0}
  /\ MaxRetries \in Nat
  /\ MaxInterrupts \in Nat
  /\ Streaming \in BOOLEAN

VARIABLES
  pc,          \* where the main task of run() is
  cur,         \* the message it is processing
  attempt,     \* retries made for cur
  result,      \* outcome of the runner for cur
  delivered,   \* did the stream consumer return a message id?
  arrived,     \* messages a channel has published
  inbound,     \* the inbound queue
  outbound,    \* the outbound queue
  replies,     \* history: the kinds of reply published for each message
  active,      \* active_sessions: the token registered for a session
  cancelled,   \* the tokens that have been cancelled
  events,      \* the interrupt listener's unread events
  interrupts,  \* how many InterruptRequested events were emitted
  listening,   \* is the interrupt listener running?
  shutdown     \* is shutdown_token cancelled?

loopVars == <<pc, cur, attempt, result, delivered>>
busVars  == <<arrived, inbound, outbound, replies>>
cancelVars == <<active, cancelled>>
eventVars  == <<events, interrupts, listening>>
vars == <<loopVars, busVars, cancelVars, eventVars, shutdown>>

-----------------------------------------------------------------------------

\* The phases of process_message after the token is registered ...
RunPhases == {"iterate", "llm", "backoff", "join", "reply", "finish", "cleanup"}
\* ... and all of it: what the timeout of run() covers.
Processing == {"prep"} \cup RunPhases
Phases == Processing \cup {"select", "stop", "expired", "stopped"}
Results == {"none", "ok", "cancelled", "error"}
ReplyKinds == {"answer", "streamed", "error", "timeout", "stopped"}

Interrupt(s) == [kind |-> "interrupt", session |-> s]
Lifecycle(s) == [kind |-> "lifecycle", session |-> s]
Events == [kind : {"interrupt", "lifecycle"}, session : Sessions]

\* broadcast::Sender::send: a full buffer forgets its oldest event.
Broadcast(e) ==
  events' = IF ~listening THEN events
            ELSE IF Len(events) < EventCap THEN Append(events, e)
            ELSE Append(Tail(events), e)

\* bus.publish_outbound(..).await: waits for room, then records the reply.
Publish(m, kind) ==
  /\ Len(outbound) < OutboundCap
  /\ outbound' = Append(outbound, [msg |-> m, kind |-> kind])
  /\ replies' = [replies EXCEPT ![m] = @ \cup {kind}]

\* active_sessions.remove(session), then cancel() on the token it held.
CancelSession(s) ==
  /\ active' = [active EXCEPT ![s] = NoMessage]
  /\ cancelled' = cancelled \cup ({active[s]} \ {NoMessage})

Init ==
  /\ pc = "select" /\ cur = NoMessage
  /\ attempt = 0 /\ result = "none" /\ delivered = FALSE
  /\ arrived = {} /\ inbound = <<>> /\ outbound = <<>>
  /\ replies = [m \in Messages |-> {}]
  /\ active = [s \in Sessions |-> NoMessage] /\ cancelled = {}
  /\ events = <<>> /\ interrupts = 0 /\ listening = TRUE
  /\ shutdown = FALSE

-----------------------------------------------------------------------------
(* The channels, the dispatcher of outbound messages, and stop().          *)

Arrive(m) ==
  /\ m \notin arrived
  /\ Len(inbound) < InboundCap
  /\ arrived' = arrived \cup {m}
  /\ inbound' = Append(inbound, m)
  /\ UNCHANGED <<loopVars, outbound, replies, cancelVars, eventVars, shutdown>>

RequestInterrupt(s) ==
  /\ interrupts < MaxInterrupts
  /\ interrupts' = interrupts + 1
  /\ Broadcast(Interrupt(s))
  /\ UNCHANGED <<loopVars, busVars, cancelVars, listening, shutdown>>

Dispatch ==
  /\ outbound # <<>>
  /\ outbound' = Tail(outbound)
  /\ UNCHANGED <<loopVars, arrived, inbound, replies, cancelVars, eventVars, shutdown>>

Stop ==
  /\ ~shutdown
  /\ shutdown' = TRUE
  /\ UNCHANGED <<loopVars, busVars, cancelVars, eventVars>>

-----------------------------------------------------------------------------
(* The interrupt listener.  Its select is biased towards the shutdown.     *)

Listen ==
  /\ listening /\ ~shutdown /\ events # <<>>
  /\ events' = Tail(events)
  /\ IF Head(events).kind = "interrupt"
     THEN CancelSession(Head(events).session)
     ELSE UNCHANGED cancelVars
  /\ UNCHANGED <<loopVars, busVars, interrupts, listening, shutdown>>

\* Fault: the listener only looks at the shutdown when an event wakes it.
ListenerExitOnEvent ==
  /\ listening /\ shutdown /\ events # <<>>
  /\ listening' = FALSE
  /\ events' = <<>>
  /\ UNCHANGED <<loopVars, busVars, cancelVars, interrupts, shutdown>>

ListenerExit ==
  /\ listening /\ shutdown
  /\ listening' = FALSE
  /\ events' = <<>>
  /\ UNCHANGED <<loopVars, busVars, cancelVars, interrupts, shutdown>>

-----------------------------------------------------------------------------
(* The main task: the select of run().                                     *)

Receive ==
  /\ pc = "select" /\ ~shutdown /\ inbound # <<>>
  /\ Head(inbound) \notin StopMessages
  /\ pc' = "prep" /\ cur' = Head(inbound)
  /\ attempt' = 0 /\ result' = "none" /\ delivered' = FALSE
  /\ inbound' = Tail(inbound)
  /\ Broadcast(Lifecycle(SessionOf[Head(inbound)]))
  /\ UNCHANGED <<arrived, outbound, replies, cancelVars, interrupts, listening, shutdown>>

ReceiveStop ==
  /\ pc = "select" /\ ~shutdown /\ inbound # <<>>
  /\ Head(inbound) \in StopMessages
  /\ pc' = "stop" /\ cur' = Head(inbound)
  /\ inbound' = Tail(inbound)
  /\ CancelSession(SessionOf[Head(inbound)])
  /\ UNCHANGED <<attempt, result, delivered, arrived, outbound, replies, eventVars, shutdown>>

ReplyStopped ==
  /\ pc = "stop"
  /\ Publish(cur, "stopped")
  /\ pc' = "select" /\ cur' = NoMessage
  /\ UNCHANGED <<attempt, result, delivered, arrived, inbound, cancelVars, eventVars, shutdown>>

Exit ==
  /\ pc = "select" /\ shutdown
  /\ pc' = "stopped"
  /\ UNCHANGED <<cur, attempt, result, delivered, busVars, cancelVars, eventVars, shutdown>>

-----------------------------------------------------------------------------
(* process_message.                                                        *)

\* The session is saved, memory recalled and the prompt built: the token is
\* created and registered only now.
BeginRun ==
  /\ pc = "prep"
  /\ pc' = "iterate"
  /\ active' = [active EXCEPT ![SessionOf[cur]] = cur]
  /\ UNCHANGED <<cur, attempt, result, delivered, busVars, cancelled, eventVars, shutdown>>

\* Fault: a retry polls a token of its own, which nobody cancels.
IterateWithOwnToken ==
  /\ pc = "iterate"
  /\ IF cur \in cancelled /\ attempt = 0
     THEN pc' = "join" /\ result' = "cancelled"
     ELSE pc' = "llm" /\ UNCHANGED result
  /\ UNCHANGED <<cur, attempt, delivered, busVars, cancelVars, eventVars, shutdown>>

\* The head of the runner's iteration looks at the token before the LLM.
Iterate ==
  /\ pc = "iterate"
  /\ IF cur \in cancelled
     THEN pc' = "join" /\ result' = "cancelled"
     ELSE pc' = "llm" /\ UNCHANGED result
  /\ UNCHANGED <<cur, attempt, delivered, busVars, cancelVars, eventVars, shutdown>>

\* The LLM asked for tools: they run, and their events go on the bus.
CallTools ==
  /\ pc = "llm"
  /\ pc' = "iterate"
  /\ Broadcast(Lifecycle(SessionOf[cur]))
  /\ UNCHANGED <<cur, attempt, result, delivered, busVars, cancelVars,
                 interrupts, listening, shutdown>>

\* A progress message of a long wait: try_send drops it when the queue is full.
Progress ==
  /\ pc = "llm"
  /\ Len(outbound) < OutboundCap
  /\ outbound' = Append(outbound, [msg |-> cur, kind |-> "progress"])
  /\ UNCHANGED <<loopVars, arrived, inbound, replies, cancelVars, eventVars, shutdown>>

\* The final content, or an error no retry is left for, or no time for one.
EndAttempt ==
  /\ pc = "llm"
  /\ pc' = "join"
  /\ result' \in {"ok", "error"}
  /\ UNCHANGED <<cur, attempt, delivered, busVars, cancelVars, eventVars, shutdown>>

\* Fault: the retry limit is not looked at.
FailWithoutLimit ==
  /\ pc = "llm"
  /\ pc' = "backoff"
  /\ UNCHANGED <<cur, attempt, result, delivered, busVars, cancelVars, eventVars, shutdown>>

\* Fault: the error is reported to the user before it is retried.
FailAndReport ==
  /\ pc = "llm" /\ attempt < MaxRetries
  /\ pc' = "backoff"
  /\ Publish(cur, "error")
  /\ UNCHANGED <<cur, attempt, result, delivered, arrived, inbound, cancelVars, eventVars, shutdown>>

FailTransiently ==
  /\ pc = "llm" /\ attempt < MaxRetries
  /\ pc' = "backoff"
  /\ UNCHANGED <<cur, attempt, result, delivered, busVars, cancelVars, eventVars, shutdown>>

\* Fault: each attempt registers the token of the run again.
RetryReregistering ==
  /\ pc = "backoff"
  /\ pc' = "iterate" /\ attempt' = attempt + 1
  /\ active' = [active EXCEPT ![SessionOf[cur]] = cur]
  /\ UNCHANGED <<cur, result, delivered, busVars, cancelled, eventVars, shutdown>>

Retry ==
  /\ pc = "backoff"
  /\ pc' = "iterate" /\ attempt' = attempt + 1
  /\ UNCHANGED <<cur, result, delivered, busVars, cancelVars, eventVars, shutdown>>

\* handle.await of the stream consumer.  After an error no done chunk was
\* sent, so only a tool or lifecycle event ends the consumer, if any does.
JoinConsumer ==
  /\ pc = "join"
  /\ pc' = "reply"
  /\ delivered' \in (IF Streaming THEN BOOLEAN ELSE {FALSE})
  /\ UNCHANGED <<cur, attempt, result, busVars, cancelVars, eventVars, shutdown>>

ReplyAnswer ==
  /\ pc = "reply" /\ result \in {"ok", "cancelled"}
  /\ IF delivered
     THEN /\ replies' = [replies EXCEPT ![cur] = @ \cup {"streamed"}]
          /\ UNCHANGED outbound
     ELSE Publish(cur, "answer")
  /\ pc' = "finish"
  /\ UNCHANGED <<cur, attempt, result, delivered, arrived, inbound, cancelVars,
                 eventVars, shutdown>>

ReplyError ==
  /\ pc = "reply" /\ result = "error"
  /\ Publish(cur, "error")
  /\ pc' = "finish"
  /\ UNCHANGED <<cur, attempt, result, delivered, arrived, inbound, cancelVars,
                 eventVars, shutdown>>

\* The Completed or Error event, then the hooks, which are awaited.
EmitOutcome ==
  /\ pc = "finish"
  /\ pc' = "cleanup"
  /\ Broadcast(Lifecycle(SessionOf[cur]))
  /\ UNCHANGED <<cur, attempt, result, delivered, busVars, cancelVars,
                 interrupts, listening, shutdown>>

\* Fault: the error path returns before the token is removed.
CleanupUnlessError ==
  /\ pc = "cleanup"
  /\ pc' = "select" /\ cur' = NoMessage
  /\ active' = IF result = "error" THEN active
               ELSE [active EXCEPT ![SessionOf[cur]] = NoMessage]
  /\ UNCHANGED <<attempt, result, delivered, busVars, cancelled, eventVars, shutdown>>

Cleanup ==
  /\ pc = "cleanup"
  /\ pc' = "select" /\ cur' = NoMessage
  /\ active' = [active EXCEPT ![SessionOf[cur]] = NoMessage]
  /\ UNCHANGED <<attempt, result, delivered, busVars, cancelled, eventVars, shutdown>>

-----------------------------------------------------------------------------
(* The deadline of run() drops process_message wherever it awaits.         *)

\* Fault: the deadline covers the runner, not the wait for the consumer.
TimeoutOfRunner ==
  /\ pc \in Processing \ {"join"}
  /\ pc' = "expired"
  /\ UNCHANGED <<cur, attempt, result, delivered, busVars, cancelVars, eventVars, shutdown>>

Timeout ==
  /\ pc \in Processing
  /\ pc' = "expired"
  /\ UNCHANGED <<cur, attempt, result, delivered, busVars, cancelVars, eventVars, shutdown>>

ReplyTimeout ==
  /\ pc = "expired"
  /\ Publish(cur, "timeout")
  /\ CancelSession(SessionOf[cur])
  /\ pc' = "select" /\ cur' = NoMessage
  /\ UNCHANGED <<attempt, result, delivered, arrived, inbound, eventVars, shutdown>>

Terminated ==
  /\ pc = "stopped" /\ ~listening
  /\ UNCHANGED vars

\* What the main task does whenever the runtime lets it go on ...
LoopStep ==
  \/ Receive \/ ReceiveStop \/ ReplyStopped \/ Exit
  \/ BeginRun \/ Iterate \/ Retry \/ ReplyAnswer \/ ReplyError
  \/ EmitOutcome \/ Cleanup \/ ReplyTimeout
\* ... and what waits for an answer from the provider, a tool or the consumer.
RunnerStep ==
  \/ CallTools \/ Progress \/ EndAttempt \/ FailTransiently \/ JoinConsumer

ListenerStep == Listen \/ ListenerExit

Next ==
  \/ \E m \in Messages : Arrive(m)
  \/ \E s \in Sessions : RequestInterrupt(s)
  \/ Dispatch \/ Stop
  \/ ListenerStep
  \/ LoopStep \/ RunnerStep \/ Timeout
  \/ Terminated

\* The runtime schedules the tasks, the timer fires, and the dispatcher keeps
\* taking messages.  Nothing says a provider, a tool or the consumer answers.
Fairness ==
  /\ WF_vars(LoopStep)
  /\ WF_vars(ListenerStep)
  /\ WF_vars(Timeout)
  /\ WF_vars(Dispatch)

Spec == Init /\ [][Next]_vars /\ Fairness
-----------------------------------------------------------------------------
(* Properties.                                                             *)

\* Every variable keeps its type, and no queue exceeds its capacity.
TypeOK ==
  /\ pc \in Phases
  /\ cur \in Messages \cup {NoMessage}
  /\ attempt \in 0 .. MaxRetries
  /\ result \in Results
  /\ delivered \in BOOLEAN
  /\ arrived \subseteq Messages
  /\ inbound \in Seq(Messages) /\ Len(inbound) <= InboundCap
  /\ outbound \in Seq([msg : Messages, kind : ReplyKinds \cup {"progress"}])
  /\ Len(outbound) <= OutboundCap
  /\ replies \in [Messages -> SUBSET ReplyKinds]
  /\ active \in [Sessions -> Messages \cup {NoMessage}]
  /\ cancelled \subseteq Messages
  /\ events \in Seq(Events) /\ Len(events) <= EventCap
  /\ interrupts \in 0 .. MaxInterrupts
  /\ listening \in BOOLEAN
  /\ shutdown \in BOOLEAN

\* A registered token is the one of the run in progress, under that run's own
\* session: neither the cleanup, nor a timeout, nor an interrupt leaves the
\* token of a finished or abandoned run behind in active_sessions.
TokenIsOfCurrentRun ==
  \A s \in Sessions :
    active[s] # NoMessage =>
      /\ active[s] = cur
      /\ SessionOf[cur] = s
      /\ pc \in RunPhases \cup {"expired"}

\* When run() goes back to its select, and when a message starts, no session
\* has a token: the re-planning branch of process_message and the
\* cancel_session of an inbound "/stop" can never find a run to interrupt.
NoTokenAtSelect ==
  pc \in {"select", "stop", "prep", "stopped"} =>
    \A s \in Sessions : active[s] = NoMessage

\* A token is only ever cancelled while its own run is in progress (an
\* interrupt that arrives late never marks a run that is over), and a
\* cancelled token is never registered again.
CancelHitsLiveRun ==
  [][/\ \A m \in cancelled' \ cancelled : m = cur /\ pc \in RunPhases \cup {"expired"}
     /\ \A s \in Sessions : active'[s] # active[s] => active'[s] \notin cancelled']_vars

\* Once a run is cancelled no further call of the provider starts for it, in
\* this attempt or in a retry: the token outlives the attempts.
NoCallAfterCancel ==
  [][pc # "llm" /\ pc' = "llm" => cur \notin cancelled]_vars

\* A message gets one verdict.  The only second one is the timeout's, when the
\* deadline passes between the reply and the end of process_message.
OneVerdict ==
  \A m \in Messages :
    /\ Cardinality(replies[m] \ {"timeout"}) <= 1
    /\ replies[m] # {} => m \in arrived
    /\ "stopped" \in replies[m] => replies[m] = {"stopped"}

\* After stop() both tasks end; the message in process is finished first.
ShutdownEnds == shutdown ~> (pc = "stopped" /\ ~listening)

-----------------------------------------------------------------------------
(* The loop as the mailbox of its users.  Tokens, retries, events and the  *)
(* outbound queue are hidden; a message is in hand from the moment it      *)
(* leaves the inbound queue until the main task is back at its select.     *)

M == INSTANCE Mailbox WITH
  Verdicts <- ReplyKinds, Late <- "timeout",
  sent <- arrived, box <- inbound, hand <- cur, verdicts <- replies, open <- ~shutdown

\* Whatever the provider, the tools, the stream consumer, an interrupt or the
\* deadline do, and whenever the shutdown comes: messages are taken in order,
\* none beside another, every one that is taken is answered, once or once more
\* by the deadline, and the loop comes back for the next (loop_mod.rs:242-340).
KeepsMailbox == M!Spec

=============================================================================
