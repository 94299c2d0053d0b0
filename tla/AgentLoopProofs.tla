-------------------------- MODULE AgentLoopProofs --------------------------
(* Proofs about AgentLoop for every set of messages and sessions, every     *)
(* capacity and every bound: types and tokens first; then that the loop     *)
(* keeps the mailbox, and what that rests on, where a message is and which  *)
(* verdicts it has when it is there.                                        *)
EXTENDS AgentLoop, FiniteSetTheorems, TLAPS

\* Where the sequence lemmas are needed below: what Append and Tail keep.
LEMMA AppendTyped ==
  ASSUME NEW S, NEW q \in Seq(S), NEW x \in S
  PROVE  Append(q, x) \in Seq(S) /\ Len(Append(q, x)) = Len(q) + 1
  OBVIOUS

\* What is left of a queue when its head is taken.
LEMMA TailTyped ==
  ASSUME NEW S, NEW q \in Seq(S), q # <<>>
  PROVE  /\ Tail(q) \in Seq(S)
         /\ Len(Tail(q)) = Len(q) - 1
         /\ Len(q) \in Nat \ {0}
         /\ Head(q) \in S
  OBVIOUS

-----------------------------------------------------------------------------

\* The message in process is there exactly while a phase works on it.
CurIsInProcess ==
  cur \in Messages <=> pc \in Processing \cup {"expired", "stop"}

\* A run only backs off when it has a retry left.
RetryLeft == pc = "backoff" => attempt < MaxRetries

\* The inductive invariant: the types, what cur is, and whose token it is.
TokenInv == TypeOK /\ CurIsInProcess /\ RetryLeft /\ TokenIsOfCurrentRun

\* A broadcast keeps the type of the listener's buffer.
LEMMA BroadcastTyped ==
  ASSUME events \in Seq(Events), Len(events) <= EventCap,
         NEW e \in Events, Broadcast(e)
  PROVE  events' \in Seq(Events) /\ Len(events') <= EventCap
<1>1. CASE ~listening
  BY <1>1 DEF Broadcast
<1>2. CASE listening /\ Len(events) < EventCap
  <2>1. events' = Append(events, e)
    BY <1>2 DEF Broadcast
  <2> QED
    BY <1>2, <2>1, BoundAssumption, AppendTyped
<1>3. CASE listening /\ ~(Len(events) < EventCap)
  <2>1. events' = Append(Tail(events), e)
    BY <1>3 DEF Broadcast
  <2>2. Len(events) \in Nat /\ EventCap \in Nat \ {0}
    BY BoundAssumption
  <2>3. events # <<>>
    BY <1>3, <2>2
  <2>4. Tail(events) \in Seq(Events) /\ Len(Tail(events)) = Len(events) - 1
    BY <2>3, TailTyped
  <2>5. /\ Append(Tail(events), e) \in Seq(Events)
        /\ Len(Append(Tail(events), e)) = Len(Tail(events)) + 1
    BY <2>4, AppendTyped
  <2> QED
    BY <2>1, <2>2, <2>4, <2>5
<1> QED
  BY <1>1, <1>2, <1>3

\* A publication keeps the type of the outbound queue and of the history.
LEMMA PublishTyped ==
  ASSUME TypeOK, NEW m \in Messages, NEW kind \in ReplyKinds, Publish(m, kind)
  PROVE  /\ outbound' \in Seq([msg : Messages, kind : ReplyKinds \cup {"progress"}])
         /\ Len(outbound') <= OutboundCap
         /\ replies' \in [Messages -> SUBSET ReplyKinds]
<1> DEFINE Reply == [msg |-> m, kind |-> kind]
           Replies == [msg : Messages, kind : ReplyKinds \cup {"progress"}]
<1>1. Reply \in Replies /\ outbound \in Seq(Replies)
  BY DEF TypeOK
<1>2. outbound' = Append(outbound, Reply) /\ Len(outbound) < OutboundCap
  BY DEF Publish
<1>3. Append(outbound, Reply) \in Seq(Replies) /\ Len(Append(outbound, Reply)) = Len(outbound) + 1
  BY <1>1, AppendTyped
<1>4. replies' \in [Messages -> SUBSET ReplyKinds]
  BY DEF Publish, TypeOK
<1> QED
  BY <1>1, <1>2, <1>3, <1>4, BoundAssumption

\* Cancelling a session keeps the types of the two token variables.
LEMMA CancelTyped ==
  ASSUME TypeOK, NEW s \in Sessions, CancelSession(s)
  PROVE  /\ active' \in [Sessions -> Messages \cup {NoMessage}]
         /\ cancelled' \subseteq Messages
  BY DEF CancelSession, TypeOK

\* The events that are published are events.
LEMMA EventsTyped ==
  ASSUME NEW s \in Sessions
  PROVE  Interrupt(s) \in Events /\ Lifecycle(s) \in Events
  BY DEF Interrupt, Lifecycle, Events

-----------------------------------------------------------------------------

\* Before the first message no token is registered.
LEMMA TokenInvInit == Init => TokenInv
<1> SUFFICES ASSUME Init
             PROVE  TokenInv
  OBVIOUS
<1> USE BoundAssumption, MessageAssumption DEF Init
<1>1. /\ pc \in Phases /\ result \in Results
      /\ CurIsInProcess
    BY DEF Phases, Results, CurIsInProcess, Processing, RunPhases
<1>2. /\ delivered \in BOOLEAN /\ listening \in BOOLEAN /\ shutdown \in BOOLEAN
    BY Zenon
<1>3. /\ inbound \in Seq(Messages) /\ Len(inbound) <= InboundCap
      /\ outbound \in Seq([msg : Messages, kind : ReplyKinds \cup {"progress"}])
      /\ Len(outbound) <= OutboundCap
      /\ events \in Seq(Events) /\ Len(events) <= EventCap
    OBVIOUS
<1>4. /\ attempt \in 0 .. MaxRetries /\ interrupts \in 0 .. MaxInterrupts
      /\ RetryLeft
    BY DEF RetryLeft
<1>5. /\ cur \in Messages \cup {NoMessage} /\ arrived \subseteq Messages
      /\ replies \in [Messages -> SUBSET ReplyKinds]
      /\ active \in [Sessions -> Messages \cup {NoMessage}] /\ cancelled \subseteq Messages
    OBVIOUS
<1>6. TokenIsOfCurrentRun
    BY DEF TokenIsOfCurrentRun
<1> QED
    BY <1>1, <1>2, <1>3, <1>4, <1>5, <1>6 DEF TokenInv, TypeOK

\* Every step keeps the tokens' invariant.
LEMMA TokenInvStep == TokenInv /\ [Next]_vars => TokenInv'
<1> SUFFICES ASSUME TokenInv, [Next]_vars
             PROVE  TokenInv'
  OBVIOUS
<1> USE BoundAssumption, MessageAssumption
<1> USE DEF TokenInv, TypeOK, CurIsInProcess, RetryLeft, TokenIsOfCurrentRun, Phases, Processing,
            RunPhases, Results, loopVars, busVars, cancelVars, eventVars
<1>1. ASSUME NEW m \in Messages, Arrive(m)
      PROVE  TokenInv'
  BY <1>1 DEF Arrive
<1>2. ASSUME NEW s \in Sessions, RequestInterrupt(s)
      PROVE  TokenInv'
  <2>1. events' \in Seq(Events) /\ Len(events') <= EventCap
    BY <1>2, BroadcastTyped, EventsTyped DEF RequestInterrupt
  <2>2. interrupts' \in 0 .. MaxInterrupts
    BY <1>2 DEF RequestInterrupt
  <2> QED
    BY <1>2, <2>1, <2>2 DEF RequestInterrupt
<1>3. CASE Dispatch
  BY <1>3 DEF Dispatch
<1>4. CASE Stop
  BY <1>4 DEF Stop
<1>5. CASE Listen
  <2>1. events' \in Seq(Events) /\ Len(events') <= EventCap /\ Head(events) \in Events
    BY <1>5, TailTyped DEF Listen
  <2>2. CASE Head(events).kind = "interrupt"
    <3>1. Head(events).session \in Sessions
      BY <2>1 DEF Events
    <3> QED
      BY <1>5, <2>1, <2>2, <3>1 DEF Listen, CancelSession
  <2>3. CASE Head(events).kind # "interrupt"
    BY <1>5, <2>1, <2>3 DEF Listen
  <2> QED
    BY <2>2, <2>3
<1>6. CASE ListenerExit
  <2>1. events' \in Seq(Events) /\ Len(events') <= EventCap
    BY <1>6 DEF ListenerExit
  <2>2. listening' \in BOOLEAN
    BY <1>6, Zenon DEF ListenerExit
  <2> QED
    BY <1>6, <2>1, <2>2 DEF ListenerExit
<1>7. CASE Receive
  <2>1. Head(inbound) \in Messages /\ inbound' \in Seq(Messages) /\ Len(inbound') <= InboundCap
    BY <1>7, TailTyped DEF Receive
  <2>2. events' \in Seq(Events) /\ Len(events') <= EventCap
    BY <1>7, <2>1, BroadcastTyped, EventsTyped DEF Receive
  <2>3. cur' \in Messages /\ pc' = "prep" /\ delivered' \in BOOLEAN
    BY <1>7, <2>1 DEF Receive
  <2>4. \A s \in Sessions : active'[s] = NoMessage
    BY <1>7 DEF Receive
  <2> QED
    BY <1>7, <2>1, <2>2, <2>3, <2>4 DEF Receive
<1>8. CASE ReceiveStop
  <2>1. Head(inbound) \in Messages /\ inbound' \in Seq(Messages) /\ Len(inbound') <= InboundCap
    BY <1>8, TailTyped DEF ReceiveStop
  <2> QED
    BY <1>8, <2>1 DEF ReceiveStop, CancelSession
<1>9. CASE ReplyStopped
  <2>1. cur \in Messages /\ "stopped" \in ReplyKinds
    BY <1>9 DEF ReplyStopped, ReplyKinds
  <2>2. /\ outbound' \in Seq([msg : Messages, kind : ReplyKinds \cup {"progress"}])
        /\ Len(outbound') <= OutboundCap
        /\ replies' \in [Messages -> SUBSET ReplyKinds]
    BY <1>9, <2>1, PublishTyped DEF ReplyStopped
  <2> QED
    BY <1>9, <2>2 DEF ReplyStopped
<1>10. CASE Exit
  BY <1>10 DEF Exit
<1>11. CASE BeginRun
  BY <1>11 DEF BeginRun
<1>12. CASE Iterate
  BY <1>12 DEF Iterate
<1>13. CASE Retry
  BY <1>13 DEF Retry
<1>14. CASE ReplyAnswer
  <2>1. cur \in Messages /\ {"answer", "streamed"} \subseteq ReplyKinds
    BY <1>14 DEF ReplyAnswer, ReplyKinds
  <2>2. /\ outbound' \in Seq([msg : Messages, kind : ReplyKinds \cup {"progress"}])
        /\ Len(outbound') <= OutboundCap
        /\ replies' \in [Messages -> SUBSET ReplyKinds]
    <3>1. CASE delivered
      BY <1>14, <2>1, <3>1 DEF ReplyAnswer
    <3>2. CASE ~delivered
      BY <1>14, <2>1, <3>2, PublishTyped DEF ReplyAnswer
    <3> QED
      BY <3>1, <3>2
  <2> QED
    BY <1>14, <2>2 DEF ReplyAnswer
<1>15. CASE ReplyError
  <2>1. cur \in Messages /\ "error" \in ReplyKinds
    BY <1>15 DEF ReplyError, ReplyKinds
  <2>2. /\ outbound' \in Seq([msg : Messages, kind : ReplyKinds \cup {"progress"}])
        /\ Len(outbound') <= OutboundCap
        /\ replies' \in [Messages -> SUBSET ReplyKinds]
    BY <1>15, <2>1, PublishTyped DEF ReplyError
  <2> QED
    BY <1>15, <2>2 DEF ReplyError
<1>16. CASE EmitOutcome
  <2>1. SessionOf[cur] \in Sessions
    BY <1>16 DEF EmitOutcome
  <2>2. events' \in Seq(Events) /\ Len(events') <= EventCap
    BY <1>16, <2>1, BroadcastTyped, EventsTyped DEF EmitOutcome
  <2> QED
    BY <1>16, <2>2 DEF EmitOutcome
<1>17. CASE Cleanup
  BY <1>17 DEF Cleanup
<1>18. CASE ReplyTimeout
  <2>1. cur \in Messages /\ "timeout" \in ReplyKinds
    BY <1>18 DEF ReplyTimeout, ReplyKinds
  <2>2. /\ outbound' \in Seq([msg : Messages, kind : ReplyKinds \cup {"progress"}])
        /\ Len(outbound') <= OutboundCap
        /\ replies' \in [Messages -> SUBSET ReplyKinds]
    BY <1>18, <2>1, PublishTyped DEF ReplyTimeout
  <2>3. \A s \in Sessions : active'[s] = NoMessage
    BY <1>18, <2>1 DEF ReplyTimeout, CancelSession
  <2> QED
    BY <1>18, <2>2, <2>3 DEF ReplyTimeout, CancelSession
<1>19. CASE CallTools
  <2>1. SessionOf[cur] \in Sessions
    BY <1>19 DEF CallTools
  <2>2. events' \in Seq(Events) /\ Len(events') <= EventCap
    BY <1>19, <2>1, BroadcastTyped, EventsTyped DEF CallTools
  <2> QED
    BY <1>19, <2>2 DEF CallTools
<1>20. CASE Progress
  BY <1>20 DEF Progress
<1>21. CASE EndAttempt
  BY <1>21 DEF EndAttempt
<1>22. CASE FailTransiently
  BY <1>22 DEF FailTransiently
<1>23. CASE JoinConsumer
  BY <1>23 DEF JoinConsumer
<1>24. CASE Timeout
  BY <1>24 DEF Timeout
<1>25. CASE UNCHANGED vars
  BY <1>25 DEF vars
<1> QED
  BY <1>1, <1>2, <1>3, <1>4, <1>5, <1>6, <1>7, <1>8, <1>9, <1>10, <1>11, <1>12,
     <1>13, <1>14, <1>15, <1>16, <1>17, <1>18, <1>19, <1>20, <1>21, <1>22, <1>23, <1>24, <1>25
     DEF Next, LoopStep, RunnerStep, ListenerStep, Terminated

\* The types hold in every reachable state, for every value of the constants.
THEOREM TypeCorrect == Spec => []TypeOK
<1>1. TokenInv => TypeOK
  BY DEF TokenInv
<1> QED
  BY <1>1, TokenInvInit, TokenInvStep, PTL DEF Spec

\* active_sessions never holds the token of a run that is over.
THEOREM TokensAreLive == Spec => []TokenIsOfCurrentRun
<1>1. TokenInv => TokenIsOfCurrentRun
  BY DEF TokenInv
<1> QED
  BY <1>1, TokenInvInit, TokenInvStep, PTL DEF Spec

\* The re-planning branch and the cancellation by an inbound "/stop" are
\* unreachable in run(): nothing is registered when a message starts.
THEOREM NothingToInterruptAtSelect == Spec => []NoTokenAtSelect
<1>1. TokenIsOfCurrentRun => NoTokenAtSelect
  BY DEF TokenIsOfCurrentRun, NoTokenAtSelect, RunPhases
<1> QED
  BY <1>1, TokensAreLive, PTL

-----------------------------------------------------------------------------
(* The mailbox.                                                             *)

\* The phases in which nothing has been said of the message in hand.
Unsettled == {"prep", "iterate", "llm", "backoff", "join", "reply", "stop"}

\* A message that waits is there once, is not in hand, and has no verdict.
WaitingIsFresh ==
  /\ \A i \in 1 .. Len(inbound) :
       inbound[i] \in arrived /\ inbound[i] # cur /\ replies[inbound[i]] = {}
  /\ \A i, j \in 1 .. Len(inbound) : inbound[i] = inbound[j] => i = j

\* What arrived is all there is to speak of.
OnlyArrived ==
  /\ cur # NoMessage => cur \in arrived
  /\ \A m \in Messages \ arrived : replies[m] = {}

\* What has been said of the message in hand, phase by phase.
SaidOfCur ==
  /\ pc \in Unsettled => replies[cur] = {}
  /\ pc \in {"finish", "cleanup"} => replies[cur] # {}
  /\ pc \in Processing \cup {"expired"} => replies[cur] \cap {"stopped", "timeout"} = {}

\* Of each message: one verdict at most, the deadline's aside.
SaidOnce ==
  \A m \in Messages :
    /\ \A k, l \in replies[m] \ {"timeout"} : k = l
    /\ "stopped" \in replies[m] => replies[m] = {"stopped"}

\* The tokens cancelled so far are of messages whose run has been registered.
CancelledHadRun ==
  \A m \in cancelled :
    /\ m \in arrived
    /\ \A i \in 1 .. Len(inbound) : inbound[i] # m
    /\ m = cur => pc \in RunPhases \cup {"expired"}

\* The inductive invariant.
MailInv ==
  TokenInv /\ WaitingIsFresh /\ OnlyArrived /\ SaidOfCur /\ SaidOnce /\ CancelledHadRun

-----------------------------------------------------------------------------
\* What the elements of a queue are after Append and after Tail.
LEMMA AppendAt ==
  ASSUME NEW S, NEW q \in Seq(S), NEW x \in S
  PROVE  /\ Len(Append(q, x)) = Len(q) + 1
         /\ \A i \in 1 .. Len(q) : Append(q, x)[i] = q[i]
         /\ Append(q, x)[Len(q) + 1] = x
  OBVIOUS

\* What is left of a queue when its head is taken, place by place.
LEMMA TailAt ==
  ASSUME NEW S, NEW q \in Seq(S), q # <<>>
  PROVE  /\ Len(Tail(q)) = Len(q) - 1 /\ Len(q) \in Nat \ {0}
         /\ \A i \in 1 .. Len(q) - 1 : Tail(q)[i] = q[i + 1]
         /\ Head(q) = q[1]
  OBVIOUS

\* A message that has just arrived joins the others as fresh as they are.
LEMMA ArriveKeeps ==
  ASSUME TypeOK, WaitingIsFresh, OnlyArrived, CancelledHadRun, NEW m \in Messages, Arrive(m)
  PROVE  WaitingIsFresh' /\ OnlyArrived' /\ CancelledHadRun'
<1> USE MessageAssumption DEF TypeOK, Arrive, loopVars, cancelVars
<1>1. /\ inbound' = Append(inbound, m) /\ Len(inbound') = Len(inbound) + 1 /\ Len(inbound) \in Nat
      /\ \A i \in 1 .. Len(inbound) : inbound'[i] = inbound[i]
      /\ inbound'[Len(inbound) + 1] = m
  BY AppendAt
<1>2. /\ arrived' = arrived \cup {m} /\ m \notin arrived
      /\ UNCHANGED <<cur, pc, replies, cancelled>>
  OBVIOUS
<1>3. \A i \in 1 .. Len(inbound) : inbound[i] # m
  BY <1>2 DEF WaitingIsFresh
<1>4. m # cur /\ replies[m] = {} /\ m \notin cancelled
  BY <1>2 DEF OnlyArrived, CancelledHadRun
<1>5. WaitingIsFresh'
  <2>1. ASSUME NEW i \in 1 .. Len(inbound')
        PROVE  inbound'[i] \in arrived' /\ inbound'[i] # cur' /\ replies'[inbound'[i]] = {}
    BY <1>1, <1>2, <1>4, <2>1 DEF WaitingIsFresh
  <2>2. ASSUME NEW i \in 1 .. Len(inbound'), NEW j \in 1 .. Len(inbound'), inbound'[i] = inbound'[j]
        PROVE  i = j
    BY <1>1, <1>3, <2>2 DEF WaitingIsFresh
  <2> QED
    BY <2>1, <2>2 DEF WaitingIsFresh
<1>6. OnlyArrived'
  BY <1>2 DEF OnlyArrived
<1>7. CancelledHadRun'
  BY <1>1, <1>2, <1>4 DEF CancelledHadRun
<1> QED
  BY <1>5, <1>6, <1>7

\* The message at the head of the queue is taken in hand.
LEMMA TakeKeeps ==
  ASSUME TypeOK, WaitingIsFresh, OnlyArrived, cur = NoMessage, inbound # <<>>,
         cur' = Head(inbound), inbound' = Tail(inbound), UNCHANGED <<arrived, replies>>
  PROVE  /\ WaitingIsFresh' /\ OnlyArrived'
         /\ cur' \in Messages /\ replies[cur'] = {}
         /\ \A i \in 1 .. Len(inbound') : inbound'[i] # cur'
         /\ \A m : (\A i \in 1 .. Len(inbound) : inbound[i] # m) =>
                     m # cur' /\ \A i \in 1 .. Len(inbound') : inbound'[i] # m
<1> USE DEF TypeOK
<1>1. /\ Len(inbound') = Len(inbound) - 1 /\ Len(inbound) \in Nat \ {0}
      /\ \A i \in 1 .. Len(inbound') : inbound'[i] = inbound[i + 1]
      /\ cur' = inbound[1]
  BY TailAt
<1>2. cur' \in Messages
  BY TailTyped
<1>3. cur' \in arrived /\ replies[cur'] = {}
  BY <1>1 DEF WaitingIsFresh
<1>4. WaitingIsFresh'
  <2>1. ASSUME NEW i \in 1 .. Len(inbound')
        PROVE  inbound'[i] \in arrived' /\ inbound'[i] # cur' /\ replies'[inbound'[i]] = {}
    BY <1>1, <2>1 DEF WaitingIsFresh
  <2>2. ASSUME NEW i \in 1 .. Len(inbound'), NEW j \in 1 .. Len(inbound'), inbound'[i] = inbound'[j]
        PROVE  i = j
    BY <1>1, <2>2 DEF WaitingIsFresh
  <2> QED
    BY <2>1, <2>2 DEF WaitingIsFresh
<1>5. OnlyArrived'
  BY <1>3 DEF OnlyArrived
<1>6. \A m : (\A i \in 1 .. Len(inbound) : inbound[i] # m) =>
               m # cur' /\ \A i \in 1 .. Len(inbound') : inbound'[i] # m
  BY <1>1
<1> QED
  BY <1>2, <1>3, <1>4, <1>5, <1>6 DEF WaitingIsFresh

\* A verdict on the message in hand disturbs no other message.
LEMMA VerdictKeeps ==
  ASSUME TypeOK, WaitingIsFresh, OnlyArrived, SaidOnce,
         cur \in Messages, NEW kind \in ReplyKinds,
         replies' = [replies EXCEPT ![cur] = @ \cup {kind}],
         cur' \in {cur, NoMessage}, UNCHANGED <<arrived, inbound>>,
         replies[cur] = {} \/ (kind = "timeout" /\ "stopped" \notin replies[cur])
  PROVE  WaitingIsFresh' /\ OnlyArrived' /\ SaidOnce'
<1> USE MessageAssumption DEF TypeOK
<1>1. \A m \in Messages : replies'[m] = IF m = cur THEN replies[cur] \cup {kind} ELSE replies[m]
  OBVIOUS
<1>2. \A i \in 1 .. Len(inbound) : inbound[i] \in Messages
  OBVIOUS
<1>3. WaitingIsFresh'
  BY <1>1, <1>2 DEF WaitingIsFresh
<1>4. OnlyArrived'
  BY <1>1 DEF OnlyArrived
<1>5. SaidOnce'
  BY <1>1 DEF SaidOnce
<1> QED
  BY <1>3, <1>4, <1>5

\* What all actions have in common that touch neither the inbound queue nor
\* the verdicts nor the message in hand.
Undisturbed == UNCHANGED <<cur, arrived, inbound, replies>>

\* A step that neither takes, adds nor answers a message.
LEMMA UndisturbedKeeps ==
  ASSUME WaitingIsFresh, OnlyArrived, SaidOnce, Undisturbed
  PROVE  WaitingIsFresh' /\ OnlyArrived' /\ SaidOnce'
  BY DEF WaitingIsFresh, OnlyArrived, SaidOnce, Undisturbed

\* Before the first message nothing was said.
LEMMA MailInvInit == Init => MailInv
<1> SUFFICES ASSUME Init
             PROVE  MailInv
  OBVIOUS
<1>1. WaitingIsFresh /\ OnlyArrived /\ CancelledHadRun
  BY DEF Init, WaitingIsFresh, OnlyArrived, CancelledHadRun
<1>2. SaidOfCur /\ SaidOnce
  BY DEF Init, SaidOfCur, SaidOnce, Unsettled, Processing, RunPhases
<1> QED
  BY <1>1, <1>2, TokenInvInit DEF MailInv

\* The tokens an interrupt or a deadline cancels are of the run in progress.
LEMMA CancelKeeps ==
  ASSUME TokenInv, CancelledHadRun, OnlyArrived, WaitingIsFresh, NEW s \in Sessions,
         CancelSession(s), UNCHANGED <<arrived, inbound>>,
         cur' \in {cur, NoMessage}, cur' = cur => UNCHANGED pc
  PROVE  /\ CancelledHadRun'
         /\ \A m \in cancelled' \ cancelled : m = cur /\ pc \in RunPhases \cup {"expired"}
         /\ \A t \in Sessions : active'[t] # active[t] => active'[t] = NoMessage
<1> USE MessageAssumption DEF TokenInv, TypeOK
<1>1. \A m \in cancelled' \ cancelled : m = cur /\ m # NoMessage /\ pc \in RunPhases \cup {"expired"}
  BY DEF CancelSession, TokenIsOfCurrentRun
<1>2. \A t \in Sessions : active'[t] # active[t] => active'[t] = NoMessage
  BY DEF CancelSession
<1>3. cancelled' \subseteq Messages
  BY CancelTyped
<1>4. CancelledHadRun'
  <2>1. ASSUME NEW m \in cancelled'
        PROVE  m \in arrived /\ \A i \in 1 .. Len(inbound) : inbound[i] # m
    BY <1>1, <1>3 DEF CancelledHadRun, OnlyArrived, WaitingIsFresh
  <2>2. ASSUME NEW m \in cancelled', m = cur'
        PROVE  pc' \in RunPhases \cup {"expired"}
    BY <1>1, <1>3, <2>2 DEF CancelledHadRun
  <2> QED
    BY <2>1, <2>2 DEF CancelledHadRun
<1> QED
  BY <1>1, <1>2, <1>4

\* Every step keeps the mailbox's invariant.
LEMMA MailInvStep == MailInv /\ [Next]_vars => MailInv'
<1> SUFFICES ASSUME MailInv, [Next]_vars
             PROVE  MailInv'
  OBVIOUS
<1> USE DEF MailInv
<1>0. TokenInv'
  BY TokenInvStep
<1>t. TypeOK /\ CurIsInProcess /\ TypeOK' /\ CurIsInProcess'
  BY <1>0 DEF TokenInv
<1> USE MessageAssumption DEF loopVars, busVars, cancelVars, eventVars
<1>1. ASSUME NEW m \in Messages, Arrive(m)
      PROVE  MailInv'
  <2>1. SaidOfCur' /\ SaidOnce'
    BY <1>1 DEF Arrive, SaidOfCur, SaidOnce
  <2> QED
    BY <1>0, <1>t, <1>1, <2>1, ArriveKeeps
<1>2. CASE \/ \E s \in Sessions : RequestInterrupt(s)
           \/ Dispatch \/ Stop \/ ListenerExit \/ Exit \/ BeginRun \/ Iterate \/ Retry
           \/ EmitOutcome \/ CallTools \/ Progress \/ EndAttempt \/ FailTransiently
           \/ JoinConsumer \/ Timeout \/ Terminated \/ UNCHANGED vars
  <2>1. Undisturbed /\ UNCHANGED cancelled
    BY <1>2 DEF Undisturbed, RequestInterrupt, Dispatch, Stop, ListenerExit, Exit, BeginRun,
       Iterate, Retry, EmitOutcome, CallTools, Progress, EndAttempt, FailTransiently,
       JoinConsumer, Timeout, Terminated, vars
  <2>2. \/ UNCHANGED pc
        \/ pc = "finish" /\ pc' = "cleanup"
        \/ pc = "select" /\ pc' = "stopped"
        \/ pc \in Processing /\ pc' = "expired"
        \/ pc \in Unsettled /\ pc' \in Unsettled /\ pc # "stop" /\ pc' \in RunPhases
    BY <1>2 DEF RequestInterrupt, Dispatch, Stop, ListenerExit, Exit, BeginRun,
       Iterate, Retry, EmitOutcome, CallTools, Progress, EndAttempt, FailTransiently,
       JoinConsumer, Timeout, Terminated, vars, Processing, RunPhases, Unsettled
  <2>3. SaidOfCur'
    BY <2>1, <2>2 DEF SaidOfCur, Undisturbed, Processing, RunPhases, Unsettled
  <2>4. CancelledHadRun'
    BY <1>t, <2>1, <2>2 DEF CancelledHadRun, Undisturbed, Processing, RunPhases, Unsettled,
       TypeOK, CurIsInProcess
  <2> QED
    BY <1>0, <2>1, <2>3, <2>4, UndisturbedKeeps
<1>3. CASE Listen
  <2>1. Undisturbed /\ UNCHANGED pc
    BY <1>3 DEF Listen, Undisturbed
  <2>2. SaidOfCur'
    BY <2>1 DEF SaidOfCur, Undisturbed
  <2>3. CancelledHadRun'
    <3>1. CASE Head(events).kind = "interrupt"
      <4>1. Head(events).session \in Sessions
        <5>1. Head(events) \in Events
          BY <1>3, <1>t, TailTyped DEF Listen, TypeOK
        <5> QED
          BY <5>1 DEF Events
      <4>2. CancelSession(Head(events).session)
        BY <1>3, <3>1 DEF Listen
      <4> QED
        BY <2>1, <4>1, <4>2, CancelKeeps DEF Undisturbed
    <3>2. CASE Head(events).kind # "interrupt"
      BY <1>3, <2>1, <3>2 DEF Listen, Undisturbed, CancelledHadRun
    <3> QED
      BY <3>1, <3>2
  <2> QED
    BY <1>0, <2>1, <2>2, <2>3, UndisturbedKeeps
<1>4. CASE Receive \/ ReceiveStop
  <2>1. /\ pc = "select" /\ pc' \in {"prep", "stop"} /\ inbound # <<>>
        /\ cur' = Head(inbound) /\ inbound' = Tail(inbound)
        /\ UNCHANGED <<arrived, replies>>
    BY <1>4 DEF Receive, ReceiveStop
  <2>2. cur = NoMessage
    BY <1>t, <2>1 DEF TypeOK, CurIsInProcess, Processing, RunPhases
  <2>3. UNCHANGED cancelled
    <3>1. CASE Receive
      BY <3>1 DEF Receive
    <3>2. CASE ReceiveStop
      <4>1. SessionOf[Head(inbound)] \in Sessions
        BY <1>t, <2>1, TailTyped DEF TypeOK
      <4>2. active[SessionOf[Head(inbound)]] = NoMessage
        BY <2>1, <4>1 DEF TokenInv, TokenIsOfCurrentRun, RunPhases
      <4> QED
        BY <3>2, <4>2 DEF ReceiveStop, CancelSession
    <3> QED
      BY <1>4, <3>1, <3>2
  <2>4. /\ WaitingIsFresh' /\ OnlyArrived'
        /\ cur' \in Messages /\ replies[cur'] = {}
        /\ \A m : (\A i \in 1 .. Len(inbound) : inbound[i] # m) =>
                    m # cur' /\ \A i \in 1 .. Len(inbound') : inbound'[i] # m
    BY <1>t, <2>1, <2>2, TakeKeeps
  <2>5. SaidOfCur'
    BY <2>1, <2>4 DEF SaidOfCur
  <2>6. SaidOnce'
    BY <2>1 DEF SaidOnce
  <2>7. CancelledHadRun'
    BY <2>1, <2>3, <2>4 DEF CancelledHadRun
  <2> QED
    BY <1>0, <2>4, <2>5, <2>6, <2>7
<1>5. CASE ReplyStopped \/ ReplyAnswer \/ ReplyError
  <2>1. /\ pc \in {"stop", "reply"} /\ pc' \in {"select", "finish"} /\ (pc = "stop" <=> pc' = "select")
        /\ cur' = IF pc' = "select" THEN NoMessage ELSE cur
        /\ UNCHANGED <<arrived, inbound, cancelled>>
    BY <1>5 DEF ReplyStopped, ReplyAnswer, ReplyError
  <2>2. cur \in Messages /\ replies[cur] = {}
    BY <1>t, <2>1 DEF SaidOfCur, CurIsInProcess, Processing, RunPhases, Unsettled
  <2>3. PICK kind \in ReplyKinds :
           /\ replies' = [replies EXCEPT ![cur] = @ \cup {kind}]
           /\ pc' = "finish" => kind \notin {"stopped", "timeout"}
    <3>1. CASE ReplyStopped
      BY <3>1 DEF ReplyStopped, Publish, ReplyKinds
    <3>2. CASE ReplyError
      BY <3>2 DEF ReplyError, Publish, ReplyKinds
    <3>3. CASE ReplyAnswer /\ delivered
      BY <3>3 DEF ReplyAnswer, ReplyKinds
    <3>4. CASE ReplyAnswer /\ ~delivered
      BY <3>4 DEF ReplyAnswer, Publish, ReplyKinds
    <3> QED
      BY <1>5, <3>1, <3>2, <3>3, <3>4
  <2>4. WaitingIsFresh' /\ OnlyArrived' /\ SaidOnce'
    BY <1>t, <2>1, <2>2, <2>3, VerdictKeeps
  <2>5. SaidOfCur'
    BY <1>t, <2>1, <2>2, <2>3 DEF TypeOK, SaidOfCur, Unsettled, Processing, RunPhases
  <2>6. CancelledHadRun'
    BY <1>t, <2>1 DEF CancelledHadRun, TypeOK, RunPhases
  <2> QED
    BY <1>0, <2>4, <2>5, <2>6
<1>6. CASE Cleanup
  <2>1. /\ pc' = "select" /\ cur' = NoMessage /\ UNCHANGED <<arrived, inbound, replies, cancelled>>
    BY <1>6 DEF Cleanup
  <2>2. WaitingIsFresh' /\ OnlyArrived' /\ SaidOnce'
    <3>1. \A i \in 1 .. Len(inbound) : inbound[i] \in Messages
      BY <1>t DEF TypeOK
    <3> QED
      BY <2>1, <3>1 DEF WaitingIsFresh, OnlyArrived, SaidOnce
  <2>3. SaidOfCur' /\ CancelledHadRun'
    BY <1>t, <2>1 DEF SaidOfCur, CancelledHadRun, Unsettled, Processing, RunPhases, TypeOK
  <2> QED
    BY <1>0, <2>2, <2>3
<1>7. CASE ReplyTimeout
  <2>1. /\ pc = "expired" /\ pc' = "select" /\ cur' = NoMessage
        /\ UNCHANGED <<arrived, inbound>>
        /\ replies' = [replies EXCEPT ![cur] = @ \cup {"timeout"}]
        /\ CancelSession(SessionOf[cur])
    BY <1>7 DEF ReplyTimeout, Publish
  <2>2. cur \in Messages /\ SessionOf[cur] \in Sessions /\ "stopped" \notin replies[cur]
    BY <1>t, <2>1 DEF SaidOfCur, CurIsInProcess
  <2>3. WaitingIsFresh' /\ OnlyArrived' /\ SaidOnce'
    BY <1>t, <2>1, <2>2, VerdictKeeps DEF ReplyKinds
  <2>4. SaidOfCur'
    BY <2>1 DEF SaidOfCur, Unsettled, Processing, RunPhases
  <2>5. CancelledHadRun'
    BY <1>t, <2>1, <2>2, CancelKeeps
  <2> QED
    BY <1>0, <2>3, <2>4, <2>5
<1> QED
  BY <1>1, <1>2, <1>3, <1>4, <1>5, <1>6, <1>7 DEF Next, LoopStep, RunnerStep, ListenerStep

-----------------------------------------------------------------------------
\* A set whose elements are all the same has one at most.
LEMMA AtMostOne ==
  ASSUME NEW S, \A k, l \in S : k = l
  PROVE  Cardinality(S) <= 1
<1>1. CASE S = {}
  BY <1>1, FS_EmptySet
<1>2. CASE S # {}
  <2>1. PICK k \in S : S = {k}
    BY <1>2
  <2> QED
    BY <2>1, FS_Singleton
<1> QED
  BY <1>1, <1>2

\* Every message gets one verdict, or a second that says it came too late.
THEOREM VerdictsAreSingle == Spec => []OneVerdict
<1>1. MailInv => OneVerdict
  <2> SUFFICES ASSUME MailInv, NEW m \in Messages
               PROVE  /\ Cardinality(replies[m] \ {"timeout"}) <= 1
                      /\ replies[m] # {} => m \in arrived
                      /\ "stopped" \in replies[m] => replies[m] = {"stopped"}
    BY DEF OneVerdict
  <2>1. Cardinality(replies[m] \ {"timeout"}) <= 1
    BY AtMostOne DEF MailInv, SaidOnce
  <2> QED
    BY <2>1 DEF MailInv, SaidOnce, OnlyArrived
<1> QED
  BY <1>1, MailInvInit, MailInvStep, PTL DEF Spec

\* A step cancels the run in progress or none, and registers no token that
\* was cancelled before.
LEMMA CancelHitsStep ==
  ASSUME MailInv, [Next]_vars
  PROVE  /\ \A m \in cancelled' \ cancelled : m = cur /\ pc \in RunPhases \cup {"expired"}
         /\ \A s \in Sessions : active'[s] # active[s] => active'[s] \notin cancelled'
<1> USE MessageAssumption DEF MailInv, loopVars, busVars, cancelVars, eventVars
<1>t. TypeOK /\ CurIsInProcess /\ TokenIsOfCurrentRun /\ cancelled' \subseteq Messages
  BY TokenInvStep DEF TokenInv, TypeOK
<1>1. CASE UNCHANGED cancelVars
  BY <1>1
<1>2. ASSUME NEW s \in Sessions, CancelSession(s), UNCHANGED <<arrived, inbound>>,
             cur' \in {cur, NoMessage}, cur' = cur => UNCHANGED pc
      PROVE  /\ \A m \in cancelled' \ cancelled : m = cur /\ pc \in RunPhases \cup {"expired"}
             /\ \A t \in Sessions : active'[t] # active[t] => active'[t] \notin cancelled'
  BY <1>t, <1>2, CancelKeeps
<1>3. CASE Listen
  <2>1. CASE Head(events).kind = "interrupt"
    <3>1. Head(events) \in Events
      BY <1>3, <1>t, TailTyped DEF Listen, TypeOK
    <3>2. Head(events).session \in Sessions
      BY <3>1 DEF Events
    <3> QED
      BY <1>2, <1>3, <2>1, <3>2 DEF Listen
  <2> QED
    BY <1>1, <1>3, <2>1 DEF Listen
<1>4. CASE ReceiveStop
  <2>1. SessionOf[Head(inbound)] \in Sessions
    BY <1>4, <1>t, TailTyped DEF TypeOK, ReceiveStop
  <2>2. active[SessionOf[Head(inbound)]] = NoMessage
    BY <1>4, <1>t, <2>1 DEF ReceiveStop, TokenIsOfCurrentRun, RunPhases
  <2> QED
    BY <1>4, <1>t, <2>2 DEF ReceiveStop, CancelSession, TypeOK
<1>5. CASE BeginRun
  <2>1. cur \in Messages /\ cur \notin cancelled
    BY <1>5, <1>t DEF BeginRun, CurIsInProcess, Processing, RunPhases, CancelledHadRun
  <2> QED
    BY <1>5, <1>t, <2>1 DEF BeginRun, TypeOK
<1>6. CASE Cleanup
  BY <1>6, <1>t DEF Cleanup, TypeOK
<1>7. CASE ReplyTimeout
  <2>1. SessionOf[cur] \in Sessions /\ cur # NoMessage
    BY <1>7, <1>t DEF ReplyTimeout, CurIsInProcess
  <2>2. CancelSession(SessionOf[cur]) /\ cur' = NoMessage /\ UNCHANGED <<arrived, inbound>>
    BY <1>7 DEF ReplyTimeout
  <2> QED
    BY <1>2, <2>1, <2>2
<1>8. CASE \/ \E m \in Messages : Arrive(m)
           \/ \E s \in Sessions : RequestInterrupt(s)
           \/ Dispatch \/ Stop \/ ListenerExit \/ Exit \/ Iterate \/ Retry \/ Receive
           \/ ReplyStopped \/ ReplyAnswer \/ ReplyError
           \/ EmitOutcome \/ CallTools \/ Progress \/ EndAttempt \/ FailTransiently
           \/ JoinConsumer \/ Timeout \/ Terminated \/ UNCHANGED vars
  <2>1. UNCHANGED cancelVars
    BY <1>8 DEF Arrive, RequestInterrupt, Dispatch, Stop, ListenerExit, Exit, Iterate, Retry,
       Receive, ReplyStopped, ReplyAnswer, ReplyError, EmitOutcome, CallTools, Progress,
       EndAttempt, FailTransiently, JoinConsumer, Timeout, Terminated, vars
  <2> QED
    BY <1>1, <2>1
<1> QED
  BY <1>3, <1>4, <1>5, <1>6, <1>7, <1>8 DEF Next, LoopStep, RunnerStep, ListenerStep

\* An interrupt, an early or a late one, cancels the run in progress or none,
\* and what was cancelled is never registered.
THEOREM CancelIsTimely == Spec => CancelHitsLiveRun
<1>1. MailInv /\ [Next]_vars =>
        [/\ \A m \in cancelled' \ cancelled : m = cur /\ pc \in RunPhases \cup {"expired"}
         /\ \A s \in Sessions : active'[s] # active[s] => active'[s] \notin cancelled']_vars
  BY CancelHitsStep
<1> QED
  BY <1>1, MailInvInit, MailInvStep, PTL DEF Spec, CancelHitsLiveRun

\* A cancelled run calls the provider no more, in this attempt or the next.
THEOREM CancelEndsCalls == Spec => NoCallAfterCancel
<1>1. [Next]_vars => [pc # "llm" /\ pc' = "llm" => cur \notin cancelled]_vars
  BY DEF Next, Arrive, RequestInterrupt, Dispatch, Stop, ListenerStep, Listen, ListenerExit,
     LoopStep, Receive, ReceiveStop, ReplyStopped, Exit, BeginRun, Iterate, Retry, ReplyAnswer,
     ReplyError, EmitOutcome, Cleanup, ReplyTimeout, RunnerStep, CallTools, Progress, EndAttempt,
     FailTransiently, JoinConsumer, Timeout, Terminated, loopVars
<1> QED
  BY <1>1, PTL DEF Spec, NoCallAfterCancel

-----------------------------------------------------------------------------
\* The step simulation: what a step of the loop is to the mailbox.
LEMMA MailboxStep ==
  ASSUME MailInv, [Next]_vars
  PROVE  [M!Next]_(M!vars)
<1> USE MessageAssumption DEF MailInv, loopVars, busVars, cancelVars, eventVars
<1>t. TypeOK /\ CurIsInProcess
  BY DEF TokenInv
<1>1. ASSUME NEW m \in Messages, Arrive(m)
      PROVE  M!Put(m)
  BY <1>1 DEF Arrive, M!Put
<1>2. CASE Receive \/ ReceiveStop
  <2>1. cur = NoMessage
    BY <1>2, <1>t DEF Receive, ReceiveStop, TypeOK, CurIsInProcess, Processing, RunPhases
  <2>2. M!Take
    BY <1>2, <2>1 DEF Receive, ReceiveStop, M!Take
  <2> QED
    BY <2>2 DEF M!Next
<1>3. CASE ReplyStopped \/ ReplyAnswer \/ ReplyError
  <2>1. /\ cur \in Messages /\ replies[cur] = {} /\ cur # NoMessage
        /\ UNCHANGED <<arrived, inbound, shutdown>> /\ cur' \in {cur, NoMessage}
    BY <1>3, <1>t DEF ReplyStopped, ReplyAnswer, ReplyError, SaidOfCur, CurIsInProcess,
       Processing, RunPhases, Unsettled
  <2>2. PICK kind \in ReplyKinds : replies' = [replies EXCEPT ![cur] = @ \cup {kind}]
    BY <1>3 DEF ReplyStopped, ReplyAnswer, ReplyError, Publish, ReplyKinds
  <2>3. replies' = [replies EXCEPT ![cur] = {kind}]
    BY <2>1, <2>2, <1>t DEF TypeOK
  <2>4. M!Say(kind)
    BY <2>1, <2>3 DEF M!Say
  <2> QED
    BY <2>4 DEF M!Next, M!Work
<1>4. CASE Cleanup
  <2>1. cur # NoMessage /\ replies[cur] # {}
    BY <1>4, <1>t DEF Cleanup, SaidOfCur, CurIsInProcess, Processing, RunPhases
  <2>2. M!PutAway
    BY <1>4, <2>1 DEF Cleanup, M!PutAway
  <2> QED
    BY <2>2 DEF M!Next, M!Work
<1>5. CASE ReplyTimeout
  <2>1. cur # NoMessage
    BY <1>5, <1>t DEF ReplyTimeout, CurIsInProcess
  <2>2. M!SayLate
    BY <1>5, <2>1 DEF ReplyTimeout, Publish, M!SayLate
  <2> QED
    BY <2>2 DEF M!Next, M!Work
<1>6. CASE Stop
  <2>1. M!Close
    BY <1>6 DEF Stop, M!Close
  <2> QED
    BY <2>1 DEF M!Next
<1>7. CASE \/ \E s \in Sessions : RequestInterrupt(s)
           \/ Dispatch \/ Listen \/ ListenerExit \/ Exit \/ BeginRun \/ Iterate \/ Retry
           \/ EmitOutcome \/ CallTools \/ Progress \/ EndAttempt \/ FailTransiently
           \/ JoinConsumer \/ Timeout \/ Terminated \/ UNCHANGED vars
  <2>1. UNCHANGED <<arrived, inbound, cur, replies, shutdown>>
    BY <1>7 DEF RequestInterrupt, Dispatch, Listen, ListenerExit, Exit, BeginRun, Iterate, Retry,
       EmitOutcome, CallTools, Progress, EndAttempt, FailTransiently, JoinConsumer, Timeout,
       Terminated, vars
  <2> QED
    BY <2>1, Zenon DEF M!vars
<1> QED
  BY <1>1, <1>2, <1>3, <1>4, <1>5, <1>6, <1>7 DEF Next, LoopStep, RunnerStep, ListenerStep, M!Next

\* The loop never does what a mailbox does not: messages are taken in order,
\* one at a time, and settled before the next (the liveness of KeepsMailbox is
\* left to TLC).
THEOREM LoopIsMailbox == Spec => M!Safety
<1>1. Init => M!Init
  BY DEF Init, M!Init
<1>2. MailInv /\ [Next]_vars => [M!Next]_(M!vars)
  BY MailboxStep
<1> QED
  BY <1>1, <1>2, MailInvInit, MailInvStep, PTL DEF Spec, M!Safety
=============================================================================
