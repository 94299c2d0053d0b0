------------------------------ MODULE Channels ------------------------------
(***************************************************************************)
(* The channel manager and the platform adapters, side by side: they share *)
(* nothing but the bus, of which each module has an end of its own, so a   *)
(* behaviour moves one component and the rest stand still.                 *)
(***************************************************************************)
EXTENDS Integers, Sequences

CONSTANTS
  \* of the bus
  InboxCap, EventCap, OutCap, StreamCap,
  \* of several platforms
  MaxFaults, MaxBackoff, Chunks,
  \* of one each, as its module says
  MaxPosts, Commands, Blank, MaxAttempts,
  MaxUpdates, Local, Threshold, MaxRestarts,
  Sessions, ChatKey, MaxRuns, NoSession,
  Clients, AuthRequired, MaxFrames, NoClient,
  MaxMsgs, Users, Sender, Copies, Carries, FailedPolls,
  MaxEvents, Unreadable,
  HookEvents, ChatOf, SaidAs, Long, Unsliceable, Handlers, Burst, MaxPushes, HangsUp

VARIABLES
  which,   \* the component this behaviour is about
  dPhase, dRunning, dConnected, dSession, dLastSeq, dAttempt, dBackoff,
  dHolding, dLive, dLog, dCursor, dPosted, dInbox, dTaken, dLate,
  tPhase, tRunning, tOffset, tBackoff, tFailures, tBatch, tStale, tInbox,
  tArrived, tConfirmed, tTaken, tHandled, tProxyUp, tFaults, tRestarts,
  cRun, cStep, cRuns, cEvents, cOutbound, cTyping, cSending, cChunk, cFormat,
  cShown, cStopping, cOpen, cConnected, cUnclosed,
  wRunning, wAccepting, wHand, wClients, wReader, wWriter, wUp, wSent, wQueue,
  wGot, wInbox, wInterrupts, wTurn, wSaid, wStream, wStreaming, wOutbound,
  xRunning, xPosition, xSeen, xTask, xCache, xPayload, xHandle, xTmp, xPath,
  xData, xInbox, xSent, xForgotten, xFaults, xDelivered,
  fPhase, fRunning, fFrames, fHolding, fInbox, fHappened, fAcked, fFaults,
  fHandled, fLate,
  gPending, gIds, gSaid, gTokens, gPc, gEvent, gOut, gInbox, gUp, gPushes,
  gAcked, gGiven, gLost

dVars ==
  <<dPhase, dRunning, dConnected, dSession, dLastSeq, dAttempt, dBackoff,
    dHolding, dLive, dLog, dCursor, dPosted, dInbox, dTaken, dLate>>
tVars ==
  <<tPhase, tRunning, tOffset, tBackoff, tFailures, tBatch, tStale, tInbox,
    tArrived, tConfirmed, tTaken, tHandled, tProxyUp, tFaults, tRestarts>>
cVars ==
  <<cRun, cStep, cRuns, cEvents, cOutbound, cTyping, cSending, cChunk,
    cFormat, cShown, cStopping, cOpen, cConnected, cUnclosed>>
wVars ==
  <<wRunning, wAccepting, wHand, wClients, wReader, wWriter, wUp, wSent,
    wQueue, wGot, wInbox, wInterrupts, wTurn, wSaid, wStream, wStreaming,
    wOutbound>>
xVars ==
  <<xRunning, xPosition, xSeen, xTask, xCache, xPayload, xHandle, xTmp, xPath,
    xData, xInbox, xSent, xForgotten, xFaults, xDelivered>>
fVars ==
  <<fPhase, fRunning, fFrames, fHolding, fInbox, fHappened, fAcked, fFaults,
    fHandled, fLate>>
gVars ==
  <<gPending, gIds, gSaid, gTokens, gPc, gEvent, gOut, gInbox, gUp, gPushes,
    gAcked, gGiven, gLost>>
vars == <<which, dVars, tVars, cVars, wVars, xVars, fVars, gVars>>

Discord == INSTANCE DiscordGateway WITH
  phase <- dPhase, running <- dRunning, connected <- dConnected,
  session <- dSession, lastSeq <- dLastSeq, attempt <- dAttempt,
  backoff <- dBackoff, holding <- dHolding, live <- dLive, log <- dLog,
  cursor <- dCursor, posted <- dPosted, inbox <- dInbox, taken <- dTaken,
  late <- dLate

Telegram == INSTANCE TelegramChannel WITH
  phase <- tPhase, running <- tRunning, offset <- tOffset,
  backoff <- tBackoff, failures <- tFailures, batch <- tBatch,
  stale <- tStale, inbox <- tInbox, arrived <- tArrived,
  confirmed <- tConfirmed, taken <- tTaken, handled <- tHandled,
  proxyUp <- tProxyUp, faults <- tFaults, restarts <- tRestarts

Manager == INSTANCE ChannelManager WITH
  run <- cRun, step <- cStep, runs <- cRuns, events <- cEvents,
  outbound <- cOutbound, typing <- cTyping, sending <- cSending,
  chunk <- cChunk, format <- cFormat, shown <- cShown, stopping <- cStopping,
  open <- cOpen, connected <- cConnected, unclosed <- cUnclosed

WebSocket == INSTANCE WebSocketChannel WITH
  running <- wRunning, accepting <- wAccepting, hand <- wHand,
  clients <- wClients, reader <- wReader, writer <- wWriter, up <- wUp,
  sent <- wSent, queue <- wQueue, got <- wGot, inbox <- wInbox,
  interrupts <- wInterrupts, turn <- wTurn, said <- wSaid, stream <- wStream,
  streaming <- wStreaming, outbound <- wOutbound

Weixin == INSTANCE WeixinChannel WITH
  running <- xRunning, position <- xPosition, seen <- xSeen, task <- xTask,
  cache <- xCache, payload <- xPayload, handle <- xHandle, tmp <- xTmp,
  path <- xPath, data <- xData, inbox <- xInbox, sent <- xSent,
  forgotten <- xForgotten, faults <- xFaults, delivered <- xDelivered,
  MaxFaults <- FailedPolls, Tasks <- Copies

Feishu == INSTANCE FeishuChannel WITH
  phase <- fPhase, running <- fRunning, frames <- fFrames,
  holding <- fHolding, inbox <- fInbox, happened <- fHappened,
  acked <- fAcked, faults <- fFaults, handled <- fHandled, late <- fLate

Webhook == INSTANCE FeishuWebhook WITH
  pending <- gPending, ids <- gIds, said <- gSaid, tokens <- gTokens,
  pc <- gPc, event <- gEvent, out <- gOut, inbox <- gInbox, up <- gUp,
  pushes <- gPushes, acked <- gAcked, given <- gGiven, lost <- gLost,
  Events <- HookEvents

\* What the modules assume of their constants.
ASSUME ChannelsAssumption ==
  /\ Discord!GatewayAssumption
  /\ Telegram!TelegramAssumption
  /\ Manager!ManagerAssumption
  /\ WebSocket!WebSocketAssumption
  /\ Weixin!WeixinAssumption
  /\ Feishu!FeishuAssumption
  /\ Webhook!WebhookAssumption

Components == {"discord", "telegram", "manager", "websocket", "weixin", "feishu", "webhook"}

Init ==
  /\ which \in Components
  /\ Discord!Init
  /\ Telegram!Init
  /\ Manager!Init
  /\ WebSocket!Init
  /\ Weixin!Init
  /\ Feishu!Init
  /\ Webhook!Init

\* The component a behaviour is about makes a step, the others stand still.
OnDiscord(action) ==
  /\ which = "discord" /\ action
  /\ UNCHANGED <<which, tVars, cVars, wVars, xVars, fVars, gVars>>

OnTelegram(action) ==
  /\ which = "telegram" /\ action
  /\ UNCHANGED <<which, dVars, cVars, wVars, xVars, fVars, gVars>>

OnManager(action) ==
  /\ which = "manager" /\ action
  /\ UNCHANGED <<which, dVars, tVars, wVars, xVars, fVars, gVars>>

OnWebSocket(action) ==
  /\ which = "websocket" /\ action
  /\ UNCHANGED <<which, dVars, tVars, cVars, xVars, fVars, gVars>>

OnWeixin(action) ==
  /\ which = "weixin" /\ action
  /\ UNCHANGED <<which, dVars, tVars, cVars, wVars, fVars, gVars>>

OnFeishu(action) ==
  /\ which = "feishu" /\ action
  /\ UNCHANGED <<which, dVars, tVars, cVars, wVars, xVars, gVars>>

OnWebhook(action) ==
  /\ which = "webhook" /\ action
  /\ UNCHANGED <<which, dVars, tVars, cVars, wVars, xVars, fVars>>

DiscordStep ==
  \/ OnDiscord(Discord!Connect)
  \/ OnDiscord(Discord!Disconnect)
  \/ OnDiscord(Discord!Retry)
  \/ OnDiscord(Discord!Opens)
  \/ OnDiscord(Discord!Identify)
  \/ OnDiscord(Discord!Resume)
  \/ OnDiscord(Discord!Greeting)
  \/ OnDiscord(Discord!MessageEvent)
  \/ OnDiscord(Discord!DispatchMessage)
  \/ OnDiscord(Discord!Rejected)
  \/ OnDiscord(Discord!HeartbeatTick)
  \/ OnDiscord(Discord!ConnectFails)
  \/ OnDiscord(Discord!BadHello)
  \/ OnDiscord(Discord!Dropped)
  \/ \E resumable \in BOOLEAN : OnDiscord(Discord!InvalidSession(resumable))
  \/ OnDiscord(Discord!Post)
  \/ OnDiscord(Discord!SessionForgotten)
  \/ OnDiscord(Discord!ConsumeInbound)

TelegramStep ==
  \/ OnTelegram(Telegram!Sleep)
  \/ OnTelegram(Telegram!PollSucceeds)
  \/ OnTelegram(Telegram!HandleUpdate)
  \/ OnTelegram(Telegram!EndOfBatch)
  \/ OnTelegram(Telegram!PollFails)
  \/ \E parsed \in BOOLEAN : OnTelegram(Telegram!PollRefused(parsed))
  \/ OnTelegram(Telegram!Disconnect)
  \/ OnTelegram(Telegram!Arrive)
  \/ OnTelegram(Telegram!ConsumeInbound)
  \/ OnTelegram(Telegram!ProxyRestart)
  \/ OnTelegram(Telegram!Restart)

ManagerStep ==
  \/ \E s \in Sessions : OnManager(Manager!Begin(s))
  \/ OnManager(Manager!Reply)
  \/ OnManager(Manager!Streamed)
  \/ OnManager(Manager!TimeOut)
  \/ OnManager(Manager!Close)
  \/ OnManager(Manager!Listen)
  \/ OnManager(Manager!TakeOutbound)
  \/ OnManager(Manager!DropOutbound)
  \/ \E outcome \in Manager!Outcomes : OnManager(Manager!SendChunk(outcome))
  \/ OnManager(Manager!AbortTyping)
  \/ OnManager(Manager!RemoveChannel)
  \/ OnManager(Manager!DisconnectChannel)

WebSocketStep ==
  \/ \E c \in Clients : OnWebSocket(WebSocket!Accept(c))
  \/ \E c \in Clients : OnWebSocket(WebSocket!ReadEnd(c))
  \/ \E c \in Clients : OnWebSocket(WebSocket!WriteEnd(c))
  \/ \E c \in Clients : OnWebSocket(WebSocket!Write(c))
  \/ \E c \in Clients : OnWebSocket(WebSocket!ReadStopped(c))
  \/ \E c \in Clients : OnWebSocket(WebSocket!ReadMessage(c))
  \/ \E c \in Clients : OnWebSocket(WebSocket!PeerCloses(c))
  \/ \E c \in Clients, frame \in WebSocket!Frames : OnWebSocket(WebSocket!ReadAnswered(c, frame))
  \/ \E c \in Clients, authorised \in BOOLEAN : OnWebSocket(WebSocket!ReadPending(c, authorised))
  \/ OnWebSocket(WebSocket!HandshakeDone)
  \/ OnWebSocket(WebSocket!HandshakeFails)
  \/ OnWebSocket(WebSocket!AcceptLoopEnds)
  \/ OnWebSocket(WebSocket!ForwardChunk)
  \/ OnWebSocket(WebSocket!SendAnswer)
  \/ OnWebSocket(WebSocket!Disconnect)
  \/ OnWebSocket(WebSocket!BeginTurn)
  \/ OnWebSocket(WebSocket!SayChunk)
  \/ OnWebSocket(WebSocket!EndTurn)

WeixinStep ==
  \/ OnWeixin(Weixin!Poll)
  \/ OnWeixin(Weixin!PollFails)
  \/ OnWeixin(Weixin!Disconnect)
  \/ \E t \in Copies : OnWeixin(Weixin!Deduplicate(t))
  \/ \E t \in Copies : OnWeixin(Weixin!SetToken(t))
  \/ \E t \in Copies : OnWeixin(Weixin!NoToken(t))
  \/ \E t \in Copies : OnWeixin(Weixin!Snapshot(t))
  \/ \E t \in Copies : OnWeixin(Weixin!Create(t))
  \/ \E t \in Copies : OnWeixin(Weixin!Write(t))
  \/ \E t \in Copies : OnWeixin(Weixin!Rename(t))
  \/ \E t \in Copies : OnWeixin(Weixin!Remove(t))
  \/ \E t \in Copies : OnWeixin(Weixin!Dispatch(t))
  \/ \E t \in Copies : OnWeixin(Weixin!Redeliver(t))
  \/ OnWeixin(Weixin!Send)
  \/ OnWeixin(Weixin!ConsumeInbound)

FeishuStep ==
  \/ OnFeishu(Feishu!Connect)
  \/ OnFeishu(Feishu!Disconnect)
  \/ OnFeishu(Feishu!Reconnect)
  \/ OnFeishu(Feishu!Open)
  \/ OnFeishu(Feishu!NoticeStop)
  \/ OnFeishu(Feishu!Pong)
  \/ OnFeishu(Feishu!ReadEvent)
  \/ \E lost \in BOOLEAN : OnFeishu(Feishu!Dispatch(lost))
  \/ OnFeishu(Feishu!ConnectFails)
  \/ OnFeishu(Feishu!Closed)
  \/ OnFeishu(Feishu!Happen)
  \/ \E frame \in Feishu!Events \union {Feishu!Ping} : OnFeishu(Feishu!Push(frame))
  \/ OnFeishu(Feishu!ConsumeInbound)

WebhookStep ==
  \/ OnWebhook(Webhook!Refuse)
  \/ OnWebhook(Webhook!Send("flush"))
  \/ OnWebhook(Webhook!FlushTick)
  \/ OnWebhook(Webhook!FlushSent)
  \/ OnWebhook(Webhook!FlushAll)
  \/ OnWebhook(Webhook!FlushEnds)
  \/ OnWebhook(Webhook!Shutdown)
  \/ OnWebhook(Webhook!ConsumeInbound)
  \/ OnWebhook(Webhook!Tick)
  \/ \E h \in Handlers : OnWebhook(Webhook!Send(h))
  \/ \E h \in Handlers : OnWebhook(Webhook!Process(h))
  \/ \E h \in Handlers : OnWebhook(Webhook!DrainAgain(h))
  \/ \E h \in Handlers : OnWebhook(Webhook!Respond(h))
  \/ \E h \in Handlers : OnWebhook(Webhook!HangUp(h))
  \/ \E h \in Handlers, e \in HookEvents : OnWebhook(Webhook!Receive(h, e))

Next ==
  \/ DiscordStep
  \/ TelegramStep
  \/ ManagerStep
  \/ WebSocketStep
  \/ WeixinStep
  \/ FeishuStep
  \/ WebhookStep

Spec == Init /\ [][Next]_vars

-----------------------------------------------------------------------------
\* The types of the adapters.
TypeOK ==
  /\ Discord!TypeOK
  /\ Telegram!TypeOK
  /\ Manager!TypeOK
  /\ WebSocket!TypeOK
  /\ Weixin!TypeOK
  /\ Feishu!TypeOK
  /\ Webhook!TypeOK

\* However often a platform hands an event out - a resumed Discord session, a
\* Telegram poll that failed, a Weixin message sent again, a webhook pushed
\* again - the agent gets it once, and in order where one loop reads.
OnceInOrder ==
  /\ Discord!EachEventOnce
  /\ Telegram!OncePerProcess
  /\ Weixin!DeliveredOnce
  /\ Webhook!GivenOnce

\* Telegram's offset moves, and a Feishu event is acknowledged, only past what
\* the agent was given; what the webhook answered with 200 is kept for it, or
\* among what the code is known to drop.
OnlyHandledIsForgotten ==
  /\ Telegram!ForgottenWasHandled
  /\ Feishu!AckedWasHandled
  /\ Webhook!AckedIsKept

\* A connection acts only between its welcome and its end: nothing happens for
\* a WebSocket client before its welcome, and after disconnect a Discord or
\* Feishu loop hands over at most the event it held.
ActsOnlyWhileUp ==
  /\ WebSocket!WelcomeFirst
  /\ Discord!StopsTaking
  /\ Feishu!StopsTaking

\* An answer in several chunks is shown in order, no chunk twice, and stop_all
\* does not cut one short.
AnswersWhole ==
  /\ Manager!ShownInOrder
  /\ Manager!NotCutByStop

\* A typing indicator is on only for a session that is answered, until the
\* manager hears of its end.
TypingHasReason == Manager!TypingHasReason

=============================================================================
