----------------------------- MODULE MCChannels -----------------------------
(***************************************************************************)
(* Channels for TLC: its constants, the fairness of each component, and    *)
(* what then happens in the end.                                           *)
(***************************************************************************)
EXTENDS Channels

MCChatKey == [s \in Sessions |-> "a"]
MCSender == <<"u", "v">>
MCCarries == <<1, 2, 1>>
MCChatOf == <<"a", "a", "b">>
MCSaidAs == <<"x", "y", "z">>

\* Each component under the fairness its module states.  A behaviour never
\* leaves its component, so one condition on a disjunction says it of all.
Fairness ==
  /\ WF_vars(\/ OnDiscord(Discord!Progress)
             \/ OnTelegram(Telegram!Poller)
             \/ OnManager(Manager!Agent)
             \/ OnWebSocket(WebSocket!Services)
             \/ OnWeixin(Weixin!Poll)
             \/ OnFeishu(Feishu!Loop)
             \/ OnWebhook(Webhook!Flush))
  /\ WF_vars(\/ OnDiscord(Discord!ConsumeInbound)
             \/ OnTelegram(Telegram!ConsumeInbound)
             \/ OnManager(Manager!Listen)
             \/ \E c \in Clients : OnWebSocket(WebSocket!ReadEnd(c))
             \/ OnWeixin(Weixin!ConsumeInbound)
             \/ OnFeishu(Feishu!ConsumeInbound)
             \/ OnWebhook(Webhook!ConsumeInbound))
  /\ WF_vars(\/ \E c \in Clients : OnWebSocket(WebSocket!WriteEnd(c))
             \/ OnWeixin(Weixin!Task(1))
             \/ OnWebhook(Webhook!Tick))
  /\ WF_vars(\/ \E c \in Clients : OnWebSocket(WebSocket!Write(c))
             \/ OnWeixin(Weixin!Task(2))
             \/ OnWebhook(Webhook!Handler("h")))
  /\ WF_vars(\/ OnWeixin(Weixin!Task(3))
             \/ OnWebhook(Webhook!Handler("i")))
  /\ SF_vars(OnFeishu(Feishu!PushOldest))

FairSpec == Spec /\ Fairness

-----------------------------------------------------------------------------
\* Something was sent on a platform that the agent was not given, and that
\* nothing excuses.
Unheard ==
  \/ Discord!Unheard
  \/ Telegram!Unheard
  \/ Weixin!Unheard
  \/ Feishu!Unheard
  \/ Webhook!Unheard

\* What users send is heard sooner or later on every platform, whatever
\* connections, polls, sessions or processes are lost on the way.
Heard == Unheard ~> ~Unheard

\* What is over ends everywhere: a typing indicator goes off sooner or later,
\* and when one loop of a WebSocket connection ends, or the channel stops, so
\* does the whole connection.
EndsEverywhere ==
  /\ Manager!TypingEnds
  /\ WebSocket!ConnectionsEnd

=============================================================================
