---------------------------- MODULE FeishuWebhook ----------------------------
(***************************************************************************)
(* The Feishu webhook of the HTTP API: handlers that deduplicate events    *)
(* and collect them into batches, one per chat, and the background task    *)
(* that puts the batches on the bus when their window is over, or the      *)
(* server stops.                                                           *)
(*                                                                         *)
(* Feishu is external: it may push any event at any time, and again, and   *)
(* closes the connection of a push that takes too long, which drops the    *)
(* handler where it waits.  Events are numbered; what no admission check   *)
(* lets through is left out, and so are card actions, which go on the bus  *)
(* as they are.  Time passes in units of the shorter window, and refills   *)
(* one token of the rate limit a unit.  The deduplication remembers for a  *)
(* day, longer than a behaviour here lasts.                                *)
(***************************************************************************)
EXTENDS Integers, Sequences, FiniteSets, FiniteSetsExt

CONSTANTS
  Events,      \* 1 .. n
  ChatOf,      \* the chat of each event
  SaidAs,      \* sender and text of each event, as far as the fingerprint goes
  Long,        \* events whose text is near the platform's limit
  Unsliceable, \* texts with a character of several bytes where the fingerprint ends
  Handlers,    \* requests at a time
  InboxCap,    \* capacity of the bus's inbound channel
  Burst,       \* requests the rate limit lets through at once
  MaxPushes,
  HangsUp      \* does Feishu close slow connections?

Chats == {ChatOf[e] : e \in Events}

WebhookAssumption ==
  /\ IsFiniteSet(Events) /\ Events = 1 .. Cardinality(Events)
  /\ DOMAIN ChatOf = Events /\ DOMAIN SaidAs = Events
  /\ Long \union Unsliceable \subseteq Events
  /\ {InboxCap, Burst} \subseteq Nat \ {0} /\ MaxPushes \in Nat /\ HangsUp \in BOOLEAN
  /\ "flush" \notin Handlers

Tasks == Handlers \union {"flush"}

VARIABLES
  pending,   \* the batch of each chat: its messages, its age, is its window long?
  ids, said, \* the dedup table: ids and fingerprints seen
  tokens,    \* the rate limit's bucket
  pc, event, \* where each task is, and with which event
  out,       \* the batches a task has drained and not yet sent
  inbox,     \* how many messages wait on the bus
  up,        \* not cancelled
  pushes, acked,    \* Feishu: how often it pushed, which pushes were answered 200
  given, lost       \* history: how often each event was put on the bus; which were dropped

batcher == <<pending, ids, said>>
history == <<given, lost>>
vars == <<batcher, tokens, pc, event, out, inbox, up, pushes, acked, history>>

NoBatch == [msgs |-> <<>>, age |-> 0, extended |-> FALSE]
ShortWindow == 1
LongWindow == 3

TypeOK ==
  /\ pending \in [Chats -> [msgs : UNION {[1 .. n -> Events] : n \in 0 .. Cardinality(Events)},
                            age : 0 .. LongWindow, extended : BOOLEAN]]
  /\ ids \subseteq Events /\ said \subseteq {SaidAs[e] : e \in Events}
  /\ tokens \in 0 .. Burst /\ up \in BOOLEAN
  /\ pc \in [Tasks -> {"idle", "first", "second", "last", "end"}]
  /\ event \in [Handlers -> Events \union {0}]
  /\ inbox \in 0 .. InboxCap /\ acked \subseteq Events
  /\ given \in [Events -> Nat] /\ lost \subseteq Events

Init ==
  /\ pending = [c \in Chats |-> NoBatch] /\ ids = {} /\ said = {} /\ tokens = Burst
  /\ pc = [t \in Tasks |-> "idle"] /\ event = [h \in Handlers |-> 0]
  /\ out = [t \in Tasks |-> {}] /\ inbox = 0 /\ up = TRUE
  /\ pushes = 0 /\ acked = {}
  /\ given = [e \in Events |-> 0] /\ lost = {}

Elements(s) == {s[i] : i \in DOMAIN s}

-----------------------------------------------------------------------------
(* FeishuBatcher                                                           *)

Window(batch) == IF batch.extended THEN LongWindow ELSE ShortWindow
Active(batch) == batch.msgs # <<>> /\ batch.age < Window(batch)
Due == {c \in Chats : pending[c].msgs # <<>> /\ ~Active(pending[c])}

\* drain_ready and force_flush_all: batches leave the table merged.
Drain(t, chats) ==
  /\ out' = [out EXCEPT ![t] = {pending[c].msgs : c \in chats}]
  /\ pending' = [c \in Chats |-> IF c \in chats THEN NoBatch ELSE pending[c]]

\* A batch within its window takes the message in; one past it, which nobody
\* has drained yet, is replaced, and its messages with it.
Buffer(e) ==
  LET batch == pending[ChatOf[e]] IN
  IF Active(batch)
  THEN /\ pending' = [pending EXCEPT ![ChatOf[e]] =
            [batch EXCEPT !.msgs = Append(@, e), !.extended = @ \/ e \in Long]]
       /\ UNCHANGED lost
  ELSE /\ pending' = [pending EXCEPT ![ChatOf[e]] =
            [msgs |-> <<e>>, age |-> 0, extended |-> e \in Long]]
       /\ lost' = lost \union Elements(batch.msgs)

\* process: first the id, then the fingerprint, whose slice may panic.  Nothing
\* is awaited in it.
Panics(e) == e \notin ids /\ e \in Unsliceable
Duplicate(e) == e \in ids \/ SaidAs[e] \in said

-----------------------------------------------------------------------------
(* feishu_webhook                                                          *)

Go(t, where) == pc' = [pc EXCEPT ![t] = where]

\* No token left: 429.
Refuse ==
  /\ up /\ tokens = 0 /\ pushes < MaxPushes
  /\ pushes' = pushes + 1
  /\ UNCHANGED <<batcher, tokens, pc, event, out, inbox, up, acked, history>>

\* An event is parsed, and batches that are due are drained.
Receive(h, e) ==
  /\ pc[h] = "idle" /\ up /\ tokens > 0 /\ pushes < MaxPushes
  /\ pushes' = pushes + 1 /\ tokens' = tokens - 1
  /\ event' = [event EXCEPT ![h] = e]
  /\ Drain(h, Due) /\ Go(h, "first")
  /\ UNCHANGED <<ids, said, inbox, up, acked, history>>

\* send().await, one drained batch after the other.
Send(t) ==
  /\ pc[t] \in {"first", "last"} /\ inbox < InboxCap
  /\ \E msgs \in out[t] :
       /\ out' = [out EXCEPT ![t] = @ \ {msgs}]
       /\ given' = [e \in Events |-> given[e] + Cardinality({i \in DOMAIN msgs : msgs[i] = e})]
  /\ inbox' = inbox + 1
  /\ UNCHANGED <<batcher, tokens, pc, event, up, pushes, acked, lost>>

ProcessPanics(h, e) ==
  /\ Panics(e)
  /\ ids' = ids \union {e} /\ lost' = lost \union {e}
  /\ Go(h, "idle") /\ event' = [event EXCEPT ![h] = 0]
  /\ UNCHANGED <<pending, said>>

Discard(h, e) ==
  /\ ~Panics(e) /\ Duplicate(e)
  /\ ids' = ids \union {e} /\ Go(h, "second")
  /\ UNCHANGED <<pending, said, event, lost>>

Collect(h, e) ==
  /\ ~Panics(e) /\ ~Duplicate(e)
  /\ ids' = ids \union {e} /\ said' = said \union {SaidAs[e]}
  /\ Buffer(e) /\ Go(h, "second")
  /\ UNCHANGED event

Process(h) ==
  /\ pc[h] = "first" /\ out[h] = {}
  /\ ProcessPanics(h, event[h]) \/ Discard(h, event[h]) \/ Collect(h, event[h])
  /\ UNCHANGED <<tokens, out, inbox, up, pushes, acked, given>>

DrainAgain(h) ==
  /\ pc[h] = "second"
  /\ Drain(h, Due) /\ Go(h, "last")
  /\ UNCHANGED <<ids, said, tokens, event, inbox, up, pushes, acked, history>>

\* 200.
Respond(h) ==
  /\ pc[h] = "last" /\ h # "flush" /\ out[h] = {}
  /\ acked' = acked \union {event[h]}
  /\ Go(h, "idle") /\ event' = [event EXCEPT ![h] = 0]
  /\ UNCHANGED <<batcher, tokens, out, inbox, up, pushes, history>>

\* The connection is closed while the handler waits for room on the bus.
HangUp(h) ==
  /\ HangsUp /\ pc[h] \in {"first", "last"} /\ out[h] # {}
  /\ lost' = lost \union UNION {Elements(msgs) : msgs \in out[h]}
  /\ out' = [out EXCEPT ![h] = {}] /\ event' = [event EXCEPT ![h] = 0] /\ Go(h, "idle")
  /\ UNCHANGED <<batcher, tokens, inbox, up, pushes, acked, given>>

-----------------------------------------------------------------------------
(* ApiServer::run: the flush task and the shutdown                         *)

FlushTick ==
  /\ pc["flush"] = "idle" /\ Due # {}
  /\ Drain("flush", Due) /\ Go("flush", "first")
  /\ UNCHANGED <<ids, said, tokens, event, inbox, up, pushes, acked, history>>

FlushSent ==
  /\ pc["flush"] = "first" /\ out["flush"] = {}
  /\ Go("flush", "idle")
  /\ UNCHANGED <<batcher, tokens, event, out, inbox, up, pushes, acked, history>>

FlushAll ==
  /\ pc["flush"] = "idle" /\ ~up
  /\ Drain("flush", {c \in Chats : pending[c].msgs # <<>>}) /\ Go("flush", "last")
  /\ UNCHANGED <<ids, said, tokens, event, inbox, up, pushes, acked, history>>

\* Handlers that are still at work may fill the table again: nobody looks.
FlushEnds ==
  /\ pc["flush"] = "last" /\ out["flush"] = {}
  /\ Go("flush", "end")
  /\ UNCHANGED <<batcher, tokens, event, out, inbox, up, pushes, acked, history>>

Shutdown ==
  /\ up
  /\ up' = FALSE
  /\ UNCHANGED <<batcher, tokens, pc, event, out, inbox, pushes, acked, history>>

-----------------------------------------------------------------------------
ConsumeInbound ==
  /\ inbox > 0
  /\ inbox' = inbox - 1
  /\ UNCHANGED <<batcher, tokens, pc, event, out, up, pushes, acked, history>>

Tick ==
  /\ pending' = [c \in Chats |-> IF pending[c].msgs = <<>> THEN NoBatch
                                 ELSE [pending[c] EXCEPT !.age = Min({@ + 1, Window(pending[c])})]]
  /\ tokens' = Min({tokens + 1, Burst})
  /\ <<pending', tokens'>> # <<pending, tokens>>
  /\ UNCHANGED <<ids, said, pc, event, out, inbox, up, pushes, acked, history>>

Handler(h) == Send(h) \/ Process(h) \/ DrainAgain(h) \/ Respond(h)
Flush == Send("flush") \/ FlushTick \/ FlushSent \/ FlushAll \/ FlushEnds

Next ==
  \/ Refuse \/ Flush \/ Shutdown \/ ConsumeInbound \/ Tick
  \/ \E h \in Handlers : Handler(h) \/ HangUp(h) \/ \E e \in Events : Receive(h, e)

\* Tasks that can go on do, the agent takes what is on the bus, time passes.
Spec ==
  /\ Init /\ [][Next]_vars
  /\ WF_vars(Flush) /\ WF_vars(ConsumeInbound) /\ WF_vars(Tick)
  /\ \A h \in Handlers : WF_vars(Handler(h))

-----------------------------------------------------------------------------
(* Properties                                                              *)

Held == UNION ({Elements(pending[c].msgs) : c \in Chats}
               \union {UNION {Elements(msgs) : msgs \in out[t]} : t \in Tasks})
Given == {e \in Events : given[e] > 0}

\* However often Feishu pushes it, and whoever drains its batch, a message is
\* given to the agent once (feishu.rs:147).
GivenOnce == \A e \in Events : given[e] + (IF e \in Held THEN 1 ELSE 0) <= 1

\* An event that was answered 200 is on its way to the agent or was, by itself
\* or in the same words, or it is among those the code is known to drop: an
\* expired batch replaced, a handler dropped or panicked.
AckedIsKept ==
  \A e \in acked : \E m \in Events : SaidAs[m] = SaidAs[e] /\ m \in Held \union Given \union lost

\* What was collected does not stay: it reaches the bus, unless a handler
\* collected it when the flush task of a stopping server had ended.
Unheard == (Held # {} /\ pc["flush"] # "end") \/ \E t \in Tasks : out[t] # {}

Heard == Unheard ~> ~Unheard

=============================================================================
