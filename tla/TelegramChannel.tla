-------------------------- MODULE TelegramChannel ---------------------------
(***************************************************************************)
(* The intake of the Telegram adapter: the long-polling task that takes    *)
(* updates, with the offset that confirms them, its back-off and the       *)
(* rebuilding of its HTTP client.                                          *)
(*                                                                         *)
(* Telegram is external: updates are numbered, getUpdates(offset) forgets  *)
(* those below the offset and returns the rest, and a request may take     *)
(* effect although its response is lost.  A client built before the proxy  *)
(* was restarted never gets through again.  The process may be killed at   *)
(* any step; the offset is only in its memory.                             *)
(***************************************************************************)
EXTENDS Integers, Sequences

CONSTANTS
  MaxUpdates,   \* updates that arrive
  Local,        \* those the adapter answers itself: commands, routed buttons, blanks
  MaxBackoff,   \* max_backoff_secs
  Threshold,    \* CLIENT_REBUILD_THRESHOLD
  InboxCap,     \* capacity of the bus's inbound channel
  MaxFaults,    \* requests that fail although the client is good
  MaxRestarts   \* process kills

TelegramAssumption ==
  /\ {MaxUpdates, MaxBackoff, Threshold, InboxCap} \subseteq Nat \ {0}
  /\ {MaxFaults, MaxRestarts} \subseteq Nat
  /\ Local \subseteq 1 .. MaxUpdates

VARIABLES
  phase, running,            \* the polling task and its flag
  offset, backoff, failures, \* locals of poll_loop; offset 0 is None
  batch,                     \* updates of the response still to be handled
  stale,                     \* the client was built before the proxy restarted
  inbox,                     \* the bus's inbound channel
  arrived, confirmed,        \* Telegram: updates that exist, and those it forgot
  taken,                     \* history: updates handled by this process, in order
  handled,                   \* history: updates handled by any process
  proxyUp, faults, restarts  \* has the proxy still to restart; faults so far

poller == <<phase, running, offset, backoff, failures, batch, stale, taken, handled>>
telegram == <<arrived, confirmed>>
faulty == <<proxyUp, faults, restarts>>
vars == <<poller, telegram, inbox, faulty>>

Updates == 1 .. MaxUpdates

TypeOK ==
  /\ phase \in {"poll", "batch", "sleep", "stopped"}
  /\ {running, stale, proxyUp} \subseteq BOOLEAN
  /\ offset \in 0 .. MaxUpdates + 1 /\ backoff \in 1 .. MaxBackoff
  /\ failures \in 0 .. Threshold
  /\ \A i \in DOMAIN batch : batch[i] \in Updates
  /\ Len(inbox) <= InboxCap
  /\ confirmed <= arrived /\ arrived \in 0 .. MaxUpdates
  /\ handled \subseteq Updates

Fresh ==   \* a process that has just connected
  /\ phase = "poll" /\ running = TRUE /\ offset = 0 /\ backoff = 1 /\ failures = 0
  /\ batch = <<>> /\ stale = FALSE /\ inbox = <<>> /\ taken = <<>>

Init ==
  /\ Fresh
  /\ arrived = 0 /\ confirmed = 0 /\ handled = {}
  /\ proxyUp = TRUE /\ faults = 0 /\ restarts = 0

-----------------------------------------------------------------------------
(* poll_loop                                                               *)

Loop == IF running THEN "poll" ELSE "stopped"
Slept == IF 2 * backoff < MaxBackoff THEN 2 * backoff ELSE MaxBackoff

\* What the request itself does at Telegram.
Confirm == IF offset > confirmed + 1 THEN offset - 1 ELSE confirmed

Rebuild == failures' = 0 /\ stale' = FALSE

\* No response: the failure is counted, and at the threshold the client is
\* built anew, its counter cleared, and a getMe through it decides whether the
\* loop goes on at once or sleeps.
PollFails ==
  /\ phase = "poll" /\ (stale \/ faults < MaxFaults)
  /\ faults' = IF stale THEN faults ELSE faults + 1
  /\ confirmed' \in IF stale THEN {confirmed} ELSE {confirmed, Confirm}
  /\ IF failures + 1 >= Threshold
     THEN /\ Rebuild
          /\ \/ phase' = Loop /\ backoff' = 1
             \/ phase' = "sleep" /\ UNCHANGED backoff
     ELSE /\ failures' = failures + 1 /\ phase' = "sleep"
          /\ UNCHANGED <<stale, backoff>>
  /\ UNCHANGED <<running, offset, batch, taken, handled, arrived, inbox, proxyUp, restarts>>

\* The response cannot be parsed (a sleep of its own, nothing counted) or says
\* that it is not ok, a conflict with another poller among others.
PollRefused(parsed) ==
  /\ phase = "poll" /\ ~stale /\ faults < MaxFaults
  /\ faults' = faults + 1
  /\ confirmed' = IF parsed THEN confirmed ELSE Confirm
  /\ phase' = IF parsed THEN "sleep" ELSE Loop
  /\ UNCHANGED <<running, offset, backoff, failures, batch, stale, taken, handled,
                 arrived, inbox, proxyUp, restarts>>

\* The back-off is over; it doubles for the next time.
Sleep ==
  /\ phase = "sleep"
  /\ backoff' = Slept
  /\ phase' = Loop
  /\ UNCHANGED <<running, offset, failures, batch, stale, taken, handled, telegram, inbox,
                 faulty>>

\* Updates in the order of their numbers, none below the offset.
PollSucceeds ==
  /\ phase = "poll" /\ ~stale
  /\ Confirm < arrived \/ Confirm > confirmed
  /\ confirmed' = Confirm
  /\ batch' = [i \in 1 .. arrived - Confirm |-> Confirm + i]
  /\ backoff' = 1 /\ failures' = 0
  /\ phase' = "batch"
  /\ UNCHANGED <<running, offset, stale, taken, handled, arrived, inbox, faulty>>

\* Fault: the offset is that of the last update.
AckLast(u) == offset' = u

\* "Advance offset so we never re-process."
Ack(u) == offset' = u + 1

\* One update: answered by the adapter, or handed to the bus once it has room.
HandleUpdate ==
  /\ phase = "batch" /\ batch # <<>>
  /\ LET u == Head(batch)
     IN  /\ u \notin Local => Len(inbox) < InboxCap
         /\ Ack(u)
         /\ inbox' = IF u \in Local THEN inbox ELSE Append(inbox, u)
         /\ taken' = Append(taken, u)
         /\ handled' = handled \union {u}
  /\ batch' = Tail(batch)
  /\ UNCHANGED <<phase, running, backoff, failures, stale, telegram, faulty>>

\* Only now the flag is looked at.
EndOfBatch ==
  /\ phase = "batch" /\ batch = <<>>
  /\ phase' = Loop
  /\ UNCHANGED <<running, offset, backoff, failures, batch, stale, taken, handled, telegram,
                 inbox, faulty>>

Disconnect ==
  /\ running
  /\ running' = FALSE
  /\ UNCHANGED <<phase, offset, backoff, failures, batch, stale, taken, handled, telegram,
                 inbox, faulty>>

-----------------------------------------------------------------------------
(* Telegram, the proxy, the agent loop and the process                     *)

Arrive ==
  /\ arrived < MaxUpdates
  /\ arrived' = arrived + 1
  /\ UNCHANGED <<poller, confirmed, inbox, faulty>>

ConsumeInbound ==
  /\ inbox # <<>>
  /\ inbox' = Tail(inbox)
  /\ UNCHANGED <<poller, telegram, faulty>>

ProxyRestart ==
  /\ proxyUp
  /\ proxyUp' = FALSE /\ stale' = TRUE
  /\ UNCHANGED <<phase, running, offset, backoff, failures, batch, taken, handled, telegram,
                 inbox, faults, restarts>>

\* Killed, or stopped, and started again: Fresh holds of the new process.
Restart ==
  /\ restarts < MaxRestarts
  /\ restarts' = restarts + 1
  /\ phase' = "poll" /\ running' = TRUE /\ offset' = 0 /\ backoff' = 1 /\ failures' = 0
  /\ batch' = <<>> /\ stale' = FALSE /\ inbox' = <<>> /\ taken' = <<>>
  /\ UNCHANGED <<handled, telegram, proxyUp, faults>>

Poller ==
  \/ Sleep \/ PollSucceeds \/ HandleUpdate \/ EndOfBatch
  \/ (PollFails /\ stale)

Next ==
  \/ Sleep \/ PollSucceeds \/ HandleUpdate \/ EndOfBatch \/ PollFails
  \/ \E parsed \in BOOLEAN : PollRefused(parsed)
  \/ Disconnect
  \/ Arrive \/ ConsumeInbound \/ ProxyRestart \/ Restart

\* The poller, and the agent loop that makes room for it.
Spec == Init /\ [][Next]_vars /\ WF_vars(Poller) /\ WF_vars(ConsumeInbound)

-----------------------------------------------------------------------------
(* Properties                                                              *)

\* Telegram forgets no update that was not handled, however the process is
\* killed and whichever responses are lost: the offset follows the handling.
ForgottenWasHandled == \A u \in Updates : u <= confirmed => u \in handled

\* One process handles each update at most once, in the order they arrived, and
\* leaves none out.
OncePerProcess == \A i \in 1 .. Len(taken) - 1 : taken[i + 1] = taken[i] + 1

\* An update is handled sooner or later, also when the proxy restarts under the
\* client, unless the channel is stopped.
Unheard == running /\ \E u \in 1 .. arrived : u \notin handled

Heard == Unheard ~> ~Unheard
=============================================================================
