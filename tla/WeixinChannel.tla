---------------------------- MODULE WeixinChannel ----------------------------
(***************************************************************************)
(* The intake of the Weixin adapter: the long poll with its position in    *)
(* the server's log, a task for each message it brings, the deduplication  *)
(* those tasks share, and the file of context tokens they rewrite.         *)
(*                                                                         *)
(* The server is external: messages are numbered, a poll at a position     *)
(* makes it forget those before, and a poll may fail after it took effect. *)
(* Message m carries the token m of its sender, and a text of its own, so  *)
(* the fingerprint of the text adds nothing to the id in the set of what   *)
(* was seen; senders whom the policy refuses are left out.  A name in the  *)
(* file system is an inode, called after the task that created it, which   *)
(* holds what was written to it: a table of tokens, or Torn.               *)
(***************************************************************************)
EXTENDS Integers, Sequences, FiniteSets

CONSTANTS
  MaxMsgs,     \* messages that are sent
  Users,       \* their senders
  Sender,      \* the sender of each message
  InboxCap,    \* capacity of the bus's inbound channel
  MaxFaults,   \* polls that fail
  Tasks,       \* messages handed out, each of which gets a task
  Carries      \* the message of a task; those after MaxMsgs repeat one

Msgs == 1 .. MaxMsgs

WeixinAssumption ==
  /\ {MaxMsgs, InboxCap} \subseteq Nat \ {0} /\ MaxFaults \in Nat
  /\ Sender \in [Msgs -> Users]
  /\ Msgs \subseteq Tasks /\ 0 \notin Tasks
  /\ Carries \in [Tasks -> Msgs] /\ \A m \in Msgs : Carries[m] = m

VARIABLES
  running, position,  \* sync_buf: the first message not fetched yet
  seen,               \* MessageDedup
  task,               \* where each task is
  cache,              \* ContextTokenStore: the token of each user, 0 without
  payload, handle,    \* what a task writes, and to which inode
  tmp, path,          \* the inodes under the two names, 0 without
  data,               \* the content of the inodes
  inbox,              \* the bus's inbound channel
  sent, forgotten,    \* the server's messages, and how many it forgot
  faults,
  delivered           \* history: messages handed to the bus, in order

poller == <<running, position>>
store == <<cache, payload, handle, tmp, path, data>>
server == <<sent, forgotten, faults>>
vars == <<poller, seen, task, store, inbox, server, delivered>>

\* The steps of process_message and, within it, of set and persist.
Steps == {"none", "start", "token", "snapshot", "create", "write", "rename",
          "remove", "send", "over"}

Tables == [Users -> 0 .. MaxMsgs]
Empty == [u \in Users |-> 0]
Torn == [u \in Users |-> -1]   \* a content of which only a part was overwritten
Entries(table) == Cardinality({u \in Users : table[u] # 0})

TypeOK ==
  /\ running \in BOOLEAN /\ position \in 1 .. MaxMsgs + 1
  /\ seen \subseteq Msgs
  /\ task \in [Tasks -> Steps]
  /\ cache \in Tables /\ payload \in [Tasks -> Tables] /\ handle \in [Tasks -> Tasks \union {0}]
  /\ {tmp, path} \subseteq Tasks \union {0} /\ data \in [Tasks -> Tables \union {Torn}]
  /\ Len(inbox) <= InboxCap
  /\ forgotten <= sent /\ sent \in 0 .. MaxMsgs

Init ==
  /\ running = TRUE /\ position = 1
  /\ seen = {} /\ task = [t \in Tasks |-> "none"]
  /\ cache = Empty /\ payload = [t \in Tasks |-> Empty] /\ handle = [t \in Tasks |-> 0]
  /\ tmp = 0 /\ path = 0 /\ data = [t \in Tasks |-> Empty]
  /\ inbox = <<>> /\ sent = 0 /\ forgotten = 0 /\ faults = 0 /\ delivered = <<>>

-----------------------------------------------------------------------------
(* PollContext::run                                                        *)

\* A response: the position moves on before its messages are looked at, each
\* of which gets a task.
Poll ==
  /\ running /\ position <= sent
  /\ forgotten' = position - 1
  /\ position' = sent + 1
  /\ task' = [t \in Tasks |-> IF t \in position .. sent THEN "start" ELSE task[t]]
  /\ UNCHANGED <<running, seen, store, inbox, sent, faults, delivered>>

\* No response, one that is not a success, or a session that expired: a sleep,
\* and the same position again.
PollFails ==
  /\ running /\ faults < MaxFaults
  /\ faults' = faults + 1
  /\ forgotten' \in {forgotten, position - 1}
  /\ UNCHANGED <<poller, seen, task, store, inbox, sent, delivered>>

\* The server hands a message out again that it has not forgotten.
Redeliver(t) ==
  /\ running /\ t \notin Msgs /\ task[t] = "none" /\ Carries[t] \in forgotten + 1 .. position - 1
  /\ task' = [task EXCEPT ![t] = "start"]
  /\ UNCHANGED <<poller, seen, store, inbox, server, delivered>>

Disconnect ==
  /\ running
  /\ running' = FALSE
  /\ UNCHANGED <<position, seen, task, store, inbox, server, delivered>>

-----------------------------------------------------------------------------
(* process_message                                                         *)

Goes(t, from, to) == task[t] = from /\ task' = [task EXCEPT ![t] = to]

Remember(m) == seen' = seen \union {m}

\* Looked up and remembered under one lock.
Deduplicate(t) ==
  /\ Goes(t, "start", IF Carries[t] \in seen THEN "over" ELSE "token")
  /\ Remember(Carries[t])
  /\ UNCHANGED <<poller, store, inbox, server, delivered>>

SetToken(t) ==
  /\ Goes(t, "token", "snapshot")
  /\ cache' = [cache EXCEPT ![Sender[Carries[t]]] = Carries[t]]
  /\ UNCHANGED <<poller, seen, payload, handle, tmp, path, data, inbox, server, delivered>>

\* A message without a token.
NoToken(t) ==
  /\ Goes(t, "token", "send")
  /\ UNCHANGED <<poller, seen, store, inbox, server, delivered>>

-----------------------------------------------------------------------------
(* ContextTokenStore::persist                                              *)

Snapshot(t) ==
  /\ Goes(t, "snapshot", "create")
  /\ payload' = [payload EXCEPT ![t] = cache]
  /\ UNCHANGED <<poller, seen, cache, handle, tmp, path, data, inbox, server, delivered>>

\* The temporary file is created, or truncated when another task has it open.
Create(t) ==
  /\ Goes(t, "create", "write")
  /\ LET inode == IF tmp = 0 THEN t ELSE tmp
     IN  /\ tmp' = inode
         /\ handle' = [handle EXCEPT ![t] = inode]
         /\ data' = [data EXCEPT ![inode] = Empty]
  /\ UNCHANGED <<poller, seen, cache, payload, path, inbox, server, delivered>>

\* From the first byte of the inode on; the end of a longer content stays.
Over(new, old) == IF old = Torn \/ Entries(old) > Entries(new) THEN Torn ELSE new

Write(t) ==
  /\ Goes(t, "write", "rename")
  /\ data' = [data EXCEPT ![handle[t]] = Over(payload[t], @)]
  /\ UNCHANGED <<poller, seen, cache, payload, handle, tmp, path, inbox, server, delivered>>

\* Fault: a table that cannot be saved is an error of the message.
GiveUp == "over"

GoOn == "send"

\* Of the temporary file as it is by now; without one the rename fails.
Rename(t) ==
  /\ Goes(t, "rename", IF tmp = 0 THEN "remove" ELSE "send")
  /\ path' = IF tmp = 0 THEN path ELSE tmp
  /\ tmp' = 0
  /\ UNCHANGED <<poller, seen, cache, payload, handle, data, inbox, server, delivered>>

\* What is removed after a failure may be the file of another task.
Remove(t) ==
  /\ Goes(t, "remove", GoOn)
  /\ tmp' = 0
  /\ UNCHANGED <<poller, seen, cache, payload, handle, path, data, inbox, server, delivered>>

\* The last step of process_message.
Dispatch(t) ==
  /\ Len(inbox) < InboxCap
  /\ Goes(t, "send", "over")
  /\ inbox' = Append(inbox, Carries[t])
  /\ delivered' = Append(delivered, Carries[t])
  /\ UNCHANGED <<poller, seen, store, server>>

-----------------------------------------------------------------------------

Send ==
  /\ sent < MaxMsgs
  /\ sent' = sent + 1
  /\ UNCHANGED <<poller, seen, task, store, inbox, forgotten, faults, delivered>>

ConsumeInbound ==
  /\ inbox # <<>>
  /\ inbox' = Tail(inbox)
  /\ UNCHANGED <<poller, seen, task, store, server, delivered>>

Task(t) ==
  \/ Deduplicate(t) \/ SetToken(t) \/ Snapshot(t) \/ Create(t) \/ Write(t) \/ Rename(t)
  \/ Remove(t) \/ Dispatch(t)

Next ==
  \/ Poll \/ PollFails \/ Disconnect
  \/ \E t \in Tasks : Task(t) \/ NoToken(t) \/ Redeliver(t)
  \/ Send \/ ConsumeInbound

\* The poller, the tasks and the agent loop; the server repeats nothing it
\* does not have to.
Spec ==
  /\ Init /\ [][Next]_vars /\ WF_vars(Poll) /\ WF_vars(ConsumeInbound)
  /\ \A t \in Tasks : WF_vars(Task(t))

-----------------------------------------------------------------------------
(* Properties                                                              *)

\* However often the server hands a message out, and however the tasks of its
\* copies interleave, the agent gets it once.
DeliveredOnce ==
  \A i, j \in DOMAIN delivered : delivered[i] = delivered[j] => i = j

\* A message goes through to the agent sooner or later, although its task
\* waits for files and for room, unless the channel is stopped first.
Unheard == running /\ \E m \in 1 .. sent : \A i \in DOMAIN delivered : delivered[i] # m

Heard == Unheard ~> ~Unheard

=============================================================================
