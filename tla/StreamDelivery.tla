--------------------------- MODULE StreamDelivery ---------------------------
(***************************************************************************)
(* How a streamed answer reaches the chat: the runner broadcasts text and  *)
(* done chunks and tool-call events, a StreamConsumer task polls both and  *)
(* sends or edits a platform message, and process_message, once the        *)
(* consumer has ended, publishes the answer itself unless the consumer     *)
(* returned the id of a message.                                           *)
(*                                                                         *)
(* Each attempt of each run spawns a consumer of its own, named by its     *)
(* number.  A text chunk is <<consumer spawned for the attempt, iteration, *)
(* index>>; all chunks carry the same session key, so every consumer that  *)
(* is still alive accumulates them.                                        *)
(***************************************************************************)
EXTENDS Integers, Sequences, SequencesExt

CONSTANTS
  MaxRuns,       \* messages of the session processed one after the other
  MaxIterations, \* calls of the provider in an attempt
  Chunks,        \* text chunks of one call
  MaxConsumers,  \* attempts, over all runs
  StreamCap,     \* capacity of the chunk broadcast
  MaxOther,      \* events of others that the consumers see
  SendsMayFail,  \* may the platform refuse a send or an edit?
  MayTimeOut     \* does the deadline of run() interrupt a run?

StreamAssumption ==
  /\ {MaxRuns, MaxIterations, Chunks, MaxConsumers, StreamCap} \subseteq Nat \ {0}
  /\ MaxOther \in Nat
  /\ {SendsMayFail, MayTimeOut} \subseteq BOOLEAN

VARIABLES
  pc,        \* where process_message and the runner inside it are
  run,       \* number of the run
  iter,      \* iteration of the runner
  sent,      \* text chunks of this iteration that were emitted
  result,    \* outcome of the run
  spawned,   \* consumers spawned so far; the last is the current one
  con,       \* the consumers
  screen,    \* the text on the platform, per consumer that put it there
  settled,   \* history: how the runs were answered
  others     \* events of others emitted so far

runVars == <<pc, run, iter, sent, result>>
vars == <<runVars, spawned, con, screen, settled, others>>

Consumers == 1 .. MaxConsumers
Text == Consumers \X (1 .. MaxIterations) \X (1 .. Chunks)
Done == <<0, 0, 0>>

\* The text of the answer the current iteration gives.
Answer == {<<spawned, iter, k>> : k \in 1 .. Chunks}

NewConsumer ==
  [st |-> "drain", rx |-> <<>>, lagged |-> FALSE, ev |-> <<>>, acc |-> {},
   done |-> FALSE, break |-> FALSE, hasId |-> FALSE, edits |-> TRUE]

Alive(c) == con[c].st \in {"drain", "events", "show"}

\* Fault: the buffer of a receiver grows without a limit.
ReceiveAll(r, chunk) == [r EXCEPT !.rx = Append(@, chunk)]

\* broadcast::Sender::send to every subscribed consumer: a full buffer forgets
\* its oldest chunk and the receiver's next try_recv says Lagged.
Receive(r, chunk) ==
  IF Len(r.rx) < StreamCap
  THEN [r EXCEPT !.rx = Append(@, chunk)]
  ELSE [r EXCEPT !.rx = Append(Tail(@), chunk), !.lagged = TRUE]

Emit(chunk) == con' = [c \in Consumers |-> IF Alive(c) THEN Receive(con[c], chunk) ELSE con[c]]

EmitEvent(e) ==
  con' = [c \in Consumers |-> IF Alive(c) THEN [con[c] EXCEPT !.ev = Append(@, e)] ELSE con[c]]

Init ==
  /\ pc = "start" /\ run = 1 /\ iter = 1 /\ sent = 0 /\ result = "none"
  /\ spawned = 0
  /\ con = [c \in Consumers |-> [NewConsumer EXCEPT !.st = "unborn"]]
  /\ screen = [c \in Consumers |-> {}]
  /\ settled = {} /\ others = 0

-----------------------------------------------------------------------------
(* process_message and the runner.                                         *)

\* spawn_stream_consumer: the broadcast is subscribed before the first chunk.
Spawn ==
  /\ pc = "start" /\ spawned < MaxConsumers
  /\ pc' = "stream" /\ iter' = 1 /\ sent' = 0 /\ result' = "none"
  /\ spawned' = spawned + 1
  /\ con' = [con EXCEPT ![spawned + 1] = NewConsumer]
  /\ UNCHANGED <<run, screen, settled, others>>

EmitText ==
  /\ pc = "stream" /\ sent < Chunks
  /\ sent' = sent + 1
  /\ Emit(<<spawned, iter, sent + 1>>)
  /\ UNCHANGED <<pc, run, iter, result, spawned, screen, settled, others>>

\* Fault: the text that comes with the provider's last chunk is not emitted.
EmitDoneEarly ==
  /\ pc = "stream" /\ sent = Chunks - 1
  /\ Emit(Done)
  /\ \/ pc' = "join" /\ result' = "ok"
     \/ pc' = "toolcall" /\ iter < MaxIterations /\ UNCHANGED result
  /\ UNCHANGED <<run, iter, sent, spawned, screen, settled, others>>

\* complete_streaming ends every iteration with a done chunk, then run()
\* either returns the content or goes on to the tool calls.
EmitDone ==
  /\ pc = "stream" /\ sent = Chunks
  /\ Emit(Done)
  /\ \/ pc' = "join" /\ result' = "ok"
     \/ pc' = "toolcall" /\ iter < MaxIterations /\ UNCHANGED result
  /\ UNCHANGED <<run, iter, sent, spawned, screen, settled, others>>

EmitToolCall ==
  /\ pc = "toolcall"
  /\ pc' = "tools"
  /\ EmitEvent("tool")
  /\ UNCHANGED <<run, iter, sent, result, spawned, screen, settled, others>>

NextIteration ==
  /\ pc = "tools"
  /\ pc' = "stream" /\ iter' = iter + 1 /\ sent' = 0
  /\ UNCHANGED <<run, result, spawned, con, screen, settled, others>>

\* The head of an iteration: of the first, before any text, or of a later one.
AtHead == pc = "tools" \/ (pc = "stream" /\ iter = 1 /\ sent = 0)

\* Fault: the cancelled run returns without a done chunk.
SeeCancelledSilently ==
  /\ AtHead
  /\ pc' = "join" /\ result' = "cancelled"
  /\ UNCHANGED <<run, iter, sent, spawned, con, screen, settled, others>>

\* The head of the iteration finds the token cancelled: an empty done chunk.
SeeCancelled ==
  /\ AtHead
  /\ pc' = "join" /\ result' = "cancelled"
  /\ Emit(Done)
  /\ UNCHANGED <<run, iter, sent, spawned, screen, settled, others>>

\* Fault: the consumer of the attempt that failed is left running.
RetryWithoutAbort ==
  /\ pc = "stream" /\ spawned < MaxConsumers
  /\ pc' = "start"
  /\ UNCHANGED <<run, iter, sent, result, spawned, con, screen, settled, others>>

\* A transient error with a retry left: the consumer's task is aborted.
RetryRun ==
  /\ pc = "stream" /\ spawned < MaxConsumers
  /\ pc' = "start"
  /\ con' = [con EXCEPT ![spawned].st = IF Alive(spawned) THEN "aborted" ELSE @]
  /\ UNCHANGED <<run, iter, sent, result, spawned, screen, settled, others>>

FailRun ==
  /\ pc = "stream"
  /\ pc' = "join" /\ result' = "error"
  /\ UNCHANGED <<run, iter, sent, spawned, con, screen, settled, others>>

\* handle.await.
Join ==
  /\ pc = "join" /\ con[spawned].st = "ended"
  /\ pc' = "reply"
  /\ UNCHANGED <<run, iter, sent, result, spawned, con, screen, settled, others>>

Settlement(how) ==
  [run |-> run, answer |-> IF result = "ok" THEN Answer ELSE {}, by |-> spawned,
   result |-> result, how |-> how]

EndRun(how) ==
  /\ settled' = settled \cup {Settlement(how)}
  /\ run' = run + 1
  /\ pc' = IF run < MaxRuns THEN "start" ELSE "over"

\* stream_delivered_msg_id decides whether an answer is published; an error
\* always is.
Reply ==
  /\ pc = "reply"
  /\ EndRun(IF result # "error" /\ con[spawned].hasId THEN "streamed" ELSE "published")
  /\ UNCHANGED <<iter, sent, result, spawned, con, screen, others>>

\* Dropping process_message drops the JoinHandle: the consumer is detached.
Timeout ==
  /\ MayTimeOut /\ pc \notin {"over", "start"}
  /\ EndRun("timeout")
  /\ UNCHANGED <<iter, sent, result, spawned, con, screen, others>>

OtherEvent ==
  /\ others < MaxOther
  /\ others' = others + 1
  /\ EmitEvent("other")
  /\ UNCHANGED <<runVars, spawned, screen, settled>>

-----------------------------------------------------------------------------
(* StreamConsumer::run, one poll: chunks, then events, then the platform.  *)

\* Lagged ends the inner loop; what is left in the buffer waits for a poll.
Drain(c) ==
  LET me == con[c]
      read == ToSet(me.rx)
  IN /\ me.st = "drain"
     /\ con' = [con EXCEPT ![c] =
          IF me.lagged THEN [me EXCEPT !.st = "events", !.lagged = FALSE]
          ELSE [me EXCEPT !.st = "events", !.rx = <<>>,
                          !.acc = @ \cup (read \ {Done}), !.done = Done \in read]]
     /\ UNCHANGED <<runVars, spawned, screen, settled, others>>

\* The k tool calls at the front of the event buffer break the segment; the
\* event of another kind after them is consumed and ends the inner loop.
ReadEvents(c) ==
  LET ev == con[c].ev
  IN /\ con[c].st = "events"
     /\ \E k \in 0 .. Len(ev) :
          /\ \A i \in 1 .. k : ev[i] = "tool"
          /\ k < Len(ev) => ev[k + 1] # "tool"
          /\ con' = [con EXCEPT ![c].st = "show", ![c].break = k > 0,
                                ![c].ev = SubSeq(ev, k + 2, Len(ev))]
     /\ UNCHANGED <<runVars, spawned, screen, settled, others>>

\* What a segment break and the end of the stream do once a poll has shown r.
EndPoll(r) ==
  LET s == IF r.break THEN [r EXCEPT !.acc = {}, !.hasId = FALSE] ELSE r
  IN [s EXCEPT !.st = IF r.done THEN "ended" ELSE "drain"]

\* send_or_edit puts the accumulated text on the platform: a message without
\* an id is sent, one with an id is edited while edits are supported.
ShowText(c) ==
  /\ con[c].st = "show" /\ con[c].acc # {}
  /\ ~con[c].hasId \/ con[c].edits
  /\ screen' = [screen EXCEPT ![c] = @ \cup con[c].acc]
  /\ con' = [con EXCEPT ![c] = EndPoll([@ EXCEPT !.hasId = TRUE])]
  /\ UNCHANGED <<runVars, spawned, settled, others>>

\* Fault: the message id is taken from a send that failed.
FailToShowButKeepId(c) ==
  /\ SendsMayFail
  /\ con[c].st = "show" /\ con[c].acc # {}
  /\ ~con[c].hasId \/ con[c].edits
  /\ con' = [con EXCEPT ![c] = EndPoll([@ EXCEPT !.edits = FALSE, !.hasId = TRUE])]
  /\ UNCHANGED <<runVars, spawned, screen, settled, others>>

\* The platform refuses: flood control keeps edits on until the strikes are
\* used up, every other failure turns them off.
FailToShow(c) ==
  /\ SendsMayFail
  /\ con[c].st = "show" /\ con[c].acc # {}
  /\ ~con[c].hasId \/ con[c].edits
  /\ \E edits \in (IF con[c].hasId THEN BOOLEAN ELSE {FALSE}) :
       con' = [con EXCEPT ![c] = EndPoll([@ EXCEPT !.edits = edits])]
  /\ UNCHANGED <<runVars, spawned, screen, settled, others>>

\* Nothing to show, not yet time to edit, or edits no longer supported.
ShowNothing(c) ==
  /\ con[c].st = "show"
  /\ \/ con[c].acc = {}
     \/ ~con[c].done /\ ~con[c].break
     \/ con[c].hasId /\ ~con[c].edits
  /\ con' = [con EXCEPT ![c] = EndPoll(@)]
  /\ UNCHANGED <<runVars, spawned, screen, settled, others>>

-----------------------------------------------------------------------------

RunStep ==
  \/ Spawn \/ EmitText \/ EmitDone \/ EmitToolCall \/ NextIteration
  \/ SeeCancelled \/ RetryRun \/ FailRun \/ Join \/ Reply
ConsumerStep(c) == Drain(c) \/ ReadEvents(c) \/ ShowText(c) \/ FailToShow(c) \/ ShowNothing(c)

\* The consumers that no run needs any more poll for ever: no deadlock.
Next ==
  \/ RunStep \/ Timeout \/ OtherEvent
  \/ \E c \in Consumers : ConsumerStep(c)

\* The runtime polls every task; nothing obliges the deadline to expire.
Spec == Init /\ [][Next]_vars /\ WF_vars(RunStep)
             /\ \A c \in Consumers : WF_vars(ConsumerStep(c))

-----------------------------------------------------------------------------
(* Properties.                                                             *)

\* Types, and no receiver's buffer exceeds the capacity of the broadcast.
TypeOK ==
  /\ pc \in {"start", "stream", "toolcall", "tools", "join", "reply", "over"}
  /\ run \in 1 .. MaxRuns + 1 /\ iter \in 1 .. MaxIterations /\ sent \in 0 .. Chunks
  /\ result \in {"none", "ok", "cancelled", "error"}
  /\ spawned \in 0 .. MaxConsumers /\ others \in 0 .. MaxOther
  /\ \A c \in Consumers :
       /\ con[c].st \in {"unborn", "drain", "events", "show", "ended", "aborted"}
       /\ ToSet(con[c].rx) \subseteq Text \cup {Done} /\ Len(con[c].rx) <= StreamCap
       /\ ToSet(con[c].ev) \subseteq {"tool", "other"} /\ con[c].acc \subseteq Text
       /\ screen[c] \subseteq Text
  /\ \A s \in settled : s.answer \subseteq Text /\ s.how \in {"streamed", "published", "timeout"}

\* What the user got to see of the text of settlement s, by whatever way.
Seen(s) == UNION {screen[c] : c \in Consumers} \cup (IF s.how = "published" THEN s.answer ELSE {})

\* loop_mod.rs:817 "Skip outbound if stream consumer already delivered the
\* response": when a run is answered, the user has the whole answer, from
\* the stream or from the outbound queue.
AnswerReachesUser ==
  \A s \in settled : s.result = "ok" /\ s.how # "timeout" => s.answer \subseteq Seen(s)

\* stream_consumer.rs:92 "used by the caller to suppress duplicate sends": no
\* text of an answer is put before the user twice, by two consumers or by a
\* consumer and by the outbound queue.
AnswerShownOnce ==
  \A s \in settled :
    /\ s.how = "published" => screen[s.by] \cap s.answer = {}
    /\ \A c, d \in Consumers : c # d => screen[c] \cap screen[d] \cap s.answer = {}

\* An answer is never suppressed for a user who has seen nothing of the run:
\* the consumer that vouches for it did put text of its own attempt up.
SuppressedWasSeen ==
  \A s \in settled :
    s.how = "streamed" => \E t \in screen[s.by] : t[1] = s.by

\* A run that came to an answer, or was cancelled, never hangs in the join:
\* its done chunk reaches the consumer however many chunks are forgotten.
AnswerEndsJoin ==
  (pc = "join" /\ result \in {"ok", "cancelled"}) ~> (pc # "join")
=============================================================================
