--------------------------- MODULE ProviderStream ---------------------------
(***************************************************************************)
(* A streamed completion: the SSE parser of an OpenAI-compatible or of the *)
(* Anthropic provider, the channel of chunks behind it, and the runner     *)
(* that puts the answer together, watches the stream's health and starts   *)
(* it again.                                                               *)
(*                                                                         *)
(* The provider says text, thoughts and tool calls in pieces, and ends;    *)
(* what it says is external.  Lines are whole: how bytes are cut into them *)
(* is left out, and so are lines the parser skips.  A piece of text is the *)
(* number of the attempt it was said in.                                   *)
(***************************************************************************)
EXTENDS Integers, Sequences

CONSTANTS
  Calls,      \* indexes of the tool calls of an answer
  MaxText,    \* pieces of text, or of thought, in an attempt
  MaxArgs,    \* pieces of arguments of a call
  Cap,        \* capacity of the channel of chunks (32)
  MaxRetries, \* max_stream_retries
  FirstByte, Idle, StalePoll, Progress, Absolute  \* timeouts, in ticks

StreamAssumption ==
  /\ {MaxText, MaxArgs, MaxRetries} \subseteq Nat /\ Cap \in Nat \ {0}
  /\ {FirstByte, Idle, StalePoll, Progress, Absolute} \subseteq Nat \ {0}

VARIABLES
  api,      \* whose stream it is
  said,     \* what the provider has said in this attempt, and whether that is all
  acc,      \* tc_acc: the calls the parser has collected
  queue,    \* chunks on their way to the runner
  parser,   \* does the parser run?
  phase,    \* of complete_streaming
  retries,  \* stream_attempt
  got,      \* full_content and tool_calls_map
  poll,     \* the poll: time it has waited, whether it is the first
  health    \* StreamHealthMonitor: ages of the last chunk and content, state, thinking

provider == <<api, said, acc, parser>>
runner == <<phase, retries, got, poll, health>>
vars == <<provider, queue, runner>>

Apis == {"openai", "anthropic"}
Call == [named : BOOLEAN, args : 0 .. MaxArgs]
NoCalls == <<>>
Silence == [text |-> <<>>, thoughts |-> 0, calls |-> NoCalls, over |-> FALSE]
Nothing == [text |-> <<>>, calls |-> NoCalls]
Fresh == [any |-> 0, content |-> 0, stale |-> FALSE, thinking |-> FALSE]

TypeOK ==
  /\ api \in Apis /\ parser \in BOOLEAN
  /\ phase \in {"connect", "read", "done", "failed"}
  /\ retries \in 0 .. MaxRetries
  /\ Len(queue) <= Cap
  /\ \A i \in DOMAIN acc : i \in Calls /\ acc[i] \in Call
  /\ \A i \in DOMAIN got.calls : i \in Calls /\ got.calls[i] \in Call
  /\ health.any <= Absolute /\ health.content <= Absolute

Init ==
  /\ api \in Apis
  /\ said = Silence /\ acc = NoCalls /\ queue = <<>> /\ parser = FALSE
  /\ phase = "connect" /\ retries = 0 /\ got = Nothing
  /\ poll = [waited |-> 0, first |-> TRUE] /\ health = Fresh

-----------------------------------------------------------------------------
(* The parser                                                              *)

Chunk == [text |-> FALSE, thought |-> FALSE, calls |-> NoCalls, done |-> FALSE, error |-> "none"]
Send(chunk) == Len(queue) < Cap /\ queue' = Append(queue, chunk)
Listening(a) == phase = "read" /\ parser /\ api = a

With(calls, i, call) == [j \in DOMAIN calls \union {i} |-> IF j = i THEN call ELSE calls[j]]
Entry(calls, i) == IF i \in DOMAIN calls THEN calls[i] ELSE [named |-> FALSE, args |-> 0]

Speak ==
  /\ phase = "read" /\ parser /\ ~said.over /\ Len(said.text) < MaxText
  /\ said' = [said EXCEPT !.text = Append(@, retries)]
  /\ Send([Chunk EXCEPT !.text = TRUE])
  /\ UNCHANGED <<api, acc, parser, runner>>

\* Only OpenAI-compatible providers send reasoning_content.
Think ==
  /\ Listening("openai") /\ ~said.over /\ said.thoughts < MaxText
  /\ said' = [said EXCEPT !.thoughts = @ + 1]
  /\ Send([Chunk EXCEPT !.thought = TRUE])
  /\ UNCHANGED <<api, acc, parser, runner>>

\* A piece of a call: its id and name first, then its arguments.  The parser
\* collects it and sends nothing.
Piece(calls, i, named) ==
  LET call == Entry(calls, i)
  IN  IF named THEN [call EXCEPT !.named = TRUE] ELSE [call EXCEPT !.args = @ + 1]

Say(i, named) ==
  /\ ~said.over
  /\ said' = [said EXCEPT !.calls = With(said.calls, i, Piece(said.calls, i, named))]
  /\ UNCHANGED <<api, queue, parser, runner>>

OpenAiDelta(i) ==
  /\ Listening("openai")
  /\ IF i \notin DOMAIN said.calls
     THEN Say(i, TRUE) /\ acc' = With(acc, i, Piece(acc, i, TRUE))
     ELSE /\ said.calls[i].args < MaxArgs /\ Say(i, FALSE)
          /\ acc' = With(acc, i, Piece(acc, i, FALSE))

BlockStart(i) ==
  /\ Listening("anthropic") /\ i \notin DOMAIN said.calls /\ Say(i, TRUE)
  /\ acc' = With(acc, i, [named |-> TRUE, args |-> 0])

InputDelta(i) ==
  /\ Listening("anthropic") /\ i \in DOMAIN said.calls /\ said.calls[i].args < MaxArgs
  /\ Say(i, FALSE)
  /\ acc' = With(acc, i, Piece(acc, i, FALSE))

ClearCalls == acc' = NoCalls

\* The chunk with the reason to finish carries the calls; it is the last one
\* for the runner unless the answer was cut ("length").
OpenAiFinish(cut) ==
  /\ Listening("openai") /\ ~said.over
  /\ said' = [said EXCEPT !.over = TRUE]
  /\ Send([Chunk EXCEPT !.calls = acc, !.done = ~cut])
  /\ ClearCalls
  /\ UNCHANGED <<api, parser, runner>>

\* message_delta: usage and calls, but not yet the end.
MessageDelta ==
  /\ Listening("anthropic") /\ ~said.over
  /\ said' = [said EXCEPT !.over = TRUE]
  /\ Send([Chunk EXCEPT !.calls = acc])
  /\ ClearCalls
  /\ UNCHANGED <<api, parser, runner>>

\* [DONE], or message_stop.
Stop ==
  /\ phase = "read" /\ parser /\ said.over
  /\ Send([Chunk EXCEPT !.calls = acc, !.done = TRUE])
  /\ ClearCalls /\ parser' = FALSE
  /\ UNCHANGED <<api, said, runner>>

\* The transport fails, or the OpenAI parser has had no byte for a minute:
\* errors the runner starts again after.  An error event of Anthropic's is none.
Breaks(error) ==
  /\ phase = "read" /\ parser
  /\ error = "event" => api = "anthropic"
  /\ Send([Chunk EXCEPT !.error = error])
  /\ parser' = FALSE
  /\ UNCHANGED <<api, said, acc, runner>>

\* The connection is closed without an error.
Closes ==
  /\ phase = "read" /\ parser
  /\ parser' = FALSE
  /\ UNCHANGED <<api, said, acc, queue, runner>>

-----------------------------------------------------------------------------
(* complete_streaming *)

Threshold(thinking) == IF thinking THEN 3 * Idle ELSE Idle
Checked(h) == [h EXCEPT !.stale = @ \/ h.content >= Threshold(h.thinking)]

PollLength ==
  IF health.stale THEN StalePoll
  ELSE IF poll.first THEN FirstByte
  ELSE IF Idle < Progress THEN Idle ELSE Progress

\* A new stream for the same request; nothing of the last one is kept.
Connect ==
  /\ phase = "connect"
  /\ said' = Silence /\ acc' = NoCalls /\ queue' = <<>> /\ parser' = TRUE
  /\ got' = Nothing
  /\ phase' = "read" /\ poll' = [waited |-> 0, first |-> TRUE] /\ health' = Fresh
  /\ UNCHANGED <<api, retries>>

ConnectFails ==
  /\ phase = "connect"
  /\ phase' = "failed"
  /\ UNCHANGED <<provider, queue, retries, got, poll, health>>

\* Starts again, as long as it may.
GoBack ==
  /\ IF retries < MaxRetries
     THEN phase' = "connect" /\ retries' = retries + 1
     ELSE phase' = "failed" /\ UNCHANGED retries
  /\ UNCHANGED <<got, poll, health>>

Merged(calls, more) ==
  [i \in DOMAIN calls \union DOMAIN more |->
     IF i \in DOMAIN more
     THEN [named |-> more[i].named \/ Entry(calls, i).named,
           args |-> Entry(calls, i).args + more[i].args]
     ELSE calls[i]]

Take(chunk) ==
  LET content == chunk.text \/ chunk.thought
      h == [health EXCEPT !.any = 0,
              !.content = IF content THEN 0 ELSE @,
              !.stale = @ /\ ~content,
              !.thinking = IF chunk.thought THEN TRUE ELSE @ /\ ~chunk.text]
  IN  /\ got' = [text |-> IF chunk.text THEN Append(got.text, retries) ELSE got.text,
                 calls |-> Merged(got.calls, chunk.calls)]
      /\ health' = IF chunk.done THEN h ELSE Checked(h)
      /\ poll' = [waited |-> 0, first |-> FALSE]
      /\ phase' = IF chunk.done THEN "done" ELSE "read"
      /\ UNCHANGED retries

Receive ==
  /\ phase = "read" /\ queue # <<>>
  /\ queue' = Tail(queue)
  /\ LET chunk == Head(queue)
     IN  CASE chunk.error = "none" -> Take(chunk)
           [] chunk.error = "stream" -> GoBack
           [] OTHER -> phase' = "failed" /\ UNCHANGED <<retries, got, poll, health>>
  /\ UNCHANGED provider

\* What has come is the answer, whether it was all or not.
EndOfStream ==
  /\ phase = "read" /\ queue = <<>> /\ ~parser
  /\ phase' = "done"
  /\ UNCHANGED <<provider, queue, retries, got, poll, health>>

TimesOut ==
  /\ phase = "read" /\ queue = <<>> /\ parser /\ poll.waited >= PollLength
  /\ CASE health.any >= Absolute ->
            phase' = "failed" /\ UNCHANGED <<retries, got, poll, health>>
       [] health.any < Absolute /\ Checked(health).stale -> GoBack
       [] OTHER -> /\ poll' = [waited |-> 0, first |-> FALSE]
                   /\ UNCHANGED <<phase, retries, got, health>>
  /\ UNCHANGED <<provider, queue>>

Tick ==
  /\ phase = "read" /\ (health.any < Absolute \/ poll.waited < Absolute)
  /\ LET Older(age) == IF age < Absolute THEN age + 1 ELSE age
     IN  /\ health' = [health EXCEPT !.any = Older(@), !.content = Older(@)]
         /\ poll' = [poll EXCEPT !.waited = Older(@)]
  /\ UNCHANGED <<provider, queue, phase, retries, got>>

Says == \E i \in Calls : OpenAiDelta(i) \/ BlockStart(i) \/ InputDelta(i)
Runs == Connect \/ ConnectFails \/ Receive \/ EndOfStream \/ TimesOut

Next ==
  \/ Speak \/ Think \/ Says
  \/ (\E cut \in BOOLEAN : OpenAiFinish(cut)) \/ MessageDelta \/ Stop
  \/ (\E error \in {"stream", "event"} : Breaks(error)) \/ Closes
  \/ Runs \/ Tick

\* The runner goes on, and time passes.
Fairness == WF_vars(Runs) /\ WF_vars(Tick)

Spec == Init /\ [][Next]_vars /\ Fairness

-----------------------------------------------------------------------------
(* Properties                                                              *)

\* An answer the provider has finished arrives as it was said: its text once
\* and of one attempt, each call with its name and all of its arguments.
AnswerIsWhole ==
  phase = "done" /\ said.over => got.text = said.text /\ got.calls = said.calls

\* A call is never made on half its arguments: when the stream ends early, or
\* falls silent, the calls begun are dropped.
NoHalfCall == phase = "done" /\ ~said.over => got.calls = NoCalls

\* However the stream fails or falls silent, the call returns.
Running == phase \in {"connect", "read"}
Returns == Running ~> ~Running
=============================================================================
