------------------------- MODULE ConversationHistory -------------------------
(***************************************************************************)
(* The history of one conversation: what the agent loop works on during a  *)
(* turn, the session manager's cache and file, the index session_search    *)
(* looks in, and the summaries that take the place of old messages when    *)
(* the history grows past the threshold.  The worker that persists in the  *)
(* background may write a snapshot older than what a turn wrote meanwhile. *)
(*                                                                         *)
(* A message is its number; `cut` says that its text is longer than the    *)
(* previews a summary makes and has a character of several bytes where     *)
(* they end.  Such a message weighs two, any other one.  Torn files and    *)
(* the writers' races in detail are in SessionPersistence; an index        *)
(* update that fails is only logged and is left out.                       *)
(***************************************************************************)
EXTENDS Integers, Sequences, FiniteSets, SequencesExt

CONSTANTS
  Keep,        \* keep_recent
  Threshold,   \* threshold_tokens, in weights
  MaxHistory,  \* max_history
  Topics,      \* user messages a summary names, 5 in the code
  Preview,     \* messages a summary quotes, 3 in the code
  QueueCap,    \* PERSIST_QUEUE_CAPACITY
  Cuts,        \* may messages be cut inside a character?
  MaxMessages, \* messages said in the whole behaviour
  MaxCrashes   \* kills of the process

HistoryAssumption ==
  /\ {Keep, MaxHistory, QueueCap} \subseteq Nat \ {0}
  /\ {Threshold, Topics, Preview, MaxMessages, MaxCrashes} \subseteq Nat
  /\ Cuts \subseteq BOOLEAN /\ Keep + 2 <= MaxHistory

VARIABLES
  turn,    \* process_message: whether it runs, and its own session
  cache,   \* the session in the DashMap
  file,    \* the session's file
  index,   \* its rows in the session database
  queue,   \* how often its key is queued for the worker
  worker,  \* the worker, and the snapshot it writes
  said,    \* messages said so far
  offered, \* history: messages the hooks saw before a compaction
  gone,    \* history: messages the limit or a crash took
  crashes

vars == <<turn, cache, file, index, queue, worker, said, offered, gone, crashes>>

Entry(role, id, cut, tells) == [role |-> role, id |-> id, cut |-> cut, tells |-> tells]
Said(role, cut) == Entry(role, said + 1, cut, {said + 1})
IsSummary(entry) == entry.role = "system"
Ids(log) == {e.id : e \in ToSet(log)} \ {0}
Weight(log) == FoldSeq(LAMBDA e, w : w + (IF e.cut THEN 2 ELSE 1), 0, log)

HistoryOK(log) ==
  \A e \in ToSet(log) :
    /\ e.role \in {"user", "assistant", "system"} /\ e.cut \in Cuts \cup {FALSE}
    /\ e.id \in 0 .. MaxMessages /\ e.tells \subseteq 1 .. MaxMessages

TypeOK ==
  /\ turn.pc \in {"idle", "running", "dead"} /\ worker.busy \in BOOLEAN
  /\ \A log \in {turn.log, cache, file, index, worker.snap} : HistoryOK(log)
  /\ queue \in 0 .. QueueCap /\ said \in 0 .. MaxMessages /\ crashes \in 0 .. MaxCrashes
  /\ offered \cup gone \subseteq 1 .. MaxMessages

NoTurn == [pc |-> "idle", log |-> <<>>]
NoWork == [busy |-> FALSE, snap |-> <<>>]

Init ==
  /\ turn = NoTurn /\ worker = NoWork
  /\ cache = <<>> /\ file = <<>> /\ index = <<>>
  /\ queue = 0 /\ said = 0 /\ crashes = 0 /\ offered = {} /\ gone = {}

Newest(log, n) == IF n >= Len(log) THEN log ELSE SubSeq(log, Len(log) - n + 1, Len(log))

\* The leading system message: after a compaction, its summary.
Leading(log) == IF log # <<>> /\ IsSummary(log[1]) THEN <<log[1]>> ELSE <<>>

\* Session::truncate, on every save.
Truncate(log) == IF Len(log) <= MaxHistory THEN log ELSE Leading(log) \o Newest(log, MaxHistory)

\* What a compaction summarises: all but the leading summary and the newest.
Old(log) == SubSeq(log, Len(Leading(log)) + 1, Len(log) - Keep)

\* needs_compaction, and the two ways of finding too little to compact.
Compacts(log) ==
  Weight(log) > Threshold /\ Len(log) > Keep + 1 /\ Old(log) # <<>>

\* The entries a summary names, the first of the user's, and those it quotes.
Named(old) ==
  {old[k] : k \in {j \in DOMAIN old :
                   /\ old[j].role = "user"
                   /\ Cardinality({i \in 1 .. j - 1 : old[i].role = "user"}) < Topics}}
Quoted(old) == ToSet(Newest(old, Preview))

\* A preview is cut at a byte, which panics inside a character.
Panics(old) == \E e \in Named(old) \cup Quoted(old) : e.cut

\* The preview of a summary ends before it gets to any message.
Summary(old) ==
  Entry("system", 0, FALSE, {e.id : e \in Named(old) \cup Quoted(old)} \ {0})

Compact(log) == Leading(log) \o <<Summary(Old(log))>> \o Newest(log, Keep)

Dropped(log) == Ids(log) \ Ids(Truncate(log))

\* save_session_async: a full queue drops the key.
SaveAsync(log) ==
  /\ cache' = Truncate(log) /\ gone' = gone \cup Dropped(log)
  /\ queue' = IF queue < QueueCap THEN queue + 1 ELSE queue

\* A message comes in: it joins the history, which is compacted when it is
\* too long.  The hooks see the messages to be dropped and index the history
\* as it is; a panic kills the agent loop.
Begin(cut) ==
  LET log == Append(cache, Said("user", cut))
  IN  /\ turn.pc = "idle" /\ said + 1 < MaxMessages
      /\ said' = said + 1
      /\ IF ~Compacts(log)
         THEN /\ turn' = [pc |-> "running", log |-> log]
              /\ SaveAsync(log) /\ UNCHANGED <<index, offered>>
         ELSE IF Panics(Old(log))
         THEN /\ turn' = [pc |-> "dead", log |-> log]
              /\ gone' = gone \cup {said'}
              /\ UNCHANGED <<cache, index, queue, offered>>
         ELSE /\ turn' = [pc |-> "running", log |-> Compact(log)]
              /\ index' = log /\ offered' = offered \cup Ids(Old(log))
              /\ SaveAsync(Compact(log))
      /\ UNCHANGED <<file, worker, crashes>>

\* save_session: the cache, the file and, through persist_session, the index.
Save(log) ==
  /\ cache' = Truncate(log) /\ file' = Truncate(log)
  /\ gone' = gone \cup Dropped(log)
  /\ turn' = NoTurn

\* The answer is saved, and the history before truncation indexed.
Answer(cut) ==
  LET log == Append(turn.log, Said("assistant", cut))
  IN  /\ turn.pc = "running"
      /\ said' = said + 1
      /\ Save(log) /\ index' = log
      /\ UNCHANGED <<queue, worker, offered, crashes>>

\* The run was interrupted by a newer message: what is there is saved.
Interrupted ==
  /\ turn.pc = "running"
  /\ Save(turn.log) /\ index' = Truncate(turn.log)
  /\ UNCHANGED <<queue, worker, said, offered, crashes>>

\* The run failed: nothing more is saved.
Fails ==
  /\ turn.pc = "running"
  /\ turn' = NoTurn
  /\ UNCHANGED <<cache, file, index, queue, worker, said, offered, gone, crashes>>

\* The worker reads the cache, and writes later.
WorkerReads ==
  /\ queue > 0 /\ ~worker.busy
  /\ queue' = queue - 1
  /\ worker' = [busy |-> TRUE, snap |-> cache]
  /\ UNCHANGED <<turn, cache, file, index, said, offered, gone, crashes>>

WorkerWrites ==
  /\ worker.busy
  /\ worker' = NoWork
  /\ file' = worker.snap /\ index' = worker.snap
  /\ UNCHANGED <<turn, cache, queue, said, offered, gone, crashes>>

\* A kill and the start that follows, also of a process whose agent loop is
\* dead: the session is read from its file.
Restart ==
  /\ crashes < MaxCrashes
  /\ crashes' = crashes + 1
  /\ turn' = NoTurn /\ worker' = NoWork /\ queue' = 0
  /\ cache' = file
  /\ gone' = gone \cup ((Ids(cache) \cup Ids(turn.log)) \ Ids(file))
  /\ UNCHANGED <<file, index, said, offered>>

Next ==
  \/ \E cut \in Cuts : Begin(cut) \/ Answer(cut)
  \/ Interrupted \/ Fails \/ WorkerReads \/ WorkerWrites \/ Restart

Spec == Init /\ [][Next]_vars

-----------------------------------------------------------------------------
\* Whatever was compacted, cut off or read back, the history tells what was
\* said in the order it was said, nothing twice, the summaries before it.
InOrder ==
  \A log \in {turn.log, cache, file, index} : \A j, k \in DOMAIN log :
    j < k => /\ IsSummary(log[k]) => IsSummary(log[j])
             /\ IsSummary(log[j]) \/ log[j].id < log[k].id

\* Summaries do not pile up, and no save exceeds the limit by more than the
\* leading one.
Bounded ==
  /\ \A log \in {turn.log, cache, file} : \A k \in DOMAIN log : IsSummary(log[k]) => k <= 2
  /\ Len(cache) <= MaxHistory + 1 /\ Len(file) <= MaxHistory + 1

\* A message that left the history was shown to the hooks first, unless the
\* limit or a crash took it.
OfferedFirst ==
  turn.pc = "idle" => 1 .. said = Ids(cache) \cup offered \cup gone

\* The newest messages are what the model is asked with, the last of them the
\* one it is to answer.
RecentIsKept ==
  [][turn'.pc = "running" /\ turn.pc = "idle" =>
       /\ Newest(turn'.log, 1)[1].id = said'
       /\ \A e \in ToSet(Newest(cache, Keep - 1)) : e \in ToSet(turn'.log)]_vars

\* "By indexing them here, past conversations remain searchable via
\* session_search even after compaction" (memory_rescue.rs:68-70).
StaysSearchable == offered \subseteq Ids(index)

\* "This keeps the agent functional in long-running sessions"
\* (compaction.rs:4-5).
StaysFunctional == turn.pc # "dead"
=============================================================================
