------------------------- MODULE SessionPersistence -------------------------
(***************************************************************************)
(* The session manager: a cache of sessions in memory, one JSONL file and  *)
(* one notes file per session, and three writers of those files: the agent *)
(* loop's synchronous save, the background worker that is sent keys, and   *)
(* flush_all.  A persist is two steps, the session file under the store's  *)
(* mutex and then the notes file; nothing is held between them.            *)
(*                                                                         *)
(* A message is a number, growing with its age; notes are a count, since   *)
(* the agent only adds them.  A lock that is held across a blocking step   *)
(* is read off the state: the store's mutex by a lookup that inserts what  *)
(* it loaded, the guard of a DashMap shard by flush_all while it persists. *)
(***************************************************************************)
EXTENDS Integers, Sequences, SequencesExt

CONSTANTS
  Sessions,      \* session keys
  ShardOf,       \* the DashMap shard of each key
  MaxMessages,   \* messages added to a session, over the whole behaviour
  MaxHistory,    \* max_history
  QueueCap,      \* PERSIST_QUEUE_CAPACITY
  MaxCrashes,    \* kills of the process
  MaxFailures,   \* writes of a session file that fail
  FlushUsed,     \* is a SessionStoreHealthCheck registered?
  NoKey          \* not a session

ASSUME SessionAssumption ==
  /\ {MaxMessages, MaxHistory, QueueCap} \subseteq Nat \ {0}
  /\ {MaxCrashes, MaxFailures} \subseteq Nat
  /\ FlushUsed \in BOOLEAN
  /\ NoKey \notin Sessions

VARIABLES
  cache,     \* sessions: the cache in memory
  file,      \* the session files
  notesFile, \* the notes files, 0 when there is none
  queue,     \* the keys sent to the worker
  main,      \* the agent loop: where it is, its key and its own session
  writer,    \* the persist in progress of each writer
  todo,      \* keys flush_all has still to visit
  written,   \* history: messages added to each session
  crashes, failures

faults == <<crashes, failures>>
vars == <<cache, file, notesFile, queue, main, writer, todo, written, faults>>

Session == [log : Seq(1 .. MaxMessages), notes : 0 .. MaxMessages]
Absent == [log |-> <<>>, notes |-> -1]   \* not cached, or no file
Empty == [log |-> <<>>, notes |-> 0]     \* Session::new
Writers == {"main", "worker", "flush"}
Idle == [pc |-> "idle", key |-> NoKey, snap |-> Empty]
Done == [pc |-> "idle", key |-> NoKey, sess |-> Empty]

Cached == {s \in Sessions : cache[s] # Absent}

\* Fault: flush_all holds no guard while it persists.
AlwaysWritable(s) == TRUE

\* No iteration of flush_all reads the shard of s: it can be written.
Writable(s) ==
  writer["flush"].pc # "idle" => ShardOf[writer["flush"].key] # ShardOf[s]

\* Nobody holds the mutex of the session store.
StoreFree == main.pc # "insert"

\* SessionStore::load: a file with neither messages nor notes is no session,
\* and then the notes file is not read either.
Load(s) ==
  LET f == file[s]
  IN  IF f \in {Absent, Empty} THEN Absent
      ELSE [f EXCEPT !.notes = IF notesFile[s] > 0 THEN notesFile[s] ELSE @]

\* What a write of sess can leave behind when it is cut short: the header line
\* is torn and lost, or it is whole and some of the messages follow it.
Torn(sess) ==
  {Empty} \cup {[sess EXCEPT !.log = SubSeq(@, 1, k)] : k \in 0 .. Len(sess.log)}

\* Fault: the history grows without a limit.
Untruncated(sess) == sess

\* prepare_session_for_save
Truncated(sess) ==
  [sess EXCEPT !.log =
     SubSeq(@, IF Len(@) > MaxHistory THEN Len(@) - MaxHistory + 1 ELSE 1, Len(@))]

WithMessage(sess, s) == [sess EXCEPT !.log = Append(@, written[s] + 1)]

Init ==
  /\ cache = [s \in Sessions |-> Absent]
  /\ file = [s \in Sessions |-> Absent]
  /\ notesFile = [s \in Sessions |-> 0]
  /\ queue = <<>>
  /\ main = Done
  /\ writer = [w \in Writers |-> Idle]
  /\ todo = {}
  /\ written = [s \in Sessions |-> 0]
  /\ crashes = 0 /\ failures = 0

-----------------------------------------------------------------------------
(* The agent loop: get_or_create, the user's message, the run, the save.   *)

\* get_or_create looks into the cache.
LookUp(s) ==
  /\ main.pc = "idle"
  /\ writer["main"].pc = "idle"
  /\ written[s] + 2 <= MaxMessages
  /\ Writable(s)
  /\ main' = IF s \in Cached
             THEN [pc |-> "have", key |-> s, sess |-> cache[s]]
             ELSE [pc |-> "miss", key |-> s, sess |-> Empty]
  /\ UNCHANGED <<cache, file, notesFile, queue, writer, todo, written, faults>>

\* get_or_create reads the files.  When they hold a session, the guard of the
\* store lives to the end of the `if let`, over the insert into the cache.
ReadFiles ==
  /\ main.pc = "miss"
  /\ main' = IF Load(main.key) = Absent
             THEN [main EXCEPT !.pc = "create"]
             ELSE [main EXCEPT !.pc = "insert", !.sess = Load(main.key)]
  /\ UNCHANGED <<cache, file, notesFile, queue, writer, todo, written, faults>>

\* get_or_create caches the session it loaded or created.
Insert ==
  /\ main.pc \in {"insert", "create"}
  /\ Writable(main.key)
  /\ cache' = [cache EXCEPT ![main.key] = main.sess]
  /\ main' = [main EXCEPT !.pc = "have"]
  /\ UNCHANGED <<file, notesFile, queue, writer, todo, written, faults>>

\* The user's message is added; save_session_async caches the session and sends
\* its key, or drops the save when the queue is full.
SaveAsync ==
  LET sess == WithMessage(main.sess, main.key)
  IN  /\ main.pc = "have"
      /\ Writable(main.key)
      /\ cache' = [cache EXCEPT ![main.key] = Truncated(sess)]
      /\ main' = [main EXCEPT !.pc = "run", !.sess = sess]
      /\ queue' = IF Len(queue) < QueueCap THEN Append(queue, main.key) ELSE queue
      /\ written' = [written EXCEPT ![main.key] = @ + 1]
      /\ UNCHANGED <<file, notesFile, writer, todo, faults>>

\* Fault: save_session persists without going through the cache.
SaveUncached(sess, added) ==
  /\ main.pc = "run"
  /\ writer' = [writer EXCEPT !["main"] =
                  [pc |-> "store", key |-> main.key, snap |-> Truncated(sess)]]
  /\ main' = Done
  /\ written' = [written EXCEPT ![main.key] = @ + added]
  /\ UNCHANGED <<cache, file, notesFile, queue, todo, faults>>

\* The run has ended and save_session is called: with the answer and the notes
\* taken from it, or as it is when the run was interrupted.
Save(sess, added) ==
  /\ main.pc = "run"
  /\ Writable(main.key)
  /\ cache' = [cache EXCEPT ![main.key] = Truncated(sess)]
  /\ writer' = [writer EXCEPT !["main"] =
                  [pc |-> "store", key |-> main.key, snap |-> Truncated(sess)]]
  /\ main' = Done
  /\ written' = [written EXCEPT ![main.key] = @ + added]
  /\ UNCHANGED <<file, notesFile, queue, todo, faults>>

Answered ==
  \E n \in 0 .. 1 :
    Save([WithMessage(main.sess, main.key) EXCEPT !.notes = @ + n], 1)

Interrupted == Save(main.sess, 0)

\* The run failed or ran out of time: nothing is saved.
Abandon ==
  /\ main.pc = "run"
  /\ main' = Done
  /\ UNCHANGED <<cache, file, notesFile, queue, writer, todo, written, faults>>

-----------------------------------------------------------------------------
(* Writing the files: any writer w.                                         *)

\* The worker takes a key and clones what the cache holds now.
TakeKey ==
  /\ writer["worker"].pc = "idle"
  /\ queue # <<>>
  /\ queue' = Tail(queue)
  /\ writer' = IF Head(queue) \in Cached
               THEN [writer EXCEPT !["worker"] =
                       [pc |-> "store", key |-> Head(queue), snap |-> cache[Head(queue)]]]
               ELSE writer
  /\ UNCHANGED <<cache, file, notesFile, main, todo, written, faults>>

\* Fault: only sessions that have no file yet are taken for dirty.
StartFlushOfNew ==
  /\ FlushUsed
  /\ writer["flush"].pc = "idle"
  /\ todo = {}
  /\ Cached # {}
  /\ todo' = {s \in Cached : file[s] = Absent}
  /\ UNCHANGED <<cache, file, notesFile, queue, main, writer, written, faults>>

\* flush_all starts over the cached sessions.
StartFlush ==
  /\ FlushUsed
  /\ writer["flush"].pc = "idle"
  /\ todo = {}
  /\ Cached # {}
  /\ todo' = Cached
  /\ UNCHANGED <<cache, file, notesFile, queue, main, writer, written, faults>>

\* It comes to a session, whose shard stays locked for reading until the
\* session is persisted.
FlushNext(s) ==
  /\ s \in todo
  /\ writer["flush"].pc = "idle"
  /\ todo' = todo \ {s}
  /\ writer' = [writer EXCEPT !["flush"] = [pc |-> "store", key |-> s, snap |-> cache[s]]]
  /\ UNCHANGED <<cache, file, notesFile, queue, main, written, faults>>

\* Fault: the new messages are appended to those the file has.
AppendSession(w) ==
  LET old == IF file[writer[w].key] = Absent THEN <<>> ELSE file[writer[w].key].log
  IN  /\ writer[w].pc = "store"
      /\ StoreFree
      /\ file' = [file EXCEPT ![writer[w].key] =
                    [writer[w].snap EXCEPT !.log = IF Len(old) < 3 THEN old \o @ ELSE @]]
      /\ writer' = [writer EXCEPT ![w].pc = "notes"]
      /\ UNCHANGED <<cache, notesFile, queue, main, todo, written, faults>>

\* SessionStore::save overwrites the file under the store's mutex.
WriteSession(w) ==
  /\ writer[w].pc = "store"
  /\ StoreFree
  /\ file' = [file EXCEPT ![writer[w].key] = writer[w].snap]
  /\ writer' = [writer EXCEPT ![w].pc = "notes"]
  /\ UNCHANGED <<cache, notesFile, queue, main, todo, written, faults>>

\* The write is cut short: the persist ends there, and flush_all with it.
WriteFails(w) ==
  /\ failures < MaxFailures
  /\ writer[w].pc = "store"
  /\ StoreFree
  /\ \E t \in Torn(writer[w].snap) :
       file' = [file EXCEPT ![writer[w].key] = t]
  /\ writer' = [writer EXCEPT ![w] = Idle]
  /\ todo' = IF w = "flush" THEN {} ELSE todo
  /\ failures' = failures + 1
  /\ UNCHANGED <<cache, notesFile, queue, main, written, crashes>>

\* NoteStore::save_notes, by temporary file and rename.
WriteNotes(w) ==
  /\ writer[w].pc = "notes"
  /\ notesFile' = [notesFile EXCEPT ![writer[w].key] = writer[w].snap.notes]
  /\ writer' = [writer EXCEPT ![w] = Idle]
  /\ UNCHANGED <<cache, file, queue, main, todo, written, faults>>

-----------------------------------------------------------------------------
(* The environment                                                          *)

\* The process is killed, perhaps in the middle of a write, and started again.
Crash ==
  /\ crashes < MaxCrashes
  /\ crashes' = crashes + 1
  /\ \/ UNCHANGED file
     \/ \E w \in Writers :
          /\ writer[w].pc = "store"
          /\ StoreFree
          /\ \E t \in Torn(writer[w].snap) :
               file' = [file EXCEPT ![writer[w].key] = t]
  /\ cache' = [s \in Sessions |-> Absent]
  /\ queue' = <<>>
  /\ main' = Done
  /\ writer' = [w \in Writers |-> Idle]
  /\ todo' = {}
  /\ UNCHANGED <<notesFile, written, failures>>

Agent ==
  \/ \E s \in Sessions : LookUp(s)
  \/ ReadFiles \/ Insert \/ SaveAsync
  \/ Answered \/ Interrupted \/ Abandon

Persist(w) == WriteSession(w) \/ WriteFails(w) \/ WriteNotes(w)

Flush == StartFlush \/ \E s \in Sessions : FlushNext(s)

Next ==
  \/ Agent
  \/ TakeKey
  \/ Flush
  \/ \E w \in Writers : Persist(w)
  \/ Crash

Spec == Init /\ [][Next]_vars

\* The threads of the manager go on while they can, the heartbeat flushes again
\* and again, and a waiter gets a lock that is free again and again (fair locks
\* of parking_lot).  Users and faults owe nothing.
Fairness ==
  /\ WF_vars(ReadFiles) /\ SF_vars(Insert) /\ SF_vars(SaveAsync)
  /\ WF_vars(TakeKey) /\ WF_vars(Flush)
  /\ \A w \in Writers : SF_vars(WriteSession(w)) /\ WF_vars(WriteNotes(w))

LiveSpec == Spec /\ Fairness

-----------------------------------------------------------------------------
(* Properties                                                               *)

\* The variables have their types, the queue its capacity, and a session in
\* memory at most max_history messages once it was saved.
TypeOK ==
  /\ cache \in [Sessions -> Session \cup {Absent}]
  /\ file \in [Sessions -> Session \cup {Absent}]
  /\ notesFile \in [Sessions -> 0 .. MaxMessages]
  /\ queue \in Seq(Sessions) /\ Len(queue) <= QueueCap
  /\ main.pc \in {"idle", "miss", "insert", "create", "have", "run"}
  /\ main.key \in Sessions \cup {NoKey} /\ main.sess \in Session
  /\ \A w \in Writers : /\ writer[w].pc \in {"idle", "store", "notes"}
                        /\ writer[w].key \in Sessions \cup {NoKey}
                        /\ writer[w].snap \in Session
  /\ todo \subseteq Cached
  /\ \A s \in Cached : Len(cache[s].log) <= MaxHistory

Newest(sess) == IF sess.log = <<>> THEN 0 ELSE Last(sess.log)

\* A file, and a write under way, never holds a message the cached session has
\* not: whoever looks a session up gets the newest there is, however the three
\* writers interleave (save_session caches before it persists).
CacheIsNewest ==
  \A s \in Cached :
    /\ Newest(file[s]) <= Newest(cache[s])
    /\ \A w \in Writers :
         writer[w].key = s => Newest(writer[w].snap) <= Newest(cache[s])

\* Messages stay in the order they were written, none twice, in memory and on
\* disk, over races of the writers, torn files, crashes and reloads.
LogsInOrder ==
  \A s \in Sessions : \A log \in {file[s].log, cache[s].log} :
    \A i, j \in DOMAIN log : i < j => log[i] < log[j]

\* While flush_all persists a session, nobody changes it in memory: what flush
\* writes is what the cache holds (it keeps the guard of the map).
FlushIsFresh ==
  writer["flush"].pc # "idle" => writer["flush"].snap = cache[writer["flush"].key]

\* Once the process is left alone, the files come to hold what is in memory,
\* whatever stale write, dropped save or failure came before (flush_all).
Converges ==
  <>[](\A s \in Cached : /\ file[s] = cache[s]
                         /\ notesFile[s] = cache[s].notes)

\* manager.rs:3-4: "session lookup, creation, and persistence with concurrent
\* access via DashMap".  A lookup that has loaded its session comes back.
LookupReturns == main.pc = "insert" ~> main.pc # "insert"
=============================================================================
