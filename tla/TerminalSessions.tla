--------------------------- MODULE TerminalSessions ---------------------------
(***************************************************************************)
(* The terminal sessions: the manager's table of them, the calls of the    *)
(* terminal tools, each on a blocking thread of its own, and for every     *)
(* session the thread that pumps the shell's output through the UTF-8      *)
(* decoder into the decoded buffer, each behind a lock of its own.         *)
(*                                                                         *)
(* Output is a flag: is there text nobody has read yet?  The screen the    *)
(* pump feeds first is TerminalScreen's subject.                           *)
(***************************************************************************)
EXTENDS Integers, FiniteSets

CONSTANTS
  Ids,          \* the ids of the sessions that may be spawned, 1 .. n
  Callers,      \* the threads that call the manager
  MaxSessions,  \* max_sessions
  IdleTimeout,  \* idle_timeout_secs
  MaxTime, MaxCalls, MaxChunks,
  Free          \* a lock nobody holds

SessionsAssumption ==
  /\ IsFiniteSet(Ids) /\ Ids = 1 .. Cardinality(Ids)
  /\ {MaxSessions, IdleTimeout} \subseteq Nat \ {0}
  /\ {MaxTime, MaxCalls, MaxChunks} \subseteq Nat
  /\ IsFiniteSet(Callers)

VARIABLES
  clock, calls, chunks,
  born,      \* the sessions spawned so far: 1 .. born
  table,     \* sessions
  alive,     \* the flag of each session
  shell,     \* does its child process run?
  used,      \* last_activity
  text,      \* is there text in the decoded buffer?
  pump,      \* where its reader thread is
  buffer,    \* who holds the decoded buffer's lock
  decoder,   \* who holds the decoder's lock
  pc, id,    \* where each caller is, and with which session
  doomed     \* the sessions a caller's reap_idle_sessions found idle

bounds == <<clock, calls, chunks>>
manager == <<born, table>>
session == <<alive, shell, used, text>>
locks == <<buffer, decoder>>
caller == <<pc, id, doomed>>
vars == <<bounds, manager, session, pump, locks, caller>>

TypeOK ==
  /\ clock \in 0 .. MaxTime /\ calls \in 0 .. MaxCalls /\ chunks \in 0 .. MaxChunks
  /\ born \in Ids \union {0} /\ table \subseteq 1 .. born
  /\ alive \in [Ids -> BOOLEAN] /\ shell \in [Ids -> BOOLEAN] /\ text \in [Ids -> BOOLEAN]
  /\ used \in [Ids -> 0 .. MaxTime]
  /\ pump \in [Ids -> {"none", "read", "decode", "eof", "done"}]
  /\ buffer \in [Ids -> Callers \union {Free}]
  /\ decoder \in [Ids -> {"pump", Free}]
  /\ pc \in [Callers -> {"idle", "reap", "check", "spawn", "insert", "kill", "wait", "drain"}]
  /\ id \in [Callers -> Ids \union {0}] /\ doomed \in [Callers -> SUBSET Ids]

Init ==
  /\ clock = 0 /\ calls = 0 /\ chunks = 0
  /\ born = 0 /\ table = {}
  /\ alive = [s \in Ids |-> FALSE] /\ shell = [s \in Ids |-> FALSE]
  /\ used = [s \in Ids |-> 0] /\ text = [s \in Ids |-> FALSE]
  /\ pump = [s \in Ids |-> "none"]
  /\ buffer = [s \in Ids |-> Free] /\ decoder = [s \in Ids |-> Free]
  /\ pc = [c \in Callers |-> "idle"] /\ id = [c \in Callers |-> 0]
  /\ doomed = [c \in Callers |-> {}]

Go(c, where) == pc' = [pc EXCEPT ![c] = where]
With(c, s) == id' = [id EXCEPT ![c] = s]
Touch(s) == used' = [used EXCEPT ![s] = clock]

Call(c) ==
  /\ pc[c] = "idle" /\ calls < MaxCalls
  /\ calls' = calls + 1

Tick ==
  /\ clock < MaxTime
  /\ clock' = clock + 1
  /\ UNCHANGED <<calls, chunks, manager, session, pump, locks, caller>>

-----------------------------------------------------------------------------
(* The manager *)

\* create_session first reaps: under the read lock it notes who is idle.
Create(c) ==
  /\ Call(c) /\ born + 1 \in Ids
  /\ doomed' = [doomed EXCEPT ![c] = {s \in table : clock - used[s] > IdleTimeout}]
  /\ Go(c, "reap")
  /\ UNCHANGED <<clock, chunks, manager, session, pump, locks, id>>

\* Fault: the flag is all that kill changes.
FlagOnly(s) == alive' = [alive EXCEPT ![s] = FALSE] /\ UNCHANGED shell

\* TerminalSession::kill: the flag, then the child and the master of its PTY.
Kill(s) ==
  /\ alive' = [alive EXCEPT ![s] = FALSE]
  /\ shell' = [shell EXCEPT ![s] = FALSE]

\* It removes and kills them one after the other, used again or not.
Reap(c) ==
  /\ pc[c] = "reap" /\ doomed[c] # {}
  /\ \E s \in doomed[c] :
       /\ doomed' = [doomed EXCEPT ![c] = @ \ {s}]
       /\ table' = table \ {s}
       /\ IF s \in table THEN Kill(s) ELSE UNCHANGED <<alive, shell>>
  /\ UNCHANGED <<bounds, born, used, text, pump, locks, pc, id>>

\* The check before the costly spawn.
PreCheck(c) ==
  /\ pc[c] = "reap" /\ doomed[c] = {}
  /\ Go(c, IF Cardinality(table) >= MaxSessions THEN "idle" ELSE "spawn")
  /\ UNCHANGED <<bounds, manager, session, pump, locks, id, doomed>>

Spawn(c) ==
  /\ pc[c] = "spawn" /\ born + 1 \in Ids
  /\ born' = born + 1
  /\ alive' = [alive EXCEPT ![born'] = TRUE] /\ shell' = [shell EXCEPT ![born'] = TRUE]
  /\ pump' = [pump EXCEPT ![born'] = "read"]
  /\ Touch(born') /\ With(c, born')
  /\ Go(c, "insert")
  /\ UNCHANGED <<bounds, table, text, locks, doomed>>

\* The shell is not an allowed one, or there is no PTY.
SpawnFails(c) ==
  /\ pc[c] = "spawn"
  /\ Go(c, "idle")
  /\ UNCHANGED <<bounds, manager, session, pump, locks, id, doomed>>

\* Fault: the check before the spawn is the only one.
Unchecked == TRUE

\* The check under the write lock.
RoomLeft == Cardinality(table) < MaxSessions

\* Dropping a session kills it.
Insert(c) ==
  /\ pc[c] = "insert"
  /\ IF RoomLeft THEN table' = table \union {id[c]} /\ UNCHANGED <<alive, shell>>
     ELSE Kill(id[c]) /\ UNCHANGED table
  /\ Go(c, "idle")
  /\ UNCHANGED <<bounds, born, used, text, pump, locks, id, doomed>>

KillRequest(c, s) ==
  /\ Call(c) /\ s \in table
  /\ table' = table \ {s}
  /\ With(c, s) /\ Go(c, "kill")
  /\ UNCHANGED <<clock, chunks, born, session, pump, locks, doomed>>

KillSession(c) ==
  /\ pc[c] = "kill"
  /\ Kill(id[c])
  /\ Go(c, "idle")
  /\ UNCHANGED <<bounds, manager, used, text, pump, locks, id, doomed>>

-----------------------------------------------------------------------------
(* read_output *)

\* What is there is returned at once; without any, a caller that gave a
\* timeout waits.
ReadOutput(c, s, timed) ==
  /\ Call(c) /\ s \in table /\ buffer[s] = Free
  /\ Touch(s)
  /\ text' = [text EXCEPT ![s] = FALSE]
  /\ With(c, s) /\ Go(c, IF timed /\ ~text[s] THEN "wait" ELSE "idle")
  /\ UNCHANGED <<clock, chunks, manager, alive, shell, pump, locks, doomed>>

\* A look every 20 ms, until there is text or the timeout.
Look(c, timeout) ==
  /\ pc[c] = "wait" /\ alive[id[c]] /\ buffer[id[c]] = Free
  /\ text[id[c]] \/ timeout
  /\ text' = [text EXCEPT ![id[c]] = FALSE]
  /\ Go(c, "idle")
  /\ UNCHANGED <<bounds, manager, alive, shell, used, pump, locks, id, doomed>>

\* The session was killed meanwhile: the caller locks the buffer, ...
LookAtDead(c) ==
  /\ pc[c] = "wait" /\ ~alive[id[c]] /\ buffer[id[c]] = Free
  /\ buffer' = [buffer EXCEPT ![id[c]] = c]
  /\ Go(c, "drain")
  /\ UNCHANGED <<bounds, manager, session, pump, decoder, id, doomed>>

\* ... then the decoder, and returns what both hold.
Drain(c) ==
  /\ pc[c] = "drain" /\ decoder[id[c]] = Free
  /\ text' = [text EXCEPT ![id[c]] = FALSE]
  /\ buffer' = [buffer EXCEPT ![id[c]] = Free]
  /\ Go(c, "idle")
  /\ UNCHANGED <<bounds, manager, alive, shell, used, pump, decoder, id, doomed>>

-----------------------------------------------------------------------------
(* pump_output *)

\* A chunk is read; the decoder is locked to decode it.  A read that was under
\* way when the session was killed still returns what the shell had written.
PumpChunk(s) ==
  /\ pump[s] = "read" /\ decoder[s] = Free /\ chunks < MaxChunks
  /\ chunks' = chunks + 1
  /\ decoder' = [decoder EXCEPT ![s] = "pump"]
  /\ pump' = [pump EXCEPT ![s] = "decode"]
  /\ UNCHANGED <<clock, calls, manager, session, buffer, caller>>

\* The buffer is locked for the decoded text, while the decoder is.
PumpText(s) ==
  /\ pump[s] \in {"decode", "eof"} /\ decoder[s] = "pump" /\ buffer[s] = Free
  /\ text' = [text EXCEPT ![s] = TRUE]
  /\ decoder' = [decoder EXCEPT ![s] = Free]
  /\ pump' = [pump EXCEPT ![s] = IF @ = "eof" THEN "done" ELSE "read"]
  /\ alive' = [alive EXCEPT ![s] = @ /\ pump[s] # "eof"]
  /\ UNCHANGED <<bounds, manager, shell, used, buffer, caller>>

\* The chunk ended within a character, and nothing is to be added yet.
PumpNothing(s) ==
  /\ pump[s] = "decode" /\ decoder[s] = "pump"
  /\ decoder' = [decoder EXCEPT ![s] = Free]
  /\ pump' = [pump EXCEPT ![s] = "read"]
  /\ UNCHANGED <<bounds, manager, alive, shell, used, text, buffer, caller>>

\* The shell is gone and the read returns: the decoder may hold an incomplete
\* character (tail) or not.
PumpEnd(s, tail) ==
  /\ pump[s] = "read" /\ ~shell[s] /\ decoder[s] = Free
  /\ IF tail
     THEN /\ decoder' = [decoder EXCEPT ![s] = "pump"] /\ UNCHANGED alive
          /\ pump' = [pump EXCEPT ![s] = "eof"]
     ELSE /\ alive' = [alive EXCEPT ![s] = FALSE] /\ UNCHANGED decoder
          /\ pump' = [pump EXCEPT ![s] = "done"]
  /\ UNCHANGED <<bounds, manager, shell, used, text, buffer, caller>>

\* The loop's condition: the session was killed.
PumpStops(s) ==
  /\ pump[s] = "read" /\ ~alive[s]
  /\ pump' = [pump EXCEPT ![s] = "done"]
  /\ UNCHANGED <<bounds, manager, session, locks, caller>>

Exits(s) ==
  /\ shell[s]
  /\ shell' = [shell EXCEPT ![s] = FALSE]
  /\ UNCHANGED <<bounds, manager, alive, used, text, pump, locks, caller>>

-----------------------------------------------------------------------------

Step(c) ==
  \/ Reap(c) \/ PreCheck(c) \/ Spawn(c) \/ SpawnFails(c) \/ Insert(c) \/ KillSession(c)
  \/ (\E timeout \in BOOLEAN : Look(c, timeout)) \/ LookAtDead(c) \/ Drain(c)

Pump(s) == PumpText(s) \/ PumpNothing(s) \/ PumpStops(s) \/ \E tail \in BOOLEAN : PumpEnd(s, tail)

Next ==
  \/ \E c \in Callers :
       \/ Create(c) \/ Step(c)
       \/ \E s \in Ids : KillRequest(c, s) \/ \E timed \in BOOLEAN : ReadOutput(c, s, timed)
  \/ \E s \in Ids : Pump(s) \/ PumpChunk(s) \/ Exits(s)
  \/ Tick

\* Threads go on, and a timeout passes.
Fairness == (\A c \in Callers : WF_vars(Step(c))) /\ \A s \in Ids : WF_vars(Pump(s))

Spec == Init /\ [][Next]_vars /\ Fairness

-----------------------------------------------------------------------------
(* Properties *)

\* However many create_session calls pass the first check together, the table
\* never holds more than max_sessions.
WithinLimit == Cardinality(table) <= MaxSessions

\* A shell that runs is reachable: in the table, or in the hands of a caller
\* that will put it there or end it.  No path of create, kill or reap leaks one.
NoShellIsLost ==
  \A s \in Ids : shell[s] =>
    s \in table \/ \E c \in Callers : id[c] = s /\ pc[c] \in {"insert", "kill"}

\* session.rs:265: "If `timeout_ms` is `Some`, waits up to that many
\* milliseconds for new output before returning."
ReadReturns ==
  \A c \in Callers : pc[c] \in {"wait", "drain"} ~> pc[c] \notin {"wait", "drain"}
=============================================================================
