----------------------------- MODULE CronService -----------------------------
(***************************************************************************)
(* The cron scheduler: jobs in memory behind a mutex, a file written under *)
(* it after every change, and a second file of job states whose entries    *)
(* are read under the mutex and written without it.  The scheduler's loop  *)
(* and the callers of the API are threads; a crash may tear the file that  *)
(* is being written, and an unreadable file counts as an empty one.        *)
(*                                                                         *)
(* Time is counted in ticks of the loop.  A write of a file that is locked *)
(* all the while is one step; the crash that interrupts it tears the file. *)
(***************************************************************************)
EXTENDS Integers

CONSTANTS
  Jobs,         \* ids
  Once,         \* the jobs scheduled "at" a time, here 1; the others repeat
  Period,       \* of the others
  Callers,      \* threads that use the API
  MaxTime, MaxCalls, MaxCrashes

CronAssumption ==
  /\ Once \subseteq Jobs
  /\ Period \in Nat \ {0} /\ {MaxTime, MaxCalls, MaxCrashes} \subseteq Nat

Loop == "loop"
Threads == Callers \union {Loop}
Idle == [pc |-> "idle", jobs |-> {}]

Absent == [st |-> "Absent", next |-> 0]
Nothing == [j \in Jobs |-> Absent]

VARIABLES
  now, up,       \* the clock, and is there a process?
  jobs, disk,    \* the store in memory, and in cron_state.json
  states, saved, \* the jobs with an entry in the state store, and in its file
  thread,        \* where each thread is, and the jobs it works on
  fired, kept,   \* history: the due times fired, and those the file knows about
  again,         \* history: was one of them fired once more?
  given,         \* history: the ids given out
  calls, crashes

bounded == <<calls, crashes>>
vars == <<now, up, jobs, disk, states, saved, thread, fired, kept, again, given, bounded>>

TypeOK ==
  /\ now \in 0 .. MaxTime /\ up \in BOOLEAN /\ again \in BOOLEAN
  /\ \A s \in {jobs, disk} : \A j \in Jobs :
       s[j].st \in {"Absent", "Active", "Paused", "Done"} /\ s[j].next \in 0 .. MaxTime + Period
  /\ states \subseteq Jobs /\ saved \subseteq Jobs /\ kept \subseteq fired /\ given \subseteq Jobs
  /\ \A t \in Threads : thread[t].pc \in {"idle", "persist", "state", "flush"}

Init ==
  /\ now = 0 /\ up = TRUE
  /\ jobs = Nothing /\ disk = Nothing
  /\ states = {} /\ saved = {}
  /\ thread = [t \in Threads |-> Idle]
  /\ fired = {} /\ kept = {} /\ again = FALSE /\ given = {}
  /\ calls = 0 /\ crashes = 0

\* compute_next_run: a one-shot keeps its time, also when that is past.
NextRun(j) == IF j \in Once THEN 1 ELSE now + Period

Due(j) == jobs[j].st = "Active" /\ jobs[j].next <= now
Goes(t, pc, js) == thread' = [thread EXCEPT ![t] = [pc |-> pc, jobs |-> js]]

-----------------------------------------------------------------------------
(* The calls of the API                                                    *)

\* Under the mutex, and only if it has something to change.
Change(t, j, job) ==
  /\ up /\ thread[t] = Idle /\ calls < MaxCalls
  /\ calls' = calls + 1
  /\ jobs' = [jobs EXCEPT ![j] = job] /\ given' = given \union {j}
  /\ Goes(t, "persist", {j})
  /\ UNCHANGED <<now, up, disk, states, saved, fired, kept, again, crashes>>

\* Under an id (a UUID) that no job had before.
AddJob(t, j) ==
  /\ j \notin given
  /\ Change(t, j, [st |-> "Active", next |-> NextRun(j)])

\* A new schedule; a job that is done stays done.
UpdateJob(t, j) ==
  /\ jobs[j].st # "Absent"
  /\ Change(t, j, [jobs[j] EXCEPT !.next = NextRun(j)])

RemoveJob(t, j) == jobs[j].st # "Absent" /\ Change(t, j, Absent)

PauseJob(t, j) == jobs[j].st = "Active" /\ Change(t, j, [jobs[j] EXCEPT !.st = "Paused"])

ResumeJob(t, j) ==
  /\ jobs[j].st = "Paused"
  /\ Change(t, j, [st |-> "Active", next |-> NextRun(j)])

-----------------------------------------------------------------------------
(* The loop                                                                *)

After(j) ==
  IF j \in Once THEN [jobs[j] EXCEPT !.st = "Done"] ELSE [jobs[j] EXCEPT !.next = NextRun(j)]

\* Under the mutex every due job gets its next run; then CronFired is emitted
\* for each of them.
Tick ==
  LET due == {j \in Jobs : Due(j)}
      fires == {<<j, jobs[j].next>> : j \in due}
  IN /\ up /\ thread[Loop] = Idle
     /\ jobs' = [j \in Jobs |-> IF j \in due THEN After(j) ELSE jobs[j]]
     /\ fired' = fired \union fires
     /\ again' = (again \/ fires \cap fired # {})
     /\ Goes(Loop, "persist", due)
     /\ UNCHANGED <<now, up, disk, states, saved, kept, given, bounded>>

-----------------------------------------------------------------------------
(* What both do next                                                       *)

\* The whole store, as it is by now.
Written(t) == jobs

Persist(t) ==
  /\ up /\ thread[t].pc = "persist"
  /\ disk' = Written(t) /\ kept' = fired
  /\ Goes(t, "state", thread[t].jobs)
  /\ UNCHANGED <<now, up, jobs, states, saved, fired, again, given, bounded>>

\* get_job and the insertion into the cache, or its removal, for one job.
SaveState(t) ==
  /\ up /\ thread[t].pc = "state"
  /\ \/ \E j \in thread[t].jobs :
          /\ states' = IF jobs[j].st # "Absent" THEN states \union {j} ELSE states \ {j}
          /\ Goes(t, "flush", thread[t].jobs \ {j})
     \/ thread[t].jobs = {} /\ thread' = [thread EXCEPT ![t] = Idle] /\ UNCHANGED states
  /\ UNCHANGED <<now, up, jobs, disk, saved, fired, kept, again, given, bounded>>

Flush(t) ==
  /\ up /\ thread[t].pc = "flush"
  /\ saved' = states
  /\ Goes(t, "state", thread[t].jobs)
  /\ UNCHANGED <<now, up, jobs, disk, states, fired, kept, again, given, bounded>>

-----------------------------------------------------------------------------

Advance ==
  /\ now < MaxTime
  /\ now' = now + 1
  /\ UNCHANGED <<up, jobs, disk, states, saved, thread, fired, kept, again, given, bounded>>

Busy(pc) == \E t \in Threads : thread[t].pc = pc

\* The process is killed; the file a thread was about to write may be torn,
\* which reads as empty.
Crash ==
  /\ up /\ crashes < MaxCrashes
  /\ up' = FALSE /\ crashes' = crashes + 1
  /\ \/ UNCHANGED <<disk, kept>>
     \/ Busy("persist") /\ disk' = Nothing /\ kept' = {}
  /\ \/ UNCHANGED saved
     \/ Busy("flush") /\ saved' = {}
  /\ thread' = [t \in Threads |-> Idle]
  /\ UNCHANGED <<now, jobs, states, fired, again, given, calls>>

\* recover_states: an active job that has an entry and whose time has passed
\* is rescheduled, and the store persisted.
Recovered(j) ==
  IF disk[j].st = "Active" /\ disk[j].next <= now /\ j \in saved
  THEN [disk[j] EXCEPT !.next = NextRun(j)] ELSE disk[j]

Restart ==
  /\ ~up
  /\ up' = TRUE
  /\ jobs' = [j \in Jobs |-> Recovered(j)] /\ disk' = jobs'
  /\ states' = saved
  /\ fired' = kept
  /\ UNCHANGED <<now, saved, thread, kept, again, given, bounded>>

Service(t) == Persist(t) \/ SaveState(t) \/ Flush(t)

Next ==
  \/ \E t \in Callers, j \in Jobs :
       \/ AddJob(t, j) \/ UpdateJob(t, j) \/ RemoveJob(t, j) \/ PauseJob(t, j) \/ ResumeJob(t, j)
  \/ \E t \in Threads : Service(t)
  \/ Tick \/ Advance \/ Crash \/ Restart

\* The loop ticks, and what has begun goes on.
LoopStep == Tick \/ Service(Loop)
Spec == Init /\ [][Next]_vars /\ WF_vars(LoopStep) /\ \A t \in Callers : WF_vars(Service(t))

-----------------------------------------------------------------------------
(* Properties                                                              *)

\* No due time is fired twice, over crashes, recoveries, pauses and new
\* schedules, unless the file never got to know that it was fired.
FiresOnce == ~again

\* When nobody is about to write, the file says what the memory says, in
\* whatever order the threads changed and wrote it.
FileIsNewest == up /\ ~Busy("persist") => disk = jobs

\* A job that is due is fired, or its call changes it: no tick passes it by.
Pending == up /\ \E j \in Jobs : Due(j)
DueIsFired == Pending ~> ~Pending
=============================================================================
