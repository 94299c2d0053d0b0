----------------------------- MODULE SubAgents -----------------------------
(***************************************************************************)
(* The table of background sub-agents: spawn_single checks the limit,      *)
(* registers the task, starts its agent and stores the join handle, taking *)
(* the table's lock anew for each; meanwhile the agent runs and reports,   *)
(* others cancel, terminate everything, clean up, or wait for a task.      *)
(*                                                                         *)
(* What an agent does is left out, but for one thing: abort() stops it     *)
(* where it is suspended, and lets the poll it is in come to its end.  An  *)
(* agent is "ending" in the poll in which its run returns (or its deadline *)
(* passes) until it has reported, "doomed" if abort() came meanwhile.      *)
(* Completed(_) and Failed(_) are one verdict, "Reported".                 *)
(***************************************************************************)
EXTENDS Integers, FiniteSets

CONSTANTS
  MaxSpawns, \* tasks over the whole behaviour
  Overlap,   \* calls of spawn_single that may be in progress at one time
  Waiters,   \* those who may be inside wait_for at one time
  MaxTasks   \* max_tasks; 0, no limit, is left out

ASSUME SubAgentAssumption ==
  {MaxSpawns, MaxTasks, Overlap} \subseteq Nat \ {0}

VARIABLES
  status,  \* tasks: the status of each entry, "absent" for none
  handle,  \* is its join handle stored in the entry?
  permit,  \* done_notify: does it hold a permit nobody has taken?
  spawn,   \* where the spawn_single of each task is
  agent,   \* the background task of each sub-agent
  waiter,  \* where each wait_for is, and its task
  loose    \* history: entries cancelled while no handle was stored

table == <<status, handle, permit>>
vars == <<table, spawn, agent, waiter, loose>>

Tasks == 1 .. MaxSpawns   \* ids, in the order in which they are drawn
NoTask == 0

Active == {t \in Tasks : status[t] \in {"Pending", "Running"}}
Terminal == {t \in Tasks : status[t] \in {"Reported", "Cancelled"}}
Present == Active \cup Terminal
Held(t) == \E w \in Waiters : waiter[w].task = t
Parked(t) == {w \in Waiters : waiter[w] = [pc |-> "parked", task |-> t]}

\* Tasks that passed the limit and are not marked as running yet.
Starting == {t \in Tasks : spawn[t] \in {"checked", "registered"}}
InCall == Starting \cup {t \in Tasks : spawn[t] = "running"}

Idle == [pc |-> "idle", task |-> NoTask]

TypeOK ==
  /\ status \in [Tasks -> {"absent", "Pending", "Running", "Reported", "Cancelled"}]
  /\ handle \in [Tasks -> BOOLEAN]
  /\ permit \in [Tasks -> BOOLEAN]
  /\ spawn \in [Tasks -> {"none", "checked", "registered", "running", "returned"}]
  /\ agent \in [Tasks -> {"none", "suspended", "ending", "doomed", "over"}]
  /\ waiter \in [Waiters -> {Idle} \cup [pc : {"looked", "parked", "woken"}, task : {t \in Tasks : spawn[t] # "none"}]]
  /\ loose \subseteq Tasks

Init ==
  /\ status = [t \in Tasks |-> "absent"]
  /\ handle = [t \in Tasks |-> FALSE]
  /\ permit = [t \in Tasks |-> FALSE]
  /\ spawn = [t \in Tasks |-> "none"]
  /\ agent = [t \in Tasks |-> "none"]
  /\ waiter = [w \in Waiters |-> Idle]
  /\ loose = {}

-----------------------------------------------------------------------------
\* notify_one on each task of ts: it wakes one of those that wait, or leaves
\* a permit (Notify holds one at most).  Which one wakes is left open.
NotifyEach(ts) ==
  /\ \E woken \in SUBSET {w \in Waiters : waiter[w].pc = "parked" /\ waiter[w].task \in ts} :
       /\ \A t \in ts : Parked(t) # {} => Cardinality(woken \cap Parked(t)) = 1
       /\ waiter' = [w \in Waiters |->
                       IF w \in woken THEN [waiter[w] EXCEPT !.pc = "woken"] ELSE waiter[w]]
  /\ permit' = [t \in Tasks |-> permit[t] \/ (t \in ts /\ Parked(t) = {})]

-----------------------------------------------------------------------------
(* spawn_single *)

\* Fault: the limit is compared with > instead of >=.
UnderLimitLoosely == Cardinality(Active) <= MaxTasks

UnderLimit == Cardinality(Active) < MaxTasks

\* The limit is read under the read lock, which is released; a new id is drawn.
CheckLimit(t) ==
  /\ spawn[t] = "none"
  /\ \A u \in 1 .. t - 1 : spawn[u] # "none"
  /\ Cardinality(InCall) < Overlap
  /\ UnderLimit
  /\ spawn' = [spawn EXCEPT ![t] = "checked"]
  /\ UNCHANGED <<table, agent, waiter, loose>>

\* The entry is pushed, pending.
Register(t) ==
  /\ spawn[t] = "checked"
  /\ spawn' = [spawn EXCEPT ![t] = "registered"]
  /\ status' = [status EXCEPT ![t] = "Pending"]
  /\ UNCHANGED <<handle, permit, agent, waiter, loose>>

\* The entry, if it is still there, becomes Running whatever it was, and the
\* background task is spawned.
Start(t) ==
  /\ spawn[t] = "registered"
  /\ spawn' = [spawn EXCEPT ![t] = "running"]
  /\ status' = [status EXCEPT ![t] = IF t \in Present THEN "Running" ELSE @]
  /\ agent' = [agent EXCEPT ![t] = "suspended"]
  /\ UNCHANGED <<handle, permit, waiter, loose>>

\* The handle goes into the entry, or is dropped with no effect on the agent.
StoreHandle(t) ==
  /\ spawn[t] = "running"
  /\ spawn' = [spawn EXCEPT ![t] = "returned"]
  /\ handle' = [handle EXCEPT ![t] = t \in Present]
  /\ UNCHANGED <<status, permit, agent, waiter, loose>>

-----------------------------------------------------------------------------
(* The background task *)

\* Fault: the deadline ends the agent, but fails to say so.
EndSilently(t) ==
  /\ agent[t] = "suspended"
  /\ \E a \in {"ending", "over"} : agent' = [agent EXCEPT ![t] = a]
  /\ UNCHANGED <<table, spawn, waiter, loose>>

\* Fault: the notification is sent before the entry is written.
EndNotifying(t) ==
  /\ agent[t] = "suspended"
  /\ agent' = [agent EXCEPT ![t] = "ending"]
  /\ NotifyEach({t} \cap Present)
  /\ UNCHANGED <<status, handle, spawn, loose>>

\* Its run returns, or its deadline passes.
EndRun(t) ==
  /\ agent[t] = "suspended"
  /\ agent' = [agent EXCEPT ![t] = "ending"]
  /\ UNCHANGED <<table, spawn, waiter, loose>>

\* The entry, if it is still there, takes the verdict, whatever it was.
Verdict(t) == status' = [status EXCEPT ![t] = IF t \in Present THEN "Reported" ELSE @]

\* Fault: fail() and complete() notify nobody.
ReportQuietly(t) ==
  /\ agent[t] \in {"ending", "doomed"}
  /\ agent' = [agent EXCEPT ![t] = "over"]
  /\ Verdict(t)
  /\ UNCHANGED <<handle, permit, spawn, waiter, loose>>

\* complete() or fail().
Report(t) ==
  /\ agent[t] \in {"ending", "doomed"}
  /\ agent' = [agent EXCEPT ![t] = "over"]
  /\ Verdict(t)
  /\ NotifyEach({t} \cap Present)
  /\ UNCHANGED <<handle, spawn, loose>>

\* Aborted in its last poll, it had to wait for the lock and is dropped there.
DropAborted(t) ==
  /\ agent[t] = "doomed"
  /\ agent' = [agent EXCEPT ![t] = "over"]
  /\ UNCHANGED <<table, spawn, waiter, loose>>

-----------------------------------------------------------------------------
(* cancel, terminate_all, cleanup_completed *)

\* Fault: entries are marked and their waiters told, but no handle aborted.
MarkCancelled(ts) ==
  /\ status' = [t \in Tasks |-> IF t \in ts THEN "Cancelled" ELSE status[t]]
  /\ handle' = [t \in Tasks |-> handle[t] /\ t \notin ts]
  /\ loose' = loose \cup {t \in ts : ~handle[t]}
  /\ NotifyEach(ts)
  /\ UNCHANGED <<spawn, agent>>

\* What abort() makes of an agent.
Aborted(a) == CASE a = "suspended" -> "over" [] a = "ending" -> "doomed" [] OTHER -> a

\* Under the write lock: abort what has a handle, mark all, then notify.
Abort(ts) ==
  LET held == {t \in ts : handle[t]} IN
  /\ status' = [t \in Tasks |-> IF t \in ts THEN "Cancelled" ELSE status[t]]
  /\ handle' = [t \in Tasks |-> handle[t] /\ t \notin ts]
  /\ agent' = [t \in Tasks |-> IF t \in held THEN Aborted(agent[t]) ELSE agent[t]]
  /\ loose' = loose \cup (ts \ held)
  /\ NotifyEach(ts)
  /\ UNCHANGED <<spawn>>

\* Fault: a task that is over can be cancelled.
CancelAnything(t) == t \in Present /\ Abort({t})

Cancel(t) == t \in Active /\ Abort({t})

TerminateAll == Active # {} /\ Abort(Active)

\* Terminal entries go; a Notify lives on with a wait that holds it.
CleanupCompleted ==
  /\ Terminal # {}
  /\ status' = [t \in Tasks |-> IF t \in Terminal THEN "absent" ELSE status[t]]
  /\ handle' = [t \in Tasks |-> handle[t] /\ t \notin Terminal]
  /\ permit' = [t \in Tasks |-> permit[t] /\ (t \in Terminal => Held(t))]
  /\ loose' = loose \ Terminal
  /\ UNCHANGED <<spawn, agent, waiter>>

-----------------------------------------------------------------------------
(* wait_for *)

\* Fault: an unknown id is waited for.
LookAnyhow(w, t) ==
  /\ waiter[w] = Idle
  /\ t \notin Terminal
  /\ waiter' = [waiter EXCEPT ![w] = [pc |-> "looked", task |-> t]]
  /\ UNCHANGED <<table, spawn, agent, loose>>

\* The task is there and not over: its Notify is cloned, the lock released.
Look(w, t) ==
  /\ waiter[w] = Idle
  /\ t \in Active
  /\ waiter' = [waiter EXCEPT ![w] = [pc |-> "looked", task |-> t]]
  /\ UNCHANGED <<table, spawn, agent, loose>>

\* notified() is polled: a permit left behind is taken.
Park(w) ==
  LET t == waiter[w].task IN
  /\ waiter[w].pc = "looked"
  /\ waiter' = [waiter EXCEPT ![w].pc = IF permit[t] THEN "woken" ELSE "parked"]
  /\ permit' = [permit EXCEPT ![t] = FALSE]
  /\ UNCHANGED <<status, handle, spawn, agent, loose>>

\* It returns the status it reads, whatever that is.
WaitTimesOut(w) ==
  /\ waiter[w].pc = "parked"
  /\ waiter' = [waiter EXCEPT ![w] = Idle]
  /\ UNCHANGED <<table, spawn, agent, loose>>

\* It returns the status it reads now.
Return(w) ==
  /\ waiter[w].pc = "woken"
  /\ waiter' = [waiter EXCEPT ![w] = Idle]
  /\ UNCHANGED <<table, spawn, agent, loose>>

-----------------------------------------------------------------------------
Spawning(t) == CheckLimit(t) \/ Register(t) \/ Start(t) \/ StoreHandle(t)
Running(t) == EndRun(t) \/ Report(t) \/ DropAborted(t)
Waiting(w) == (\E t \in Tasks : Look(w, t)) \/ Park(w) \/ WaitTimesOut(w) \/ Return(w)

Next ==
  \/ \E t \in Tasks : Spawning(t) \/ Running(t) \/ Cancel(t)
  \/ \E w \in Waiters : Waiting(w)
  \/ TerminateAll
  \/ CleanupCompleted

Spec == Init /\ [][Next]_vars

\* A spawn that has begun goes on, an agent runs to its end (120 s at most by
\* default) and reports, a waiter that can go on does.  Nobody must cancel,
\* clean up or wait, and no wait leans on its own timeout.
LiveSpec ==
  /\ Spec
  /\ \A t \in Tasks : WF_vars(Register(t) \/ Start(t) \/ StoreHandle(t))
  /\ \A t \in Tasks : WF_vars(EndRun(t)) /\ WF_vars(Report(t) \/ DropAborted(t))
  /\ \A w \in Waiters : WF_vars(Park(w) \/ Return(w))

-----------------------------------------------------------------------------
(* The limit is checked under one lock and the task registered under       *)
(* another: calls that overlap overshoot it, but by no more than the       *)
(* others that may be between the two.                                     *)
SlotBound == Cardinality(Active \cup Starting) <= MaxTasks + Overlap - 1

(* A task that was cancelled with its handle in the table makes no further *)
(* provider call: its agent is not left to go on.  (One cancelled before   *)
(* that, while spawn_single is between its locks, runs on.)                *)
CancelStopsWork ==
  \A t \in Tasks : status[t] = "Cancelled" /\ t \notin loose => agent[t] # "suspended"

(* A wait that was woken, not timed out, finds the task over or removed,   *)
(* though it reads the table only later; but for tasks cancelled while     *)
(* they were being spawned, whose permit outlives their cancellation.      *)
WokenIsSettled ==
  \A w \in Waiters :
    waiter[w].pc = "woken" => waiter[w].task \notin Active \/ waiter[w].task \in loose

(* A result that can be read stays until it is cleaned up: no cancel, late *)
(* report or spawn in progress replaces it.                                *)
ResultStands ==
  [][\A t \in Tasks : status[t] = "Reported" => status'[t] \in {"Reported", "absent"}]_vars

(* Once no more is spawned every slot is free again, for good: no cancel,  *)
(* abort or late handle leaves an entry that counts as active for ever.    *)
SlotsComeBack == <>[](Active = {})

\* Nobody else waits for the same task.
Alone(w) == \A v \in Waiters \ {w} : waiter[v].task = waiter[w].task => waiter[w] = Idle

(* Who waits alone for a task is woken without the help of the timeout,    *)
(* wherever the report falls between looking and parking.                  *)
LoneWaiterIsWoken ==
  \A w \in Waiters :
    []Alone(w) => (waiter[w].pc = "parked" ~> waiter[w].pc # "parked")
=============================================================================
