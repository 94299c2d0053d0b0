----------------------------- MODULE ToolCalls -----------------------------
(***************************************************************************)
(* execute_tools: the tool calls of one answer run as tasks of their own,  *)
(* mutating ones under one mutex, while the runner waits for one after the *)
(* other, with a deadline for each, looking for a cancellation every beat. *)
(*                                                                         *)
(* What a tool does is left out, but for what abort() makes of it: it ends *)
(* where it is suspended; work handed to spawn_blocking goes on without    *)
(* its task (the terminal tools); block_in_place goes on with it (script). *)
(***************************************************************************)
EXTENDS Integers, Sequences

CONSTANTS
  Calls,     \* number of tool calls in the answer
  Mutating,  \* those of mutating tools
  Detached,  \* those that work in spawn_blocking
  InPlace,   \* those that work in block_in_place
  Deadline,  \* tool_timeout_secs, in ticks
  Beat       \* heartbeat_interval

ToolAssumption ==
  /\ {Calls, Deadline, Beat} \subseteq Nat \ {0}
  /\ Mutating \union Detached \union InPlace \subseteq 1 .. Calls
  /\ Detached \intersect InPlace = {}

VARIABLES
  task,      \* the task of each call
  work,      \* what it does to the world
  owner,     \* mutating_guard: who holds it, or 0
  line,      \* who has asked for it, in order: those still queued wait
  runner,    \* execute_tools: where it is, and at which call
  waited,    \* time since it turned to this call, and since it polls
  results,   \* what it reports, call by call
  cancelled  \* cancel_token

vars == <<task, work, owner, line, runner, waited, results, cancelled>>

Tools == 1 .. Calls
Verdicts == {"ok", "error", "panic"}
Alive == {"spawned", "queued", "working", "doomed"}

TypeOK ==
  /\ task \in [Tools -> Alive \union {"ended", "gone"}]
  /\ work \in [Tools -> {"none", "on"} \union Verdicts]
  /\ owner \in Mutating \union {0} /\ \A k \in DOMAIN line : line[k] \in Mutating
  /\ runner \in [pc : {"look", "poll"}, at : Tools] \union {[pc |-> "returned", at |-> 0], [pc |-> "dropped", at |-> 0]}
  /\ waited \in [tool : 0 .. Deadline, poll : 0 .. Deadline]
  /\ \A k \in DOMAIN results : k \in Tools /\ results[k] \in Verdicts \union {"cancelled", "timeout"}
  /\ cancelled \in BOOLEAN

Init ==
  /\ task = [t \in Tools |-> "spawned"] /\ work = [t \in Tools |-> "none"]
  /\ owner = 0 /\ line = <<>>
  /\ runner = [pc |-> "look", at |-> 1] /\ waited = [tool |-> 0, poll |-> 0]
  /\ results = <<>> /\ cancelled = FALSE

-----------------------------------------------------------------------------
(* The tasks                                                               *)

RunnerStands == UNCHANGED <<runner, waited, results, cancelled>>

\* The arguments cannot be read: an error, before the mutex is asked for.
BadArguments(t) ==
  /\ task[t] = "spawned"
  /\ task' = [task EXCEPT ![t] = "ended"] /\ work' = [work EXCEPT ![t] = "error"]
  /\ UNCHANGED <<owner, line>> /\ RunnerStands

\* A read-only tool starts at once, a mutating one asks for the mutex.
Begin(t) ==
  /\ task[t] = "spawned"
  /\ IF t \in Mutating
     THEN task' = [task EXCEPT ![t] = "queued"] /\ line' = Append(line, t) /\ UNCHANGED work
     ELSE task' = [task EXCEPT ![t] = "working"] /\ work' = [work EXCEPT ![t] = "on"] /\ UNCHANGED line
  /\ UNCHANGED owner /\ RunnerStands

\* Nobody has the mutex, and nobody waits who asked before.
MayStart(t) ==
  /\ owner = 0
  /\ \E k \in DOMAIN line : line[k] = t /\ \A j \in 1 .. k - 1 : task[line[j]] # "queued"

Acquire(t) ==
  /\ task[t] = "queued" /\ MayStart(t)
  /\ task' = [task EXCEPT ![t] = "working"] /\ work' = [work EXCEPT ![t] = "on"]
  /\ owner' = t /\ UNCHANGED line /\ RunnerStands

\* The tool returns, or panics; its task gives the mutex back.
Ends(t, verdict) ==
  /\ task[t] \in {"working", "doomed"} /\ work[t] = "on"
  /\ task' = [task EXCEPT ![t] = IF @ = "doomed" THEN "gone" ELSE "ended"]
  /\ work' = [work EXCEPT ![t] = verdict]
  /\ owner' = (IF owner = t THEN 0 ELSE owner) /\ UNCHANGED line /\ RunnerStands

\* A blocking thread that has lost its task comes to its end.
EndsAlone(t) ==
  /\ task[t] = "gone" /\ work[t] = "on"
  /\ work' = [work EXCEPT ![t] = "ok"]
  /\ UNCHANGED <<task, owner, line>> /\ RunnerStands

\* What is left of a tool when its task is aborted.
Aborted(t) ==
  CASE task[t] \in {"working", "doomed"} /\ t \in InPlace -> "doomed"
    [] task[t] = "ended" -> "ended"
    [] OTHER -> "gone"

Abort(ts) ==
  /\ task' = [t \in Tools |-> IF t \in ts THEN Aborted(t) ELSE task[t]]
  /\ work' = [t \in Tools |->
       IF t \in ts /\ work[t] = "on" /\ Aborted(t) = "gone" /\ t \notin Detached
       THEN "error" ELSE work[t]]
  /\ owner' = (IF owner \in ts /\ Aborted(owner) = "gone" THEN 0 ELSE owner)
  /\ UNCHANGED line

-----------------------------------------------------------------------------
(* The runner                                                              *)

\* On to the next call, or, after the last, back with the results.
Report(result) ==
  /\ results' = Append(results, result)
  /\ runner' = IF runner.at = Calls THEN [pc |-> "returned", at |-> 0]
               ELSE [pc |-> "look", at |-> runner.at + 1]
  /\ waited' = [tool |-> 0, poll |-> 0]
  /\ UNCHANGED cancelled

GiveUp(result) == Abort({runner.at}) /\ Report(result)

Look ==
  /\ runner.pc = "look"
  /\ CASE cancelled -> GiveUp("cancelled")
       [] ~cancelled /\ waited.tool >= Deadline -> GiveUp("timeout")
       [] OTHER -> /\ runner' = [runner EXCEPT !.pc = "poll"]
                   /\ waited' = [waited EXCEPT !.poll = 0]
                   /\ UNCHANGED <<task, work, owner, line, results, cancelled>>

\* The task has ended: its result, whatever the clock or the token say.
TakeResult ==
  /\ runner.pc = "poll" /\ task[runner.at] = "ended"
  /\ task' = [task EXCEPT ![runner.at] = "gone"]
  /\ Report(work[runner.at])
  /\ UNCHANGED <<work, owner, line>>

\* Fault: every beat begins the call's deadline anew.
HeartbeatAnew ==
  /\ runner.pc = "poll" /\ task[runner.at] # "ended"
  /\ waited.poll >= Beat \/ waited.tool >= Deadline
  /\ runner' = [runner EXCEPT !.pc = "look"]
  /\ waited' = [tool |-> 0, poll |-> 0]
  /\ UNCHANGED <<task, work, owner, line, results, cancelled>>

\* A beat without a result.
Heartbeat ==
  /\ runner.pc = "poll" /\ task[runner.at] # "ended"
  /\ waited.poll >= Beat \/ waited.tool >= Deadline
  /\ IF waited.tool >= Deadline
     THEN GiveUp("timeout")
     ELSE /\ runner' = [runner EXCEPT !.pc = "look"]
          /\ UNCHANGED <<task, work, owner, line, waited, results, cancelled>>

Cancel ==
  /\ runner.pc \in {"look", "poll"} /\ ~cancelled
  /\ cancelled' = TRUE
  /\ UNCHANGED <<task, work, owner, line, runner, waited, results>>

\* The message's deadline drops the call, and AbortOnDrop the tasks.
Drop ==
  /\ runner.pc = "poll"
  /\ runner' = [pc |-> "dropped", at |-> 0]
  /\ Abort(Tools)
  /\ UNCHANGED <<waited, results, cancelled>>

Tick ==
  /\ runner.pc = "poll" /\ waited.tool < Deadline
  /\ waited' = [tool |-> waited.tool + 1, poll |-> waited.poll + 1]
  /\ UNCHANGED <<task, work, owner, line, runner, results, cancelled>>

Runner == Look \/ TakeResult \/ Heartbeat

Next ==
  \/ \E t \in Tools : BadArguments(t) \/ Begin(t) \/ Acquire(t) \/ EndsAlone(t)
  \/ \E t \in Tools, verdict \in Verdicts : Ends(t, verdict)
  \/ Runner \/ Cancel \/ Drop \/ Tick

\* The runner goes on and time passes.  No tool need ever end.
Fairness == WF_vars(Runner) /\ WF_vars(Tick)

Spec == Init /\ [][Next]_vars /\ Fairness

-----------------------------------------------------------------------------
(* Properties                                                              *)

\* A mutating tool works alone, unless another was given up while a thread
\* did its work: that thread works on without the mutex.
MutatingAlone ==
  \A t, u \in Mutating :
    t # u /\ work[t] = "on" /\ work[u] = "on" =>
      \E x \in {t, u} : x \in Detached /\ task[x] = "gone"

\* Each result is of its own call, and what the model is told was done was.
ResultsFit ==
  \A k \in DOMAIN results :
    /\ results[k] \in Verdicts => task[k] = "gone" /\ results[k] = work[k]
    /\ results[k] \in {"cancelled", "timeout"} => task[k] \notin {"spawned", "queued", "working"}

\* However the call is left, returned or dropped, no tool starts afterwards.
NothingStartsLater ==
  runner.pc \in {"returned", "dropped"} => \A t \in Tools : task[t] \notin {"spawned", "queued", "working"}

\* Tools that hang, or wait for one that hangs, do not hang the runner.
Waiting == runner.pc \in {"look", "poll"}
Returns == Waiting ~> ~Waiting
=============================================================================
