--------------------------- MODULE ParallelSpawn ---------------------------
(***************************************************************************)
(* spawn_parallel: a list of tasks, at most max_concurrent of them in a    *)
(* JoinSet at a time; as one is joined its result is kept and the next     *)
(* started.  A panic, or the total deadline found past when a task is      *)
(* joined, ends the loop and aborts the others.                            *)
(***************************************************************************)
EXTENDS Integers, Sequences, FiniteSets

CONSTANTS
  Count,         \* how many tasks the call is given
  MaxConcurrent, \* config.max_concurrent
  TaskTimeout,   \* per_task_timeout, in ticks
  TotalTimeout   \* total_timeout

ParallelAssumption ==
  {Count, MaxConcurrent, TotalTimeout} \subseteq Nat /\ TaskTimeout \in Nat \ {0}

VARIABLES
  child,   \* the future of each task in the JoinSet, with its age
  elapsed, \* total_start
  next,    \* task_iter
  results, \* the tasks whose results are kept, with their verdicts
  left     \* "no", or why the loop was left

vars == <<child, elapsed, next, results, left>>

Jobs == 1 .. Count
Ended == {"done", "failed", "timeout", "panic"}
Fresh(state) == [state |-> state, age |-> 0]
In(states) == {t \in Jobs : child[t].state \in states}
Running == In({"running"})
Waiting == In(Ended)

TypeOK ==
  /\ child \in [Jobs -> [state : {"none", "running", "joined", "aborted"} \union Ended, age : 0 .. TaskTimeout]]
  /\ elapsed \in 0 .. TotalTimeout + 1
  /\ next \in 1 .. Count + 1
  /\ \A k \in DOMAIN results : results[k] \in [task : Jobs, verdict : Ended \ {"panic"}]
  /\ left \in {"no", "empty", "panic", "late"}

Init ==
  /\ next = (IF Count < MaxConcurrent THEN Count ELSE MaxConcurrent) + 1
  /\ child = [t \in Jobs |-> Fresh(IF t < next THEN "running" ELSE "none")]
  /\ elapsed = 0 /\ results = <<>> /\ left = "no"

\* Its run returns, fails, passes its deadline or panics.
Ends(t, how) ==
  /\ t \in Running
  /\ how = "timeout" => child[t].age >= TaskTimeout
  /\ child' = [child EXCEPT ![t].state = how]
  /\ UNCHANGED <<elapsed, next, results, left>>

Leave(why, ts) ==
  /\ left' = why
  /\ child' = [t \in Jobs |-> [child[t] EXCEPT !.state =
       IF t \in ts THEN "joined" ELSE IF t \in Running \union Waiting THEN "aborted" ELSE @]]

JoinPanicked(t) ==
  /\ left = "no" /\ child[t].state = "panic"
  /\ Leave("panic", {t})
  /\ UNCHANGED <<elapsed, next, results>>

\* The next task takes the place of the one that was joined.
Refill(t) ==
  /\ child' = [u \in Jobs |->
       CASE u = t -> [child[u] EXCEPT !.state = "joined"]
         [] u = next -> Fresh("running")
         [] OTHER -> child[u]]
  /\ next' = IF next <= Count THEN next + 1 ELSE next

Join(t) ==
  /\ left = "no" /\ child[t].state \in Ended \ {"panic"}
  /\ results' = Append(results, [task |-> t, verdict |-> child[t].state])
  /\ IF elapsed > TotalTimeout
     THEN Leave("late", {t}) /\ UNCHANGED next
     ELSE Refill(t) /\ UNCHANGED left
  /\ UNCHANGED elapsed

\* join_next has nothing to wait for.
Empty ==
  /\ left = "no" /\ Running \union Waiting = {}
  /\ left' = "empty"
  /\ UNCHANGED <<child, elapsed, next, results>>

Tick ==
  /\ Running # {} /\ left = "no"
  /\ elapsed' = IF elapsed > TotalTimeout THEN elapsed ELSE elapsed + 1
  /\ child' = [t \in Jobs |->
       IF t \in Running /\ child[t].age < TaskTimeout THEN [child[t] EXCEPT !.age = @ + 1] ELSE child[t]]
  /\ UNCHANGED <<next, results, left>>

TimesOut == \E t \in Jobs : Ends(t, "timeout")
Joins == \E t \in Jobs : Join(t) \/ JoinPanicked(t)

Next ==
  \/ \E t \in Jobs, how \in Ended : Ends(t, how)
  \/ Joins \/ Empty \/ Tick

\* Time passes, the deadline of a task acts, and the loop goes on.
Fairness == WF_vars(Tick) /\ WF_vars(TimesOut) /\ WF_vars(Joins \/ Empty)

Spec == Init /\ [][Next]_vars /\ Fairness

-----------------------------------------------------------------------------
(* Properties                                                              *)

\* No more tasks at a time than the configuration allows.
WithinConcurrency == Cardinality(Running) <= MaxConcurrent

\* Every task is accounted for: a call that was not cut short has one result
\* for each, and no call has two for one.
AllAccountedFor ==
  /\ \A j, k \in DOMAIN results : results[j].task = results[k].task => j = k
  /\ left = "empty" /\ MaxConcurrent > 0 => Len(results) = Count

\* The call returns, though its tasks hang.
Open == left = "no"
Returns == Open ~> ~Open
=============================================================================
