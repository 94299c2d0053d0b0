----------------------------- MODULE MCServices -----------------------------
(***************************************************************************)
(* Services for TLC: its constants, the fairness of each service, and what *)
(* then happens in the end; and beside them the order in which skills are  *)
(* loaded.                                                                 *)
(***************************************************************************)
EXTENDS Services

MCContents ==
  {[name |-> "a", needs |-> {"b"}], [name |-> "b", needs |-> {}], [name |-> "b", needs |-> {"a"}]}
MCBroken == [name |-> "?", needs |-> {}]

MCSizes == {<<3, 2>>, <<2, 3>>}
MCFirst == <<3, 2>>

VARIABLES
  oNeeds, oTimes, oLoaded, oDegree, oQueue, oResult

oVars ==
  <<oNeeds, oTimes, oLoaded, oDegree, oQueue, oResult>>

Order == INSTANCE SkillOrder WITH
  needs <- oNeeds, times <- oTimes, loaded <- oLoaded, degree <- oDegree,
  queue <- oQueue, result <- oResult, Names <- {1, 2, 3}, Missing <- {3},
  Repeats <- {1, 2}

\* The bounds above are what the module assumes of its constants.
ASSUME OrderBounds == Order!OrderAssumption

MCInit ==
  /\ Init
  /\ Order!Init
  /\ which # "skill order" => oNeeds = [n \in {1, 2, 3} |-> {}] /\ oTimes = 1 /\ oLoaded = {1, 2, 3}

OnOrder(action) ==
  /\ which = "skill order" /\ action
  /\ UNCHANGED vars

MCNext ==
  \/ Next /\ UNCHANGED oVars
  \/ OnOrder(Order!Pop)
  \/ OnOrder(Order!BreakCycle)

\* Each service under the fairness its module states.  A behaviour never leaves
\* its service, so one condition on a disjunction says it of all; and since the
\* rest stands still, its own variables are all that an action may change.
Own ==
  CASE which = "breaker" -> bVars [] which = "cron" -> sVars [] which = "heartbeat" -> hVars
    [] which = "provider" -> nVars [] which = "tools" -> cVars [] which = "parallel" -> jVars
    [] OTHER -> which

In(service, action) == which = service /\ which' = which /\ action

Fairness ==
  /\ WF_Own(\/ In("breaker", Circuit!Tick)
            \/ In("cron", Cron!LoopStep)
            \/ In("heartbeat", Pulse!Round)
            \/ In("provider", Stream!Runs)
            \/ In("tools", Tool!Runner)
            \/ In("parallel", Spawn!Joins \/ Spawn!Empty))
  /\ WF_Own(\/ In("breaker", Circuit!Request("c") \/ Circuit!Work("c"))
            \/ In("cron", Cron!Service("a"))
            \/ In("heartbeat", Pulse!Restart)
            \/ In("provider", Stream!Tick)
            \/ In("tools", Tool!Tick)
            \/ In("parallel", Spawn!TimesOut))
  /\ WF_Own(\/ In("breaker", Circuit!Request("d") \/ Circuit!Work("d"))
            \/ In("parallel", Spawn!Tick))

MCSpec == MCInit /\ [][MCNext]_<<vars, oVars>> /\ Fairness

-----------------------------------------------------------------------------
\* A skill is listed once and after what it needs, and what one needs is loaded
\* in an order that works.
SkillsInOrder ==
  which = "skill order" => Order!TypeOK /\ Order!OrderIsSafe /\ Order!ResolvedInOrder

\* Something is due: a cron job, a component's restart, asked for or called
\* off, a streamed answer, the results of tools or of tasks, a circuit's closing.
Overdue ==
  \/ which = "cron" /\ Cron!Pending
  \/ which = "heartbeat" /\ Pulse!Unnoticed
  \/ which = "provider" /\ Stream!Running
  \/ which = "tools" /\ Tool!Waiting
  \/ which = "parallel" /\ Spawn!Open
  \/ which = "breaker" /\ bState # "CLOSED"

\* Trouble ends: once users and faults have had their fill nothing stays due or
\* becomes due again.  When a provider has recovered and is asked again, its circuit
\* closes and stays closed, whatever racing clients left in the counters; over
\* crashes, restarts and torn files a due job is fired, and an outage is
\* noticed, as is its end, and a call returns though the provider falls silent,
\* a tool or a task hangs.
Recovers == <>[]~Overdue

=============================================================================
