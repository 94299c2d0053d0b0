--------------------------- MODULE HeartbeatService ---------------------------
(***************************************************************************)
(* The heartbeat: in rounds it polls every component, publishes a snapshot *)
(* to the HTTP API, tells the bus what changed, counts failures in a row   *)
(* and asks for a restart when there are too many.  What it knows is       *)
(* written to a file after each round, from which the next process goes    *)
(* on; a file torn by a crash counts as none.                              *)
(*                                                                         *)
(* Degraded and skipped components count like healthy ones here.           *)
(***************************************************************************)
EXTENDS Integers, FiniteSets

CONSTANTS
  Components,
  Threshold,   \* failures_before_restart
  MaxBackoff,  \* MAX_BACKOFF_SECS, in units of INITIAL_BACKOFF_SECS
  MaxChanges,  \* how often a component fails or recovers
  MaxCrashes

HeartbeatAssumption ==
  /\ {Threshold, MaxBackoff} \subseteq Nat \ {0} /\ {MaxChanges, MaxCrashes} \subseteq Nat
  /\ IsFiniteSet(Components)

VARIABLES
  health,      \* of each component: is it healthy?
  pc,          \* where the service is in its round
  polled,      \* the results of this round
  state,       \* HeartbeatState
  file,        \* heartbeat_state.json
  shown,       \* what the HTTP API shows
  announced,   \* history: per component, the last status the bus was told
  asked,       \* history: components a restart was asked for since they last were polled healthy
  twice,       \* history: was one asked for again?
  changes, crashes

env == <<health, changes, crashes>>
history == <<announced, asked, twice>>
vars == <<env, pc, polled, state, file, shown, history>>

Nobody == [c \in Components |-> "unknown"]
Status == {"healthy", "unhealthy"}

\* consecutive_failures (capped where it decides nothing more), restart_pending
\* and backoff of each component, and the last snapshot.
Default == [snapshot |-> Nobody, row |-> [c \in Components |-> 0],
            pending |-> {}, backoff |-> [c \in Components |-> 1]]

TypeOK ==
  /\ health \in [Components -> Status]
  /\ pc \in {"down", "start", "poll", "publish", "process", "persist", "stopped"}
  /\ \A s \in {state, file} :
       /\ s.snapshot \in [Components -> Status] \/ s.snapshot = Nobody
       /\ s.row \in [Components -> 0 .. Threshold] /\ s.pending \subseteq Components
       /\ s.backoff \in [Components -> 1 .. MaxBackoff]
  /\ shown \in [Components -> Status] \/ shown = Nobody
  /\ changes \in 0 .. MaxChanges /\ crashes \in 0 .. MaxCrashes

Init ==
  /\ health = [c \in Components |-> "healthy"]
  /\ pc = "start" /\ polled = Nobody
  /\ state = Default /\ file = Default
  /\ shown = Nobody /\ announced = Nobody
  /\ asked = {} /\ twice = FALSE
  /\ changes = 0 /\ crashes = 0

-----------------------------------------------------------------------------

Change(c) ==
  /\ changes < MaxChanges
  /\ changes' = changes + 1
  /\ health' = [health EXCEPT ![c] = IF @ = "healthy" THEN "unhealthy" ELSE "healthy"]
  /\ UNCHANGED <<crashes, pc, polled, state, file, shown, history>>

\* The gateway primes its heartbeat with a round before it runs the loop.
Begin ==
  /\ pc = "start"
  /\ pc' = "poll" /\ polled' = Nobody
  /\ UNCHANGED <<env, state, file, shown, history>>

\* One check after the other, each awaited.
Poll(c) ==
  /\ pc = "poll" /\ polled[c] = "unknown"
  /\ polled' = [polled EXCEPT ![c] = health[c]]
  /\ pc' = IF \E d \in Components \ {c} : polled[d] = "unknown" THEN "poll" ELSE "publish"
  /\ UNCHANGED <<env, state, file, shown, history>>

\* The snapshot replaces the last one, with which it is compared; a component
\* whose status differs is announced.
Publish ==
  /\ pc = "publish"
  /\ state' = [state EXCEPT !.snapshot = polled]
  /\ shown' = polled
  /\ announced' = IF state.snapshot = Nobody THEN announced
                  ELSE [c \in Components |->
                          IF polled[c] # state.snapshot[c] THEN polled[c] ELSE announced[c]]
  /\ pc' = "process"
  /\ UNCHANGED <<env, polled, file, asked, twice>>

ShouldRestart(c, row) == row >= Threshold /\ c \notin state.pending

Least(a, b) == IF a < b THEN a ELSE b

ProcessFailures ==
  LET down == {c \in Components : polled[c] = "unhealthy"}
      row == [c \in Components |-> IF c \in down THEN Least(state.row[c] + 1, Threshold) ELSE 0]
      restart == {c \in down : ShouldRestart(c, row[c])}
  IN /\ pc = "process"
     /\ state' = [state EXCEPT
          !.row = row,
          !.pending = (@ \cap down) \union restart,
          !.backoff = [c \in Components |-> IF c \in restart THEN Least(2 * @[c], MaxBackoff) ELSE @[c]]]
     /\ twice' = (twice \/ restart \cap asked # {})
     /\ asked' = (asked \cap down) \union restart
     /\ pc' = "persist"
     /\ UNCHANGED <<env, polled, file, shown, announced>>

\* The event of the round, and the file.
Persist ==
  /\ pc = "persist"
  /\ file' = state
  /\ pc' = "start"
  /\ UNCHANGED <<env, polled, state, shown, history>>

\* stop is noticed between two rounds.
Stop ==
  /\ pc = "start"
  /\ pc' = "stopped"
  /\ UNCHANGED <<env, polled, state, file, shown, history>>

\* The process is killed, perhaps in the middle of a write: run writes its
\* start to the file as well.  What only it knew is forgotten, and what the bus was
\* told and the file does not have may be told again.
Crash ==
  /\ pc # "down" /\ crashes < MaxCrashes
  /\ crashes' = crashes + 1
  /\ pc' = "down" /\ polled' = Nobody /\ shown' = Nobody
  /\ file' \in {file} \union (IF pc \in {"start", "persist"} THEN {Default} ELSE {})
  /\ asked' = file'.pending
  /\ announced' = file'.snapshot
  /\ UNCHANGED <<health, changes, state, twice>>

Restart ==
  /\ pc = "down"
  /\ state' = file
  /\ pc' = "start"
  /\ UNCHANGED <<env, polled, file, shown, history>>

Round == Begin \/ (\E c \in Components : Poll(c)) \/ Publish \/ ProcessFailures \/ Persist
Next == Round \/ Stop \/ Crash \/ Restart \/ \E c \in Components : Change(c)

Spec == Init /\ [][Next]_vars /\ WF_vars(Round) /\ WF_vars(Restart)

-----------------------------------------------------------------------------
(* Properties                                                              *)

\* One restart is asked for per outage, also over processes, unless the file
\* never got to know of it.
OneRestartPerOutage == ~twice

\* Who follows the announcements on the bus from the first snapshot on knows
\* what the API shows: no change between two rounds goes untold.
Told == pc \in {"process", "persist"} => \A c \in Components :
          announced[c] \in {"unknown", shown[c]}

\* A component that stays down has a restart pending, and one that is well
\* has none, sooner or later, whatever crashes and torn files come between.
Unnoticed ==
  pc # "stopped" /\ \E c \in Components : (health[c] = "unhealthy") # (c \in state.pending)
OutagesAreNoticed == Unnoticed ~> ~Unnoticed
=============================================================================
