--------------------------- MODULE SkillLearning ---------------------------
(***************************************************************************)
(* What the agent learns about its skills: events on a broadcast bus, one  *)
(* consumer that logs each, counts it and does what the processor asks,    *)
(* the registry with its files, and the hourly pruning of the log.  The    *)
(* process may be killed between any two writes, and is started again.     *)
(*                                                                         *)
(* Left out: insights for the memory store, and I/O errors (each is        *)
(* logged, and the consumer goes on).                                      *)
(***************************************************************************)
EXTENDS Integers, Sequences, FiniteSets

CONSTANTS
  Depth,     \* skills: a skill, its variant, the variant's variant, ...
  Top,       \* confidence goes from 0 to Top
  Streak,    \* SKILL_DEPRECATION_STREAK_THRESHOLD
  Capacity,  \* LEARNING_BUS_CAPACITY
  SaveEvery, \* events between two saves of the statistics
  MaxLog,    \* max_events of the log
  MaxEvents, \* bound: events published
  MaxCrashes \* bound: kills and restarts

LearningAssumption ==
  /\ {Depth, Top, Streak, Capacity, SaveEvery, MaxLog} \subseteq Nat \ {0}
  /\ {MaxEvents, MaxCrashes} \subseteq Nat

VARIABLES
  bus,       \* the broadcast channel, as the consumer still sees it
  published, \* events published so far
  consumer,  \* run_learning_consumer
  stats,     \* the processor's statistics
  saved,     \* ... and their file
  skill,     \* the registry
  file,      \* its manifests and instructions on disk
  log,       \* the lines of the event log: events, by number, and damage
  prune,     \* what the pruning has read and will write back
  crashes

vars == <<bus, published, consumer, stats, saved, skill, file, log, prune, crashes>>

Skills == 1 .. Depth
Kinds == {"other", "exact", "useful", "loose", "useless"}
Event == [id : 1 .. MaxEvents, kind : Kinds, skill : Skills]
Nothing == [id |-> 0, kind |-> "other", skill |-> 1]
Torn == -1  \* a line without its end
Junk == -2  \* a line that is no event

States == {"none", "live", "deprecated"}
Unknown == [state |-> "none", conf |-> 0, text |-> FALSE]
Manifest == [state : States, conf : 0 .. Top, text : BOOLEAN]
Counts == [processed : 0 .. MaxEvents, streak : [Skills -> 0 .. MaxEvents]]

TypeOK ==
  /\ Len(bus) <= Capacity /\ \A k \in DOMAIN bus : bus[k] \in Event
  /\ published \in 0 .. MaxEvents
  /\ consumer \in [pc : {"idle", "append", "handle", "act", "save", "done", "dead"},
                   event : Event \union {Nothing}, since : 0 .. SaveEvery,
                   todo : Seq({"up", "down", "patch", "create", "describe", "deprecate"}),
                   lost : BOOLEAN, stopping : BOOLEAN]
  /\ {stats, saved} \subseteq Counts
  /\ skill \in [Skills -> [state : States, conf : 0 .. Top, text : BOOLEAN, base : 0 .. Top]]
  /\ file \in [Skills -> Manifest]
  /\ \A k \in DOMAIN log : log[k] \in 1 .. MaxEvents \union {Torn, Junk}
  /\ prune.on \in BOOLEAN /\ Len(prune.kept) <= MaxLog
  /\ crashes \in 0 .. MaxCrashes

\* load_all: the manifests with their companion instructions, if they have any.
Loaded(files) == [n \in Skills |-> [state |-> files[n].state, conf |-> files[n].conf,
                                    text |-> files[n].text, base |-> files[n].conf]]
Start == [pc |-> "idle", event |-> Nothing, since |-> 0, todo |-> <<>>, lost |-> FALSE, stopping |-> FALSE]
Default == Top \div 2

Init ==
  /\ bus = <<>> /\ published = 0 /\ consumer = Start
  /\ stats = [processed |-> 0, streak |-> [n \in Skills |-> 0]] /\ saved = stats
  /\ file = [n \in Skills |-> IF n = 1 THEN [state |-> "live", conf |-> Default, text |-> TRUE] ELSE Unknown]
  /\ skill = Loaded(file)
  /\ log = <<>> /\ prune = [on |-> FALSE, kept |-> <<>>]
  /\ crashes = 0

-----------------------------------------------------------------------------
(* Publishers                                                              *)

\* A skill is used when match_skills finds it: deprecated ones are passed
\* over, and the score is at most the confidence.
Occurs(kind, n) ==
  CASE kind = "other" -> n = 1
    [] kind = "exact" -> skill[n].state = "live" /\ skill[n].conf = Top
    [] kind = "loose" -> skill[n].state = "live" /\ n < Depth
    [] OTHER -> skill[n].state = "live"

\* A full channel loses its oldest event: the consumer lags.
Publish(kind, n) ==
  /\ published < MaxEvents /\ consumer.pc # "dead"
  /\ Occurs(kind, n)
  /\ published' = published + 1
  /\ LET all == Append(bus, [id |-> published', kind |-> kind, skill |-> n])
     IN  bus' = IF Len(all) > Capacity THEN Tail(all) ELSE all
  /\ UNCHANGED <<consumer, stats, saved, skill, file, log, prune, crashes>>

-----------------------------------------------------------------------------
(* The consumer                                                            *)

Goes(pc) == consumer' = [consumer EXCEPT !.pc = pc]

\* recv, and the log is opened to append to it.
Receive ==
  /\ consumer.pc = "idle" /\ bus # <<>>
  /\ consumer' = [consumer EXCEPT !.pc = "append", !.event = Head(bus), !.lost = FALSE]
  /\ bus' = Tail(bus)
  /\ UNCHANGED <<published, stats, saved, skill, file, log, prune, crashes>>

Ends(lines, x) == lines # <<>> /\ lines[Len(lines)] = x

\* The line is written: behind a torn one it becomes part of it, and into a
\* log that was replaced since it was opened it is lost.
AppendEvent ==
  /\ consumer.pc = "append"
  /\ log' = CASE consumer.lost -> log
              [] ~consumer.lost /\ Ends(log, Torn) -> [log EXCEPT ![Len(log)] = Junk]
              [] OTHER -> Append(log, consumer.event.id)
  /\ Goes("handle")
  /\ UNCHANGED <<bus, published, stats, saved, skill, file, prune, crashes>>

Wanted(kind, streak) ==
  CASE kind = "other" -> <<>>
    [] kind = "exact" -> <<"up", "patch">>
    [] kind = "loose" -> <<"up", "create", "describe">>
    [] kind = "useful" -> <<"up">>
    [] kind = "useless" -> IF streak >= Streak THEN <<"down", "deprecate">> ELSE <<"down">>

Handle ==
  /\ consumer.pc = "handle"
  /\ LET e == consumer.event
         streak == IF e.kind = "useless" THEN stats.streak[e.skill] + 1
                   ELSE IF e.kind = "other" THEN stats.streak[e.skill] ELSE 0
     IN  /\ stats' = [processed |-> stats.processed + 1, streak |-> [stats.streak EXCEPT ![e.skill] = streak]]
         /\ consumer' = [consumer EXCEPT !.pc = "act", !.todo = Wanted(e.kind, streak)]
  /\ UNCHANGED <<bus, published, saved, skill, file, log, prune, crashes>>

\* adjust_confidence: in memory, and in a copy of the manifest on disk.
Adjust(n, conf) ==
  /\ skill' = [skill EXCEPT ![n].conf = conf]
  /\ file' = [file EXCEPT ![n].conf = conf, ![n].state = skill[n].state]

\* deprecate_skill writes the manifest with the confidence it was loaded with.
Deprecate(n) ==
  /\ skill' = [skill EXCEPT ![n].state = "deprecated"]
  /\ file' = [file EXCEPT ![n].state = "deprecated", ![n].conf = skill[n].base]

Patch(n) == skill' = [skill EXCEPT ![n].text = TRUE] /\ file' = [file EXCEPT ![n].text = TRUE]

\* create_skill writes the manifest first, the instructions next, and only
\* then registers the skill.
WriteManifest(n) ==
  /\ file' = IF skill[n].state = "none"
             THEN [file EXCEPT ![n] = [state |-> "live", conf |-> Default, text |-> FALSE]] ELSE file
  /\ UNCHANGED skill

WriteInstructions(n) ==
  IF skill[n].state = "none"
  THEN /\ file' = [file EXCEPT ![n].text = TRUE]
       /\ skill' = [skill EXCEPT ![n] = [state |-> "live", conf |-> Default, text |-> TRUE, base |-> Default]]
  ELSE UNCHANGED <<skill, file>>

\* execute_learning_actions, one write at a time.
Act ==
  /\ consumer.pc = "act" /\ consumer.todo # <<>>
  /\ LET n == consumer.event.skill
     IN  CASE Head(consumer.todo) = "up" -> Adjust(n, IF skill[n].conf < Top THEN skill[n].conf + 1 ELSE Top)
           [] Head(consumer.todo) = "down" -> Adjust(n, IF skill[n].conf > 0 THEN skill[n].conf - 1 ELSE 0)
           [] Head(consumer.todo) = "patch" -> Patch(n)
           [] Head(consumer.todo) = "create" -> WriteManifest(n + 1)
           [] Head(consumer.todo) = "describe" -> WriteInstructions(n + 1)
           [] OTHER -> Deprecate(n)
  /\ consumer' = [consumer EXCEPT !.todo = Tail(@)]
  /\ UNCHANGED <<bus, published, stats, saved, log, prune, crashes>>

\* The event is done with; every SaveEvery-th saves the statistics.
Count ==
  /\ consumer.pc = "act" /\ consumer.todo = <<>>
  /\ IF consumer.since + 1 >= SaveEvery
     THEN consumer' = [consumer EXCEPT !.pc = "save", !.since = 0]
     ELSE consumer' = [consumer EXCEPT !.pc = "idle", !.since = @ + 1, !.event = Nothing]
  /\ UNCHANGED <<bus, published, stats, saved, skill, file, log, prune, crashes>>

SaveStats ==
  /\ consumer.pc = "save"
  /\ saved' = stats
  /\ consumer' = [consumer EXCEPT !.pc = "idle", !.event = Nothing]
  /\ UNCHANGED <<bus, published, stats, skill, file, log, prune, crashes>>

\* At shutdown the statistics are saved once more.  Events left are not read.
Stop ==
  /\ consumer.pc = "idle" /\ consumer.stopping
  /\ saved' = stats /\ Goes("done")
  /\ UNCHANGED <<bus, published, stats, skill, file, log, prune, crashes>>

Consumer == Receive \/ AppendEvent \/ Handle \/ Act \/ Count \/ SaveStats

-----------------------------------------------------------------------------
(* The hourly pruning, the end of the process and its start                *)

IsEvent(line) == line \notin {Torn, Junk}
Events == {k \in DOMAIN log : IsEvent(log[k])}

\* The last MaxLog events are kept, in their order.
PruneRead ==
  /\ consumer.pc # "dead" /\ ~prune.on /\ Cardinality(Events) > MaxLog
  /\ \E at \in [1 .. MaxLog -> Events] :
       /\ \A j, k \in 1 .. MaxLog : j < k => at[j] < at[k]
       /\ \A e \in Events : e >= at[1] => \E j \in 1 .. MaxLog : e = at[j]
       /\ prune' = [on |-> TRUE, kept |-> [j \in 1 .. MaxLog |-> log[at[j]]]]
  /\ UNCHANGED <<bus, published, consumer, stats, saved, skill, file, log, crashes>>

PruneRename ==
  /\ consumer.pc # "dead" /\ prune.on
  /\ log' = prune.kept
  /\ prune' = [on |-> FALSE, kept |-> <<>>]
  /\ consumer' = [consumer EXCEPT !.lost = consumer.pc = "append"]
  /\ UNCHANGED <<bus, published, stats, saved, skill, file, crashes>>

Shutdown ==
  /\ consumer.pc \notin {"done", "dead"} /\ ~consumer.stopping
  /\ consumer' = [consumer EXCEPT !.stopping = TRUE]
  /\ UNCHANGED <<bus, published, stats, saved, skill, file, log, prune, crashes>>

\* Killed, maybe in the middle of a line of the log.
Crash(torn) ==
  /\ consumer.pc # "dead" /\ crashes < MaxCrashes
  /\ torn => consumer.pc = "append" /\ ~consumer.lost /\ ~Ends(log, Torn)
  /\ crashes' = crashes + 1
  /\ log' = IF torn THEN Append(log, Torn) ELSE log
  /\ consumer' = [Start EXCEPT !.pc = "dead"]
  /\ bus' = <<>> /\ prune' = [on |-> FALSE, kept |-> <<>>]
  /\ UNCHANGED <<published, stats, saved, skill, file>>

\* init_skill_registry and load_stats.
Restart ==
  /\ consumer.pc = "dead"
  /\ consumer' = Start /\ stats' = saved /\ skill' = Loaded(file)
  /\ UNCHANGED <<bus, published, saved, file, log, prune, crashes>>

Next ==
  \/ \E kind \in Kinds, n \in Skills : Publish(kind, n)
  \/ Consumer \/ Stop \/ PruneRead \/ PruneRename \/ Shutdown \/ Restart
  \/ \E torn \in BOOLEAN : Crash(torn)

Spec == Init /\ [][Next]_vars

-----------------------------------------------------------------------------
(* Properties                                                              *)

Up == consumer.pc # "dead"

\* A deprecated skill is deprecated on disk too, and stays so over changes of
\* its confidence, kills and restarts.
DeprecatedForGood ==
  /\ [](Up => \A n \in Skills : skill[n].state = "deprecated" <=> file[n].state = "deprecated")
  /\ [][\A n \in Skills : file[n].state = "deprecated" => file[n].state' = "deprecated"]_vars

\* Between two events the files hold what the registry says, the confidence
\* of deprecated skills aside.
FilesFollow ==
  consumer.pc \in {"idle", "done"} =>
    \A n \in Skills : skill[n].state = "live" =>
      file[n] = [state |-> "live", conf |-> skill[n].conf, text |-> skill[n].text]

\* A skill with so many failures in a row is never offered again, though the
\* statistics a restart reads lag behind.
StreakIsJudged ==
  consumer.pc \in {"idle", "done"} => \A n \in Skills : stats.streak[n] >= Streak => skill[n].state # "live"

\* A kill costs no more than SaveEvery events of the statistics, and a
\* shutdown none.
StatsBehind ==
  /\ stats.processed - saved.processed <= SaveEvery
  /\ consumer.pc = "done" => saved = stats

\* The log tells the events in the order they happened, none of them twice.
LogInOrder == \A j, k \in Events : j < k => log[j] < log[k]
=============================================================================
