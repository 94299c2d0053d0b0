---------------------------- MODULE SkillOrder ----------------------------
(***************************************************************************)
(* dependency_order and resolve_dependencies of kestrel-tools' SkillLoader *)
(* over every graph of dependencies: cycles, repeated dependencies, and    *)
(* ones that are not loaded.  Names are numbers, compared as they sort.    *)
(***************************************************************************)
EXTENDS Integers, Sequences, FiniteSets, SequencesExt, FiniteSetsExt

CONSTANTS
  Names,  \* all names, numbers
  Missing, \* those that may turn out not to be loaded
  Repeats  \* how often a dependency may be listed

OrderAssumption == Names \subseteq Nat /\ Missing \subseteq Names /\ Repeats \subseteq Nat \ {0}

VARIABLES
  needs,  \* the dependencies each skill declares
  times,  \* how often it lists each
  loaded, \* by_name
  degree, \* in_degree: how many dependencies of a name are still ahead
  queue,  \* names that wait for nothing
  result

vars == <<needs, times, loaded, degree, queue, result>>

Ascending(S) == SetToSortSeq(S, <)
In(n) == needs[n] \intersect loaded

TypeOK ==
  /\ needs \in [Names -> SUBSET Names] /\ times \in Repeats
  /\ loaded \subseteq Names
  /\ \A n \in Names : degree[n] \in 0 .. times * Cardinality(Names)
  /\ ToSet(queue) \union ToSet(result) \subseteq loaded

Init ==
  /\ needs \in [Names -> SUBSET Names] /\ times \in Repeats
  /\ \E gone \in SUBSET Missing : loaded = Names \ gone
  /\ degree = [n \in Names |-> times * Cardinality(In(n))]
  /\ queue = Ascending({n \in loaded : In(n) = {}})
  /\ result = <<>>

\* Fault: the first dependency loaded releases a skill.
ReadyAtFirst(waiting) == waiting

\* Of the skills that wait for a name, those that wait for nothing after it:
\* each time n is listed among m's dependencies, m waits for one less.
Ready(waiting) == {m \in waiting : degree[m] <= times}

Pop ==
  /\ queue # <<>>
  /\ LET n == Head(queue)
         waiting == {m \in loaded : n \in needs[m]}
     IN  /\ degree' = [m \in Names |-> IF m \in waiting THEN degree[m] - times ELSE degree[m]]
         /\ queue' = Tail(queue) \o Ascending(Ready(waiting))
         /\ result' = Append(result, n)
  /\ UNCHANGED <<needs, times, loaded>>

\* What is left waits for itself: in any order.
BreakCycle ==
  /\ queue = <<>> /\ Len(result) < Cardinality(loaded)
  /\ \E rest \in SetToSeqs(loaded \ ToSet(result)) : result' = result \o rest
  /\ UNCHANGED <<needs, times, loaded, degree, queue>>

Next == Pop \/ BreakCycle
Spec == Init /\ [][Next]_vars

\* resolve_deps_recursive for one name after the other: post-order, with the
\* visited names.
Marks == [visited : Seq(Names), order : Seq(Names)]
Visit[ns \in Seq(Names), seen \in Marks] ==
  IF ns = <<>> THEN seen
  ELSE LET n == Head(ns)
           needed == IF n \in loaded THEN Ascending(needs[n]) ELSE <<>>
           below == Visit[needed, [seen EXCEPT !.visited = Append(@, n)]]
       IN  Visit[Tail(ns), IF n \in ToSet(seen.visited) THEN seen
                           ELSE [below EXCEPT !.order = Append(@, n)]]

Resolve(n) ==
  SelectSeq(Visit[<<n>>, [visited |-> <<>>, order |-> <<>>]].order, LAMBDA m : m # n)

-----------------------------------------------------------------------------
(* Properties                                                              *)

\* What n needs, directly or not, going through loaded skills only.
Below(n) ==
  LET more(S) == S \union UNION {needs[m] : m \in S \intersect loaded}
      reach[k \in 1 .. Cardinality(Names)] == IF k = 1 THEN IF n \in loaded THEN needs[n] ELSE {} ELSE more(reach[k - 1])
  IN  reach[Cardinality(Names)]

Cyclic(n) == \E m \in (Below(n) \union {n}) \intersect loaded : m \in Below(m)
Before(order, m, n) == \E j, k \in DOMAIN order : j < k /\ order[j] = m /\ order[k] = n

\* Every loaded skill comes once, and behind all it needs, but for those on
\* a cycle or above one.
OrderIsSafe ==
  /\ \A j, k \in DOMAIN result : result[j] = result[k] => j = k
  /\ \A k \in DOMAIN result : Cyclic(result[k]) \/ \A m \in In(result[k]) : Before(result, m, result[k])

\* A skill's resolved dependencies are what it needs, each once, and in an
\* order to load them in when there is no cycle.
ResolvedInOrder ==
  \A n \in loaded :
    /\ ToSet(Resolve(n)) = Below(n) \ {n} /\ Len(Resolve(n)) = Cardinality(Below(n) \ {n})
    /\ ~Cyclic(n) => \A m \in Below(n) : \A k \in Below(m) : m \in loaded => Before(Resolve(n), k, m)
=============================================================================
