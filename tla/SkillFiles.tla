---------------------------- MODULE SkillFiles ----------------------------
(***************************************************************************)
(* kestrel-tools' SkillLoader: markdown files, a cache of what was parsed  *)
(* from them keyed by path and checked by content, an index by name, and a *)
(* watcher of the directory.  The files change while they are loaded.      *)
(*                                                                         *)
(* A skill is its name and what it depends on; files are read in the order *)
(* of their paths.  Equal hashes are taken for equal contents.             *)
(***************************************************************************)
EXTENDS Integers

CONSTANTS
  Files,     \* a set of positive numbers: the paths, in their order
  Names,     \* the names of skills
  Contents,  \* what a file may hold: records of a name and what it needs
  Broken,    \* a content that cannot be parsed
  MaxChanges \* bound: changes of the directory

FilesAssumption ==
  /\ Files \subseteq Nat \ {0} /\ MaxChanges \in Nat
  /\ \A c \in Contents : c.name \in Names /\ c.needs \subseteq Names
  /\ Broken \notin Contents

VARIABLES
  root,       \* the directory: there, unreadable or missing
  disk,       \* what the files hold
  cache,      \* content_hash and skill of each path
  byName,     \* by_name: each skill with the file it came from
  dependents, \* who depends on each name
  watcher,    \* whether it is on, and its buffered paths
  load,       \* load_all: where it is
  changes

vars == <<root, disk, cache, byName, dependents, watcher, load, changes>>

Absent == [name |-> "", needs |-> {}]
None == [from |-> 0, needs |-> {}]
NoSkills == [n \in Names |-> None]
Held == Contents \union {Absent, Broken}
Idle == [pc |-> "idle", rest |-> {}, found |-> NoSkills, quiet |-> TRUE]

Entries == [from : Files, needs : SUBSET Names] \union {None}

TypeOK ==
  /\ root \in {"there", "unreadable", "missing"}
  /\ disk \in [Files -> Held]
  /\ cache \in [Files -> Contents \union {Absent}]
  /\ byName \in [Names -> Entries]
  /\ dependents \in [Names -> SUBSET Names]
  /\ watcher \in [on : BOOLEAN, events : SUBSET Files]
  /\ load \in [pc : {"idle", "list", "read"}, rest : SUBSET Files, found : [Names -> Entries], quiet : BOOLEAN]
  /\ changes \in 0 .. MaxChanges

Init ==
  /\ root = "there" /\ disk = [f \in Files |-> Absent]
  /\ cache = [f \in Files |-> Absent] /\ byName = NoSkills
  /\ dependents = [n \in Names |-> {}]
  /\ watcher = [on |-> FALSE, events |-> {}] /\ load = Idle /\ changes = 0

-----------------------------------------------------------------------------
(* The directory                                                           *)

Stirs(fs) ==
  /\ changes < MaxChanges /\ changes' = changes + 1
  /\ watcher' = [watcher EXCEPT !.events = IF watcher.on THEN @ \union fs ELSE @]
  /\ load' = [load EXCEPT !.quiet = load.pc = "idle"]
  /\ UNCHANGED <<cache, byName, dependents>>

Write(f, content) ==
  /\ root # "missing" /\ disk[f] # content
  /\ disk' = [disk EXCEPT ![f] = content]
  /\ Stirs({f}) /\ UNCHANGED root

\* The directory cannot be listed for a while, or, unwatched, is taken away.
Root(state) ==
  /\ state # root /\ (state = "missing" => ~watcher.on)
  /\ root' = state
  /\ disk' = IF state = "missing" THEN [f \in Files |-> Absent] ELSE disk
  /\ Stirs({})

-----------------------------------------------------------------------------
(* Loading                                                                 *)

Holds(f) == disk[f] # Absent
Index(skills) == [n \in Names |-> {m \in Names : skills[m] # None /\ n \in skills[m].needs}]
Entry(f, content) == [from |-> f, needs |-> content.needs]

Load ==
  /\ load.pc = "idle"
  /\ load' = [Idle EXCEPT !.pc = "list"]
  /\ UNCHANGED <<root, disk, cache, byName, dependents, watcher, changes>>

\* The files are listed, and the cache forgets those that are gone.
List ==
  /\ load.pc = "list"
  /\ CASE root = "missing" ->
            /\ cache' = [f \in Files |-> Absent] /\ byName' = NoSkills
            /\ dependents' = Index(NoSkills) /\ load' = Idle
       [] root = "unreadable" -> load' = Idle /\ UNCHANGED <<cache, byName, dependents>>
       [] root = "there" ->
            /\ cache' = [f \in Files |-> IF Holds(f) THEN cache[f] ELSE Absent]
            /\ load' = [load EXCEPT !.pc = "read", !.rest = {f \in Files : Holds(f)}]
            /\ UNCHANGED <<byName, dependents>>
  /\ UNCHANGED <<root, disk, watcher, changes>>

\* Fault: what the cache has, whatever the file holds by now.
CachedSkill(f) == IF cache[f] # Absent THEN cache[f] ELSE disk[f]

\* What the cache has for this very content, or else what is parsed now.
Skill(f) == IF cache[f] = disk[f] THEN cache[f] ELSE disk[f]

\* A later file shadows an earlier one of the same name.
Read(f) ==
  /\ load.pc = "read" /\ f \in load.rest /\ \A g \in load.rest : f <= g
  /\ IF Holds(f) /\ disk[f] # Broken
     THEN /\ cache' = [cache EXCEPT ![f] = Skill(f)]
          /\ load' = [load EXCEPT !.rest = @ \ {f}, !.found[Skill(f).name] = Entry(f, Skill(f))]
     ELSE UNCHANGED cache /\ load' = [load EXCEPT !.rest = @ \ {f}]
  /\ UNCHANGED <<root, disk, byName, dependents, watcher, changes>>

Finish ==
  /\ load.pc = "read" /\ load.rest = {}
  /\ byName' = load.found /\ dependents' = Index(load.found)
  /\ load' = Idle
  /\ UNCHANGED <<root, disk, cache, watcher, changes>>

-----------------------------------------------------------------------------
(* Invalidation                                                            *)

Without(names) == [n \in Names |-> IF n \in names THEN None ELSE byName[n]]
Cached(fs) == {n \in Names : \E f \in fs : cache[f].name = n}

Forget(names, fs) ==
  /\ byName' = Without(names) /\ dependents' = Index(Without(names))
  /\ cache' = [f \in Files |-> IF f \in fs THEN Absent ELSE cache[f]]

\* invalidate_path for each path: one that is gone has no canonical form.
ForgetPaths(fs) == LET here == {f \in fs : Holds(f)} IN Forget(Cached(here), here)

InvalidatePath(f) ==
  /\ load.pc = "idle" /\ ForgetPaths({f})
  /\ UNCHANGED <<root, disk, watcher, load, changes>>

InvalidateAll ==
  /\ load.pc = "idle" /\ cache' = [f \in Files |-> Absent]
  /\ UNCHANGED <<root, disk, byName, dependents, watcher, load, changes>>

ForgetNames(names) ==
  LET known == {n \in names : byName[n] # None}
  IN  Forget(known, {byName[n].from : n \in known})

\* A name, or those of a category or a pattern: any set of names.
InvalidateNames(names) ==
  /\ load.pc = "idle" /\ ForgetNames(names)
  /\ UNCHANGED <<root, disk, watcher, load, changes>>

\* collect_dependents_recursive: who is in every set that has the name and, with
\* a skill, whoever depends on it.
Cascade(n) ==
  {m \in Names : \A S \in SUBSET Names : n \in S /\ (\A k \in S : dependents[k] \subseteq S) => m \in S}

InvalidateCascade(n) ==
  /\ load.pc = "idle" /\ ForgetNames(Cascade(n))
  /\ UNCHANGED <<root, disk, watcher, load, changes>>

-----------------------------------------------------------------------------
(* Reloading                                                               *)

StartWatcher ==
  /\ load.pc = "idle" /\ root # "missing" /\ ~watcher.on
  /\ watcher' = [on |-> TRUE, events |-> {}]
  /\ UNCHANGED <<root, disk, cache, byName, dependents, load, changes>>

StopWatcher ==
  /\ load.pc = "idle" /\ watcher.on
  /\ watcher' = [on |-> FALSE, events |-> {}]
  /\ UNCHANGED <<root, disk, cache, byName, dependents, load, changes>>

\* The buffered paths are drained and invalidated, then all is loaded.
Poll ==
  /\ load.pc = "idle" /\ watcher.on /\ watcher.events # {}
  /\ watcher' = [watcher EXCEPT !.events = {}]
  /\ ForgetPaths(watcher.events)
  /\ load' = [Idle EXCEPT !.pc = "list"]
  /\ UNCHANGED <<root, disk, changes>>

\* Without a watcher: the paths whose time of modification moved, which says
\* little of their contents, then all is loaded whatever they are.
Scan(moved) ==
  /\ load.pc = "idle" /\ ~watcher.on
  /\ \A f \in moved : cache[f] # Absent
  /\ ForgetPaths(moved)
  /\ load' = [Idle EXCEPT !.pc = "list"]
  /\ UNCHANGED <<root, disk, watcher, changes>>

Next ==
  \/ \E f \in Files, c \in Held : Write(f, c)
  \/ \E state \in {"there", "unreadable", "missing"} : Root(state)
  \/ \E f \in Files : Read(f) \/ InvalidatePath(f)
  \/ \E names \in SUBSET Names : InvalidateNames(names)
  \/ \E n \in Names : InvalidateCascade(n)
  \/ \E moved \in SUBSET Files : Scan(moved)
  \/ Load \/ List \/ Finish \/ InvalidateAll \/ StartWatcher \/ StopWatcher \/ Poll

Spec == Init /\ [][Next]_vars

-----------------------------------------------------------------------------
(* Properties                                                              *)

\* What the files say with no cache: the last file of a name is its skill.
Expected ==
  [n \in Names |->
     LET of == {f \in Files : Holds(f) /\ disk[f] # Broken /\ disk[f].name = n}
     IN  IF of = {} THEN None ELSE LET f == CHOOSE f \in of : \A g \in of : g <= f IN Entry(f, disk[f])]

\* The cache is never seen: a load finds what the files hold, unless they
\* changed under it, and then a watcher has the change in its buffer.
CacheIsUnseen ==
  [][Finish => \/ byName' = Expected \/ watcher.events # {}
               \/ ~watcher.on /\ ~load.quiet]_vars

\* After a cascade no skill is left that depends on the one it was for,
\* directly or through others, cycles or not.
CascadeIsComplete ==
  [][\A n, m \in Names : byName'[m] # None /\ InvalidateCascade(n) =>
       m # n /\ \A k \in byName[m].needs : byName[k] # None => byName'[k] # None]_vars
=============================================================================
