---------------------------- MODULE MemoryStore ----------------------------
(***************************************************************************)
(* TantivyStore: memory entries in an index, written through one writer    *)
(* and read through a reader that is reloaded by hand.                     *)
(*                                                                         *)
(* The index is external: changes collect in the writer, a commit makes    *)
(* all of them last, a commit that fails leaves them where they are, a     *)
(* kill takes them.  An operation awaits nothing but the writer's lock, so *)
(* it is one step.  Contents are versions; queries and scores are left     *)
(* out, as is the scan that turns entries away before all this.            *)
(***************************************************************************)
EXTENDS Integers, FiniteSets

CONSTANTS
  Ids, Versions,
  None,       \* no entry
  MaxEntries,
  MaxFailures \* of the index, over all operations

StoreAssumption ==
  IsFiniteSet(Ids) /\ None \notin Versions /\ {MaxEntries, MaxFailures} \subseteq Nat

Contents == [Ids -> Versions \union {None}]

VARIABLES
  staged,    \* what the writer would commit
  committed, \* what is on disk
  seen,      \* what the reader shows
  failures,
  told       \* history: what each entry may be, after what its callers were told

vars == <<staged, committed, seen, failures, told>>

TypeOK ==
  /\ {staged, committed, seen} \subseteq Contents /\ failures \in 0 .. MaxFailures
  /\ told \in [Ids -> SUBSET (Versions \union {None})]

Empty == [id \in Ids |-> None]
Count(contents) == Cardinality({id \in Ids : contents[id] # None})

Init ==
  /\ staged = Empty /\ committed = Empty /\ seen = Empty
  /\ failures = 0 /\ told = [id \in Ids |-> {None}]

Fail == failures < MaxFailures /\ failures' = failures + 1
MayNowBe(id, version) == told' = [told EXCEPT ![id] = @ \union {version}]

\* commit, then reload.
Committed(contents) ==
  committed' = contents /\ staged' = contents /\ seen' = contents /\ UNCHANGED failures
CommitFails(contents) ==
  Fail /\ staged' = contents /\ UNCHANGED <<committed, seen>>
ReloadFails(contents) ==
  Fail /\ committed' = contents /\ staged' = contents /\ UNCHANGED seen

Without(id) == [staged EXCEPT ![id] = None]
With(id, version) == [staged EXCEPT ![id] = version]

Full(id) == seen[id] = None /\ Count(seen) >= MaxEntries

\* The old entry is deleted first: whoever commits next makes that last.
TurnedAway(id) ==
  /\ Full(id)
  /\ staged' = Without(id) /\ MayNowBe(id, None)
  /\ UNCHANGED <<committed, seen, failures>>

NotAdded(id) ==
  /\ ~Full(id) /\ Fail
  /\ staged' = Without(id) /\ MayNowBe(id, None)
  /\ UNCHANGED <<committed, seen>>

Store(id, version) ==
  /\ ~Full(id)
  /\ \/ Committed(With(id, version)) /\ told' = [told EXCEPT ![id] = {version}]
     \/ (CommitFails(With(id, version)) \/ ReloadFails(With(id, version))) /\ MayNowBe(id, version)

Delete(id) ==
  \/ Committed(Without(id)) /\ told' = [told EXCEPT ![id] = {None}]
  \/ (CommitFails(Without(id)) \/ ReloadFails(Without(id))) /\ MayNowBe(id, None)

Clear ==
  \/ Committed(Empty) /\ told' = [id \in Ids |-> {None}]
  \/ /\ CommitFails(Empty) \/ ReloadFails(Empty)
     /\ told' = [id \in Ids |-> told[id] \union {None}]

\* The process is killed and opens the index again.
Reopen ==
  /\ staged' = committed /\ seen' = committed
  /\ UNCHANGED <<committed, failures, told>>

Next ==
  \/ Clear \/ Reopen
  \/ \E id \in Ids :
       Delete(id) \/ TurnedAway(id) \/ NotAdded(id) \/ \E version \in Versions : Store(id, version)

Spec == Init /\ [][Next]_vars

-----------------------------------------------------------------------------
(* Properties                                                              *)

\* What a caller was told is what the index holds and shows, over kills and the
\* failures of others: an entry that was stored stays until an operation on it
\* succeeds or fails (tantivy_store.rs:286).
KeptAsTold == \A id \in Ids : {committed[id], seen[id]} \subseteq told[id]

\* The index outgrows max_entries only by operations that failed half-way.
WithinCapacity == Count(committed) <= MaxEntries + failures

=============================================================================
