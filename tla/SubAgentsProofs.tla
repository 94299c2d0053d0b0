-------------------------- MODULE SubAgentsProofs --------------------------
(* Proofs about SubAgents for every number of tasks, limit, overlap and set *)
(* of waiters.                                                              *)
EXTENDS SubAgents, FiniteSetTheorems, TLAPS

\* What an invariant of the table may cite of the constants.
LEMMA ConstantsTyped ==
  /\ MaxSpawns \in Nat /\ MaxTasks \in Nat /\ Overlap \in Nat
  /\ MaxTasks >= 1 /\ Overlap >= 1
  BY SubAgentAssumption

\* notify_one keeps the types, and wakes or leaves a permit for nobody but
\* the tasks it is called for.
LEMMA NotifyTyped ==
  ASSUME TypeOK, NEW ts \in SUBSET Tasks, NotifyEach(ts)
  PROVE  /\ permit' \in [Tasks -> BOOLEAN]
         /\ waiter' \in [Waiters -> {Idle} \cup [pc : {"looked", "parked", "woken"},
                                                  task : {t \in Tasks : spawn[t] # "none"}]]
         /\ \A w \in Waiters : waiter'[w].task = waiter[w].task
         /\ \A w \in Waiters : waiter[w] = Idle => waiter'[w] = Idle
         /\ \A w \in Waiters : waiter'[w].pc = "woken" =>
              waiter[w].pc = "woken" \/ waiter[w].task \in ts
         /\ \A t \in Tasks : permit'[t] => permit[t] \/ t \in ts
<1> DEFINE Waits == [pc : {"looked", "parked", "woken"}, task : {t \in Tasks : spawn[t] # "none"}]
<1>1. waiter \in [Waiters -> {Idle} \cup Waits] /\ permit \in [Tasks -> BOOLEAN]
  BY DEF TypeOK
<1>2. PICK woken \in SUBSET {w \in Waiters : waiter[w].pc = "parked" /\ waiter[w].task \in ts} :
        waiter' = [w \in Waiters |->
                     IF w \in woken THEN [waiter[w] EXCEPT !.pc = "woken"] ELSE waiter[w]]
  BY DEF NotifyEach
<1>3. ASSUME NEW w \in woken
      PROVE  /\ waiter[w] \in Waits
             /\ waiter'[w] \in Waits
             /\ waiter'[w].task = waiter[w].task
             /\ waiter[w].task \in ts
             /\ waiter[w] # Idle
  <2>1. waiter[w].pc = "parked" /\ waiter[w].task \in ts /\ w \in Waiters
    BY <1>2
  <2>2. waiter[w] \in Waits
    BY <1>1, <2>1 DEF Idle
  <2>3. waiter'[w] = [waiter[w] EXCEPT !.pc = "woken"]
    BY <1>2, <2>1
  <2> QED
    BY <2>1, <2>2, <2>3 DEF Idle
<1>4. ASSUME NEW w \in Waiters, w \notin woken
      PROVE  waiter'[w] = waiter[w]
  BY <1>2, <1>4
<1>5. waiter' \in [Waiters -> {Idle} \cup Waits]
  BY <1>1, <1>2, <1>3, <1>4
<1>6. permit' = [t \in Tasks |-> permit[t] \/ (t \in ts /\ Parked(t) = {})]
  BY DEF NotifyEach
<1> QED
  BY <1>1, <1>3, <1>4, <1>5, <1>6

-----------------------------------------------------------------------------
\* Nothing is in the table, and nobody is told anything, of a task that is
\* not registered.
UnregisteredIsAbsent ==
  \A t \in Tasks : spawn[t] \in {"none", "checked"} => status[t] = "absent" /\ ~permit[t]

\* Only a spawn_single that returned has left a handle.
HandleIsLast == \A t \in Tasks : handle[t] => spawn[t] = "returned"

\* A task cancelled by its handle is past spawn_single and does not go on.
CancelledLate ==
  \A t \in Tasks : status[t] = "Cancelled" /\ t \notin loose =>
    spawn[t] = "returned" /\ agent[t] # "suspended"

\* A verdict comes from an agent that is over.
VerdictIsLast ==
  \A t \in Tasks : status[t] = "Reported" =>
    spawn[t] \in {"running", "returned"} /\ agent[t] = "over"

\* The agent starts with the entry marked as running.
AgentIsStarted == \A t \in Tasks : agent[t] # "none" => spawn[t] \in {"running", "returned"}

\* A permit is left by a task that is over.
PermitIsSettled == \A t \in Tasks : permit[t] => t \notin Active \/ t \in loose

\* Who waits looked at an entry.
WaitsForRegistered ==
  \A w \in Waiters : waiter[w] # Idle => spawn[waiter[w].task] \notin {"none", "checked"}

\* The inductive invariant: types, the order of the locks, and what a
\* permit or a wake-up tells.
TableInv ==
  /\ TypeOK
  /\ UnregisteredIsAbsent
  /\ HandleIsLast
  /\ CancelledLate
  /\ VerdictIsLast
  /\ AgentIsStarted
  /\ PermitIsSettled
  /\ WaitsForRegistered
  /\ WokenIsSettled

\* An empty table.
LEMMA TableInvInit == Init => TableInv
  BY DEF Init, TableInv, TypeOK, UnregisteredIsAbsent, HandleIsLast, CancelledLate,
         VerdictIsLast, AgentIsStarted, PermitIsSettled, WaitsForRegistered, WokenIsSettled, Idle

\* Every step keeps the table's invariant.
LEMMA TableInvStep == TableInv /\ [Next]_vars => TableInv'
<1> SUFFICES ASSUME TableInv, [Next]_vars
             PROVE  TableInv'
  OBVIOUS
<1> USE DEF TableInv
<1>1. CASE \E t \in Tasks : CheckLimit(t)
  <2> PICK t \in Tasks : CheckLimit(t)
    BY <1>1
  <2>1. status[t] = "absent" /\ ~permit[t] /\ spawn[t] = "none" /\ agent[t] = "none"
    BY DEF CheckLimit, UnregisteredIsAbsent, AgentIsStarted, TypeOK
  <2>2. TypeOK'
    BY DEF CheckLimit, TypeOK, table, Idle
  <2> QED
    BY <2>1, <2>2 DEF CheckLimit, table, TypeOK, UnregisteredIsAbsent, HandleIsLast, CancelledLate,
       VerdictIsLast, AgentIsStarted, PermitIsSettled, WaitsForRegistered, WokenIsSettled, Active
<1>2. CASE \E t \in Tasks : Register(t)
  <2> PICK t \in Tasks : Register(t)
    BY <1>2
  <2>1. TypeOK'
    BY DEF Register, TypeOK, Idle
  <2>2. ~permit[t] /\ \A w \in Waiters : waiter[w] # Idle => waiter[w].task # t
    BY DEF Register, UnregisteredIsAbsent, WaitsForRegistered
  <2>3. \A w \in Waiters : waiter[w].pc = "woken" => waiter[w] # Idle
    BY DEF Idle
  <2> QED
    BY <2>1, <2>2, <2>3 DEF Register, TypeOK, UnregisteredIsAbsent, HandleIsLast, CancelledLate,
       VerdictIsLast, AgentIsStarted, PermitIsSettled, WaitsForRegistered, WokenIsSettled, Active
<1>3. CASE \E t \in Tasks : Start(t)
  <2> PICK t \in Tasks : Start(t)
    BY <1>3
  <2>1. TypeOK'
    BY DEF Start, TypeOK, Idle
  <2>2. status[t] # "Reported" /\ (status[t] = "Cancelled" => t \in loose)
    BY DEF Start, VerdictIsLast, CancelledLate
  <2>3. t \in Active' => t \in Active \/ t \in loose
    BY <2>2 DEF Start, Active, Present, Terminal, TypeOK
  <2> QED
    BY <2>1, <2>2, <2>3 DEF Start, TypeOK, UnregisteredIsAbsent, HandleIsLast, CancelledLate,
       VerdictIsLast, AgentIsStarted, PermitIsSettled, WaitsForRegistered, WokenIsSettled, Active
<1>4. CASE \E t \in Tasks : StoreHandle(t)
  <2> PICK t \in Tasks : StoreHandle(t)
    BY <1>4
  <2>1. TypeOK'
    BY DEF StoreHandle, TypeOK, Idle
  <2> QED
    BY <2>1 DEF StoreHandle, TypeOK, UnregisteredIsAbsent, HandleIsLast, CancelledLate,
       VerdictIsLast, AgentIsStarted, PermitIsSettled, WaitsForRegistered, WokenIsSettled, Active
<1>5. CASE \E t \in Tasks : EndRun(t)
  <2> PICK t \in Tasks : EndRun(t)
    BY <1>5
  <2>1. TypeOK'
    BY DEF EndRun, TypeOK, table, Idle
  <2> QED
    BY <2>1 DEF EndRun, table, TypeOK, UnregisteredIsAbsent, HandleIsLast, CancelledLate,
       VerdictIsLast, AgentIsStarted, PermitIsSettled, WaitsForRegistered, WokenIsSettled, Active
<1>6. CASE \E t \in Tasks : Report(t)
  <2> PICK t \in Tasks : Report(t)
    BY <1>6
  <2>1. TypeOK'
    BY NotifyTyped DEF Report, Verdict, TypeOK, Idle
  <2>2. t \notin Active'
    BY DEF Report, Verdict, Active, Present, Terminal, TypeOK
  <2>3. /\ \A w \in Waiters : waiter'[w].task = waiter[w].task
        /\ \A w \in Waiters : waiter[w] = Idle => waiter'[w] = Idle
        /\ \A w \in Waiters : waiter'[w].pc = "woken" => waiter[w].pc = "woken" \/ waiter[w].task = t
        /\ \A u \in Tasks : permit'[u] => permit[u] \/ u = t
    BY NotifyTyped DEF Report
  <2>4. spawn[t] \in {"running", "returned"}
    BY DEF Report, AgentIsStarted, TypeOK
  <2>5. Active' \subseteq Active
    BY DEF Report, Verdict, Active, TypeOK
  <2>6. WaitsForRegistered'
    BY <2>3 DEF Report, WaitsForRegistered
  <2>7. PermitIsSettled' /\ WokenIsSettled'
    BY <2>2, <2>3, <2>5 DEF Report, PermitIsSettled, WokenIsSettled, TypeOK
  <2>8. UnregisteredIsAbsent' /\ AgentIsStarted' /\ HandleIsLast'
    BY <2>3, <2>4 DEF Report, Verdict, UnregisteredIsAbsent, AgentIsStarted, HandleIsLast, TypeOK
  <2>9. CancelledLate' /\ VerdictIsLast'
    BY <2>4 DEF Report, Verdict, CancelledLate, VerdictIsLast, Present, Terminal, Active, TypeOK
  <2> QED
    BY <2>1, <2>6, <2>7, <2>8, <2>9
<1>7. CASE \E t \in Tasks : DropAborted(t)
  <2> PICK t \in Tasks : DropAborted(t)
    BY <1>7
  <2>1. TypeOK'
    BY DEF DropAborted, TypeOK, table, Idle
  <2> QED
    BY <2>1 DEF DropAborted, table, TypeOK, UnregisteredIsAbsent, HandleIsLast, CancelledLate,
       VerdictIsLast, AgentIsStarted, PermitIsSettled, WaitsForRegistered, WokenIsSettled, Active
<1>8. ASSUME NEW ts \in SUBSET Active, Abort(ts)
      PROVE  TableInv'
  <2>1. /\ \A w \in Waiters : waiter'[w].task = waiter[w].task
        /\ \A w \in Waiters : waiter[w] = Idle => waiter'[w] = Idle
        /\ \A w \in Waiters : waiter'[w].pc = "woken" => waiter[w].pc = "woken" \/ waiter[w].task \in ts
        /\ \A u \in Tasks : permit'[u] => permit[u] \/ u \in ts
        /\ ts \subseteq Tasks
    BY <1>8, NotifyTyped DEF Abort, Active
  <2>2. \A a \in {"none", "suspended", "ending", "doomed", "over"} :
          /\ Aborted(a) \in {"none", "suspended", "ending", "doomed", "over"}
          /\ Aborted(a) # "suspended"
          /\ Aborted(a) # "none" => a # "none"
          /\ a = "over" => Aborted(a) = "over"
    BY DEF Aborted
  <2>3. TypeOK'
    BY <1>8, <2>1, <2>2, NotifyTyped DEF Abort, TypeOK, Idle
  <2>4. Active' \subseteq Active /\ \A t \in ts : t \notin Active'
    BY <1>8, <2>1 DEF Abort, Active, TypeOK
  <2>5. \A t \in ts : spawn[t] \notin {"none", "checked"}
    BY <1>8, <2>1 DEF UnregisteredIsAbsent, Active
  <2>6. WaitsForRegistered'
    BY <1>8, <2>1 DEF Abort, WaitsForRegistered
  <2>10. UnregisteredIsAbsent'
    BY <1>8, <2>1, <2>5 DEF Abort, UnregisteredIsAbsent
  <2>7. HandleIsLast' /\ CancelledLate'
    BY <1>8, <2>1, <2>2 DEF Abort, HandleIsLast, CancelledLate, TypeOK
  <2>8. VerdictIsLast' /\ AgentIsStarted'
    BY <1>8, <2>1, <2>2 DEF Abort, VerdictIsLast, AgentIsStarted, TypeOK
  <2>9. PermitIsSettled' /\ WokenIsSettled'
    BY <1>8, <2>1, <2>4 DEF Abort, PermitIsSettled, WokenIsSettled, TypeOK
  <2> QED
    BY <2>3, <2>6, <2>7, <2>8, <2>9, <2>10
<1>9. CASE (\E t \in Tasks : Cancel(t)) \/ TerminateAll
  <2>1. ASSUME NEW t \in Tasks, Cancel(t)
        PROVE  {t} \in SUBSET Active /\ Abort({t})
    BY <2>1 DEF Cancel
  <2> QED
    BY <1>8, <1>9, <2>1 DEF TerminateAll
<1>10. CASE CleanupCompleted
  <2>1. TypeOK'
    BY <1>10 DEF CleanupCompleted, TypeOK, Terminal, Held, Idle
  <2>2. Active' = Active /\ \A t \in Terminal : t \notin Active
    BY <1>10 DEF CleanupCompleted, Active, Terminal, TypeOK
  <2>3. \A t \in Tasks : permit'[t] => permit[t]
    BY <1>10 DEF CleanupCompleted, TypeOK
  <2>4. PermitIsSettled' /\ WokenIsSettled'
    BY <1>10, <2>2, <2>3 DEF CleanupCompleted, PermitIsSettled, WokenIsSettled
  <2>5. UnregisteredIsAbsent' /\ HandleIsLast' /\ WaitsForRegistered' /\ AgentIsStarted'
    BY <1>10, <2>3 DEF CleanupCompleted, UnregisteredIsAbsent, HandleIsLast, WaitsForRegistered,
       AgentIsStarted, TypeOK
  <2>6. CancelledLate' /\ VerdictIsLast'
    BY <1>10 DEF CleanupCompleted, CancelledLate, VerdictIsLast, Terminal, TypeOK
  <2> QED
    BY <2>1, <2>4, <2>5, <2>6
<1>11. CASE \E w \in Waiters : Waiting(w)
  <2> PICK w \in Waiters : Waiting(w)
    BY <1>11
  <2>1. CASE \E t \in Tasks : Look(w, t)
    <3> PICK t \in Tasks : Look(w, t)
      BY <2>1
    <3>1. spawn[t] \notin {"none", "checked"}
      BY DEF Look, UnregisteredIsAbsent, Active
    <3>2. TypeOK'
      BY <3>1 DEF Look, TypeOK, table, Idle
    <3> QED
      BY <3>1, <3>2 DEF Look, table, TypeOK, UnregisteredIsAbsent, HandleIsLast, CancelledLate,
         VerdictIsLast, AgentIsStarted, PermitIsSettled, WaitsForRegistered, WokenIsSettled, Active
  <2>2. CASE Park(w)
    <3>1. waiter[w] \in [pc : {"looked", "parked", "woken"}, task : {t \in Tasks : spawn[t] # "none"}]
      BY <2>2 DEF Park, TypeOK, Idle
    <3>2. \E p \in {"woken", "parked"} :
            /\ waiter' = [waiter EXCEPT ![w].pc = p]
            /\ p = "woken" => permit[waiter[w].task]
      BY <2>2 DEF Park
    <3>3. waiter'[w].task = waiter[w].task /\ waiter[w] # Idle
      BY <2>2, <3>1, <3>2 DEF Idle, TypeOK, Park
    <3>4. TypeOK'
      BY <2>2, <3>1, <3>2 DEF Park, TypeOK, Idle
    <3>5. WokenIsSettled' /\ WaitsForRegistered'
      BY <2>2, <3>1, <3>2, <3>3 DEF Park, WokenIsSettled, WaitsForRegistered, PermitIsSettled,
         Active, TypeOK
    <3>6. \A t \in Tasks : permit'[t] => permit[t]
      BY <2>2 DEF Park, TypeOK
    <3> QED
      BY <2>2, <3>4, <3>5, <3>6 DEF Park, UnregisteredIsAbsent, HandleIsLast, CancelledLate,
         VerdictIsLast, AgentIsStarted, PermitIsSettled, Active
  <2>3. CASE WaitTimesOut(w) \/ Return(w)
    <3>1. waiter' = [waiter EXCEPT ![w] = Idle] /\ UNCHANGED <<table, spawn, agent, loose>>
      BY <2>3 DEF WaitTimesOut, Return
    <3>2. TypeOK'
      BY <3>1 DEF TypeOK, table, Idle
    <3> QED
      BY <3>1, <3>2 DEF table, TypeOK, UnregisteredIsAbsent, HandleIsLast, CancelledLate, Idle,
         VerdictIsLast, AgentIsStarted, PermitIsSettled, WaitsForRegistered, WokenIsSettled, Active
  <2> QED
    BY <2>1, <2>2, <2>3 DEF Waiting
<1>12. CASE UNCHANGED vars
  BY <1>12 DEF vars, table, TypeOK, UnregisteredIsAbsent, HandleIsLast, CancelledLate,
     VerdictIsLast, AgentIsStarted, PermitIsSettled, WaitsForRegistered, WokenIsSettled, Active
<1> QED
  BY <1>1, <1>2, <1>3, <1>4, <1>5, <1>6, <1>7, <1>9, <1>10, <1>11, <1>12
     DEF Next, Spawning, Running

-----------------------------------------------------------------------------
\* Sets of tasks can be counted.
LEMMA TasksFinite ==
  ASSUME NEW S \in SUBSET Tasks
  PROVE  IsFiniteSet(S) /\ Cardinality(S) \in Nat
<1>1. IsFiniteSet(Tasks)
  BY ConstantsTyped, FS_Interval DEF Tasks
<1>2. IsFiniteSet(S)
  BY <1>1, FS_Subset
<1> QED
  BY <1>2, FS_CardinalityType

\* A spawn that passes the limit: the sum of the two bounds it has seen.
LEMMA SlotBoundCheck ==
  ASSUME TypeOK, NEW t \in Tasks, CheckLimit(t)
  PROVE  SlotBound'
<1>1. (Active \cup Starting)' = (Active \cup Starting) \cup {t}
  BY DEF CheckLimit, TypeOK, Active, Starting, table
<1>2. /\ Active \in SUBSET Tasks /\ Starting \in SUBSET InCall /\ InCall \in SUBSET Tasks
      /\ Starting \in SUBSET Tasks /\ (Active \cup Starting) \in SUBSET Tasks
      /\ (Active \cap Starting) \in SUBSET Tasks
  BY DEF Active, Starting, InCall
<1>3. Cardinality(Active) < MaxTasks /\ Cardinality(InCall) < Overlap
  BY DEF CheckLimit, UnderLimit
<1>4. Cardinality(Starting) <= Cardinality(InCall)
  BY <1>2, TasksFinite, FS_Subset
<1>5. Cardinality(Active \cup Starting)
        = Cardinality(Active) + Cardinality(Starting) - Cardinality(Active \cap Starting)
  BY <1>2, TasksFinite, FS_Union
<1>6. Cardinality((Active \cup Starting) \cup {t}) <= Cardinality(Active \cup Starting) + 1
  <2>1. Cardinality((Active \cup Starting) \cup {t})
          = IF t \in Active \cup Starting THEN Cardinality(Active \cup Starting)
            ELSE Cardinality(Active \cup Starting) + 1
    BY <1>2, TasksFinite, FS_AddElement
  <2> QED
    BY <1>2, <2>1, TasksFinite
<1>7. /\ Cardinality(Active) \in Nat /\ Cardinality(Starting) \in Nat
      /\ Cardinality(InCall) \in Nat /\ Cardinality(Active \cap Starting) \in Nat
      /\ Cardinality(Active \cup Starting) \in Nat
      /\ Cardinality((Active \cup Starting) \cup {t}) \in Nat
  BY <1>2, TasksFinite
<1>8. Cardinality((Active \cup Starting) \cup {t}) <= MaxTasks + Overlap - 1
  BY <1>3, <1>4, <1>5, <1>6, <1>7, ConstantsTyped
<1> QED
  BY <1>1, <1>8 DEF SlotBound

\* No other step adds a task to those that count or are about to.
LEMMA SlotBoundKept ==
  ASSUME TypeOK, SlotBound, (Active \cup Starting)' \subseteq Active \cup Starting
  PROVE  SlotBound'
<1>1. Active \cup Starting \in SUBSET Tasks
  BY DEF Active, Starting
<1>2. Cardinality((Active \cup Starting)') <= Cardinality(Active \cup Starting)
  BY <1>1, TasksFinite, FS_Subset
<1>3. Cardinality((Active \cup Starting)') \in Nat /\ Cardinality(Active \cup Starting) \in Nat
  BY <1>1, TasksFinite
<1> QED
  BY <1>2, <1>3, ConstantsTyped DEF SlotBound

\* No task holds a slot.
LEMMA SlotBoundInit == Init => SlotBound
<1> SUFFICES ASSUME Init PROVE SlotBound
  OBVIOUS
<1>1. Active \cup Starting = {}
  BY DEF Init, Active, Starting
<1>2. Cardinality({}) = 0
  BY FS_EmptySet
<1> QED
  BY <1>1, <1>2, ConstantsTyped DEF SlotBound

\* Every step keeps the bound on the slots.
LEMMA SlotBoundStep == TableInv /\ SlotBound /\ [Next]_vars => SlotBound'
<1> SUFFICES ASSUME TableInv, SlotBound, [Next]_vars
             PROVE  SlotBound'
  OBVIOUS
<1> USE DEF TableInv
<1>1. CASE \E t \in Tasks : CheckLimit(t)
  BY <1>1, SlotBoundCheck
<1>2. ASSUME ~ \E t \in Tasks : CheckLimit(t)
      PROVE  (Active \cup Starting)' \subseteq Active \cup Starting
  <2>1. ASSUME NEW t \in Tasks, Register(t) \/ Start(t) \/ StoreHandle(t)
        PROVE  (Active \cup Starting)' \subseteq Active \cup Starting
    BY <2>1 DEF Register, Start, StoreHandle, Active, Starting, TypeOK
  <2>2. ASSUME NEW t \in Tasks, Running(t)
        PROVE  (Active \cup Starting)' \subseteq Active \cup Starting
    BY <2>2 DEF Running, EndRun, Report, DropAborted, Verdict, Active, Starting, table, TypeOK
  <2>3. ASSUME NEW ts \in SUBSET Active, Abort(ts)
        PROVE  (Active \cup Starting)' \subseteq Active \cup Starting
    BY <2>3 DEF Abort, Active, Starting, TypeOK
  <2>4. CASE (\E t \in Tasks : Cancel(t)) \/ TerminateAll
    BY <2>3, <2>4 DEF Cancel, TerminateAll
  <2>5. CASE CleanupCompleted
    BY <2>5 DEF CleanupCompleted, Active, Starting, TypeOK
  <2>6. ASSUME NEW w \in Waiters, Waiting(w)
        PROVE  (Active \cup Starting)' \subseteq Active \cup Starting
    BY <2>6 DEF Waiting, Look, Park, WaitTimesOut, Return, table, Active, Starting
  <2>7. CASE UNCHANGED vars
    BY <2>7 DEF vars, table, Active, Starting
  <2> QED
    BY <1>2, <2>1, <2>2, <2>4, <2>5, <2>6, <2>7 DEF Next, Spawning
<1> QED
  BY <1>1, <1>2, SlotBoundKept

-----------------------------------------------------------------------------
\* The types hold in every reachable state, for every value of the constants.
THEOREM TypeCorrect == Spec => []TypeOK
<1>1. TableInv => TypeOK
  BY DEF TableInv
<1> QED
  BY <1>1, TableInvInit, TableInvStep, PTL DEF Spec

\* max_tasks is overshot by the overlapping calls at most.
THEOREM SlotsBounded == Spec => []SlotBound
<1>1. TableInv /\ SlotBound /\ [Next]_vars => (TableInv /\ SlotBound)'
  BY TableInvStep, SlotBoundStep
<1>2. Init => TableInv /\ SlotBound
  BY TableInvInit, SlotBoundInit
<1>3. TableInv /\ SlotBound => SlotBound
  OBVIOUS
<1> QED
  BY <1>1, <1>2, <1>3, PTL DEF Spec

\* A task cancelled by its handle makes no further call.
THEOREM CancelEndsWork == Spec => []CancelStopsWork
<1>1. TableInv => CancelStopsWork
  BY DEF TableInv, CancelledLate, CancelStopsWork
<1> QED
  BY <1>1, TableInvInit, TableInvStep, PTL DEF Spec

\* A wake-up tells that the task is over, but for one cancelled while it was
\* being spawned.
THEOREM WakeUpsAreTrue == Spec => []WokenIsSettled
<1>1. TableInv => WokenIsSettled
  BY DEF TableInv
<1> QED
  BY <1>1, TableInvInit, TableInvStep, PTL DEF Spec

\* No step replaces a result.
LEMMA ResultStandsStep ==
  ASSUME TableInv, [Next]_vars, NEW t \in Tasks, status[t] = "Reported"
  PROVE  status'[t] \in {"Reported", "absent"}
<1> USE DEF TableInv
<1>1. /\ spawn[t] \in {"running", "returned"} /\ agent[t] = "over" /\ t \notin Active
  BY DEF VerdictIsLast, Active
<1>2. ASSUME NEW u \in Tasks, Spawning(u) \/ Running(u)
      PROVE  status'[t] \in {"Reported", "absent"}
  BY <1>1, <1>2 DEF Spawning, CheckLimit, Register, Start, StoreHandle, Running, EndRun, Report,
     Verdict, DropAborted, table, TypeOK
<1>3. ASSUME NEW ts \in SUBSET Active, Abort(ts)
      PROVE  status'[t] \in {"Reported", "absent"}
  BY <1>1, <1>3 DEF Abort
<1>4. CASE (\E u \in Tasks : Cancel(u)) \/ TerminateAll
  BY <1>3, <1>4 DEF Cancel, TerminateAll
<1>5. CASE CleanupCompleted
  BY <1>5 DEF CleanupCompleted
<1>6. ASSUME NEW w \in Waiters, Waiting(w)
      PROVE  status'[t] \in {"Reported", "absent"}
  BY <1>6 DEF Waiting, Look, Park, WaitTimesOut, Return, table
<1>7. CASE UNCHANGED vars
  BY <1>7 DEF vars, table
<1> QED
  BY <1>2, <1>4, <1>5, <1>6, <1>7 DEF Next

\* A result that can be read stays until it is cleaned up.
THEOREM ResultsStand == Spec => ResultStands
<1>1. TableInv /\ [Next]_vars =>
        [\A t \in Tasks : status[t] = "Reported" => status'[t] \in {"Reported", "absent"}]_vars
  BY ResultStandsStep
<1> QED
  BY <1>1, TableInvInit, TableInvStep, PTL DEF Spec, ResultStands
=============================================================================
