--------------------------- MODULE ServiceProofs ---------------------------
(***************************************************************************)
(* Proofs about the services that run beside the turns: the PID file of    *)
(* the daemon, the cron scheduler, the heartbeat, the memory store, the    *)
(* chat settings, what is learned about skills and the skills' files.      *)
(* Each part speaks of one of them, as the instance that Services has of   *)
(* it; the last puts them together with what TurnProofs shows.             *)
(***************************************************************************)
EXTENDS Services, TurnProofs

\* What is proved below needs nothing of the fairness that some modules state.
LockSafety == Lock!Init /\ [][Lock!Next]_(Lock!vars)
CronSafety == Cron!Init /\ [][Cron!Next]_(Cron!vars)
PulseSafety == Pulse!Init /\ [][Pulse!Next]_(Pulse!vars)

-----------------------------------------------------------------------------
(* DaemonLock: one daemon, unless a file is unlinked under another process  *)


LockTyped ==
  /\ lProc \in [Starts -> {"none", "check", "remove", "open", "lock", "write",
                           "run", "release", "unlink", "dead"}]
  /\ lHandle \in [Starts -> Starts \union {0}]
  /\ lPath \in Starts \union {0}
  /\ lContent \in [Starts -> Starts \union {0}]
  /\ lHolder \in [Starts -> Starts \union {0}]
  /\ lCommand \in {"none", "stop", "signal", "status", "remove"}
  /\ lTarget \in Starts \union {0}

Locked(p) == lProc[p] \in {"write", "run", "release"}

\* A process that has the lock has the file open that it locked, and whoever is
\* recorded as the holder of a file is such a process.
HoldersHold ==
  /\ \A p \in Starts : Lock!HasOpen(p) => lHandle[p] \in Starts
  /\ \A p \in Starts : Locked(p) => lHolder[lHandle[p]] = p
  /\ \A i \in Starts : lHolder[i] # 0 => Locked(lHolder[i]) /\ lHandle[lHolder[i]] = i

\* As long as no file was unlinked under a process, all have the same one open.
OneFile == lStolen \/ \A p \in Starts : Lock!HasOpen(p) => lHandle[p] = lPath

LockInv == LockTyped /\ HoldersHold /\ OneFile

\* No process runs at first, and there is no file.
LEMMA LockInvInit == ASSUME Lock!DaemonAssumption, Lock!Init PROVE LockInv
BY DEF Lock!DaemonAssumption, Lock!Init, LockInv, LockTyped, HoldersHold,
   OneFile, Locked, Lock!HasOpen, Lock!NoInode, Lock!Inodes, Lock!Empty

\* A step of a process or of a command keeps the types.
LEMMA LockKeepsTyped ==
  ASSUME Lock!DaemonAssumption, LockInv, [Lock!Next]_(Lock!vars)
  PROVE  LockTyped'
<1> USE DEF LockInv, LockTyped, Lock!Goes, Lock!Inodes, Lock!NoInode,
        Lock!Empty, Lock!Alive, Lock!Remove, Lock!files, Lock!cli
<1>1. CASE \E p \in Starts : \/ Lock!Start(p) \/ Lock!Check(p)
                             \/ Lock!RemoveStale(p) \/ Lock!Open(p)
  BY <1>1 DEF Lock!Start, Lock!Check, Lock!RemoveStale, Lock!Open
<1>2. CASE \E p \in Starts : \/ Lock!Lock(p) \/ Lock!WritePid(p)
                             \/ Lock!Shutdown(p) \/ Lock!Release(p)
                             \/ Lock!Unlink(p) \/ Lock!Crash(p)
  BY <1>2 DEF Lock!Lock, Lock!WritePid, Lock!Shutdown, Lock!Release,
     Lock!Unlink, Lock!Crash, Lock!Unlocked, Lock!HasOpen, HoldersHold,
     Lock!MayLock
<1>3. CASE \/ \E kind \in {"stop", "status"} : Lock!Command(kind)
           \/ Lock!LookAt \/ Lock!Signal \/ Lock!RemoveFile
  BY <1>3 DEF Lock!Command, Lock!LookAt, Lock!Signal, Lock!RemoveFile
<1>4. CASE UNCHANGED Lock!vars
  BY <1>4 DEF Lock!vars
<1>5. QED
  BY <1>1, <1>2, <1>3, <1>4 DEF Lock!Next, Lock!Starting

\* Each step moves one process at most; it takes a lock that nobody holds, and
\* gives back only its own.
LEMMA HoldersKeep ==
  ASSUME Lock!DaemonAssumption, LockInv, [Lock!Next]_(Lock!vars)
  PROVE  HoldersHold'
<1> USE DEF LockInv, LockTyped, HoldersHold, Locked, Lock!HasOpen, Lock!Goes,
        Lock!Inodes, Lock!NoInode, Lock!Remove, Lock!files, Lock!cli
<1>1. ASSUME NEW p \in Starts,
             \/ Lock!Start(p) \/ Lock!Check(p) \/ Lock!RemoveStale(p)
             \/ Lock!WritePid(p) \/ Lock!Shutdown(p) \/ Lock!Unlink(p)
      PROVE  HoldersHold'
  BY <1>1 DEF Lock!Start, Lock!Check, Lock!RemoveStale, Lock!WritePid,
     Lock!Shutdown, Lock!Unlink
<1>2. ASSUME NEW p \in Starts, Lock!Open(p)
      PROVE  HoldersHold'
  BY <1>2 DEF Lock!Open
<1>3. ASSUME NEW p \in Starts, Lock!Lock(p)
      PROVE  HoldersHold'
  BY <1>3 DEF Lock!Lock, Lock!MayLock, Lock!DaemonAssumption
<1>4. ASSUME NEW p \in Starts, Lock!Release(p) \/ Lock!Crash(p)
      PROVE  HoldersHold'
  <2>1. /\ lHandle' = lHandle /\ ~Locked(p)' /\ ~Lock!HasOpen(p)'
        /\ \A q \in Starts \ {p} : lProc'[q] = lProc[q]
        /\ \A i \in Starts : lHolder'[i] = IF lHolder[i] = p THEN 0 ELSE lHolder[i]
    BY <1>4 DEF Lock!Release, Lock!Crash, Lock!Unlocked
  <2>2. p # 0
    BY DEF Lock!DaemonAssumption
  <2>3. ASSUME NEW q \in Starts, Lock!HasOpen(q)'
        PROVE  lHandle'[q] \in Starts
    BY <2>1, <2>3
  <2>4. ASSUME NEW q \in Starts, Locked(q)'
        PROVE  lHolder'[lHandle'[q]] = q
    <3>1. q # p /\ lProc'[q] = lProc[q] /\ Locked(q)
      BY <2>1, <2>4
    <3>2. lHolder[lHandle[q]] = q /\ lHandle[q] \in Starts
      BY <3>1
    <3>3. QED
      BY <2>1, <3>1, <3>2
  <2>5. ASSUME NEW i \in Starts, lHolder'[i] # 0
        PROVE  (Locked(lHolder[i]) /\ lHandle[lHolder[i]] = i)'
    <3>1. lHolder'[i] = lHolder[i] /\ lHolder[i] \in Starts \ {p}
      BY <2>1, <2>5
    <3>2. Locked(lHolder[i]) /\ lHandle[lHolder[i]] = i
      BY <3>1, <2>5
    <3>3. QED
      BY <2>1, <3>1, <3>2
  <2>6. QED
    BY <2>3, <2>4, <2>5
<1>5. CASE \/ \E kind \in {"stop", "status"} : Lock!Command(kind)
           \/ Lock!LookAt \/ Lock!RemoveFile
  BY <1>5 DEF Lock!Command, Lock!LookAt, Lock!RemoveFile
<1>6. CASE Lock!Signal
  BY <1>6 DEF Lock!Signal
<1>7. CASE UNCHANGED Lock!vars
  BY <1>7 DEF Lock!vars
<1>8. QED
  BY <1>1, <1>2, <1>3, <1>4, <1>5, <1>6, <1>7 DEF Lock!Next, Lock!Starting

\* The name comes to stand for another file only after it was unlinked, and
\* unlinking it while somebody has the file open is what "stolen" records.
LEMMA OneFileKeeps ==
  ASSUME Lock!DaemonAssumption, LockInv, [Lock!Next]_(Lock!vars)
  PROVE  OneFile'
<1> USE DEF LockInv, LockTyped, OneFile, Lock!HasOpen, Lock!Goes,
        Lock!Inodes, Lock!NoInode, Lock!Remove, Lock!files, Lock!cli
<1>1. ASSUME NEW p \in Starts, Lock!RemoveStale(p) \/ Lock!Unlink(p)
      PROVE  OneFile'
  BY <1>1 DEF Lock!RemoveStale, Lock!Unlink
<1>2. ASSUME NEW p \in Starts, Lock!Open(p)
      PROVE  OneFile'
  BY <1>2 DEF Lock!Open, HoldersHold, Lock!DaemonAssumption
<1>3. ASSUME NEW p \in Starts,
             \/ Lock!Start(p) \/ Lock!Check(p) \/ Lock!Lock(p)
             \/ Lock!WritePid(p) \/ Lock!Shutdown(p) \/ Lock!Release(p)
             \/ Lock!Crash(p)
      PROVE  OneFile'
  BY <1>3 DEF Lock!Start, Lock!Check, Lock!Lock, Lock!WritePid,
     Lock!Shutdown, Lock!Release, Lock!Crash
<1>4. CASE Lock!RemoveFile
  BY <1>4, 0 \notin Starts DEF Lock!RemoveFile, Lock!DaemonAssumption
<1>5. CASE \/ \E kind \in {"stop", "status"} : Lock!Command(kind)
           \/ Lock!LookAt \/ Lock!Signal
  BY <1>5 DEF Lock!Command, Lock!LookAt, Lock!Signal
<1>6. CASE UNCHANGED Lock!vars
  BY <1>6 DEF Lock!vars
<1>7. QED
  BY <1>1, <1>2, <1>3, <1>4, <1>5, <1>6 DEF Lock!Next, Lock!Starting

\* The lock's invariant holds in every reachable state.
THEOREM LockInvariant == ASSUME Lock!DaemonAssumption PROVE LockSafety => []LockInv
<1>1. LockInv /\ [Lock!Next]_(Lock!vars) => LockInv'
  BY LockKeepsTyped, HoldersKeep, OneFileKeeps DEF LockInv
<1>2. QED
  BY <1>1, LockInvInit, PTL DEF LockSafety

\* Two daemons never run at once, however starts, crashes, shutdowns and
\* commands interleave, unless a file was unlinked that a process had open.
THEOREM OneDaemon ==
  ASSUME Lock!DaemonAssumption PROVE LockSafety => []Lock!OneUnlessStolen
<1>1. LockInv => Lock!OneUnlessStolen
  BY DEF LockInv, OneFile, HoldersHold, Locked, Lock!HasOpen, Lock!Daemons,
     Lock!OneUnlessStolen
<1>2. QED
  BY <1>1, LockInvariant, PTL

\* A start with no other process about gets the lock: the kernel gave back
\* what a crash left.
THEOREM StartsAlone ==
  ASSUME Lock!DaemonAssumption PROVE LockSafety => Lock!StartsAgain
<1>1. ASSUME LockInv, NEW p \in Starts, Lock!Alone, Lock!Lock(p)
      PROVE  lProc'[p] = "write"
  BY <1>1 DEF LockInv, LockTyped, HoldersHold, Locked, Lock!Alone, Lock!Alive,
     Lock!Lock, Lock!Goes, Lock!MayLock, Lock!HasOpen
<1>2. LockInv => [\A p \in Starts : Lock!Alone /\ Lock!Lock(p) =>
                    lProc'[p] = "write"]_(Lock!vars)
  BY <1>1
<1>3. QED
  BY <1>2, LockInvariant, PTL DEF Lock!StartsAgain

\* The types; and whoever has the lock of the file it has open is its holder.
THEOREM LockStates == ASSUME Lock!DaemonAssumption PROVE LockSafety => []Lock!TypeOK
<1>1. LockInv => Lock!TypeOK
  BY DEF LockInv, LockTyped, HoldersHold, Locked, Lock!TypeOK, Lock!Inodes, Lock!NoInode,
     Lock!Empty
<1>2. QED
  BY <1>1, LockInvariant, PTL

-----------------------------------------------------------------------------
(* CronService: no due time is fired twice, and the file follows the memory *)


CronJob == [st : {"Absent", "Active", "Paused", "Done"}, next : 0 .. CronTime + Period]
CronThread == [pc : {"idle", "persist", "state", "flush"}, jobs : SUBSET CronJobs]

CronTyped ==
  /\ sNow \in 0 .. CronTime /\ sUp \in BOOLEAN /\ sAgain \in BOOLEAN
  /\ sJobs \in [CronJobs -> CronJob] /\ sDisk \in [CronJobs -> CronJob]
  /\ sStates \subseteq CronJobs /\ sSaved \subseteq CronJobs /\ sGiven \subseteq CronJobs
  /\ sThread \in [Cron!Threads -> CronThread]
  /\ sFired \subseteq CronJobs \X Nat /\ sKept \subseteq sFired

\* What a store of jobs and a record of firings have to do with each other:
\* jobs have ids that were given out, a one-shot keeps its time, what may still
\* be fired has a due time that was not, and nothing was fired before its time.
Consistent(store, log) ==
  /\ \A j \in CronJobs : store[j].st # "Absent" => j \in sGiven
  /\ \A j \in Once : store[j].st # "Absent" => store[j].next = 1
  /\ \A j \in CronJobs : store[j].st \in {"Active", "Paused"} => <<j, store[j].next>> \notin log
  /\ \A j \in CronJobs : \A n \in Nat : <<j, n>> \in log => j \in sGiven /\ n <= sNow

\* It holds of the memory and of the file, each with its own record.
CronInv ==
  /\ CronTyped
  /\ Consistent(sJobs, sFired) /\ Consistent(sDisk, sKept)
  /\ Cron!FileIsNewest
  /\ Cron!FiresOnce

\* The constants of the scheduler.
LEMMA CronConstants ==
  ASSUME Cron!CronAssumption
  PROVE  Once \subseteq CronJobs /\ Period \in Nat \ {0} /\ CronTime \in Nat
BY DEF Cron!CronAssumption

\* A new due time lies in the future, or is that of the one-shot.
LEMMA NextRuns ==
  ASSUME Cron!CronAssumption, CronTyped, NEW j \in CronJobs
  PROVE  /\ Cron!NextRun(j) \in 0 .. CronTime + Period
         /\ j \in Once => Cron!NextRun(j) = 1
         /\ j \notin Once => Cron!NextRun(j) > sNow
BY CronConstants DEF CronTyped, Cron!NextRun

\* There are no jobs at first.
LEMMA CronInvInit == ASSUME Cron!CronAssumption, Cron!Init PROVE CronInv
<1> USE CronConstants DEF Cron!Init, Cron!Nothing, Cron!Absent
<1>1. CronTyped
  <2>1. sJobs \in [CronJobs -> CronJob] /\ sDisk \in [CronJobs -> CronJob]
    BY DEF CronJob
  <2>2. sThread \in [Cron!Threads -> CronThread]
    BY DEF CronThread, Cron!Idle
  <2>3. sNow \in 0 .. CronTime /\ sFired \subseteq CronJobs \X Nat /\ sKept \subseteq sFired
    OBVIOUS
  <2>4. /\ sStates \subseteq CronJobs /\ sSaved \subseteq CronJobs /\ sGiven \subseteq CronJobs
        /\ sUp \in BOOLEAN /\ sAgain \in BOOLEAN
    BY Zenon
  <2>5. QED
    BY <2>1, <2>2, <2>3, <2>4 DEF CronTyped
<1>2. Consistent(sJobs, sFired) /\ Consistent(sDisk, sKept)
  BY DEF Consistent
<1>3. QED
  BY <1>1, <1>2 DEF CronInv, Cron!FileIsNewest, Cron!FiresOnce

\* A call of the API puts a job in its place that may not have been fired: one
\* with a new id, with a new due time, with its old one, or none.
LEMMA CronCallKeeps ==
  ASSUME Cron!CronAssumption, CronInv, NEW t \in CronCallers, NEW j \in CronJobs,
         \/ Cron!AddJob(t, j) \/ Cron!UpdateJob(t, j) \/ Cron!RemoveJob(t, j)
         \/ Cron!PauseJob(t, j) \/ Cron!ResumeJob(t, j)
  PROVE  CronInv'
<1>1. PICK job \in CronJob :
        /\ Cron!Change(t, j, job)
        /\ j \in Once /\ job.st # "Absent" => job.next = 1
        /\ job.st \in {"Active", "Paused"} => <<j, job.next>> \notin sFired
  <2> DEFINE Fits(job) ==
        /\ job \in CronJob
        /\ Cron!Change(t, j, job)
        /\ j \in Once /\ job.st # "Absent" => job.next = 1
        /\ job.st \in {"Active", "Paused"} => <<j, job.next>> \notin sFired
  <2>1. CASE Cron!AddJob(t, j)
    <3>1. Fits([st |-> "Active", next |-> Cron!NextRun(j)])
      BY <2>1, NextRuns DEF Cron!AddJob, CronInv, CronTyped, CronJob, Consistent
    <3>2. QED
      BY <3>1
  <2>2. CASE Cron!UpdateJob(t, j)
    <3>1. Fits([sJobs[j] EXCEPT !.next = Cron!NextRun(j)])
      BY <2>2, NextRuns DEF Cron!UpdateJob, CronInv, CronTyped, CronJob, Consistent
    <3>2. QED
      BY <3>1
  <2>3. CASE Cron!RemoveJob(t, j)
    <3>1. Fits(Cron!Absent)
      BY <2>3, CronConstants DEF Cron!RemoveJob, Cron!Absent, CronJob
    <3>2. QED
      BY <3>1
  <2>4. CASE Cron!PauseJob(t, j)
    <3>1. Fits([sJobs[j] EXCEPT !.st = "Paused"])
      BY <2>4 DEF Cron!PauseJob, CronInv, CronTyped, CronJob, Consistent
    <3>2. QED
      BY <3>1
  <2>5. CASE Cron!ResumeJob(t, j)
    <3>1. Fits([st |-> "Active", next |-> Cron!NextRun(j)])
      BY <2>5, NextRuns DEF Cron!ResumeJob, CronInv, CronTyped, CronJob, Consistent
    <3>2. QED
      BY <3>1
  <2>6. QED
    BY <2>1, <2>2, <2>3, <2>4, <2>5
<1>2. /\ sJobs' = [sJobs EXCEPT ![j] = job] /\ sGiven' = sGiven \union {j}
      /\ sThread' = [sThread EXCEPT ![t] = [pc |-> "persist", jobs |-> {j}]]
      /\ UNCHANGED <<sNow, sUp, sDisk, sStates, sSaved, sFired, sKept, sAgain>>
  BY <1>1 DEF Cron!Change, Cron!Goes
<1>3. sThread'[t].pc = "persist" /\ t \in Cron!Threads
  BY <1>2 DEF CronInv, CronTyped, Cron!Threads
<1>4. CronTyped'
  BY <1>1, <1>2, <1>3 DEF CronInv, CronTyped, CronThread
<1>5. Consistent(sJobs, sFired)' /\ Consistent(sDisk, sKept)'
  BY <1>1, <1>2 DEF CronInv, CronTyped, Consistent
<1>6. Cron!FileIsNewest'
  BY <1>3 DEF Cron!FileIsNewest, Cron!Busy
<1>7. QED
  BY <1>2, <1>4, <1>5, <1>6 DEF CronInv, Cron!FiresOnce

\* A tick gives each due job its next run, or is its last; what was due had not
\* been fired.
LEMMA CronTickKeeps ==
  ASSUME Cron!CronAssumption, CronInv, Cron!Tick
  PROVE  CronInv'
<1> DEFINE due == {j \in CronJobs : Cron!Due(j)}
           fires == {<<j, sJobs[j].next>> : j \in due}
<1>1. /\ sJobs' = [j \in CronJobs |-> IF j \in due THEN Cron!After(j) ELSE sJobs[j]]
      /\ sFired' = sFired \union fires
      /\ sAgain' = (sAgain \/ fires \cap sFired # {})
      /\ sThread' = [sThread EXCEPT ![Cron!Loop] = [pc |-> "persist", jobs |-> due]]
      /\ UNCHANGED <<sNow, sUp, sDisk, sStates, sSaved, sKept, sGiven>>
  BY DEF Cron!Tick, Cron!Goes
<1>2. ASSUME NEW j \in due
      PROVE  /\ Cron!After(j) \in CronJob
             /\ sJobs[j].st = "Active" /\ sJobs[j].next <= sNow /\ sJobs[j].next \in Nat
             /\ <<j, sJobs[j].next>> \notin sFired /\ j \in sGiven
             /\ j \in Once => Cron!After(j).next = 1 /\ Cron!After(j).st = "Done"
             /\ j \notin Once => Cron!After(j).next > sNow
  <2>1. j \in CronJobs /\ sJobs[j] \in CronJob
    BY DEF CronInv, CronTyped
  <2>2. /\ sJobs[j].st = "Active" /\ sJobs[j].next <= sNow /\ sJobs[j].next \in Nat
        /\ <<j, sJobs[j].next>> \notin sFired /\ j \in sGiven
        /\ j \in Once => sJobs[j].next = 1
    BY <2>1 DEF CronInv, Consistent, Cron!Due, CronJob
  <2>3. CASE j \in Once
    BY <2>1, <2>2, <2>3 DEF Cron!After, CronJob
  <2>4. CASE j \notin Once
    BY <2>1, <2>2, <2>4, NextRuns DEF Cron!After, CronJob, CronInv
  <2>5. QED
    BY <2>2, <2>3, <2>4
<1>3. fires \subseteq CronJobs \X Nat /\ fires \cap sFired = {}
  BY <1>2
<1>4. \A j \in CronJobs : \A n \in Nat : <<j, n>> \in fires =>
        j \in due /\ n = sJobs[j].next
  OBVIOUS
<1>5. sThread'[Cron!Loop].pc = "persist" /\ Cron!Loop \in Cron!Threads
  BY <1>1 DEF CronInv, CronTyped, Cron!Threads
<1>6. due \subseteq CronJobs
  OBVIOUS
<1> HIDE DEF due, fires
<1>7. CronTyped'
  <2>1. sJobs' \in [CronJobs -> CronJob]
    BY <1>1, <1>2 DEF CronInv, CronTyped
  <2>2. sThread' \in [Cron!Threads -> CronThread]
    BY <1>1, <1>5, <1>6 DEF CronInv, CronTyped, CronThread
  <2>3. QED
    BY <1>1, <1>3, <2>1, <2>2 DEF CronInv, CronTyped
<1>8. Consistent(sJobs, sFired)'
  <2>1. ASSUME NEW j \in CronJobs
        PROVE  /\ sJobs'[j].st # "Absent" => j \in sGiven
               /\ j \in Once /\ sJobs'[j].st # "Absent" => sJobs'[j].next = 1
               /\ sJobs'[j].st \in {"Active", "Paused"} => <<j, sJobs'[j].next>> \notin sFired'
    <3>1. CASE j \in due
      <4>1. sJobs'[j] = Cron!After(j)
        BY <1>1, <3>1
      <4>2. j \notin Once => <<j, sJobs'[j].next>> \notin sFired'
        <5>1. SUFFICES ASSUME j \notin Once, <<j, sJobs'[j].next>> \in sFired'
                       PROVE  FALSE
          OBVIOUS
        <5>2. sJobs'[j].next > sNow /\ sJobs'[j].next \in Nat /\ sNow \in Nat
          <6>1. /\ sJobs'[j] \in CronJob /\ sJobs'[j].next > sNow
                /\ sNow \in 0 .. CronTime
            BY <1>2, <3>1, <4>1, <5>1 DEF CronInv, CronTyped
          <6>2. QED
            BY <6>1, CronConstants DEF CronJob
        <5>3. CASE <<j, sJobs'[j].next>> \in sFired
          <6>1. PICK n \in Nat : n = sJobs'[j].next
            BY <5>2
          <6>2. <<j, n>> \in sFired => n <= sNow
            BY DEF CronInv, Consistent
          <6>3. QED
            BY <5>2, <5>3, <6>1, <6>2
        <5>4. CASE <<j, sJobs'[j].next>> \in fires
          BY <1>2, <1>4, <3>1, <5>2, <5>4
        <5>5. QED
          BY <1>1, <5>1, <5>3, <5>4
      <4>3. QED
        BY <1>2, <3>1, <4>1, <4>2
    <3>2. CASE j \notin due
      BY <1>1, <1>4, <3>2 DEF CronInv, CronTyped, CronJob, Consistent
    <3>3. QED
      BY <3>1, <3>2
  <2>2. ASSUME NEW j \in CronJobs, NEW n \in Nat, <<j, n>> \in sFired'
        PROVE  j \in sGiven /\ n <= sNow
    BY <1>1, <1>2, <1>4, <2>2 DEF CronInv, Consistent
  <2>3. QED
    BY <1>1, <2>1, <2>2, CronConstants DEF Consistent
<1>9. Consistent(sDisk, sKept)'
  BY <1>1 DEF CronInv, Consistent
<1>10. Cron!FileIsNewest'
  BY <1>5 DEF Cron!FileIsNewest, Cron!Busy
<1>11. QED
  BY <1>1, <1>3, <1>7, <1>8, <1>9, <1>10 DEF CronInv, Cron!FiresOnce

\* What the threads do next moves nothing but the files.
LEMMA CronServiceKeeps ==
  ASSUME Cron!CronAssumption, CronInv, NEW t \in Cron!Threads, Cron!Service(t)
  PROVE  CronInv'
<1>1. CASE Cron!Persist(t)
  BY <1>1 DEF Cron!Persist, Cron!Written, Cron!Goes, CronInv, CronTyped,
     CronThread, Consistent, Cron!FileIsNewest, Cron!FiresOnce
<1>2. CASE Cron!SaveState(t) \/ Cron!Flush(t)
  <2>1. UNCHANGED <<sNow, sUp, sJobs, sDisk, sFired, sKept, sAgain, sGiven>>
    BY <1>2 DEF Cron!SaveState, Cron!Flush
  <2>2. /\ sStates' \subseteq CronJobs /\ sSaved' \subseteq CronJobs
        /\ sThread' \in [Cron!Threads -> CronThread]
    BY <1>2 DEF Cron!SaveState, Cron!Flush, Cron!Goes, Cron!Idle, CronInv,
       CronTyped, CronThread
  <2>3. Cron!Busy("persist") => Cron!Busy("persist")'
    BY <1>2 DEF Cron!SaveState, Cron!Flush, Cron!Goes, Cron!Idle, Cron!Busy,
       CronInv, CronTyped
  <2>4. QED
    BY <2>1, <2>2, <2>3 DEF CronInv, CronTyped, Consistent,
       Cron!FileIsNewest, Cron!FiresOnce
<1>3. QED
  BY <1>1, <1>2 DEF Cron!Service

\* A process that starts again goes on from the file and its record.
LEMMA CronRestartKeeps ==
  ASSUME Cron!CronAssumption, CronInv, Cron!Restart
  PROVE  CronInv'
<1>1. /\ sJobs' = [j \in CronJobs |-> Cron!Recovered(j)] /\ sDisk' = sJobs'
      /\ sStates' = sSaved /\ sFired' = sKept /\ sUp' = TRUE
      /\ UNCHANGED <<sNow, sSaved, sThread, sKept, sAgain, sGiven>>
  BY DEF Cron!Restart
<1>2. ASSUME NEW j \in CronJobs
      PROVE  /\ Cron!Recovered(j) \in CronJob
             /\ Cron!Recovered(j).st = sDisk[j].st
             /\ \/ Cron!Recovered(j).next = sDisk[j].next
                \/ Cron!Recovered(j).next = Cron!NextRun(j)
  BY NextRuns DEF Cron!Recovered, CronInv, CronTyped, CronJob
<1>3. CronTyped'
  <2>1. sJobs' \in [CronJobs -> CronJob] /\ sDisk' \in [CronJobs -> CronJob]
    BY <1>1, <1>2
  <2>2. QED
    BY <1>1, <2>1 DEF CronInv, CronTyped
<1>4. Consistent(sJobs, sFired)'
  <2>1. ASSUME NEW j \in CronJobs
        PROVE  /\ sJobs'[j].st # "Absent" => j \in sGiven
               /\ j \in Once /\ sJobs'[j].st # "Absent" => sJobs'[j].next = 1
               /\ sJobs'[j].st \in {"Active", "Paused"} => <<j, sJobs'[j].next>> \notin sKept
    <3>1. sJobs'[j] = Cron!Recovered(j) /\ sDisk[j] \in CronJob
      BY <1>1 DEF CronInv, CronTyped
    <3>2. CASE sJobs'[j].next = sDisk[j].next
      BY <1>2, <3>1, <3>2 DEF CronInv, Consistent
    <3>3. CASE sJobs'[j].next = Cron!NextRun(j) /\ j \notin Once
      <4>1. sJobs'[j].next > sNow /\ sJobs'[j].next \in Nat /\ sNow \in Nat
        BY <3>3, NextRuns DEF CronInv, CronTyped
      <4>2. <<j, sJobs'[j].next>> \notin sKept
        BY <4>1 DEF CronInv, Consistent
      <4>3. QED
        BY <1>2, <3>1, <3>3, <4>2 DEF CronInv, Consistent
    <3>4. CASE sJobs'[j].next = Cron!NextRun(j) /\ j \in Once
      BY <1>2, <3>1, <3>4, NextRuns DEF CronInv, Consistent
    <3>5. QED
      BY <1>2, <3>1, <3>2, <3>3, <3>4
  <2>2. QED
    BY <1>1, <2>1, CronConstants DEF CronInv, Consistent
<1>5. QED
  BY <1>1, <1>3, <1>4 DEF CronInv, Consistent, Cron!FileIsNewest, Cron!FiresOnce

\* A kill leaves the file as it is, with its record, or torn, with neither.
LEMMA CronCrashKeeps ==
  ASSUME Cron!CronAssumption, CronInv, Cron!Crash
  PROVE  CronInv'
<1>1. /\ sUp' = FALSE /\ sThread' = [t \in Cron!Threads |-> Cron!Idle]
      /\ UNCHANGED <<sNow, sJobs, sStates, sFired, sAgain, sGiven>>
      /\ (sDisk' = sDisk /\ sKept' = sKept) \/ (sDisk' = Cron!Nothing /\ sKept' = {})
      /\ sSaved' \in {sSaved, {}}
  BY DEF Cron!Crash
<1>2. CronTyped'
  <2>1. sDisk' \in [CronJobs -> CronJob]
    BY <1>1, CronConstants DEF CronInv, CronTyped, CronJob, Cron!Nothing, Cron!Absent
  <2>2. sThread' \in [Cron!Threads -> CronThread]
    BY <1>1 DEF CronThread, Cron!Idle
  <2>3. QED
    BY <1>1, <2>1, <2>2 DEF CronInv, CronTyped
<1>3. Consistent(sDisk, sKept)'
  BY <1>1, CronConstants DEF CronInv, Consistent, Cron!Nothing, Cron!Absent
<1>4. QED
  BY <1>1, <1>2, <1>3 DEF CronInv, Consistent, Cron!FileIsNewest, Cron!FiresOnce

\* The scheduler's invariant holds in every reachable state, for any jobs,
\* callers, kills and torn files.
THEOREM CronInvariant == ASSUME Cron!CronAssumption PROVE CronSafety => []CronInv
<1>1. ASSUME CronInv, [Cron!Next]_(Cron!vars) PROVE CronInv'
  <2>1. CASE Cron!Advance
    BY <1>1, <2>1, CronConstants DEF Cron!Advance, CronInv, CronTyped, Consistent,
       Cron!FileIsNewest, Cron!FiresOnce, Cron!Busy
  <2>2. CASE UNCHANGED Cron!vars
    BY <1>1, <2>2 DEF Cron!vars, CronInv, CronTyped, Consistent, Cron!FileIsNewest,
       Cron!FiresOnce, Cron!Busy
  <2>3. QED
    BY <1>1, <2>1, <2>2, CronCallKeeps, CronTickKeeps, CronServiceKeeps,
       CronRestartKeeps, CronCrashKeeps DEF Cron!Next
<1>2. QED
  BY <1>1, CronInvInit, PTL DEF CronSafety

\* No due time is fired twice: not by a tick that finds the job still due, nor
\* after it was paused and resumed, rescheduled, or recovered from the file,
\* but for what the file never got to know.
THEOREM DueTimesFireOnce ==
  ASSUME Cron!CronAssumption PROVE CronSafety => []Cron!FiresOnce
<1>1. CronInv => Cron!FiresOnce
  BY DEF CronInv
<1>2. QED
  BY <1>1, CronInvariant, PTL

\* While no write is under way the file says what the memory says: each change
\* is followed by a write of the whole store as it is by then.
THEOREM CronFileIsNewest ==
  ASSUME Cron!CronAssumption PROVE CronSafety => []Cron!FileIsNewest
<1>1. CronInv => Cron!FileIsNewest
  BY DEF CronInv
<1>2. QED
  BY <1>1, CronInvariant, PTL

\* The types; and what is known to be fired when a process starts was fired.
THEOREM CronStates == ASSUME Cron!CronAssumption PROVE CronSafety => []Cron!TypeOK
<1>1. ASSUME CronInv PROVE Cron!TypeOK
  <2>1. CronTyped
    BY <1>1 DEF CronInv
  <2>2. \A j \in CronJobs : sJobs[j] \in CronJob /\ sDisk[j] \in CronJob
    BY <2>1 DEF CronTyped
  <2>3. \A t \in Cron!Threads : sThread[t] \in CronThread
    BY <2>1 DEF CronTyped
  <2>4. QED
    BY <2>1, <2>2, <2>3 DEF CronTyped, CronJob, CronThread, Cron!TypeOK
<1>2. QED
  BY <1>1, CronInvariant, PTL

-----------------------------------------------------------------------------
(* HeartbeatService: one restart per outage, and no change goes untold      *)


\* A component's status, as far as it is known.
Known == {"healthy", "unhealthy", "unknown"}

PulseState ==
  [snapshot : [Watched -> Known], row : [Watched -> 0 .. OutageThreshold],
   pending : SUBSET Watched, backoff : [Watched -> 1 .. MaxBackoff]]

PulseTyped ==
  /\ hPc \in {"down", "start", "poll", "publish", "process", "persist", "stopped"}
  /\ hHealth \in [Watched -> {"healthy", "unhealthy"}]
  /\ hPolled \in [Watched -> Known]
  /\ hShown \in [Watched -> Known] /\ hAnnounced \in [Watched -> Known]
  /\ hState \in PulseState /\ hFile \in PulseState

\* What is pending covers what was asked for, in the memory of a process and,
\* between two, in the file.
PendingCovers ==
  /\ hPc # "down" => hAsked \subseteq hState.pending
  /\ hPc = "down" => hAsked \subseteq hFile.pending

\* What the bus was told is what the last snapshot says, and the API shows it.
SnapshotTold ==
  /\ hPc # "down" => \A c \in Watched : hAnnounced[c] \in {"unknown", hState.snapshot[c]}
  /\ hPc = "down" => \A c \in Watched : hAnnounced[c] \in {"unknown", hFile.snapshot[c]}
  /\ hPc \in {"process", "persist"} => hShown = hState.snapshot

PulseInv == PulseTyped /\ PendingCovers /\ SnapshotTold /\ Pulse!OneRestartPerOutage

\* The heartbeat starts with nothing known.
LEMMA PulseInvInit == ASSUME Pulse!HeartbeatAssumption, Pulse!Init PROVE PulseInv
<1>1. Pulse!Default \in PulseState /\ Pulse!Nobody \in [Watched -> Known]
  BY DEF Pulse!HeartbeatAssumption, Pulse!Default, Pulse!Nobody, PulseState, Known
<1>2. PulseTyped
  BY <1>1 DEF Pulse!Init, PulseTyped
<1>3. QED
  BY <1>2 DEF Pulse!Init, Pulse!Default, Pulse!Nobody, PulseInv, PendingCovers,
     SnapshotTold, Pulse!OneRestartPerOutage

\* A new snapshot replaces the last, and what differs is announced.
LEMMA PublishKeeps ==
  ASSUME Pulse!HeartbeatAssumption, PulseInv, Pulse!Publish
  PROVE  PulseInv'
<1>1. /\ hState' = [hState EXCEPT !.snapshot = hPolled] /\ hShown' = hPolled
      /\ hPc = "publish" /\ hPc' = "process"
      /\ UNCHANGED <<hHealth, hPolled, hFile, hAsked, hTwice>>
      /\ hAnnounced' = IF hState.snapshot = Pulse!Nobody THEN hAnnounced
                       ELSE [c \in Watched |->
                               IF hPolled[c] # hState.snapshot[c] THEN hPolled[c]
                               ELSE hAnnounced[c]]
  BY DEF Pulse!Publish, Pulse!env
<1>2. /\ hState' \in PulseState /\ hState'.snapshot = hPolled
      /\ hState'.pending = hState.pending
  BY <1>1 DEF PulseInv, PulseTyped, PulseState
<1>3. hAnnounced' \in [Watched -> Known]
  BY <1>1 DEF PulseInv, PulseTyped
<1>4. ASSUME NEW c \in Watched
      PROVE  hAnnounced'[c] \in {"unknown", hPolled[c]}
  <2>1. hAnnounced[c] \in {"unknown", hState.snapshot[c]}
    BY <1>1 DEF PulseInv, SnapshotTold
  <2>2. QED
    BY <1>1, <2>1 DEF Pulse!Nobody
<1>5. PulseTyped'
  BY <1>1, <1>2, <1>3 DEF PulseInv, PulseTyped
<1>6. QED
  BY <1>1, <1>2, <1>4, <1>5 DEF PulseInv, PendingCovers, SnapshotTold,
     Pulse!OneRestartPerOutage

\* A restart is asked for only of a component that has none pending; what
\* recovers is taken off both lists.
LEMMA ProcessFailuresKeeps ==
  ASSUME Pulse!HeartbeatAssumption, PulseInv, Pulse!ProcessFailures
  PROVE  PulseInv'
<1> DEFINE down == {c \in Watched : hPolled[c] = "unhealthy"}
           row == [c \in Watched |->
                     IF c \in down THEN Pulse!Least(hState.row[c] + 1, OutageThreshold) ELSE 0]
           restart == {c \in down : Pulse!ShouldRestart(c, row[c])}
           backoff == [c \in Watched |->
                         IF c \in restart THEN Pulse!Least(2 * hState.backoff[c], MaxBackoff)
                         ELSE hState.backoff[c]]
<1>1. /\ hState' = [hState EXCEPT !.row = row, !.pending = (@ \cap down) \union restart,
                                  !.backoff = backoff]
      /\ hTwice' = (hTwice \/ restart \cap hAsked # {})
      /\ hAsked' = (hAsked \cap down) \union restart
      /\ hPc = "process" /\ hPc' = "persist"
      /\ UNCHANGED <<hHealth, hPolled, hFile, hShown, hAnnounced>>
  BY DEF Pulse!ProcessFailures, Pulse!env
<1>2. row \in [Watched -> 0 .. OutageThreshold] /\ backoff \in [Watched -> 1 .. MaxBackoff]
  BY DEF Pulse!HeartbeatAssumption, Pulse!Least, PulseInv, PulseTyped, PulseState
<1>3. restart \subseteq Watched /\ restart \cap hState.pending = {}
  BY DEF Pulse!ShouldRestart
<1> HIDE DEF down, row, restart, backoff
<1>4. /\ hState' \in PulseState /\ hState'.snapshot = hState.snapshot
      /\ hState'.pending = (hState.pending \cap down) \union restart
  BY <1>1, <1>2, <1>3 DEF PulseInv, PulseTyped, PulseState
<1>5. hAsked \subseteq hState.pending
  BY <1>1 DEF PulseInv, PendingCovers
<1>6. QED
  BY <1>1, <1>3, <1>4, <1>5 DEF PulseInv, PulseTyped, PendingCovers,
     SnapshotTold, Pulse!OneRestartPerOutage

\* The next process goes on from the file, whichever it is.
LEMMA PulseCrashKeeps ==
  ASSUME Pulse!HeartbeatAssumption, PulseInv, Pulse!Crash
  PROVE  PulseInv'
<1>1. Pulse!Default \in PulseState /\ Pulse!Nobody \in [Watched -> Known]
  BY DEF Pulse!HeartbeatAssumption, Pulse!Default, Pulse!Nobody, PulseState, Known
<1>2. /\ hFile' \in PulseState /\ hAsked' = hFile'.pending
      /\ hAnnounced' = hFile'.snapshot /\ hPc' = "down"
      /\ hPolled' = Pulse!Nobody /\ hShown' = Pulse!Nobody
      /\ UNCHANGED <<hHealth, hState, hTwice>>
  BY <1>1 DEF Pulse!Crash, PulseInv, PulseTyped
<1>3. PulseTyped'
  BY <1>1, <1>2 DEF PulseInv, PulseTyped, PulseState
<1>4. QED
  BY <1>2, <1>3 DEF PulseInv, PendingCovers, SnapshotTold, Pulse!OneRestartPerOutage

\* The heartbeat's invariant holds in every reachable state, for any components
\* and over any number of kills and torn files.
THEOREM PulseInvariant ==
  ASSUME Pulse!HeartbeatAssumption PROVE PulseSafety => []PulseInv
<1>1. ASSUME PulseInv, [Pulse!Next]_(Pulse!vars) PROVE PulseInv'
  <2> USE <1>1 DEF PulseInv, PulseTyped, PendingCovers, SnapshotTold,
          Pulse!OneRestartPerOutage, Pulse!env, Pulse!history
  <2>1. CASE Pulse!Begin
    BY <2>1 DEF Pulse!Begin, Pulse!Nobody, Known
  <2>2. CASE \E c \in Watched : Pulse!Poll(c)
    BY <2>2 DEF Pulse!Poll, Known
  <2>3. CASE Pulse!Persist \/ Pulse!Stop \/ Pulse!Restart
    BY <2>3 DEF Pulse!Persist, Pulse!Stop, Pulse!Restart
  <2>4. CASE \E c \in Watched : Pulse!Change(c)
    BY <2>4 DEF Pulse!Change
  <2>5. CASE UNCHANGED Pulse!vars
    BY <2>5 DEF Pulse!vars
  <2>6. QED
    BY <2>1, <2>2, <2>3, <2>4, <2>5, PublishKeeps, ProcessFailuresKeeps,
       PulseCrashKeeps DEF Pulse!Next, Pulse!Round
<1>2. QED
  BY <1>1, PulseInvInit, PTL DEF PulseSafety

\* One restart is asked for per outage, over any number of processes, unless
\* the file never got to know of it: should_restart is guarded by the pending
\* flag, which outlives the process.
THEOREM RestartsAskedOnce ==
  ASSUME Pulse!HeartbeatAssumption PROVE PulseSafety => []Pulse!OneRestartPerOutage
<1>1. PulseInv => Pulse!OneRestartPerOutage
  BY DEF PulseInv
<1>2. QED
  BY <1>1, PulseInvariant, PTL

\* Whoever was told of a component was told what the API shows of it.
THEOREM ChangesTold == ASSUME Pulse!HeartbeatAssumption PROVE PulseSafety => []Pulse!Told
<1>1. PulseInv => Pulse!Told
  BY DEF PulseInv, SnapshotTold, Pulse!Told
<1>2. QED
  BY <1>1, PulseInvariant, PTL

\* A round publishes what it polled of every component, and all is counted.
RoundsTyped ==
  /\ hPc \in {"publish", "process", "persist"} => hPolled \in [Watched -> Pulse!Status]
  /\ \A s \in {hState, hFile} : s.snapshot \in [Watched -> Pulse!Status] \/
       s.snapshot = Pulse!Nobody
  /\ hShown \in [Watched -> Pulse!Status] \/ hShown = Pulse!Nobody
  /\ hChanges \in 0 .. HealthChanges /\ hCrashes \in 0 .. MaxCrashes

\* Nothing is known at first.
LEMMA RoundsTypedInit ==
  ASSUME Pulse!HeartbeatAssumption, Pulse!Init PROVE RoundsTyped
BY DEF Pulse!HeartbeatAssumption, Pulse!Init, Pulse!Default, RoundsTyped

\* A snapshot is taken when every component was polled.
LEMMA RoundsTypedStep ==
  ASSUME Pulse!HeartbeatAssumption, PulseInv, RoundsTyped, [Pulse!Next]_(Pulse!vars)
  PROVE  RoundsTyped'
<1> USE DEF RoundsTyped, Pulse!env, Pulse!history
<1>1. PulseTyped /\ hState \in PulseState /\ hFile \in PulseState
  BY DEF PulseInv, PulseTyped
<1>2. CASE \E c \in Watched : Pulse!Poll(c)
  <2>1. PICK c \in Watched : Pulse!Poll(c)
    BY <1>2
  <2>2. hPolled' = [hPolled EXCEPT ![c] = hHealth[c]] /\ hHealth[c] \in Pulse!Status
    BY <1>1, <2>1 DEF Pulse!Poll, PulseTyped, Pulse!Status
  <2>3. hPc' = "publish" => hPolled' \in [Watched -> Pulse!Status]
    BY <1>1, <2>1, <2>2 DEF Pulse!Poll, PulseTyped, Known, Pulse!Status
  <2>4. QED
    BY <2>1, <2>3 DEF Pulse!Poll
<1>3. CASE Pulse!Publish
  <2>1. /\ hPolled \in [Watched -> Pulse!Status] /\ hState'.snapshot = hPolled
        /\ hShown' = hPolled /\ hPolled' = hPolled /\ hFile' = hFile
        /\ hChanges' = hChanges /\ hCrashes' = hCrashes
    BY <1>1, <1>3 DEF Pulse!Publish, PulseState
  <2>2. QED
    BY <2>1
<1>4. CASE Pulse!ProcessFailures
  <2>1. /\ hState'.snapshot = hState.snapshot /\ hShown' = hShown /\ hPolled' = hPolled
        /\ hFile' = hFile /\ hChanges' = hChanges /\ hCrashes' = hCrashes /\ hPc = "process"
    BY <1>1, <1>4 DEF Pulse!ProcessFailures, PulseState
  <2>2. QED
    BY <2>1
<1>5. CASE Pulse!Begin \/ Pulse!Persist \/ Pulse!Stop
  BY <1>5 DEF Pulse!Begin, Pulse!Persist, Pulse!Stop
<1>6. CASE Pulse!Crash
  <2>1. hFile' \in {hFile, Pulse!Default} /\ Pulse!Default.snapshot = Pulse!Nobody
    BY <1>6 DEF Pulse!Crash, Pulse!Default
  <2>2. QED
    BY <1>6, <2>1 DEF Pulse!Crash, Pulse!HeartbeatAssumption
<1>7. CASE Pulse!Restart
  BY <1>7 DEF Pulse!Restart
<1>8. CASE \E c \in Watched : Pulse!Change(c)
  BY <1>8 DEF Pulse!Change, Pulse!HeartbeatAssumption
<1>9. CASE UNCHANGED Pulse!vars
  BY <1>9 DEF Pulse!vars
<1>10. QED
  BY <1>2, <1>3, <1>4, <1>5, <1>6, <1>7, <1>8, <1>9 DEF Pulse!Next, Pulse!Round

\* The types of the rounds, the state and its file.
LEMMA PulseTypedFollows ==
  ASSUME Pulse!HeartbeatAssumption, PulseInv, RoundsTyped PROVE Pulse!TypeOK
<1>1. PulseTyped
  BY DEF PulseInv
<1>2. ASSUME NEW s \in {hState, hFile}
      PROVE  /\ s.row \in [Watched -> 0 .. OutageThreshold] /\ s.pending \subseteq Watched
             /\ s.backoff \in [Watched -> 1 .. MaxBackoff]
  BY <1>1 DEF PulseTyped, PulseState
<1>3. QED
  BY <1>1, <1>2 DEF RoundsTyped, PulseTyped, Pulse!Status, Pulse!TypeOK

\* The types; and a snapshot that is stored or shown is one of every component.
THEOREM PulseStates == ASSUME Pulse!HeartbeatAssumption PROVE PulseSafety => []Pulse!TypeOK
<1>1. Pulse!Init => RoundsTyped
  BY RoundsTypedInit
<1>2. PulseInv /\ RoundsTyped /\ [Pulse!Next]_(Pulse!vars) => (RoundsTyped)'
  BY RoundsTypedStep
<1>3. PulseInv /\ RoundsTyped => Pulse!TypeOK
  BY PulseTypedFollows
<1>4. QED
  BY <1>1, <1>2, <1>3, PulseInvariant, PTL DEF PulseSafety

-----------------------------------------------------------------------------
(* MemoryStore: entries are what their callers were told, within capacity   *)


MemoryTyped ==
  /\ mStaged \in Memory!Contents /\ mCommitted \in Memory!Contents /\ mSeen \in Memory!Contents
  /\ mFailures \in 0 .. MemoryFaults
  /\ mTold \in [MemoryIds -> SUBSET (Versions \union {NoVersion})]

\* What the next commit would make last was told as well.
StagedAsTold == \A id \in MemoryIds : {mStaged[id], mCommitted[id], mSeen[id]} \subseteq mTold[id]

\* What the reader shows, and what it would show besides if it were reloaded,
\* now or after the next commit.
Shown == {id \in MemoryIds : mSeen[id] # NoVersion}
Hidden == {id \in MemoryIds : mSeen[id] = NoVersion /\
            (mStaged[id] # NoVersion \/ mCommitted[id] # NoVersion)}

\* Each entry that is hidden has cost a failure, and so has each that is shown
\* beyond the capacity.
HiddenByFailures ==
  /\ Cardinality(Hidden) <= mFailures
  /\ Cardinality(Shown) + Cardinality(Hidden) <= MaxEntries + mFailures

MemoryInv == MemoryTyped /\ StagedAsTold /\ HiddenByFailures

\* The operators are the same wherever they are instantiated.
LEMMA SameCount ==
  ASSUME NEW S
  PROVE  Memory!Cardinality(S) = Cardinality(S) /\ (Memory!IsFiniteSet(S) <=> IsFiniteSet(S))
BY DEF Memory!Cardinality, Cardinality, Memory!IsFiniteSet, IsFiniteSet

\* How many entries sets of ids can have.
LEMMA IdsCount ==
  ASSUME Memory!StoreAssumption, NEW S \in SUBSET MemoryIds, NEW T \in SUBSET MemoryIds
  PROVE  /\ Cardinality(S) \in Nat
         /\ S \subseteq T => Cardinality(S) <= Cardinality(T)
         /\ Cardinality(S \union T) <= Cardinality(S) + Cardinality(T)
         /\ \A id \in MemoryIds : Cardinality(S \union {id}) <= Cardinality(S) + 1
<1>1. IsFiniteSet(S) /\ IsFiniteSet(T)
  BY FS_Subset, SameCount DEF Memory!StoreAssumption
<1>2. Cardinality(S) \in Nat /\ Cardinality(T) \in Nat
  BY <1>1, FS_CardinalityType
<1>3. S \subseteq T => Cardinality(S) <= Cardinality(T)
  BY <1>1, FS_Subset
<1>4. Cardinality(S \union T) <= Cardinality(S) + Cardinality(T)
  <2>1. IsFiniteSet(S \cap T)
    BY <1>1, FS_Subset
  <2>2. Cardinality(S \cap T) \in Nat
    BY <2>1, FS_CardinalityType
  <2>3. Cardinality(S \union T) = Cardinality(S) + Cardinality(T) - Cardinality(S \cap T)
    BY <1>1, FS_Union
  <2>4. QED
    BY <1>2, <2>2, <2>3
<1>5. ASSUME NEW id \in MemoryIds PROVE Cardinality(S \union {id}) <= Cardinality(S) + 1
  <2>1. Cardinality(S \union {id}) = IF id \in S THEN Cardinality(S) ELSE Cardinality(S) + 1
    BY <1>1, FS_AddElement
  <2>2. QED
    BY <1>2, <2>1
<1>6. QED
  BY <1>2, <1>3, <1>4, <1>5

\* The three ways the numbers change: all that is staged or committed becomes
\* visible, with a new entry if there was room; one more is hidden, for a
\* failure; fewer are hidden.
LEMMA HiddenKeeps ==
  ASSUME Memory!StoreAssumption, MemoryInv,
         \/ /\ Hidden' = {} /\ mFailures' = mFailures
            /\ \/ Shown' \subseteq Shown \union Hidden
               \/ /\ Cardinality(Shown) < MaxEntries
                  /\ \E id \in MemoryIds : Shown' \subseteq Shown \union Hidden \union {id}
         \/ /\ Shown' = Shown /\ mFailures' = mFailures + 1
            /\ \E id \in MemoryIds : Hidden' \subseteq Hidden \union {id}
         \/ /\ Shown' = Shown /\ mFailures' \in {mFailures, mFailures + 1}
            /\ Hidden' \subseteq Hidden
  PROVE  HiddenByFailures'
<1>1. /\ Shown \in SUBSET MemoryIds /\ Hidden \in SUBSET MemoryIds
      /\ Shown' \in SUBSET MemoryIds /\ Hidden' \in SUBSET MemoryIds
      /\ mFailures \in Nat /\ MaxEntries \in Nat
  BY DEF Shown, Hidden, MemoryInv, MemoryTyped, Memory!StoreAssumption
<1>2. /\ Cardinality(Shown) \in Nat /\ Cardinality(Hidden) \in Nat
      /\ Cardinality(Shown') \in Nat /\ Cardinality(Hidden') \in Nat
  BY <1>1, IdsCount
<1>3. /\ Cardinality(Hidden) <= mFailures
      /\ Cardinality(Shown) + Cardinality(Hidden) <= MaxEntries + mFailures
  BY DEF MemoryInv, HiddenByFailures
<1>4. CASE Hidden' = {} /\ mFailures' = mFailures /\ Shown' \subseteq Shown \union Hidden
  <2>1. Cardinality(Shown') <= Cardinality(Shown \union Hidden)
    <3>1. Shown \union Hidden \in SUBSET MemoryIds
      BY <1>1
    <3>2. QED
      BY <1>1, <1>4, <3>1, IdsCount
  <2>2. Cardinality(Shown \union Hidden) <= Cardinality(Shown) + Cardinality(Hidden)
        /\ Cardinality(Shown \union Hidden) \in Nat
    <3>1. Shown \union Hidden \in SUBSET MemoryIds
      BY <1>1
    <3>2. QED
      BY <1>1, <3>1, IdsCount
  <2>3. Cardinality(Hidden') = 0
    BY <1>4, FS_EmptySet
  <2>4. QED
    BY <1>1, <1>2, <1>3, <1>4, <2>1, <2>2, <2>3 DEF HiddenByFailures
<1>5. ASSUME NEW id \in MemoryIds, Hidden' = {}, mFailures' = mFailures,
             Cardinality(Shown) < MaxEntries, Shown' \subseteq Shown \union Hidden \union {id}
      PROVE  HiddenByFailures'
  <2>1. /\ Shown \union Hidden \in SUBSET MemoryIds
        /\ Shown \union Hidden \union {id} \in SUBSET MemoryIds
    BY <1>1
  <2>2. Cardinality(Shown') <= Cardinality(Shown \union Hidden \union {id})
    BY <1>1, <1>5, <2>1, IdsCount
  <2>3. /\ Cardinality(Shown \union Hidden \union {id}) <= Cardinality(Shown \union Hidden) + 1
        /\ Cardinality(Shown \union Hidden \union {id}) \in Nat
        /\ Cardinality(Shown \union Hidden) \in Nat
    BY <2>1, IdsCount
  <2>4. Cardinality(Shown \union Hidden) <= Cardinality(Shown) + Cardinality(Hidden)
    BY <1>1, IdsCount
  <2>5. Cardinality(Hidden') = 0
    BY <1>5, FS_EmptySet
  <2>6. QED
    BY <1>1, <1>2, <1>3, <1>5, <2>2, <2>3, <2>4, <2>5 DEF HiddenByFailures
<1>6. ASSUME NEW id \in MemoryIds, Shown' = Shown, mFailures' = mFailures + 1,
             Hidden' \subseteq Hidden \union {id}
      PROVE  HiddenByFailures'
  <2>1. Hidden \union {id} \in SUBSET MemoryIds
    BY <1>1
  <2>2. /\ Cardinality(Hidden') <= Cardinality(Hidden \union {id})
        /\ Cardinality(Hidden \union {id}) <= Cardinality(Hidden) + 1
        /\ Cardinality(Hidden \union {id}) \in Nat
    BY <1>1, <1>6, <2>1, IdsCount
  <2>3. QED
    BY <1>1, <1>2, <1>3, <1>6, <2>2 DEF HiddenByFailures
<1>7. CASE Shown' = Shown /\ mFailures' \in {mFailures, mFailures + 1} /\ Hidden' \subseteq Hidden
  <2>1. Cardinality(Hidden') <= Cardinality(Hidden)
    BY <1>1, <1>7, IdsCount
  <2>2. QED
    BY <1>1, <1>2, <1>3, <1>7, <2>1 DEF HiddenByFailures
<1>8. QED
  BY <1>4, <1>5, <1>6, <1>7

\* A commit and its reload show what was staged, with the entry that is new.
LEMMA CommittedKeeps ==
  ASSUME Memory!StoreAssumption, MemoryInv, NEW contents \in Memory!Contents,
         Memory!Committed(contents),
         mTold' \in [MemoryIds -> SUBSET (Versions \union {NoVersion})],
         \A id \in MemoryIds : contents[id] \in mTold'[id],
         \/ \A id \in MemoryIds : contents[id] # NoVersion => mStaged[id] # NoVersion
         \/ \E new \in MemoryIds :
              /\ \A id \in MemoryIds : contents[id] # NoVersion /\ id # new =>
                   mStaged[id] # NoVersion
              /\ mSeen[new] # NoVersion \/ Cardinality(Shown) < MaxEntries
  PROVE  MemoryInv'
<1>1. /\ mStaged' = contents /\ mCommitted' = contents /\ mSeen' = contents
      /\ mFailures' = mFailures
  BY DEF Memory!Committed
<1>2. Hidden' = {} /\ Shown' = {id \in MemoryIds : contents[id] # NoVersion}
  BY <1>1 DEF Hidden, Shown
<1>3. \/ Shown' \subseteq Shown \union Hidden
      \/ /\ Cardinality(Shown) < MaxEntries
         /\ \E id \in MemoryIds : Shown' \subseteq Shown \union Hidden \union {id}
  <2>1. \A id \in MemoryIds : mStaged[id] # NoVersion => id \in Shown \union Hidden
    BY DEF Shown, Hidden
  <2>2. CASE \A id \in MemoryIds : contents[id] # NoVersion => mStaged[id] # NoVersion
    BY <1>2, <2>1, <2>2
  <2>3. ASSUME NEW new \in MemoryIds,
               \A id \in MemoryIds : contents[id] # NoVersion /\ id # new =>
                 mStaged[id] # NoVersion, mSeen[new] # NoVersion \/ Cardinality(Shown) < MaxEntries
        PROVE  \/ Shown' \subseteq Shown \union Hidden
               \/ /\ Cardinality(Shown) < MaxEntries
                  /\ \E id \in MemoryIds : Shown' \subseteq Shown \union Hidden \union {id}
    <3>1. \A id \in MemoryIds : contents[id] # NoVersion => id = new \/ id \in Shown \union Hidden
      BY <2>1, <2>3
    <3>2. mSeen[new] # NoVersion => new \in Shown
      BY DEF Shown
    <3>3. QED
      BY <1>2, <2>3, <3>1, <3>2
  <2>4. QED
    BY <2>2, <2>3
<1>4. HiddenByFailures'
  BY <1>1, <1>2, <1>3, HiddenKeeps
<1>5. MemoryTyped' /\ StagedAsTold'
  BY <1>1 DEF MemoryInv, MemoryTyped, StagedAsTold
<1>6. QED
  BY <1>4, <1>5 DEF MemoryInv

\* An operation that fails half-way hides one entry at most.
LEMMA FailureKeeps ==
  ASSUME Memory!StoreAssumption, MemoryInv, NEW contents \in Memory!Contents,
         Memory!CommitFails(contents) \/ Memory!ReloadFails(contents),
         mTold' \in [MemoryIds -> SUBSET (Versions \union {NoVersion})],
         \A id \in MemoryIds : mTold[id] \subseteq mTold'[id] /\ contents[id] \in mTold'[id],
         \/ \A id \in MemoryIds : contents[id] # NoVersion => mStaged[id] # NoVersion
         \/ \E new \in MemoryIds :
              \A id \in MemoryIds : contents[id] # NoVersion /\ id # new => mStaged[id] # NoVersion
  PROVE  MemoryInv'
<1>1. /\ mStaged' = contents /\ mCommitted' \in {mCommitted, contents} /\ mSeen' = mSeen
      /\ mFailures < MemoryFaults /\ mFailures' = mFailures + 1
  BY DEF Memory!CommitFails, Memory!ReloadFails, Memory!Fail
<1>2. Shown' = Shown
  BY <1>1 DEF Shown
<1>3. Hidden' \subseteq Hidden \/ \E id \in MemoryIds : Hidden' \subseteq Hidden \union {id}
  <2>1. \A id \in MemoryIds : id \in Hidden' =>
          mSeen[id] = NoVersion /\ (contents[id] # NoVersion \/ mCommitted[id] # NoVersion)
    BY <1>1 DEF Hidden
  <2>2. CASE \A id \in MemoryIds : contents[id] # NoVersion => mStaged[id] # NoVersion
    BY <2>1, <2>2 DEF Hidden
  <2>3. ASSUME NEW new \in MemoryIds,
               \A id \in MemoryIds : contents[id] # NoVersion /\ id # new => mStaged[id] # NoVersion
        PROVE  Hidden' \subseteq Hidden \union {new}
    BY <2>1, <2>3 DEF Hidden
  <2>4. QED
    BY <2>2, <2>3
<1>4. HiddenByFailures'
  BY <1>1, <1>2, <1>3, HiddenKeeps
<1>5. MemoryTyped'
  <2>1. mFailures' \in 0 .. MemoryFaults
    BY <1>1 DEF MemoryInv, MemoryTyped, Memory!StoreAssumption
  <2>2. QED
    BY <1>1, <2>1 DEF MemoryInv, MemoryTyped
<1>6. StagedAsTold'
  BY <1>1 DEF MemoryInv, StagedAsTold
<1>7. QED
  BY <1>4, <1>5, <1>6 DEF MemoryInv

\* An entry that is not put back after its old version was deleted.
LEMMA DroppedKeeps ==
  ASSUME Memory!StoreAssumption, MemoryInv, NEW id \in MemoryIds,
         Memory!TurnedAway(id) \/ Memory!NotAdded(id)
  PROVE  MemoryInv'
<1>1. /\ mStaged' = [mStaged EXCEPT ![id] = NoVersion] /\ mCommitted' = mCommitted /\ mSeen' = mSeen
      /\ mTold' = [mTold EXCEPT ![id] = @ \union {NoVersion}]
      /\ mFailures' = mFailures \/ (mFailures < MemoryFaults /\ mFailures' = mFailures + 1)
  <2>1. CASE Memory!TurnedAway(id)
    BY <2>1 DEF Memory!TurnedAway, Memory!Without, Memory!MayNowBe
  <2>2. CASE Memory!NotAdded(id)
    BY <2>2 DEF Memory!NotAdded, Memory!Without, Memory!MayNowBe, Memory!Fail
  <2>3. QED
    BY <2>1, <2>2
<1>2. mStaged \in Memory!Contents /\ mTold \in [MemoryIds -> SUBSET (Versions \union {NoVersion})]
  BY DEF MemoryInv, MemoryTyped
<1>3. mStaged' \in Memory!Contents /\ mTold' \in [MemoryIds -> SUBSET (Versions \union {NoVersion})]
  BY <1>1, <1>2 DEF Memory!Contents
<1>4. \A j \in MemoryIds : /\ mStaged'[j] = IF j = id THEN NoVersion ELSE mStaged[j]
                     /\ mTold'[j] = IF j = id THEN mTold[j] \union {NoVersion} ELSE mTold[j]
  BY <1>1, <1>2 DEF Memory!Contents
<1>5. StagedAsTold'
  BY <1>1, <1>4 DEF MemoryInv, StagedAsTold
<1>6. Shown' = Shown /\ Hidden' \subseteq Hidden
  BY <1>1, <1>4 DEF Shown, Hidden
<1>7. HiddenByFailures'
  <2>1. mFailures' \in {mFailures, mFailures + 1}
    BY <1>1
  <2>2. QED
    BY <1>6, <2>1, HiddenKeeps
<1>8. mFailures' \in 0 .. MemoryFaults
  BY <1>1 DEF MemoryInv, MemoryTyped, Memory!StoreAssumption
<1>9. QED
  BY <1>1, <1>3, <1>5, <1>7, <1>8 DEF MemoryInv, MemoryTyped

\* One entry is stored or deleted, with success or without.
LEMMA EntryKeeps ==
  ASSUME Memory!StoreAssumption, MemoryInv, NEW id \in MemoryIds,
         Memory!Delete(id) \/ \E version \in Versions : Memory!Store(id, version)
  PROVE  MemoryInv'
<1>1. mStaged \in Memory!Contents /\ mTold \in [MemoryIds -> SUBSET (Versions \union {NoVersion})]
      /\ \A j \in MemoryIds : mStaged[j] \in mTold[j]
  BY DEF MemoryInv, MemoryTyped, StagedAsTold
<1>2. ASSUME NEW value \in Versions \union {NoVersion}
      PROVE  /\ [mStaged EXCEPT ![id] = value] \in Memory!Contents
             /\ \A j \in MemoryIds : [mStaged EXCEPT ![id] = value][j] = IF j =
                  id THEN value ELSE mStaged[j]
             /\ \A said \in {{value}, mTold[id] \union {value}} :
                  /\ [mTold EXCEPT ![id] = said] \in [MemoryIds -> SUBSET (Versions \union {NoVersion})]
                  /\ \A j \in MemoryIds : [mTold EXCEPT ![id] = said][j] = IF j =
                       id THEN said ELSE mTold[j]
  BY <1>1, <1>2 DEF Memory!Contents
<1>3. ASSUME NEW value \in Versions \union {NoVersion},
             Memory!Committed([mStaged EXCEPT ![id] = value]),
               mTold' = [mTold EXCEPT ![id] = {value}], value = NoVersion \/
                 mSeen[id] # NoVersion \/ Cardinality(Shown) < MaxEntries
      PROVE  MemoryInv'
  <2> DEFINE contents == [mStaged EXCEPT ![id] = value]
  <2>1. /\ contents \in Memory!Contents
        /\ \A j \in MemoryIds : contents[j] = IF j = id THEN value ELSE mStaged[j]
        /\ mTold' \in [MemoryIds -> SUBSET (Versions \union {NoVersion})]
        /\ \A j \in MemoryIds : mTold'[j] = IF j = id THEN {value} ELSE mTold[j]
    BY <1>2, <1>3
  <2>2. Memory!Committed(contents)
    BY <1>3
  <2> HIDE DEF contents
  <2>3. \A j \in MemoryIds : contents[j] \in mTold'[j]
    BY <1>1, <2>1
  <2>4. /\ \A j \in MemoryIds : contents[j] # NoVersion /\ j # id => mStaged[j] # NoVersion
        /\ value = NoVersion => \A j \in MemoryIds : contents[j] # NoVersion =>
             mStaged[j] # NoVersion
    BY <2>1
  <2>5. QED
    BY <1>3, <2>1, <2>2, <2>3, <2>4, CommittedKeeps
<1>4. ASSUME NEW value \in Versions \union {NoVersion},
             \/ Memory!CommitFails([mStaged EXCEPT ![id] = value])
             \/ Memory!ReloadFails([mStaged EXCEPT ![id] = value]),
             mTold' = [mTold EXCEPT ![id] = @ \union {value}]
      PROVE  MemoryInv'
  <2> DEFINE contents == [mStaged EXCEPT ![id] = value]
  <2>1. /\ contents \in Memory!Contents
        /\ \A j \in MemoryIds : contents[j] = IF j = id THEN value ELSE mStaged[j]
        /\ mTold' \in [MemoryIds -> SUBSET (Versions \union {NoVersion})]
        /\ \A j \in MemoryIds : mTold'[j] = IF j = id THEN mTold[j] \union {value} ELSE mTold[j]
    BY <1>2, <1>4
  <2>2. Memory!CommitFails(contents) \/ Memory!ReloadFails(contents)
    BY <1>4
  <2> HIDE DEF contents
  <2>3. \A j \in MemoryIds : mTold[j] \subseteq mTold'[j] /\ contents[j] \in mTold'[j]
    BY <1>1, <2>1
  <2>4. \A j \in MemoryIds : contents[j] # NoVersion /\ j # id => mStaged[j] # NoVersion
    BY <2>1
  <2>5. QED
    BY <2>1, <2>2, <2>3, <2>4, FailureKeeps
<1>5. CASE Memory!Delete(id)
  BY <1>3, <1>4, <1>5 DEF Memory!Delete, Memory!Without, Memory!MayNowBe
<1>6. ASSUME NEW version \in Versions, Memory!Store(id, version) PROVE MemoryInv'
  <2>1. mSeen[id] # NoVersion \/ Cardinality(Shown) < MaxEntries
    <3>1. Memory!Count(mSeen) = Cardinality(Shown)
      BY SameCount DEF Memory!Count, Shown
    <3>2. Cardinality(Shown) \in Nat /\ MaxEntries \in Nat
      BY IdsCount DEF Shown, Memory!StoreAssumption
    <3>3. QED
      BY <1>6, <3>1, <3>2 DEF Memory!Store, Memory!Full
  <2>2. QED
    BY <1>3, <1>4, <1>6, <2>1 DEF Memory!Store, Memory!With, Memory!MayNowBe
<1>7. QED
  BY <1>5, <1>6

\* Clearing stages and tells no entry.
LEMMA MemoryClearKeeps ==
  ASSUME Memory!StoreAssumption, MemoryInv, Memory!Clear PROVE MemoryInv'
<1>1. /\ Memory!Empty \in Memory!Contents /\ \A id \in MemoryIds : Memory!Empty[id] = NoVersion
      /\ mTold \in [MemoryIds -> SUBSET (Versions \union {NoVersion})]
  BY DEF Memory!Empty, Memory!Contents, MemoryInv, MemoryTyped
<1>2. CASE Memory!Committed(Memory!Empty) /\ mTold' = [id \in MemoryIds |-> {NoVersion}]
  <2>1. /\ mTold' \in [MemoryIds -> SUBSET (Versions \union {NoVersion})]
        /\ \A id \in MemoryIds : Memory!Empty[id] \in mTold'[id]
    BY <1>1, <1>2
  <2>2. QED
    BY <1>1, <1>2, <2>1, CommittedKeeps
<1>3. CASE /\ Memory!CommitFails(Memory!Empty) \/ Memory!ReloadFails(Memory!Empty)
           /\ mTold' = [id \in MemoryIds |-> mTold[id] \union {NoVersion}]
  <2>1. /\ mTold' \in [MemoryIds -> SUBSET (Versions \union {NoVersion})]
        /\ \A id \in MemoryIds : mTold[id] \subseteq mTold'[id] /\ Memory!Empty[id] \in mTold'[id]
    BY <1>1, <1>3
  <2>2. QED
    BY <1>1, <1>3, <2>1, FailureKeeps
<1>4. QED
  BY <1>2, <1>3 DEF Memory!Clear

\* After a kill the index shows what was committed.
LEMMA ReopenKeeps ==
  ASSUME Memory!StoreAssumption, MemoryInv, Memory!Reopen PROVE MemoryInv'
<1>1. /\ mStaged' = mCommitted /\ mSeen' = mCommitted /\ mCommitted' = mCommitted
      /\ mFailures' = mFailures /\ mTold' = mTold
  BY DEF Memory!Reopen
<1>2. Hidden' = {} /\ Shown' \subseteq Shown \union Hidden
  BY <1>1 DEF Hidden, Shown
<1>3. HiddenByFailures'
  BY <1>1, <1>2, HiddenKeeps
<1>4. QED
  BY <1>1, <1>3 DEF MemoryInv, MemoryTyped, StagedAsTold

\* The invariant of the memory store holds in every reachable state, for any
\* entries, any capacity, and any number of failures and kills.
THEOREM MemoryInvariant ==
  ASSUME Memory!StoreAssumption PROVE Memory!Spec => []MemoryInv
<1>1. ASSUME Memory!Init PROVE MemoryInv
  <2>1. MemoryTyped /\ StagedAsTold
    BY <1>1 DEF Memory!Init, Memory!Empty, Memory!Contents, MemoryTyped, StagedAsTold,
       Memory!StoreAssumption
  <2>2. Shown = {} /\ Hidden = {}
    BY <1>1 DEF Memory!Init, Memory!Empty, Shown, Hidden
  <2>3. HiddenByFailures
    BY <1>1, <2>2, FS_EmptySet DEF Memory!Init, HiddenByFailures, Memory!StoreAssumption
  <2>4. QED
    BY <2>1, <2>3 DEF MemoryInv
<1>2. ASSUME MemoryInv, [Memory!Next]_(Memory!vars) PROVE MemoryInv'
  <2>1. CASE UNCHANGED Memory!vars
    BY <1>2, <2>1 DEF Memory!vars, MemoryInv, MemoryTyped, StagedAsTold, HiddenByFailures,
       Shown, Hidden
  <2>2. QED
    BY <1>2, <2>1, EntryKeeps, DroppedKeeps, MemoryClearKeeps, ReopenKeeps DEF Memory!Next
<1>3. QED
  BY <1>1, <1>2, PTL DEF Memory!Spec

\* What a caller was told is what the index holds and shows, over kills and the
\* failures of other operations, which leave their changes in the writer.
THEOREM MemoryKeepsWord ==
  ASSUME Memory!StoreAssumption PROVE Memory!Spec => []Memory!KeptAsTold
<1>1. MemoryInv => Memory!KeptAsTold
  BY DEF MemoryInv, StagedAsTold, Memory!KeptAsTold
<1>2. QED
  BY <1>1, MemoryInvariant, PTL

\* The index outgrows max_entries by no more than the operations that failed:
\* store looks at what the reader shows, and a failure may hide an entry.
THEOREM MemoryStaysWithin ==
  ASSUME Memory!StoreAssumption PROVE Memory!Spec => []Memory!WithinCapacity
<1>1. ASSUME MemoryInv PROVE Memory!WithinCapacity
  <2> DEFINE held == {id \in MemoryIds : mCommitted[id] # NoVersion}
  <2>1. Cardinality(held) <= Cardinality(Shown \union Hidden)
    <3>1. held \in SUBSET MemoryIds /\ Shown \union Hidden \in SUBSET MemoryIds
          /\ held \subseteq Shown \union Hidden
      BY DEF Shown, Hidden
    <3> HIDE DEF held
    <3>2. QED
      BY <3>1, IdsCount
  <2>2. /\ Cardinality(Shown \union Hidden) <= Cardinality(Shown) + Cardinality(Hidden)
        /\ Cardinality(Shown) \in Nat /\ Cardinality(Hidden) \in Nat
        /\ Cardinality(Shown \union Hidden) \in Nat /\ Cardinality(held) \in Nat
    <3>1. /\ Shown \in SUBSET MemoryIds /\ Hidden \in SUBSET MemoryIds /\ held \in SUBSET MemoryIds
          /\ Shown \union Hidden \in SUBSET MemoryIds
      BY DEF Shown, Hidden
    <3> HIDE DEF held
    <3>2. QED
      BY <3>1, IdsCount
  <2>3. Cardinality(held) <= MaxEntries + mFailures
    <3>1. mFailures \in Nat /\ MaxEntries \in Nat
      BY <1>1 DEF MemoryInv, MemoryTyped, Memory!StoreAssumption
    <3>2. Cardinality(Shown) + Cardinality(Hidden) <= MaxEntries + mFailures
      BY <1>1 DEF MemoryInv, HiddenByFailures
    <3> HIDE DEF held
    <3>3. QED
      BY <2>1, <2>2, <3>1, <3>2
  <2>4. Memory!Count(mCommitted) = Cardinality(held)
    BY SameCount DEF Memory!Count
  <2>5. QED
    BY <2>3, <2>4 DEF Memory!WithinCapacity
<1>2. QED
  BY <1>1, MemoryInvariant, PTL

\* The types of the three copies and of what was told.
THEOREM MemoryStates == ASSUME Memory!StoreAssumption PROVE Memory!Spec => []Memory!TypeOK
<1>1. MemoryInv => Memory!TypeOK
  BY DEF MemoryInv, MemoryTyped, Memory!TypeOK
<1>2. QED
  BY <1>1, MemoryInvariant, PTL

-----------------------------------------------------------------------------
(* ChatSettings: a change stays, unless an old copy is saved over it        *)


SettingsTyped ==
  /\ eText \in Setting!Settings /\ eMine \in [Callers -> Setting!Settings]
  /\ ePc \in [Callers -> {"idle", "lists", "loaded", "saving"}] /\ eKey \in [Callers -> Keys]
  /\ eLast \in Setting!Settings /\ eBehind \in [Callers -> SUBSET Keys] /\ eUndone \subseteq Keys

\* A copy says what was reported last, but for the setting it changes, for what
\* was changed after it was loaded, and for what had been undone before.
CopiesAreOfLast ==
  \A t \in Callers : ePc[t] # "idle" => \A k \in Keys :
    k = eKey[t] \/ eMine[t][k] = eLast[k] \/ k \in eBehind[t] \/ k \in eUndone

SettingsInv == SettingsTyped /\ CopiesAreOfLast /\ Setting!ChangesStay

\* A command loads the file as it is, or the defaults in place of an empty one.
LEMMA LoadKeeps ==
  ASSUME Setting!SettingsAssumption, SettingsInv, NEW t \in Callers, NEW k \in Keys,
         NEW v \in Values, Setting!Change(t, k, v) \/ Setting!SwitchModel(t, k, v)
  PROVE  SettingsInv'
<1> DEFINE loaded == IF eKind = "whole" THEN eText ELSE Setting!Defaults
<1>1. /\ eKind' = eKind /\ eText' = eText /\ eLast' = eLast /\ eUndone' = eUndone
      /\ eMine' = [eMine EXCEPT ![t] = [loaded EXCEPT ![k] = v]]
      /\ eKey' = [eKey EXCEPT ![t] = k]
      /\ eBehind' = [eBehind EXCEPT ![t] = IF eKind = "whole" THEN {} ELSE Keys]
      /\ \E at \in {"lists", "loaded"} : ePc' = [ePc EXCEPT ![t] = at]
  BY DEF Setting!Change, Setting!SwitchModel, Setting!Load, Setting!Go, Setting!file
<1>2. /\ loaded \in Setting!Settings
      /\ [loaded EXCEPT ![k] = v] \in Setting!Settings
      /\ \A j \in Keys : j # k => [loaded EXCEPT ![k] = v][j] = loaded[j]
  BY DEF SettingsInv, SettingsTyped, Setting!Settings, Setting!Defaults, Setting!SettingsAssumption
<1>3. eKind = "whole" => \A j \in Keys : loaded[j] = eLast[j] \/ j \in eUndone
  BY DEF SettingsInv, Setting!ChangesStay
<1> HIDE DEF loaded
<1>4. SettingsTyped'
  BY <1>1, <1>2 DEF SettingsInv, SettingsTyped
<1>5. CopiesAreOfLast'
  <2>1. \A u \in Callers : u # t =>
          ePc'[u] = ePc[u] /\ eMine'[u] = eMine[u] /\ eKey'[u] = eKey[u] /\ eBehind'[u] = eBehind[u]
    BY <1>1 DEF SettingsInv, SettingsTyped
  <2>2. /\ eMine'[t] = [loaded EXCEPT ![k] = v] /\ eKey'[t] = k
        /\ eBehind'[t] = IF eKind = "whole" THEN {} ELSE Keys
    BY <1>1 DEF SettingsInv, SettingsTyped
  <2>3. \A j \in Keys : j = eKey'[t] \/ eMine'[t][j] = eLast[j] \/ j \in eBehind'[t] \/
          j \in eUndone
    BY <1>2, <1>3, <2>2
  <2>4. QED
    BY <1>1, <2>1, <2>3 DEF SettingsInv, CopiesAreOfLast
<1>6. Setting!ChangesStay'
  BY <1>1 DEF SettingsInv, Setting!ChangesStay
<1>7. QED
  BY <1>4, <1>5, <1>6 DEF SettingsInv

\* What a save undoes is what its copy was behind of.
LEMMA SaveKeeps ==
  ASSUME Setting!SettingsAssumption, SettingsInv, NEW t \in Callers, Setting!Write(t)
  PROVE  SettingsInv'
<1>1. /\ ePc[t] = "saving" /\ ePc' = [ePc EXCEPT ![t] = "idle"]
      /\ eText' = eMine[t] /\ eMine' = eMine /\ eKey' = eKey
      /\ eLast' = [eLast EXCEPT ![eKey[t]] = eMine[t][eKey[t]]]
      /\ eUndone' = (eUndone \union eBehind[t]) \ {eKey[t]}
      /\ eBehind' = [u \in Callers |-> eBehind[u] \union {eKey[t]}]
  BY DEF Setting!Write, Setting!Go
<1>2. /\ eKey[t] \in Keys /\ eMine[t] \in Setting!Settings /\ eLast \in Setting!Settings
      /\ eMine[t][eKey[t]] \in Values
      /\ \A u \in Callers : eKey[u] \in Keys /\ eBehind[u] \subseteq Keys
  BY DEF SettingsInv, SettingsTyped, Setting!Settings
<1>3. \A k \in Keys : eLast'[k] = IF k = eKey[t] THEN eMine[t][eKey[t]] ELSE eLast[k]
  BY <1>1, <1>2 DEF Setting!Settings
<1>4. SettingsTyped'
  <2>1. eLast' \in Setting!Settings
    BY <1>1, <1>2 DEF Setting!Settings
  <2>2. QED
    BY <1>1, <1>2, <2>1 DEF SettingsInv, SettingsTyped
<1>5. CopiesAreOfLast'
  <2>1. SUFFICES ASSUME NEW u \in Callers, ePc'[u] # "idle", NEW k \in Keys
                 PROVE  k = eKey[u] \/ eMine[u][k] = eLast'[k] \/ k \in eBehind'[u] \/
                   k \in eUndone'
    BY <1>1 DEF CopiesAreOfLast
  <2>2. ePc[u] # "idle" /\ eBehind'[u] = eBehind[u] \union {eKey[t]}
    BY <1>1, <2>1 DEF SettingsInv, SettingsTyped
  <2>3. k = eKey[u] \/ eMine[u][k] = eLast[k] \/ k \in eBehind[u] \/ k \in eUndone
    BY <2>1, <2>2 DEF SettingsInv, CopiesAreOfLast
  <2>4. QED
    BY <1>1, <1>3, <2>1, <2>2, <2>3
<1>6. Setting!ChangesStay'
  <2>1. ASSUME NEW k \in Keys PROVE eText'[k] = eLast'[k] \/ k \in eUndone'
    <3>1. k = eKey[t] \/ eMine[t][k] = eLast[k] \/ k \in eBehind[t] \/ k \in eUndone
      BY <1>1 DEF SettingsInv, CopiesAreOfLast
    <3>2. QED
      BY <1>1, <1>3, <3>1
  <2>2. QED
    BY <2>1 DEF Setting!ChangesStay
<1>7. QED
  BY <1>4, <1>5, <1>6 DEF SettingsInv

\* The invariant of the settings' file and its copies holds in every reachable
\* state, for any number of commands at a time.
THEOREM SettingsInvariant ==
  ASSUME Setting!SettingsAssumption PROVE Setting!Spec => []SettingsInv
<1>1. ASSUME Setting!Init PROVE SettingsInv
  <2>1. (CHOOSE k \in Keys : TRUE) \in Keys
    BY DEF Setting!SettingsAssumption
  <2>2. Setting!Defaults \in Setting!Settings
    BY DEF Setting!Defaults, Setting!Settings, Setting!SettingsAssumption
  <2>3. SettingsTyped
    BY <1>1, <2>1, <2>2 DEF Setting!Init, SettingsTyped
  <2>4. QED
    BY <1>1, <2>3 DEF Setting!Init, SettingsInv, CopiesAreOfLast, Setting!ChangesStay
<1>2. ASSUME SettingsInv, [Setting!Next]_(Setting!vars) PROVE SettingsInv'
  <2>1. CASE Setting!Crash
    BY <1>2, <2>1 DEF Setting!Crash, SettingsInv, SettingsTyped, CopiesAreOfLast,
       Setting!ChangesStay, Setting!file, Setting!history
  <2>2. ASSUME NEW t \in Callers, Setting!Listed(t) \/ Setting!Truncate(t) \/ Setting!WriteFails(t)
        PROVE  SettingsInv'
    <3>1. /\ UNCHANGED <<eText, eMine, eKey, eLast, eBehind, eUndone>>
          /\ eKind' \in {eKind, "empty"} /\ ePc[t] # "idle"
          /\ \E at \in {"idle", "loaded", "saving"} : ePc' = [ePc EXCEPT ![t] = at]
      BY <2>2 DEF Setting!Listed, Setting!Truncate, Setting!WriteFails, Setting!Go,
         Setting!file, Setting!history
    <3>2. QED
      BY <1>2, <3>1 DEF SettingsInv, SettingsTyped, CopiesAreOfLast, Setting!ChangesStay
  <2>3. CASE UNCHANGED Setting!vars
    BY <1>2, <2>3 DEF Setting!vars, Setting!file, Setting!history, SettingsInv, SettingsTyped,
       CopiesAreOfLast, Setting!ChangesStay
  <2>4. QED
    BY <1>2, <2>1, <2>2, <2>3, LoadKeeps, SaveKeeps DEF Setting!Next
<1>3. QED
  BY <1>1, <1>2, PTL DEF Setting!Spec

\* A change that was reported stays until its setting is changed again, unless
\* a command that had loaded the file before, or found it empty, saved after it.
THEOREM SettingsStay ==
  ASSUME Setting!SettingsAssumption PROVE Setting!Spec => []Setting!ChangesStay
<1>1. SettingsInv => Setting!ChangesStay
  BY DEF SettingsInv
<1>2. QED
  BY <1>1, SettingsInvariant, PTL

\* The file's kind, and the counts of calls and of faults.
SettingsCounted ==
  /\ eKind \in {"whole", "empty", "broken"}
  /\ eCalls \in 0 .. MaxCalls /\ eFaults \in 0 .. MaxFaults

\* The file is whole at first.
LEMMA SettingsCountedInit ==
  ASSUME Setting!SettingsAssumption, Setting!Init PROVE SettingsCounted
BY DEF Setting!SettingsAssumption, Setting!Init, SettingsCounted

\* Commands and faults are counted up to their bounds.
LEMMA SettingsCountedStep ==
  ASSUME Setting!SettingsAssumption, SettingsCounted, [Setting!Next]_(Setting!vars)
  PROVE  SettingsCounted'
<1> USE DEF Setting!SettingsAssumption, SettingsCounted
<1>1. CASE Setting!Crash \/ \E t \in Callers : Setting!WriteFails(t)
  BY <1>1 DEF Setting!Crash, Setting!WriteFails, Setting!Fault, Setting!file
<1>2. CASE \E t \in Callers : \E k \in Keys, v \in Values : Setting!Load(t, k, v)
  BY <1>2 DEF Setting!Load, Setting!file
<1>3. CASE \E t \in Callers : Setting!Listed(t) \/ Setting!Truncate(t) \/ Setting!Write(t)
  BY <1>3 DEF Setting!Listed, Setting!Truncate, Setting!Write, Setting!file
<1>4. CASE UNCHANGED Setting!vars
  BY <1>4 DEF Setting!vars, Setting!file
<1>5. QED
  BY <1>1, <1>2, <1>3, <1>4 DEF Setting!Next, Setting!Change, Setting!SwitchModel

\* The types of the file, the copies and the history.
LEMMA SettingsTypedFollows ==
  ASSUME Setting!SettingsAssumption, SettingsInv, SettingsCounted PROVE Setting!TypeOK
BY DEF SettingsInv, SettingsTyped, SettingsCounted, Setting!TypeOK

\* The types of the file, the copies of it and what was reported.
THEOREM SettingsStates ==
  ASSUME Setting!SettingsAssumption PROVE Setting!Spec => []Setting!TypeOK
<1>1. Setting!Init => SettingsCounted
  BY SettingsCountedInit
<1>2. SettingsInv /\ SettingsCounted /\ [Setting!Next]_(Setting!vars) => (SettingsCounted)'
  BY SettingsCountedStep
<1>3. SettingsInv /\ SettingsCounted => Setting!TypeOK
  BY SettingsTypedFollows
<1>4. QED
  BY <1>1, <1>2, <1>3, SettingsInvariant, PTL DEF Setting!Spec

-----------------------------------------------------------------------------
(* SkillLearning: the registry, its files and the statistics of its events  *)


\* What the consumer may still have to do for an event.
Todos ==
  {<<>>, <<"up">>, <<"patch">>, <<"up", "patch">>,
   <<"up", "create", "describe">>, <<"create", "describe">>, <<"describe">>,
   <<"down">>, <<"down", "deprecate">>, <<"deprecate">>}
Creating == {<<"up", "create", "describe">>, <<"create", "describe">>, <<"describe">>}
Judging == {<<"down", "deprecate">>, <<"deprecate">>}

Entries == [state : Learn!States, conf : 0 .. Top, text : BOOLEAN, base : 0 .. Top]
Statistics == [processed : Nat, streak : [Learn!Skills -> Nat]]

LearnTyped ==
  /\ kBus \in Seq(Learn!Event) /\ kPublished \in 0 .. MaxEvents
  /\ kConsumer \in [pc : {"idle", "append", "handle", "act", "save", "done", "dead"},
                    event : Learn!Event \union {Learn!Nothing}, since : 0 .. SaveEvery - 1,
                    todo : Todos, lost : BOOLEAN, stopping : BOOLEAN]
  /\ kStats \in Statistics /\ kSaved \in Statistics
  /\ kSkill \in [Learn!Skills -> Entries]
  /\ kFile \in [Learn!Skills -> Learn!Manifest]

\* Events are of skills that are registered, and a variant has a place.
Fits(event) ==
  /\ kSkill[event.skill].state # "none"
  /\ event.kind = "loose" => event.skill < Depth

EventsFit ==
  /\ kSkill[1].state # "none"
  /\ \A k \in 1 .. Len(kBus) : Fits(kBus[k])
  /\ Fits(kConsumer.event)
  /\ kConsumer.todo \in Creating => kConsumer.event.skill < Depth

\* The files follow at every moment, not only between two events.
FilesAgree ==
  \A n \in Learn!Skills :
    /\ kSkill[n].state = "live" =>
         kFile[n] = [state |-> "live", conf |-> kSkill[n].conf, text |-> kSkill[n].text]
    /\ kSkill[n].state = "deprecated" <=> kFile[n].state = "deprecated"

\* The manifest of a variant is written before its instructions.
ManifestFirst ==
  kConsumer.todo = <<"describe">> =>
    \/ kSkill[kConsumer.event.skill + 1].state # "none"
    \/ kFile[kConsumer.event.skill + 1]
         = [state |-> "live", conf |-> Learn!Default, text |-> FALSE]

\* A long streak has led to a judgement, or is about to.
Judged ==
  \A n \in Learn!Skills : kStats.streak[n] >= Streak =>
    \/ kSkill[n].state = "deprecated"
    \/ kConsumer.pc = "act" /\ kConsumer.event.skill = n /\ kConsumer.todo \in Judging
SavedJudged ==
  \A n \in Learn!Skills : kSaved.streak[n] >= Streak => kFile[n].state = "deprecated"

\* How many events the saved statistics may lack.
Lacking ==
  CASE kConsumer.pc \in {"idle", "append", "handle"} -> kConsumer.since
    [] kConsumer.pc = "act" -> kConsumer.since + 1
    [] kConsumer.pc \in {"save", "dead"} -> SaveEvery
    [] kConsumer.pc = "done" -> 0
Behind ==
  /\ kStats.processed <= kSaved.processed + Lacking
  /\ kConsumer.pc = "done" => kSaved = kStats

LearnInv ==
  /\ LearnTyped /\ SavedJudged /\ Behind
  /\ kFile[1].state # "none"
  /\ Learn!Up => EventsFit /\ FilesAgree /\ ManifestFirst /\ Judged
  /\ kConsumer.pc # "act" => kConsumer.todo = <<>>
  /\ kConsumer.pc = "dead" => kBus = <<>>

\* The constants as numbers.
LEMMA LearnConstants ==
  ASSUME Learn!LearningAssumption
  PROVE  /\ Depth \in Nat \ {0} /\ Top \in Nat \ {0} /\ Streak \in Nat \ {0}
         /\ Capacity \in Nat \ {0} /\ SaveEvery \in Nat \ {0} /\ MaxLog \in Nat \ {0}
         /\ MaxEvents \in Nat /\ MaxCrashes \in Nat
         /\ Learn!Default \in 0 .. Top /\ 0 \in 0 .. Top /\ 1 \in Learn!Skills
         /\ Learn!Nothing.skill \in Learn!Skills /\ 0 \in 0 .. SaveEvery - 1
         /\ \A n \in Learn!Skills : n \in Nat /\ (n < Depth => n + 1 \in Learn!Skills)
<1>1. /\ Depth \in Nat \ {0} /\ Top \in Nat \ {0} /\ Streak \in Nat \ {0}
      /\ Capacity \in Nat \ {0} /\ SaveEvery \in Nat \ {0} /\ MaxLog \in Nat \ {0}
      /\ MaxEvents \in Nat /\ MaxCrashes \in Nat
  BY DEF Learn!LearningAssumption
<1>2. Learn!Default \in 0 .. Top /\ 0 \in 0 .. Top /\ 0 \in 0 .. SaveEvery - 1
  BY <1>1 DEF Learn!Default
<1>3. /\ 1 \in Learn!Skills /\ Learn!Nothing.skill \in Learn!Skills
      /\ \A n \in Learn!Skills : n \in Nat /\ (n < Depth => n + 1 \in Learn!Skills)
  BY <1>1 DEF Learn!Skills, Learn!Nothing
<1>4. QED
  BY <1>1, <1>2, <1>3

\* The event that the consumer is at is of a known skill.
LEMMA EventTyped ==
  ASSUME Learn!LearningAssumption, LearnTyped
  PROVE  /\ kConsumer.event \in Learn!Event \union {Learn!Nothing}
         /\ kConsumer.event.skill \in Learn!Skills
         /\ \A e \in Learn!Event : e.skill \in Learn!Skills /\ e.kind \in Learn!Kinds
         /\ kConsumer.event.kind \in Learn!Kinds
<1>1. kConsumer.event \in Learn!Event \union {Learn!Nothing}
  BY DEF LearnTyped
<1>2. \A e \in Learn!Event : e.skill \in Learn!Skills /\ e.kind \in Learn!Kinds
  BY DEF Learn!Event
<1>3. Learn!Nothing.skill \in Learn!Skills /\ Learn!Nothing.kind \in Learn!Kinds
  BY LearnConstants DEF Learn!Nothing, Learn!Kinds
<1>4. QED
  BY <1>1, <1>2, <1>3

\* What was loaded says what the files say.
LEMMA LoadedTyped ==
  ASSUME NEW files \in [Learn!Skills -> Learn!Manifest]
  PROVE  /\ Learn!Loaded(files) \in [Learn!Skills -> Entries]
         /\ \A n \in Learn!Skills :
              /\ Learn!Loaded(files)[n].state = files[n].state
              /\ Learn!Loaded(files)[n].conf = files[n].conf
              /\ Learn!Loaded(files)[n].text = files[n].text
              /\ files[n].state = "live" =>
                   files[n] = [state |-> "live", conf |-> files[n].conf, text |-> files[n].text]
<1>1. \A n \in Learn!Skills :
        /\ files[n].state \in Learn!States /\ files[n].conf \in 0 .. Top
        /\ files[n].text \in BOOLEAN
        /\ files[n] = [state |-> files[n].state, conf |-> files[n].conf, text |-> files[n].text]
  BY DEF Learn!Manifest
<1>2. Learn!Loaded(files) \in [Learn!Skills -> Entries]
  BY <1>1 DEF Learn!Loaded, Entries
<1>3. \A n \in Learn!Skills :
        /\ Learn!Loaded(files)[n].state = files[n].state
        /\ Learn!Loaded(files)[n].conf = files[n].conf
        /\ Learn!Loaded(files)[n].text = files[n].text
  BY DEF Learn!Loaded
<1>4. QED
  BY <1>1, <1>2, <1>3

\* At first one skill is registered, as its files say.
LEMMA LearnInvInit ==
  ASSUME Learn!LearningAssumption, Learn!Init
  PROVE  LearnInv
<1>1. /\ kBus = <<>> /\ kPublished = 0 /\ kConsumer = Learn!Start
      /\ kStats = [processed |-> 0, streak |-> [n \in Learn!Skills |-> 0]] /\ kSaved = kStats
      /\ kFile = [n \in Learn!Skills |->
                    IF n = 1 THEN [state |-> "live", conf |-> Learn!Default, text |-> TRUE]
                    ELSE [state |-> "none", conf |-> 0, text |-> FALSE]]
      /\ kSkill = Learn!Loaded(kFile)
  BY DEF Learn!Init, Learn!Unknown
<1>2. /\ [state |-> "live", conf |-> Learn!Default, text |-> TRUE] \in Learn!Manifest
      /\ [state |-> "none", conf |-> 0, text |-> FALSE] \in Learn!Manifest
  BY LearnConstants DEF Learn!Manifest, Learn!States
<1>3. /\ kFile \in [Learn!Skills -> Learn!Manifest] /\ kFile[1].state = "live"
  BY <1>1, <1>2, LearnConstants
<1>4. /\ kSkill \in [Learn!Skills -> Entries]
      /\ \A n \in Learn!Skills :
           /\ kSkill[n].state = kFile[n].state /\ kSkill[n].conf = kFile[n].conf
           /\ kSkill[n].text = kFile[n].text
           /\ kFile[n].state = "live" =>
                kFile[n] = [state |-> "live", conf |-> kFile[n].conf, text |-> kFile[n].text]
  BY <1>1, <1>3, LoadedTyped
<1>5. /\ kConsumer.pc = "idle" /\ kConsumer.event = Learn!Nothing /\ kConsumer.since = 0
      /\ kConsumer.todo = <<>>
      /\ kConsumer \in [pc : {"idle", "append", "handle", "act", "save", "done", "dead"},
                        event : Learn!Event \union {Learn!Nothing}, since : 0 .. SaveEvery - 1,
                        todo : Todos, lost : BOOLEAN, stopping : BOOLEAN]
  BY <1>1, LearnConstants DEF Learn!Start, Todos
<1>6. /\ kStats \in Statistics /\ kSaved \in Statistics
      /\ kStats.processed = 0 /\ kSaved = kStats
      /\ \A n \in Learn!Skills : kStats.streak[n] = 0
  BY <1>1 DEF Statistics
<1>7. LearnTyped
  <2>1. kBus \in Seq(Learn!Event) /\ kPublished \in 0 .. MaxEvents
    BY <1>1, LearnConstants
  <2>2. QED
    BY <2>1, <1>3, <1>4, <1>5, <1>6 DEF LearnTyped
<1>8. SavedJudged /\ Judged /\ Behind
  BY <1>5, <1>6, LearnConstants DEF SavedJudged, Judged, Behind, Lacking
<1>9. EventsFit
  <2>1. Learn!Nothing.skill = 1 /\ Learn!Nothing.kind = "other" /\ 1 \in Learn!Skills
    BY LearnConstants DEF Learn!Nothing
  <2>2. kSkill[1].state # "none"
    BY <2>1, <1>3, <1>4
  <2>3. <<>> \notin Creating
    BY DEF Creating
  <2>4. Fits(kConsumer.event)
    BY <2>1, <2>2, <1>5 DEF Fits
  <2>5. Len(kBus) = 0
    BY <1>1
  <2>6. QED
    BY <2>2, <2>3, <2>4, <2>5, <1>5 DEF EventsFit
<1>10. FilesAgree
  BY <1>4 DEF FilesAgree
<1>11. ManifestFirst
  <2>1. <<>> # <<"describe">>
    OBVIOUS
  <2>2. QED
    BY <2>1, <1>5 DEF ManifestFirst
<1>12. QED
  BY <1>1, <1>3, <1>5, <1>7, <1>8, <1>9, <1>10, <1>11 DEF LearnInv

\* What a write may do to the registry and its files: they still agree, no
\* skill is forgotten, and a deprecated one stays deprecated in both.
SkillsMove ==
  /\ kSkill' \in [Learn!Skills -> Entries] /\ kFile' \in [Learn!Skills -> Learn!Manifest]
  /\ FilesAgree'
  /\ \A m \in Learn!Skills :
       /\ kSkill[m].state # "none" => kSkill'[m].state # "none"
       /\ kFile[m].state # "none" => kFile'[m].state # "none"
       /\ kSkill[m].state = "deprecated" => kSkill'[m].state = "deprecated"
       /\ kFile[m].state = "deprecated" => kFile'[m].state = "deprecated"

\* The registry and its files before a write.
SkillsTyped == kSkill \in [Learn!Skills -> Entries] /\ kFile \in [Learn!Skills -> Learn!Manifest]

\* The files agree after a write that changes the entries of one skill only.
LEMMA OneSkillMoves ==
  ASSUME SkillsTyped, FilesAgree,
         NEW n \in Learn!Skills, NEW entry \in Entries, NEW manifest \in Learn!Manifest,
         kSkill' = [kSkill EXCEPT ![n] = entry], kFile' = [kFile EXCEPT ![n] = manifest],
         entry.state = "live" =>
           manifest.state = "live" /\ manifest.conf = entry.conf /\ manifest.text = entry.text,
         entry.state = "deprecated" <=> manifest.state = "deprecated",
         kSkill[n].state # "none" => entry.state # "none",
         kFile[n].state # "none" => manifest.state # "none",
         kSkill[n].state = "deprecated" => entry.state = "deprecated"
  PROVE  SkillsMove
<1>1. /\ kSkill' \in [Learn!Skills -> Entries] /\ kFile' \in [Learn!Skills -> Learn!Manifest]
      /\ kSkill'[n] = entry /\ kFile'[n] = manifest
      /\ \A m \in Learn!Skills : m # n => kSkill'[m] = kSkill[m] /\ kFile'[m] = kFile[m]
  BY DEF SkillsTyped
<1>2. manifest = [state |-> manifest.state, conf |-> manifest.conf, text |-> manifest.text]
  BY DEF Learn!Manifest
<1>3. FilesAgree'
  <2>1. ASSUME NEW m \in Learn!Skills
        PROVE  /\ kSkill'[m].state = "live" =>
                    kFile'[m] = [state |-> "live", conf |-> kSkill'[m].conf,
                      text |-> kSkill'[m].text]
               /\ kSkill'[m].state = "deprecated" <=> kFile'[m].state = "deprecated"
    <3>1. CASE m = n
      BY <3>1, <1>1, <1>2
    <3>2. CASE m # n
      BY <3>2, <1>1 DEF FilesAgree
    <3>3. QED
      BY <3>1, <3>2
  <2>2. QED
    BY <2>1 DEF FilesAgree
<1>4. \A m \in Learn!Skills : kSkill[m].state = "deprecated" <=> kFile[m].state = "deprecated"
  BY DEF FilesAgree
<1>5. QED
  BY <1>1, <1>3, <1>4 DEF SkillsMove

\* The parts of an entry and of a manifest.
LEMMA PartsTyped ==
  ASSUME SkillsTyped, NEW n \in Learn!Skills
  PROVE  /\ kSkill[n] \in Entries /\ kFile[n] \in Learn!Manifest
         /\ kSkill[n].state \in Learn!States /\ kFile[n].state \in Learn!States
         /\ kSkill[n].conf \in 0 .. Top /\ kSkill[n].base \in 0 .. Top
<1>1. kSkill[n] \in Entries /\ kFile[n] \in Learn!Manifest
  BY DEF SkillsTyped
<1>2. QED
  BY <1>1 DEF Entries, Learn!Manifest

\* What the agreement says of the parts of one skill's files.
LEMMA PartsAgree ==
  ASSUME FilesAgree, NEW n \in Learn!Skills
  PROVE  /\ kSkill[n].state = "live" =>
              kFile[n].state = "live" /\ kFile[n].conf = kSkill[n].conf /\
                kFile[n].text = kSkill[n].text
         /\ kSkill[n].state = "deprecated" <=> kFile[n].state = "deprecated"
<1>1. kSkill[n].state = "live" =>
        kFile[n] = [state |-> "live", conf |-> kSkill[n].conf, text |-> kSkill[n].text]
  BY DEF FilesAgree
<1>2. kSkill[n].state = "deprecated" <=> kFile[n].state = "deprecated"
  BY DEF FilesAgree
<1>3. QED
  BY <1>1, <1>2

\* adjust_confidence keeps the registry and its files together.
LEMMA AdjustMoves ==
  ASSUME SkillsTyped, FilesAgree, NEW n \in Learn!Skills, NEW conf \in 0 .. Top,
         kSkill[n].state # "none", Learn!Adjust(n, conf)
  PROVE  SkillsMove
<1> DEFINE entry == [kSkill[n] EXCEPT !.conf = conf]
<1> DEFINE manifest == [kFile[n] EXCEPT !.conf = conf, !.state = kSkill[n].state]
<1>1. kSkill' = [kSkill EXCEPT ![n] = entry]
  BY DEF Learn!Adjust
<1>2. kFile' = [kFile EXCEPT ![n] = manifest]
  BY DEF Learn!Adjust, SkillsTyped
<1>3. /\ entry \in Entries /\ entry.state = kSkill[n].state /\ entry.conf = conf
      /\ entry.text = kSkill[n].text
  BY PartsTyped DEF Entries
<1>4. /\ manifest \in Learn!Manifest /\ manifest.state = kSkill[n].state /\ manifest.conf = conf
      /\ manifest.text = kFile[n].text
  BY PartsTyped DEF Learn!Manifest
<1>5. kSkill[n].state = "live" => kFile[n].text = kSkill[n].text
  BY PartsAgree
<1>6. kFile[n].state = "deprecated" <=> kSkill[n].state = "deprecated"
  BY PartsAgree
<1> HIDE DEF entry, manifest
<1>7. QED
  BY <1>1, <1>2, <1>3, <1>4, <1>5, <1>6, OneSkillMoves

\* deprecate_skill marks the skill in both.
LEMMA DeprecateMoves ==
  ASSUME SkillsTyped, FilesAgree, NEW n \in Learn!Skills, Learn!Deprecate(n)
  PROVE  SkillsMove /\ kSkill'[n].state = "deprecated"
<1> DEFINE entry == [kSkill[n] EXCEPT !.state = "deprecated"]
<1> DEFINE manifest == [kFile[n] EXCEPT !.state = "deprecated", !.conf = kSkill[n].base]
<1>1. kSkill' = [kSkill EXCEPT ![n] = entry]
  BY DEF Learn!Deprecate
<1>2. kFile' = [kFile EXCEPT ![n] = manifest]
  BY DEF Learn!Deprecate, SkillsTyped
<1>3. entry \in Entries /\ entry.state = "deprecated"
  BY PartsTyped DEF Entries, Learn!States
<1>4. manifest \in Learn!Manifest /\ manifest.state = "deprecated"
  BY PartsTyped DEF Learn!Manifest, Learn!States
<1> HIDE DEF entry, manifest
<1>5. SkillsMove
  BY <1>1, <1>2, <1>3, <1>4, OneSkillMoves
<1>6. kSkill'[n] = entry
  BY <1>1 DEF SkillsTyped
<1>7. QED
  BY <1>3, <1>5, <1>6

\* A patch rewrites the instructions only.
LEMMA PatchMoves ==
  ASSUME SkillsTyped, FilesAgree, NEW n \in Learn!Skills, kSkill[n].state # "none",
         Learn!Patch(n)
  PROVE  SkillsMove
<1> DEFINE entry == [kSkill[n] EXCEPT !.text = TRUE]
<1> DEFINE manifest == [kFile[n] EXCEPT !.text = TRUE]
<1>1. kSkill' = [kSkill EXCEPT ![n] = entry] /\ kFile' = [kFile EXCEPT ![n] = manifest]
  BY DEF Learn!Patch
<1>2. /\ entry \in Entries /\ entry.state = kSkill[n].state /\ entry.conf = kSkill[n].conf
      /\ entry.text = TRUE
  BY PartsTyped DEF Entries
<1>3. /\ manifest \in Learn!Manifest /\ manifest.state = kFile[n].state
      /\ manifest.conf = kFile[n].conf /\ manifest.text = TRUE
  BY PartsTyped DEF Learn!Manifest
<1>4. kSkill[n].state = "live" => kFile[n].state = "live" /\ kFile[n].conf = kSkill[n].conf
  BY PartsAgree
<1>5. kFile[n].state = "deprecated" <=> kSkill[n].state = "deprecated"
  BY PartsAgree
<1> HIDE DEF entry, manifest
<1>6. QED
  BY <1>1, <1>2, <1>3, <1>4, <1>5, OneSkillMoves

\* The first half of create_skill: the manifest of a skill not yet registered.
LEMMA ManifestMoves ==
  ASSUME Learn!LearningAssumption, SkillsTyped, FilesAgree,
         NEW n \in Learn!Skills, Learn!WriteManifest(n)
  PROVE  /\ SkillsMove
         /\ \/ kSkill'[n].state # "none"
            \/ kFile'[n] = [state |-> "live", conf |-> Learn!Default, text |-> FALSE]
<1> DEFINE manifest == IF kSkill[n].state = "none"
                       THEN [state |-> "live", conf |-> Learn!Default, text |-> FALSE]
                       ELSE kFile[n]
<1>1. kSkill' = [kSkill EXCEPT ![n] = kSkill[n]] /\ kFile' = [kFile EXCEPT ![n] = manifest]
  BY DEF Learn!WriteManifest, SkillsTyped
<1>2. [state |-> "live", conf |-> Learn!Default, text |-> FALSE] \in Learn!Manifest
  BY LearnConstants DEF Learn!Manifest, Learn!States
<1>3. manifest \in Learn!Manifest
  BY <1>2, PartsTyped
<1>4. /\ kSkill[n].state = "none" => manifest.state = "live"
      /\ kSkill[n].state # "none" => manifest = kFile[n]
  OBVIOUS
<1>5. /\ kSkill[n].state = "live" =>
           kFile[n].state = "live" /\ kFile[n].conf = kSkill[n].conf /\
             kFile[n].text = kSkill[n].text
      /\ kSkill[n].state = "deprecated" <=> kFile[n].state = "deprecated"
  BY PartsAgree
<1>6. /\ kSkill'[n] = kSkill[n] /\ kFile'[n] = manifest
  BY <1>1 DEF SkillsTyped
<1>7. \/ kSkill'[n].state # "none"
      \/ kFile'[n] = [state |-> "live", conf |-> Learn!Default, text |-> FALSE]
  BY <1>6
<1>8. kSkill[n] \in Entries
  BY PartsTyped
<1> HIDE DEF manifest
<1>9. SkillsMove
  BY <1>1, <1>3, <1>4, <1>5, <1>8, OneSkillMoves
<1>10. QED
  BY <1>7, <1>9

\* The second half: the instructions, and the skill is registered.
LEMMA InstructionsMove ==
  ASSUME Learn!LearningAssumption, SkillsTyped, FilesAgree,
         NEW n \in Learn!Skills, Learn!WriteInstructions(n),
         \/ kSkill[n].state # "none"
         \/ kFile[n] = [state |-> "live", conf |-> Learn!Default, text |-> FALSE]
  PROVE  SkillsMove
<1>1. CASE kSkill[n].state # "none"
  <2>1. kSkill' = kSkill /\ kFile' = kFile
    BY <1>1 DEF Learn!WriteInstructions
  <2>2. QED
    BY <2>1 DEF SkillsMove, SkillsTyped, FilesAgree
<1>2. CASE kSkill[n].state = "none"
  <2> DEFINE entry == [state |-> "live", conf |-> Learn!Default, text |-> TRUE,
                       base |-> Learn!Default]
  <2> DEFINE manifest == [kFile[n] EXCEPT !.text = TRUE]
  <2>1. kSkill' = [kSkill EXCEPT ![n] = entry] /\ kFile' = [kFile EXCEPT ![n] = manifest]
    BY <1>2 DEF Learn!WriteInstructions
  <2>2. entry \in Entries /\ entry.state = "live" /\ entry.conf = Learn!Default /\ entry.text = TRUE
    BY LearnConstants DEF Entries, Learn!States
  <2>3. manifest \in Learn!Manifest /\ manifest.text = TRUE
    BY PartsTyped DEF Learn!Manifest
  <2>4. manifest.state = "live" /\ manifest.conf = Learn!Default
    BY <1>2
  <2> HIDE DEF entry, manifest
  <2>5. QED
    BY <1>2, <2>1, <2>2, <2>3, <2>4, OneSkillMoves
<1>3. QED
  BY <1>1, <1>2

\* Every write that the processor asks for keeps the registry and its files
\* together.
LEMMA ActMoves ==
  ASSUME Learn!LearningAssumption, LearnInv, Learn!Act
  PROVE  /\ SkillsMove
         /\ kConsumer.todo = <<"deprecate">> => kSkill'[kConsumer.event.skill].state = "deprecated"
         /\ kConsumer.todo = <<"create", "describe">> =>
              LET n == kConsumer.event.skill + 1
              IN  \/ kSkill'[n].state # "none"
                  \/ kFile'[n] = [state |-> "live", conf |-> Learn!Default, text |-> FALSE]
<1> DEFINE n == kConsumer.event.skill
<1> DEFINE first == Head(kConsumer.todo)
<1>1. SkillsTyped /\ FilesAgree /\ LearnTyped /\ ManifestFirst /\ EventsFit
  BY DEF LearnInv, LearnTyped, SkillsTyped, Learn!Up, Learn!Act
<1>2. n \in Learn!Skills /\ kSkill[n].state # "none" /\ kSkill[n].conf \in 0 .. Top
  BY <1>1, EventTyped, PartsTyped DEF EventsFit, Fits
<1>3. kConsumer.todo \in Todos /\ kConsumer.todo # <<>>
  BY <1>1 DEF LearnTyped, Learn!Act
<1>4. CASE kConsumer.todo \in {<<"up">>, <<"up", "patch">>, <<"up", "create", "describe">>}
  <2>1. first = "up"
    BY <1>4
  <2>2. PICK conf : /\ conf = IF kSkill[n].conf < Top THEN kSkill[n].conf + 1 ELSE Top
                    /\ Learn!Adjust(n, conf)
    BY <2>1 DEF Learn!Act
  <2>3. conf \in 0 .. Top
    BY <2>2, <1>2, LearnConstants
  <2>4. SkillsMove
    BY <1>1, <1>2, <2>2, <2>3, AdjustMoves
  <2>5. kConsumer.todo # <<"deprecate">> /\ kConsumer.todo # <<"create", "describe">>
    BY <1>4
  <2>6. QED
    BY <2>4, <2>5
<1>5. CASE kConsumer.todo \in {<<"down">>, <<"down", "deprecate">>}
  <2>1. first = "down"
    BY <1>5
  <2>2. PICK conf : /\ conf = IF kSkill[n].conf > 0 THEN kSkill[n].conf - 1 ELSE 0
                    /\ Learn!Adjust(n, conf)
    BY <2>1 DEF Learn!Act
  <2>3. conf \in 0 .. Top
    BY <2>2, <1>2, LearnConstants
  <2>4. SkillsMove
    BY <1>1, <1>2, <2>2, <2>3, AdjustMoves
  <2>5. kConsumer.todo # <<"deprecate">> /\ kConsumer.todo # <<"create", "describe">>
    BY <1>5
  <2>6. QED
    BY <2>4, <2>5
<1>6. CASE kConsumer.todo = <<"patch">>
  <2>1. first = "patch"
    BY <1>6
  <2>2. Learn!Patch(n)
    BY <2>1 DEF Learn!Act
  <2>3. SkillsMove
    BY <1>1, <1>2, <2>2, PatchMoves
  <2>4. kConsumer.todo # <<"deprecate">> /\ kConsumer.todo # <<"create", "describe">>
    BY <1>6
  <2>5. QED
    BY <2>3, <2>4
<1>7. CASE kConsumer.todo = <<"create", "describe">>
  <2>1. first = "create" /\ kConsumer.todo \in Creating
    BY <1>7 DEF Creating
  <2>2. Learn!WriteManifest(n + 1)
    BY <2>1 DEF Learn!Act
  <2>3. n + 1 \in Learn!Skills
    BY <1>1, <1>2, <2>1, LearnConstants DEF EventsFit
  <2>4. /\ SkillsMove
        /\ \/ kSkill'[n + 1].state # "none"
           \/ kFile'[n + 1] = [state |-> "live", conf |-> Learn!Default, text |-> FALSE]
    BY <1>1, <2>2, <2>3, ManifestMoves
  <2>5. kConsumer.todo # <<"deprecate">>
    BY <1>7
  <2>6. QED
    BY <2>4, <2>5
<1>8. CASE kConsumer.todo = <<"describe">>
  <2>1. first = "describe" /\ kConsumer.todo \in Creating
    BY <1>8 DEF Creating
  <2>2. Learn!WriteInstructions(n + 1)
    BY <2>1 DEF Learn!Act
  <2>3. n + 1 \in Learn!Skills
    BY <1>1, <1>2, <2>1, LearnConstants DEF EventsFit
  <2>4. SkillsMove
    BY <1>1, <1>8, <2>2, <2>3, InstructionsMove DEF ManifestFirst
  <2>5. kConsumer.todo # <<"deprecate">> /\ kConsumer.todo # <<"create", "describe">>
    BY <1>8
  <2>6. QED
    BY <2>4, <2>5
<1>9. CASE kConsumer.todo = <<"deprecate">>
  <2>1. first = "deprecate"
    BY <1>9
  <2>2. Learn!Deprecate(n)
    BY <2>1 DEF Learn!Act
  <2>3. SkillsMove /\ kSkill'[n].state = "deprecated"
    BY <1>1, <1>2, <2>2, DeprecateMoves
  <2>4. kConsumer.todo # <<"create", "describe">>
    BY <1>9
  <2>5. QED
    BY <2>3, <2>4
<1> HIDE DEF n, first
<1>10. QED
  BY <1>3, <1>4, <1>5, <1>6, <1>7, <1>8, <1>9 DEF Todos

\* The events that are left all fit.
LEMMA EventsLeft ==
  ASSUME LearnTyped, EventsFit, kBus # <<>>
  PROVE  /\ Head(kBus) \in Learn!Event /\ Fits(Head(kBus))
         /\ Tail(kBus) \in Seq(Learn!Event)
         /\ \A k \in 1 .. Len(Tail(kBus)) : Fits(Tail(kBus)[k])
<1>1. kBus \in Seq(Learn!Event) /\ \A k \in 1 .. Len(kBus) : Fits(kBus[k])
  BY DEF LearnTyped, EventsFit
<1>2. /\ Head(kBus) = kBus[1] /\ 1 \in 1 .. Len(kBus) /\ Tail(kBus) \in Seq(Learn!Event)
      /\ Len(Tail(kBus)) = Len(kBus) - 1
      /\ \A k \in 1 .. Len(Tail(kBus)) : Tail(kBus)[k] = kBus[k + 1] /\ k + 1 \in 1 .. Len(kBus)
  BY <1>1
<1>3. Head(kBus) \in Learn!Event
  BY <1>1, <1>2
<1>4. QED
  BY <1>1, <1>2, <1>3

\* An event that is published fits, and a full channel loses one that did.
LEMMA EventPublished ==
  ASSUME Learn!LearningAssumption, LearnInv,
         NEW sort \in Learn!Kinds, NEW n \in Learn!Skills, Learn!Publish(sort, n)
  PROVE  LearnInv'
<1>1. /\ LearnTyped /\ EventsFit /\ FilesAgree /\ ManifestFirst /\ Judged
      /\ SavedJudged /\ Behind /\ kFile[1].state # "none"
      /\ kConsumer.pc # "act" => kConsumer.todo = <<>>
      /\ kConsumer.pc # "dead"
  BY DEF LearnInv, Learn!Up, Learn!Publish
<1>2. kPublished' \in 1 .. MaxEvents
  BY <1>1, LearnConstants DEF LearnTyped, Learn!Publish
<1>3. PICK number \in 1 .. MaxEvents : number = kPublished'
  BY <1>2
<1> DEFINE e == [id |-> number, kind |-> sort, skill |-> n]
<1>4. e \in Learn!Event
  BY DEF Learn!Event
<1>5. Fits(e)
  <2>1. e.skill = n /\ e.kind = sort
    OBVIOUS
  <2>2. Learn!Occurs(sort, n)
    BY DEF Learn!Publish
  <2>3. kSkill[n].state # "none"
    <3>1. CASE sort = "other"
      BY <3>1, <2>2, <1>1 DEF Learn!Occurs, EventsFit
    <3>2. CASE sort # "other"
      BY <3>2, <2>2 DEF Learn!Occurs, Learn!Kinds
    <3>3. QED
      BY <3>1, <3>2
  <2>4. sort = "loose" => n < Depth
    BY <2>2 DEF Learn!Occurs
  <2>5. QED
    BY <2>1, <2>3, <2>4 DEF Fits
<1> DEFINE all == Append(kBus, e)
<1>6. kBus' = IF Len(all) > Capacity THEN Tail(all) ELSE all
  BY <1>3 DEF Learn!Publish
<1> HIDE DEF e
<1>7. /\ all \in Seq(Learn!Event) /\ all # <<>>
      /\ \A k \in 1 .. Len(all) : Fits(all[k])
  <2>1. kBus \in Seq(Learn!Event) /\ \A k \in 1 .. Len(kBus) : Fits(kBus[k])
    BY <1>1 DEF LearnTyped, EventsFit
  <2>2. /\ all \in Seq(Learn!Event) /\ all # <<>> /\ Len(all) = Len(kBus) + 1
        /\ \A k \in 1 .. Len(kBus) : all[k] = kBus[k]
        /\ all[Len(kBus) + 1] = e
    BY <2>1, <1>4
  <2>3. \A k \in 1 .. Len(all) : k \in 1 .. Len(kBus) \/ k = Len(kBus) + 1
    BY <2>1, <2>2
  <2>4. QED
    BY <2>1, <2>2, <2>3, <1>5
<1>8. /\ Tail(all) \in Seq(Learn!Event) /\ Len(Tail(all)) = Len(all) - 1
      /\ \A k \in 1 .. Len(Tail(all)) : Tail(all)[k] = all[k + 1] /\ k + 1 \in 1 .. Len(all)
  BY <1>7
<1> HIDE DEF all
<1>9. kBus' \in Seq(Learn!Event) /\ \A k \in 1 .. Len(kBus') : Fits(kBus'[k])
  BY <1>6, <1>7, <1>8
<1>10. UNCHANGED <<kConsumer, kStats, kSaved, kSkill, kFile>>
  BY DEF Learn!Publish
<1>11. LearnTyped'
  BY <1>1, <1>2, <1>9, <1>10 DEF LearnTyped
<1>12. EventsFit'
  BY <1>1, <1>9, <1>10 DEF EventsFit, Fits
<1>13. FilesAgree' /\ ManifestFirst'
  BY <1>1, <1>10 DEF FilesAgree, ManifestFirst
<1>14. Judged' /\ SavedJudged' /\ Behind'
  BY <1>1, <1>10 DEF Judged, SavedJudged, Behind, Lacking
<1>15. QED
  BY <1>1, <1>10, <1>11, <1>12, <1>13, <1>14 DEF LearnInv

\* The consumer takes the oldest event that is left.
LEMMA EventReceived ==
  ASSUME Learn!LearningAssumption, LearnInv, Learn!Receive
  PROVE  LearnInv'
<1>1. /\ LearnTyped /\ EventsFit /\ FilesAgree /\ ManifestFirst /\ Judged
      /\ SavedJudged /\ Behind /\ kFile[1].state # "none"
      /\ kConsumer.todo = <<>> /\ kConsumer.pc = "idle" /\ kBus # <<>>
  BY DEF LearnInv, Learn!Up, Learn!Receive
<1>2. UNCHANGED <<kPublished, kStats, kSaved, kSkill, kFile>> /\ kBus' = Tail(kBus)
  BY DEF Learn!Receive
<1>3. Head(kBus) \in Learn!Event /\ Fits(Head(kBus))
  BY <1>1, EventsLeft
<1>4. /\ kConsumer' \in [pc : {"idle", "append", "handle", "act", "save", "done", "dead"},
                    event : Learn!Event \union {Learn!Nothing}, since : 0 .. SaveEvery - 1,
                    todo : Todos, lost : BOOLEAN, stopping : BOOLEAN]
      /\ kConsumer'.pc = "append" /\ kConsumer'.event = Head(kBus)
      /\ kConsumer'.since = kConsumer.since /\ kConsumer'.todo = <<>>
  BY <1>1, <1>3 DEF LearnTyped, Learn!Receive
<1>5. kBus' \in Seq(Learn!Event) /\ \A k \in 1 .. Len(kBus') : Fits(kBus'[k])
  BY <1>1, <1>2, EventsLeft
<1>6. LearnTyped'
  BY <1>1, <1>2, <1>4, <1>5 DEF LearnTyped
<1>7. <<>> \notin Creating /\ <<>> # <<"describe">> /\ <<>> \notin Judging
  BY DEF Creating, Judging
<1>8. EventsFit'
  BY <1>1, <1>2, <1>3, <1>4, <1>5, <1>7 DEF EventsFit, Fits
<1>9. FilesAgree' /\ ManifestFirst'
  BY <1>1, <1>2, <1>4, <1>7 DEF FilesAgree, ManifestFirst
<1>10. Judged' /\ SavedJudged'
  BY <1>1, <1>2, <1>7 DEF Judged, SavedJudged
<1>11. Behind'
  BY <1>1, <1>2, <1>4 DEF Behind, Lacking
<1>12. QED
  BY <1>1, <1>2, <1>4, <1>6, <1>8, <1>9, <1>10, <1>11 DEF LearnInv

\* A step of the consumer that changes neither the registry nor the
\* statistics, and leaves no action undone.
LEMMA ConsumerGoesOn ==
  ASSUME Learn!LearningAssumption, LearnInv,
         UNCHANGED <<kBus, kPublished, kStats, kSaved, kSkill, kFile>>, Learn!Up,
         kConsumer' \in [pc : {"idle", "append", "handle", "act", "save", "done", "dead"},
                         event : Learn!Event \union {Learn!Nothing}, since : 0 .. SaveEvery - 1,
                         todo : Todos, lost : BOOLEAN, stopping : BOOLEAN],
         kConsumer'.todo = kConsumer.todo,
         kConsumer'.event \in {kConsumer.event, Learn!Nothing},
         kConsumer.todo # <<>> =>
           kConsumer'.event = kConsumer.event /\ kConsumer'.pc = kConsumer.pc,
         kConsumer'.pc \notin {"done", "dead"} \/ kConsumer'.pc = kConsumer.pc,
         Lacking <= Lacking'
  PROVE  LearnInv'
<1>1. /\ LearnTyped /\ EventsFit /\ FilesAgree /\ ManifestFirst /\ Judged
      /\ SavedJudged /\ Behind /\ kFile[1].state # "none"
      /\ kConsumer.pc # "act" => kConsumer.todo = <<>>
  BY DEF LearnInv
<1>2. LearnTyped'
  BY <1>1 DEF LearnTyped
<1>3. <<>> \notin Creating /\ <<>> # <<"describe">> /\ <<>> \notin Judging
  BY DEF Creating, Judging
<1>4. Learn!Nothing.skill = 1 /\ Learn!Nothing.kind = "other"
  BY DEF Learn!Nothing
<1>5. EventsFit'
  <2>1. kSkill[1].state # "none" /\ \A k \in 1 .. Len(kBus) : Fits(kBus[k])
    BY <1>1 DEF EventsFit
  <2>2. Fits(kConsumer'.event)
    BY <1>1, <1>4, <2>1 DEF EventsFit, Fits
  <2>3. kConsumer'.todo \in Creating => kConsumer'.event.skill < Depth
    BY <1>1, <1>3 DEF EventsFit
  <2>4. QED
    BY <2>1, <2>2, <2>3 DEF EventsFit, Fits
<1>6. FilesAgree' /\ ManifestFirst'
  BY <1>1, <1>3 DEF FilesAgree, ManifestFirst
<1>7. Judged' /\ SavedJudged'
  BY <1>1, <1>3 DEF Judged, SavedJudged
<1>8. Behind'
  <2>1. /\ kStats'.processed = kStats.processed /\ kSaved'.processed = kSaved.processed
        /\ kStats.processed \in Nat /\ kSaved.processed \in Nat
    BY <1>1 DEF LearnTyped, Statistics
  <2>2. Lacking \in Int
    BY <1>1, LearnConstants DEF Lacking, LearnTyped
  <2>3. Lacking' \in Int
    BY <1>2, LearnConstants DEF Lacking, LearnTyped
  <2>4. kStats.processed <= kSaved.processed + Lacking
    BY <1>1 DEF Behind
  <2>5. kStats'.processed <= kSaved'.processed + Lacking'
    BY <2>1, <2>2, <2>3, <2>4
  <2>6. QED
    BY <1>1, <2>5 DEF Behind
<1>9. /\ kConsumer'.pc # "act" => kConsumer'.todo = <<>>
      /\ kConsumer'.pc # "dead"
  BY <1>1 DEF Learn!Up
<1>10. QED
  BY <1>1, <1>2, <1>5, <1>6, <1>7, <1>8, <1>9 DEF LearnInv


\* The consumer as it is, and the todo of a step that is not an action.
LEMMA ConsumerParts ==
  ASSUME Learn!LearningAssumption, LearnTyped
  PROVE  /\ kConsumer.pc \in {"idle", "append", "handle", "act", "save", "done", "dead"}
         /\ kConsumer.since \in Nat /\ kConsumer.since <= SaveEvery - 1
         /\ Learn!Nothing \in Learn!Event \union {Learn!Nothing}
<1>1. kConsumer.since \in 0 .. SaveEvery - 1 /\ SaveEvery \in Nat
  BY LearnConstants DEF LearnTyped
<1>2. QED
  BY <1>1 DEF LearnTyped

\* The event is written to the log, or lost with the log it was opened in.
LEMMA EventAppended ==
  ASSUME Learn!LearningAssumption, LearnInv, Learn!AppendEvent
  PROVE  LearnInv'
<1>1. LearnTyped /\ kConsumer.todo = <<>> /\ kConsumer.pc = "append" /\ Learn!Up
  BY DEF LearnInv, Learn!Up, Learn!AppendEvent
<1>2. UNCHANGED <<kBus, kPublished, kStats, kSaved, kSkill, kFile>>
  BY DEF Learn!AppendEvent
<1>3. kConsumer' = [kConsumer EXCEPT !.pc = "handle"]
  BY DEF Learn!AppendEvent, Learn!Goes
<1>4. /\ kConsumer' \in [pc : {"idle", "append", "handle", "act", "save", "done", "dead"},
                         event : Learn!Event \union {Learn!Nothing}, since : 0 .. SaveEvery - 1,
                         todo : Todos, lost : BOOLEAN, stopping : BOOLEAN]
      /\ kConsumer'.pc = "handle" /\ kConsumer'.event = kConsumer.event
      /\ kConsumer'.since = kConsumer.since /\ kConsumer'.todo = kConsumer.todo
  BY <1>1, <1>3 DEF LearnTyped
<1>5. Lacking <= Lacking'
  BY <1>1, <1>4, ConsumerParts DEF Lacking
<1>6. QED
  BY <1>1, <1>2, <1>4, <1>5, ConsumerGoesOn

\* An event is done with: it is one more that the saved statistics lack.
LEMMA EventCounted ==
  ASSUME Learn!LearningAssumption, LearnInv, Learn!Count
  PROVE  LearnInv'
<1>1. LearnTyped /\ kConsumer.todo = <<>> /\ kConsumer.pc = "act" /\ Learn!Up
  BY DEF LearnInv, Learn!Up, Learn!Count
<1>2. UNCHANGED <<kBus, kPublished, kStats, kSaved, kSkill, kFile>>
  BY DEF Learn!Count
<1>3. /\ kConsumer.since \in Nat /\ SaveEvery \in Nat \ {0}
      /\ Learn!Nothing \in Learn!Event \union {Learn!Nothing}
  BY <1>1, ConsumerParts, LearnConstants
<1>4. CASE kConsumer.since + 1 >= SaveEvery
  <2>1. kConsumer' = [kConsumer EXCEPT !.pc = "save", !.since = 0]
    BY <1>4 DEF Learn!Count
  <2>2. 0 \in 0 .. SaveEvery - 1
    BY <1>3
  <2>3. /\ kConsumer' \in [pc : {"idle", "append", "handle", "act", "save", "done", "dead"},
                           event : Learn!Event \union {Learn!Nothing}, since : 0 .. SaveEvery - 1,
                           todo : Todos, lost : BOOLEAN, stopping : BOOLEAN]
        /\ kConsumer'.pc = "save" /\ kConsumer'.event = kConsumer.event
        /\ kConsumer'.todo = kConsumer.todo
    BY <1>1, <2>1, <2>2 DEF LearnTyped
  <2>4. Lacking <= Lacking'
    BY <1>1, <1>3, <2>3, ConsumerParts DEF Lacking
  <2>5. QED
    BY <1>1, <1>2, <2>3, <2>4, ConsumerGoesOn
<1>5. CASE ~(kConsumer.since + 1 >= SaveEvery)
  <2>1. kConsumer' = [kConsumer EXCEPT !.pc = "idle", !.since = kConsumer.since + 1,
                                       !.event = Learn!Nothing]
    BY <1>5 DEF Learn!Count
  <2>2. kConsumer.since + 1 \in 0 .. SaveEvery - 1
    BY <1>3, <1>5
  <2>3. kConsumer' \in [pc : {"idle", "append", "handle", "act", "save", "done", "dead"},
                        event : Learn!Event \union {Learn!Nothing}, since : 0 .. SaveEvery - 1,
                        todo : Todos, lost : BOOLEAN, stopping : BOOLEAN]
    BY <1>1, <1>3, <2>1, <2>2 DEF LearnTyped
  <2>4. /\ kConsumer'.pc = "idle" /\ kConsumer'.event = Learn!Nothing
        /\ kConsumer'.since = kConsumer.since + 1 /\ kConsumer'.todo = kConsumer.todo
    BY <1>1, <2>1 DEF LearnTyped
  <2>5. Lacking <= Lacking'
    BY <1>1, <1>3, <2>4 DEF Lacking
  <2>6. QED
    BY <1>1, <1>2, <2>3, <2>4, <2>5, ConsumerGoesOn
<1>6. QED
  BY <1>4, <1>5

\* The log is replaced, or the stop is asked for: the consumer notes it.
LEMMA ConsumerNotes ==
  ASSUME Learn!LearningAssumption, LearnInv, Learn!PruneRename \/ Learn!Shutdown
  PROVE  LearnInv'
<1>1. LearnTyped /\ Learn!Up /\ kConsumer.pc # "dead"
  BY DEF LearnInv, Learn!Up, Learn!PruneRename, Learn!Shutdown
<1>2. UNCHANGED <<kBus, kPublished, kStats, kSaved, kSkill, kFile>>
  BY DEF Learn!PruneRename, Learn!Shutdown
<1>3. /\ kConsumer' \in [pc : {"idle", "append", "handle", "act", "save", "done", "dead"},
                         event : Learn!Event \union {Learn!Nothing}, since : 0 .. SaveEvery - 1,
                         todo : Todos, lost : BOOLEAN, stopping : BOOLEAN]
      /\ kConsumer'.pc = kConsumer.pc /\ kConsumer'.event = kConsumer.event
      /\ kConsumer'.since = kConsumer.since /\ kConsumer'.todo = kConsumer.todo
  <2>1. CASE Learn!PruneRename
    BY <2>1, <1>1 DEF LearnTyped, Learn!PruneRename
  <2>2. CASE Learn!Shutdown
    BY <2>2, <1>1 DEF LearnTyped, Learn!Shutdown
  <2>3. QED
    BY <2>1, <2>2
<1>4. Lacking <= Lacking'
  BY <1>1, <1>3, ConsumerParts, LearnConstants DEF Lacking
<1>5. QED
  BY <1>1, <1>2, <1>3, <1>4, ConsumerGoesOn

\* The pruning reads the log, and nothing of this moves.
LEMMA LogRead ==
  ASSUME LearnInv, UNCHANGED <<kBus, kPublished, kConsumer, kStats, kSaved, kSkill, kFile>>
  PROVE  LearnInv'
<1>1. /\ LearnTyped /\ SavedJudged /\ Behind /\ kFile[1].state # "none"
      /\ Learn!Up => EventsFit /\ FilesAgree /\ ManifestFirst /\ Judged
      /\ kConsumer.pc # "act" => kConsumer.todo = <<>>
      /\ kConsumer.pc = "dead" => kBus = <<>>
  BY DEF LearnInv
<1>2. LearnTyped' /\ SavedJudged' /\ Behind'
  BY <1>1 DEF LearnTyped, SavedJudged, Behind, Lacking
<1>3. Learn!Up' => EventsFit' /\ FilesAgree' /\ ManifestFirst' /\ Judged'
  BY <1>1 DEF Learn!Up, EventsFit, Fits, FilesAgree, ManifestFirst, Judged
<1>4. QED
  BY <1>1, <1>2, <1>3 DEF LearnInv


\* The event is counted, and the processor says what follows: a streak that
\* has grown too long is to be judged.
LEMMA EventHandled ==
  ASSUME Learn!LearningAssumption, LearnInv, Learn!Handle
  PROVE  LearnInv'
<1> DEFINE e == kConsumer.event
<1> DEFINE streak == IF e.kind = "useless" THEN kStats.streak[e.skill] + 1
                     ELSE IF e.kind = "other" THEN kStats.streak[e.skill] ELSE 0
<1> DEFINE todo == Learn!Wanted(e.kind, streak)
<1>1. /\ LearnTyped /\ EventsFit /\ FilesAgree /\ Judged
      /\ SavedJudged /\ Behind /\ kFile[1].state # "none"
      /\ kConsumer.todo = <<>> /\ kConsumer.pc = "handle"
  BY DEF LearnInv, Learn!Up, Learn!Handle
<1>2. /\ UNCHANGED <<kBus, kPublished, kSaved, kSkill, kFile>>
      /\ kStats' = [processed |-> kStats.processed + 1,
                    streak |-> [kStats.streak EXCEPT ![e.skill] = streak]]
      /\ kConsumer' = [kConsumer EXCEPT !.pc = "act", !.todo = todo]
  BY DEF Learn!Handle
<1>3. /\ e.skill \in Learn!Skills /\ e.kind \in Learn!Kinds /\ Streak \in Nat \ {0}
      /\ Fits(e)
  BY <1>1, EventTyped, LearnConstants DEF EventsFit
<1>4. /\ kStats.processed \in Nat /\ kStats.streak \in [Learn!Skills -> Nat]
      /\ kStats.streak[e.skill] \in Nat
  BY <1>1, <1>3 DEF LearnTyped, Statistics
<1>5. streak \in Nat
  BY <1>4
<1>6. /\ todo \in Todos /\ todo # <<"describe">>
      /\ todo \in Creating => e.kind = "loose"
      /\ e.kind = "useless" /\ streak >= Streak => todo \in Judging
  <2> HIDE DEF streak
  <2>1. CASE e.kind = "other"
    BY <2>1 DEF Learn!Wanted, Todos, Creating
  <2>2. CASE e.kind = "exact"
    BY <2>2 DEF Learn!Wanted, Todos, Creating
  <2>3. CASE e.kind = "loose"
    BY <2>3 DEF Learn!Wanted, Todos, Creating
  <2>4. CASE e.kind = "useful"
    BY <2>4 DEF Learn!Wanted, Todos, Creating
  <2>5. CASE e.kind = "useless" /\ streak >= Streak
    BY <2>5 DEF Learn!Wanted, Todos, Creating, Judging
  <2>6. CASE e.kind = "useless" /\ ~(streak >= Streak)
    BY <2>6 DEF Learn!Wanted, Todos, Creating
  <2>7. QED
    BY <2>1, <2>2, <2>3, <2>4, <2>5, <2>6, <1>3 DEF Learn!Kinds
<1>7. streak >= Streak => e.kind = "useless" \/ kStats.streak[e.skill] >= Streak
  BY <1>3, <1>4
<1> HIDE DEF streak, todo
<1>8. /\ kConsumer' \in [pc : {"idle", "append", "handle", "act", "save", "done", "dead"},
                         event : Learn!Event \union {Learn!Nothing}, since : 0 .. SaveEvery - 1,
                         todo : Todos, lost : BOOLEAN, stopping : BOOLEAN]
      /\ kConsumer'.pc = "act" /\ kConsumer'.event = e
      /\ kConsumer'.since = kConsumer.since /\ kConsumer'.todo = todo
  BY <1>1, <1>2, <1>6 DEF LearnTyped
<1>9. /\ kStats' \in Statistics /\ kStats'.processed = kStats.processed + 1
      /\ kStats'.streak[e.skill] = streak
      /\ \A n \in Learn!Skills : n # e.skill => kStats'.streak[n] = kStats.streak[n]
  BY <1>2, <1>3, <1>4, <1>5 DEF Statistics
<1>10. LearnTyped'
  BY <1>1, <1>2, <1>8, <1>9 DEF LearnTyped
<1>11. EventsFit'
  <2>1. kSkill[1].state # "none" /\ \A k \in 1 .. Len(kBus) : Fits(kBus[k])
    BY <1>1 DEF EventsFit
  <2>2. todo \in Creating => e.skill < Depth
    BY <1>3, <1>6 DEF Fits
  <2>3. QED
    BY <1>2, <1>3, <1>8, <2>1, <2>2 DEF EventsFit, Fits
<1>12. FilesAgree' /\ ManifestFirst'
  BY <1>1, <1>2, <1>6, <1>8 DEF FilesAgree, ManifestFirst
<1>13. Judged'
  <2>1. ASSUME NEW n \in Learn!Skills, kStats'.streak[n] >= Streak
        PROVE  \/ kSkill'[n].state = "deprecated"
               \/ kConsumer'.pc = "act" /\ kConsumer'.event.skill = n /\ kConsumer'.todo \in Judging
    <3>1. \A m \in Learn!Skills : kStats.streak[m] >= Streak => kSkill[m].state = "deprecated"
      BY <1>1 DEF Judged
    <3>2. CASE n = e.skill
      BY <3>1, <3>2, <2>1, <1>2, <1>3, <1>6, <1>7, <1>8, <1>9
    <3>3. CASE n # e.skill
      BY <3>1, <3>3, <2>1, <1>2, <1>9
    <3>4. QED
      BY <3>2, <3>3
  <2>2. QED
    BY <2>1 DEF Judged
<1>14. SavedJudged'
  BY <1>1, <1>2 DEF SavedJudged
<1>15. Behind'
  <2>1. /\ kSaved.processed \in Nat /\ kConsumer.since \in Nat
        /\ kStats.processed <= kSaved.processed + kConsumer.since
    BY <1>1, ConsumerParts DEF LearnTyped, Statistics, Behind, Lacking
  <2>2. kStats'.processed <= kSaved'.processed + (kConsumer'.since + 1)
    <3>1. PICK a \in Nat : a = kConsumer.since
      BY <2>1
    <3>2. PICK b \in Nat : b = kSaved.processed
      BY <2>1
    <3>3. kStats.processed + 1 <= b + (a + 1)
      BY <3>1, <3>2, <2>1, <1>4
    <3>4. QED
      BY <3>1, <3>2, <3>3, <1>2, <1>8, <1>9
  <2>3. Lacking' = kConsumer'.since + 1 /\ kConsumer'.pc # "done"
    BY <1>8 DEF Lacking
  <2>4. QED
    BY <2>2, <2>3 DEF Behind
<1>16. QED
  BY <1>1, <1>2, <1>8, <1>10, <1>11, <1>12, <1>13, <1>14, <1>15 DEF LearnInv

\* The statistics are saved, between two events or at the end: what they
\* tell of has been judged, on disk too.
LEMMA StatsSaved ==
  ASSUME Learn!LearningAssumption, LearnInv, Learn!SaveStats \/ Learn!Stop
  PROVE  LearnInv'
<1>1. /\ LearnTyped /\ EventsFit /\ FilesAgree /\ ManifestFirst /\ Judged
      /\ kFile[1].state # "none" /\ kConsumer.todo = <<>> /\ kConsumer.pc \in {"save", "idle"}
  BY DEF LearnInv, Learn!Up, Learn!SaveStats, Learn!Stop
<1>2. UNCHANGED <<kBus, kPublished, kStats, kSkill, kFile>> /\ kSaved' = kStats
  BY DEF Learn!SaveStats, Learn!Stop
<1>3. /\ kConsumer' \in [pc : {"idle", "append", "handle", "act", "save", "done", "dead"},
                         event : Learn!Event \union {Learn!Nothing}, since : 0 .. SaveEvery - 1,
                         todo : Todos, lost : BOOLEAN, stopping : BOOLEAN]
      /\ kConsumer'.pc \in {"idle", "done"}
      /\ kConsumer'.event \in {kConsumer.event, Learn!Nothing}
      /\ kConsumer'.since = kConsumer.since /\ kConsumer'.todo = <<>>
  <2>1. CASE Learn!SaveStats
    BY <2>1, <1>1 DEF LearnTyped, Learn!SaveStats
  <2>2. CASE Learn!Stop
    BY <2>2, <1>1 DEF LearnTyped, Learn!Stop, Learn!Goes
  <2>3. QED
    BY <2>1, <2>2
<1>4. LearnTyped'
  BY <1>1, <1>2, <1>3 DEF LearnTyped
<1>5. <<>> \notin Creating /\ <<>> # <<"describe">> /\ <<>> \notin Judging
  BY DEF Creating, Judging
<1>6. EventsFit'
  <2>1. kSkill[1].state # "none" /\ \A k \in 1 .. Len(kBus) : Fits(kBus[k])
    BY <1>1 DEF EventsFit
  <2>2. Learn!Nothing.skill = 1 /\ Learn!Nothing.kind = "other"
    BY DEF Learn!Nothing
  <2>3. Fits(kConsumer'.event)
    BY <1>1, <1>3, <2>1, <2>2 DEF EventsFit, Fits
  <2>4. QED
    BY <1>2, <1>3, <1>5, <2>1, <2>3 DEF EventsFit, Fits
<1>7. FilesAgree' /\ ManifestFirst'
  BY <1>1, <1>2, <1>3, <1>5 DEF FilesAgree, ManifestFirst
<1>8. \A n \in Learn!Skills : kStats.streak[n] >= Streak =>
        kSkill[n].state = "deprecated" /\ kFile[n].state = "deprecated"
  BY <1>1, <1>5 DEF Judged, FilesAgree
<1>9. Judged' /\ SavedJudged'
  BY <1>2, <1>8 DEF Judged, SavedJudged
<1>10. Behind'
  <2>1. kStats'.processed \in Nat /\ kSaved'.processed = kStats'.processed /\ kSaved' = kStats'
    BY <1>1, <1>2 DEF LearnTyped, Statistics
  <2>2. Lacking' \in Nat
    BY <1>3, <1>4, LearnConstants DEF Lacking, LearnTyped
  <2>3. QED
    BY <2>1, <2>2 DEF Behind
<1>11. QED
  BY <1>1, <1>2, <1>3, <1>4, <1>6, <1>7, <1>9, <1>10 DEF LearnInv

\* After a kill only the files are left.
LEMMA LearnerKilled ==
  ASSUME Learn!LearningAssumption, LearnInv, NEW torn \in BOOLEAN, Learn!Crash(torn)
  PROVE  LearnInv'
<1>1. LearnTyped /\ SavedJudged /\ Behind /\ kFile[1].state # "none"
  BY DEF LearnInv
<1>2. /\ UNCHANGED <<kPublished, kStats, kSaved, kSkill, kFile>> /\ kBus' = <<>>
      /\ kConsumer' = [Learn!Start EXCEPT !.pc = "dead"]
  BY DEF Learn!Crash
<1>3. /\ kConsumer' \in [pc : {"idle", "append", "handle", "act", "save", "done", "dead"},
                         event : Learn!Event \union {Learn!Nothing}, since : 0 .. SaveEvery - 1,
                         todo : Todos, lost : BOOLEAN, stopping : BOOLEAN]
      /\ kConsumer'.pc = "dead" /\ kConsumer'.todo = <<>>
  BY <1>2, LearnConstants DEF Learn!Start, Todos
<1>4. kBus' \in Seq(Learn!Event)
  BY <1>2
<1>5. LearnTyped'
  BY <1>1, <1>2, <1>3, <1>4 DEF LearnTyped
<1>6. SavedJudged'
  BY <1>1, <1>2 DEF SavedJudged
<1>7. Behind'
  <2>1. /\ kStats.processed \in Nat /\ kSaved.processed \in Nat /\ SaveEvery \in Nat
        /\ kStats.processed <= kSaved.processed + Lacking
    BY <1>1, LearnConstants DEF LearnTyped, Statistics, Behind
  <2>2. Lacking \in Int /\ Lacking <= SaveEvery
    BY <1>1, ConsumerParts, LearnConstants DEF Lacking
  <2>3. kStats.processed <= kSaved.processed + SaveEvery
    BY <2>1, <2>2
  <2>4. Lacking' = SaveEvery
    BY <1>3 DEF Lacking
  <2>5. QED
    BY <1>2, <1>3, <2>3, <2>4 DEF Behind
<1>8. QED
  BY <1>1, <1>2, <1>3, <1>5, <1>6, <1>7 DEF LearnInv, Learn!Up

\* The next process loads what the files say.
LEMMA LearnerRestarted ==
  ASSUME Learn!LearningAssumption, LearnInv, Learn!Restart
  PROVE  LearnInv'
<1>1. /\ LearnTyped /\ SavedJudged /\ kFile[1].state # "none"
      /\ kConsumer.pc = "dead" /\ kBus = <<>>
  BY DEF LearnInv, Learn!Restart
<1>2. /\ UNCHANGED <<kBus, kPublished, kSaved, kFile>> /\ kStats' = kSaved
      /\ kSkill' = Learn!Loaded(kFile) /\ kConsumer' = Learn!Start
  BY DEF Learn!Restart
<1>3. /\ kConsumer' \in [pc : {"idle", "append", "handle", "act", "save", "done", "dead"},
                         event : Learn!Event \union {Learn!Nothing}, since : 0 .. SaveEvery - 1,
                         todo : Todos, lost : BOOLEAN, stopping : BOOLEAN]
      /\ kConsumer'.pc = "idle" /\ kConsumer'.todo = <<>> /\ kConsumer'.since = 0
      /\ kConsumer'.event = Learn!Nothing
  BY <1>2, LearnConstants DEF Learn!Start, Todos
<1>4. /\ kSkill' \in [Learn!Skills -> Entries]
      /\ \A n \in Learn!Skills :
           /\ kSkill'[n].state = kFile[n].state /\ kSkill'[n].conf = kFile[n].conf
           /\ kSkill'[n].text = kFile[n].text
           /\ kFile[n].state = "live" =>
                kFile[n] = [state |-> "live", conf |-> kFile[n].conf, text |-> kFile[n].text]
  BY <1>1, <1>2, LoadedTyped DEF LearnTyped
<1>5. LearnTyped'
  BY <1>1, <1>2, <1>3, <1>4 DEF LearnTyped
<1>6. <<>> \notin Creating /\ <<>> # <<"describe">>
  BY DEF Creating
<1>7. EventsFit'
  <2>1. Learn!Nothing.skill = 1 /\ Learn!Nothing.kind = "other" /\ 1 \in Learn!Skills
    BY LearnConstants DEF Learn!Nothing
  <2>2. kSkill'[1].state # "none"
    BY <2>1, <1>1, <1>4
  <2>3. Fits(kConsumer.event)'
    BY <2>1, <2>2, <1>3 DEF Fits
  <2>4. Len(kBus') = 0
    BY <1>1, <1>2
  <2>5. QED
    BY <2>2, <2>3, <2>4, <1>3, <1>6 DEF EventsFit
<1>8. FilesAgree'
  BY <1>2, <1>4 DEF FilesAgree
<1>9. ManifestFirst'
  BY <1>3, <1>6 DEF ManifestFirst
<1>10. Judged' /\ SavedJudged'
  BY <1>1, <1>2, <1>4 DEF Judged, SavedJudged
<1>11. Behind'
  <2>1. kStats'.processed \in Nat /\ kSaved'.processed = kStats'.processed
    BY <1>1, <1>2 DEF LearnTyped, Statistics
  <2>2. Lacking' = 0 /\ kConsumer'.pc # "done"
    BY <1>3 DEF Lacking
  <2>3. QED
    BY <2>1, <2>2 DEF Behind
<1>12. QED
  BY <1>1, <1>2, <1>3, <1>5, <1>7, <1>8, <1>9, <1>10, <1>11 DEF LearnInv


\* What is left to do after the first action.
LEMMA TodoShrinks ==
  ASSUME NEW todo \in Todos, todo # <<>>
  PROVE  /\ Tail(todo) \in Todos
         /\ Tail(todo) \in Creating => todo \in Creating
         /\ Tail(todo) = <<"describe">> => todo = <<"create", "describe">>
         /\ todo \in Judging => todo = <<"deprecate">> \/ Tail(todo) \in Judging
<1>1. CASE todo = <<"up">>
  BY <1>1 DEF Todos, Creating, Judging
<1>2. CASE todo = <<"patch">>
  BY <1>2 DEF Todos, Creating, Judging
<1>3. CASE todo = <<"up", "patch">>
  BY <1>3 DEF Todos, Creating, Judging
<1>4. CASE todo = <<"up", "create", "describe">>
  BY <1>4 DEF Todos, Creating, Judging
<1>5. CASE todo = <<"create", "describe">>
  BY <1>5 DEF Todos, Creating, Judging
<1>6. CASE todo = <<"describe">>
  BY <1>6 DEF Todos, Creating, Judging
<1>7. CASE todo = <<"down">>
  BY <1>7 DEF Todos, Creating, Judging
<1>8. CASE todo = <<"down", "deprecate">>
  BY <1>8 DEF Todos, Creating, Judging
<1>9. CASE todo = <<"deprecate">>
  BY <1>9 DEF Todos, Creating, Judging
<1>10. QED
  BY <1>1, <1>2, <1>3, <1>4, <1>5, <1>6, <1>7, <1>8, <1>9 DEF Todos

\* One write is done, and the rest of the judgement is still to be done.
LEMMA WriteDone ==
  ASSUME Learn!LearningAssumption, LearnInv, Learn!Act
  PROVE  LearnInv'
<1> DEFINE n == kConsumer.event.skill
<1>1. /\ LearnTyped /\ EventsFit /\ FilesAgree /\ Judged
      /\ SavedJudged /\ Behind /\ kFile[1].state # "none"
      /\ kConsumer.pc = "act" /\ kConsumer.todo # <<>>
  BY DEF LearnInv, Learn!Up, Learn!Act
<1>2. /\ UNCHANGED <<kBus, kPublished, kStats, kSaved>>
      /\ kConsumer' = [kConsumer EXCEPT !.todo = Tail(kConsumer.todo)]
  BY DEF Learn!Act
<1>3. /\ SkillsMove
      /\ kConsumer.todo = <<"deprecate">> => kSkill'[n].state = "deprecated"
      /\ kConsumer.todo = <<"create", "describe">> =>
           \/ kSkill'[n + 1].state # "none"
           \/ kFile'[n + 1] = [state |-> "live", conf |-> Learn!Default, text |-> FALSE]
  BY ActMoves
<1>4. kConsumer.todo \in Todos /\ n \in Learn!Skills /\ 1 \in Learn!Skills
  BY <1>1, EventTyped, LearnConstants DEF LearnTyped
<1>5. /\ Tail(kConsumer.todo) \in Todos
      /\ Tail(kConsumer.todo) \in Creating => kConsumer.todo \in Creating
      /\ Tail(kConsumer.todo) = <<"describe">> => kConsumer.todo = <<"create", "describe">>
      /\ kConsumer.todo \in Judging =>
           kConsumer.todo = <<"deprecate">> \/ Tail(kConsumer.todo) \in Judging
  BY <1>1, <1>4, TodoShrinks
<1>6. /\ kConsumer' \in [pc : {"idle", "append", "handle", "act", "save", "done", "dead"},
                         event : Learn!Event \union {Learn!Nothing}, since : 0 .. SaveEvery - 1,
                         todo : Todos, lost : BOOLEAN, stopping : BOOLEAN]
      /\ kConsumer'.pc = "act" /\ kConsumer'.event = kConsumer.event
      /\ kConsumer'.since = kConsumer.since /\ kConsumer'.todo = Tail(kConsumer.todo)
  BY <1>1, <1>2, <1>5 DEF LearnTyped
<1>7. LearnTyped'
  BY <1>1, <1>2, <1>3, <1>6 DEF LearnTyped, SkillsMove
<1>8. EventsFit'
  <2>1. /\ kSkill[1].state # "none" /\ Fits(kConsumer.event)
        /\ \A k \in 1 .. Len(kBus) : Fits(kBus[k]) /\ kBus[k].skill \in Learn!Skills
        /\ kConsumer.todo \in Creating => n < Depth
    <3>1. \A k \in 1 .. Len(kBus) : kBus[k] \in Learn!Event
      BY <1>1 DEF LearnTyped
    <3>2. \A e \in Learn!Event : e.skill \in Learn!Skills
      BY DEF Learn!Event
    <3>3. QED
      BY <1>1, <3>1, <3>2 DEF EventsFit
  <2>2. \A m \in Learn!Skills : kSkill[m].state # "none" => kSkill'[m].state # "none"
    BY <1>3 DEF SkillsMove
  <2>3. Fits(kConsumer.event)'
    BY <1>4, <1>6, <2>1, <2>2 DEF Fits
  <2>4. \A k \in 1 .. Len(kBus') : Fits(kBus[k])'
    BY <1>2, <2>1, <2>2 DEF Fits
  <2>5. QED
    BY <1>4, <1>5, <1>6, <2>1, <2>2, <2>3, <2>4 DEF EventsFit
<1>9. FilesAgree' /\ kFile'[1].state # "none"
  BY <1>1, <1>3, <1>4 DEF SkillsMove
<1>10. ManifestFirst'
  BY <1>3, <1>5, <1>6 DEF ManifestFirst
<1>11. Judged'
  <2>1. ASSUME NEW m \in Learn!Skills, kStats'.streak[m] >= Streak
        PROVE  \/ kSkill'[m].state = "deprecated"
               \/ kConsumer'.pc = "act" /\ kConsumer'.event.skill = m /\ kConsumer'.todo \in Judging
    <3>1. kSkill[m].state = "deprecated" \/ (m = n /\ kConsumer.todo \in Judging)
      BY <1>1, <1>2, <2>1 DEF Judged
    <3>2. kSkill[m].state = "deprecated" => kSkill'[m].state = "deprecated"
      BY <1>3 DEF SkillsMove
    <3>3. QED
      BY <3>1, <3>2, <1>3, <1>5, <1>6
  <2>2. QED
    BY <2>1 DEF Judged
<1>12. SavedJudged'
  BY <1>1, <1>2, <1>3 DEF SavedJudged, SkillsMove
<1>13. Behind'
  BY <1>1, <1>2, <1>6 DEF Behind, Lacking
<1>14. QED
  BY <1>6, <1>7, <1>8, <1>9, <1>10, <1>11, <1>12, <1>13 DEF LearnInv

\* Every step keeps the invariant.
LEMMA LearnInvStep ==
  ASSUME Learn!LearningAssumption, LearnInv, [Learn!Next]_(Learn!vars)
  PROVE  LearnInv'
<1>1. CASE \E sort \in Learn!Kinds, n \in Learn!Skills : Learn!Publish(sort, n)
  BY <1>1, EventPublished
<1>2. CASE Learn!Receive
  BY <1>2, EventReceived
<1>3. CASE Learn!AppendEvent
  BY <1>3, EventAppended
<1>4. CASE Learn!Handle
  BY <1>4, EventHandled
<1>5. CASE Learn!Act
  BY <1>5, WriteDone
<1>6. CASE Learn!Count
  BY <1>6, EventCounted
<1>7. CASE Learn!SaveStats \/ Learn!Stop
  BY <1>7, StatsSaved
<1>8. CASE Learn!PruneRename \/ Learn!Shutdown
  BY <1>8, ConsumerNotes
<1>9. CASE Learn!PruneRead \/ UNCHANGED Learn!vars
  <2>1. UNCHANGED <<kBus, kPublished, kConsumer, kStats, kSaved, kSkill, kFile>>
    BY <1>9 DEF Learn!PruneRead, Learn!vars
  <2>2. QED
    BY <2>1, LogRead
<1>10. CASE Learn!Restart
  BY <1>10, LearnerRestarted
<1>11. CASE \E torn \in BOOLEAN : Learn!Crash(torn)
  BY <1>11, LearnerKilled
<1>12. QED
  BY <1>1, <1>2, <1>3, <1>4, <1>5, <1>6, <1>7, <1>8, <1>9, <1>10, <1>11
     DEF Learn!Next, Learn!Consumer

\* The numbers of the events that are yet to be logged.
Unlogged ==
  {kBus[k].id : k \in 1 .. Len(kBus)} \union (IF kConsumer.pc =
    "append" THEN {kConsumer.event.id} ELSE {})

\* Lines of a log: events in their order, all of them before those yet to come.
Rises(lines) ==
  \A k \in 1 .. Len(lines) : Learn!IsEvent(lines[k]) =>
    /\ lines[k] \in 1 .. kPublished
    /\ \A j \in 1 .. k - 1 : Learn!IsEvent(lines[j]) => lines[j] < lines[k]
    /\ \A id \in Unlogged : lines[k] < id

\* Events come in their order too.
BusRises ==
  /\ \A k \in 1 .. Len(kBus) : kBus[k].id \in 1 .. kPublished
  /\ \A j, k \in 1 .. Len(kBus) : j < k => kBus[j].id < kBus[k].id
  /\ kConsumer.pc = "append" =>
       /\ kConsumer.event.id \in 1 .. kPublished
       /\ \A k \in 1 .. Len(kBus) : kConsumer.event.id < kBus[k].id

LogTyped ==
  /\ kLog \in Seq(1 .. MaxEvents \union {Learn!Torn, Learn!Junk})
  /\ kPrune \in [on : BOOLEAN, kept : Seq(1 .. MaxEvents)] /\ Len(kPrune.kept) <= MaxLog
  /\ Len(kBus) <= Capacity /\ kCrashes \in 0 .. MaxCrashes

\* No event is counted twice: those counted, the one in hand and those on the
\* bus are among those published.
CountsFit ==
  /\ kStats.processed + (IF kConsumer.pc \in {"append",
       "handle"} THEN 1 ELSE 0) + Len(kBus) <= kPublished
  /\ kSaved.processed <= kPublished
  /\ \A n \in Learn!Skills :
       kStats.streak[n] <= kStats.processed /\ kSaved.streak[n] <= kSaved.processed

LogInv == LogTyped /\ Rises(kLog) /\ Rises(kPrune.kept) /\ BusRises /\ CountsFit

\* Nothing is logged at first.
LEMMA LogInvInit ==
  ASSUME Learn!LearningAssumption, Learn!Init PROVE LogInv
<1> USE LearnConstants
<1>1. /\ kBus = <<>> /\ kLog = <<>> /\ kPublished = 0 /\ kPrune = [on |-> FALSE, kept |-> <<>>]
      /\ kConsumer.pc = "idle" /\ kCrashes = 0 /\ kSaved = kStats /\ kStats.processed = 0
      /\ \A n \in Learn!Skills : kStats.streak[n] = 0
  BY DEF Learn!Init, Learn!Start
<1>2. <<>> \in Seq(1 .. MaxEvents) /\ Len(<<>>) = 0 /\ kPrune.kept = <<>>
      /\ <<>> \in Seq(1 .. MaxEvents \union {Learn!Torn, Learn!Junk})
  BY <1>1
<1>3. LogTyped
  BY <1>1, <1>2 DEF LogTyped
<1>4. Rises(kLog) /\ Rises(kPrune.kept)
  BY <1>1, <1>2 DEF Rises
<1>5. BusRises /\ CountsFit
  BY <1>1, <1>2 DEF BusRises, CountsFit
<1>6. QED
  BY <1>3, <1>4, <1>5 DEF LogInv

\* Lines that stand stay in order, when what is yet to be logged was so before or
\* is published only now.
LEMMA RisesStill ==
  ASSUME NEW lines, Rises(lines), kPublished \in Nat, kPublished' \in Nat,
    kPublished <= kPublished', \A id \in Unlogged' : id \in Unlogged \/
      (id \in Nat /\ kPublished < id)
  PROVE  \A k \in 1 .. Len(lines) : Learn!IsEvent(lines[k]) =>
           /\ lines[k] \in 1 .. kPublished'
           /\ \A j \in 1 .. k - 1 : Learn!IsEvent(lines[j]) => lines[j] < lines[k]
           /\ \A id \in Unlogged' : lines[k] < id
BY DEF Rises

\* The same of the log and of what the pruning has read.
LEMMA LinesStill ==
  ASSUME LogInv, kPublished \in Nat, kPublished' \in Nat, kPublished <= kPublished',
         \A id \in Unlogged' : id \in Unlogged \/ (id \in Nat /\ kPublished < id),
         UNCHANGED <<kLog, kPrune>>
  PROVE  Rises(kLog)' /\ Rises(kPrune.kept)'
<1>1. Rises(kLog) /\ Rises(kPrune.kept)
  BY DEF LogInv
<1>2. Rises(kLog)'
  <2>1. kLog' = kLog
    OBVIOUS
  <2>2. QED
    BY <1>1, <2>1, RisesStill DEF Rises
<1>3. Rises(kPrune.kept)'
  <2>1. kPrune' = kPrune
    OBVIOUS
  <2>2. QED
    BY <1>1, <2>1, RisesStill DEF Rises
<1>4. QED
  BY <1>2, <1>3

\* The bus, the counts and what was published as numbers.
LEMMA LogNumbers ==
  ASSUME Learn!LearningAssumption, LearnTyped
  PROVE  /\ kBus \in Seq(Learn!Event) /\ Len(kBus) \in Nat
         /\ \A k \in 1 .. Len(kBus) : kBus[k] \in Learn!Event /\ kBus[k].id \in 1 .. MaxEvents
         /\ kPublished \in Nat /\ kPublished <= MaxEvents
         /\ kStats.processed \in Nat /\ kSaved.processed \in Nat
         /\ \A n \in Learn!Skills : kStats.streak[n] \in Nat /\ kSaved.streak[n] \in Nat
<1>1. kBus \in Seq(Learn!Event) /\ kPublished \in 0 .. MaxEvents
  BY DEF LearnTyped
<1>2. \A k \in 1 .. Len(kBus) : kBus[k] \in Learn!Event
  BY <1>1
<1>3. \A e \in Learn!Event : e.id \in 1 .. MaxEvents
  BY DEF Learn!Event
<1>4. /\ kStats.processed \in Nat /\ kSaved.processed \in Nat
      /\ \A n \in Learn!Skills : kStats.streak[n] \in Nat /\ kSaved.streak[n] \in Nat
  BY DEF LearnTyped, Statistics
<1>5. QED
  BY <1>1, <1>2, <1>3, <1>4, LearnConstants

\* The next event has the next number.
LEMMA LogPublished ==
  ASSUME Learn!LearningAssumption, LearnTyped, LogInv,
         NEW sort \in Learn!Kinds, NEW n \in Learn!Skills, Learn!Publish(sort, n)
  PROVE  LogInv'
<1> USE LogNumbers
<1>1. /\ kPublished < MaxEvents /\ kPublished' = kPublished + 1
      /\ UNCHANGED <<kConsumer, kStats, kSaved, kLog, kPrune, kCrashes>>
  BY DEF Learn!Publish
<1>2. PICK number \in 1 .. MaxEvents : number = kPublished'
  BY <1>1, LearnConstants
<1> DEFINE e == [id |-> number, kind |-> sort, skill |-> n]
           all == Append(kBus, e)
<1>3. e \in Learn!Event /\ e.id = kPublished + 1
  BY <1>1, <1>2 DEF Learn!Event
<1>4. kBus' = IF Len(all) > Capacity THEN Tail(all) ELSE all
  BY <1>2 DEF Learn!Publish
<1> HIDE DEF e
<1>5. /\ all \in Seq(Learn!Event) /\ all # <<>> /\ Len(all) = Len(kBus) + 1
      /\ \A k \in 1 .. Len(kBus) : all[k] = kBus[k]
      /\ all[Len(kBus) + 1] = e
  BY <1>3
<1>6. /\ Tail(all) \in Seq(Learn!Event) /\ Len(Tail(all)) = Len(all) - 1
      /\ \A k \in 1 .. Len(Tail(all)) : Tail(all)[k] = all[k + 1] /\ k + 1 \in 1 .. Len(all)
  BY <1>5
<1> HIDE DEF all
<1>7. Len(kBus) <= Capacity /\ Capacity \in Nat \ {0}
  BY LearnConstants DEF LogInv, LogTyped
<1>8. BusRises
  BY DEF LogInv
<1>9. /\ \A k \in 1 .. Len(all) : all[k].id \in 1 .. kPublished'
      /\ \A j, k \in 1 .. Len(all) : j < k => all[j].id < all[k].id
      /\ kConsumer.pc = "append" =>
           \A k \in 1 .. Len(all) : kConsumer.event.id < all[k].id
      /\ \A k \in 1 .. Len(all) : all[k].id \in Unlogged \/
           (all[k].id \in Nat /\ kPublished < all[k].id)
  <2>1. \A k \in 1 .. Len(all) : k \in 1 .. Len(kBus) \/ k = Len(kBus) + 1
    BY <1>5
  <2>2. \A k \in 1 .. Len(kBus) : all[k].id = kBus[k].id /\ kBus[k].id \in 1 .. kPublished
    BY <1>5, <1>8 DEF BusRises
  <2>3. all[Len(kBus) + 1].id = kPublished + 1
    BY <1>3, <1>5
  <2>4. \A k \in 1 .. Len(all) : all[k].id \in 1 .. kPublished'
    BY <1>1, <2>1, <2>2, <2>3
  <2>5. \A j, k \in 1 .. Len(all) : j < k => all[j].id < all[k].id
    <3> SUFFICES ASSUME NEW j \in 1 .. Len(all), NEW k \in 1 .. Len(all), j < k
                 PROVE  all[j].id < all[k].id
      OBVIOUS
    <3>1. j \in 1 .. Len(kBus)
      BY <1>5
    <3>2. CASE k \in 1 .. Len(kBus)
      BY <3>1, <3>2, <2>2, <1>8 DEF BusRises
    <3>3. CASE k = Len(kBus) + 1
      BY <3>1, <3>3, <2>2, <2>3
    <3>4. QED
      BY <3>2, <3>3, <2>1
  <2>6. kConsumer.pc = "append" => \A k \in 1 .. Len(all) : kConsumer.event.id < all[k].id
    BY <2>1, <2>2, <2>3, <1>8 DEF BusRises
  <2>7. \A k \in 1 .. Len(all) : all[k].id \in Unlogged \/
          (all[k].id \in Nat /\ kPublished < all[k].id)
    BY <2>1, <2>2, <2>3 DEF Unlogged
  <2>8. QED
    BY <2>4, <2>5, <2>6, <2>7
<1>10. /\ Len(kBus') \in Nat /\ Len(kBus') <= Capacity /\ Len(kBus') <= Len(kBus) + 1
       /\ \/ kBus' = all
          \/ \A k \in 1 .. Len(kBus') : kBus'[k] = all[k + 1] /\ k + 1 \in 1 .. Len(all)
  BY <1>4, <1>5, <1>6, <1>7
<1>11. BusRises'
  <2>1. kConsumer.pc = "append" => kConsumer.event.id \in 1 .. kPublished'
    BY <1>1, <1>8 DEF BusRises
  <2>2. CASE kBus' = all
    BY <2>1, <2>2, <1>1, <1>9 DEF BusRises
  <2>3. CASE \A k \in 1 .. Len(kBus') : kBus'[k] = all[k + 1] /\ k + 1 \in 1 .. Len(all)
    <3>1. \A k \in 1 .. Len(kBus') : kBus'[k].id \in 1 .. kPublished'
      BY <2>3, <1>9
    <3>2. \A j, k \in 1 .. Len(kBus') : j < k => j + 1 < k + 1
      OBVIOUS
    <3>3. \A j, k \in 1 .. Len(kBus') : j < k => kBus'[j].id < kBus'[k].id
      BY <2>3, <3>2, <1>9
    <3>4. kConsumer.pc = "append" => \A k \in 1 .. Len(kBus') : kConsumer.event.id < kBus'[k].id
      BY <2>3, <1>9
    <3>5. QED
      BY <2>1, <3>1, <3>3, <3>4, <1>1 DEF BusRises
  <2>4. QED
    BY <1>10, <2>2, <2>3
<1>12. \A id \in Unlogged' : id \in Unlogged \/ (id \in Nat /\ kPublished < id)
  <2>1. \A k \in 1 .. Len(kBus') : kBus'[k].id \in Unlogged \/
          (kBus'[k].id \in Nat /\ kPublished < kBus'[k].id)
    BY <1>9, <1>10
  <2>2. kConsumer' = kConsumer /\ (kConsumer.pc = "append" => kConsumer.event.id \in Unlogged)
    BY <1>1 DEF Unlogged
  <2>3. QED
    BY <2>1, <2>2 DEF Unlogged
<1>13. Rises(kLog)' /\ Rises(kPrune.kept)'
  BY <1>1, <1>12, LinesStill
<1>14. LogTyped'
  BY <1>1, <1>10 DEF LogInv, LogTyped
<1>15. CountsFit'
  BY <1>1, <1>10 DEF LogInv, CountsFit
<1>16. QED
  BY <1>11, <1>13, <1>14, <1>15 DEF LogInv

\* The oldest event that is left is taken to be logged.
LEMMA LogReceived ==
  ASSUME Learn!LearningAssumption, LearnTyped, LogInv, Learn!Receive
  PROVE  LogInv'
<1> USE LogNumbers
<1>1. /\ kConsumer.pc = "idle" /\ kBus # <<>> /\ kBus' = Tail(kBus)
      /\ UNCHANGED <<kPublished, kStats, kSaved, kLog, kPrune, kCrashes>>
      /\ kConsumer' = [kConsumer EXCEPT !.pc = "append", !.event = Head(kBus), !.lost = FALSE]
  BY DEF Learn!Receive
<1>2. kConsumer'.pc = "append" /\ kConsumer'.event = kBus[1]
  BY <1>1 DEF LearnTyped
<1>3. /\ 1 \in 1 .. Len(kBus) /\ Len(kBus') = Len(kBus) - 1
      /\ \A k \in 1 .. Len(kBus') : kBus'[k] = kBus[k + 1] /\ k + 1 \in 1 .. Len(kBus) /\ 1 < k + 1
  BY <1>1
<1>4. BusRises'
  BY <1>1, <1>2, <1>3 DEF LogInv, BusRises
<1>5. \A id \in Unlogged' : id \in Unlogged
  BY <1>2, <1>3 DEF Unlogged
<1>6. Rises(kLog)' /\ Rises(kPrune.kept)'
  BY <1>1, <1>5, LinesStill
<1>7. LogTyped'
  <2>1. Len(kBus') <= Capacity
    BY <1>3, LearnConstants DEF LogInv, LogTyped
  <2>2. QED
    BY <1>1, <2>1 DEF LogInv, LogTyped
<1>8. CountsFit'
  <2>1. kStats.processed + 0 + Len(kBus) <= kPublished
    BY <1>1 DEF LogInv, CountsFit
  <2>2. kStats.processed + 1 + Len(kBus') <= kPublished
    BY <1>3, <2>1
  <2>3. QED
    BY <1>1, <1>2, <2>2 DEF LogInv, CountsFit
<1>9. QED
  BY <1>4, <1>6, <1>7, <1>8 DEF LogInv

\* The event in hand is logged behind all that were before it.
LEMMA LogAppended ==
  ASSUME Learn!LearningAssumption, LearnTyped, LogInv, Learn!AppendEvent
  PROVE  LogInv'
<1> USE LogNumbers
<1> DEFINE id == kConsumer.event.id
<1>1. /\ kConsumer.pc = "append"
      /\ UNCHANGED <<kBus, kPublished, kStats, kSaved, kPrune, kCrashes>>
      /\ kConsumer' = [kConsumer EXCEPT !.pc = "handle"]
      /\ \/ kLog' = kLog
         \/ kLog # <<>> /\ kLog' = [kLog EXCEPT ![Len(kLog)] = Learn!Junk]
         \/ kLog' = Append(kLog, id)
  BY DEF Learn!AppendEvent, Learn!Goes, Learn!Ends
<1>2. kConsumer'.pc = "handle" /\ kConsumer'.event = kConsumer.event
  BY <1>1 DEF LearnTyped
<1>3. /\ id \in 1 .. kPublished /\ id \in Unlogged /\ id \in 1 .. MaxEvents
      /\ \A k \in 1 .. Len(kBus) : id < kBus[k].id
  <2>1. id \in 1 .. kPublished /\ id \in Unlogged
    BY <1>1 DEF LogInv, BusRises, Unlogged
  <2>2. \A k \in 1 .. Len(kBus) : id < kBus[k].id
    BY <1>1 DEF LogInv, BusRises
  <2>3. kPublished \in Nat /\ kPublished <= MaxEvents /\ MaxEvents \in Nat
    BY LogNumbers, LearnConstants
  <2>4. QED
    BY <2>1, <2>2, <2>3
<1>4. Unlogged' = {kBus[k].id : k \in 1 .. Len(kBus)}
  BY <1>1, <1>2 DEF Unlogged
<1>5. Unlogged' \subseteq Unlogged /\ \A w \in Unlogged' : id < w
  BY <1>3, <1>4 DEF Unlogged
<1>6. Rises(kLog) /\ Rises(kPrune.kept)
  BY DEF LogInv
<1>7. Rises(kPrune.kept)'
  <2>1. kPrune' = kPrune /\ kPublished' = kPublished
    BY <1>1
  <2>2. QED
    BY <2>1, <1>5, <1>6, RisesStill DEF Rises
<1>8. kLog \in Seq(1 .. MaxEvents \union {Learn!Torn, Learn!Junk})
  BY DEF LogInv, LogTyped
<1> HIDE DEF id
<1>9. /\ kLog' \in Seq(1 .. MaxEvents \union {Learn!Torn, Learn!Junk})
      /\ Rises(kLog)'
  <2>1. CASE kLog' = kLog
    BY <2>1, <1>1, <1>5, <1>6, <1>8, RisesStill DEF Rises
  <2>2. CASE kLog # <<>> /\ kLog' = [kLog EXCEPT ![Len(kLog)] = Learn!Junk]
    <3>1. /\ kLog' \in Seq(1 .. MaxEvents \union {Learn!Torn, Learn!Junk}) /\ Len(kLog') = Len(kLog)
          /\ \A k \in 1 .. Len(kLog) : kLog'[k] = IF k = Len(kLog) THEN Learn!Junk ELSE kLog[k]
      BY <2>2, <1>8
    <3>2. \A k \in 1 .. Len(kLog) : Learn!IsEvent(kLog'[k]) => kLog'[k] = kLog[k]
      BY <3>1 DEF Learn!IsEvent
    <3>3. ASSUME NEW k \in 1 .. Len(kLog), Learn!IsEvent(kLog'[k])
          PROVE  /\ kLog'[k] \in 1 .. kPublished'
                 /\ \A j \in 1 .. k - 1 : Learn!IsEvent(kLog'[j]) => kLog'[j] < kLog'[k]
                 /\ \A w \in Unlogged' : kLog'[k] < w
      <4>1. kLog'[k] = kLog[k] /\ Learn!IsEvent(kLog[k])
        BY <3>2, <3>3
      <4>2. \A j \in 1 .. k - 1 : j \in 1 .. Len(kLog)
        BY <1>8
      <4>3. kLog[k] \in 1 .. kPublished /\ \A w \in Unlogged' : kLog[k] < w
        BY <4>1, <1>5, <1>6 DEF Rises
      <4>4. \A j \in 1 .. k - 1 : Learn!IsEvent(kLog'[j]) => kLog'[j] < kLog'[k]
        BY <4>1, <4>2, <3>2, <1>6 DEF Rises
      <4>5. QED
        BY <4>1, <4>3, <4>4, <1>1
    <3>4. QED
      BY <3>1, <3>3 DEF Rises
  <2>3. CASE kLog' = Append(kLog, id)
    <3>1. /\ kLog' \in Seq(1 .. MaxEvents \union {Learn!Torn, Learn!Junk})
          /\ Len(kLog') = Len(kLog) + 1 /\ kLog'[Len(kLog) + 1] = id
          /\ \A k \in 1 .. Len(kLog) : kLog'[k] = kLog[k]
      BY <2>3, <1>3, <1>8
    <3>2. \A k \in 1 .. Len(kLog') : k \in 1 .. Len(kLog) \/ k = Len(kLog) + 1
      BY <3>1, <1>8
    <3>3. ASSUME NEW k \in 1 .. Len(kLog), Learn!IsEvent(kLog'[k])
          PROVE  /\ kLog'[k] \in 1 .. kPublished'
                 /\ \A j \in 1 .. k - 1 : Learn!IsEvent(kLog'[j]) => kLog'[j] < kLog'[k]
                 /\ \A w \in Unlogged' : kLog'[k] < w
      <4>1. \A j \in 1 .. k - 1 : j \in 1 .. Len(kLog)
        BY <1>8
      <4>2. QED
        BY <3>1, <3>3, <4>1, <1>1, <1>5, <1>6, RisesStill
    <3>4. /\ kLog'[Len(kLog) + 1] \in 1 .. kPublished'
          /\ \A j \in 1 .. Len(kLog) : Learn!IsEvent(kLog'[j]) => kLog'[j] < kLog'[Len(kLog) + 1]
          /\ \A w \in Unlogged' : kLog'[Len(kLog) + 1] < w
      BY <3>1, <1>1, <1>3, <1>5, <1>6 DEF Rises
    <3>5. Rises(kLog)'
      <4> SUFFICES ASSUME NEW k \in 1 .. Len(kLog'), Learn!IsEvent(kLog'[k])
                   PROVE  /\ kLog'[k] \in 1 .. kPublished'
                          /\ \A j \in 1 .. k - 1 : Learn!IsEvent(kLog'[j]) => kLog'[j] < kLog'[k]
                          /\ \A w \in Unlogged' : kLog'[k] < w
        BY DEF Rises
      <4>1. CASE k \in 1 .. Len(kLog)
        BY <4>1, <3>3
      <4>2. CASE k = Len(kLog) + 1
        <5>1. 1 .. k - 1 = 1 .. Len(kLog)
          BY <4>2, <1>8
        <5>2. QED
          BY <4>2, <5>1, <3>4
      <4>3. QED
        BY <4>1, <4>2, <3>2
    <3>6. QED
      BY <3>1, <3>5
  <2>4. QED
    BY <1>1, <2>1, <2>2, <2>3 DEF id
<1>10. LogTyped'
  BY <1>1, <1>9 DEF LogInv, LogTyped
<1>11. BusRises'
  BY <1>1, <1>2 DEF LogInv, BusRises
<1>12. CountsFit'
  BY <1>1, <1>2 DEF LogInv, CountsFit
<1>13. QED
  BY <1>7, <1>9, <1>10, <1>11, <1>12 DEF LogInv

\* The event in hand is counted, in one streak at most.
LEMMA LogCounted ==
  ASSUME Learn!LearningAssumption, LearnTyped, LogInv, Learn!Handle
  PROVE  LogInv'
<1> USE LogNumbers
<1> DEFINE e == kConsumer.event
           streak == IF e.kind = "useless" THEN kStats.streak[e.skill] + 1
                     ELSE IF e.kind = "other" THEN kStats.streak[e.skill] ELSE 0
<1>1. /\ kConsumer.pc = "handle"
      /\ UNCHANGED <<kBus, kPublished, kSaved, kLog, kPrune, kCrashes>>
      /\ kConsumer' = [kConsumer EXCEPT !.pc = "act", !.todo = Learn!Wanted(e.kind, streak)]
      /\ kStats' = [processed |-> kStats.processed + 1,
           streak |-> [kStats.streak EXCEPT ![e.skill] = streak]]
  BY DEF Learn!Handle
<1>2. kConsumer'.pc = "act"
  BY <1>1 DEF LearnTyped
<1>3. e.skill \in Learn!Skills
  BY EventTyped
<1>4. kStats.streak \in [Learn!Skills -> Nat]
  BY DEF LearnTyped, Statistics
<1>5. streak \in Nat /\ streak <= kStats.processed + 1
  BY <1>3 DEF LogInv, CountsFit
<1> HIDE DEF streak, e
<1>6. /\ kStats'.processed = kStats.processed + 1
      /\ \A n \in Learn!Skills : kStats'.streak[n] <= kStats'.processed
  <2>1. ASSUME NEW n \in Learn!Skills
        PROVE  kStats'.streak[n] <= kStats.processed + 1
    <3>1. kStats'.streak[n] = IF n = e.skill THEN streak ELSE kStats.streak[n]
      BY <1>1, <1>3, <1>4
    <3>2. kStats.streak[n] <= kStats.processed + 1
      BY DEF LogInv, CountsFit
    <3>3. QED
      BY <3>1, <3>2, <1>5
  <2>2. QED
    BY <2>1, <1>1
<1>7. CountsFit'
  <2>1. kStats.processed + 1 + Len(kBus) <= kPublished
    BY <1>1 DEF LogInv, CountsFit
  <2>2. kStats'.processed + 0 + Len(kBus') <= kPublished'
    BY <1>1, <1>6, <2>1
  <2>3. QED
    BY <1>1, <1>2, <1>6, <2>2 DEF LogInv, CountsFit
<1>8. \A id \in Unlogged' : id \in Unlogged
  BY <1>1, <1>2 DEF Unlogged
<1>9. Rises(kLog)' /\ Rises(kPrune.kept)'
  BY <1>1, <1>8, LinesStill
<1>10. LogTyped' /\ BusRises'
  BY <1>1, <1>2 DEF LogInv, LogTyped, BusRises
<1>11. QED
  BY <1>7, <1>9, <1>10 DEF LogInv

\* What else the consumer does: the log stands, and what is saved was counted.
LEMMA LogStands ==
  ASSUME Learn!LearningAssumption, LearnInv, LogInv,
         \/ Learn!Act \/ Learn!Count \/ Learn!SaveStats \/ Learn!Stop \/ Learn!Shutdown
         \/ Learn!Restart \/ UNCHANGED Learn!vars
  PROVE  LogInv'
<1> USE LogNumbers
<1>1. LearnTyped
  BY DEF LearnInv
<1>2. UNCHANGED <<kBus, kPublished, kLog, kPrune, kCrashes>>
  BY DEF Learn!Act, Learn!Count, Learn!SaveStats, Learn!Stop, Learn!Shutdown, Learn!Restart,
     Learn!vars
<1>3. \/ kConsumer'.pc \notin {"append", "handle"}
      \/ kConsumer'.pc = kConsumer.pc /\ kConsumer'.event = kConsumer.event
  <2> USE <1>1 DEF LearnTyped
  <2>1. CASE Learn!Act
    <3>1. kConsumer'.pc = "act"
      BY <2>1 DEF Learn!Act
    <3>2. QED
      BY <3>1
  <2>2. CASE Learn!Count
    BY <2>2 DEF Learn!Count
  <2>3. CASE Learn!SaveStats
    BY <2>3 DEF Learn!SaveStats
  <2>4. CASE Learn!Stop
    BY <2>4 DEF Learn!Stop, Learn!Goes
  <2>5. CASE Learn!Restart
    BY <2>5 DEF Learn!Restart, Learn!Start
  <2>6. CASE Learn!Shutdown \/ UNCHANGED Learn!vars
    BY <2>6 DEF Learn!Shutdown, Learn!vars
  <2>7. QED
    BY <2>1, <2>2, <2>3, <2>4, <2>5, <2>6
<1>4. /\ kSaved' \in {kSaved, kStats}
      /\ kStats' = kStats \/ (kStats' = kSaved /\ kBus = <<>> /\ kSaved' = kSaved)
  BY DEF Learn!Act, Learn!Count, Learn!SaveStats, Learn!Stop, Learn!Shutdown, Learn!Restart,
     Learn!vars, LearnInv
<1>5. \A id \in Unlogged' : id \in Unlogged
  BY <1>2, <1>3 DEF Unlogged
<1>6. Rises(kLog)' /\ Rises(kPrune.kept)'
  BY <1>1, <1>2, <1>5, LinesStill
<1>7. LogTyped'
  BY <1>2 DEF LogInv, LogTyped
<1>8. BusRises'
  BY <1>2, <1>3 DEF LogInv, BusRises
<1>9. CountsFit'
  <2>1. CountsFit
    BY DEF LogInv
  <2>2. kStats.processed <= kPublished
    BY <1>1, <2>1 DEF CountsFit
  <2>3. kSaved'.processed <= kPublished'
    BY <1>2, <1>4, <2>1, <2>2 DEF CountsFit
  <2>4. \A n \in Learn!Skills :
          kStats'.streak[n] <= kStats'.processed /\ kSaved'.streak[n] <= kSaved'.processed
    BY <1>4, <2>1 DEF CountsFit
  <2>5. kStats'.processed + (IF kConsumer'.pc \in {"append",
          "handle"} THEN 1 ELSE 0) + Len(kBus') <= kPublished'
    <3>1. CASE kStats' = kStats /\ kConsumer'.pc \notin {"append", "handle"}
      BY <3>1, <1>1, <1>2, <2>1 DEF CountsFit
    <3>2. CASE kStats' = kStats /\ kConsumer'.pc = kConsumer.pc
      BY <3>2, <1>2, <2>1 DEF CountsFit
    <3>3. CASE kStats' = kSaved /\ kBus = <<>> /\ Learn!Restart
      <4>1. kConsumer'.pc = "idle" /\ Len(kBus') = 0
        BY <3>3, <1>2 DEF Learn!Restart, Learn!Start
      <4>2. QED
        BY <3>3, <4>1, <1>1, <1>2, <2>1 DEF CountsFit
    <3>4. kStats' = kStats \/ (kStats' = kSaved /\ kBus = <<>> /\ Learn!Restart)
      BY DEF Learn!Act, Learn!Count, Learn!SaveStats, Learn!Stop, Learn!Shutdown, Learn!Restart,
         Learn!vars, LearnInv
    <3>5. QED
      BY <1>3, <3>1, <3>2, <3>3, <3>4
  <2>6. QED
    BY <2>3, <2>4, <2>5 DEF CountsFit
<1>10. QED
  BY <1>6, <1>7, <1>8, <1>9 DEF LogInv

\* A sequence over a set is one over any that contains it.
LEMMA WiderSeq ==
  ASSUME NEW S, NEW T, S \subseteq T, NEW s \in Seq(S) PROVE s \in Seq(T)
OBVIOUS

\* The pruning reads the last events, in their order, and writes them back.
LEMMA LogPruned ==
  ASSUME Learn!LearningAssumption, LearnTyped, LogInv, Learn!PruneRead \/ Learn!PruneRename
  PROVE  LogInv'
<1> USE LogNumbers
<1>1. /\ UNCHANGED <<kBus, kPublished, kStats, kSaved, kCrashes>>
      /\ kConsumer'.pc = kConsumer.pc /\ kConsumer'.event = kConsumer.event
  BY DEF Learn!PruneRead, Learn!PruneRename, LearnTyped
<1>2. Unlogged' = Unlogged
  BY <1>1 DEF Unlogged
<1>3. /\ kLog \in Seq(1 .. MaxEvents \union {Learn!Torn, Learn!Junk})
      /\ kPrune \in [on : BOOLEAN, kept : Seq(1 .. MaxEvents)] /\ Len(kPrune.kept) <= MaxLog
      /\ MaxLog \in Nat \ {0}
  BY LearnConstants DEF LogInv, LogTyped
<1>4. /\ kLog' \in Seq(1 .. MaxEvents \union {Learn!Torn, Learn!Junk})
      /\ kPrune' \in [on : BOOLEAN, kept : Seq(1 .. MaxEvents)] /\ Len(kPrune'.kept) <= MaxLog
      /\ Rises(kLog)' /\ Rises(kPrune.kept)'
  <2>1. CASE Learn!PruneRename
    <3>1. kLog' = kPrune.kept /\ kPrune' = [on |-> FALSE, kept |-> <<>>]
      BY <2>1 DEF Learn!PruneRename
    <3>2. Rises(kPrune.kept)
      BY DEF LogInv
    <3>3. Rises(kLog)'
      BY <3>1, <3>2, <1>1, <1>2 DEF Rises
    <3>4. kPrune'.kept = <<>> /\ kPrune'.kept \in Seq(1 .. MaxEvents) /\ Len(kPrune'.kept) = 0
      BY <3>1
    <3>5. Rises(kPrune.kept)'
      BY <3>4 DEF Rises
    <3>6. kLog' \in Seq(1 .. MaxEvents \union {Learn!Torn, Learn!Junk})
      <4>1. kPrune.kept \in Seq(1 .. MaxEvents)
        BY <1>3
      <4>2. 1 .. MaxEvents \subseteq 1 .. MaxEvents \union {Learn!Torn, Learn!Junk}
        OBVIOUS
      <4>3. kPrune.kept \in Seq(1 .. MaxEvents \union {Learn!Torn, Learn!Junk})
        BY ONLY <4>1, <4>2, WiderSeq
      <4>4. QED
        BY ONLY <4>3, <3>1
    <3>7. QED
      BY <3>1, <3>3, <3>4, <3>5, <3>6, <1>3
  <2>2. CASE Learn!PruneRead
    <3>1. PICK at \in [1 .. MaxLog -> Learn!Events] :
            /\ \A j, k \in 1 .. MaxLog : j < k => at[j] < at[k]
            /\ kPrune' = [on |-> TRUE, kept |-> [j \in 1 .. MaxLog |-> kLog[at[j]]]]
      BY <2>2 DEF Learn!PruneRead
    <3>2. kLog' = kLog
      BY <2>2 DEF Learn!PruneRead
    <3>3. /\ Rises(kLog)
          /\ \A k \in Learn!Events : k \in 1 .. Len(kLog) /\ Learn!IsEvent(kLog[k])
      BY <1>3 DEF LogInv, Learn!Events
    <3>4. \A k \in Learn!Events : kLog[k] \in 1 .. kPublished /\ kLog[k] \in 1 .. MaxEvents
      <4>1. kPublished \in Nat /\ kPublished <= MaxEvents /\ MaxEvents \in Nat
        BY LogNumbers, LearnConstants
      <4>2. \A k \in Learn!Events : kLog[k] \in 1 .. kPublished
        BY <3>3 DEF Rises
      <4>3. QED
        BY <4>1, <4>2
    <3> DEFINE kept == [j \in 1 .. MaxLog |-> kLog[at[j]]]
    <3>5. kept \in Seq(1 .. MaxEvents) /\ Len(kept) = MaxLog
      <4>1. \A j \in 1 .. MaxLog : kLog[at[j]] \in 1 .. MaxEvents
        BY <3>1, <3>4
      <4>2. MaxLog \in Nat
        BY <1>3
      <4>3. kept \in [1 .. MaxLog -> 1 .. MaxEvents]
        BY ONLY <4>1
      <4>4. QED
        BY ONLY <4>2, <4>3
    <3>6. ASSUME NEW k \in 1 .. MaxLog
          PROVE  /\ kept[k] \in 1 .. kPublished
                 /\ \A j \in 1 .. k - 1 : kept[j] < kept[k]
                 /\ \A id \in Unlogged : kept[k] < id
      <4>1. at[k] \in Learn!Events /\ kept[k] = kLog[at[k]]
        BY <3>1
      <4>2. kept[k] \in 1 .. kPublished /\ \A id \in Unlogged : kept[k] < id
        BY <4>1, <3>3 DEF Rises
      <4>3. ASSUME NEW j \in 1 .. k - 1
            PROVE  kept[j] < kept[k]
        <5>1. j \in 1 .. MaxLog /\ j < k
          BY <1>3
        <5>2. at[j] \in Learn!Events /\ kept[j] = kLog[at[j]] /\ at[j] < at[k]
          BY <3>1, <5>1
        <5>3. at[j] \in 1 .. at[k] - 1
          BY <3>3, <4>1, <5>2
        <5>4. QED
          BY <3>3, <4>1, <5>2, <5>3 DEF Rises
      <4>4. QED
        BY <4>2, <4>3
    <3>7. kPrune'.kept = kept /\ kPrune'.on = TRUE /\ kPrune' = [on |-> TRUE, kept |-> kept]
      BY <3>1
    <3> HIDE DEF kept
    <3>8. Rises(kPrune.kept)'
      BY <3>5, <3>6, <3>7, <1>1, <1>2 DEF Rises
    <3>9. Rises(kLog)'
      BY <3>2, <3>3, <1>1, <1>2 DEF Rises
    <3>10. QED
      BY <3>2, <3>5, <3>7, <3>8, <3>9, <1>3
  <2>3. QED
    BY <2>1, <2>2
<1>5. LogTyped'
  BY <1>1, <1>4 DEF LogInv, LogTyped
<1>6. BusRises' /\ CountsFit'
  BY <1>1 DEF LogInv, BusRises, CountsFit
<1>7. QED
  BY <1>4, <1>5, <1>6 DEF LogInv

\* A kill leaves the lines there were, and half a line perhaps.
LEMMA LogKilled ==
  ASSUME Learn!LearningAssumption, LearnTyped, LogInv, NEW torn \in BOOLEAN, Learn!Crash(torn)
  PROVE  LogInv'
<1> USE LogNumbers
<1>1. /\ kCrashes < MaxCrashes /\ kCrashes' = kCrashes + 1
      /\ kLog' = IF torn THEN Append(kLog, Learn!Torn) ELSE kLog
      /\ kConsumer'.pc = "dead" /\ kBus' = <<>> /\ kPrune' = [on |-> FALSE, kept |-> <<>>]
      /\ UNCHANGED <<kPublished, kStats, kSaved>>
  BY DEF Learn!Crash, Learn!Start
<1>2. Unlogged' = {} /\ Len(kBus') = 0 /\ kBus' \in Seq(Learn!Event)
  BY <1>1 DEF Unlogged
<1>3. kPrune'.kept = <<>> /\ kPrune'.kept \in Seq(1 .. MaxEvents) /\ Len(kPrune'.kept) = 0
  BY <1>1
<1>4. kLog \in Seq(1 .. MaxEvents \union {Learn!Torn, Learn!Junk}) /\ Rises(kLog)
  BY DEF LogInv, LogTyped
<1>5. kLog' \in Seq(1 .. MaxEvents \union {Learn!Torn, Learn!Junk}) /\ Rises(kLog)'
  <2>1. CASE ~torn
    BY <2>1, <1>1, <1>2, <1>4 DEF Rises
  <2>2. CASE torn
    <3>1. /\ kLog' \in Seq(1 .. MaxEvents \union {Learn!Torn, Learn!Junk})
          /\ Len(kLog') = Len(kLog) + 1 /\ kLog'[Len(kLog) + 1] = Learn!Torn
          /\ \A k \in 1 .. Len(kLog) : kLog'[k] = kLog[k]
      BY <2>2, <1>1, <1>4
    <3>2. \A k \in 1 .. Len(kLog') : k \in 1 .. Len(kLog) \/ k = Len(kLog) + 1
      BY <3>1, <1>4
    <3>3. ASSUME NEW k \in 1 .. Len(kLog'), Learn!IsEvent(kLog'[k])
          PROVE  /\ kLog'[k] \in 1 .. kPublished'
                 /\ \A j \in 1 .. k - 1 : Learn!IsEvent(kLog'[j]) => kLog'[j] < kLog'[k]
      <4>1. k \in 1 .. Len(kLog)
        BY <3>1, <3>2, <3>3 DEF Learn!IsEvent
      <4>2. \A j \in 1 .. k - 1 : j \in 1 .. Len(kLog)
        BY <4>1, <1>4
      <4>3. QED
        BY <3>1, <3>3, <4>1, <4>2, <1>1, <1>4 DEF Rises
    <3>4. QED
      BY <3>1, <3>3, <1>2 DEF Rises
  <2>3. QED
    BY <2>1, <2>2
<1>6. Rises(kPrune.kept)'
  BY <1>3 DEF Rises
<1>7. LogTyped'
  BY <1>1, <1>2, <1>3, <1>5, LearnConstants DEF LogInv, LogTyped
<1>8. BusRises' /\ CountsFit'
  <2>1. kStats.processed + 0 <= kPublished
    BY DEF LogInv, CountsFit
  <2>2. kStats'.processed + 0 + Len(kBus') <= kPublished'
    BY <1>1, <1>2, <2>1
  <2>3. QED
    BY <1>1, <1>2, <2>2 DEF LogInv, BusRises, CountsFit
<1>9. QED
  BY <1>5, <1>6, <1>7, <1>8 DEF LogInv

\* Every step keeps the log.
LEMMA LogInvStep ==
  ASSUME Learn!LearningAssumption, LearnInv, LogInv, [Learn!Next]_(Learn!vars)
  PROVE  LogInv'
<1>1. LearnTyped
  BY DEF LearnInv
<1>2. CASE \E sort \in Learn!Kinds, n \in Learn!Skills : Learn!Publish(sort, n)
  BY <1>1, <1>2, LogPublished
<1>3. CASE Learn!Receive
  BY <1>1, <1>3, LogReceived
<1>4. CASE Learn!AppendEvent
  BY <1>1, <1>4, LogAppended
<1>5. CASE Learn!Handle
  BY <1>1, <1>5, LogCounted
<1>6. CASE \/ Learn!Act \/ Learn!Count \/ Learn!SaveStats \/ Learn!Stop \/ Learn!Shutdown
           \/ Learn!Restart \/ UNCHANGED Learn!vars
  BY <1>6, LogStands
<1>7. CASE Learn!PruneRead \/ Learn!PruneRename
  BY <1>1, <1>7, LogPruned
<1>8. CASE \E torn \in BOOLEAN : Learn!Crash(torn)
  BY <1>1, <1>8, LogKilled
<1>9. QED
  BY <1>2, <1>3, <1>4, <1>5, <1>6, <1>7, <1>8 DEF Learn!Next, Learn!Consumer

\* The log tells the events in the order they happened.
LEMMA LogInOrderFollows ==
  ASSUME Learn!LearningAssumption, LogInv PROVE Learn!LogInOrder
<1>1. kLog \in Seq(1 .. MaxEvents \union {Learn!Torn, Learn!Junk}) /\ Rises(kLog)
  BY DEF LogInv, LogTyped
<1>2. ASSUME NEW j \in Learn!Events, NEW k \in Learn!Events, j < k
      PROVE  kLog[j] < kLog[k]
  <2>1. /\ j \in 1 .. Len(kLog) /\ k \in 1 .. Len(kLog)
        /\ Learn!IsEvent(kLog[j]) /\ Learn!IsEvent(kLog[k])
    BY <1>1 DEF Learn!Events
  <2>2. j \in 1 .. k - 1
    BY <1>2, <2>1
  <2>3. QED
    BY <1>1, <2>1, <2>2 DEF Rises
<1>3. QED
  BY <1>2 DEF Learn!LogInOrder

\* The types: what is counted was published, and nothing exceeds its capacity.
LEMMA LearningTypedFollows ==
  ASSUME Learn!LearningAssumption, LearnInv, LogInv PROVE Learn!TypeOK
<1> USE LogNumbers
<1>1. LearnTyped
  BY DEF LearnInv
<1>2. kConsumer \in [pc : {"idle", "append", "handle", "act", "save", "done", "dead"},
                     event : Learn!Event \union {Learn!Nothing}, since : 0 .. SaveEvery,
                     todo : Seq({"up", "down", "patch", "create", "describe", "deprecate"}),
                     lost : BOOLEAN, stopping : BOOLEAN]
  <2>1. kConsumer \in [pc : {"idle", "append", "handle", "act", "save", "done", "dead"},
                       event : Learn!Event \union {Learn!Nothing}, since : 0 .. SaveEvery - 1,
                       todo : Todos, lost : BOOLEAN, stopping : BOOLEAN]
    BY <1>1 DEF LearnTyped
  <2>2. Todos \subseteq Seq({"up", "down", "patch", "create", "describe", "deprecate"})
    BY DEF Todos
  <2>3. 0 .. SaveEvery - 1 \subseteq 0 .. SaveEvery
    BY LearnConstants
  <2>4. QED
    BY <2>1, <2>2, <2>3
<1>3. kStats.processed <= kPublished /\ kSaved.processed <= kPublished
  BY <1>1 DEF LogInv, CountsFit
<1>4. kStats \in Learn!Counts
  <2>1. kStats \in Statistics /\ \A n \in Learn!Skills : kStats.streak[n] <= kStats.processed
    BY <1>1 DEF LearnTyped, LogInv, CountsFit
  <2>2. kStats.processed \in 0 .. MaxEvents
    <3>1. kStats.processed \in Nat /\ kPublished \in Nat /\ kPublished <= MaxEvents
      BY <1>1, LogNumbers
    <3>2. QED
      BY <3>1, <1>3, LearnConstants
  <2>3. \A n \in Learn!Skills : kStats.streak[n] \in 0 .. MaxEvents
    <3> SUFFICES ASSUME NEW n \in Learn!Skills PROVE kStats.streak[n] \in 0 .. MaxEvents
      OBVIOUS
    <3>1. kStats.streak[n] \in Nat /\ kStats.streak[n] <= kStats.processed
      BY <2>1 DEF Statistics
    <3>2. kStats.processed \in Nat /\ kStats.processed <= MaxEvents /\ MaxEvents \in Nat
      BY <2>2, LearnConstants
    <3>3. QED
      BY ONLY <3>1, <3>2
  <2>4. kStats.streak \in [Learn!Skills -> 0 .. MaxEvents]
    BY <2>1, <2>3 DEF Statistics
  <2>5. QED
    BY <2>1, <2>2, <2>4 DEF Statistics, Learn!Counts
<1>5. kSaved \in Learn!Counts
  <2>1. kSaved \in Statistics /\ \A n \in Learn!Skills : kSaved.streak[n] <= kSaved.processed
    BY <1>1 DEF LearnTyped, LogInv, CountsFit
  <2>2. kSaved.processed \in 0 .. MaxEvents
    <3>1. kSaved.processed \in Nat /\ kPublished \in Nat /\ kPublished <= MaxEvents
      BY <1>1, LogNumbers
    <3>2. QED
      BY <3>1, <1>3, LearnConstants
  <2>3. \A n \in Learn!Skills : kSaved.streak[n] \in 0 .. MaxEvents
    <3> SUFFICES ASSUME NEW n \in Learn!Skills PROVE kSaved.streak[n] \in 0 .. MaxEvents
      OBVIOUS
    <3>1. kSaved.streak[n] \in Nat /\ kSaved.streak[n] <= kSaved.processed
      BY <2>1 DEF Statistics
    <3>2. kSaved.processed \in Nat /\ kSaved.processed <= MaxEvents /\ MaxEvents \in Nat
      BY <2>2, LearnConstants
    <3>3. QED
      BY ONLY <3>1, <3>2
  <2>4. kSaved.streak \in [Learn!Skills -> 0 .. MaxEvents]
    BY <2>1, <2>3 DEF Statistics
  <2>5. QED
    BY <2>1, <2>2, <2>4 DEF Statistics, Learn!Counts
<1>6. /\ \A k \in DOMAIN kBus : kBus[k] \in Learn!Event
      /\ \A k \in DOMAIN kLog : kLog[k] \in 1 .. MaxEvents \union {Learn!Torn, Learn!Junk}
  BY <1>1 DEF LogInv, LogTyped
<1>7. /\ Len(kBus) <= Capacity /\ kPrune.on \in BOOLEAN /\ Len(kPrune.kept) <= MaxLog
      /\ kCrashes \in 0 .. MaxCrashes
  BY DEF LogInv, LogTyped
<1>8. /\ kPublished \in 0 .. MaxEvents /\ kFile \in [Learn!Skills -> Learn!Manifest]
      /\ kSkill \in [Learn!Skills -> [state : Learn!States, conf : 0 .. Top, text : BOOLEAN,
           base : 0 .. Top]]
  BY <1>1 DEF LearnTyped, Entries
<1>9. QED
  BY <1>2, <1>4, <1>5, <1>6, <1>7, <1>8 DEF Learn!TypeOK

\* The invariant of the skills, over every step, kill and restart.
THEOREM SkillsInvariant ==
  ASSUME Learn!LearningAssumption
  PROVE  Learn!Spec => []LearnInv
<1>1. Learn!Init => LearnInv
  BY LearnInvInit
<1>2. LearnInv /\ [Learn!Next]_(Learn!vars) => LearnInv'
  BY LearnInvStep
<1>3. QED
  BY <1>1, <1>2, PTL DEF Learn!Spec

\* The log's invariant in every reachable state.
THEOREM LogInvariant == ASSUME Learn!LearningAssumption PROVE Learn!Spec => []LogInv
<1>1. LearnInv => LearnTyped
  BY DEF LearnInv
<1>2. Learn!Init => LogInv
  BY LogInvInit
<1>3. LearnInv /\ LogInv /\ [Learn!Next]_(Learn!vars) => LogInv'
  BY <1>1, LogInvStep
<1>4. QED
  BY <1>2, <1>3, SkillsInvariant, PTL DEF Learn!Spec

\* The log tells every event once, in the order they happened, though a kill
\* tears its last line and it is pruned while events are appended (LogInOrder).
THEOREM LogTellsInOrder ==
  ASSUME Learn!LearningAssumption PROVE Learn!Spec => []Learn!LogInOrder
BY LogInvariant, LogInOrderFollows, PTL

\* The types of the consumer, the statistics, the registry, its files and the log.
THEOREM LearningStates == ASSUME Learn!LearningAssumption PROVE Learn!Spec => []Learn!TypeOK
BY SkillsInvariant, LogInvariant, LearningTypedFollows, PTL

\* No step takes a deprecation back on disk.
LEMMA DeprecationStays ==
  ASSUME Learn!LearningAssumption, LearnInv, [Learn!Next]_(Learn!vars)
  PROVE  \A n \in Learn!Skills : kFile[n].state = "deprecated" => kFile[n].state' = "deprecated"
<1>1. CASE Learn!Act
  BY <1>1, ActMoves DEF SkillsMove
<1>2. CASE ~Learn!Act
  <2>1. kFile' = kFile
    BY <1>2 DEF Learn!Next, Learn!Consumer, Learn!vars, Learn!Publish, Learn!Receive,
       Learn!AppendEvent, Learn!Handle, Learn!Count, Learn!SaveStats, Learn!Stop,
       Learn!PruneRead, Learn!PruneRename, Learn!Shutdown, Learn!Crash, Learn!Restart
  <2>2. QED
    BY <2>1
<1>3. QED
  BY <1>1, <1>2

\* A deprecated skill is deprecated on disk too, and stays so over changes of
\* its confidence, kills and restarts.
THEOREM SkillsDeprecatedForGood ==
  ASSUME Learn!LearningAssumption
  PROVE  Learn!Spec => Learn!DeprecatedForGood
<1>1. LearnInv => (Learn!Up => \A n \in Learn!Skills :
                     kSkill[n].state = "deprecated" <=> kFile[n].state = "deprecated")
  BY DEF LearnInv, FilesAgree
<1>2. LearnInv /\ [Learn!Next]_(Learn!vars) =>
        [\A n \in Learn!Skills : kFile[n].state = "deprecated"
           => kFile[n].state' = "deprecated"]_(Learn!vars)
  BY DeprecationStays
<1>3. QED
  BY <1>1, <1>2, SkillsInvariant, PTL DEF Learn!Spec, Learn!DeprecatedForGood

\* Between two events the files hold what the registry says of every skill
\* that is on offer.
THEOREM SkillFilesFollow ==
  ASSUME Learn!LearningAssumption
  PROVE  Learn!Spec => []Learn!FilesFollow
<1>1. LearnInv => Learn!FilesFollow
  BY DEF LearnInv, FilesAgree, Learn!FilesFollow, Learn!Up
<1>2. QED
  BY <1>1, SkillsInvariant, PTL

\* A skill with a long streak of failures is not offered again, whatever the
\* statistics that a restart read.
THEOREM StreaksAreJudged ==
  ASSUME Learn!LearningAssumption
  PROVE  Learn!Spec => []Learn!StreakIsJudged
<1>1. LearnInv => Learn!StreakIsJudged
  BY DEF LearnInv, Judged, Learn!StreakIsJudged, Learn!Up
<1>2. QED
  BY <1>1, SkillsInvariant, PTL

\* The saved statistics lag by SaveEvery events at most, and by none after a
\* shutdown.
THEOREM StatisticsLagLittle ==
  ASSUME Learn!LearningAssumption
  PROVE  Learn!Spec => []Learn!StatsBehind
<1>1. ASSUME LearnInv
      PROVE  Learn!StatsBehind
  <2>1. LearnTyped /\ Behind
    BY <1>1 DEF LearnInv
  <2>2. /\ kStats.processed \in Nat /\ kSaved.processed \in Nat /\ SaveEvery \in Nat
        /\ kStats.processed <= kSaved.processed + Lacking
    BY <2>1, LearnConstants DEF LearnTyped, Statistics, Behind
  <2>3. Lacking \in Int /\ Lacking <= SaveEvery
    BY <2>1, ConsumerParts, LearnConstants DEF Lacking
  <2>4. kStats.processed - kSaved.processed <= SaveEvery
    BY <2>2, <2>3
  <2>5. QED
    BY <2>1, <2>4 DEF Behind, Learn!StatsBehind
<1>2. QED
  BY <1>1, SkillsInvariant, PTL

-----------------------------------------------------------------------------
(* SkillFiles: what a load finds while files change, and whom a cascade drops *)


\* Nothing has changed since the load began that a watcher or the next look at
\* the directory would not tell.
UndisturbedLoad ==
  \/ fWatcher.on /\ fWatcher.events = {}
  \/ ~fWatcher.on /\ fLoad.quiet

\* The files of those read so far that hold a skill of this name.
ReadOf(n) ==
  {f \in Files \ fLoad.rest : Loader!Holds(f) /\ fDisk[f] # Broken /\ fDisk[f].name = n}

\* A load has read the files in their order, and found the last one of each name.
FoundLast ==
  fLoad.pc = "read" /\ UndisturbedLoad =>
    /\ \A f \in Files \ fLoad.rest, g \in fLoad.rest : Loader!Holds(f) => f < g
    /\ \A n \in Names :
         \/ ReadOf(n) = {} /\ fLoad.found[n] = Loader!None
         \/ \E f \in ReadOf(n) :
              fLoad.found[n] = Loader!Entry(f, fDisk[f]) /\ \A g \in ReadOf(n) : g <= f

\* The index of who depends on whom is that of the skills there are.
IndexFollows == fDependents = Loader!Index(fByName)

\* A load begins with nothing found.
ListBegins == fLoad.pc = "list" => fLoad.found = Loader!NoSkills

FilesInv == Loader!TypeOK /\ ListBegins /\ FoundLast /\ IndexFollows

\* Skills that files hold, and entries made of them.
LEMMA ContentsTyped ==
  ASSUME Loader!FilesAssumption
  PROVE  /\ \A f \in Files : f \in Nat
         /\ \A c \in SkillTexts : c.name \in Names /\ c.needs \in SUBSET Names
         /\ Loader!None \in Loader!Entries /\ MaxChanges \in Nat
         /\ \A f \in Files, c \in SkillTexts : Loader!Entry(f, c) \in Loader!Entries
         /\ Loader!NoSkills \in [Names -> Loader!Entries]
BY DEF Loader!FilesAssumption, Loader!Entries, Loader!Entry, Loader!NoSkills

\* An index is of the names that there are.
LEMMA IndexTyped ==
  ASSUME NEW skills PROVE Loader!Index(skills) \in [Names -> SUBSET Names]
BY DEF Loader!Index

\* No file is there at first, and nothing is indexed.
LEMMA FilesInvInit == ASSUME Loader!FilesAssumption, Loader!Init PROVE FilesInv
<1>1. Loader!TypeOK
  BY ContentsTyped DEF Loader!Init, Loader!TypeOK, Loader!Held, Loader!Idle
<1>2. FoundLast /\ ListBegins
  BY DEF Loader!Init, Loader!Idle, FoundLast, ListBegins
<1>3. IndexFollows
  BY DEF Loader!Init, Loader!NoSkills, Loader!Index, IndexFollows
<1>4. QED
  BY <1>1, <1>2, <1>3 DEF FilesInv

\* A change while a load reads is in the watcher's buffer, or the load is not quiet.
LEMMA DirectoryStirs ==
  ASSUME Loader!FilesAssumption, FilesInv,
         \/ \E f \in Files, c \in Loader!Held : Loader!Write(f, c)
         \/ \E state \in {"there", "unreadable", "missing"} : Loader!Root(state)
  PROVE  FilesInv'
<1>1. Loader!TypeOK /\ ListBegins /\ FoundLast /\ IndexFollows
  BY DEF FilesInv
<1>2. PICK fs \in SUBSET Files :
        /\ fChanges < MaxChanges /\ fChanges' = fChanges + 1
        /\ fWatcher' = [fWatcher EXCEPT !.events = IF fWatcher.on THEN @ \union fs ELSE @]
        /\ fLoad' = [fLoad EXCEPT !.quiet = fLoad.pc = "idle"]
        /\ UNCHANGED <<fCache, fByName, fDependents>>
        /\ fDisk' \in [Files -> Loader!Held] /\ fRoot' \in {"there", "unreadable", "missing"}
        /\ fDisk' = fDisk \/ ~fWatcher.on \/ fs # {}
  <2>1. CASE \E f \in Files, c \in Loader!Held : Loader!Write(f, c)
    <3>1. PICK f \in Files, c \in Loader!Held : Loader!Write(f, c)
      BY <2>1
    <3>2. fDisk' \in [Files -> Loader!Held]
      BY <1>1, <3>1 DEF Loader!Write, Loader!TypeOK
    <3>3. {f} \in SUBSET Files /\ {f} # {}
      OBVIOUS
    <3>4. QED
      BY <1>1, <3>1, <3>2, <3>3 DEF Loader!Write, Loader!Stirs, Loader!TypeOK
  <2>2. CASE \E state \in {"there", "unreadable", "missing"} : Loader!Root(state)
    <3>1. PICK state \in {"there", "unreadable", "missing"} : Loader!Root(state)
      BY <2>2
    <3>2. fDisk' \in [Files -> Loader!Held] /\ (fDisk' = fDisk \/ ~fWatcher.on)
      BY <1>1, <3>1 DEF Loader!Root, Loader!TypeOK, Loader!Held
    <3>3. {} \in SUBSET Files
      OBVIOUS
    <3>4. QED
      BY <3>1, <3>2, <3>3 DEF Loader!Root, Loader!Stirs
  <2>3. QED
    BY <2>1, <2>2
<1>3. /\ fWatcher'.on = fWatcher.on /\ fWatcher'.events \in SUBSET Files
      /\ fWatcher.on => fWatcher'.events = fWatcher.events \union fs
      /\ fLoad'.pc = fLoad.pc /\ fLoad'.rest = fLoad.rest /\ fLoad'.found = fLoad.found
      /\ fLoad'.quiet = (fLoad.pc = "idle")
      /\ fWatcher' \in [on : BOOLEAN, events : SUBSET Files]
  BY <1>1, <1>2 DEF Loader!TypeOK
<1>4. Loader!TypeOK'
  <2>1. fLoad' \in [pc : {"idle", "list", "read"}, rest : SUBSET Files,
                    found : [Names -> Loader!Entries], quiet : BOOLEAN]
    BY <1>1, <1>2 DEF Loader!TypeOK
  <2>2. fChanges' \in 0 .. MaxChanges
    BY <1>1, <1>2, ContentsTyped DEF Loader!TypeOK
  <2>3. QED
    BY <1>1, <1>2, <1>3, <2>1, <2>2 DEF Loader!TypeOK
<1>5. FoundLast'
  <2> SUFFICES ASSUME fLoad'.pc = "read", UndisturbedLoad'
               PROVE  FoundLast'
    BY DEF FoundLast
  <2>1. fWatcher.on /\ fWatcher'.events = {} /\ UndisturbedLoad
    BY <1>3 DEF UndisturbedLoad
  <2>2. fDisk' = fDisk
    BY <1>2, <1>3, <2>1
  <2>3. \A n : ReadOf(n)' = ReadOf(n)
    BY <1>3, <2>2 DEF ReadOf, Loader!Holds
  <2>4. QED
    BY <1>1, <1>3, <2>1, <2>2, <2>3 DEF FoundLast, Loader!Holds, Loader!Entry
<1>6. IndexFollows' /\ ListBegins'
  BY <1>1, <1>2, <1>3 DEF IndexFollows, Loader!Index, ListBegins, Loader!NoSkills
<1>7. QED
  BY <1>4, <1>5, <1>6 DEF FilesInv

\* A load begins with no file read, or the directory is gone and so are its skills.
LEMMA LoadListed ==
  ASSUME Loader!FilesAssumption, FilesInv, Loader!List
  PROVE  FilesInv'
<1>1. Loader!TypeOK /\ ListBegins /\ FoundLast /\ IndexFollows
  BY DEF FilesInv
<1>2. fLoad.pc = "list" /\ UNCHANGED <<fRoot, fDisk, fWatcher, fChanges>>
  BY DEF Loader!List
<1>3. CASE fRoot = "missing"
  <2>1. /\ fCache' = [f \in Files |-> Loader!Absent] /\ fByName' = Loader!NoSkills
        /\ fDependents' = Loader!Index(Loader!NoSkills) /\ fLoad' = Loader!Idle
    BY <1>3 DEF Loader!List
  <2>2. IndexFollows'
    BY <2>1 DEF IndexFollows, Loader!Index
  <2>3. FoundLast' /\ ListBegins'
    BY <2>1 DEF FoundLast, ListBegins, Loader!Idle
  <2>4. Loader!TypeOK'
    BY <1>1, <1>2, <2>1, ContentsTyped, IndexTyped DEF Loader!TypeOK, Loader!Idle
  <2>5. QED
    BY <2>2, <2>3, <2>4 DEF FilesInv
<1>4. CASE fRoot = "unreadable"
  <2>1. fLoad' = Loader!Idle /\ UNCHANGED <<fCache, fByName, fDependents>>
    BY <1>4 DEF Loader!List
  <2>2. IndexFollows' /\ FoundLast' /\ ListBegins'
    BY <1>1, <2>1 DEF IndexFollows, FoundLast, ListBegins, Loader!Idle, Loader!Index
  <2>3. Loader!TypeOK'
    BY <1>1, <1>2, <2>1, ContentsTyped DEF Loader!TypeOK, Loader!Idle
  <2>4. QED
    BY <2>2, <2>3 DEF FilesInv
<1>5. CASE fRoot = "there"
  <2>1. /\ fCache' = [f \in Files |-> IF Loader!Holds(f) THEN fCache[f] ELSE Loader!Absent]
        /\ fLoad' = [fLoad EXCEPT !.pc = "read", !.rest = {f \in Files : Loader!Holds(f)}]
        /\ UNCHANGED <<fByName, fDependents>>
    BY <1>5 DEF Loader!List
  <2>2. /\ fLoad'.pc = "read" /\ fLoad'.rest = {f \in Files : Loader!Holds(f)}
        /\ fLoad'.found = Loader!NoSkills
        /\ fLoad' \in [pc : {"idle", "list", "read"}, rest : SUBSET Files,
                       found : [Names -> Loader!Entries], quiet : BOOLEAN]
    BY <1>1, <1>2, <2>1 DEF Loader!TypeOK, ListBegins
  <2>3. Loader!TypeOK'
    BY <1>1, <1>2, <2>1, <2>2 DEF Loader!TypeOK
  <2>4. FoundLast'
    <3>1. \A f \in Files : f \notin fLoad'.rest => ~Loader!Holds(f)'
      BY <1>2, <2>2 DEF Loader!Holds
    <3>2. \A n \in Names : ReadOf(n)' = {}
      BY <3>1 DEF ReadOf
    <3>3. \A n \in Names : fLoad'.found[n] = Loader!None
      BY <2>2 DEF Loader!NoSkills
    <3>4. QED
      BY <3>1, <3>2, <3>3 DEF FoundLast
  <2>5. IndexFollows' /\ ListBegins'
    BY <1>1, <2>1, <2>2 DEF IndexFollows, ListBegins, Loader!Index
  <2>6. QED
    BY <2>3, <2>4, <2>5 DEF FilesInv
<1>6. QED
  BY <1>1, <1>3, <1>4, <1>5 DEF Loader!TypeOK

\* The next file is behind all that were read: what it holds shadows what they do.
LEMMA LoadReads ==
  ASSUME Loader!FilesAssumption, FilesInv, NEW f \in Files, Loader!Read(f)
  PROVE  FilesInv'
<1>1. Loader!TypeOK /\ ListBegins /\ FoundLast /\ IndexFollows
  BY DEF FilesInv
<1>2. /\ fLoad.pc = "read" /\ f \in fLoad.rest /\ \A g \in fLoad.rest : f <= g
      /\ UNCHANGED <<fRoot, fDisk, fByName, fDependents, fWatcher, fChanges>>
  BY DEF Loader!Read
<1>3. Loader!Skill(f) = fDisk[f]
  BY DEF Loader!Skill
<1>4. IndexFollows' /\ Loader!Holds(f)' = Loader!Holds(f)
  BY <1>1, <1>2 DEF IndexFollows, Loader!Index, Loader!Holds
<1> DEFINE valid == Loader!Holds(f) /\ fDisk[f] # Broken
<1>5. valid => fDisk[f] \in SkillTexts /\ fDisk[f].name \in Names
  BY <1>1, ContentsTyped DEF Loader!TypeOK, Loader!Held, Loader!Holds
<1>6. /\ valid => /\ fCache' = [fCache EXCEPT ![f] = fDisk[f]]
                  /\ fLoad' = [fLoad EXCEPT !.rest = @ \ {f},
                                            !.found[fDisk[f].name] = Loader!Entry(f, fDisk[f])]
      /\ ~valid => fCache' = fCache /\ fLoad' = [fLoad EXCEPT !.rest = @ \ {f}]
  BY <1>3 DEF Loader!Read
<1>7. /\ fLoad'.pc = "read" /\ fLoad'.rest = fLoad.rest \ {f} /\ fLoad'.quiet = fLoad.quiet
      /\ fLoad'.found \in [Names -> Loader!Entries]
      /\ valid => /\ fLoad'.found[fDisk[f].name] = Loader!Entry(f, fDisk[f])
                  /\ \A n \in Names : n # fDisk[f].name => fLoad'.found[n] = fLoad.found[n]
      /\ ~valid => fLoad'.found = fLoad.found
      /\ fLoad' \in [pc : {"idle", "list", "read"}, rest : SUBSET Files,
                     found : [Names -> Loader!Entries], quiet : BOOLEAN]
  <2>1. CASE valid
    <3>1. Loader!Entry(f, fDisk[f]) \in Loader!Entries /\ fLoad.found \in [Names -> Loader!Entries]
      BY <1>1, <1>5, <2>1, ContentsTyped DEF Loader!TypeOK
    <3>2. fLoad'.found = [fLoad.found EXCEPT ![fDisk[f].name] = Loader!Entry(f, fDisk[f])]
      BY <1>1, <1>6, <2>1 DEF Loader!TypeOK
    <3>3. /\ fLoad'.pc = "read" /\ fLoad'.rest = fLoad.rest \ {f} /\ fLoad'.quiet = fLoad.quiet
          /\ fLoad' = [pc |-> "read", rest |-> fLoad.rest \ {f}, found |-> fLoad'.found,
               quiet |-> fLoad.quiet]
      BY <1>1, <1>2, <1>6, <2>1, <3>2 DEF Loader!TypeOK
    <3>4. fLoad'.found \in [Names -> Loader!Entries]
      BY <3>1, <3>2, <1>5, <2>1
    <3>5. fLoad.rest \ {f} \in SUBSET Files /\ fLoad.quiet \in BOOLEAN
      BY <1>1 DEF Loader!TypeOK
    <3>6. QED
      BY <1>5, <2>1, <3>1, <3>2, <3>3, <3>4, <3>5
  <2>2. CASE ~valid
    BY <1>1, <1>2, <1>6, <2>2 DEF Loader!TypeOK
  <2>3. QED
    BY <2>1, <2>2
<1>8. fCache' \in [Files -> SkillTexts \union {Loader!Absent}]
  BY <1>1, <1>5, <1>6 DEF Loader!TypeOK
<1>9. Loader!TypeOK'
  BY <1>1, <1>2, <1>4, <1>7, <1>8 DEF Loader!TypeOK
<1>10. ListBegins'
  BY <1>7 DEF ListBegins
<1>11. FoundLast'
  <2> SUFFICES ASSUME UndisturbedLoad
               PROVE  /\ \A g \in Files \ fLoad'.rest, h \in fLoad'.rest : Loader!Holds(g)' => g < h
                      /\ \A n \in Names :
                           \/ ReadOf(n)' = {} /\ fLoad'.found[n] = Loader!None
                           \/ \E g \in ReadOf(n)' :
                                /\ fLoad'.found[n] = Loader!Entry(g, fDisk'[g])
                                /\ \A h \in ReadOf(n)' : h <= g
    BY <1>2, <1>7 DEF FoundLast, UndisturbedLoad
  <2>1. \A g \in Files \ fLoad.rest, h \in fLoad.rest : Loader!Holds(g) => g < h
    BY <1>1, <1>2 DEF FoundLast
  <2>2. \A g \in Files : Loader!Holds(g)' = Loader!Holds(g)
    BY <1>2 DEF Loader!Holds
  <2>3. \A g \in Files \ fLoad'.rest, h \in fLoad'.rest : Loader!Holds(g)' => g < h
    <3> SUFFICES ASSUME NEW g \in Files \ fLoad'.rest, NEW h \in fLoad'.rest, Loader!Holds(g)
                 PROVE  g < h
      BY <2>2
    <3>1. h \in fLoad.rest /\ h # f /\ h \in Nat /\ f \in Nat /\ g \in Nat
      BY <1>1, <1>7, ContentsTyped DEF Loader!TypeOK
    <3>2. CASE g = f
      BY <3>1, <3>2, <1>2
    <3>3. CASE g # f
      BY <3>1, <3>3, <1>7, <2>1
    <3>4. QED
      BY <3>2, <3>3
  <2>4. ASSUME NEW n \in Names
        PROVE  \/ ReadOf(n)' = {} /\ fLoad'.found[n] = Loader!None
               \/ \E g \in ReadOf(n)' :
                    /\ fLoad'.found[n] = Loader!Entry(g, fDisk'[g])
                    /\ \A h \in ReadOf(n)' : h <= g
    <3>1. \/ ReadOf(n) = {} /\ fLoad.found[n] = Loader!None
          \/ \E g \in ReadOf(n) :
               fLoad.found[n] = Loader!Entry(g, fDisk[g]) /\ \A h \in ReadOf(n) : h <= g
      BY <1>1, <1>2 DEF FoundLast
    <3>2. Files \ fLoad'.rest = (Files \ fLoad.rest) \union {f}
      BY <1>2, <1>7
    <3>3. CASE valid /\ n = fDisk[f].name
      <4>1. f \in ReadOf(n)'
        BY <3>2, <3>3, <1>2, <2>2 DEF ReadOf
      <4>2. \A h \in ReadOf(n)' : h <= f
        <5> SUFFICES ASSUME NEW h \in ReadOf(n)' PROVE h <= f
          OBVIOUS
        <5>1. h \in Files /\ Loader!Holds(h) /\ (h = f \/ h \in Files \ fLoad.rest)
          BY <3>2, <2>2 DEF ReadOf
        <5>2. h \in Nat /\ f \in Nat
          BY <5>1, ContentsTyped
        <5>3. QED
          BY <5>1, <5>2, <1>2, <2>1
      <4>3. fLoad'.found[n] = Loader!Entry(f, fDisk'[f])
        BY <3>3, <1>2, <1>7
      <4>4. QED
        BY <4>1, <4>2, <4>3
    <3>4. CASE ~(valid /\ n = fDisk[f].name)
      <4>1. ReadOf(n)' = ReadOf(n)
        BY <3>2, <3>4, <1>2, <2>2 DEF ReadOf
      <4>2. fLoad'.found[n] = fLoad.found[n]
        BY <3>4, <1>7
      <4>3. \A g : Loader!Entry(g, fDisk'[g]) = Loader!Entry(g, fDisk[g])
        BY <1>2 DEF Loader!Entry
      <4>4. QED
        BY <3>1, <4>1, <4>2, <4>3
    <3>5. QED
      BY <3>3, <3>4
  <2>5. QED
    BY <2>3, <2>4
<1>12. QED
  BY <1>4, <1>9, <1>10, <1>11 DEF FilesInv

\* Dropping skills leaves the rest and the index of them.
LEMMA Forgetting ==
  ASSUME Loader!FilesAssumption, Loader!TypeOK, NEW names, NEW fs, Loader!Forget(names, fs)
  PROVE  /\ fByName' \in [Names -> Loader!Entries]
         /\ fDependents' \in [Names -> SUBSET Names]
         /\ fCache' \in [Files -> SkillTexts \union {Loader!Absent}]
         /\ IndexFollows'
<1>1. /\ fByName' = Loader!Without(names) /\ fDependents' = Loader!Index(fByName')
      /\ fCache' = [f \in Files |-> IF f \in fs THEN Loader!Absent ELSE fCache[f]]
  BY DEF Loader!Forget
<1>2. fByName' \in [Names -> Loader!Entries]
  BY <1>1, ContentsTyped DEF Loader!Without, Loader!TypeOK
<1>3. fCache' \in [Files -> SkillTexts \union {Loader!Absent}]
  BY <1>1 DEF Loader!TypeOK
<1>4. IndexFollows'
  BY <1>1 DEF IndexFollows, Loader!Index
<1>5. QED
  BY <1>1, <1>2, <1>3, <1>4, IndexTyped

\* What invalidates skills happens between two loads.
LEMMA SkillsDropped ==
  ASSUME Loader!FilesAssumption, FilesInv,
         \/ \E f \in Files : Loader!InvalidatePath(f)
         \/ \E names \in SUBSET Names : Loader!InvalidateNames(names)
         \/ \E n \in Names : Loader!InvalidateCascade(n)
         \/ \E moved \in SUBSET Files : Loader!Scan(moved)
         \/ Loader!Poll \/ Loader!InvalidateAll
  PROVE  FilesInv'
<1>1. Loader!TypeOK /\ ListBegins /\ FoundLast /\ IndexFollows
  BY DEF FilesInv
<1>2. /\ UNCHANGED <<fRoot, fDisk, fChanges>> /\ fLoad.pc = "idle"
      /\ fLoad' = fLoad \/ fLoad' = [Loader!Idle EXCEPT !.pc = "list"]
      /\ fWatcher' = fWatcher \/ fWatcher' = [fWatcher EXCEPT !.events = {}]
  BY DEF Loader!InvalidatePath, Loader!InvalidateNames, Loader!InvalidateCascade, Loader!Scan,
     Loader!Poll, Loader!InvalidateAll
<1>3. /\ fByName' \in [Names -> Loader!Entries]
      /\ fDependents' \in [Names -> SUBSET Names]
      /\ fCache' \in [Files -> SkillTexts \union {Loader!Absent}]
      /\ IndexFollows'
  <2>1. CASE Loader!InvalidateAll
    <3>1. UNCHANGED <<fByName, fDependents>> /\ fCache' = [f \in Files |-> Loader!Absent]
      BY <2>1 DEF Loader!InvalidateAll
    <3>2. QED
      BY <1>1, <3>1 DEF Loader!TypeOK, IndexFollows, Loader!Index
  <2>2. CASE ~Loader!InvalidateAll
    <3>1. \E names, fs : Loader!Forget(names, fs)
      BY <2>2 DEF Loader!InvalidatePath, Loader!InvalidateNames, Loader!InvalidateCascade,
         Loader!Scan, Loader!Poll, Loader!ForgetPaths, Loader!ForgetNames
    <3>2. QED
      BY <1>1, <3>1, Forgetting
  <2>3. QED
    BY <2>1, <2>2
<1>4. Loader!TypeOK'
  <2>1. fLoad' \in [pc : {"idle", "list", "read"}, rest : SUBSET Files,
                    found : [Names -> Loader!Entries], quiet : BOOLEAN]
    BY <1>1, <1>2, ContentsTyped DEF Loader!TypeOK, Loader!Idle
  <2>2. fWatcher' \in [on : BOOLEAN, events : SUBSET Files]
    BY <1>1, <1>2 DEF Loader!TypeOK
  <2>3. QED
    BY <1>1, <1>2, <1>3, <2>1, <2>2 DEF Loader!TypeOK
<1>5. ListBegins' /\ FoundLast'
  BY <1>1, <1>2 DEF ListBegins, FoundLast, Loader!Idle, Loader!NoSkills
<1>6. QED
  BY <1>3, <1>4, <1>5 DEF FilesInv

\* The start and the end of a load and of the watcher.
LEMMA LoadTurns ==
  ASSUME Loader!FilesAssumption, FilesInv,
         \/ Loader!Load \/ Loader!Finish \/ Loader!StartWatcher \/ Loader!StopWatcher
         \/ UNCHANGED Loader!vars
  PROVE  FilesInv'
<1>1. Loader!TypeOK /\ ListBegins /\ FoundLast /\ IndexFollows
  BY DEF FilesInv
<1>2. CASE Loader!Load
  <2>1. /\ fLoad' = [Loader!Idle EXCEPT !.pc = "list"]
        /\ UNCHANGED <<fRoot, fDisk, fCache, fByName, fDependents, fWatcher, fChanges>>
    BY <1>2 DEF Loader!Load
  <2>2. fLoad'.pc = "list" /\ fLoad'.found = Loader!NoSkills
    BY <2>1 DEF Loader!Idle
  <2>3. Loader!TypeOK'
    BY <1>1, <2>1, ContentsTyped DEF Loader!TypeOK, Loader!Idle
  <2>4. QED
    BY <1>1, <2>1, <2>2, <2>3 DEF FilesInv, ListBegins, FoundLast, IndexFollows, Loader!Index,
       Loader!NoSkills
<1>3. CASE Loader!Finish
  <2>1. /\ fLoad' = Loader!Idle /\ fByName' = fLoad.found /\
             fDependents' = Loader!Index(fLoad.found)
        /\ UNCHANGED <<fRoot, fDisk, fCache, fWatcher, fChanges>>
    BY <1>3 DEF Loader!Finish
  <2>2. fLoad'.pc = "idle"
    BY <2>1 DEF Loader!Idle
  <2>3. Loader!TypeOK'
    BY <1>1, <2>1, ContentsTyped, IndexTyped DEF Loader!TypeOK, Loader!Idle
  <2>4. IndexFollows'
    BY <2>1 DEF IndexFollows, Loader!Index
  <2>5. QED
    BY <2>2, <2>3, <2>4 DEF FilesInv, ListBegins, FoundLast
<1>4. CASE Loader!StartWatcher \/ Loader!StopWatcher
  <2>1. /\ fLoad.pc = "idle"
        /\ UNCHANGED <<fRoot, fDisk, fCache, fByName, fDependents, fLoad, fChanges>>
    BY <1>4 DEF Loader!StartWatcher, Loader!StopWatcher
  <2>2. fWatcher' \in [on : BOOLEAN, events : SUBSET Files]
    <3>1. ASSUME NEW on \in BOOLEAN
          PROVE  [on |-> on, events |-> {}] \in [on : BOOLEAN, events : SUBSET Files]
      OBVIOUS
    <3>2. CASE Loader!StartWatcher
      BY <3>1, <3>2 DEF Loader!StartWatcher
    <3>3. CASE Loader!StopWatcher
      BY <3>1, <3>3 DEF Loader!StopWatcher
    <3>4. QED
      BY <1>4, <3>2, <3>3
  <2>3. Loader!TypeOK'
    BY <1>1, <2>1, <2>2 DEF Loader!TypeOK
  <2>4. QED
    BY <1>1, <2>1, <2>3 DEF FilesInv, ListBegins, FoundLast, IndexFollows, Loader!Index
<1>5. CASE UNCHANGED Loader!vars
  <2>1. UNCHANGED <<fRoot, fDisk, fCache, fByName, fDependents, fWatcher, fLoad, fChanges>>
    BY <1>5 DEF Loader!vars
  <2>2. Loader!TypeOK' /\ ListBegins' /\ IndexFollows'
    BY <1>1, <2>1 DEF Loader!TypeOK, ListBegins, IndexFollows, Loader!Index, Loader!NoSkills
  <2>3. FoundLast'
    <3>1. \A n : ReadOf(n)' = ReadOf(n)
      BY <2>1 DEF ReadOf, Loader!Holds
    <3>2. QED
      BY <1>1, <2>1, <3>1 DEF FoundLast, UndisturbedLoad, Loader!Holds, Loader!Entry
  <2>4. QED
    BY <2>2, <2>3 DEF FilesInv
<1>6. QED
  BY <1>2, <1>3, <1>4, <1>5

\* Every step keeps the skills and the load.
LEMMA FilesInvStep ==
  ASSUME Loader!FilesAssumption, FilesInv, [Loader!Next]_(Loader!vars)
  PROVE  FilesInv'
<1>1. CASE \/ \E f \in Files, c \in Loader!Held : Loader!Write(f, c)
           \/ \E state \in {"there", "unreadable", "missing"} : Loader!Root(state)
  BY <1>1, DirectoryStirs
<1>2. CASE \E f \in Files : Loader!Read(f)
  BY <1>2, LoadReads
<1>3. CASE \/ \E f \in Files : Loader!InvalidatePath(f)
           \/ \E names \in SUBSET Names : Loader!InvalidateNames(names)
           \/ \E n \in Names : Loader!InvalidateCascade(n)
           \/ \E moved \in SUBSET Files : Loader!Scan(moved)
           \/ Loader!Poll \/ Loader!InvalidateAll
  BY <1>3, SkillsDropped
<1>4. CASE Loader!List
  BY <1>4, LoadListed
<1>5. CASE \/ Loader!Load \/ Loader!Finish \/ Loader!StartWatcher \/ Loader!StopWatcher
           \/ UNCHANGED Loader!vars
  BY <1>5, LoadTurns
<1>6. QED
  BY <1>1, <1>2, <1>3, <1>4, <1>5 DEF Loader!Next

\* A load that nothing disturbed found what the files hold.
LEMMA LoadFindsFiles ==
  ASSUME Loader!FilesAssumption, FilesInv, Loader!Finish
  PROVE  \/ fByName' = Loader!Expected \/ fWatcher.events # {}
         \/ ~fWatcher.on /\ ~fLoad.quiet
<1> SUFFICES ASSUME UndisturbedLoad PROVE fByName' = Loader!Expected
  BY DEF UndisturbedLoad, FilesInv, Loader!TypeOK
<1>1. Loader!TypeOK /\ FoundLast
  BY DEF FilesInv
<1>2. fLoad.pc = "read" /\ fLoad.rest = {} /\ fByName' = fLoad.found
  BY DEF Loader!Finish
<1>3. ASSUME NEW n \in Names
      PROVE  fLoad.found[n] = Loader!Expected[n]
  <2> DEFINE of == {f \in Files : Loader!Holds(f) /\ fDisk[f] # Broken /\ fDisk[f].name = n}
  <2>1. ReadOf(n) = of
    BY <1>2 DEF ReadOf
  <2>2. Loader!Expected[n] =
          IF of = {} THEN Loader!None
          ELSE LET f == CHOOSE f \in of : \A g \in of : g <= f IN Loader!Entry(f, fDisk[f])
    BY DEF Loader!Expected
  <2> HIDE DEF of
  <2>3. \/ of = {} /\ fLoad.found[n] = Loader!None
        \/ \E f \in of : fLoad.found[n] = Loader!Entry(f, fDisk[f]) /\ \A g \in of : g <= f
    BY <1>1, <1>2, <2>1 DEF FoundLast
  <2>4. CASE of = {}
    BY <2>2, <2>3, <2>4
  <2>5. CASE of # {}
    <3>1. PICK f \in of : fLoad.found[n] = Loader!Entry(f, fDisk[f]) /\ \A g \in of : g <= f
      BY <2>3, <2>5
    <3> DEFINE last == CHOOSE h \in of : \A g \in of : g <= h
    <3>2. last \in of /\ \A g \in of : g <= last
      BY <3>1
    <3>3. of \subseteq Nat
      BY <2>1, ContentsTyped DEF ReadOf
    <3>4. last = f
      <4> HIDE DEF last
      <4>1. f \in Nat /\ last \in Nat /\ f <= last /\ last <= f
        BY <3>1, <3>2, <3>3
      <4>2. QED
        BY <4>1
    <3>5. Loader!Expected[n] = Loader!Entry(last, fDisk[last])
      BY <2>2, <2>5
    <3>6. QED
      BY <3>1, <3>4, <3>5
  <2>6. QED
    BY <2>4, <2>5
<1>4. fLoad.found \in [Names -> Loader!Entries]
  BY <1>1 DEF Loader!TypeOK
<1>5. Loader!Expected = [n \in Names |-> Loader!Expected[n]]
  BY DEF Loader!Expected
<1>6. QED
  BY <1>2, <1>3, <1>4, <1>5

\* A cascade drops the skill it is for and, with each that it drops, those that
\* depend on it.
LEMMA CascadeDrops ==
  ASSUME Loader!FilesAssumption, FilesInv, NEW n \in Names, Loader!InvalidateCascade(n)
  PROVE  \A m \in Names : fByName'[m] # Loader!None =>
           m # n /\ \A k \in fByName[m].needs : fByName[k] # Loader!None =>
             fByName'[k] # Loader!None
<1> DEFINE known == {m \in Loader!Cascade(n) : fByName[m] # Loader!None}
<1>1. \A m \in Names : fByName'[m] = IF m \in known THEN Loader!None ELSE fByName[m]
  BY DEF Loader!InvalidateCascade, Loader!ForgetNames, Loader!Forget, Loader!Without
<1>2. Loader!TypeOK /\ fDependents = Loader!Index(fByName)
  BY DEF FilesInv, IndexFollows
<1>3. n \in Loader!Cascade(n) /\ Loader!Cascade(n) \subseteq Names
  BY DEF Loader!Cascade
<1>4. ASSUME NEW k \in Loader!Cascade(n), NEW m \in fDependents[k]
      PROVE  m \in Loader!Cascade(n)
  <2>1. m \in Names
    BY <1>2, <1>3 DEF Loader!TypeOK
  <2>2. ASSUME NEW S \in SUBSET Names, n \in S, \A j \in S : fDependents[j] \subseteq S
        PROVE  m \in S
    <3>1. k \in S
      BY <2>2 DEF Loader!Cascade
    <3>2. QED
      BY <2>2, <3>1
  <2>3. QED
    BY <2>1, <2>2 DEF Loader!Cascade
<1>5. ASSUME NEW m \in Names, fByName'[m] # Loader!None
      PROVE  m # n /\ \A k \in fByName[m].needs : fByName[k] # Loader!None =>
        fByName'[k] # Loader!None
  <2>1. fByName[m] # Loader!None /\ m \notin Loader!Cascade(n)
    BY <1>1, <1>5
  <2>2. ASSUME NEW k \in fByName[m].needs, fByName[k] # Loader!None
        PROVE  fByName'[k] # Loader!None
    <3>1. k \in Names
      BY <1>2 DEF Loader!TypeOK, Loader!Entries, Loader!None
    <3>2. m \in fDependents[k]
      BY <1>2, <2>1, <2>2, <3>1 DEF Loader!Index
    <3>3. k \notin Loader!Cascade(n)
      BY <2>1, <3>2, <1>4
    <3>4. QED
      BY <1>1, <2>2, <3>1, <3>3
  <2>3. QED
    BY <2>1, <2>2, <1>3
<1>6. QED
  BY <1>5

\* The invariant of the loader in every reachable state.
THEOREM FilesInvariant == ASSUME Loader!FilesAssumption PROVE Loader!Spec => []FilesInv
BY FilesInvInit, FilesInvStep, PTL DEF Loader!Spec

\* The types of the directory, the caches, the index and the load.
THEOREM LoaderStates == ASSUME Loader!FilesAssumption PROVE Loader!Spec => []Loader!TypeOK
<1>1. FilesInv => Loader!TypeOK
  BY DEF FilesInv
<1>2. QED
  BY <1>1, FilesInvariant, PTL

\* A load leaves the skills that the files hold when it ends, though they change
\* while it reads them, or the change is noted (CacheIsUnseen).
THEOREM LoadsSeeChanges ==
  ASSUME Loader!FilesAssumption PROVE Loader!Spec => Loader!CacheIsUnseen
<1>1. FilesInv => [Loader!Finish =>
                     \/ fByName' = Loader!Expected
                     \/ fWatcher.events # {}
                     \/ ~fWatcher.on /\ ~fLoad.quiet]_(Loader!vars)
  BY LoadFindsFiles
<1>2. QED
  BY <1>1, FilesInvariant, PTL DEF Loader!CacheIsUnseen

\* A cascade leaves no skill that needs one it dropped (CascadeIsComplete).
THEOREM CascadesAreComplete ==
  ASSUME Loader!FilesAssumption PROVE Loader!Spec => Loader!CascadeIsComplete
<1>1. FilesInv => [\A n, m \in Names : fByName'[m] # Loader!None /\ Loader!InvalidateCascade(n) =>
        m # n /\ \A k \in fByName[m].needs : fByName[k] # Loader!None =>
          fByName'[k] # Loader!None]_(Loader!vars)
  BY CascadeDrops
<1>2. QED
  BY <1>1, FilesInvariant, PTL DEF Loader!CascadeIsComplete

-----------------------------------------------------------------------------
(* Services: what holds of each service holds of them side by side          *)

\* The variables of CircuitBreaker in both orders.
LEMMA SoloStandsStill == ASSUME UNCHANGED pVars PROVE UNCHANGED Solo!vars
BY DEF pVars, Solo!vars, Solo!atomics, Solo!history

\* The variables of CircuitBreaker in both orders.
LEMMA CircuitStandsStill == ASSUME UNCHANGED bVars PROVE UNCHANGED Circuit!vars
BY DEF bVars, Circuit!vars, Circuit!atomics, Circuit!history

\* The variables of DaemonLock in both orders.
LEMMA LockStandsStill == ASSUME UNCHANGED lVars PROVE UNCHANGED Lock!vars
BY DEF lVars, Lock!vars, Lock!files, Lock!cli

\* The variables of CronService in both orders.
LEMMA CronStandsStill == ASSUME UNCHANGED sVars PROVE UNCHANGED Cron!vars
BY DEF sVars, Cron!vars, Cron!bounded

\* The variables of HeartbeatService in both orders.
LEMMA PulseStandsStill == ASSUME UNCHANGED hVars PROVE UNCHANGED Pulse!vars
BY DEF hVars, Pulse!vars, Pulse!env, Pulse!history

\* The variables of TokenBucket in both orders.
LEMMA BucketStandsStill == ASSUME UNCHANGED rVars PROVE UNCHANGED Bucket!vars
BY DEF rVars, Bucket!vars

\* The variables of TerminalSessions in both orders.
LEMMA TerminalStandsStill == ASSUME UNCHANGED tVars PROVE UNCHANGED Terminal!vars
BY DEF tVars, Terminal!vars, Terminal!bounds, Terminal!manager, Terminal!session, Terminal!locks,
  Terminal!caller

\* The variables of ProviderStream in both orders.
LEMMA StreamStandsStill == ASSUME UNCHANGED nVars PROVE UNCHANGED Stream!vars
BY DEF nVars, Stream!vars, Stream!provider, Stream!runner

\* The variables of ToolCalls in both orders.
LEMMA ToolStandsStill == ASSUME UNCHANGED cVars PROVE UNCHANGED Tool!vars
BY DEF cVars, Tool!vars

\* The variables of ParallelSpawn in both orders.
LEMMA SpawnStandsStill == ASSUME UNCHANGED jVars PROVE UNCHANGED Spawn!vars
BY DEF jVars, Spawn!vars

\* The variables of SkillLearning in both orders.
LEMMA LearnStandsStill == ASSUME UNCHANGED kVars PROVE UNCHANGED Learn!vars
BY DEF kVars, Learn!vars

\* The variables of SkillFiles in both orders.
LEMMA LoaderStandsStill == ASSUME UNCHANGED fVars PROVE UNCHANGED Loader!vars
BY DEF fVars, Loader!vars

\* The variables of ScriptRun in both orders.
LEMMA ScriptStandsStill == ASSUME UNCHANGED xVars PROVE UNCHANGED Script!vars
BY DEF xVars, Script!vars, Script!counters, Script!buffer, Script!history

\* The variables of MemoryStore in both orders.
LEMMA MemoryStandsStill == ASSUME UNCHANGED mVars PROVE UNCHANGED Memory!vars
BY DEF mVars, Memory!vars

\* The variables of ChatSettings in both orders.
LEMMA SettingStandsStill == ASSUME UNCHANGED eVars PROVE UNCHANGED Setting!vars
BY DEF eVars, Setting!vars, Setting!file, Setting!history

\* The variables of TerminalScreen in both orders.
LEMMA ScreenStandsStill == ASSUME UNCHANGED vVars PROVE UNCHANGED Screen!vars
BY DEF vVars, Screen!vars

\* The variables of ConversationHistory in both orders.
LEMMA HistoryStandsStill == ASSUME UNCHANGED gVars PROVE UNCHANGED History!vars
BY DEF gVars, History!vars

\* A step of CircuitBreaker leaves the others alone.
LEMMA SoloMoves ==
  ASSUME SoloStep
  PROVE  Solo!Next /\ UNCHANGED <<which, bVars, lVars, sVars, hVars, rVars, tVars, nVars,
    cVars, jVars, kVars, fVars, xVars, mVars, eVars, vVars, gVars>>
BY DEF SoloStep, OnSolo, Solo!Next

\* A step of CircuitBreaker leaves the others alone.
LEMMA CircuitMoves ==
  ASSUME CircuitStep
  PROVE  Circuit!Next /\ UNCHANGED <<which, pVars, lVars, sVars, hVars, rVars, tVars,
    nVars, cVars, jVars, kVars, fVars, xVars, mVars, eVars, vVars, gVars>>
BY DEF CircuitStep, OnCircuit, Circuit!Next

\* A step of DaemonLock leaves the others alone.
LEMMA LockMoves ==
  ASSUME LockStep
  PROVE  Lock!Next /\ UNCHANGED <<which, pVars, bVars, sVars, hVars, rVars, tVars, nVars,
    cVars, jVars, kVars, fVars, xVars, mVars, eVars, vVars, gVars>>
BY DEF LockStep, OnLock, Lock!Next

\* A step of CronService leaves the others alone.
LEMMA CronMoves ==
  ASSUME CronStep
  PROVE  Cron!Next /\ UNCHANGED <<which, pVars, bVars, lVars, hVars, rVars, tVars, nVars,
    cVars, jVars, kVars, fVars, xVars, mVars, eVars, vVars, gVars>>
BY DEF CronStep, OnCron, Cron!Next

\* A step of HeartbeatService leaves the others alone.
LEMMA PulseMoves ==
  ASSUME PulseStep
  PROVE  Pulse!Next /\ UNCHANGED <<which, pVars, bVars, lVars, sVars, rVars, tVars, nVars,
    cVars, jVars, kVars, fVars, xVars, mVars, eVars, vVars, gVars>>
BY DEF PulseStep, OnPulse, Pulse!Next

\* A step of TokenBucket leaves the others alone.
LEMMA BucketMoves ==
  ASSUME BucketStep
  PROVE  Bucket!Next /\ UNCHANGED <<which, pVars, bVars, lVars, sVars, hVars, tVars, nVars,
    cVars, jVars, kVars, fVars, xVars, mVars, eVars, vVars, gVars>>
BY DEF BucketStep, OnBucket, Bucket!Next

\* A step of TerminalSessions leaves the others alone.
LEMMA TerminalMoves ==
  ASSUME TerminalStep
  PROVE  Terminal!Next /\ UNCHANGED <<which, pVars, bVars, lVars, sVars, hVars, rVars,
    nVars, cVars, jVars, kVars, fVars, xVars, mVars, eVars, vVars, gVars>>
BY DEF TerminalStep, OnTerminal, Terminal!Next

\* A step of ProviderStream leaves the others alone.
LEMMA StreamMoves ==
  ASSUME StreamStep
  PROVE  Stream!Next /\ UNCHANGED <<which, pVars, bVars, lVars, sVars, hVars, rVars, tVars,
    cVars, jVars, kVars, fVars, xVars, mVars, eVars, vVars, gVars>>
BY DEF StreamStep, OnStream, Stream!Next

\* A step of ToolCalls leaves the others alone.
LEMMA ToolMoves ==
  ASSUME ToolStep
  PROVE  Tool!Next /\ UNCHANGED <<which, pVars, bVars, lVars, sVars, hVars, rVars, tVars,
    nVars, jVars, kVars, fVars, xVars, mVars, eVars, vVars, gVars>>
BY DEF ToolStep, OnTool, Tool!Next

\* A step of ParallelSpawn leaves the others alone.
LEMMA SpawnMoves ==
  ASSUME SpawnStep
  PROVE  Spawn!Next /\ UNCHANGED <<which, pVars, bVars, lVars, sVars, hVars, rVars, tVars,
    nVars, cVars, kVars, fVars, xVars, mVars, eVars, vVars, gVars>>
BY DEF SpawnStep, OnSpawn, Spawn!Next

\* A step of SkillLearning leaves the others alone.
LEMMA LearnMoves ==
  ASSUME LearnStep
  PROVE  Learn!Next /\ UNCHANGED <<which, pVars, bVars, lVars, sVars, hVars, rVars, tVars,
    nVars, cVars, jVars, fVars, xVars, mVars, eVars, vVars, gVars>>
BY DEF LearnStep, OnLearn, Learn!Next

\* A step of SkillFiles leaves the others alone.
LEMMA LoaderMoves ==
  ASSUME LoaderStep
  PROVE  Loader!Next /\ UNCHANGED <<which, pVars, bVars, lVars, sVars, hVars, rVars, tVars,
    nVars, cVars, jVars, kVars, xVars, mVars, eVars, vVars, gVars>>
BY DEF LoaderStep, OnLoader, Loader!Next

\* A step of ScriptRun leaves the others alone.
LEMMA ScriptMoves ==
  ASSUME ScriptStep
  PROVE  Script!Next /\ UNCHANGED <<which, pVars, bVars, lVars, sVars, hVars, rVars, tVars,
    nVars, cVars, jVars, kVars, fVars, mVars, eVars, vVars, gVars>>
BY DEF ScriptStep, OnScript, Script!Next

\* A step of MemoryStore leaves the others alone.
LEMMA MemoryMoves ==
  ASSUME MemoryStep
  PROVE  Memory!Next /\ UNCHANGED <<which, pVars, bVars, lVars, sVars, hVars, rVars, tVars,
    nVars, cVars, jVars, kVars, fVars, xVars, eVars, vVars, gVars>>
BY DEF MemoryStep, OnMemory, Memory!Next

\* A step of ChatSettings leaves the others alone.
LEMMA SettingMoves ==
  ASSUME SettingStep
  PROVE  Setting!Next /\ UNCHANGED <<which, pVars, bVars, lVars, sVars, hVars, rVars,
    tVars, nVars, cVars, jVars, kVars, fVars, xVars, mVars, vVars, gVars>>
BY DEF SettingStep, OnSetting, Setting!Next

\* A step of TerminalScreen leaves the others alone.
LEMMA ScreenMoves ==
  ASSUME ScreenStep
  PROVE  Screen!Next /\ UNCHANGED <<which, pVars, bVars, lVars, sVars, hVars, rVars, tVars,
    nVars, cVars, jVars, kVars, fVars, xVars, mVars, eVars, gVars>>
BY DEF ScreenStep, OnScreen, Screen!Next

\* A step of ConversationHistory leaves the others alone.
LEMMA HistoryMoves ==
  ASSUME HistoryStep
  PROVE  History!Next /\ UNCHANGED <<which, pVars, bVars, lVars, sVars, hVars, rVars,
    tVars, nVars, cVars, jVars, kVars, fVars, xVars, mVars, eVars, vVars>>
BY DEF HistoryStep, OnHistory, History!Next

\* Each service moves as its module says, or stands still.
LEMMA EachMoves ==
  ASSUME [Next]_vars
  PROVE  /\ [Solo!Next]_(Solo!vars)
         /\ [Circuit!Next]_(Circuit!vars)
         /\ [Lock!Next]_(Lock!vars)
         /\ [Cron!Next]_(Cron!vars)
         /\ [Pulse!Next]_(Pulse!vars)
         /\ [Bucket!Next]_(Bucket!vars)
         /\ [Terminal!Next]_(Terminal!vars)
         /\ [Stream!Next]_(Stream!vars)
         /\ [Tool!Next]_(Tool!vars)
         /\ [Spawn!Next]_(Spawn!vars)
         /\ [Learn!Next]_(Learn!vars)
         /\ [Loader!Next]_(Loader!vars)
         /\ [Script!Next]_(Script!vars)
         /\ [Memory!Next]_(Memory!vars)
         /\ [Setting!Next]_(Setting!vars)
         /\ [Screen!Next]_(Screen!vars)
         /\ [History!Next]_(History!vars)
<1>1. CASE SoloStep
  BY <1>1, SoloMoves,
     CircuitStandsStill, LockStandsStill, CronStandsStill, PulseStandsStill, BucketStandsStill,
     TerminalStandsStill, StreamStandsStill, ToolStandsStill, SpawnStandsStill, LearnStandsStill,
     LoaderStandsStill, ScriptStandsStill, MemoryStandsStill, SettingStandsStill,
     ScreenStandsStill, HistoryStandsStill
<1>2. CASE CircuitStep
  BY <1>2, CircuitMoves,
     SoloStandsStill, LockStandsStill, CronStandsStill, PulseStandsStill, BucketStandsStill,
     TerminalStandsStill, StreamStandsStill, ToolStandsStill, SpawnStandsStill, LearnStandsStill,
     LoaderStandsStill, ScriptStandsStill, MemoryStandsStill, SettingStandsStill,
     ScreenStandsStill, HistoryStandsStill
<1>3. CASE LockStep
  BY <1>3, LockMoves,
     SoloStandsStill, CircuitStandsStill, CronStandsStill, PulseStandsStill, BucketStandsStill,
     TerminalStandsStill, StreamStandsStill, ToolStandsStill, SpawnStandsStill, LearnStandsStill,
     LoaderStandsStill, ScriptStandsStill, MemoryStandsStill, SettingStandsStill,
     ScreenStandsStill, HistoryStandsStill
<1>4. CASE CronStep
  BY <1>4, CronMoves,
     SoloStandsStill, CircuitStandsStill, LockStandsStill, PulseStandsStill, BucketStandsStill,
     TerminalStandsStill, StreamStandsStill, ToolStandsStill, SpawnStandsStill, LearnStandsStill,
     LoaderStandsStill, ScriptStandsStill, MemoryStandsStill, SettingStandsStill,
     ScreenStandsStill, HistoryStandsStill
<1>5. CASE PulseStep
  BY <1>5, PulseMoves,
     SoloStandsStill, CircuitStandsStill, LockStandsStill, CronStandsStill, BucketStandsStill,
     TerminalStandsStill, StreamStandsStill, ToolStandsStill, SpawnStandsStill, LearnStandsStill,
     LoaderStandsStill, ScriptStandsStill, MemoryStandsStill, SettingStandsStill,
     ScreenStandsStill, HistoryStandsStill
<1>6. CASE BucketStep
  BY <1>6, BucketMoves,
     SoloStandsStill, CircuitStandsStill, LockStandsStill, CronStandsStill, PulseStandsStill,
     TerminalStandsStill, StreamStandsStill, ToolStandsStill, SpawnStandsStill, LearnStandsStill,
     LoaderStandsStill, ScriptStandsStill, MemoryStandsStill, SettingStandsStill,
     ScreenStandsStill, HistoryStandsStill
<1>7. CASE TerminalStep
  BY <1>7, TerminalMoves,
     SoloStandsStill, CircuitStandsStill, LockStandsStill, CronStandsStill, PulseStandsStill,
     BucketStandsStill, StreamStandsStill, ToolStandsStill, SpawnStandsStill, LearnStandsStill,
     LoaderStandsStill, ScriptStandsStill, MemoryStandsStill, SettingStandsStill,
     ScreenStandsStill, HistoryStandsStill
<1>8. CASE StreamStep
  BY <1>8, StreamMoves,
     SoloStandsStill, CircuitStandsStill, LockStandsStill, CronStandsStill, PulseStandsStill,
     BucketStandsStill, TerminalStandsStill, ToolStandsStill, SpawnStandsStill, LearnStandsStill,
     LoaderStandsStill, ScriptStandsStill, MemoryStandsStill, SettingStandsStill,
     ScreenStandsStill, HistoryStandsStill
<1>9. CASE ToolStep
  BY <1>9, ToolMoves,
     SoloStandsStill, CircuitStandsStill, LockStandsStill, CronStandsStill, PulseStandsStill,
     BucketStandsStill, TerminalStandsStill, StreamStandsStill, SpawnStandsStill,
     LearnStandsStill, LoaderStandsStill, ScriptStandsStill, MemoryStandsStill,
     SettingStandsStill, ScreenStandsStill, HistoryStandsStill
<1>10. CASE SpawnStep
  BY <1>10, SpawnMoves,
     SoloStandsStill, CircuitStandsStill, LockStandsStill, CronStandsStill, PulseStandsStill,
     BucketStandsStill, TerminalStandsStill, StreamStandsStill, ToolStandsStill,
     LearnStandsStill, LoaderStandsStill, ScriptStandsStill, MemoryStandsStill,
     SettingStandsStill, ScreenStandsStill, HistoryStandsStill
<1>11. CASE LearnStep
  BY <1>11, LearnMoves,
     SoloStandsStill, CircuitStandsStill, LockStandsStill, CronStandsStill, PulseStandsStill,
     BucketStandsStill, TerminalStandsStill, StreamStandsStill, ToolStandsStill,
     SpawnStandsStill, LoaderStandsStill, ScriptStandsStill, MemoryStandsStill,
     SettingStandsStill, ScreenStandsStill, HistoryStandsStill
<1>12. CASE LoaderStep
  BY <1>12, LoaderMoves,
     SoloStandsStill, CircuitStandsStill, LockStandsStill, CronStandsStill, PulseStandsStill,
     BucketStandsStill, TerminalStandsStill, StreamStandsStill, ToolStandsStill,
     SpawnStandsStill, LearnStandsStill, ScriptStandsStill, MemoryStandsStill,
     SettingStandsStill, ScreenStandsStill, HistoryStandsStill
<1>13. CASE ScriptStep
  BY <1>13, ScriptMoves,
     SoloStandsStill, CircuitStandsStill, LockStandsStill, CronStandsStill, PulseStandsStill,
     BucketStandsStill, TerminalStandsStill, StreamStandsStill, ToolStandsStill,
     SpawnStandsStill, LearnStandsStill, LoaderStandsStill, MemoryStandsStill,
     SettingStandsStill, ScreenStandsStill, HistoryStandsStill
<1>14. CASE MemoryStep
  BY <1>14, MemoryMoves,
     SoloStandsStill, CircuitStandsStill, LockStandsStill, CronStandsStill, PulseStandsStill,
     BucketStandsStill, TerminalStandsStill, StreamStandsStill, ToolStandsStill,
     SpawnStandsStill, LearnStandsStill, LoaderStandsStill, ScriptStandsStill,
     SettingStandsStill, ScreenStandsStill, HistoryStandsStill
<1>15. CASE SettingStep
  BY <1>15, SettingMoves,
     SoloStandsStill, CircuitStandsStill, LockStandsStill, CronStandsStill, PulseStandsStill,
     BucketStandsStill, TerminalStandsStill, StreamStandsStill, ToolStandsStill,
     SpawnStandsStill, LearnStandsStill, LoaderStandsStill, ScriptStandsStill, MemoryStandsStill,
     ScreenStandsStill, HistoryStandsStill
<1>16. CASE ScreenStep
  BY <1>16, ScreenMoves,
     SoloStandsStill, CircuitStandsStill, LockStandsStill, CronStandsStill, PulseStandsStill,
     BucketStandsStill, TerminalStandsStill, StreamStandsStill, ToolStandsStill,
     SpawnStandsStill, LearnStandsStill, LoaderStandsStill, ScriptStandsStill, MemoryStandsStill,
     SettingStandsStill, HistoryStandsStill
<1>17. CASE HistoryStep
  BY <1>17, HistoryMoves,
     SoloStandsStill, CircuitStandsStill, LockStandsStill, CronStandsStill, PulseStandsStill,
     BucketStandsStill, TerminalStandsStill, StreamStandsStill, ToolStandsStill,
     SpawnStandsStill, LearnStandsStill, LoaderStandsStill, ScriptStandsStill, MemoryStandsStill,
     SettingStandsStill, ScreenStandsStill
<1>18. CASE UNCHANGED vars
  BY <1>18,
     SoloStandsStill, CircuitStandsStill, LockStandsStill, CronStandsStill, PulseStandsStill,
     BucketStandsStill, TerminalStandsStill, StreamStandsStill, ToolStandsStill,
     SpawnStandsStill, LearnStandsStill, LoaderStandsStill, ScriptStandsStill, MemoryStandsStill,
     SettingStandsStill, ScreenStandsStill, HistoryStandsStill
     DEF vars
<1>19. QED
  BY <1>1, <1>2, <1>3, <1>4, <1>5, <1>6, <1>7, <1>8, <1>9, <1>10, <1>11, <1>12, <1>13, <1>14,
    <1>15, <1>16, <1>17, <1>18 DEF Next

\* Each service runs as it does alone, whatever becomes of the others.
THEOREM EachRuns ==
  Spec => /\ Solo!Spec
          /\ Circuit!Spec
          /\ LockSafety
          /\ CronSafety
          /\ PulseSafety
          /\ Bucket!Spec
          /\ TerminalSafety
          /\ StreamSafety
          /\ ToolSafety
          /\ SpawnSafety
          /\ Learn!Spec
          /\ Loader!Spec
          /\ Script!Spec
          /\ Memory!Spec
          /\ Setting!Spec
          /\ Screen!Spec
          /\ History!Spec
<1>1. Init => /\ Solo!Init
              /\ Circuit!Init
              /\ Lock!Init
              /\ Cron!Init
              /\ Pulse!Init
              /\ Bucket!Init
              /\ Terminal!Init
              /\ Stream!Init
              /\ Tool!Init
              /\ Spawn!Init
              /\ Learn!Init
              /\ Loader!Init
              /\ Script!Init
              /\ Memory!Init
              /\ Setting!Init
              /\ Screen!Init
              /\ History!Init
  BY DEF Init
<1>2. [Next]_vars => /\ [Solo!Next]_(Solo!vars)
                     /\ [Circuit!Next]_(Circuit!vars)
                     /\ [Lock!Next]_(Lock!vars)
                     /\ [Cron!Next]_(Cron!vars)
                     /\ [Pulse!Next]_(Pulse!vars)
                     /\ [Bucket!Next]_(Bucket!vars)
                     /\ [Terminal!Next]_(Terminal!vars)
                     /\ [Stream!Next]_(Stream!vars)
                     /\ [Tool!Next]_(Tool!vars)
                     /\ [Spawn!Next]_(Spawn!vars)
                     /\ [Learn!Next]_(Learn!vars)
                     /\ [Loader!Next]_(Loader!vars)
                     /\ [Script!Next]_(Script!vars)
                     /\ [Memory!Next]_(Memory!vars)
                     /\ [Setting!Next]_(Setting!vars)
                     /\ [Screen!Next]_(Screen!vars)
                     /\ [History!Next]_(History!vars)
  BY EachMoves
<1>3. QED
  BY <1>1, <1>2, PTL
     DEF Spec, Solo!Spec, Circuit!Spec, LockSafety, CronSafety, PulseSafety, Bucket!Spec,
         TerminalSafety, StreamSafety, ToolSafety, SpawnSafety, Learn!Spec, Loader!Spec,
         Script!Spec, Memory!Spec, Setting!Spec, Screen!Spec, History!Spec

\* The types of the services; and racing callers of a circuit push its counts
\* beyond their thresholds by no more than one each.
THEOREM ServicesTyped == Spec => []TypeOK
<1>1. Solo!Spec => []Solo!TypeOK
  BY TurnAssumption, SoloStates DEF TurnAssumption
<1>2. Circuit!Spec => []Circuit!TypeOK
  BY TurnAssumption, CircuitStates DEF TurnAssumption
<1>3. LockSafety => []Lock!TypeOK
  BY ServicesAssumption, LockStates DEF ServicesAssumption
<1>4. CronSafety => []Cron!TypeOK
  BY ServicesAssumption, CronStates DEF ServicesAssumption
<1>5. PulseSafety => []Pulse!TypeOK
  BY ServicesAssumption, PulseStates DEF ServicesAssumption
<1>6. Bucket!Spec => []Bucket!TypeOK
  BY TurnAssumption, BucketStates DEF TurnAssumption
<1>7. TerminalSafety => []Terminal!TypeOK
  BY TurnAssumption, TerminalStates DEF TurnAssumption
<1>8. StreamSafety => []Stream!TypeOK
  BY TurnAssumption, StreamStates DEF TurnAssumption
<1>9. ToolSafety => []Tool!TypeOK
  BY TurnAssumption, ToolStates DEF TurnAssumption
<1>10. SpawnSafety => []Spawn!TypeOK
  BY TurnAssumption, SpawnStates DEF TurnAssumption
<1>11. Learn!Spec => []Learn!TypeOK
  BY ServicesAssumption, LearningStates DEF ServicesAssumption
<1>12. Loader!Spec => []Loader!TypeOK
  BY ServicesAssumption, LoaderStates DEF ServicesAssumption
<1>13. Script!Spec => []Script!TypeOK
  BY TurnAssumption, ScriptTypes DEF TurnAssumption
<1>14. Memory!Spec => []Memory!TypeOK
  BY ServicesAssumption, MemoryStates DEF ServicesAssumption
<1>15. Setting!Spec => []Setting!TypeOK
  BY ServicesAssumption, SettingsStates DEF ServicesAssumption
<1>16. Screen!Spec => []Screen!TypeOK
  BY TurnAssumption, ScreenStates DEF TurnAssumption
<1>17. History!Spec => []History!TypeOK
  BY TurnAssumption, HistoryStates DEF TurnAssumption
<1>18. QED
  BY <1>1, <1>2, <1>3, <1>4, <1>5, <1>6, <1>7, <1>8, <1>9, <1>10, <1>11, <1>12, <1>13, <1>14,
    <1>15, <1>16, <1>17, EachRuns, PTL DEF TypeOK

\* What must happen once does, and in its order, over kills, restarts and races.
THEOREM ServicesOnlyOnce == Spec => []OnlyOnce
<1>1. LockSafety => []Lock!OneUnlessStolen
  BY ServicesAssumption, OneDaemon DEF ServicesAssumption
<1>2. PulseSafety => []Pulse!OneRestartPerOutage
  BY ServicesAssumption, RestartsAskedOnce DEF ServicesAssumption
<1>3. CronSafety => []Cron!FiresOnce
  BY ServicesAssumption, DueTimesFireOnce DEF ServicesAssumption
<1>4. SpawnSafety => []Spawn!AllAccountedFor
  BY TurnAssumption, SpawnAccounts DEF TurnAssumption
<1>5. Learn!Spec => []Learn!LogInOrder
  BY ServicesAssumption, LogTellsInOrder DEF ServicesAssumption
<1>6. Learn!Spec => []Learn!StreakIsJudged
  BY ServicesAssumption, StreaksAreJudged DEF ServicesAssumption
<1>7. Script!Spec => []Script!OutputIsPrefix
  BY TurnAssumption, ScriptOutputIsPrefix DEF TurnAssumption
<1>8. History!Spec => []History!InOrder
  BY TurnAssumption, HistoryToldInOrder DEF TurnAssumption
<1>9. QED
  BY <1>1, <1>2, <1>3, <1>4, <1>5, <1>6, <1>7, <1>8, EachRuns, PTL DEF OnlyOnce

\* Racing callers keep to the limits.
THEOREM ServicesWithinLimits == Spec => []WithinLimits
<1>1. Bucket!Spec => []Bucket!NoTokenFromNowhere
  BY TurnAssumption, TokensAreAccounted DEF TurnAssumption
<1>2. TerminalSafety => []Terminal!WithinLimit
  BY TurnAssumption, TableWithinLimit DEF TurnAssumption
<1>3. StreamSafety => []Stream!NoHalfCall
  BY TurnAssumption, NoHalfCalls DEF TurnAssumption
<1>4. ToolSafety => []Tool!MutatingAlone
  BY TurnAssumption, MutatorsExclude DEF TurnAssumption
<1>5. ToolSafety => []Tool!NothingStartsLater
  BY TurnAssumption, NothingLeftToStart DEF TurnAssumption
<1>6. SpawnSafety => []Spawn!WithinConcurrency
  BY TurnAssumption, SpawnWithinConcurrency DEF TurnAssumption
<1>7. Script!Spec => []Script!QuotaIsExact
  BY TurnAssumption, ScriptQuotaIsExact DEF TurnAssumption
<1>8. Memory!Spec => []Memory!WithinCapacity
  BY ServicesAssumption, MemoryStaysWithin DEF ServicesAssumption
<1>9. Learn!Spec => []Learn!StatsBehind
  BY ServicesAssumption, StatisticsLagLittle DEF ServicesAssumption
<1>10. Screen!Spec => []Screen!OnScreenUnlessShrunk
  BY TurnAssumption, CursorStaysOnScreen DEF TurnAssumption
<1>11. History!Spec => []History!Bounded
  BY TurnAssumption, HistoryStaysBounded DEF TurnAssumption
<1>12. QED
  BY <1>1, <1>2, <1>3, <1>4, <1>5, <1>6, <1>7, <1>8, <1>9, <1>10, <1>11, EachRuns, PTL DEF WithinLimits

\* Nothing gets lost: files, announcements, shells, answers, results, memories and
\* settings are what they were reported to be.
THEOREM ServicesLoseNothing == Spec => []NothingIsLost
<1>1. CronSafety => []Cron!FileIsNewest
  BY ServicesAssumption, CronFileIsNewest DEF ServicesAssumption
<1>2. PulseSafety => []Pulse!Told
  BY ServicesAssumption, ChangesTold DEF ServicesAssumption
<1>3. TerminalSafety => []Terminal!NoShellIsLost
  BY TurnAssumption, ShellsAreReachable DEF TurnAssumption
<1>4. StreamSafety => []Stream!AnswerIsWhole
  BY TurnAssumption, WholeAnswers DEF TurnAssumption
<1>5. ToolSafety => []Tool!ResultsFit
  BY TurnAssumption, ResultsAreTrue DEF TurnAssumption
<1>6. Learn!Spec => []Learn!FilesFollow
  BY ServicesAssumption, SkillFilesFollow DEF ServicesAssumption
<1>7. Memory!Spec => []Memory!KeptAsTold
  BY ServicesAssumption, MemoryKeepsWord DEF ServicesAssumption
<1>8. Setting!Spec => []Setting!ChangesStay
  BY ServicesAssumption, SettingsStay DEF ServicesAssumption
<1>9. History!Spec => []History!OfferedFirst
  BY TurnAssumption, HistoryOffered DEF TurnAssumption
<1>10. QED
  BY <1>1, <1>2, <1>3, <1>4, <1>5, <1>6, <1>7, <1>8, <1>9, EachRuns, PTL DEF NothingIsLost

\* A circuit implements Breaker for one caller, and lets nobody through early
\* among several but in the window between its two stores.
THEOREM ServicesKeepPromise == Spec => KeepsPromise
<1>1. Solo!Spec => Solo!KeepsPromise
  BY TurnAssumption, SoloKeepsPromise DEF TurnAssumption
<1>2. Circuit!Spec => Circuit!FailFast
  BY TurnAssumption, CircuitFailsFast DEF TurnAssumption
<1>3. QED
  BY <1>1, <1>2, EachRuns, PTL DEF KeepsPromise

\* Nothing bad is left behind by a crash, a restart, a load or a cascade.
THEOREM ServicesLeftInOrder == Spec => LeftInOrder
<1>1. LockSafety => Lock!StartsAgain
  BY ServicesAssumption, StartsAlone DEF ServicesAssumption
<1>2. Learn!Spec => Learn!DeprecatedForGood
  BY ServicesAssumption, SkillsDeprecatedForGood DEF ServicesAssumption
<1>3. Loader!Spec => Loader!CacheIsUnseen
  BY ServicesAssumption, LoadsSeeChanges DEF ServicesAssumption
<1>4. Loader!Spec => Loader!CascadeIsComplete
  BY ServicesAssumption, CascadesAreComplete DEF ServicesAssumption
<1>5. Screen!Spec => Screen!ShellScreenIsKept
  BY TurnAssumption, ShellScreenStays DEF TurnAssumption
<1>6. History!Spec => History!RecentIsKept
  BY TurnAssumption, HistoryKeepsRecent DEF TurnAssumption
<1>7. QED
  BY <1>1, <1>2, <1>3, <1>4, <1>5, <1>6, EachRuns, PTL DEF LeftInOrder

=============================================================================
