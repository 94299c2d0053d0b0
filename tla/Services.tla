------------------------------ MODULE Services ------------------------------
(***************************************************************************)
(* The services of the process side by side, those of a turn and those     *)
(* that run beside the turns: the daemon's PID file, the cron scheduler,   *)
(* the heartbeat, what is learned about skills and the skills' files, the  *)
(* memories and the settings of chats.  They share nothing with each other *)
(* but the process they run in, so a behaviour moves one of them and the   *)
(* rest stand still.                                                       *)
(***************************************************************************)
EXTENDS TurnServices

CONSTANTS
  Parts,   \* the services that behaviours are about
  \* of one each, as its module says
  Starts, MaxCommands,
  CronJobs, Once, Period, CronCallers, CronTime, CronCalls,
  Watched, OutageThreshold, MaxBackoff, HealthChanges,
  Depth, Top, Streak, Capacity, SaveEvery, MaxLog, MaxEvents,
  Files, Names, SkillTexts, Broken, MaxChanges,
  MemoryIds, Versions, NoVersion, MaxEntries, MemoryFaults,
  Keys, Values, Unset, Cycled, MaxFaults

VARIABLES
  which,   \* the service this behaviour is about
  lProc, lHandle, lPath, lContent, lHolder, lCommand, lTarget, lCommands,
  lStolen,
  sNow, sUp, sJobs, sDisk, sStates, sSaved, sThread, sFired, sKept, sAgain,
  sGiven, sCalls, sCrashes,
  hHealth, hPc, hPolled, hState, hFile, hShown, hAnnounced, hAsked, hTwice,
  hChanges, hCrashes,
  kBus, kPublished, kConsumer, kStats, kSaved, kSkill, kFile, kLog, kPrune,
  kCrashes,
  fRoot, fDisk, fCache, fByName, fDependents, fWatcher, fLoad, fChanges,
  mStaged, mCommitted, mSeen, mFailures, mTold,
  eKind, eText, ePc, eMine, eKey, eCalls, eFaults, eLast, eBehind, eUndone

lVars ==
  <<lProc, lHandle, lPath, lContent, lHolder, lCommand, lTarget, lCommands,
    lStolen>>
sVars ==
  <<sNow, sUp, sJobs, sDisk, sStates, sSaved, sThread, sFired, sKept, sAgain,
    sGiven, sCalls, sCrashes>>
hVars ==
  <<hHealth, hPc, hPolled, hState, hFile, hShown, hAnnounced, hAsked, hTwice,
    hChanges, hCrashes>>
kVars ==
  <<kBus, kPublished, kConsumer, kStats, kSaved, kSkill, kFile, kLog, kPrune,
    kCrashes>>
fVars ==
  <<fRoot, fDisk, fCache, fByName, fDependents, fWatcher, fLoad, fChanges>>
mVars ==
  <<mStaged, mCommitted, mSeen, mFailures, mTold>>
eVars ==
  <<eKind, eText, ePc, eMine, eKey, eCalls, eFaults, eLast, eBehind, eUndone>>
vars ==
  <<which, pVars, bVars, lVars, sVars, hVars, rVars, tVars, nVars, cVars,
    jVars, kVars, fVars, xVars, mVars, eVars, vVars, gVars>>

Lock == INSTANCE DaemonLock WITH
  proc <- lProc, handle <- lHandle, path <- lPath, content <- lContent,
  holder <- lHolder, command <- lCommand, target <- lTarget,
  commands <- lCommands, stolen <- lStolen

Cron == INSTANCE CronService WITH
  now <- sNow, up <- sUp, jobs <- sJobs, disk <- sDisk, states <- sStates,
  saved <- sSaved, thread <- sThread, fired <- sFired, kept <- sKept,
  again <- sAgain, given <- sGiven, calls <- sCalls, crashes <- sCrashes,
  Jobs <- CronJobs, Callers <- CronCallers, MaxTime <- CronTime, MaxCalls <- CronCalls

Pulse == INSTANCE HeartbeatService WITH
  health <- hHealth, pc <- hPc, polled <- hPolled, state <- hState,
  file <- hFile, shown <- hShown, announced <- hAnnounced, asked <- hAsked,
  twice <- hTwice, changes <- hChanges, crashes <- hCrashes,
  Components <- Watched, Threshold <- OutageThreshold,
  MaxChanges <- HealthChanges

Learn == INSTANCE SkillLearning WITH
  bus <- kBus, published <- kPublished, consumer <- kConsumer,
  stats <- kStats, saved <- kSaved, skill <- kSkill, file <- kFile,
  log <- kLog, prune <- kPrune, crashes <- kCrashes

Loader == INSTANCE SkillFiles WITH
  root <- fRoot, disk <- fDisk, cache <- fCache, byName <- fByName,
  dependents <- fDependents, watcher <- fWatcher, load <- fLoad,
  changes <- fChanges, Contents <- SkillTexts

Memory == INSTANCE MemoryStore WITH
  staged <- mStaged, committed <- mCommitted, seen <- mSeen,
  failures <- mFailures, told <- mTold, Ids <- MemoryIds, None <- NoVersion,
  MaxFailures <- MemoryFaults

Setting == INSTANCE ChatSettings WITH
  kind <- eKind, text <- eText, pc <- ePc, mine <- eMine, key <- eKey,
  calls <- eCalls, faults <- eFaults, last <- eLast, behind <- eBehind,
  undone <- eUndone, Default <- Unset

\* What the modules assume of their constants.
ASSUME ServicesAssumption ==
  /\ Lock!DaemonAssumption
  /\ Cron!CronAssumption
  /\ Pulse!HeartbeatAssumption
  /\ Learn!LearningAssumption
  /\ Loader!FilesAssumption
  /\ Memory!StoreAssumption
  /\ Setting!SettingsAssumption

\* Choices of the environment that are of one service only are made there.
Init ==
  /\ which \in Parts
  /\ Solo!Init
  /\ Circuit!Init
  /\ Lock!Init
  /\ Cron!Init
  /\ Pulse!Init
  /\ Bucket!Init
  /\ Terminal!Init
  /\ Stream!Init
  /\ Tool!Init
  /\ Spawn!Init
  /\ Learn!Init
  /\ Loader!Init
  /\ Script!Init
  /\ Memory!Init
  /\ Setting!Init
  /\ Screen!Init
  /\ History!Init
  /\ which # "provider" => nApi = "openai"
  /\ which # "script" => xCaps = Script!Safe

\* The service a behaviour is about makes a step, the others stand still.
OnSolo(action) ==
  /\ which = "lone breaker" /\ action
  /\ UNCHANGED <<which, bVars, lVars, sVars, hVars, rVars, tVars, nVars,
                cVars, jVars, kVars, fVars, xVars, mVars, eVars, vVars,
                gVars>>

OnCircuit(action) ==
  /\ which = "breaker" /\ action
  /\ UNCHANGED <<which, pVars, lVars, sVars, hVars, rVars, tVars, nVars,
                cVars, jVars, kVars, fVars, xVars, mVars, eVars, vVars,
                gVars>>

OnLock(action) ==
  /\ which = "daemon" /\ action
  /\ UNCHANGED <<which, pVars, bVars, sVars, hVars, rVars, tVars, nVars,
                cVars, jVars, kVars, fVars, xVars, mVars, eVars, vVars,
                gVars>>

OnCron(action) ==
  /\ which = "cron" /\ action
  /\ UNCHANGED <<which, pVars, bVars, lVars, hVars, rVars, tVars, nVars,
                cVars, jVars, kVars, fVars, xVars, mVars, eVars, vVars,
                gVars>>

OnPulse(action) ==
  /\ which = "heartbeat" /\ action
  /\ UNCHANGED <<which, pVars, bVars, lVars, sVars, rVars, tVars, nVars,
                cVars, jVars, kVars, fVars, xVars, mVars, eVars, vVars,
                gVars>>

OnBucket(action) ==
  /\ which = "bucket" /\ action
  /\ UNCHANGED <<which, pVars, bVars, lVars, sVars, hVars, tVars, nVars,
                cVars, jVars, kVars, fVars, xVars, mVars, eVars, vVars,
                gVars>>

OnTerminal(action) ==
  /\ which = "terminals" /\ action
  /\ UNCHANGED <<which, pVars, bVars, lVars, sVars, hVars, rVars, nVars,
                cVars, jVars, kVars, fVars, xVars, mVars, eVars, vVars,
                gVars>>

OnStream(action) ==
  /\ which = "provider" /\ action
  /\ UNCHANGED <<which, pVars, bVars, lVars, sVars, hVars, rVars, tVars,
                cVars, jVars, kVars, fVars, xVars, mVars, eVars, vVars,
                gVars>>

OnTool(action) ==
  /\ which = "tools" /\ action
  /\ UNCHANGED <<which, pVars, bVars, lVars, sVars, hVars, rVars, tVars,
                nVars, jVars, kVars, fVars, xVars, mVars, eVars, vVars,
                gVars>>

OnSpawn(action) ==
  /\ which = "parallel" /\ action
  /\ UNCHANGED <<which, pVars, bVars, lVars, sVars, hVars, rVars, tVars,
                nVars, cVars, kVars, fVars, xVars, mVars, eVars, vVars,
                gVars>>

OnLearn(action) ==
  /\ which = "learning" /\ action
  /\ UNCHANGED <<which, pVars, bVars, lVars, sVars, hVars, rVars, tVars,
                nVars, cVars, jVars, fVars, xVars, mVars, eVars, vVars,
                gVars>>

OnLoader(action) ==
  /\ which = "skill files" /\ action
  /\ UNCHANGED <<which, pVars, bVars, lVars, sVars, hVars, rVars, tVars,
                nVars, cVars, jVars, kVars, xVars, mVars, eVars, vVars,
                gVars>>

OnScript(action) ==
  /\ which = "script" /\ action
  /\ UNCHANGED <<which, pVars, bVars, lVars, sVars, hVars, rVars, tVars,
                nVars, cVars, jVars, kVars, fVars, mVars, eVars, vVars,
                gVars>>

OnMemory(action) ==
  /\ which = "memory" /\ action
  /\ UNCHANGED <<which, pVars, bVars, lVars, sVars, hVars, rVars, tVars,
                nVars, cVars, jVars, kVars, fVars, xVars, eVars, vVars,
                gVars>>

OnSetting(action) ==
  /\ which = "settings" /\ action
  /\ UNCHANGED <<which, pVars, bVars, lVars, sVars, hVars, rVars, tVars,
                nVars, cVars, jVars, kVars, fVars, xVars, mVars, vVars,
                gVars>>

OnScreen(action) ==
  /\ which = "screen" /\ action
  /\ UNCHANGED <<which, pVars, bVars, lVars, sVars, hVars, rVars, tVars,
                nVars, cVars, jVars, kVars, fVars, xVars, mVars, eVars,
                gVars>>

OnHistory(action) ==
  /\ which = "history" /\ action
  /\ UNCHANGED <<which, pVars, bVars, lVars, sVars, hVars, rVars, tVars,
                nVars, cVars, jVars, kVars, fVars, xVars, mVars, eVars,
                vVars>>

SoloStep ==
  \/ OnSolo(Solo!Request(Lone))
  \/ OnSolo(Solo!Work(Lone))
  \/ OnSolo(Solo!Fail(Lone))
  \/ OnSolo(Solo!Tick)

CircuitStep ==
  \/ \E c \in Clients : OnCircuit(Circuit!Request(c))
  \/ \E c \in Clients : OnCircuit(Circuit!Work(c))
  \/ \E c \in Clients : OnCircuit(Circuit!Fail(c))
  \/ OnCircuit(Circuit!Tick)

LockStep ==
  \/ \E p \in Starts : OnLock(Lock!Start(p))
  \/ \E p \in Starts : OnLock(Lock!Starting(p))
  \/ \E p \in Starts : OnLock(Lock!Shutdown(p))
  \/ \E p \in Starts : OnLock(Lock!Crash(p))
  \/ \E kind \in {"stop", "status"} : OnLock(Lock!Command(kind))
  \/ OnLock(Lock!LookAt)
  \/ OnLock(Lock!Signal)
  \/ OnLock(Lock!RemoveFile)

CronStep ==
  \/ \E t \in CronCallers, j \in CronJobs : OnCron(Cron!AddJob(t, j))
  \/ \E t \in CronCallers, j \in CronJobs : OnCron(Cron!UpdateJob(t, j))
  \/ \E t \in CronCallers, j \in CronJobs : OnCron(Cron!RemoveJob(t, j))
  \/ \E t \in CronCallers, j \in CronJobs : OnCron(Cron!PauseJob(t, j))
  \/ \E t \in CronCallers, j \in CronJobs : OnCron(Cron!ResumeJob(t, j))
  \/ \E t \in Cron!Threads : OnCron(Cron!Service(t))
  \/ OnCron(Cron!Tick)
  \/ OnCron(Cron!Advance)
  \/ OnCron(Cron!Crash)
  \/ OnCron(Cron!Restart)

PulseStep ==
  \/ OnPulse(Pulse!Round)
  \/ OnPulse(Pulse!Stop)
  \/ OnPulse(Pulse!Crash)
  \/ OnPulse(Pulse!Restart)
  \/ \E c \in Watched : OnPulse(Pulse!Change(c))

BucketStep ==
  \/ OnBucket(Bucket!Advance)
  \/ \E c \in Callers : OnBucket(Bucket!Call(c))

TerminalStep ==
  \/ \E c \in Callers : OnTerminal(Terminal!Create(c))
  \/ \E c \in Callers : OnTerminal(Terminal!Step(c))
  \/ \E c \in Callers, s \in ShellIds : OnTerminal(Terminal!KillRequest(c, s))
  \/ \E c \in Callers, s \in ShellIds, timed \in BOOLEAN : OnTerminal(Terminal!ReadOutput(c, s, timed))
  \/ \E s \in ShellIds : OnTerminal(Terminal!Pump(s))
  \/ \E s \in ShellIds : OnTerminal(Terminal!PumpChunk(s))
  \/ \E s \in ShellIds : OnTerminal(Terminal!Exits(s))
  \/ OnTerminal(Terminal!Tick)

StreamStep ==
  \/ OnStream(Stream!Speak)
  \/ OnStream(Stream!Think)
  \/ OnStream(Stream!Says)
  \/ OnStream(Stream!MessageDelta)
  \/ OnStream(Stream!Stop)
  \/ OnStream(Stream!Closes)
  \/ OnStream(Stream!Runs)
  \/ OnStream(Stream!Tick)
  \/ \E cut \in BOOLEAN : OnStream(Stream!OpenAiFinish(cut))
  \/ \E error \in {"stream", "event"} : OnStream(Stream!Breaks(error))

ToolStep ==
  \/ \E t \in Tool!Tools : OnTool(Tool!BadArguments(t))
  \/ \E t \in Tool!Tools : OnTool(Tool!Begin(t))
  \/ \E t \in Tool!Tools : OnTool(Tool!Acquire(t))
  \/ \E t \in Tool!Tools : OnTool(Tool!EndsAlone(t))
  \/ \E t \in Tool!Tools, verdict \in Tool!Verdicts : OnTool(Tool!Ends(t, verdict))
  \/ OnTool(Tool!Runner)
  \/ OnTool(Tool!Cancel)
  \/ OnTool(Tool!Drop)
  \/ OnTool(Tool!Tick)

SpawnStep ==
  \/ \E t \in Spawn!Jobs, how \in Spawn!Ended : OnSpawn(Spawn!Ends(t, how))
  \/ OnSpawn(Spawn!Joins)
  \/ OnSpawn(Spawn!Empty)
  \/ OnSpawn(Spawn!Tick)

LearnStep ==
  \/ \E kind \in Learn!Kinds, n \in Learn!Skills : OnLearn(Learn!Publish(kind, n))
  \/ OnLearn(Learn!Consumer)
  \/ OnLearn(Learn!Stop)
  \/ OnLearn(Learn!PruneRead)
  \/ OnLearn(Learn!PruneRename)
  \/ OnLearn(Learn!Shutdown)
  \/ OnLearn(Learn!Restart)
  \/ \E torn \in BOOLEAN : OnLearn(Learn!Crash(torn))

LoaderStep ==
  \/ \E f \in Files, c \in Loader!Held : OnLoader(Loader!Write(f, c))
  \/ \E state \in {"there", "unreadable", "missing"} : OnLoader(Loader!Root(state))
  \/ \E f \in Files : OnLoader(Loader!Read(f))
  \/ \E f \in Files : OnLoader(Loader!InvalidatePath(f))
  \/ \E names \in SUBSET Names : OnLoader(Loader!InvalidateNames(names))
  \/ \E n \in Names : OnLoader(Loader!InvalidateCascade(n))
  \/ \E moved \in SUBSET Files : OnLoader(Loader!Scan(moved))
  \/ OnLoader(Loader!Load)
  \/ OnLoader(Loader!List)
  \/ OnLoader(Loader!Finish)
  \/ OnLoader(Loader!InvalidateAll)
  \/ OnLoader(Loader!StartWatcher)
  \/ OnLoader(Loader!StopWatcher)
  \/ OnLoader(Loader!Poll)

ScriptStep ==
  \/ \E n \in Sizes : OnScript(Script!WriteFile(n))
  \/ \E n \in Sizes : OnScript(Script!AppendFile(n))
  \/ \E n \in Sizes : OnScript(Script!WriteJson(n))
  \/ \E n \in Sizes : OnScript(Script!Copy(n))
  \/ \E n \in Sizes : OnScript(Script!Request(n))
  \/ \E n \in Sizes : OnScript(Script!Download(n))
  \/ \E length \in Lines : OnScript(Script!Echo(length))
  \/ OnScript(Script!Uncounted)
  \/ OnScript(Script!Hook)
  \/ OnScript(Script!TimeOver)
  \/ OnScript(Script!Ends)

MemoryStep ==
  \/ OnMemory(Memory!Clear)
  \/ OnMemory(Memory!Reopen)
  \/ \E id \in MemoryIds : OnMemory(Memory!Delete(id))
  \/ \E id \in MemoryIds : OnMemory(Memory!TurnedAway(id))
  \/ \E id \in MemoryIds : OnMemory(Memory!NotAdded(id))
  \/ \E id \in MemoryIds, version \in Versions : OnMemory(Memory!Store(id, version))

SettingStep ==
  \/ OnSetting(Setting!Crash)
  \/ \E t \in Callers : OnSetting(Setting!Listed(t))
  \/ \E t \in Callers : OnSetting(Setting!Truncate(t))
  \/ \E t \in Callers : OnSetting(Setting!Write(t))
  \/ \E t \in Callers : OnSetting(Setting!WriteFails(t))
  \/ \E t \in Callers, k \in Keys, v \in Values : OnSetting(Setting!Change(t, k, v))
  \/ \E t \in Callers, k \in Keys, v \in Values : OnSetting(Setting!SwitchModel(t, k, v))

ScreenStep ==
  \/ \E k \in {"x", "W"} : OnScreen(Screen!PrintText(k))
  \/ OnScreen(Screen!Plain)
  \/ \E n \in Parameters : OnScreen(Screen!Counted(n))
  \/ \E on \in BOOLEAN : OnScreen(Screen!Switch(on))
  \/ \E mode \in Screen!Modes : OnScreen(Screen!Erase(mode))
  \/ \E m, n \in Parameters, checked \in BOOLEAN : OnScreen(Screen!Position(m, n, checked))
  \/ \E m, n \in Parameters \union {0} : OnScreen(Screen!Region(m, n))
  \/ \E size \in ScreenSizes : OnScreen(Screen!ResizeTo(size))

HistoryStep ==
  \/ \E cut \in Cuts : OnHistory(History!Begin(cut))
  \/ \E cut \in Cuts : OnHistory(History!Answer(cut))
  \/ OnHistory(History!Interrupted)
  \/ OnHistory(History!Fails)
  \/ OnHistory(History!WorkerReads)
  \/ OnHistory(History!WorkerWrites)
  \/ OnHistory(History!Restart)

Next ==
  \/ SoloStep
  \/ CircuitStep
  \/ LockStep
  \/ CronStep
  \/ PulseStep
  \/ BucketStep
  \/ TerminalStep
  \/ StreamStep
  \/ ToolStep
  \/ SpawnStep
  \/ LearnStep
  \/ LoaderStep
  \/ ScriptStep
  \/ MemoryStep
  \/ SettingStep
  \/ ScreenStep
  \/ HistoryStep

Spec == Init /\ [][Next]_vars

-----------------------------------------------------------------------------
\* The types of the services.
TypeOK ==
  /\ Solo!TypeOK
  /\ Circuit!TypeOK
  /\ Lock!TypeOK
  /\ Cron!TypeOK
  /\ Pulse!TypeOK
  /\ Bucket!TypeOK
  /\ Terminal!TypeOK
  /\ Stream!TypeOK
  /\ Tool!TypeOK
  /\ Spawn!TypeOK
  /\ Learn!TypeOK
  /\ Loader!TypeOK
  /\ Script!TypeOK
  /\ Memory!TypeOK
  /\ Setting!TypeOK
  /\ Screen!TypeOK
  /\ History!TypeOK

\* What must happen once does, and in its order: one daemon runs unless
\* somebody unlinked the PID file it has open, one restart is asked for per
\* outage, a due time is fired once, a task of a parallel call reported once,
\* an event logged once and in the order it came, a script's output is kept in
\* the order it came, a skill's streak of failures is judged by every event up
\* to the last, and a conversation is told in its order, nothing twice and the
\* summaries before it.
OnlyOnce ==
  /\ Lock!OneUnlessStolen
  /\ Pulse!OneRestartPerOutage
  /\ Cron!FiresOnce
  /\ Spawn!AllAccountedFor
  /\ Learn!LogInOrder
  /\ Learn!StreakIsJudged
  /\ Script!OutputIsPrefix
  /\ History!InOrder

\* Racing callers keep to the limits: no tokens that nobody added, no sessions
\* beyond max_sessions, no call of a tool on half its arguments, no mutating
\* tool beside another unless a thread was left to itself, no tool begun after
\* its call was left, no more tasks than max_concurrent, no more files and
\* requests of a script than may be and a quota that is what it wrote, no more
\* memories than max_entries but for failures, statistics on disk behind by no
\* more than a save's interval, the cursor on the screen unless that was made
\* smaller, and in a history two summaries and what its limit lets in.
WithinLimits ==
  /\ Bucket!NoTokenFromNowhere
  /\ Terminal!WithinLimit
  /\ Stream!NoHalfCall
  /\ Tool!MutatingAlone
  /\ Tool!NothingStartsLater
  /\ Spawn!WithinConcurrency
  /\ Script!QuotaIsExact
  /\ Memory!WithinCapacity
  /\ Learn!StatsBehind
  /\ Screen!OnScreenUnlessShrunk
  /\ History!Bounded

\* Nothing gets lost: a file that nobody is writing is the memory's copy, what
\* the API shows was announced, a shell that runs can be reached, a streamed
\* answer is put together whole, what a tool reports is what it did, the
\* skills' files follow their registry, a memory is what its callers were told,
\* a setting stays unless a stale copy is saved over it, and a message that
\* leaves a history was shown to the hooks, unless the limit or a crash took it.
NothingIsLost ==
  /\ Cron!FileIsNewest
  /\ Pulse!Told
  /\ Terminal!NoShellIsLost
  /\ Stream!AnswerIsWhole
  /\ Tool!ResultsFit
  /\ Learn!FilesFollow
  /\ Memory!KeptAsTold
  /\ Setting!ChangesStay
  /\ History!OfferedFirst

\* A circuit does what is promised of it: for one caller its atomics behave as
\* documented, the refinement of Breaker (retry.rs:289-295), and among several
\* a request passes it open before the timeout only in the window between the
\* stores of state and opened_at_ms.
KeepsPromise ==
  /\ Solo!KeepsPromise
  /\ Circuit!FailFast

\* Nothing bad is left behind: a lone start of the daemon succeeds whatever
\* crashed before, a deprecated skill stays so over restarts, a load leaves the
\* skills the files say or a note of what changed, a cascade no skill that needs
\* a dropped one, a full-screen program the shell's screen as it was, and a
\* compaction the newest messages.
LeftInOrder ==
  /\ Lock!StartsAgain
  /\ Learn!DeprecatedForGood
  /\ Loader!CacheIsUnseen
  /\ Loader!CascadeIsComplete
  /\ Screen!ShellScreenIsKept
  /\ History!RecentIsKept

=============================================================================
