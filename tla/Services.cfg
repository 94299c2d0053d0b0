SPECIFICATION MCSpec
CONSTANTS
  Parts = {"lone breaker", "breaker", "daemon", "cron", "heartbeat", "bucket",
    "terminals", "provider", "tools", "parallel", "learning", "skill files",
    "script", "memory", "settings", "screen", "skill order", "history"}
  Callers = {"a", "b"}  MaxCalls = 3  MaxTime = 2  MaxCrashes = 1
  Clients = {"c", "d"}  Streams = {FALSE}  FailureThreshold = 2  SuccessThreshold = 2
  ResetTimeout = 1  MaxTries = 2  MaxFailures = 3
  Lone = "c"  SoloThreshold = 3  SoloTimeout = 2  SoloTries = 3  SoloFailures = 12
  Starts = {1, 2, 3}  MaxCommands = 1
  CronJobs = {"once", "many"}  Once = {"once"}  Period = 1
  CronCallers = {"a"}  CronTime = 2  CronCalls = 3
  Watched = {"provider", "bus"}  OutageThreshold = 2  MaxBackoff = 3  HealthChanges = 4
  BucketSize = 2  RefillAmount = 1  Word = 8  BucketTime = 3  BucketCalls = 4
  ShellIds = {1, 2}  MaxSessions = 1  IdleTimeout = 1  MaxChunks = 1  Free = "free"
  AnswerCalls = {1, 2}  MaxText = 1  MaxArgs = 1  StreamCap = 1  MaxRetries = 1
  FirstByte = 1  StreamIdle = 2  StalePoll = 1  NoProgress = 1  Absolute = 3
  Calls = 3  Mutating = {1, 2}  Detached = {1}  InPlace = {2}  Deadline = 2  Beat = 1
  TaskCount = 3  MaxConcurrent = 2  TaskTimeout = 2  TotalTimeout = 2
  Depth = 2  Top = 2  Streak = 2  Capacity = 2  SaveEvery = 2  MaxLog = 1  MaxEvents = 3
  Files = {1, 2}  Names = {"a", "b"}  SkillTexts <- MCContents  Broken <- MCBroken  MaxChanges = 3
  Sizes = {1, 2}  Lines = {0, 1}  MaxBytes = 3  MaxFiles = 2  MaxRequests = 1  MaxBody = 1
  MaxIntervals = 1  MaxOutput = 2  ToolLimit = 1  ScriptCalls = 4
  MemoryIds = {"a", "b", "c"}  Versions = {1, 2}  NoVersion = 0  MaxEntries = 1  MemoryFaults = 2
  Keys = {"model", "streaming"}  Values = {0, 1}  Unset = 0  Cycled = {"model"}  MaxFaults = 1
  ScreenSizes <- MCSizes  FirstSize <- MCFirst  MaxScrollback = 1  Parameters = {1, 2}  ScreenOps = 4
  KeepRecent = 2  SummaryThreshold = 2  MaxHistory = 4  Topics = 1  Preview = 1  QueueCap = 1
  Cuts = {TRUE, FALSE}  MaxMessages = 6
INVARIANTS TypeOK OnlyOnce   SkillsInOrder
PROPERTIES KeepsPromise  LeftInOrder
CHECK_DEADLOCK FALSE
