---------------------------- MODULE TurnServices ----------------------------
(***************************************************************************)
(* The services that a turn of the agent calls on: the circuit of the      *)
(* provider, its rate limit and the answer it streams, the tool calls of   *)
(* an answer, tasks in parallel, scripts, terminals and their screens, and *)
(* the history of the conversation.                                        *)
(***************************************************************************)
EXTENDS Integers, Sequences

CONSTANTS
  \* of several services
  Callers, MaxCalls, MaxTime, MaxCrashes,
  \* of one each, as its module says
  Clients, Streams, FailureThreshold, SuccessThreshold, ResetTimeout, MaxTries, MaxFailures,
  Lone, SoloThreshold, SoloTimeout, SoloTries, SoloFailures,
  BucketSize, RefillAmount, Word, BucketTime, BucketCalls,
  Calls, Mutating, Detached, InPlace, Deadline, Beat,
  TaskCount, MaxConcurrent, TaskTimeout, TotalTimeout,
  AnswerCalls, MaxText, MaxArgs, StreamCap, MaxRetries, FirstByte, StreamIdle,
  StalePoll, NoProgress, Absolute,
  Sizes, Lines, MaxBytes, MaxFiles, MaxRequests, MaxBody, MaxIntervals, MaxOutput,
  ToolLimit, ScriptCalls,
  ShellIds, MaxSessions, IdleTimeout, MaxChunks, Free,
  ScreenSizes, FirstSize, MaxScrollback, Parameters, ScreenOps,
  KeepRecent, SummaryThreshold, MaxHistory, Topics, Preview, QueueCap, Cuts, MaxMessages

VARIABLES
  pState, pFailures, pSuccesses, pAge, pPc, pStream, pTries, pFailed, pStreak,
  pOpenFor,
  bState, bFailures, bSuccesses, bAge, bPc, bStream, bTries, bFailed, bStreak,
  bOpenFor,
  rNow, rLast, rTokens, rPc, rSeen, rAdd, rGranted, rDoubled, rCalls,
  cTask, cWork, cOwner, cLine, cRunner, cWaited, cResults, cCancelled,
  jChild, jElapsed, jNext, jResults, jLeft,
  nApi, nSaid, nAcc, nQueue, nParser, nPhase, nRetries, nGot, nPoll, nHealth,
  xCaps, xState, xQuota, xRequests, xIntervals, xLate, xOutput, xSize, xCut,
  xCalls, xCaught, xWrote, xMade, xSent, xPrinted,
  tClock, tCalls, tChunks, tBorn, tTable, tAlive, tShell, tUsed, tText, tPump,
  tBuffer, tDecoder, tPc, tId, tDoomed,
  vScreen, vOps, vShrunk,
  gTurn, gCache, gFile, gIndex, gQueue, gWorker, gSaid, gOffered, gGone,
  gCrashes

pVars ==
  <<pState, pFailures, pSuccesses, pAge, pPc, pStream, pTries, pFailed,
    pStreak, pOpenFor>>
bVars ==
  <<bState, bFailures, bSuccesses, bAge, bPc, bStream, bTries, bFailed,
    bStreak, bOpenFor>>
rVars ==
  <<rNow, rLast, rTokens, rPc, rSeen, rAdd, rGranted, rDoubled, rCalls>>
cVars ==
  <<cTask, cWork, cOwner, cLine, cRunner, cWaited, cResults, cCancelled>>
jVars ==
  <<jChild, jElapsed, jNext, jResults, jLeft>>
nVars ==
  <<nApi, nSaid, nAcc, nQueue, nParser, nPhase, nRetries, nGot, nPoll, nHealth>>
xVars ==
  <<xCaps, xState, xQuota, xRequests, xIntervals, xLate, xOutput, xSize, xCut,
    xCalls, xCaught, xWrote, xMade, xSent, xPrinted>>
tVars ==
  <<tClock, tCalls, tChunks, tBorn, tTable, tAlive, tShell, tUsed, tText,
    tPump, tBuffer, tDecoder, tPc, tId, tDoomed>>
vVars ==
  <<vScreen, vOps, vShrunk>>
gVars ==
  <<gTurn, gCache, gFile, gIndex, gQueue, gWorker, gSaid, gOffered, gGone,
    gCrashes>>

Solo == INSTANCE CircuitBreaker WITH
  state <- pState, failures <- pFailures, successes <- pSuccesses,
  age <- pAge, pc <- pPc, stream <- pStream, tries <- pTries,
  failed <- pFailed, streak <- pStreak, openFor <- pOpenFor,
  Clients <- {Lone}, Streams <- {FALSE}, FailureThreshold <- SoloThreshold,
  ResetTimeout <- SoloTimeout, MaxTries <- SoloTries,
  MaxFailures <- SoloFailures

Circuit == INSTANCE CircuitBreaker WITH
  state <- bState, failures <- bFailures, successes <- bSuccesses,
  age <- bAge, pc <- bPc, stream <- bStream, tries <- bTries,
  failed <- bFailed, streak <- bStreak, openFor <- bOpenFor

Bucket == INSTANCE TokenBucket WITH
  now <- rNow, last <- rLast, tokens <- rTokens, pc <- rPc, seen <- rSeen,
  add <- rAdd, granted <- rGranted, doubled <- rDoubled, calls <- rCalls,
  Capacity <- BucketSize, MaxTime <- BucketTime, MaxCalls <- BucketCalls

Tool == INSTANCE ToolCalls WITH
  task <- cTask, work <- cWork, owner <- cOwner, line <- cLine,
  runner <- cRunner, waited <- cWaited, results <- cResults,
  cancelled <- cCancelled

Spawn == INSTANCE ParallelSpawn WITH
  child <- jChild, elapsed <- jElapsed, next <- jNext, results <- jResults,
  left <- jLeft, Count <- TaskCount

Stream == INSTANCE ProviderStream WITH
  api <- nApi, said <- nSaid, acc <- nAcc, queue <- nQueue, parser <- nParser,
  phase <- nPhase, retries <- nRetries, got <- nGot, poll <- nPoll,
  health <- nHealth, Calls <- AnswerCalls, Cap <- StreamCap,
  Idle <- StreamIdle, Progress <- NoProgress

Script == INSTANCE ScriptRun WITH
  caps <- xCaps, state <- xState, quota <- xQuota, requests <- xRequests,
  intervals <- xIntervals, late <- xLate, output <- xOutput, size <- xSize,
  cut <- xCut, calls <- xCalls, caught <- xCaught, wrote <- xWrote,
  made <- xMade, sent <- xSent, printed <- xPrinted, MaxCalls <- ScriptCalls

Terminal == INSTANCE TerminalSessions WITH
  clock <- tClock, calls <- tCalls, chunks <- tChunks, born <- tBorn,
  table <- tTable, alive <- tAlive, shell <- tShell, used <- tUsed,
  text <- tText, pump <- tPump, buffer <- tBuffer, decoder <- tDecoder,
  pc <- tPc, id <- tId, doomed <- tDoomed, Ids <- ShellIds

Screen == INSTANCE TerminalScreen WITH
  screen <- vScreen, ops <- vOps, shrunk <- vShrunk,
  Sizes <- ScreenSizes, Counts <- Parameters, MaxOps <- ScreenOps

History == INSTANCE ConversationHistory WITH
  turn <- gTurn, cache <- gCache, file <- gFile, index <- gIndex,
  queue <- gQueue, worker <- gWorker, said <- gSaid, offered <- gOffered,
  gone <- gGone, crashes <- gCrashes, Keep <- KeepRecent,
  Threshold <- SummaryThreshold

\* What the modules assume of their constants.
ASSUME TurnAssumption ==
  /\ Solo!BreakerAssumption
  /\ Circuit!BreakerAssumption
  /\ Bucket!BucketAssumption
  /\ Tool!ToolAssumption
  /\ Spawn!ParallelAssumption
  /\ Stream!StreamAssumption
  /\ Script!ScriptAssumption
  /\ Terminal!SessionsAssumption
  /\ Screen!ScreenAssumption
  /\ History!HistoryAssumption

=============================================================================
