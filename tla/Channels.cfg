SPECIFICATION FairSpec
CONSTANTS
  InboxCap = 1  EventCap = 2  OutCap = 1  StreamCap = 2
  MaxFaults = 2  MaxBackoff = 4  Chunks = 2
  MaxPosts = 3  Commands = {2}  Blank = {}  MaxAttempts = 3
  MaxUpdates = 3  Local = {2}  Threshold = 2  MaxRestarts = 1
  Sessions = {"a", "b"}  ChatKey <- MCChatKey  MaxRuns = 3  NoSession = "none"
  Clients = {"a"}  AuthRequired = TRUE  MaxFrames = 3  NoClient = "none"
  MaxMsgs = 2  Users = {"u", "v"}  Sender <- MCSender
  Copies = {1, 2, 3}  Carries <- MCCarries  FailedPolls = 1
  MaxEvents = 3  Unreadable = {2}
  HookEvents = {1, 2, 3}  ChatOf <- MCChatOf  SaidAs <- MCSaidAs  Long = {2}
  Unsliceable = {3}  Handlers = {"h", "i"}  Burst = 1  MaxPushes = 3  HangsUp = TRUE
INVARIANTS TypeOK OnceInOrder  ActsOnlyWhileUp AnswersWhole TypingHasReason
  
CHECK_DEADLOCK FALSE
