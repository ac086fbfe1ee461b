CONSTANTS
  U32 = 6
  Epochs <- MCEpochs
  Chans = {1}
  NoBody = 0
  Bodies = {0, 1, 2}
  Size <- OneFrame
  MaxFragments = 1
  RetryTicks = 1
  RetryBackoffCap = 2
  MaxRetries = 1
  DedupTicks = 2
  HeartbeatTicks = 1
  LivenessTicks = 2
  ReassemblyTicks = 1
  SearchTicks = 2
  SendBudget = 2
  MaxQueue = 4
  MaxPending = 1
  MaxDedup = 2
  Cacheable = {}
  GuestServes = {1}
  Control = {}
  GuestName = "mod"
  ExpectPeer = ""
  Inbound <- NoFrames
  SockBuf = 2
  Tokens = {21, 22, 23, 24}
  SdkMaxRetries = 1
  RollbackTicks = 1
  SdkCacheable = {}
  SdkServes = {1}
  SdkName = "sdk"
  ExpectedName = ""
  PeerTimeoutSet = FALSE
  ConcurrentPump = FALSE
  Handlers = 2
  SdkSockBuf = 2
  GuestReqs = {1}
  SdkReqs = {2}
  GuestMsgs = 0
  SdkMsgs = 0
  Snapshots = FALSE
  OtherModsToken = 20
  MaxTick = 1
  MaxLoss = 0
  MaxDup = 0
  MaxLoads = 0
  MaxStops = 0
  MaxStray = 0
  MaxFaults = 1
  Reorder = FALSE
  Timed = TRUE
  Failures = FALSE
  Nested = TRUE
SPECIFICATION FairSpec
CHECK_DEADLOCK FALSE
PROPERTIES HandlersReturn
