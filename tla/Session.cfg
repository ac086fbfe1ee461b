CONSTANTS
  U32 = 6
  Epochs <- MCEpochs
  Chans = {1}
  NoBody = 0
  Bodies = {0}
  Size <- OneFrame
  MaxFragments = 1
  RetryTicks = 1
  RetryBackoffCap = 2
  MaxRetries = 1
  DedupTicks = 2
  HeartbeatTicks = 1
  LivenessTicks = 2
  ReassemblyTicks = 1
  SearchTicks = 2
  SendBudget = 2
  MaxQueue = 3
  MaxPending = 1
  MaxDedup = 2
  Cacheable = {}
  GuestServes = {1}
  Control = {}
  GuestName = "mod"
  ExpectPeer = "sdk"
  Inbound <- NoFrames
  SockBuf = 3
  Tokens = {21, 22, 23, 24}
  SdkMaxRetries = 1
  RollbackTicks = 1
  SdkCacheable = {}
  SdkServes = {1}
  SdkName = "sdk"
  ExpectedName = "mod"
  PeerTimeoutSet = FALSE
  ConcurrentPump = FALSE
  Handlers = 2
  SdkSockBuf = 3
  GuestReqs = {}
  SdkReqs = {}
  GuestMsgs = 0
  SdkMsgs = 0
  Snapshots = FALSE
  OtherModsToken = 20
  MaxTick = 1
  MaxLoss = 0
  MaxDup = 0
  MaxLoads = 1
  MaxStops = 1
  MaxStray = 0
  MaxFaults = 2
  Reorder = FALSE
  Timed = TRUE
  Failures = FALSE
  Nested = FALSE
SPECIFICATION FairSpec
CHECK_DEADLOCK FALSE
INVARIANTS OwnSession
PROPERTIES Converges
