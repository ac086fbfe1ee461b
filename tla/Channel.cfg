CONSTANTS
  U32 = 32
  Epochs <- MCEpochs
  Chans = {1}
  NoBody = 0
  Bodies = {0, 1, 2}
  Size <- OneFrame
  MaxFragments = 1
  RetryTicks = 1
  RetryBackoffCap = 2
  MaxRetries = 1
  DedupTicks = 4
  HeartbeatTicks = 8
  LivenessTicks = 2
  ReassemblyTicks = 1
  SearchTicks = 2
  SendBudget = 2
  MaxQueue = 3
  MaxPending = 1
  MaxDedup = 2
  Cacheable = {1, 2}
  GuestServes = {1}
  Control = {}
  GuestName = "mod"
  ExpectPeer = ""
  Inbound <- NoFrames
  SockBuf = 2
  Tokens = {21, 22, 23, 24}
  SdkMaxRetries = 1
  RollbackTicks = 2
  SdkCacheable = {1, 2}
  SdkServes = {1}
  SdkName = "sdk"
  ExpectedName = "mod"
  PeerTimeoutSet = TRUE
  ConcurrentPump = FALSE
  Handlers = 2
  SdkSockBuf = 2
  GuestReqs = {}
  SdkReqs = {}
  GuestMsgs = 2
  SdkMsgs = 2
  Snapshots = TRUE
  OtherModsToken = 20
  MaxTick = 3
  MaxLoss = 1
  MaxDup = 1
  MaxLoads = 0
  MaxStops = 0
  MaxStray = 1
  MaxFaults = 1
  Reorder = TRUE
  Timed = FALSE
  Failures = FALSE
  Nested = FALSE
SPECIFICATION Spec
CHECK_DEADLOCK FALSE
INVARIANTS NewsIsNew HeardWasSaid
