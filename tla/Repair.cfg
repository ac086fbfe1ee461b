CONSTANTS
  U32 = 6
  Epochs <- MCEpochs
  Chans = {1}
  NoBody = 0
  Bodies = {0, 1, 2}
  Size <- TwoFrames
  MaxFragments = 2
  RetryTicks = 1
  RetryBackoffCap = 2
  MaxRetries = 1
  DedupTicks = 2
  HeartbeatTicks = 1
  LivenessTicks = 2
  ReassemblyTicks = 1
  SearchTicks = 2
  SendBudget = 2
  MaxQueue = 4
  MaxPending = 1
  MaxDedup = 2
  Cacheable = {1, 2}
  GuestServes = {1}
  Control = {}
  GuestName = "mod"
  ExpectPeer = ""
  Inbound <- NoFrames
  SockBuf = 6
  Tokens = {21, 22, 23, 24}
  SdkMaxRetries = 1
  RollbackTicks = 1
  SdkCacheable = {1, 2}
  SdkServes = {1}
  SdkName = "sdk"
  ExpectedName = ""
  PeerTimeoutSet = FALSE
  ConcurrentPump = FALSE
  Handlers = 2
  SdkSockBuf = 6
  GuestReqs = {}
  SdkReqs = {}
  GuestMsgs = 2
  SdkMsgs = 0
  Snapshots = FALSE
  OtherModsToken = 20
  MaxTick = 3
  MaxLoss = 1
  MaxDup = 0
  MaxLoads = 0
  MaxStops = 0
  MaxStray = 0
  MaxFaults = 2
  Reorder = FALSE
  Timed = TRUE
  Failures = FALSE
  Nested = FALSE
SPECIFICATION FairSpec
CHECK_DEADLOCK FALSE
INVARIANTS NothingTorn
PROPERTIES GapsAreRepaired
