CONSTANTS
  U32 = 32
  Epochs <- MCEpochs
  Chans = {1}
  NoBody = 0
  Bodies = {0, 1, 2}
  Size <- OneFrame
  MaxFragments = 1
  RetryTicks = 1
  RetryBackoffCap = 1
  MaxRetries = 1
  DedupTicks = 1
  HeartbeatTicks = 8
  LivenessTicks = 2
  ReassemblyTicks = 1
  SearchTicks = 2
  SendBudget = 2
  MaxQueue = 3
  MaxPending = 1
  MaxDedup = 2
  Cacheable = {1, 2}
  GuestServes = {1}
  Control = {}
  GuestName = "mod"
  ExpectPeer = ""
  Inbound <- NoFrames
  SockBuf = 3
  Tokens = {21, 22, 23, 24}
  SdkMaxRetries = 1
  RollbackTicks = 2
  SdkCacheable = {1, 2}
  SdkServes = {1}
  SdkName = "sdk"
  ExpectedName = "mod"
  PeerTimeoutSet = FALSE
  ConcurrentPump = TRUE
  Handlers = 2
  SdkSockBuf = 3
  GuestReqs = {1}
  SdkReqs = {2}
  GuestMsgs = 0
  SdkMsgs = 0
  Snapshots = FALSE
  OtherModsToken = 20
  MaxTick = 4
  MaxLoss = 2
  MaxDup = 1
  MaxLoads = 0
  MaxStops = 1
  MaxStray = 0
  MaxFaults = 1
  Reorder = FALSE
  Timed = FALSE
  Failures = TRUE
  Nested = TRUE
SPECIFICATION Spec
CHECK_DEADLOCK FALSE
INVARIANTS TypeOK HeardWasSaid
PROPERTIES AtMostOnceCalls
