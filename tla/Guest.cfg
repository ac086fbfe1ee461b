CONSTANTS
  U32 = 8
  Epochs <- MCEpochs
  Chans = {1, 2}
  NoBody = NoBody
  b1 = b1
  b2 = b2
  Bodies = {NoBody, b1, b2}
  Size <- MCSize
  MaxFragments = 2
  RetryTicks = 1
  RetryBackoffCap = 1
  MaxRetries = 1
  DedupTicks = 2
  HeartbeatTicks = 1
  LivenessTicks = 1
  ReassemblyTicks = 1
  SearchTicks = 2
  SendBudget = 2
  MaxQueue = 2
  MaxPending = 1
  MaxDedup = 1
  Cacheable = {b1}
  GuestServes = {1}
  Control = {}
  GuestName = "mod"
  ExpectPeer = "sdk"
  Inbound <- MCInbound
  SockBuf = 1
  MaxTick = 3
  MaxBoot = 1
  MaxCorr = 3
  MaxSeq <- MCSeq
SPECIFICATION GuestSpec
CONSTRAINT Bounded
INVARIANTS GuestTypeOK SessionBoundary QueueBounded NoRequestOverlooked
