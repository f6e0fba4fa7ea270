SPECIFICATION BusySpec
CONSTANTS
  Word = 64
  Packets <- TwoSessions
  LanIps <- MCLanIps
  WebPorts <- MCWebPorts
  Hash <- MCHash
  NumLan = 2
  NumAddrs = 6
  NumStreams = 3
  StreamRaw = 3
  NumProtos = 100
  ListMax = 3
  WaitMax = 2
  Minute = 3
  StatTime = 1
  PreStat = 2
  Expired = 1
  MaxBack = 0
  ActWord = 4
  CtrWord = 1
INVARIANTS TypeOK ClassifiedByOwnAddresses AddrCountsExact EndedIsQueued
PROPERTIES EndedIsReleased IdleIsReleased
CHECK_DEADLOCK FALSE
