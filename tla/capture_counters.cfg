SPECIFICATION Spec
CONSTANTS
  Word = 64
  Packets <- Sessions
  LanIps <- MCLanIps
  WebPorts <- MCWebPorts
  Hash <- MCHash
  NumLan = 2
  NumAddrs = 6
  NumStreams = 2
  StreamRaw = 3
  NumProtos = 100
  ListMax = 2
  WaitMax = 1
  Minute = 3
  StatTime = 1
  PreStat = 2
  Expired = 1
  MaxBack = 1
  ActWord = 4
  CtrWord = 3
INVARIANTS FlowStatsAccounted WebPacketsAgree NullOnlyWhenFull
CHECK_DEADLOCK FALSE
