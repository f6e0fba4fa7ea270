SPECIFICATION Spec
CONSTANTS
  Word = 64
  Packets <- WebAndQuery
  LanIps <- MCLanIps
  WebPorts <- MCWebPorts
  Hash <- MCHash
  NumLan = 2
  NumAddrs = 6
  NumStreams = 3
  StreamRaw = 3
  NumProtos = 100
  ListMax = 4
  WaitMax = 4
  Minute = 3
  StatTime = 1
  PreStat = 2
  Expired = 1
  MaxBack = 0
  ActWord = 4
  CtrWord = 1
INVARIANT LookupFindsStreamInUse
CHECK_DEADLOCK FALSE
