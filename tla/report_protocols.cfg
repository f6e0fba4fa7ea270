SPECIFICATION Spec
CONSTANTS
  Copies <- MCCopies
  WatchedPorts <- MCWatched
  NumTcpProtos = 100
  TopStreams = 3
  TopProtos = 3
  TopAddrs = 2
  SuspiciousPorts = 1
  BufSize = 5
  SeenMax = 20
  LineLen <- MCLineLen
INVARIANT PortsCarryProtocol
