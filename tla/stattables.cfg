SPECIFICATION Spec
CONSTANTS
  Word = 64
  NumStreams = 2
  StreamRaw = 3
  CtrWord = 3
  MaxStamp = 2
INVARIANTS ReportsExact NothingMissed ProtosExact
