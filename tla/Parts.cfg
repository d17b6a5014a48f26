\* The cache, the server's queues and the record of a resolver, each by itself.
CONSTANTS
  Names = {n1, n2, n3}
  Responses = {r1}
  Limit = 2
  LastStream = 2
  StreamPackets <- MCStreamPackets
  OrphanPackets = {"ack"}
  PollWorkers = {a, b}
  MaxPackedBlocks = 2
  BlockDuplication = 2
  Queries = {q1, q2, q3}
  Timeout = 1
  TTL = 2
  Grace = 1
  Window = 3
  Gap = 2
  MinObs = 2
  SoftCap = 1
  HardCap = 2
  MaxEvents = 3
SPECIFICATION MCSpec
INVARIANTS TypeOK PendingIsCounted SavedOrChanged QueuesAreCounted BoundedBypass
PROPERTY DisabledWasSilent TimedOutGoFirst
SYMMETRY Symmetry
