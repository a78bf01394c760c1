SPECIFICATION Spec

CONSTANTS
  None = None
  worker = worker
  canceller = canceller
  Writers <- MCWriters
  Script <- MCScript
  Clients = {b1}
  QueueSize = 2
  ReplayLimit = 3
  MaxTries = 2
  MaxConnections = 2
  MaxRestarts = 1

INVARIANTS
  TypeOK
  SequencesContiguous
  NothingFallsBetween

PROPERTIES
  LogOnlyGrows
  FramesIncrease
  StreamCloses
