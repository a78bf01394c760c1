SPECIFICATION Spec

CONSTANTS
  None = None
  worker = worker
  canceller = canceller
  Writers <- MCWriters
  Script <- MCScript
  Clients = {b1}
  QueueSize = 100
  ReplayLimit = 1000
  MaxTries = 3
  MaxConnections = 1
  MaxRestarts = 0

INVARIANT CursorCovers
