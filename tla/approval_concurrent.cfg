\* Requests interleave freely and the process may crash.
SPECIFICATION Spec
CONSTANTS
  owner = owner
  manager = manager
  collaborator = collaborator
  anonymous = anonymous
  critical = critical
  neutral = neutral
  direct = direct
  Users <- Members
  Role <- MCRole
  Owner = owner
  Anonymous = anonymous
  NoUser = NoUser
  Requests <- MCRequests
  ActionIds <- MCActionIds
  Impact <- MCImpact
  Neutral <- MCNeutral
  NoRequest = NoRequest
  FreshId = FreshId
  NoExecution = NoExecution
  Sessions = {s1, s2, s3, s4}
  MaxInFlight = 2
  MaxPlan = 1
  MaxVer = 1
SYMMETRY SessionSymmetry
INVARIANTS
  TypeOK
  ApprovedMeansExecuted
  DutiesSeparated
  ActionIdExecutedOnce
  GateInvariant
PROPERTIES
  StaleJustified
  RetryBlockedBySnapshot
