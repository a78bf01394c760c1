\* One request at a time, and the process may crash between two commits.
SPECIFICATION Spec
CONSTANTS
  owner = owner
  manager = manager
  collaborator = collaborator
  anonymous = anonymous
  critical = critical
  neutral = neutral
  direct = direct
  Users <- Everyone
  Role <- MCRole
  Owner = owner
  Anonymous = anonymous
  NoUser = NoUser
  Requests <- MCRequests
  ActionIds <- MCActionIds
  Impact <- MCImpact
  Neutral <- MCNeutral
  NoRequest = NoRequest
  FreshId = FreshId
  NoExecution = NoExecution
  Sessions = {s1, s2, s3, s4}
  MaxInFlight = 1
  MaxPlan = 1
  MaxVer = 2
SYMMETRY SessionSymmetry
INVARIANTS
  ExecutedAsReviewed
PROPERTIES
  DecisionSpec
  PausedBlocksExecution
