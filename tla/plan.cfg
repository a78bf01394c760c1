SPECIFICATION Spec

CONSTANTS
  Tasks <- MCTasks
  Category <- MCCategory
  v1 = v1
  v2 = v2
  Vendors = {v1, v2}
  Serves <- MCServes
  Rows = {r1, r2, r3}
  NoVendor = NoVendor
  NoRow = NoRow
  NoSlack = NoSlack
  Insert = Insert
  Kept = Kept
  Durations = {0, 1, 2, 3}
  Baseline <- MCBaseline
  Shifts <- MCShifts
  Moments = {0, 4}
  DefaultDuration = 1
  Quotes = {2, 3}
  TotalBudget = 5
  Slots = {s1, s2}
  MaxRequests = 3

CHECK_DEADLOCK FALSE

SYMMETRY Symmetry

INVARIANTS
  TypeOK
  SlackIsSafe
  BoundHasCommitment
  BudgetRespected
