SPECIFICATION Spec

CONSTANTS
  Tasks = {1, 2, 3}
  Deps <- MCDeps
  Caterer = 2
  None = None
  Incidents = {i1, i2}
  Risks = {"NORMAL", "CRITICAL", "EMERGENCY"}
  Slots = {s1, s2}
  MaxRequests = 5

CHECK_DEADLOCK FALSE

SYMMETRY Symmetry

INVARIANTS
  TypeOK
  NoneStranded
  EscalationHasCause

PROPERTIES
  OnlyRevisionReopens
