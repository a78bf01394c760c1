SPECIFICATION Spec

CONSTANTS
  Slots = {s1, s2}
  Approvals = {a1, a2}
  Messages = {m1}
  Hash <- MCHash
  NoHash = NoHash
  None = None
  Unknown = Unknown
  Nobody = Nobody
  Outcomes = {"OK", "FAILED"}
  MaxRestarts = 1

SYMMETRY Symmetry

INVARIANTS
  TypeOK
  ContactedOnce
  RecordTellsTruth
  MessageDecidesOnce
