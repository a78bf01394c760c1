SPECIFICATION Spec

CONSTANTS
  Runs = {r1, r2}
  Cancels = {c1, c2}
  NoRun = NoRun
  None = None
  Nothing = Nothing
  Refused = Refused
  Categories = 2
  MaxRestarts = 2

INVARIANTS
  TypeOK
  ActiveRunOwned
  EndRecordedOnce
  EventsTellCommitted
  RunInvariant

PROPERTIES
  TerminalStays
  RunsComeToRest
  CancelReaches
