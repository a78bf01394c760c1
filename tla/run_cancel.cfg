SPECIFICATION Spec

CONSTANTS
  Runs = {r1}
  Cancels = {c1}
  NoRun = NoRun
  None = None
  Nothing = Nothing
  Refused = Refused
  Categories = 1
  MaxRestarts = 0

PROPERTY CancelHonoured
