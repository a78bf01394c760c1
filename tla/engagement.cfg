SPECIFICATION Spec

CONSTANTS
  Slots = {s1, s2}
  Requests = {q1}
  NoRequest = NoRequest
  Terms <- Tight
  Quotes = {1200}
  None = None
  Declined = Declined
  Keep = Keep
  MaxRound = 1

INVARIANTS
  TypeOK
  LinkedNeverFresh

PROPERTIES
  CommittedOnAuthority
  TakeOverSettles
