\* fopen and pthread_create may fail.
SPECIFICATION Spec
CONSTANTS
  Missing = Missing
  Empty = Empty
  NoSession = NoSession
  NoRequest = NoRequest
  NoReply = NoReply
  NoMessage = NoMessage
  Sessions = {s1, s2}
  Amounts = {1}
  Backlog = 1
  InitialAccount = 2
  Garbage = {7}
  ServerMayDie = FALSE
  ResourcesMayFail = TRUE
  MaxRequests = 2
INVARIANT SuccessMeansStored
