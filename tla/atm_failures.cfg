\* Two sessions; the server is killed and restarted, fopen and pthread_create
\* fail.  No symmetry: temporal properties.
SPECIFICATION FairSpec
CONSTANTS
  Missing = Missing
  Empty = Empty
  NoSession = NoSession
  NoRequest = NoRequest
  NoReply = NoReply
  NoMessage = NoMessage
  Sessions = {s1, s2}
  Amounts = {1}
  Backlog = 1
  InitialAccount = Missing
  Garbage = {7}
  ServerMayDie = TRUE
  ResourcesMayFail = TRUE
  MaxRequests = 3
INVARIANTS SocketsOwned AnswersMatch SendIsSafe StoreInv
PROPERTIES RequestEnds ThreadEnds
