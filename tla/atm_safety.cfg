\* Three sessions, no account file yet, no failure: interleavings and client exits.
SPECIFICATION Spec
CONSTANTS
  Missing = Missing
  Empty = Empty
  NoSession = NoSession
  NoRequest = NoRequest
  NoReply = NoReply
  NoMessage = NoMessage
  Sessions = {s1, s2, s3}
  Amounts = {0, 1, 2}
  Backlog = 2
  InitialAccount = Missing
  Garbage = {0, 7}
  ServerMayDie = FALSE
  ResourcesMayFail = FALSE
  MaxRequests = 3
SYMMETRY Symmetry
INVARIANTS TypeOK LockInv LedgerExact NoOverdraft AnswerIsCurrent
PROPERTY ImplementsAccount
