SPECIFICATION FairSpec
CONSTANTS
  PoolSize = 2
  MaxMsgs = 3
  MaxOps = 2
INVARIANTS
  TypeOK
  NothingDangles
  TerminatedForCause
  AllJoined
PROPERTY StopReturns
