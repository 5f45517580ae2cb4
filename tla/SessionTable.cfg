SPECIFICATION FairSpec
CONSTANTS
  PoolSize = 2
  MaxSessions = 3
  MaxMsgs = 1
INVARIANTS
  TypeOK
  Balanced
  ReadersRegistered
  DeadInTable
PROPERTY Released
