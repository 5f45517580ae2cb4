SPECIFICATION FairSpec
CONSTANTS
  MAX_SENDQUE = 2
  Parts = 3
  MaxSends = 6
INVARIANTS
  TypeOK
  WireInOrder
  BufferAlive
  NoStall
PROPERTY ImplementsSend
