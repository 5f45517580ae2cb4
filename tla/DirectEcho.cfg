SPECIFICATION FairSpec
CONSTANTS
  MAX_SENDQUEUE = 2
  PerRead = 3
  MaxFrames = 6
INVARIANTS
  TypeOK
  EchoedInOrder
  NothingDiscarded
PROPERTIES
  AllEchoed
  EndsReleased
