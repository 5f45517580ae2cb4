SPECIFICATION FairSpec
CONSTANTS
  WithId = TRUE
  MAX_LENGTH = 5
  MaxFrames = 2
  Streams <- MCStreams
INVARIANTS
  TypeOK
  Framing
  NodeInv
  NeverDeaf
  RefusedForCause
PROPERTY AllFramesPosted
