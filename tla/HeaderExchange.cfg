SPECIFICATION Spec
CONSTANTS
  Version = "3"
  Client = "NetworkOrder"
  MAX_LENGTH = 2048
  Ids <- MCIds
  Lens <- MCLens
  ReplyIds <- MCReplyIds
  ReplySizes <- MCReplySizes
INVARIANTS
  RequestUnderstood
  ReplyUnderstood
