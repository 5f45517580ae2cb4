SPECIFICATION Spec
CONSTANTS
  Version = "2.1"
  Client = "SyncClient"
  MAX_LENGTH = 2048
  Ids = {0}
  Lens = {14}
  ReplyIds = {0}
  ReplySizes = {14}
INVARIANT DroppedForCause
