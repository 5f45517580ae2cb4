SPECIFICATION FairSpec
CONSTANTS
  p1 = p1
  p2 = p2
  p3 = p3
  hello = hello
  other = other
  bad = bad
  Producers = {p1, p2, p3}
  Msgs = {hello, other, bad}
  Known = {hello, bad}
  IllTyped = {bad}
  MaxPosts = 4
INVARIANTS
  TypeOK
  NoLostWakeup
  NothingLeftBehind
PROPERTY ImplementsService
