SPECIFICATION FairSpec
CONSTANTS
  p1 = p1
  hello = hello
  Producers = {p1}
  Msgs = {hello}
  Known = {hello}
  IllTyped = {}
  MaxPosts = 2
PROPERTY StopLeadsToExit
