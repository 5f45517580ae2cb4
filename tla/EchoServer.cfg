SPECIFICATION FairSpec
CONSTANTS
  Clients = {c1, c2}
  Requests = 3
INVARIANTS
  TypeOK
  NothingLost
  TwoQueued
PROPERTIES
  ImplementsEcho
  ClientsEnd
