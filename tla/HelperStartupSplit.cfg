SPECIFICATION Spec
CONSTANTS
  Clients = {c1, c2}
  MaxInits = 2
  NoServer = NoServer
INVARIANT OneStar
