SPECIFICATION FairSpec
CONSTANTS
  Clients = {c1, c2}
  MaxInits = 2
  NoServer = NoServer
INVARIANTS TypeOK SerialStartsShareServer
PROPERTIES AcceptedNotAbandoned InitReturns EventuallyAccepted
