SPECIFICATION FairSpec
CONSTANTS
  c1 = c1
  c2 = c2
  c3 = c3
  Conns <- MCConns
  NoConn = NoConn
  ServerFd = 3
  ClientFds = {1, 4, 5}
  Frags = 2
  Quota <- OneZeroZero
  ReadMax = 3
  SockRoom = 1
  Backlog = 1
PROPERTIES MessageReachesPeers DeparturesNoticed ExitsAfterLogout
