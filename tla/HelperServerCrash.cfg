SPECIFICATION Spec
CONSTANTS
  c1 = c1
  c2 = c2
  c3 = c3
  Conns <- MCConns
  NoConn = NoConn
  ServerFd = 3
  ClientFds = {1, 4}
  Frags = 2
  Quota <- TwoOneZero
  ReadMax = 3
  SockRoom = 3
  Backlog = 1
INVARIANT ReflectorStaysUp
