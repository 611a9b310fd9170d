SPECIFICATION SocketSpec
CONSTANTS
  Objects = {s1}
  Fd = {3}
  NoFd = NoFd
INVARIANTS
  ConnectedIsTrue
