SPECIFICATION ServerFairSpec
CONSTANTS
  Conns = {k1, k2}
  NoConn = NoConn
  Fds = {5, 6}
  EpollSize = 2
  Deleters = {}
  Peers = {k1, k2}
  ClientIds = {}
  Timeout = 1
  Wrap = 64
CHECK_DEADLOCK FALSE
INVARIANT SessionIsOfConnection
PROPERTIES ServiceSpec PeerGoneIsForgotten BacklogIsAccepted
