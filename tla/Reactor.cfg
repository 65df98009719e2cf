SPECIFICATION Spec
CONSTANTS
  Conns = {k1, k2, k3}
  NoConn = NoConn
  Fds = {5, 6}
  EpollSize = 2
  Deleters = {d1}
SYMMETRY Symmetry
CHECK_DEADLOCK FALSE
INVARIANTS HandlerIsForConnection RegisteredIsServed NoDescriptorLeak EventsAreCurrent
PROPERTY DelFdCloses
