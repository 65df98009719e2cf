SPECIFICATION UdpSpec
CONSTANTS
  Clients = {c1, c2}
  MaxSessions = 2
  MaxNet = 3
CHECK_DEADLOCK FALSE
INVARIANT HandlerPerSession
