SPECIFICATION Spec
CONSTANTS
  Fds = {f1, f2}
  Peers = {p1}
  ClientIds = {7}
  Timeout = 2
  Wrap = 64
  Epoch = 8
  Slack = 1
  MaxSetBack = 1
  MaxUid = 3
  MaxTime = 7
SYMMETRY Symmetry
INVARIANTS Mirror IdleSessionsExpire
PROPERTIES TableSpec ActiveSessionsStay
