SPECIFICATION Spec
CONSTANTS
  Gateways = {g1}
  Sockets = {s1, s2}
  Pushes = {p1}
  NoSocket = noSocket
  NoGateway = noGateway
  MaxFailures = 0

INVARIANT
  SupersededLeavesAlone
CHECK_DEADLOCK FALSE
