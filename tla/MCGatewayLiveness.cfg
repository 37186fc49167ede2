SPECIFICATION FairSpec
CONSTANTS
  Gateways = {g1}
  Sockets = {s1}
  Pushes = {p1, p2}
  NoSocket = noSocket
  NoGateway = noGateway
  MaxFailures = 1

PROPERTIES
  ClosedSocketLeaves
  SilentIsEvicted
  PushEndsEventually
CHECK_DEADLOCK FALSE
