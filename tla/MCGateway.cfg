SPECIFICATION Spec
CONSTANTS
  Gateways = {g1, g2}
  Sockets = {s1, s2}
  Pushes = {p1}
  NoSocket = noSocket
  NoGateway = noGateway
  MaxFailures = 0
SYMMETRY Symmetry
INVARIANTS
  TypeOK
  RegistrationIsOwned
