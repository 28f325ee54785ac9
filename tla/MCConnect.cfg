SPECIFICATION Spec
CONSTANTS
  bot_ = bot_
  tester = tester
  u1 = u1
  u2 = u2
  n1 = n1
  n2 = n2
  Bot = bot_
  Tester = tester
  Off = Off
  Chunk = 2
  MaxCollisions = 1
  Clients <- MCClients
  Users <- MCUsers
  Owner <- MCOwner
  Confs <- MCConfs
INVARIANTS
  AuthenticatedFirst
  IdentityIsCurrent
  DecidedOnce
  SmokeTestIsSound
PROPERTIES
  EverythingEnds
CHECK_DEADLOCK FALSE
