SPECIFICATION Spec
CONSTANTS
  join = join
  whois = whois
  NoKind = NoKind
  Nobody = Nobody
  Waiters <- TwoWaiters
  Kinds <- TwoKinds
  Interested <- MCInterested
  Stops <- MCStops
  Timeout = 1
  MaxEvents = 2
  LastStart = 0
  MaxTime = 6
INVARIANTS
  DeliveredInOrder
  RegisteredBeforeSend
  EndsCleanly
  EndsInTime
CHECK_DEADLOCK FALSE
