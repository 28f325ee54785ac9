SPECIFICATION Spec
CONSTANTS
  n1 = n1
  n2 = n2
  n3 = n3
  group = group
  None = None
  Names <- MCNames
  Nicks <- MCNicks
  Messages <- MCMessages
  Tables <- MCTables
  Slots = 2
  MaxTime = 1
  MaxEvents = 2
INVARIANTS AtMostOnce NothingStranded MembersAreReached
CHECK_DEADLOCK FALSE
