SPECIFICATION SendingSpec
CONSTANTS
  line1 = line1
  line2 = line2
  h1 = h1
  h2 = h2
  Line <- MCLine
  linethrottle = 2
  Second = 2
  MaxLines = 5
  Late = 1
  LastAsk = 12
  MaxTime = 28
  Handlers <- MCHandlers
  Raising <- MCRaising
  MaxCalls = 2
  MaxConns = 2
  MaxParts = 3
INVARIANTS
  QueueIsArmed
  NoFlood
  CallsKeepOrder
  MessagesFit
PROPERTIES
  ImplementsLineQueue
  BacklogLeaves
CHECK_DEADLOCK FALSE
