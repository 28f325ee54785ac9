SPECIFICATION Spec
CONSTANTS
  None = None
  Channels <- MCChannels
  Interval = 3
  MinDelay = 1
  Slots = 3
  MaxAlerts = 2
  MaxTime = 11
  MaxBreaks = 1
INVARIANTS SentOnceWhenDue Punctual TimersFollowModule
CHECK_DEADLOCK FALSE
