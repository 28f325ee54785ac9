SPECIFICATION Spec
CONSTANTS
  Nicks = {ann}
  Confs <- MCConfs
  Turns = {1, 2, 3}
  Codex = {1}
  MaxFrames = 3
  MaxItems = 2
  Keep = 2
  MaxFollowups = 1
  MaxLines = 1
  ToolRounds = 1
  Window = 0
  Sleeps = {1}
  GcInterval = 1
INVARIANTS
  ConversationsAreSound
  SpeaksAsTold
  AnswerIsWhole
PROPERTIES
  HandlersEnd
CHECK_DEADLOCK FALSE
