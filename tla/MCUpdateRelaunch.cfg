SPECIFICATION Spec
CONSTANTS
  t1 = t1
  t2 = t2
  post = post
  Threads <- MCThreads
  Kinds <- MCKinds
  Posts <- MCPosts
  Servers = 2
  MaxPushes = 2
  MaxAsks = 1
  MaxGen = 3
PROPERTIES
  TriggerIsNotLost
  ModulesAreLoaded
CHECK_DEADLOCK FALSE
