SPECIFICATION Spec
CONSTANTS
  a1 = a1
  a2 = a2
  s1 = s1
  s2 = s2
  NoAddress = none
  NoHook = nohook
  ReloadHook = "reload"
  Hooks = {"reload", "update"}
  Addresses <- MCAddresses
  Servers <- MCServers
  Configs <- MCConfigs
  MaxReloads = 1
  MaxRequests = 1
INVARIANT PortFollowsClaim
 
PROPERTY WorkIsDone
CHECK_DEADLOCK FALSE
