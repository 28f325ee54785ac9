SPECIFICATION Spec
CONSTANTS
  net1 = net1
  net2 = net2
  m1 = m1
  m2 = m2
  m3 = m3
  m4 = m4
  f1 = f1
  MainFile = main
  BadConfig = bad
  Modules <- MCModules
  Requires <- MCRequires
  Labels <- MCLabels
  Files <- MCFiles
  Configs <- MCConfigs
  Example <- MCExample
  FaultSets <- MCFaults
  MaxServers = 3
  MaxReloads = 2
INVARIANTS
  RunsAsConfigured
  InstancesEnd
  Rearmed
CHECK_DEADLOCK FALSE
