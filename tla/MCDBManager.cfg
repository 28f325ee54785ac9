SPECIFICATION Spec
CONSTANTS
  c1 = c1
  c2 = c2
  l1 = l1
  l2 = l2
  f1 = f1
  f2 = f2
  f3 = f3
  Reactor = Reactor
  Manager = Manager
  STOP = STOP
  NoOne = NoOne
  MainFile = MainFile
  Clients <- TwoClients
  Calls <- MCCalls
  Labels <- TwoLabels
  Files <- ThreeFiles
  BrokenFiles <- BadFile
  Unopenable <- OneFile
  RemapBroken = FALSE
  MaxDB = 2
  BatchLen = 2
  MaxOps <- MCMaxOps
INVARIANTS
  NothingBehindStop
  WorkersAgree
  ResultIsTruthful
PROPERTIES
  ImplementsService
CHECK_DEADLOCK FALSE
