SPECIFICATION Spec
CONSTANTS
  pod = pod
  con1 = con1
  con2 = con2
  web = web
  job = job
  FakePod = FakePod
  NoCon = NoCon
  NoEvent = NoEvent
  Procs = {1, 2}
  Containers = {con1}
  Pods = {pod}
  Comms = {web, job}
  CommOf <- MCCommOf
  ConOf <- MCConOf
  PodOf <- MCPodOf
  ConfLists <- MCConfLists
  SnooperMax = 3
  Ranges = {1}
  Params = {1, 2}
  Range0 = 0
  Params0 = 1
  ZeroParams = 0
  NoCmd = NoCmd
  NotLoaded = NotLoaded
  ProcessMayFail = TRUE
  SendMayFail = TRUE
  SendMax = 2
  RecvMax = 1
  MaxSteps = 3
INVARIANTS TypeOK NoDeadProcess AllObserved CarefulIsConfigured
PROPERTIES RollbackIsExact
CHECK_DEADLOCK FALSE
