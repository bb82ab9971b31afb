SPECIFICATION Spec
CONSTANTS
  pod = pod
  con1 = con1
  con2 = con2
  web = web
  job = job
  FakePod = FakePod
  NoCon = NoCon
  NoEvent = NoEvent
  Procs = {1, 2}
  Containers = {con1}
  Pods = {pod}
  Comms = {web, job}
  CommOf <- MCCommOf
  ConOf <- MCConOf
  PodOf <- MCPodOf
  ConfLists <- MCWebLists
  SnooperMax = 3
  Ranges = {1}
  Params = {1, 2}
  Range0 = 0
  Params0 = 1
  ZeroParams = 0
  NoCmd = NoCmd
  NotLoaded = NotLoaded
  ProcessMayFail = FALSE
  SendMayFail = FALSE
  SendMax = 2
  RecvMax = 2
  MaxSteps = 4
INVARIANTS ProcessIsConfigured
CHECK_DEADLOCK FALSE
