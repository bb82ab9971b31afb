SPECIFICATION Spec
CONSTANTS
  pod = pod
  con1 = con1
  con2 = con2
  web = web
  job = job
  FakePod = FakePod
  NoCon = NoCon
  NoEvent = NoEvent
  Procs = {2, 3}
  Containers = {con1, con2}
  Pods = {pod}
  Comms = {web, job}
  CommOf <- MCCommOf
  ConOf <- MCConOf
  PodOf <- MCPodOf
  ConfLists <- MCPodLists
  SnooperMax = 6
  Ranges = {1}
  Params = {1, 2}
  Range0 = 0
  Params0 = 1
  ZeroParams = 0
  NoCmd = NoCmd
  NotLoaded = NotLoaded
  ProcessMayFail = FALSE
  SendMayFail = FALSE
  SendMax = 6
  RecvMax = 6
  MaxSteps = 3
INVARIANTS PodIsObserved
CHECK_DEADLOCK FALSE
