SPECIFICATION FairSpec
CONSTANTS
  ext = ext
  nat = nat
  c1 = c1
  c2 = c2
  Probes = {ext, nat}
  Native = {nat}
  Threads = {1, 2}
  Confs = {c1}
  Conf0 = Conf0
  NoConf = NoConf
  NoThread = NoThread
  NoPid = NoPid
  NoProbe = NoProbe
  LookupMax = 0
  QueueMax = 2
  Settled = TRUE
  MaxRequests = 3
  MaxEvents = 1
  MaxDeaths = 1
INVARIANTS RunningIsTid TypeOK OneProducer LifecycleInv StopInv
PROPERTIES StopIsComplete LockIsReleased KeepliveRestarts
CONSTRAINT OneProbe
CHECK_DEADLOCK FALSE
