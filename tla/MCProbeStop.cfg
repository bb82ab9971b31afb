SPECIFICATION FairSpec
CONSTANTS
  ext = ext
  nat = nat
  c1 = c1
  c2 = c2
  Probes = {ext}
  Native = {}
  Threads = {1, 2}
  Confs = {c1}
  Conf0 = Conf0
  NoConf = NoConf
  NoThread = NoThread
  NoPid = NoPid
  NoProbe = NoProbe
  LookupMax = 0
  QueueMax = 2
  Settled = TRUE
  MaxRequests = 2
  MaxEvents = 0
  MaxDeaths = 1
PROPERTY StopTakesEffect
CHECK_DEADLOCK FALSE
