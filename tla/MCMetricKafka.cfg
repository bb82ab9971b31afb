SPECIFICATION FairSpec
CONSTANTS
  ext = ext
  nat = nat
  l1 = l1
  l2 = l2
  l3 = l3
  l4 = l4
  l5 = l5
  l6 = l6
  Probes = {ext, nat}
  Native = {nat}
  Output <- MCOutput
  Kind <- MCKind
  FifoSize <- MCFifoSize
  RetryMax = 2
  Settings <- MCSettings
  NoLine = NoLine
  NoFifo = NoFifo
INVARIANT MetricChannelWorks
CHECK_DEADLOCK FALSE
