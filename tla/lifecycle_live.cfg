SPECIFICATION FairSpec
CONSTANTS
  p = p  q = q  r = r  u = u  x = x
  m1 = m1  m2 = m2  m3 = m3  m4 = m4  m5 = m5  b1 = b1
  Collectors = {p, u}
  Metrics <- MCMetrics
  Builtin = {b1}
  MetricsOf <- MCMetricsOf
  Awaits <- MCAwaits
  ZeroInterval = {}
  Unresponsive = {u}
  Panicky = {u}
  Shutters = {s1}
  Dropper = Dropper
  Host = Host
  Free = Free
PROPERTIES DrainedStop KeepsCollecting AddReturns
CHECK_DEADLOCK FALSE
