SPECIFICATION Spec
CONSTANTS
  p = p  q = q  r = r  u = u  x = x
  m1 = m1  m2 = m2  m3 = m3  m4 = m4  m5 = m5  b1 = b1
  Collectors = {p, q, r, x}
  Metrics <- MCMetrics
  Builtin = {b1}
  MetricsOf <- MCMetricsOf
  Awaits <- MCAwaits
  ZeroInterval = {q}
  Unresponsive = {}
  Panicky = {p, q, r, x}
  Shutters = {s1}
  Dropper = Dropper
  Host = Host
  Free = Free
INVARIANTS TypeOK RunningIsExposed OneLoopPerMetric NoLostHandle CountedAreStoppable DropStopsAll ExactlyOneTwin
PROPERTY ImplementsContract
CHECK_DEADLOCK FALSE
