SPECIFICATION AppSpec
CONSTANTS
  pg = pg  redis = redis  m1 = m1  m2 = m2  b1 = b1
  users = users  counter = counter
  Collectors = {pg, redis}
  Metrics <- MCMetrics
  Builtin = {b1}
  MetricsOf <- MCMetricsOf
  Awaits <- MCAwaits
  ZeroInterval = {}
  Unresponsive = {pg, redis}
  Panicky = {pg, redis}
  Shutters = {Signal}
  Dropper = Dropper
  Host = Host
  Free = Free
  Order <- MCOrder
  OnBlocking = {pg}
  Requests = {users, counter}
  Uses <- MCUses
  Awaiting = {counter}
  Signal = Signal
INVARIANTS AppTypeOK ServedAreCollected NoDropUnderRequest
PROPERTIES ShutdownAbortsAll ExitsOnceTold
CHECK_DEADLOCK FALSE
