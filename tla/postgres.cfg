SPECIFICATION Spec
CONSTANTS
  d1 = d1  d2 = d2  t1 = t1  l1 = l1
  Rows <- MCRows
  Width <- MCWidth
  Adapters = {"deadpool", "r2d2", "seaorm"}
  PoolSize = 1
  MaxCollects = 3
  None = None
CHECK_DEADLOCK FALSE
INVARIANTS TypeOK GaugesCarryLastSnapshot EarlierGroupsAreFresher PoolGaugesFit
