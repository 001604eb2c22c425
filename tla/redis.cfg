SPECIFICATION Spec
CONSTANTS
  d1 = d1  d2 = d2  hits = hits  evicted = evicted
  Scalars <- MCScalars
  Databases = {d1, d2}
  Numbers = {1}
  Bad = Bad
  Noise = Noise
  Absent = Absent
  MaxLines = 2
  MaxInfos = 2
INVARIANTS TypeOK GaugesCarryLastInfo ScrapeMixesTwoInfos
CHECK_DEADLOCK FALSE
