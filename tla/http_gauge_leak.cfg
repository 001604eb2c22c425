SPECIFICATION Spec
CONSTANTS
  a = a  b = b  c = c
  T = T  U = U  V = V
  s200 = s200  S500 = S500
  Requests = {a, b, c}
  Paths <- MCPaths
  Template <- MCTemplate
  RawPath <- MCRawPath
  Statuses = {s200, S500}
  Outcomes <- MCOutcomes
  Unmatched = Unmatched
  Pending = Pending
INVARIANT InFlightIsCurrent
CHECK_DEADLOCK FALSE
