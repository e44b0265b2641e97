SPECIFICATION Spec
CONSTANTS
  blue = blue
  green = green
  wb = wb
  wg = wg
  qb = qb
  qg = qg
  Rows = {t1}
  Containers = {blue, green}
  Workers = {wb, wg}
  Callers = {qb, qg}
  HomeOf <- MCHomeOf
  MaxAttempts = 2
  MaxStops = 0
  MaxAsked = 0
  MaxErrors = 0
PROPERTIES LostClaimWritesNothing
CHECK_DEADLOCK FALSE
