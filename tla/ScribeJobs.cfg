SPECIFICATION FairSpec
CONSTANTS
  blue = blue
  green = green
  wb = wb
  wg = wg
  qb = qb
  qg = qg
  Rows = {t1}
  Containers = {blue, green}
  Workers = {wb, wg}
  Callers = {qb, qg}
  HomeOf <- MCHomeOf
  MaxAttempts = 2
  MaxStops = 1
  MaxAsked = 1
  MaxErrors = 1
INVARIANTS TypeOK RecordingsKept DeletedWithRecording
PROPERTIES TranscribedIsFinal QueuedRowEnds
CHECK_DEADLOCK FALSE
