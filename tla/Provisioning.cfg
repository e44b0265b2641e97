SPECIFICATION FairSpec
CONSTANTS
  t1 = t1
  t2 = t2
  m1 = m1
  m2 = m2
  m3 = m3
  NoTeam = NoTeam
  Tasks = {t1, t2}
  Teams = {m1, m2, m3}
  MaxFaults = 2
  Disturbances = {"call", "database", "restart"}
INVARIANTS TypeOK ReadyIsWired RollbackIsComplete GoneIsClean OwnRow
PROPERTIES MidwayIsReported
CHECK_DEADLOCK FALSE
