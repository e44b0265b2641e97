SPECIFICATION RetriedSpec
CONSTANTS
  t1 = t1
  t2 = t2
  m1 = m1
  m2 = m2
  m3 = m3
  NoTeam = NoTeam
  Tasks = {t1}
  Teams = {m1, m2, m3}
  MaxFaults = 1
  Disturbances = {"call"}
PROPERTIES RetriedDeletionEnds
CHECK_DEADLOCK FALSE
