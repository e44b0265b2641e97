SPECIFICATION FairSpec
CONSTANTS
  i1 = i1
  i2 = i2
  v1 = v1
  v2 = v2
  long = long
  bare = bare
  w1 = w1
  Nobody = Nobody
  Ingests = {i1, i2}
  Texts = {v1, v2, long, bare}
  Long = {long}
  Bodiless = {bare}
  Documents <- MCDocuments
  Workers = {w1}
  MaxEvents = 2
INVARIANTS TypeOK SyncedIsSearchable PointsAreOwned
PROPERTIES UnchangedIsSearchable PendingSettles
CHECK_DEADLOCK FALSE
