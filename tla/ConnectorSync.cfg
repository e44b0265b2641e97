SPECIFICATION FairSpec
CONSTANTS
  r3 = r3
  drive = drive
  site = site
  Runs = {r1, r2, r3}
  Connectors = {drive, site}
  ConnectorOf <- MCConnectorOf
  Delegated = {site}
  Callers = {k1, k2}
  Readers = {reader}
  Reaper = reaper
  MaxConcurrent = 1
  MaxCrashes = 1
  MaxErrors = 1
INVARIANTS TypeOK EngineLimits LedgerInv
PROPERTIES LedgerSpec HandedVerdictIsTheCrawls AdmittedRunEnds
CHECK_DEADLOCK FALSE
