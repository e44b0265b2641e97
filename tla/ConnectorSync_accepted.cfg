SPECIFICATION FairSpec
CONSTANTS
  r3 = r3
  drive = drive
  site = site
  Runs = {r1, r2}
  Connectors = {drive, site}
  ConnectorOf <- MCConnectorOf
  Delegated = {}
  Callers = {k1}
  Readers = {reader}
  Reaper = reaper
  MaxConcurrent = 1
  MaxCrashes = 0
  MaxErrors = 0
PROPERTIES AcceptedRunExecutes
CHECK_DEADLOCK FALSE
