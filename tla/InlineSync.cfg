SPECIFICATION InlineSpec
CONSTANTS
  main = main
  Runs = {r1, r2, r3}
  Connectors = {main}
  ConnectorOf <- MCConnectorOf
  Delegated = {}
  Callers = {k1}
  Readers = {}
  Reaper = reaper
  MaxConcurrent = 1
  MaxCrashes = 1
  MaxErrors = 1
  Docs = {d1, d2}
  SourceOf <- MCSourceOf
  Adapters <- MCAdapters
  CheckpointEvery = 1
  MaxChanges = 2
  MaxOpened = 3
INVARIANTS WorkOK UnchangedIsStored StoredIsRecorded
PROPERTIES MirrorsSource
SYMMETRY DocSymmetry
CHECK_DEADLOCK FALSE
