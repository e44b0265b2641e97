SPECIFICATION Spec
CONSTANTS
  conn = conn
  Runs = {r1, r2}
  Connectors = {conn}
  ConnectorOf <- MCConnectorOf
  Users = {u1, u2}
  MaxLosses = 1
INVARIANTS TypeOK RunningIsBacked
PROPERTIES OwnVerdictStands
SYMMETRY RunSymmetry
CHECK_DEADLOCK FALSE
