CONSTANTS
  new = new
  twin = twin
  old = old
  None = None
  Runners = {new, twin, old}
  Plan <- MCPlan
  Statements = 2
  CONVERSION = 2
  Databases <- MCDatabases
  MaxRuns = 2
SPECIFICATION FairSpec
INVARIANTS TypeOK Recoverable NoBreakingRowConverted
PROPERTIES ImplementsUpgrade EveryRunEnds
CHECK_DEADLOCK FALSE
