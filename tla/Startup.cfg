SPECIFICATION StartupSpec
CONSTANTS
  Procs <- MCProcs
  Role <- MCRole
  NumFiles = 2
  Breakages <- MCBreakages
  MaxFaults = 1
  MaxDeaths = 1
  Nobody = Nobody
INVARIANTS
  StartupTypeOK
  ServingOnFullSchema
  AppliedInOrder
PROPERTIES
  WorkersComeUp
