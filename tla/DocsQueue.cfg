\* Two requests of either kind by two clients, a gardener that fails anywhere, a stop and a restart at any step.
SPECIFICATION FairSpec
CONSTANTS
  None = None
  Dirs <- Tree
  Above <- Parents
  Touched <- Changes
  Found <- Reported
  MaxDirs = 2
  Clients = {p1, p2}
  MaxRequests = 2
  MaxRestarts = 1
INVARIANTS
  OutdatedIsAccounted
  HandledOnce
PROPERTIES
  QueueDrains
  StopReturns
CHECK_DEADLOCK FALSE
