\* Two requests at once, three in all, three revisions, two failures, a restart.
SPECIFICATION FairSpec
CONSTANTS
  Clients = {c1, c2}
  None = None
  MaxCalls = 3
  MaxFaults = 2
  MaxRestarts = 1
  MaxRevision = 3
INVARIANTS
  ChosenTitleKept
  TitlesAgree
  PromotedOnce
PROPERTY
  PendingIsNamed
CHECK_DEADLOCK FALSE
