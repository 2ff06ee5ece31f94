\* Two overlapping calls of every kind, with a foreign edit at any step.
SPECIFICATION Spec
CONSTANTS
  Clients = {c1, c2}
  Watcher = w
  None = None
  Unreadable = Unreadable
  s0 = s0
  s1 = s1
  s2 = s2
  Slugs <- MCSlugs
  MaxChildSeq = 1
  Calls <- EveryCall
  ExternalDocs <- OneForeignDoc
  InitDocs <- ReadyOnly
  PromptReload = TRUE
  MaxCalls = 2
  MaxExternal = 1
  MaxRestarts = 0
PROPERTY
  AppliesToFreshRead
SYMMETRY ClientSymmetry
CHECK_DEADLOCK FALSE
