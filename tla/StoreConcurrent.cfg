\* Two overlapping calls, a foreign edit, even an unreadable one, and a restart at any step: liveness too.
SPECIFICATION FairSpec
CONSTANTS
  Clients = {c1, c2}
  Watcher = w
  None = None
  Unreadable = Unreadable
  s0 = s0
  s1 = s1
  s2 = s2
  Slugs <- MCSlugs
  MaxChildSeq = 1
  Calls <- CollidingCalls
  ExternalDocs <- BrokenOrDrifted
  InitDocs <- FreshOnly
  PromptReload = TRUE
  MaxCalls = 2
  MaxExternal = 1
  MaxRestarts = 1
INVARIANTS
  StalenessPending
  StatusFollowsTasks
  ListedTasksHaveProse
PROPERTY
  ComesToRest
CHECK_DEADLOCK FALSE
