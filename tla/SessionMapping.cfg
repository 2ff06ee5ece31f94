\* Two requests at once, three in all, two failures of opencode or of the disk, a stop at any step.
SPECIFICATION Spec
CONSTANTS
  work = work
  chat = chat
  s1 = s1
  s2 = s2
  old = old
  new1 = new1
  new2 = new2
  None = None
  Unassigned = Unassigned
  Sessions <- FourSessions
  Changes <- ThreeChanges
  Old = old
  Work = work
  Tasks = {t}
  Procs = {p1, p2}
  Chat = chat
  MaxCalls = 3
  MaxFaults = 2
  MaxRestarts = 1
INVARIANTS
  NothingLeaks
  ScaffoldsOnce
  SpawnedOnce
  NoGhosts
  MemoryIsSaved
SYMMETRY Alike
CHECK_DEADLOCK FALSE
