\* Two requests at once, three in all, one edit of another hub, one failure.
SPECIFICATION SmallSpec
CONSTANTS
  a = a
  b = b
  x = x
  x2 = x2
  None = None
  Unreadable = Unreadable
  Paths <- TwoPaths
  Slugs <- TwoSlugs
  Candidate <- Names
  Slots = {1, 2, 3, 4, 5}
  Procs = {p1, p2}
  MaxCalls = 3
  MaxEdits = 1
  MaxFaults = 1
INVARIANTS
  OpenIsOwned
  ReadyIsServed
  LookConverges
  SomebodyMoves
CHECK_DEADLOCK FALSE
SYMMETRY Alike
